----------------------------- MODULE TcpClient -----------------------------
(***************************************************************************)
(* The cloud connection: src/src/tasks/tcp_client_task.c, with the tasks    *)
(* that send through it and the sockets of the TCP server beside it.        *)
(*                                                                         *)
(* One task (tcp_client_task) owns the life of the connection.  Two others, *)
(* the RS485 service task and the FreeRTOS timer task of the heartbeat,     *)
(* call tcp_client_task_send().  They read s_tcp_client without a lock:     *)
(* s_tcp_client.mutex is created and never taken.  Every access of the      *)
(* shared fields sock, tls, use_tls and state is a step of its own, but that *)
(* CheckSock reads sock and state at once: one after the other they let a    *)
(* sender pass between ClearSock and Withdraw too, where a sender that passed *)
(* before ClearSock may be just as well.                                    *)
(*                                                                         *)
(* The bytes are abstracted away: receiving, handling and answering data    *)
(* inside the receive loop changes nothing here (Downlink has it),          *)
(* nor does the client's own heartbeat, sent by the task that owns the      *)
(* connection.                                                              *)
(***************************************************************************)
EXTENDS SocketTable

CONSTANTS
    Ctx,          \* heap cells an esp_tls_t may be allocated in
    NullCtx,      \* the NULL pointer
    Senders,      \* tasks calling tcp_client_task_send()
    GuardedSenders, \* those whose caller checks is_connected() first (RS485)
    Holders       \* places of the TCP server that keep an accepted socket

ASSUME CtxAssumption == NullCtx \notin Ctx
ASSUME SendersAssumption == GuardedSenders \subseteq Senders
ASSUME HoldersAssumption == {"client", Unused} \cap Holders = {}

VARIABLES
    pc,        \* where tcp_client_task is
    sock,      \* s_tcp_client.sock
    state,     \* s_tcp_client.state
    tls,       \* s_tcp_client.tls
    useTls,    \* s_tcp_client.use_tls
    heap,      \* what each cell of the heap holds
    fdTab,     \* lwIP's table of open sockets
    held,      \* the descriptor each holder of the TCP server remembers
    wifi,      \* wifi_task_is_connected()
    spc,       \* where each sender is
    sptr       \* the esp_tls_t pointer each sender has picked up

conn    == <<sock, state, tls, useTls>>
sockets == <<fdTab, held>>
sending == <<spc, sptr>>
vars    == <<pc, conn, heap, sockets, wifi, sending>>

-----------------------------------------------------------------------------
(* The places of tcp_client_task.  "sleep" is every vTaskDelay of the       *)
(* reconnection delay; the others are named for what the task does next.    *)

PcEstablish == {"wifi", "resolve", "socket", "dial", "connect", "dropConnect",
                "handshake", "dropHandshake", "forget", "setUseTls", "publish"}
PcTearDown == {"deleteTls", "clearTls", "closeSock", "clearSock", "withdraw",
               "clearUseTls"}
PcAll == PcEstablish \cup {"receive", "sleep"} \cup PcTearDown

\* CONNECTED is declared by the enum too; no statement ever assigns it.
States == {"DISCONNECTED", "CONNECTING", "TLS_HANDSHAKE", "READY"}

TypeOK ==
    /\ pc \in PcAll
    /\ sock \in Fds \cup {NoFd}
    /\ state \in States
    /\ tls \in Ctx \cup {NullCtx}
    /\ useTls \in BOOLEAN
    /\ heap \in [Ctx -> {"free", "raw", "initialized"}]
    /\ fdTab \in [Fds -> {Unused, "client"} \cup Holders]
    /\ held \in [Holders -> Fds \cup {NoFd}]
    /\ wifi \in BOOLEAN
    /\ spc \in [Senders -> {"idle", "send", "check", "pick", "load", "writeTls", "writePlain"}]
    /\ sptr \in [Senders -> Ctx \cup {NullCtx}]

Init ==
    /\ pc = "wifi"
    /\ sock = NoFd
    /\ state = "DISCONNECTED"
    /\ tls = NullCtx
    /\ useTls = FALSE
    /\ heap = [c \in Ctx |-> "free"]
    /\ fdTab = EmptyTable
    /\ held = [h \in Holders |-> NoFd]
    /\ wifi = FALSE
    /\ spc = [s \in Senders |-> "idle"]
    /\ sptr = [s \in Senders |-> NullCtx]

Goto(from, to) == pc = from /\ pc' = to

\* The descriptor in s_tcp_client.sock still is the connection the task opened.
OwnsSock == sock \in Fds /\ fdTab[sock] = "client"

\* The context calloc() gave the handshake under way, if it gave one.
RawCtx == {c \in Ctx : heap[c] = "raw"}

SenderGoto(s, from, to) == spc[s] = from /\ spc' = [spc EXCEPT ![s] = to]

-----------------------------------------------------------------------------
(* Variants of single steps, each with one mistake a change to the code      *)
(* could make.  No specification uses them: every property below is checked  *)
(* to fail when its variant takes the place of the step.                     *)

\* Waiting while WiFi is connected instead of while it is not.
AwaitWifiInverted ==
    /\ Goto("wifi", "resolve")
    /\ ~wifi
    /\ UNCHANGED <<conn, heap, sockets, wifi, sending>>

\* Assigning the enum's unused CONNECTED.
DialConnected ==
    /\ Goto("dial", "connect")
    /\ state' = "CONNECTED"
    /\ UNCHANGED <<sock, tls, useTls, heap, sockets, wifi, sending>>

\* Storing the context in s_tcp_client.tls before its handshake.
ConnectOkPublishes ==
    /\ Goto("connect", "handshake")
    /\ OwnsSock
    /\ state' = "TLS_HANDSHAKE"
    /\ \E c \in Ctx :
        /\ heap[c] = "free"
        /\ heap' = [heap EXCEPT ![c] = "raw"]
        /\ tls' = c
    /\ UNCHANGED <<sock, useTls, sockets, wifi, sending>>

\* Returning from a failed connect() without close().
ConnectFailLeaks ==
    /\ Goto("connect", "sleep")
    /\ sock' = NoFd
    /\ UNCHANGED <<state, tls, useTls, heap, sockets, wifi, sending>>

\* Not looking whether esp_tls_conn_new_sync() returned NULL.
HandshakeNoMemoryIgnored ==
    /\ Goto("handshake", "setUseTls")
    /\ RawCtx = {}
    /\ tls' = NullCtx
    /\ UNCHANGED <<sock, state, useTls, heap, sockets, wifi, sending>>

\* Forgetting use_tls = true.
SetUseTlsForgotten ==
    /\ Goto("setUseTls", "publish")
    /\ UNCHANGED <<conn, heap, sockets, wifi, sending>>

\* Closing the socket of a failed connect() a second time.
DropConnectCloses ==
    /\ Goto("dropConnect", "sleep")
    /\ sock' = NoFd
    /\ fdTab' = Close(fdTab, sock)
    /\ UNCHANGED <<state, tls, useTls, heap, held, wifi, sending>>

\* A sender that deletes the context when its write fails.
WriteDeletes(s) ==
    /\ SenderGoto(s, "writeTls", "idle")
    /\ heap' = [heap EXCEPT ![sptr[s]] = "free"]
    /\ sptr' = [sptr EXCEPT ![s] = NullCtx]
    /\ UNCHANGED <<pc, conn, sockets, wifi>>

-----------------------------------------------------------------------------
(* Establishing a connection *)

AwaitWifi ==
    /\ Goto("wifi", "resolve")
    /\ wifi
    /\ UNCHANGED <<conn, heap, sockets, wifi, sending>>

\* Reading host and port from the parameters and getaddrinfo().
ResolveOk ==
    /\ Goto("resolve", "socket")
    /\ UNCHANGED <<conn, heap, sockets, wifi, sending>>

ResolveFail ==
    /\ Goto("resolve", "sleep")
    /\ UNCHANGED <<conn, heap, sockets, wifi, sending>>

OpenSocketOk ==
    /\ Goto("socket", "dial")
    /\ \E f \in Fds :
        /\ IsNextFd(fdTab, f)
        /\ sock' = f
        /\ fdTab' = OpenAs(fdTab, f, "client")
    /\ UNCHANGED <<state, tls, useTls, heap, held, wifi, sending>>

\* The table is full, or lwIP is out of memory; state keeps its old value.
OpenSocketFail ==
    /\ Goto("socket", "sleep")
    /\ sock' = NoFd
    /\ UNCHANGED <<state, tls, useTls, heap, sockets, wifi, sending>>

Dial ==
    /\ Goto("dial", "connect")
    /\ state' = "CONNECTING"
    /\ UNCHANGED <<sock, tls, useTls, heap, sockets, wifi, sending>>

ConnectOk ==
    /\ Goto("connect", "handshake")
    /\ OwnsSock
    /\ state' = "TLS_HANDSHAKE"
    /\ \/ \E c \in Ctx :                     \* calloc() of the esp_tls_t
            heap[c] = "free" /\ heap' = [heap EXCEPT ![c] = "raw"]
       \/ UNCHANGED heap                     \* calloc() returned NULL
    /\ UNCHANGED <<sock, tls, useTls, sockets, wifi, sending>>

\* close() and only then sock = -1; the state stays CONNECTING.
ConnectFail ==
    /\ Goto("connect", "dropConnect")
    /\ fdTab' = Close(fdTab, sock)
    /\ UNCHANGED <<conn, heap, held, wifi, sending>>

DropConnect ==
    /\ Goto("dropConnect", "sleep")
    /\ sock' = NoFd
    /\ UNCHANGED <<state, tls, useTls, heap, sockets, wifi, sending>>

-----------------------------------------------------------------------------
(* The TLS handshake: esp_tls_conn_new_sync() *)

\* tls points to the context only after the handshake has completed.
HandshakeOk ==
    /\ Goto("handshake", "setUseTls")
    /\ OwnsSock
    /\ \E c \in RawCtx :
        /\ heap' = [heap EXCEPT ![c] = "initialized"]
        /\ tls' = c
    /\ UNCHANGED <<sock, state, useTls, sockets, wifi, sending>>

\* The error path: mbedtls_net_free() closes the socket, the context is freed.
HandshakeFail ==
    /\ Goto("handshake", "dropHandshake")
    /\ RawCtx # {}
    /\ fdTab' = Close(fdTab, sock)
    /\ heap' = [c \in Ctx |-> IF heap[c] = "raw" THEN "free" ELSE heap[c]]
    /\ tls' = NullCtx
    /\ UNCHANGED <<sock, state, useTls, held, wifi, sending>>

\* calloc() had failed: NULL comes back before anything was touched.
HandshakeNoMemory ==
    /\ Goto("handshake", "dropHandshake")
    /\ RawCtx = {}
    /\ tls' = NullCtx
    /\ UNCHANGED <<sock, state, useTls, heap, sockets, wifi, sending>>

\* close(sock) again: the number may stand for another connection by now.
DropHandshake ==
    /\ Goto("dropHandshake", "forget")
    /\ fdTab' = Close(fdTab, sock)
    /\ UNCHANGED <<conn, heap, held, wifi, sending>>

ForgetHandshake ==
    /\ Goto("forget", "sleep")
    /\ sock' = NoFd
    /\ state' = "DISCONNECTED"
    /\ UNCHANGED <<tls, useTls, heap, sockets, wifi, sending>>

SetUseTls ==
    /\ Goto("setUseTls", "publish")
    /\ useTls' = TRUE
    /\ UNCHANGED <<sock, state, tls, heap, sockets, wifi, sending>>

Publish ==
    /\ Goto("publish", "receive")
    /\ state' = "READY"
    /\ UNCHANGED <<sock, tls, useTls, heap, sockets, wifi, sending>>

-----------------------------------------------------------------------------
(* The receive loop ends, on an error or because the server closed, and the *)
(* task takes the connection down in this order.                            *)

ReceiveEnds ==
    /\ Goto("receive", "deleteTls")
    /\ UNCHANGED <<conn, heap, sockets, wifi, sending>>

\* esp_tls_conn_delete(): mbedtls_net_free() closes the socket, then free().
DeleteTls ==
    /\ Goto("deleteTls", "clearTls")
    /\ fdTab' = Close(fdTab, sock)
    /\ heap' = [heap EXCEPT ![tls] = "free"]
    /\ UNCHANGED <<conn, held, wifi, sending>>

ClearTls ==
    /\ Goto("clearTls", "closeSock")
    /\ tls' = NullCtx
    /\ UNCHANGED <<sock, state, useTls, heap, sockets, wifi, sending>>

\* The second close() of the same number.
CloseSock ==
    /\ Goto("closeSock", "clearSock")
    /\ fdTab' = Close(fdTab, sock)
    /\ UNCHANGED <<conn, heap, held, wifi, sending>>

ClearSock ==
    /\ Goto("clearSock", "withdraw")
    /\ sock' = NoFd
    /\ UNCHANGED <<state, tls, useTls, heap, sockets, wifi, sending>>

Withdraw ==
    /\ Goto("withdraw", "clearUseTls")
    /\ state' = "DISCONNECTED"
    /\ UNCHANGED <<sock, tls, useTls, heap, sockets, wifi, sending>>

ClearUseTls ==
    /\ Goto("clearUseTls", "sleep")
    /\ useTls' = FALSE
    /\ UNCHANGED <<sock, state, tls, heap, sockets, wifi, sending>>

Retry ==
    /\ Goto("sleep", "wifi")
    /\ UNCHANGED <<conn, heap, sockets, wifi, sending>>

-----------------------------------------------------------------------------
(* Sending: tcp_client_task_send() and tcp_client_send_callback(), called   *)
(* by other tasks at any time.                                              *)

\* rs485_frame_to_tcp_callback asks is_connected() first, the heartbeat does not.
BeginSend(s) ==
    /\ SenderGoto(s, "idle", "send")
    /\ s \in GuardedSenders => state = "READY"
    /\ UNCHANGED <<pc, conn, heap, sockets, wifi, sptr>>

IsConnected(s) ==
    /\ SenderGoto(s, "send", IF state = "READY" THEN "check" ELSE "idle")
    /\ UNCHANGED <<pc, conn, heap, sockets, wifi, sptr>>

CheckSock(s) ==
    /\ SenderGoto(s, "check",
                  IF sock = NoFd \/ state # "READY" THEN "idle" ELSE "pick")
    /\ UNCHANGED <<pc, conn, heap, sockets, wifi, sptr>>

\* What use_tls and tls say now need not belong to the connection whose state the
\* sender has checked.
TestUseTls(s) ==
    /\ SenderGoto(s, "pick", IF useTls THEN "load" ELSE "writePlain")
    /\ UNCHANGED <<pc, conn, heap, sockets, wifi, sptr>>

\* The test of tls and the call that follows use one load of it.
LoadTls(s) ==
    /\ SenderGoto(s, "load", IF tls # NullCtx THEN "writeTls" ELSE "writePlain")
    /\ sptr' = [sptr EXCEPT ![s] = tls]
    /\ UNCHANGED <<pc, conn, heap, sockets, wifi>>

Write(s) ==
    /\ \/ SenderGoto(s, "writeTls", "idle")
       \/ SenderGoto(s, "writePlain", "idle")
    /\ sptr' = [sptr EXCEPT ![s] = NullCtx]
    /\ UNCHANGED <<pc, conn, heap, sockets, wifi>>

Send(s) ==
    \/ BeginSend(s) \/ IsConnected(s) \/ CheckSock(s)
    \/ TestUseTls(s) \/ LoadTls(s) \/ Write(s)

-----------------------------------------------------------------------------
(* The environment: the TCP server's sockets, and WiFi *)

ServerAccepts(h) ==
    /\ held[h] = NoFd
    /\ \E f \in Fds :
        /\ IsNextFd(fdTab, f)
        /\ fdTab' = OpenAs(fdTab, f, h)
        /\ held' = [held EXCEPT ![h] = f]
    /\ UNCHANGED <<pc, conn, heap, wifi, sending>>

ServerCloses(h) ==
    /\ held[h] # NoFd
    /\ fdTab' = Close(fdTab, held[h])
    /\ held' = [held EXCEPT ![h] = NoFd]
    /\ UNCHANGED <<pc, conn, heap, wifi, sending>>

WifiUp ==
    /\ ~wifi
    /\ wifi' = TRUE
    /\ UNCHANGED <<pc, conn, heap, sockets, sending>>

WifiDown ==
    /\ wifi
    /\ wifi' = FALSE
    /\ UNCHANGED <<pc, conn, heap, sockets, sending>>

-----------------------------------------------------------------------------
Establish ==
    \/ AwaitWifi \/ ResolveOk \/ ResolveFail \/ OpenSocketOk \/ OpenSocketFail
    \/ Dial \/ ConnectOk \/ ConnectFail \/ DropConnect
    \/ HandshakeOk \/ HandshakeFail \/ HandshakeNoMemory
    \/ DropHandshake \/ ForgetHandshake \/ SetUseTls \/ Publish

TearDown ==
    \/ DeleteTls \/ ClearTls \/ CloseSock \/ ClearSock
    \/ Withdraw \/ ClearUseTls \/ Retry

Environment ==
    \/ \E h \in Holders : ServerAccepts(h) \/ ServerCloses(h)
    \/ WifiUp \/ WifiDown

Next ==
    \/ Establish
    \/ ReceiveEnds
    \/ TearDown
    \/ \E s \in Senders : Send(s)
    \/ Environment

Spec == Init /\ [][Next]_vars

(***************************************************************************)
(* Fairness.  FreeRTOS runs every ready task in the end: weak fairness for  *)
(* each step the task takes by itself and for connect(), which lwIP times   *)
(* out.  The handshake and the read block for as long as the server is      *)
(* silent (no timeout is set on the socket): no fairness for them.  The     *)
(* network is assumed to come back: WiFi in the end, and a resolver and a   *)
(* socket() that do not fail for ever.                                      *)
(***************************************************************************)
TaskFairness ==
    /\ WF_vars(Dial) /\ WF_vars(ConnectOk \/ ConnectFail) /\ WF_vars(DropConnect)
    /\ WF_vars(ResolveOk \/ ResolveFail) /\ WF_vars(OpenSocketOk \/ OpenSocketFail)
    /\ WF_vars(DropHandshake) /\ WF_vars(ForgetHandshake)
    /\ WF_vars(SetUseTls) /\ WF_vars(Publish) /\ WF_vars(TearDown)

NetworkFairness ==
    /\ WF_vars(WifiUp) /\ SF_vars(AwaitWifi)
    /\ SF_vars(ResolveOk) /\ SF_vars(OpenSocketOk)

FairSpec == Spec /\ TaskFairness /\ NetworkFairness

-----------------------------------------------------------------------------
(* Properties *)

\* Between two attempts the task holds nothing: no socket it opened is still
\* open, whichever of the two close() calls found it, and no context lives.
NothingLeftBehind ==
    pc \in {"wifi", "resolve", "socket", "sleep"} =>
        /\ OpenedBy(fdTab, "client") = {}
        /\ \A c \in Ctx : heap[c] = "free"

\* A context other tasks can reach through s_tcp_client.tls has completed its
\* handshake, or is freed: never one that is still being set up.
PublishedContextIsInitialized ==
    tls # NullCtx => heap[tls] # "raw"

\* Until the teardown begins, READY tells the truth: a sender that passes the
\* check finds the TLS path and a live context, never the plain send().
ReadyHasSession ==
    state = "READY" /\ pc \notin PcTearDown =>
        useTls /\ tls # NullCtx /\ heap[tls] = "initialized" /\ sock # NoFd

\* If sender s is about to write, it writes to the session that is up.
WritesToSession(s) ==
    /\ spc[s] # "writePlain"
    /\ spc[s] = "writeTls" =>
            sptr[s] # NullCtx /\ sptr[s] = tls /\ heap[sptr[s]] = "initialized"

\* From use_tls = true to the end of the receive loop no sender comes to write in the
\* clear, or through a context that is freed or another session's: not even one that
\* checked the state of an earlier session, nor by what another sender does.
SendersGoWrongOutsideSession ==
    [][\A s \in Senders : WritesToSession(s) /\ ~WritesToSession(s)'
            => pc \notin {"publish", "receive"}]_vars

\* Every party of the descriptor table still has what it opened: each holder of the
\* server the socket it remembers, the client its connection up to the first close().
AllOwn ==
    /\ \A h \in Holders : held[h] # NoFd => fdTab[held[h]] = h
    /\ pc \in {"dial", "connect", "handshake", "setUseTls", "publish", "receive", "deleteTls"}
        => OwnsSock

\* Sockets get mixed up nowhere but at the second close() of a number, after a failed
\* handshake or in the teardown: whatever is lost later follows from that.
MixUpsStartAtSecondClose ==
    [][AllOwn /\ ~AllOwn' => pc \in {"dropHandshake", "closeSock"}]_vars

\* Automatic reconnection: once the receive loop has ended, a new connection
\* is attempted.
Reconnects == (pc = "deleteTls") ~> (state = "CONNECTING")

Link == INSTANCE CloudLink WITH
            link <- state,
            session <- IF \E c \in Ctx : heap[c] = "initialized"
                         THEN "sealed" ELSE "none"

\* The task implements the cloud connection it promises to the other tasks.
ImplementsCloudLink == Link!Spec

-----------------------------------------------------------------------------
(* Statements of the documentation the code does not keep *)

\* tcp_client_task_is_connected: "true if connected, false otherwise".
ConnectedMeansUsable ==
    state = "READY" => tls # NullCtx /\ heap[tls] = "initialized"

\* "Supports multiple concurrent client connections": the socket of a client
\* the server serves stays open until the server closes it.
ServerKeepsItsSockets ==
    \A h \in Holders : held[h] # NoFd => fdTab[held[h]] = h

=============================================================================
