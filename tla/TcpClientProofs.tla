-------------------------- MODULE TcpClientProofs --------------------------
(***************************************************************************)
(* The safety of the cloud connection, for any number of descriptors,       *)
(* senders, heap cells and sockets of the TCP server.                       *)
(*                                                                         *)
(* The properties speak of single places of the task (between attempts,     *)
(* before the teardown).  The inductive invariant says what the task holds   *)
(* at every place: where a socket of its own may be open, where a context   *)
(* may live and which pointer leads to it, and where READY may be seen.     *)
(***************************************************************************)
EXTENDS TcpClient, TLAPS

\* Where a socket the task opened may still be open.
PcOwning == {"dial", "connect", "handshake", "dropHandshake",
             "setUseTls", "publish", "receive", "deleteTls"}

\* Where a context with a completed handshake lives.
PcLive == {"setUseTls", "publish", "receive", "deleteTls"}

\* Where s_tcp_client.sock holds a descriptor, open or closed.
PcSock == PcOwning \cup {"dropConnect", "forget", "clearTls", "closeSock", "clearSock"}

SocketInv ==
    /\ \A f \in Fds : fdTab[f] = "client" => f = sock /\ pc \in PcOwning
    /\ pc \in PcSock => sock \in Fds

HeapInv ==
    /\ \A c \in Ctx : heap[c] = "raw" => pc = "handshake"
    /\ \A c, d \in Ctx : heap[c] = "raw" /\ heap[d] = "raw" => c = d
    /\ \A c \in Ctx : heap[c] = "initialized" => pc \in PcLive /\ c = tls

PointerInv ==
    /\ tls # NullCtx => pc \in PcLive \cup {"clearTls"}
    /\ pc \in PcLive => tls # NullCtx /\ heap[tls] = "initialized"
    /\ pc \in {"publish", "receive"} => useTls

\* What other tasks see of the connection: a failed connect() leaves CONNECTING.
StateInv ==
    /\ pc \in {"wifi", "resolve", "socket", "dial", "sleep"} =>
            state \in {"DISCONNECTED", "CONNECTING"}
    /\ pc \in {"connect", "dropConnect"} => state = "CONNECTING"
    /\ pc \in {"handshake", "dropHandshake", "forget", "setUseTls", "publish"} =>
            state = "TLS_HANDSHAKE"
    /\ pc \in {"receive"} \cup (PcTearDown \ {"clearUseTls"}) => state = "READY"
    /\ pc = "clearUseTls" => state = "DISCONNECTED"

IInv == TypeOK /\ SocketInv /\ HeapInv /\ PointerInv /\ StateInv

-----------------------------------------------------------------------------
(* The two operations of the descriptor table the firmware uses. *)

Parties == {Unused, "client"} \cup Holders

\* socket() and accept() give one entry to the caller and leave the others alone.
LEMMA OpenAsEntries ==
    ASSUME fdTab \in [Fds -> Parties], NEW f \in Fds, NEW p \in Parties,
           fdTab' = OpenAs(fdTab, f, p)
    PROVE  /\ fdTab' \in [Fds -> Parties]
           /\ \A g \in Fds : fdTab'[g] = IF g = f THEN p ELSE fdTab[g]
BY DEF OpenAs

\* close() empties one entry, if there is one, and leaves the others alone.
LEMMA CloseEntries ==
    ASSUME fdTab \in [Fds -> Parties], NEW f, fdTab' = Close(fdTab, f)
    PROVE  /\ fdTab' \in [Fds -> Parties]
           /\ \A g \in Fds : fdTab'[g] = IF g = f THEN Unused ELSE fdTab[g]
BY DEF Close, Parties

-----------------------------------------------------------------------------
LEMMA InitIInv == Init => IInv
BY CtxAssumption, HoldersAssumption
   DEF Init, IInv, TypeOK, SocketInv, HeapInv, PointerInv, StateInv, EmptyTable,
       PcAll, PcEstablish, PcTearDown, PcOwning, PcLive, PcSock, States, Unused, NoFd

\* From waiting for WiFi to READY, or to one of the failures on the way.
LEMMA EstablishIInv == IInv /\ Establish => IInv'
<1> SUFFICES ASSUME IInv, Establish PROVE IInv'
    OBVIOUS
<1> USE CtxAssumption, HoldersAssumption
    DEF IInv, TypeOK, SocketInv, HeapInv, PointerInv, StateInv, conn, sockets, sending,
        PcAll, PcEstablish, PcTearDown, PcOwning, PcLive, PcSock, States, Goto
<1>1. CASE AwaitWifi BY <1>1 DEF AwaitWifi
<1>2. CASE ResolveOk BY <1>2 DEF ResolveOk
<1>3. CASE ResolveFail BY <1>3 DEF ResolveFail
<1>4. CASE OpenSocketOk
  <2> PICK f \in Fds : sock' = f /\ fdTab' = OpenAs(fdTab, f, "client")
      BY <1>4 DEF OpenSocketOk
  <2>1. /\ fdTab' \in [Fds -> Parties]
        /\ \A g \in Fds : fdTab'[g] = IF g = f THEN "client" ELSE fdTab[g]
      BY OpenAsEntries DEF Parties
  <2> QED BY <1>4, <2>1 DEF OpenSocketOk, Parties
<1>5. CASE OpenSocketFail BY <1>5 DEF OpenSocketFail
<1>6. CASE Dial BY <1>6 DEF Dial
<1>7. CASE ConnectOk BY <1>7 DEF ConnectOk
<1>8. CASE ConnectFail
  <2>1. /\ fdTab' \in [Fds -> Parties]
        /\ \A g \in Fds : fdTab'[g] = IF g = sock THEN Unused ELSE fdTab[g]
      BY <1>8, CloseEntries DEF Parties, ConnectFail
  <2> QED BY <1>8, <2>1 DEF ConnectFail, Unused, Parties
<1>9. CASE DropConnect BY <1>9 DEF DropConnect
<1>10. CASE HandshakeOk BY <1>10 DEF HandshakeOk, RawCtx
<1>11. CASE HandshakeFail
  <2>1. /\ fdTab' \in [Fds -> Parties]
        /\ \A g \in Fds : fdTab'[g] = IF g = sock THEN Unused ELSE fdTab[g]
      BY <1>11, CloseEntries DEF Parties, HandshakeFail
  <2> QED BY <1>11, <2>1 DEF HandshakeFail, Unused, Parties
<1>12. CASE HandshakeNoMemory BY <1>12 DEF HandshakeNoMemory, RawCtx
<1>13. CASE DropHandshake
  <2>1. /\ fdTab' \in [Fds -> Parties]
        /\ \A g \in Fds : fdTab'[g] = IF g = sock THEN Unused ELSE fdTab[g]
      BY <1>13, CloseEntries DEF Parties, DropHandshake
  <2> QED BY <1>13, <2>1 DEF DropHandshake, Unused, Parties
<1>14. CASE ForgetHandshake BY <1>14 DEF ForgetHandshake
<1>15. CASE SetUseTls BY <1>15 DEF SetUseTls
<1>16. CASE Publish BY <1>16 DEF Publish
<1> QED BY <1>1, <1>2, <1>3, <1>4, <1>5, <1>6, <1>7, <1>8, <1>9, <1>10, <1>11, <1>12,
           <1>13, <1>14, <1>15, <1>16 DEF Establish

\* The socket is closed twice on the way; the first close() ends its ownership.
LEMMA TearDownIInv == IInv /\ (ReceiveEnds \/ TearDown) => IInv'
<1> SUFFICES ASSUME IInv, ReceiveEnds \/ TearDown PROVE IInv'
    OBVIOUS
<1> USE CtxAssumption, HoldersAssumption
    DEF IInv, TypeOK, SocketInv, HeapInv, PointerInv, StateInv, conn, sockets, sending,
        PcAll, PcEstablish, PcTearDown, PcOwning, PcLive, PcSock, States, Goto
<1>1. CASE ReceiveEnds BY <1>1 DEF ReceiveEnds
<1>2. CASE DeleteTls
  <2>1. /\ fdTab' \in [Fds -> Parties]
        /\ \A g \in Fds : fdTab'[g] = IF g = sock THEN Unused ELSE fdTab[g]
      BY <1>2, CloseEntries DEF Parties, DeleteTls
  <2> QED BY <1>2, <2>1 DEF DeleteTls, Unused, Parties
<1>3. CASE ClearTls BY <1>3 DEF ClearTls
<1>4. CASE CloseSock
  <2>1. /\ fdTab' \in [Fds -> Parties]
        /\ \A g \in Fds : fdTab'[g] = IF g = sock THEN Unused ELSE fdTab[g]
      BY <1>4, CloseEntries DEF Parties, CloseSock
  <2> QED BY <1>4, <2>1 DEF CloseSock, Unused, Parties
<1>5. CASE ClearSock BY <1>5 DEF ClearSock
<1>6. CASE Withdraw BY <1>6 DEF Withdraw
<1>7. CASE ClearUseTls BY <1>7 DEF ClearUseTls
<1>8. CASE Retry BY <1>8 DEF Retry
<1> QED BY <1>1, <1>2, <1>3, <1>4, <1>5, <1>6, <1>7, <1>8 DEF TearDown

\* A sender writes its own place and pointer only.
LEMMA SendIInv == IInv /\ (\E s \in Senders : Send(s)) => IInv'
<1> SUFFICES ASSUME IInv, NEW s \in Senders, Send(s) PROVE IInv'
    OBVIOUS
<1>1. UNCHANGED <<pc, conn, heap, sockets, wifi>>
    BY DEF Send, BeginSend, IsConnected, CheckSock, TestUseTls, LoadTls, Write
<1>2. spc' \in [Senders -> {"idle", "send", "check", "pick", "load", "writeTls", "writePlain"}]
    BY DEF IInv, TypeOK, Send, BeginSend, IsConnected, CheckSock, TestUseTls, LoadTls, Write, SenderGoto
<1>3. sptr' \in [Senders -> Ctx \cup {NullCtx}]
    BY DEF IInv, TypeOK, Send, BeginSend, IsConnected, CheckSock, TestUseTls, LoadTls, Write
<1> QED
    BY <1>1, <1>2, <1>3
    DEF IInv, TypeOK, SocketInv, HeapInv, PointerInv, StateInv, conn, sockets

\* The server's sockets never become the client's; WiFi moves nothing else.
LEMMA EnvironmentIInv == IInv /\ Environment => IInv'
<1> SUFFICES ASSUME IInv, Environment PROVE IInv'
    OBVIOUS
<1>1. UNCHANGED <<pc, conn, heap, sending>>
    BY DEF Environment, ServerAccepts, ServerCloses, WifiUp, WifiDown
<1>2. /\ fdTab' \in [Fds -> Parties]
      /\ held' \in [Holders -> Fds \cup {NoFd}]
      /\ \A g \in Fds : fdTab'[g] = "client" => fdTab[g] = "client"
  <2>1. ASSUME NEW h \in Holders, ServerAccepts(h) PROVE <1>2
    <3> PICK f \in Fds : fdTab' = OpenAs(fdTab, f, h) /\ held' = [held EXCEPT ![h] = f]
        BY <2>1 DEF ServerAccepts
    <3>1. /\ fdTab' \in [Fds -> Parties]
          /\ \A g \in Fds : fdTab'[g] = IF g = f THEN h ELSE fdTab[g]
        BY OpenAsEntries DEF IInv, TypeOK, Parties
    <3> QED BY <3>1, HoldersAssumption DEF IInv, TypeOK
  <2>2. ASSUME NEW h \in Holders, ServerCloses(h) PROVE <1>2
    <3>1. /\ fdTab' \in [Fds -> Parties]
          /\ \A g \in Fds : fdTab'[g] = IF g = held[h] THEN Unused ELSE fdTab[g]
        BY <2>2, CloseEntries DEF IInv, TypeOK, Parties, ServerCloses
    <3> QED BY <2>2, <3>1 DEF IInv, TypeOK, ServerCloses, Unused
  <2>3. CASE WifiUp BY <2>3 DEF WifiUp, sockets, IInv, TypeOK, Parties
  <2>4. CASE WifiDown BY <2>4 DEF WifiDown, sockets, IInv, TypeOK, Parties
  <2> QED BY <2>1, <2>2, <2>3, <2>4 DEF Environment
<1>3. wifi' \in BOOLEAN
    BY DEF Environment, ServerAccepts, ServerCloses, WifiUp, WifiDown, IInv, TypeOK
<1> QED
    BY <1>1, <1>2, <1>3
    DEF IInv, TypeOK, SocketInv, HeapInv, PointerInv, StateInv, conn, sending, Parties

LEMMA NextIInv == IInv /\ [Next]_vars => IInv'
<1>1. IInv /\ UNCHANGED vars => IInv'
    BY DEF vars, conn, sockets, sending, IInv, TypeOK, SocketInv, HeapInv, PointerInv, StateInv
<1> QED BY <1>1, EstablishIInv, TearDownIInv, SendIInv, EnvironmentIInv DEF Next

\* The inductive invariant holds in every behaviour.
LEMMA SpecIInv == Spec => []IInv
BY InitIInv, NextIInv, PTL DEF Spec

-----------------------------------------------------------------------------
\* Every variable keeps its type: in particular state never becomes the
\* CONNECTED the enum declares.
THEOREM TypeCorrect == Spec => []TypeOK
<1>1. IInv => TypeOK BY DEF IInv
<1> QED BY <1>1, SpecIInv, PTL

\* Whatever failed, and however close() numbers were reused, a new attempt
\* starts with no socket and no context of an earlier one.
THEOREM NoLeak == Spec => []NothingLeftBehind
<1>1. IInv => NothingLeftBehind
    BY DEF IInv, TypeOK, SocketInv, HeapInv, NothingLeftBehind, OpenedBy,
           PcOwning, PcLive
<1> QED BY <1>1, SpecIInv, PTL

\* A context reachable from other tasks is never half initialized.
THEOREM NoHalfBuiltContext == Spec => []PublishedContextIsInitialized
<1>1. IInv => PublishedContextIsInitialized
    BY DEF IInv, TypeOK, HeapInv, PointerInv, PublishedContextIsInitialized, PcLive
<1> QED BY <1>1, SpecIInv, PTL

\* READY is the truth from the end of the handshake to the start of the teardown.
THEOREM ReadyIsTruthful == Spec => []ReadyHasSession
<1>1. IInv => ReadyHasSession
  <2> SUFFICES ASSUME IInv, state = "READY", pc \notin PcTearDown
               PROVE  useTls /\ tls # NullCtx /\ heap[tls] = "initialized" /\ sock # NoFd
      BY DEF ReadyHasSession
  <2>1. pc = "receive"
      BY DEF IInv, TypeOK, StateInv, PcAll, PcEstablish, PcTearDown
  <2> QED BY <2>1 DEF IInv, SocketInv, PointerInv, PcLive, PcSock, PcOwning, Fds, NoFd
<1> QED BY <1>1, SpecIInv, PTL

-----------------------------------------------------------------------------
(* What senders write to *)

\* While the task is in its receive loop the session is there, and use_tls and tls lead to it.
LEMMA SessionIsUp ==
    ASSUME IInv, pc \in {"publish", "receive"}
    PROVE  useTls /\ tls # NullCtx /\ heap[tls] = "initialized"
BY DEF IInv, PointerInv, PcLive

\* No step in between makes a sender go wrong: the task leaves context and pointer
\* alone, and what a sender picks up now belongs to the session.
LEMMA StepKeepsSenders ==
    ASSUME IInv, Next, pc \in {"publish", "receive"}, NEW s \in Senders, WritesToSession(s)
    PROVE  WritesToSession(s)'
<1>1. useTls /\ tls # NullCtx /\ heap[tls] = "initialized"
    BY SessionIsUp
<1>2. ASSUME UNCHANGED <<tls, heap>>, spc'[s] = spc[s], sptr'[s] = sptr[s]
      PROVE  WritesToSession(s)'
    BY <1>2 DEF WritesToSession
<1>3. CASE Publish \/ ReceiveEnds
    BY <1>2, <1>3 DEF Publish, ReceiveEnds, conn, sending
<1>4. ~(Establish /\ ~Publish) /\ ~TearDown
    BY DEF Establish, AwaitWifi, ResolveOk, ResolveFail, OpenSocketOk, OpenSocketFail, Dial,
       ConnectOk, ConnectFail, DropConnect, HandshakeOk, HandshakeFail, HandshakeNoMemory,
       DropHandshake, ForgetHandshake, SetUseTls, TearDown, DeleteTls, ClearTls, CloseSock,
       ClearSock, Withdraw, ClearUseTls, Retry, Goto
<1>5. ASSUME NEW u \in Senders, Send(u) PROVE WritesToSession(s)'
  <2>1. UNCHANGED <<tls, heap>>
      BY <1>5 DEF Send, BeginSend, IsConnected, CheckSock, TestUseTls, LoadTls, Write, conn
  <2>2. CASE u # s
    <3>1. spc'[s] = spc[s] /\ sptr'[s] = sptr[s]
        BY <1>5, <2>2 DEF Send, BeginSend, IsConnected, CheckSock, TestUseTls, LoadTls, Write,
           SenderGoto, IInv, TypeOK
    <3> QED BY <1>2, <2>1, <3>1
  <2>3. CASE u = s
    <3>1. CASE BeginSend(s) \/ IsConnected(s) \/ CheckSock(s) \/ Write(s)
      <4>1. spc'[s] \in {"idle", "send", "check", "pick"}
          BY <3>1 DEF BeginSend, IsConnected, CheckSock, Write, SenderGoto, IInv, TypeOK
      <4> QED BY <4>1 DEF WritesToSession
    <3>2. CASE TestUseTls(s)
      <4>1. spc'[s] = "load"
          BY <1>1, <3>2 DEF TestUseTls, SenderGoto, IInv, TypeOK
      <4> QED BY <4>1 DEF WritesToSession
    <3>3. CASE LoadTls(s)
      <4>1. spc'[s] = "writeTls" /\ sptr'[s] = tls
          BY <1>1, <3>3 DEF LoadTls, SenderGoto, IInv, TypeOK
      <4> QED BY <1>1, <2>1, <4>1 DEF WritesToSession
    <3> QED BY <1>5, <2>3, <3>1, <3>2, <3>3 DEF Send
  <2> QED BY <2>2, <2>3
<1>6. CASE Environment
    BY <1>2, <1>6 DEF Environment, ServerAccepts, ServerCloses, WifiUp, WifiDown, conn, sending
<1> QED BY <1>3, <1>4, <1>5, <1>6 DEF Next

\* Whatever senders were held up, and wherever: from use_tls = true to the end of the
\* receive loop none of them turns to a freed context, another session or the plain path.
THEOREM SessionKeepsSenders == Spec => SendersGoWrongOutsideSession
<1>1. IInv /\ [Next]_vars =>
        [\A s \in Senders : WritesToSession(s) /\ ~WritesToSession(s)'
            => pc \notin {"publish", "receive"}]_vars
    BY StepKeepsSenders
<1> QED BY <1>1, SpecIInv, PTL DEF Spec, SendersGoWrongOutsideSession

-----------------------------------------------------------------------------
(* Who mixes up sockets *)

\* Where the connection has not been closed yet.
PcHolding == {"dial", "connect", "handshake", "setUseTls", "publish", "receive", "deleteTls"}

HoldersOwn == \A h \in Holders : held[h] # NoFd => fdTab[held[h]] = h

\* close() by the client while the number is its own takes nothing from the server.
LEMMA FirstClose ==
    ASSUME IInv, HoldersOwn, OwnsSock, held' = held, fdTab' = Close(fdTab, sock)
    PROVE  HoldersOwn'
<1> SUFFICES ASSUME NEW h \in Holders, held[h] # NoFd PROVE fdTab'[held[h]] = h
    BY DEF HoldersOwn
<1>1. held[h] \in Fds /\ fdTab[held[h]] = h
    BY DEF IInv, TypeOK, HoldersOwn
<1>2. held[h] # sock
    BY <1>1, HoldersAssumption DEF OwnsSock
<1> QED BY <1>1, <1>2 DEF Close

\* The sockets of the server, while nobody has closed anybody else's: each holder
\* closes its own, and what is handed out was nobody's.
LEMMA ServerOwn ==
    ASSUME IInv, HoldersOwn, NEW h \in Holders, ServerAccepts(h) \/ ServerCloses(h)
    PROVE  HoldersOwn' /\ (OwnsSock => OwnsSock')
<1> USE DEF IInv, TypeOK
<1>1. CASE ServerAccepts(h)
  <2>1. PICK f \in Fds : /\ fdTab[f] = Unused
                         /\ fdTab' = OpenAs(fdTab, f, h) /\ held' = [held EXCEPT ![h] = f]
      BY <1>1 DEF ServerAccepts, IsNextFd
  <2>2. \A g \in Fds : fdTab'[g] = IF g = f THEN h ELSE fdTab[g]
      BY <2>1 DEF OpenAs
  <2>3. ASSUME NEW k \in Holders, held'[k] # NoFd PROVE fdTab'[held'[k]] = k
    <3>1. CASE k = h
        BY <2>1, <2>2, <3>1
    <3>2. CASE k # h
      <4>1. held'[k] = held[k] /\ held[k] \in Fds /\ fdTab[held[k]] = k
          BY <2>1, <2>3, <3>2 DEF HoldersOwn
      <4> QED BY <2>1, <2>2, <4>1, HoldersAssumption
    <3> QED BY <3>1, <3>2
  <2>4. sock' = sock
      BY <1>1 DEF ServerAccepts, conn
  <2> QED BY <2>1, <2>2, <2>3, <2>4 DEF HoldersOwn, OwnsSock, Unused
<1>2. CASE ServerCloses(h)
  <2>1. /\ held[h] \in Fds /\ fdTab[held[h]] = h /\ held' = [held EXCEPT ![h] = NoFd]
        /\ \A g \in Fds : fdTab'[g] = IF g = held[h] THEN Unused ELSE fdTab[g]
      BY <1>2 DEF ServerCloses, Close, HoldersOwn
  <2>2. ASSUME NEW k \in Holders, held'[k] # NoFd PROVE fdTab'[held'[k]] = k
    <3>1. k # h /\ held'[k] = held[k] /\ held[k] \in Fds /\ fdTab[held[k]] = k
        BY <2>1, <2>2 DEF HoldersOwn
    <3> QED BY <2>1, <3>1
  <2>3. sock' = sock
      BY <1>2 DEF ServerCloses, conn
  <2> QED BY <2>1, <2>2, <2>3, HoldersAssumption DEF HoldersOwn, OwnsSock
<1> QED BY <1>1, <1>2

\* Every step but the second close() leaves everybody what they own.
LEMMA StepKeepsOwners ==
    ASSUME IInv, AllOwn, Next, pc \notin {"dropHandshake", "closeSock"}
    PROVE  AllOwn'
<1>1. HoldersOwn /\ (pc \in PcHolding => OwnsSock)
    BY DEF AllOwn, HoldersOwn, PcHolding
<1>2. SUFFICES HoldersOwn' /\ (pc' \in PcHolding => OwnsSock')
    BY DEF AllOwn, HoldersOwn, PcHolding, OwnsSock
<1>3. ASSUME UNCHANGED <<sockets, sock>>, pc' \in PcHolding => pc \in PcHolding
      PROVE  HoldersOwn' /\ (pc' \in PcHolding => OwnsSock')
    BY <1>1, <1>3 DEF HoldersOwn, OwnsSock, sockets
<1>4. CASE OpenSocketOk
  <2>1. PICK f \in Fds : fdTab[f] = Unused /\ sock' = f /\ fdTab' = OpenAs(fdTab, f, "client")
      BY <1>4 DEF OpenSocketOk, IsNextFd
  <2>2. \A g \in Fds : fdTab'[g] = IF g = f THEN "client" ELSE fdTab[g]
      BY <2>1 DEF OpenAs, IInv, TypeOK
  <2>3. OwnsSock'
      BY <2>1, <2>2 DEF OwnsSock
  <2>4. held' = held
      BY <1>4 DEF OpenSocketOk
  <2>5. ASSUME NEW h \in Holders, held[h] # NoFd PROVE fdTab'[held[h]] = h
    <3>1. held[h] \in Fds /\ fdTab[held[h]] = h /\ h # Unused
        BY <1>1, <2>5, HoldersAssumption DEF HoldersOwn, IInv, TypeOK
    <3> QED BY <2>1, <2>2, <3>1
  <2> QED BY <2>3, <2>4, <2>5 DEF HoldersOwn
<1>5. CASE ConnectFail \/ HandshakeFail \/ DeleteTls
  <2>1. /\ pc \in PcHolding /\ pc' \notin PcHolding
        /\ held' = held /\ fdTab' = Close(fdTab, sock)
      BY <1>5 DEF ConnectFail, HandshakeFail, DeleteTls, Goto, PcHolding
  <2> QED BY <1>1, <2>1, FirstClose
<1>6. CASE \/ AwaitWifi \/ ResolveOk \/ ResolveFail \/ Dial \/ ConnectOk \/ HandshakeOk
           \/ HandshakeNoMemory \/ SetUseTls \/ Publish \/ ReceiveEnds
           \/ ClearTls \/ Withdraw \/ ClearUseTls \/ Retry
  <2>1. UNCHANGED <<sockets, sock>> /\ (pc' \in PcHolding => pc \in PcHolding)
      BY <1>6 DEF AwaitWifi, ResolveOk, ResolveFail, Dial, ConnectOk, HandshakeOk,
         HandshakeNoMemory, SetUseTls, Publish, ReceiveEnds, ClearTls, Withdraw,
         ClearUseTls, Retry, conn, sockets, Goto, PcHolding
  <2> QED BY <2>1, <1>3
<1>7. CASE OpenSocketFail \/ DropConnect \/ ForgetHandshake \/ ClearSock
  <2>1. UNCHANGED sockets /\ pc' \notin PcHolding
      BY <1>7 DEF OpenSocketFail, DropConnect, ForgetHandshake, ClearSock, Goto, PcHolding
  <2> QED BY <1>1, <2>1 DEF HoldersOwn, sockets
<1>8. ~DropHandshake /\ ~CloseSock
    BY DEF DropHandshake, CloseSock, Goto
<1>9. CASE \E h \in Holders : ServerAccepts(h) \/ ServerCloses(h)
  <2>1. pc' = pc
      BY <1>9 DEF ServerAccepts, ServerCloses
  <2> QED BY <1>1, <1>9, <2>1, ServerOwn
<1>10. CASE WifiUp \/ WifiDown \/ \E s \in Senders : Send(s)
  <2>1. UNCHANGED <<sockets, sock>> /\ pc' = pc
      BY <1>10 DEF WifiUp, WifiDown, conn, sockets,
         Send, BeginSend, IsConnected, CheckSock, TestUseTls, LoadTls, Write
  <2> QED BY <2>1, <1>3
<1> QED BY <1>4, <1>5, <1>6, <1>7, <1>8, <1>9, <1>10 DEF Next, Establish, TearDown, Environment

\* As long as no number has been closed twice, every close() finds the socket of its
\* caller; the second close() is the only step that can take one from its owner.
THEOREM OnlySecondCloseMixesUp == Spec => MixUpsStartAtSecondClose
<1>1. IInv /\ [Next]_vars =>
        [AllOwn /\ ~AllOwn' => pc \in {"dropHandshake", "closeSock"}]_vars
    BY StepKeepsOwners
<1> QED BY <1>1, SpecIInv, PTL DEF Spec, MixUpsStartAtSecondClose

-----------------------------------------------------------------------------
(* The safety half of CloudLink.  Session is what the refinement mapping      *)
(* takes for the abstract session.                                          *)

Session == IF \E c \in Ctx : heap[c] = "initialized" THEN "sealed" ELSE "none"

\* A session exists exactly where the task has a live context.
LEMMA SessionByPlace ==
    ASSUME IInv
    PROVE  Session = IF pc \in PcLive THEN "sealed" ELSE "none"
BY CtxAssumption DEF IInv, TypeOK, HeapInv, PointerInv, Session

\* Every step of the task is a step of CloudLink or leaves it alone.
LEMMA StepImplementsLink ==
    ASSUME IInv, IInv', Next
    PROVE  [Link!Next]_(Link!vars)
<1> DEFINE Same == state' = state /\ Session' = Session
<1>1. Session = IF pc \in PcLive THEN "sealed" ELSE "none"
    BY SessionByPlace
<1>2. Session' = IF pc' \in PcLive THEN "sealed" ELSE "none"
  <2>1. \A c \in Ctx : heap'[c] = "initialized" => pc' \in PcLive
      BY DEF IInv, HeapInv
  <2>2. pc' \in PcLive => tls' \in Ctx /\ heap'[tls'] = "initialized"
      BY DEF IInv, TypeOK, PointerInv
  <2> QED BY <2>1, <2>2 DEF Session
<1>3. ASSUME Same PROVE [Link!Next]_(Link!vars)
    BY <1>3 DEF Session, Link!vars
<1>4. ASSUME Establish PROVE [Link!Next]_(Link!vars)
  <2> USE <1>1, <1>2 DEF Goto, PcLive
  <2>1. CASE Dial
    <3>1. state \in {"DISCONNECTED", "CONNECTING"} /\ state' = "CONNECTING"
        BY <2>1 DEF Dial, IInv, StateInv
    <3>2. Session = "none" /\ Session' = "none"
        BY <2>1 DEF Dial
    <3> QED BY <3>1, <3>2 DEF Session, Link!Next, Link!Dial, Link!vars
  <2>2. CASE ConnectOk
    <3>1. state = "CONNECTING" /\ state' = "TLS_HANDSHAKE" /\ Session' = Session
        BY <2>2 DEF ConnectOk, IInv, StateInv
    <3> QED BY <3>1 DEF Session, Link!Next, Link!Secure
  <2>3. CASE HandshakeOk
    <3>1. state = "TLS_HANDSHAKE" /\ state' = state
        BY <2>3 DEF HandshakeOk, IInv, StateInv
    <3>2. Session = "none" /\ Session' = "sealed"
        BY <2>3 DEF HandshakeOk
    <3> QED BY <3>1, <3>2 DEF Session, Link!Next, Link!Seal
  <2>4. CASE ForgetHandshake
    <3>1. state = "TLS_HANDSHAKE" /\ state' = "DISCONNECTED"
        BY <2>4 DEF ForgetHandshake, IInv, StateInv
    <3>2. Session = "none" /\ Session' = "none"
        BY <2>4 DEF ForgetHandshake
    <3> QED BY <3>1, <3>2 DEF Session, Link!Next, Link!Refuse
  <2>5. CASE Publish
    <3>1. state = "TLS_HANDSHAKE" /\ state' = "READY"
        BY <2>5 DEF Publish, IInv, StateInv
    <3>2. Session = "sealed" /\ Session' = "sealed"
        BY <2>5 DEF Publish
    <3> QED BY <3>1, <3>2 DEF Session, Link!Next, Link!Announce
  <2>6. CASE AwaitWifi \/ ResolveOk \/ ResolveFail \/ OpenSocketOk \/ OpenSocketFail
    <3>1. Same
        BY <2>6 DEF AwaitWifi, ResolveOk, ResolveFail, OpenSocketOk, OpenSocketFail, conn
    <3> QED BY <3>1, <1>3
  <2>7. CASE ConnectFail \/ DropConnect \/ HandshakeFail \/ HandshakeNoMemory
             \/ DropHandshake \/ SetUseTls
    <3>1. Same
        BY <2>7 DEF ConnectFail, DropConnect, HandshakeFail, HandshakeNoMemory,
           DropHandshake, SetUseTls, conn
    <3> QED BY <3>1, <1>3
  <2> QED BY <1>4, <2>1, <2>2, <2>3, <2>4, <2>5, <2>6, <2>7 DEF Establish
<1>5. ASSUME ReceiveEnds \/ TearDown PROVE [Link!Next]_(Link!vars)
  <2> USE <1>1, <1>2 DEF Goto, PcLive
  <2>1. CASE DeleteTls
    <3>1. state = "READY" /\ state' = "READY"
        BY <2>1 DEF DeleteTls, conn, IInv, StateInv, PcTearDown
    <3>2. Session = "sealed" /\ Session' = "none"
        BY <2>1 DEF DeleteTls
    <3> QED BY <3>1, <3>2 DEF Session, Link!Next, Link!Lose
  <2>2. CASE Withdraw
    <3>1. state = "READY" /\ state' = "DISCONNECTED" /\ Session' = Session
        BY <2>2 DEF Withdraw, IInv, StateInv, PcTearDown
    <3> QED BY <3>1 DEF Session, Link!Next, Link!Withdraw
  <2>3. CASE ReceiveEnds \/ ClearTls \/ CloseSock \/ ClearSock \/ ClearUseTls \/ Retry
    <3>1. Same
        BY <2>3 DEF ReceiveEnds, ClearTls, CloseSock, ClearSock, ClearUseTls, Retry, conn
    <3> QED BY <3>1, <1>3
  <2> QED BY <1>5, <2>1, <2>2, <2>3 DEF TearDown
<1>6. ASSUME (\E s \in Senders : Send(s)) \/ Environment PROVE [Link!Next]_(Link!vars)
  <2>1. pc' = pc /\ state' = state
      BY <1>6 DEF Send, BeginSend, IsConnected, CheckSock, TestUseTls, LoadTls, Write, conn,
         Environment, ServerAccepts, ServerCloses, WifiUp, WifiDown
  <2> QED BY <2>1, <1>1, <1>2, <1>3
<1> QED BY <1>4, <1>5, <1>6 DEF Next

\* The task implements the safety half of the connection it promises to the
\* others, for every constant: no session but from a handshake, no READY
\* without one, no new attempt while an old session exists.
THEOREM ImplementsLinkSafety == Spec => Link!Safety
<1>1. Init => Link!Init
    BY DEF Init, Link!Init
<1>2. IInv /\ IInv' /\ [Next]_vars => [Link!Next]_(Link!vars)
  <2>1. UNCHANGED vars => UNCHANGED Link!vars
      BY DEF vars, conn, Link!vars
  <2> QED BY <2>1, StepImplementsLink
<1> QED BY <1>1, <1>2, SpecIInv, PTL DEF Spec, Link!Safety

=============================================================================
