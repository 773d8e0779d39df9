----------------------------- MODULE TcpServer -----------------------------
(***************************************************************************)
(* The TCP server: src/src/tasks/tcp_server_task.c.                         *)
(*                                                                         *)
(* One accept task (tcp_server_task) places every accepted connection in    *)
(* the first free of NumSlots client slots and creates a receive task for   *)
(* it; the receive task takes the slot apart when its connection ends.      *)
(* Slots change hands under s_tcp_server.mutex, which every task takes with *)
(* a timeout and then does without.                                         *)
(*                                                                         *)
(* s_tcp_server.use_tls is false from init on and nothing sets it, so the   *)
(* TLS branches, which no run of the program reaches, are left out, and so  *)
(* is client->tls, always NULL.  Received bytes go to data_process_receive  *)
(* with a callback that does nothing: receiving changes no state here.      *)
(***************************************************************************)
EXTENDS SocketTable, FiniteSets

CONSTANTS
    NumSlots,       \* TCP_SERVER_MAX_CLIENTS
    MaxStray        \* bound: close() calls of the TCP client that hit a socket of ours

ASSUME NumSlotsAssumption == NumSlots \in Nat \ {0}
ASSUME MaxStrayAssumption == MaxStray \in Nat

Slots == 0 .. NumSlots - 1

Nobody  == -1         \* the mutex is free
Accepter == -2        \* the mutex is held by the accept task
Counter  == -3        \* ... by a caller of tcp_server_task_get_client_count()

VARIABLES
    apc,       \* where tcp_server_task is
    listen,    \* s_tcp_server.listen_sock
    asock,     \* its local client_sock
    aslot,     \* its local client: the slot being filled
    mutex,     \* holder of s_tcp_server.mutex: Nobody, a slot's receive task, ...
    slot,      \* s_tcp_server.clients
    rpc,       \* where the receive task in charge of each slot is; "none" if there is none
    leaving,   \* slots with a task that has let go of them and not ended yet
    cpc,       \* where the caller of get_client_count() is
    fdTab,     \* lwIP's table of open sockets
    stray,     \* stray close() calls so far
    lost       \* mutex timeouts so far that gave up a slot or a socket

accepter == <<apc, listen, asock, aslot>>
vars == <<accepter, mutex, slot, rpc, leaving, cpc, fdTab, stray, lost>>

\* "dangling": freed without clearing the pointer.
Pointers == {"null", "live", "dangling"}

\* CONNECTING exists inside the critical section of Place only.
SlotRecords ==
    [state : {"FREE", "READY"}, sock : Fds \cup {NoFd},
     buf : Pointers,        \* recv_buffer
     dh : Pointers]         \* data_handle

TypeOK ==
    /\ apc \in {"boot", "returned", "accept", "lock", "place", "give", "create",
                "relock", "undo"}
    /\ listen \in Fds \cup {NoFd}
    /\ asock \in Fds \cup {NoFd}
    /\ aslot \in Slots
    /\ mutex \in Slots \cup {Nobody, Accepter, Counter}
    /\ slot \in [Slots -> SlotRecords]
    /\ rpc \in [Slots -> {"none", "receive", "lock", "clean", "unlock"}]
    /\ leaving \subseteq Slots
    /\ cpc \in {"idle", "lock", "count"}
    /\ fdTab \in [Fds -> {Unused, "listen", "accepted"}]
    /\ stray \in 0 .. MaxStray
    /\ lost \in Nat

EmptySlot == [state |-> "FREE", sock |-> NoFd, buf |-> "null", dh |-> "null"]

Init ==
    /\ apc = "boot"
    /\ listen = NoFd
    /\ asock = NoFd
    /\ aslot = 0
    /\ mutex = Nobody
    /\ slot = [i \in Slots |-> EmptySlot]
    /\ rpc = [i \in Slots |-> "none"]
    /\ leaving = {}
    /\ cpc = "idle"
    /\ fdTab = EmptyTable
    /\ stray = 0
    /\ lost = 0

AGoto(from, to) == apc = from /\ apc' = to
RGoto(i, from, to) == rpc[i] = from /\ rpc' = [rpc EXCEPT ![i] = to]
CGoto(from, to) == cpc = from /\ cpc' = to

Take(who) == mutex = Nobody /\ mutex' = who
Give(who) == mutex = who /\ mutex' = Nobody

\* xSemaphoreTake() may return pdFALSE only if another task has the mutex.
MayTimeOut == mutex # Nobody

FreeSlots == {i \in Slots : slot[i].state = "FREE"}

FirstFree(i) == i \in FreeSlots /\ \A j \in FreeSlots : i <= j

\* The receive task of slot i stops answering for it, and has still to end.
LetGo(i) == leaving' = leaving \cup {i}

-----------------------------------------------------------------------------
(* Variants of single steps, each with one mistake a change to the code      *)
(* could make.  No specification uses them: every property below is checked  *)
(* to fail when its variant takes the place of the step.                     *)

\* Leaving the slot CONNECTING, the state it has only inside the critical section.
PlaceStaysConnecting ==
    /\ AGoto("place", "give")
    /\ \E i \in Slots :
        /\ FirstFree(i)
        /\ aslot' = i
        /\ slot' = [slot EXCEPT ![i] =
                [state |-> "CONNECTING", sock |-> asock, buf |-> "live", dh |-> "live"]]
    /\ UNCHANGED <<listen, asock, mutex, rpc, leaving, cpc, fdTab, stray, lost>>

\* Forgetting client->state = FREE when malloc() fails.
PlaceNoBufferKeepsSlot ==
    /\ AGoto("place", "accept")
    /\ \E i \in Slots :
        /\ FirstFree(i)
        /\ slot' = [slot EXCEPT ![i].sock = asock, ![i].state = "CONNECTING"]
    /\ fdTab' = Close(fdTab, asock)
    /\ Give(Accepter)
    /\ asock' = NoFd
    /\ UNCHANGED <<listen, aslot, rpc, leaving, cpc, stray, lost>>

\* Refusing a connection without closing it.
RefuseLeaks ==
    /\ AGoto("place", "accept")
    /\ FreeSlots = {}
    /\ Give(Accepter)
    /\ asock' = NoFd
    /\ UNCHANGED <<listen, aslot, slot, rpc, leaving, cpc, fdTab, stray, lost>>

\* Refusing a connection without xSemaphoreGive().
RefuseKeepsMutex ==
    /\ AGoto("place", "accept")
    /\ FreeSlots = {}
    /\ fdTab' = Close(fdTab, asock)
    /\ asock' = NoFd
    /\ UNCHANGED <<listen, aslot, mutex, slot, rpc, leaving, cpc, stray, lost>>

\* Undoing the slot although the task was created (test of ret inverted).
CreateOkUndone ==
    /\ AGoto("create", "relock")
    /\ rpc' = [rpc EXCEPT ![aslot] = "receive"]
    /\ UNCHANGED <<listen, asock, aslot, mutex, slot, leaving, cpc, fdTab, stray, lost>>

\* Freeing the slot after a timeout, without the mutex.
RelockTimeoutFrees ==
    /\ AGoto("relock", "accept")
    /\ MayTimeOut
    /\ slot' = [slot EXCEPT ![aslot].state = "FREE"]
    /\ fdTab' = Close(fdTab, asock)
    /\ asock' = NoFd
    /\ UNCHANGED <<listen, aslot, mutex, rpc, leaving, cpc, stray, lost>>

\* Cleaning up without client->state = FREE.
CleanKeepsState(i) ==
    /\ RGoto(i, "clean", "unlock")
    /\ fdTab' = Close(fdTab, slot[i].sock)
    /\ slot' = [slot EXCEPT ![i] = [EmptySlot EXCEPT !.state = "READY"]]
    /\ UNCHANGED <<accepter, mutex, leaving, cpc, stray, lost>>

\* Marking the slot FREE as soon as the connection ends.
ReceiveEndsFrees(i) ==
    /\ RGoto(i, "receive", "lock")
    /\ slot' = [slot EXCEPT ![i].state = "FREE"]
    /\ UNCHANGED <<accepter, mutex, leaving, cpc, fdTab, stray, lost>>

-----------------------------------------------------------------------------
(* The accept task: socket(), bind(), listen() *)

StartOk ==
    /\ AGoto("boot", "accept")
    /\ \E f \in Fds :
        /\ IsNextFd(fdTab, f)
        /\ fdTab' = OpenAs(fdTab, f, "listen")
        /\ listen' = f
    /\ UNCHANGED <<asock, aslot, mutex, slot, rpc, leaving, cpc, stray, lost>>

\* bind() or listen() fails: the socket is closed, listen_sock keeps its number.
StartFail ==
    /\ AGoto("boot", "returned")
    /\ \/ listen' = NoFd                              \* socket() had failed
       \/ \E f \in Fds : IsNextFd(fdTab, f) /\ listen' = f
    /\ UNCHANGED <<asock, aslot, mutex, slot, rpc, leaving, cpc, fdTab, stray, lost>>

\* A FreeRTOS task must not return: the port aborts and the chip restarts.
Restart ==
    /\ apc = "returned"
    /\ apc' = "boot"
    /\ listen' = NoFd
    /\ cpc' = "idle"
    /\ mutex' = Nobody
    /\ UNCHANGED <<asock, aslot, slot, rpc, leaving, fdTab, stray, lost>>

-----------------------------------------------------------------------------
(* The accept loop *)

Accept ==
    /\ AGoto("accept", "lock")
    /\ \E f \in Fds :
        /\ IsNextFd(fdTab, f)
        /\ fdTab' = OpenAs(fdTab, f, "accepted")
        /\ asock' = f
    /\ UNCHANGED <<listen, aslot, mutex, slot, rpc, leaving, cpc, stray, lost>>

Lock ==
    /\ AGoto("lock", "place")
    /\ Take(Accepter)
    /\ UNCHANGED <<listen, asock, aslot, slot, rpc, leaving, cpc, fdTab, stray, lost>>

\* No else branch: the accepted socket is neither placed nor closed.
LockTimeout ==
    /\ AGoto("lock", "accept")
    /\ MayTimeOut
    /\ asock' = NoFd
    /\ lost' = lost + 1
    /\ UNCHANGED <<listen, aslot, mutex, slot, rpc, leaving, cpc, fdTab, stray>>

Refuse ==
    /\ AGoto("place", "accept")
    /\ FreeSlots = {}
    /\ fdTab' = Close(fdTab, asock)
    /\ Give(Accepter)
    /\ asock' = NoFd
    /\ UNCHANGED <<listen, aslot, slot, rpc, leaving, cpc, stray, lost>>

\* malloc() of the receive buffer fails: the slot keeps the number of the closed socket.
PlaceNoBuffer ==
    /\ AGoto("place", "accept")
    /\ \E i \in Slots :
        /\ FirstFree(i)
        /\ slot' = [slot EXCEPT ![i].sock = asock, ![i].buf = "null"]
    /\ fdTab' = Close(fdTab, asock)
    /\ Give(Accepter)
    /\ asock' = NoFd
    /\ UNCHANGED <<listen, aslot, rpc, leaving, cpc, stray, lost>>

\* The slot is READY before its task exists; data_process_create() may return NULL.
Place ==
    /\ AGoto("place", "give")
    /\ \E i \in Slots, handle \in {"live", "null"} :
        /\ FirstFree(i)
        /\ aslot' = i
        /\ slot' = [slot EXCEPT ![i] =
                [state |-> "READY", sock |-> asock, buf |-> "live", dh |-> handle]]
    /\ UNCHANGED <<listen, asock, mutex, rpc, leaving, cpc, fdTab, stray, lost>>

GiveSlot ==
    /\ AGoto("give", "create")
    /\ Give(Accepter)
    /\ UNCHANGED <<listen, asock, aslot, slot, rpc, leaving, cpc, fdTab, stray, lost>>

\* An earlier task of the slot may not have ended yet.
CreateOk ==
    /\ AGoto("create", "accept")
    /\ rpc' = [rpc EXCEPT ![aslot] = "receive"]
    /\ asock' = NoFd
    /\ UNCHANGED <<listen, aslot, mutex, slot, leaving, cpc, fdTab, stray, lost>>

CreateFail ==
    /\ AGoto("create", "relock")
    /\ UNCHANGED <<listen, asock, aslot, mutex, slot, rpc, leaving, cpc, fdTab, stray, lost>>

Relock ==
    /\ AGoto("relock", "undo")
    /\ Take(Accepter)
    /\ UNCHANGED <<listen, asock, aslot, slot, rpc, leaving, cpc, fdTab, stray, lost>>

\* The slot stays READY and nobody receives on it.
RelockTimeout ==
    /\ AGoto("relock", "accept")
    /\ MayTimeOut
    /\ asock' = NoFd
    /\ lost' = lost + 1
    /\ UNCHANGED <<listen, aslot, mutex, slot, rpc, leaving, cpc, fdTab, stray>>

\* Everything is freed and closed, no pointer is cleared.
Undo ==
    /\ AGoto("undo", "accept")
    /\ slot' = [slot EXCEPT
            ![aslot].state = "FREE",
            ![aslot].buf = "dangling",
            ![aslot].dh = IF @ = "live" THEN "dangling" ELSE @]
    /\ fdTab' = Close(fdTab, asock)
    /\ Give(Accepter)
    /\ asock' = NoFd
    /\ UNCHANGED <<listen, aslot, rpc, leaving, cpc, stray, lost>>

-----------------------------------------------------------------------------
(* The receive task of slot i *)

\* The peer closed, or recv() failed.
ReceiveEnds(i) ==
    /\ RGoto(i, "receive", "lock")
    /\ UNCHANGED <<accepter, mutex, slot, leaving, cpc, fdTab, stray, lost>>

CleanLock(i) ==
    /\ RGoto(i, "lock", "clean")
    /\ Take(i)
    /\ UNCHANGED <<accepter, slot, leaving, cpc, fdTab, stray, lost>>

\* No else branch: the slot stays READY with its socket open.
CleanTimeout(i) ==
    /\ RGoto(i, "lock", "none")
    /\ MayTimeOut
    /\ LetGo(i)
    /\ lost' = lost + 1
    /\ UNCHANGED <<accepter, mutex, slot, cpc, fdTab, stray>>

Clean(i) ==
    /\ RGoto(i, "clean", "unlock")
    /\ fdTab' = Close(fdTab, slot[i].sock)
    /\ slot' = [slot EXCEPT ![i] = EmptySlot]
    /\ UNCHANGED <<accepter, mutex, leaving, cpc, stray, lost>>

CleanUnlock(i) ==
    /\ RGoto(i, "unlock", "none")
    /\ Give(i)
    /\ LetGo(i)
    /\ UNCHANGED <<accepter, slot, cpc, fdTab, stray, lost>>

\* The task logs client->name and deletes itself; if several tasks of the slot are
\* on their way out, this is the last of them.  By now the slot may be filled again
\* and have a new task, but the accept task writes the same text into the name.
EndTask(i) ==
    /\ i \in leaving
    /\ leaving' = leaving \ {i}
    /\ UNCHANGED <<accepter, mutex, slot, rpc, cpc, fdTab, stray, lost>>

Receiver(i) ==
    \/ ReceiveEnds(i) \/ CleanLock(i) \/ CleanTimeout(i) \/ Clean(i) \/ CleanUnlock(i)
    \/ EndTask(i)

-----------------------------------------------------------------------------
(* A caller of tcp_server_task_get_client_count(): it counts the READY slots *)
(* under the mutex and reports 0 if it does not get it.                      *)

CountBegin ==
    /\ CGoto("idle", "lock")
    /\ UNCHANGED <<accepter, mutex, slot, rpc, leaving, fdTab, stray, lost>>

CountLock ==
    /\ CGoto("lock", "count")
    /\ Take(Counter)
    /\ UNCHANGED <<accepter, slot, rpc, leaving, fdTab, stray, lost>>

CountTimeout ==
    /\ CGoto("lock", "idle")
    /\ MayTimeOut
    /\ UNCHANGED <<accepter, mutex, slot, rpc, leaving, fdTab, stray, lost>>

CountUnlock ==
    /\ CGoto("count", "idle")
    /\ Give(Counter)
    /\ UNCHANGED <<accepter, slot, rpc, leaving, fdTab, stray, lost>>

Count == CountBegin \/ CountLock \/ CountTimeout \/ CountUnlock

\* The second close() of the TCP client (TcpClient: DropHandshake, CloseSock)
\* on a number that lwIP has given to one of our connections meanwhile.
StrayClose ==
    /\ stray < MaxStray
    /\ \E f \in OpenedBy(fdTab, "accepted") : fdTab' = Close(fdTab, f)
    /\ stray' = stray + 1
    /\ UNCHANGED <<accepter, mutex, slot, rpc, leaving, cpc, lost>>

-----------------------------------------------------------------------------
Accepting ==
    \/ Lock \/ LockTimeout \/ Refuse \/ PlaceNoBuffer \/ Place \/ GiveSlot
    \/ CreateOk \/ CreateFail \/ Relock \/ RelockTimeout \/ Undo

Next ==
    \/ StartOk \/ StartFail \/ Restart
    \/ Accept \/ Accepting
    \/ \E i \in Slots : Receiver(i)
    \/ Count
    \/ StrayClose

Spec == Init /\ [][Next]_vars

(***************************************************************************)
(* Fairness: the accept task and the receive tasks run on, and a wait for   *)
(* the mutex ends, with the mutex or without.  Nothing makes a peer connect *)
(* or close.                                                                *)
(***************************************************************************)
Fairness ==
    /\ WF_vars(Accepting)
    /\ \A i \in Slots :
        /\ WF_vars(CleanLock(i) \/ CleanTimeout(i) \/ Clean(i) \/ CleanUnlock(i))
        /\ WF_vars(EndTask(i))
    /\ WF_vars(CountUnlock)
    /\ WF_vars(Restart)

FairSpec == Spec /\ Fairness

-----------------------------------------------------------------------------
(* Properties *)

InUse == {i \in Slots : slot[i].state # "FREE"}

\* The accept task still answers for slot i: it has no receive task yet.
BeingFilled(i) == apc \in {"give", "create", "relock", "undo"} /\ aslot = i

\* Slots in use that no task will ever free.
Orphans == {i \in InUse : rpc[i] = "none" /\ ~BeingFilled(i)}

\* Open connections whose number nobody remembers.
LeakedSockets ==
    {f \in OpenedBy(fdTab, "accepted") :
        /\ asock # f
        /\ \A i \in InUse : slot[i].sock # f}

\* While the accept task fills a slot, and until it has created the task for it or
\* undone it, no other task is in charge of the slot: tasks of an earlier connection
\* may still exist, but have let go of its socket, buffer and handle.
FilledSlotIsLetGo ==
    \A i \in Slots : BeingFilled(i) => rpc[i] = "none"

\* A receive task works on a slot in use, with a live buffer and no freed
\* handle, until it has taken the slot apart itself.
ReceiverOwnsItsSlot ==
    \A i \in Slots : rpc[i] \in {"receive", "lock", "clean"} =>
        slot[i].state = "READY" /\ slot[i].buf = "live" /\ slot[i].dh # "dangling"

\* As long as the TCP client closes only its own sockets, slots in use hold
\* open sockets, no two of them the same.
SlotsHoldDistinctSockets ==
    stray = 0 =>
        \A i \in InUse :
            /\ slot[i].sock \in OpenedBy(fdTab, "accepted")
            /\ \A j \in InUse : slot[i].sock = slot[j].sock => i = j

\* Nothing is lost but by a mutex timeout, at most one slot or socket for each.
LossOnlyByTimeout ==
    Cardinality(Orphans) + Cardinality(LeakedSockets) <= lost

Pool == INSTANCE SlotPool WITH
            Sockets <- Fds,
            serving <- InUse \ Orphans,
            lostSlots <- Orphans,
            lostSockets <- LeakedSockets,
            timeouts <- lost

\* The slots are a pool that loses capacity by mutex timeouts only, one slot or
\* socket for each, and never gets a lost slot back.
ImplementsSlotPool == Pool!Spec

\* Slots are rewritten by the holder of the mutex alone.
SlotsChangeUnderMutex ==
    [][\A i \in Slots : slot'[i] # slot[i] => mutex \in {Accepter, i}]_vars

\* Every path through a critical section gives the mutex back.
MutexIsGivenBack == (mutex # Nobody) ~> (mutex = Nobody)

=============================================================================
