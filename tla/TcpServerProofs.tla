-------------------------- MODULE TcpServerProofs --------------------------
(***************************************************************************)
(* Who owns a slot of the TCP server, for any number of slots and           *)
(* descriptors and any number of stray close() calls.                       *)
(*                                                                         *)
(* A slot in use belongs to the accept task until its receive task exists,  *)
(* then to the receive task, then to nobody if a mutex wait timed out.  The *)
(* inductive invariant ties the holder of the mutex to the places of the    *)
(* tasks, and every slot and socket to the task that answers for it.        *)
(***************************************************************************)
EXTENDS TcpServer, FiniteSetTheorems, TLAPS

Parties == {Unused, "listen", "accepted"}

\* Each task has the mutex exactly inside its critical section.
MutexInv ==
    /\ mutex = Accepter <=> apc \in {"place", "give", "undo"}
    /\ \A i \in Slots : mutex = i <=> rpc[i] \in {"clean", "unlock"}
    /\ mutex = Counter <=> cpc = "count"

\* A slot is whole as long as a task answers for it.
Whole(i) == slot[i].state = "READY" /\ slot[i].buf = "live" /\ slot[i].dh # "dangling"

SlotInv ==
    /\ \A i \in Slots : BeingFilled(i) => rpc[i] = "none" /\ Whole(i) /\ slot[i].sock = asock
    /\ \A i \in Slots : rpc[i] \in {"receive", "lock", "clean"} => Whole(i)
    /\ \A i \in Slots : rpc[i] = "unlock" => slot[i].state = "FREE"
    /\ apc \in {"boot", "returned"} => \A i \in Slots : rpc[i] = "none"

\* Until a stray close(): accepted sockets are open and in one place each.
SocketInv ==
    stray = 0 =>
        /\ \A i \in InUse : slot[i].sock \in Fds /\ fdTab[slot[i].sock] = "accepted"
        /\ \A i, j \in InUse : slot[i].sock = slot[j].sock => i = j
        /\ apc \in {"lock", "place"} =>
                /\ asock \in Fds /\ fdTab[asock] = "accepted"
                /\ \A i \in InUse : slot[i].sock # asock

\* Between two connections the accept task has none in hand.
HandInv == apc \in {"boot", "returned", "accept"} => asock = NoFd

IInv == TypeOK /\ MutexInv /\ SlotInv /\ SocketInv /\ HandInv

-----------------------------------------------------------------------------
\* Every slot is free, no task exists and nobody has the mutex.
LEMMA InitIInv == Init => IInv
BY NumSlotsAssumption, MaxStrayAssumption
    DEF Init, IInv, TypeOK, MutexInv, SlotInv, SocketInv, HandInv, BeingFilled, Whole, InUse, EmptyTable,
        EmptySlot, SlotRecords, Pointers, Slots, Nobody, Accepter, Counter, NoFd, Unused

\* The accept task opens its listener, or returns.
LEMMA StartIInv == IInv /\ (StartOk \/ StartFail \/ Restart) => IInv'
<1> SUFFICES ASSUME IInv, StartOk \/ StartFail \/ Restart PROVE IInv'
    OBVIOUS
<1> USE NumSlotsAssumption, MaxStrayAssumption
    DEF IInv, TypeOK, MutexInv, SlotInv, SocketInv, HandInv, BeingFilled, Whole, InUse, Slots, Nobody,
        Accepter, Counter, Parties, SlotRecords, Pointers, AGoto, RGoto, CGoto, Take, Give,
        MayTimeOut, FirstFree, FreeSlots, accepter
<1>1. CASE StartOk BY <1>1 DEF StartOk, IsNextFd, OpenAs, Fds, NoFd, Unused
<1>2. CASE StartFail BY <1>2 DEF StartFail, NoFd
<1>3. CASE Restart BY <1>3 DEF Restart, NoFd
<1> QED BY <1>1, <1>2, <1>3

\* The slot of a connection without a buffer stays as free as it was.
LEMMA SlotWithoutBuffer ==
    ASSUME slot \in [Slots -> SlotRecords], NEW i \in Slots, asock \in Fds \cup {NoFd},
           slot' = [slot EXCEPT ![i].sock = asock, ![i].buf = "null"]
    PROVE  /\ slot' \in [Slots -> SlotRecords]
           /\ \A j \in Slots : slot'[j].state = slot[j].state
           /\ \A j \in Slots : j # i => slot'[j] = slot[j]
<1> DEFINE r == [slot[i] EXCEPT !.sock = asock, !.buf = "null"]
<1>1. r \in SlotRecords /\ r.state = slot[i].state
    BY DEF SlotRecords, Pointers
<1>2. slot' = [slot EXCEPT ![i] = r]
    OBVIOUS
<1> HIDE DEF r
<1> QED BY <1>1, <1>2

\* An undone slot is free, the others are as they were.
LEMMA SlotUndone ==
    ASSUME slot \in [Slots -> SlotRecords], aslot \in Slots, Undo
    PROVE  /\ slot' \in [Slots -> SlotRecords]
           /\ slot'[aslot].state = "FREE"
           /\ \A j \in Slots : j # aslot => slot'[j] = slot[j]
<1> DEFINE r == [slot[aslot] EXCEPT !.state = "FREE", !.buf = "dangling",
                                    !.dh = IF @ = "live" THEN "dangling" ELSE @]
<1>1. r \in SlotRecords /\ r.state = "FREE"
    BY DEF SlotRecords, Pointers
<1>2. slot' = [slot EXCEPT ![aslot] = r]
    BY DEF Undo
<1> HIDE DEF r
<1> QED BY <1>1, <1>2

\* One round of the accept loop: accept(), the mutex, the slot, the task, the undo.
LEMMA AcceptIInv == IInv /\ (Accept \/ Accepting) => IInv'
<1> SUFFICES ASSUME IInv, Accept \/ Accepting PROVE IInv'
    OBVIOUS
<1> USE NumSlotsAssumption, MaxStrayAssumption
    DEF IInv, TypeOK, MutexInv, SlotInv, SocketInv, HandInv, BeingFilled, Whole, InUse, Slots, Nobody,
        Accepter, Counter, Parties, SlotRecords, Pointers, AGoto, RGoto, CGoto, Take, Give,
        MayTimeOut, FirstFree, FreeSlots, accepter
<1>1. CASE Accept BY <1>1 DEF Accept, IsNextFd, OpenAs, Fds, NoFd, Unused
<1>2. CASE Lock BY <1>2 DEF Lock
<1>3. CASE LockTimeout BY <1>3 DEF LockTimeout
<1>4. CASE Refuse BY <1>4 DEF Refuse, Close
<1>5. CASE PlaceNoBuffer
  <2> PICK i \in Slots : /\ FirstFree(i)
                         /\ slot' = [slot EXCEPT ![i].sock = asock, ![i].buf = "null"]
      BY <1>5 DEF PlaceNoBuffer
  <2>1. /\ slot' \in [Slots -> SlotRecords]
        /\ \A j \in Slots : slot'[j].state = slot[j].state
        /\ \A j \in Slots : j # i => slot'[j] = slot[j]
    <3> HIDE DEF IInv, MutexInv, SlotInv, SocketInv, HandInv, FirstFree, FreeSlots, Slots, SlotRecords
    <3>1. slot \in [Slots -> SlotRecords] /\ asock \in Fds \cup {NoFd}
        BY DEF IInv
    <3> HIDE DEF TypeOK
    <3> QED BY <3>1, SlotWithoutBuffer
  <2>2. /\ fdTab' \in [Fds -> Parties]
        /\ \A f \in Fds : fdTab'[f] = IF f = asock THEN Unused ELSE fdTab[f]
      BY <1>5 DEF PlaceNoBuffer, Close
  <2>3. TypeOK' BY <1>5, <2>1, <2>2 DEF PlaceNoBuffer
  <2>4. MutexInv' BY <1>5 DEF PlaceNoBuffer
  <2>5. SlotInv' BY <1>5, <2>1 DEF PlaceNoBuffer
  <2>6. SocketInv' BY <1>5, <2>1, <2>2 DEF PlaceNoBuffer
  <2>7. HandInv' BY <1>5 DEF PlaceNoBuffer
  <2> QED BY <2>3, <2>4, <2>5, <2>6, <2>7
<1>6. CASE Place BY <1>6 DEF Place
<1>7. CASE GiveSlot BY <1>7 DEF GiveSlot
<1>8. CASE CreateOk BY <1>8 DEF CreateOk
<1>9. CASE CreateFail BY <1>9 DEF CreateFail
<1>10. CASE Relock BY <1>10 DEF Relock
<1>11. CASE RelockTimeout BY <1>11 DEF RelockTimeout
<1>12. CASE Undo
  <2>1. /\ slot' \in [Slots -> SlotRecords]
        /\ slot'[aslot].state = "FREE"
        /\ \A j \in Slots : j # aslot => slot'[j] = slot[j]
    <3> HIDE DEF IInv, MutexInv, SlotInv, SocketInv, HandInv, Slots, SlotRecords
    <3>1. slot \in [Slots -> SlotRecords] /\ aslot \in Slots
        BY DEF IInv
    <3> HIDE DEF TypeOK
    <3> QED BY <1>12, <3>1, SlotUndone
  <2>2. /\ fdTab' \in [Fds -> Parties]
        /\ \A f \in Fds : fdTab'[f] = IF f = asock THEN Unused ELSE fdTab[f]
      BY <1>12 DEF Undo, Close
  <2>3. TypeOK' BY <1>12, <2>1, <2>2 DEF Undo
  <2>4. MutexInv' BY <1>12 DEF Undo
  <2>5. SlotInv' BY <1>12, <2>1 DEF Undo
  <2>6. SocketInv' BY <1>12, <2>1, <2>2 DEF Undo
  <2>7. HandInv' BY <1>12 DEF Undo
  <2> QED BY <2>3, <2>4, <2>5, <2>6, <2>7
<1> QED BY <1>1, <1>2, <1>3, <1>4, <1>5, <1>6, <1>7, <1>8, <1>9, <1>10, <1>11, <1>12 DEF Accepting

\* A receive task ends its connection and takes its slot apart.
LEMMA ReceiverIInv == IInv /\ (\E i \in Slots : Receiver(i)) => IInv'
<1> SUFFICES ASSUME IInv, NEW i \in Slots, Receiver(i) PROVE IInv'
    OBVIOUS
<1> USE NumSlotsAssumption, MaxStrayAssumption
    DEF IInv, TypeOK, MutexInv, SlotInv, SocketInv, HandInv, BeingFilled, Whole, InUse, Slots, Nobody,
        Accepter, Counter, Parties, SlotRecords, Pointers, AGoto, RGoto, CGoto, Take, Give,
        MayTimeOut, FirstFree, FreeSlots, accepter
<1>1. CASE ReceiveEnds(i) BY <1>1 DEF ReceiveEnds
<1>2. CASE CleanLock(i) BY <1>2 DEF CleanLock
<1>3. CASE CleanTimeout(i) BY <1>3 DEF CleanTimeout, LetGo
<1>4. CASE Clean(i) BY <1>4 DEF Clean, Close, EmptySlot
<1>5. CASE CleanUnlock(i) BY <1>5 DEF CleanUnlock, LetGo
<1>6. CASE EndTask(i) BY <1>6 DEF EndTask
<1> QED BY <1>1, <1>2, <1>3, <1>4, <1>5, <1>6 DEF Receiver

\* The counter only takes and gives the mutex; a stray close() voids SocketInv.
LEMMA OthersIInv == IInv /\ (Count \/ StrayClose) => IInv'
<1> SUFFICES ASSUME IInv, Count \/ StrayClose PROVE IInv'
    OBVIOUS
<1> USE NumSlotsAssumption, MaxStrayAssumption
    DEF IInv, TypeOK, MutexInv, SlotInv, SocketInv, HandInv, BeingFilled, Whole, InUse, Slots, Nobody,
        Accepter, Counter, Parties, SlotRecords, Pointers, AGoto, RGoto, CGoto, Take, Give,
        MayTimeOut, FirstFree, FreeSlots, accepter
<1>1. CASE CountBegin BY <1>1 DEF CountBegin
<1>2. CASE CountLock BY <1>2 DEF CountLock
<1>3. CASE CountTimeout BY <1>3 DEF CountTimeout
<1>4. CASE CountUnlock BY <1>4 DEF CountUnlock
<1>5. CASE StrayClose BY <1>5 DEF StrayClose, Close, OpenedBy
<1> QED BY <1>1, <1>2, <1>3, <1>4, <1>5 DEF Count

\* Every step of the server, and every stuttering step, preserves IInv.
LEMMA NextIInv == IInv /\ [Next]_vars => IInv'
<1> SUFFICES ASSUME IInv, [Next]_vars PROVE IInv'
    OBVIOUS
<1>1. CASE StartOk \/ StartFail \/ Restart BY <1>1, StartIInv
<1>2. CASE Accept \/ Accepting BY <1>2, AcceptIInv
<1>3. CASE \E i \in Slots : Receiver(i) BY <1>3, ReceiverIInv
<1>4. CASE Count \/ StrayClose BY <1>4, OthersIInv
<1>5. CASE UNCHANGED vars
  <2>1. TypeOK' BY <1>5 DEF IInv, TypeOK, vars, accepter
  <2>2. MutexInv' BY <1>5 DEF IInv, MutexInv, vars, accepter
  <2>3. SlotInv' BY <1>5 DEF IInv, SlotInv, BeingFilled, Whole, vars, accepter
  <2>4. SocketInv' BY <1>5 DEF IInv, SocketInv, InUse, vars, accepter
  <2>5. HandInv' BY <1>5 DEF IInv, HandInv, vars, accepter
  <2> QED BY <2>1, <2>2, <2>3, <2>4, <2>5 DEF IInv
<1> QED BY <1>1, <1>2, <1>3, <1>4, <1>5 DEF Next

\* IInv holds in every reachable state.
LEMMA SpecIInv == Spec => []IInv
BY InitIInv, NextIInv, PTL DEF Spec

-----------------------------------------------------------------------------
(* The slots as a pool.  Every step of the server is one step of SlotPool on  *)
(* the slots in service, the lost slots and the lost sockets, or none.        *)

PoolUnchanged == InUse' = InUse /\ Orphans' = Orphans /\ LeakedSockets' = LeakedSockets

\* An open connection that the accept task or a slot remembers.
Remembered(f) == asock = f \/ \E i \in InUse : slot[i].sock = f

\* Starting, accepting, refusing and handing over change nothing in the pool.
LEMMA AcceptPool ==
    ASSUME IInv,
           \/ StartOk \/ StartFail \/ Restart \/ Accept \/ Lock \/ Refuse
           \/ PlaceNoBuffer \/ GiveSlot \/ CreateOk \/ CreateFail \/ Relock
    PROVE  PoolUnchanged /\ lost' = lost
<1> USE DEF IInv, TypeOK, AGoto, accepter
<1>1. /\ lost' = lost
      /\ \A i \in Slots : slot'[i].state = slot[i].state
  <2>1. CASE PlaceNoBuffer
      BY <2>1 DEF PlaceNoBuffer, SlotRecords
  <2> QED BY <2>1 DEF StartOk, StartFail, Restart, Accept, Lock, Refuse, GiveSlot, CreateOk,
                CreateFail, Relock
<1>2. InUse' = InUse
    BY <1>1 DEF InUse
<1>3. \A i \in InUse : slot'[i].sock = slot[i].sock
  <2>1. CASE PlaceNoBuffer
      BY <2>1 DEF PlaceNoBuffer, InUse, FirstFree, FreeSlots
  <2> QED BY <2>1 DEF StartOk, StartFail, Restart, Accept, Lock, Refuse, GiveSlot, CreateOk,
                CreateFail, Relock
<1>4. \A i \in InUse : (rpc'[i] = "none" /\ ~BeingFilled(i)') <=> (rpc[i] = "none" /\ ~BeingFilled(i))
  <2>1. CASE CreateOk
      BY <2>1 DEF CreateOk, BeingFilled, InUse
  <2> QED BY <2>1 DEF StartOk, StartFail, Restart, Accept, Lock, Refuse, GiveSlot, PlaceNoBuffer,
                CreateFail, Relock, BeingFilled
<1>5. Orphans' = Orphans
    BY <1>2, <1>4 DEF Orphans
<1>6. \A f \in Fds : (fdTab'[f] = "accepted" /\ ~Remembered(f)') <=> (fdTab[f] = "accepted" /\ ~Remembered(f))
  <2> TAKE f \in Fds
  <2>1. (\E i \in InUse' : slot'[i].sock = f) <=> (\E i \in InUse : slot[i].sock = f)
      BY <1>2, <1>3
  <2>2. CASE StartOk \/ StartFail \/ Restart
      BY <2>1, <2>2 DEF StartOk, StartFail, Restart, OpenAs, IsNextFd, Unused, Remembered
  <2>3. CASE Accept
      BY <2>1, <2>3 DEF Accept, OpenAs, IsNextFd, HandInv, Unused, Remembered, Fds, NoFd
  <2>4. CASE Lock \/ GiveSlot \/ CreateFail \/ Relock
      BY <2>1, <2>4 DEF Lock, GiveSlot, CreateFail, Relock, Remembered
  <2>5. CASE Refuse \/ PlaceNoBuffer
    <3>1. asock' = NoFd /\ fdTab'[f] = IF f = asock THEN Unused ELSE fdTab[f]
        BY <2>5 DEF Refuse, PlaceNoBuffer, Close
    <3> QED BY <2>1, <3>1 DEF Remembered, Fds, NoFd, Unused
  <2>6. CASE CreateOk
      BY <2>1, <2>6 DEF CreateOk, SlotInv, BeingFilled, Whole, InUse, Remembered, Fds, NoFd
  <2> QED BY <2>2, <2>3, <2>4, <2>5, <2>6
<1>7. LeakedSockets' = LeakedSockets
    BY <1>6 DEF LeakedSockets, OpenedBy, Remembered
<1> QED BY <1>1, <1>2, <1>5, <1>7 DEF PoolUnchanged

\* The receive tasks before and after they clean up, and the callers of the count.
LEMMA QuietPool ==
    ASSUME IInv,
           \/ \E i \in Slots : ReceiveEnds(i) \/ CleanLock(i) \/ CleanUnlock(i) \/ EndTask(i)
           \/ Count
    PROVE  PoolUnchanged /\ lost' = lost
<1>1. /\ lost' = lost /\ slot' = slot /\ fdTab' = fdTab /\ UNCHANGED accepter
      /\ \A i \in InUse : rpc'[i] = "none" <=> rpc[i] = "none"
  <2>1. ASSUME NEW i \in Slots, ReceiveEnds(i) \/ CleanLock(i) PROVE <1>1
      BY <2>1 DEF ReceiveEnds, CleanLock, RGoto, InUse, IInv, TypeOK
  <2>2. ASSUME NEW i \in Slots, CleanUnlock(i) PROVE <1>1
      BY <2>2 DEF CleanUnlock, RGoto, InUse, IInv, TypeOK, SlotInv
  <2>3. CASE Count
      BY <2>3 DEF Count, CountBegin, CountLock, CountTimeout, CountUnlock
  <2>4. ASSUME NEW i \in Slots, EndTask(i) PROVE <1>1
      BY <2>4 DEF EndTask
  <2> QED BY <2>1, <2>2, <2>3, <2>4
<1>2. InUse' = InUse
    BY <1>1 DEF InUse
<1>3. Orphans' = Orphans
    BY <1>1, <1>2 DEF Orphans, BeingFilled, accepter
<1>4. LeakedSockets' = LeakedSockets
    BY <1>1, <1>2 DEF LeakedSockets, OpenedBy, accepter
<1> QED BY <1>1, <1>2, <1>3, <1>4 DEF PoolUnchanged

\* Filling a slot makes it serve.
LEMMA PlacePool ==
    ASSUME IInv, Place
    PROVE  \E i \in Slots : Pool!Serve(i)
<1> USE DEF IInv, TypeOK, AGoto, accepter
<1> PICK i \in Slots, handle \in {"live", "null"} :
        /\ FirstFree(i)
        /\ aslot' = i
        /\ slot' = [slot EXCEPT ![i] =
                [state |-> "READY", sock |-> asock, buf |-> "live", dh |-> handle]]
    BY DEF Place
<1>1. i \notin InUse /\ InUse' = InUse \cup {i}
    BY DEF InUse, FirstFree, FreeSlots
<1>2. Orphans' = Orphans
    BY <1>1 DEF Place, Orphans, BeingFilled, InUse
<1>3. LeakedSockets' = LeakedSockets
  <2>1. \A f \in Fds : asock # f => ((\E j \in InUse' : slot'[j].sock = f) <=> (\E j \in InUse : slot[j].sock = f))
      BY <1>1 DEF InUse
  <2> QED BY <2>1 DEF Place, LeakedSockets, OpenedBy
<1>4. i \notin Orphans /\ Orphans \subseteq InUse
    BY <1>1 DEF Orphans
<1> QED BY <1>1, <1>2, <1>3, <1>4 DEF Pool!Serve, Place

\* A slot taken apart is released, by the accept task or by its receive task.
LEMMA ReleasePool ==
    ASSUME IInv, NEW i \in Slots, i \in InUse, i \notin Orphans,
           slot'[i].state = "FREE",
           \A j \in Slots : j # i => slot'[j] = slot[j] /\ rpc'[j] = rpc[j],
           \A j \in Slots : j # i => (BeingFilled(j)' <=> BeingFilled(j)),
           asock' = asock \/ (asock' = NoFd /\ asock = slot[i].sock),
           \A f \in Fds : fdTab'[f] = IF f = slot[i].sock THEN Unused ELSE fdTab[f],
           lost' = lost
    PROVE  Pool!Release(i)
<1>1. InUse' = InUse \ {i}
    BY DEF InUse
<1>2. Orphans' = Orphans
    BY <1>1 DEF Orphans, InUse
<1>3. LeakedSockets' = LeakedSockets
  <2>1. \A f \in Fds : f # slot[i].sock =>
            ((\E j \in InUse' : slot'[j].sock = f) <=> (\E j \in InUse : slot[j].sock = f))
      BY <1>1 DEF InUse
  <2>2. \A f \in Fds : f # slot[i].sock => (asock' = f <=> asock = f)
      BY DEF Fds, NoFd
  <2> QED BY <2>1, <2>2 DEF LeakedSockets, OpenedBy, Unused
<1> QED BY <1>1, <1>2, <1>3 DEF Pool!Release

\* A task that gives up its slot after a timeout leaves it to nobody.
LEMMA LoseSlotPool ==
    ASSUME IInv, NEW i \in Slots, i \in InUse, i \notin Orphans,
           rpc'[i] = "none", ~BeingFilled(i)',
           \A j \in Slots : j # i =>
                rpc'[j] = rpc[j] /\ (BeingFilled(j)' <=> BeingFilled(j)),
           asock' = asock \/ (asock' = NoFd /\ asock = slot[i].sock),
           UNCHANGED <<slot, fdTab>>, lost' = lost + 1
    PROVE  Pool!LoseSlot(i)
<1>1. InUse' = InUse
    BY DEF InUse
<1>2. Orphans' = Orphans \cup {i}
    BY <1>1 DEF Orphans, InUse
<1>3. LeakedSockets' = LeakedSockets
    BY <1>1 DEF LeakedSockets, OpenedBy, Fds, NoFd
<1> QED BY <1>1, <1>2, <1>3 DEF Pool!LoseSlot

\* The accept task gives up a connection nobody else remembers, or nothing.
LEMMA LoseSocketPool ==
    ASSUME IInv, LockTimeout
    PROVE  Pool!LoseNothing \/ \E f \in Fds : Pool!LoseSocket(f)
<1> USE DEF IInv, TypeOK, AGoto, LockTimeout
<1>1. InUse' = InUse
    BY DEF InUse
<1>2. Orphans' = Orphans
    BY <1>1 DEF Orphans, BeingFilled
<1>3. CASE asock \in LeakedSockets'
  <2>1. LeakedSockets' = LeakedSockets \cup {asock}
      BY <1>1, <1>3 DEF LeakedSockets, OpenedBy, Fds, NoFd
  <2>2. asock \in Fds /\ asock \notin LeakedSockets
      BY <1>3 DEF LeakedSockets, OpenedBy
  <2> QED BY <1>1, <1>2, <2>1, <2>2 DEF Pool!LoseSocket
<1>4. CASE asock \notin LeakedSockets'
  <2>1. LeakedSockets' = LeakedSockets
      BY <1>1, <1>4 DEF LeakedSockets, OpenedBy, Fds, NoFd
  <2> QED BY <1>1, <1>2, <2>1 DEF Pool!LoseNothing
<1> QED BY <1>3, <1>4

\* A stray close() frees a lost socket, or takes one somebody still remembers.
LEMMA StrayPool ==
    ASSUME IInv, StrayClose
    PROVE  UNCHANGED Pool!vars \/ \E f \in Fds : Pool!CloseByMistake(f)
<1> USE DEF IInv, TypeOK, accepter
<1> PICK f \in OpenedBy(fdTab, "accepted") : fdTab' = Close(fdTab, f)
    BY DEF StrayClose
<1>1. UNCHANGED <<accepter, slot, rpc, lost>>
    BY DEF StrayClose
<1>2. InUse' = InUse
    BY <1>1 DEF InUse
<1>3. Orphans' = Orphans
    BY <1>1, <1>2 DEF Orphans, BeingFilled
<1>4. LeakedSockets' = LeakedSockets \ {f}
    BY <1>1, <1>2 DEF LeakedSockets, OpenedBy, Close, Unused
<1>5. CASE f \in LeakedSockets
    BY <1>1, <1>2, <1>3, <1>4, <1>5 DEF Pool!CloseByMistake, OpenedBy
<1>6. CASE f \notin LeakedSockets
    BY <1>1, <1>2, <1>3, <1>4, <1>6 DEF Pool!vars
<1> QED BY <1>5, <1>6

\* Every step of the server is a step of the pool or leaves it alone.
LEMMA StepImplementsPool ==
    ASSUME IInv, Next
    PROVE  [Pool!Next]_(Pool!vars)
<1> USE DEF IInv, TypeOK, AGoto, RGoto, accepter
<1>1. CASE \/ StartOk \/ StartFail \/ Restart \/ Accept \/ Lock \/ Refuse
           \/ PlaceNoBuffer \/ GiveSlot \/ CreateOk \/ CreateFail \/ Relock
    BY <1>1, AcceptPool DEF PoolUnchanged, Pool!vars
<1>2. CASE Place
    BY <1>2, PlacePool DEF Pool!Next
<1>3. CASE Undo
  <2>1. aslot \in InUse /\ aslot \notin Orphans /\ slot[aslot].sock = asock
      BY <1>3 DEF Undo, SlotInv, BeingFilled, Whole, InUse, Orphans
  <2>2. /\ slot'[aslot].state = "FREE"
        /\ \A j \in Slots : j # aslot => slot'[j] = slot[j] /\ rpc'[j] = rpc[j]
        /\ lost' = lost /\ asock' = NoFd
      BY <1>3 DEF Undo
  <2>3. \A j \in Slots : j # aslot => (BeingFilled(j)' <=> BeingFilled(j))
      BY <1>3 DEF Undo, BeingFilled
  <2>4. \A f \in Fds : fdTab'[f] = IF f = slot[aslot].sock THEN Unused ELSE fdTab[f]
      BY <1>3, <2>1 DEF Undo, Close
  <2>5. Pool!Release(aslot)
      BY <2>1, <2>2, <2>3, <2>4, ReleasePool
  <2> QED BY <2>5 DEF Pool!Next
<1>4. CASE RelockTimeout
  <2>1. /\ aslot \in InUse /\ aslot \notin Orphans /\ slot[aslot].sock = asock
        /\ rpc[aslot] = "none"
      BY <1>4 DEF RelockTimeout, SlotInv, BeingFilled, Whole, InUse, Orphans
  <2>2. \A j \in Slots : ~BeingFilled(j)' /\ (j # aslot => ~BeingFilled(j))
      BY <1>4 DEF RelockTimeout, BeingFilled
  <2>3. Pool!LoseSlot(aslot)
      BY <1>4, <2>1, <2>2, LoseSlotPool DEF RelockTimeout
  <2> QED BY <2>3 DEF Pool!Next
<1>5. CASE LockTimeout
    BY <1>5, LoseSocketPool DEF Pool!Next
<1>6. ASSUME NEW i \in Slots, Clean(i) PROVE [Pool!Next]_(Pool!vars)
  <2>1. i \in InUse /\ i \notin Orphans
      BY <1>6 DEF Clean, SlotInv, Whole, InUse, Orphans
  <2>2. /\ slot'[i].state = "FREE"
        /\ \A j \in Slots : j # i => slot'[j] = slot[j] /\ rpc'[j] = rpc[j]
        /\ lost' = lost /\ UNCHANGED accepter
      BY <1>6 DEF Clean, EmptySlot
  <2>3. \A j \in Slots : BeingFilled(j)' <=> BeingFilled(j)
      BY <2>2 DEF BeingFilled
  <2>4. \A f \in Fds : fdTab'[f] = IF f = slot[i].sock THEN Unused ELSE fdTab[f]
      BY <1>6 DEF Clean, Close
  <2>5. Pool!Release(i)
      BY <2>1, <2>2, <2>3, <2>4, ReleasePool
  <2> QED BY <2>5 DEF Pool!Next
<1>7. ASSUME NEW i \in Slots, CleanTimeout(i) PROVE [Pool!Next]_(Pool!vars)
  <2>1. i \in InUse /\ i \notin Orphans /\ ~BeingFilled(i)
      BY <1>7 DEF CleanTimeout, SlotInv, Whole, InUse, Orphans
  <2>2. /\ rpc'[i] = "none"
        /\ \A j \in Slots : j # i => rpc'[j] = rpc[j]
        /\ UNCHANGED <<accepter, slot, fdTab>> /\ lost' = lost + 1
      BY <1>7 DEF CleanTimeout
  <2>3. \A j \in Slots : BeingFilled(j)' <=> BeingFilled(j)
      BY <2>2 DEF BeingFilled
  <2>4. Pool!LoseSlot(i)
      BY <2>1, <2>2, <2>3, LoseSlotPool
  <2> QED BY <2>4 DEF Pool!Next
<1>8. CASE Count \/ \E i \in Slots : ReceiveEnds(i) \/ CleanLock(i) \/ CleanUnlock(i) \/ EndTask(i)
    BY <1>8, QuietPool DEF PoolUnchanged, Pool!vars
<1>9. CASE StrayClose
    BY <1>9, StrayPool DEF Pool!Next
<1> QED BY <1>1, <1>2, <1>3, <1>4, <1>5, <1>6, <1>7, <1>8, <1>9 DEF Next, Accepting, Receiver

\* What a pool has lost is finite, and counted by its timeouts.
LossCounted ==
    /\ IsFiniteSet(Orphans) /\ IsFiniteSet(LeakedSockets)
    /\ lost \in Nat
    /\ LossOnlyByTimeout

\* Each step of a pool loses one slot or socket for one timeout, or none.
LEMMA PoolCountsLoss ==
    ASSUME LossCounted, [Pool!Next]_(Pool!vars)
    PROVE  LossCounted'
<1> USE DEF LossCounted, LossOnlyByTimeout
<1>0. Cardinality(Orphans) \in Nat /\ Cardinality(LeakedSockets) \in Nat
    BY FS_CardinalityType
<1>1. CASE UNCHANGED Pool!vars
    BY <1>1 DEF Pool!vars
<1>2. ASSUME NEW i \in Slots, Pool!Serve(i) \/ Pool!Release(i) PROVE LossCounted'
    BY <1>2 DEF Pool!Serve, Pool!Release
<1>3. ASSUME NEW i \in Slots, Pool!LoseSlot(i) PROVE LossCounted'
  <2>1. /\ IsFiniteSet(Orphans \cup {i})
        /\ Cardinality(Orphans \cup {i}) \in {Cardinality(Orphans), Cardinality(Orphans) + 1}
      BY FS_AddElement
  <2> QED BY <1>0, <1>3, <2>1 DEF Pool!LoseSlot
<1>4. ASSUME NEW f \in Fds, Pool!LoseSocket(f) PROVE LossCounted'
  <2>1. /\ IsFiniteSet(LeakedSockets \cup {f})
        /\ Cardinality(LeakedSockets \cup {f})
             \in {Cardinality(LeakedSockets), Cardinality(LeakedSockets) + 1}
      BY FS_AddElement
  <2> QED BY <1>0, <1>4, <2>1 DEF Pool!LoseSocket
<1>5. ASSUME NEW f \in Fds, Pool!CloseByMistake(f) PROVE LossCounted'
  <2>1. /\ IsFiniteSet(LeakedSockets \ {f})
        /\ Cardinality(LeakedSockets \ {f}) <= Cardinality(LeakedSockets)
        /\ Cardinality(LeakedSockets \ {f}) \in Nat
      BY FS_Subset, FS_CardinalityType
  <2> QED BY <1>0, <1>5, <2>1 DEF Pool!CloseByMistake
<1>6. CASE Pool!LoseNothing
    BY <1>0, <1>6 DEF Pool!LoseNothing
<1> QED BY <1>1, <1>2, <1>3, <1>4, <1>5, <1>6 DEF Pool!Next

\* The server gives and takes its slots as SlotPool says: slots and sockets are
\* lost by timeouts only, and no task ever gets a lost slot back.
THEOREM ServerIsSlotPool == Spec => ImplementsSlotPool
<1>1. Init => Pool!Init
    BY DEF Init, Pool!Init, InUse, Orphans, LeakedSockets, OpenedBy, EmptySlot, EmptyTable, Unused
<1>2. IInv /\ [Next]_vars => [Pool!Next]_(Pool!vars)
  <2>1. UNCHANGED vars => UNCHANGED Pool!vars
      BY DEF vars, accepter, Pool!vars, InUse, Orphans, BeingFilled, LeakedSockets, OpenedBy
  <2> QED BY <2>1, StepImplementsPool
<1> QED BY <1>1, <1>2, SpecIInv, PTL DEF Spec, Pool!Spec, ImplementsSlotPool

\* Whatever the tasks do to each other, no more slots and sockets are lost than
\* waits for the mutex have timed out.
THEOREM LossIsBounded == Spec => []LossOnlyByTimeout
<1>1. Init => LossCounted
  <2> SUFFICES ASSUME Init PROVE LossCounted
      OBVIOUS
  <2>1. Orphans = {} /\ LeakedSockets = {} /\ lost = 0
      BY DEF Init, InUse, Orphans, LeakedSockets, OpenedBy, EmptySlot, EmptyTable, Unused
  <2> QED BY <2>1, FS_EmptySet DEF LossCounted, LossOnlyByTimeout
<1>2. LossCounted /\ [Pool!Next]_(Pool!vars) => LossCounted'
    BY PoolCountsLoss
<1>3. LossCounted => LossOnlyByTimeout
    BY DEF LossCounted
<1> QED BY <1>1, <1>2, <1>3, ServerIsSlotPool, PTL DEF Spec, Pool!Spec, ImplementsSlotPool

-----------------------------------------------------------------------------
(* What follows from the invariant. *)

\* Every variable keeps its type for any number of slots, descriptors and strays.
THEOREM ServerTypeCorrect == Spec => []TypeOK
<1>1. IInv => TypeOK BY DEF IInv
<1> QED BY <1>1, SpecIInv, PTL

\* The accept task fills only slots that every earlier receive task has let go of, and
\* stays in charge of them until its new task exists or the slot is undone: two tasks
\* never share a socket, a buffer and a handle, although the task is created after the
\* mutex is given back and an earlier task may end later than that.
THEOREM OneTaskInCharge == Spec => []FilledSlotIsLetGo
<1>1. IInv => FilledSlotIsLetGo BY DEF IInv, SlotInv, FilledSlotIsLetGo
<1> QED BY <1>1, SpecIInv, PTL

\* Until a receive task takes its slot apart nobody frees the slot's buffer,
\* its handle or the slot, not even the accept task undoing a slot of its own.
THEOREM ReceiverOwnership == Spec => []ReceiverOwnsItsSlot
<1>1. IInv => ReceiverOwnsItsSlot BY DEF IInv, SlotInv, Whole, ReceiverOwnsItsSlot
<1> QED BY <1>1, SpecIInv, PTL

\* As long as no other task closes a socket of the server, slots in use hold
\* open sockets and no two slots the same one, across all mutex timeouts.
THEOREM DistinctSockets == Spec => []SlotsHoldDistinctSockets
<1>1. IInv => SlotsHoldDistinctSockets
    BY DEF IInv, SocketInv, InUse, OpenedBy, SlotsHoldDistinctSockets
<1> QED BY <1>1, SpecIInv, PTL

\* Every step that rewrites a slot is one of the mutex holder.
THEOREM MutexDiscipline == Spec => SlotsChangeUnderMutex
<1> DEFINE A == \A i \in Slots : slot'[i] # slot[i] => mutex \in {Accepter, i}
<1>1. IInv /\ [Next]_vars => [A]_vars
  <2> SUFFICES ASSUME IInv, [Next]_vars, NEW i \in Slots, slot'[i] # slot[i]
               PROVE  mutex \in {Accepter, i}
      OBVIOUS
  <2>1. CASE StartOk \/ StartFail \/ Restart
      BY <2>1 DEF StartOk, StartFail, Restart
  <2>2. CASE Accept \/ Accepting
      BY <2>2 DEF IInv, MutexInv, Accept, Accepting, Lock, LockTimeout, Refuse, PlaceNoBuffer,
          Place, GiveSlot, CreateOk, CreateFail, Relock, RelockTimeout, Undo, AGoto
  <2>3. ASSUME NEW j \in Slots, Receiver(j) PROVE mutex \in {Accepter, i}
      BY <2>3 DEF IInv, TypeOK, MutexInv, Receiver, ReceiveEnds, CleanLock, CleanTimeout, Clean,
          CleanUnlock, EndTask, RGoto
  <2>4. CASE Count \/ StrayClose
      BY <2>4 DEF Count, CountBegin, CountLock, CountTimeout, CountUnlock, StrayClose
  <2>5. CASE UNCHANGED vars BY <2>5 DEF vars
  <2> QED BY <2>1, <2>2, <2>3, <2>4, <2>5 DEF Next
<1>2. []IInv /\ [][Next]_vars => [][A]_vars BY <1>1, PTL
<1> QED BY <1>2, SpecIInv, PTL DEF Spec, SlotsChangeUnderMutex

=============================================================================
