------------------------------ MODULE SlotPool ------------------------------
(***************************************************************************)
(* What the TCP server does with its capacity, whoever runs and whoever     *)
(* waits: a slot serves one connection after another until it is released,   *)
(* or it is lost, and what is lost stays lost.                              *)
(*                                                                         *)
(*   - A slot starts to serve only if it is free.                           *)
(*   - A slot or a socket is lost only by a wait for the mutex that times    *)
(*     out, one at a time.                                                  *)
(*   - No lost slot is ever released or served again; the number of slots    *)
(*     in service can only shrink until the chip restarts.                  *)
(*   - A lost socket is freed by nobody but a task that closes it by mistake. *)
(***************************************************************************)
EXTENDS Naturals, FiniteSets

CONSTANTS Slots, Sockets

VARIABLES serving,      \* slots a task answers for
          lostSlots,    \* slots in use nobody answers for
          lostSockets,  \* open connections nobody remembers
          timeouts      \* waits that gave something up

vars == <<serving, lostSlots, lostSockets, timeouts>>

Init ==
    /\ serving = {}
    /\ lostSlots = {}
    /\ lostSockets = {}
    /\ timeouts = 0

Serve(i) ==
    /\ i \notin serving \cup lostSlots
    /\ serving' = serving \cup {i}
    /\ UNCHANGED <<lostSlots, lostSockets, timeouts>>

Release(i) ==
    /\ i \in serving
    /\ serving' = serving \ {i}
    /\ UNCHANGED <<lostSlots, lostSockets, timeouts>>

LoseSlot(i) ==
    /\ i \in serving
    /\ serving' = serving \ {i}
    /\ lostSlots' = lostSlots \cup {i}
    /\ timeouts' = timeouts + 1
    /\ UNCHANGED lostSockets

LoseSocket(f) ==
    /\ f \notin lostSockets
    /\ lostSockets' = lostSockets \cup {f}
    /\ timeouts' = timeouts + 1
    /\ UNCHANGED <<serving, lostSlots>>

\* The socket given up had been closed by mistake already.
LoseNothing ==
    /\ timeouts' = timeouts + 1
    /\ UNCHANGED <<serving, lostSlots, lostSockets>>

CloseByMistake(f) ==
    /\ f \in lostSockets
    /\ lostSockets' = lostSockets \ {f}
    /\ UNCHANGED <<serving, lostSlots, timeouts>>

Next ==
    \/ \E i \in Slots : Serve(i) \/ Release(i) \/ LoseSlot(i)
    \/ \E f \in Sockets : LoseSocket(f) \/ CloseByMistake(f)
    \/ LoseNothing

Spec == Init /\ [][Next]_vars

=============================================================================
