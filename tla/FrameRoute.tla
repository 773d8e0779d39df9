----------------------------- MODULE FrameRoute -----------------------------
(***************************************************************************)
(* What the route from the cloud to the bus does to a good frame, whatever   *)
(* parsing and writing stand behind it.                                     *)
(*                                                                         *)
(*   - A frame is taken in hand one at a time, each newer than all before.    *)
(*   - What is in hand is called out a fixed number of times before the next   *)
(*     is taken, and every call puts it on the bus if the bus is open.        *)
(*   - Only a restart takes it out of hand earlier, and it closes the bus.     *)
(***************************************************************************)
EXTENDS Naturals, Sequences

CONSTANTS Frames,    \* identities, numbered as they are sent
          Nothing,   \* no frame
          Calls      \* how often a frame is called out

VARIABLES accepted,  \* the good frames so far
          hand,      \* the one in hand
          calls,     \* the calls still to come
          open,      \* the bus takes frames
          bus        \* what it has taken

vars == <<accepted, hand, calls, open, bus>>

Init ==
    /\ accepted = {}
    /\ hand = Nothing
    /\ calls = 0
    /\ open = FALSE
    /\ bus = <<>>

Take(n) ==
    /\ hand = Nothing
    /\ \A m \in accepted : m < n
    /\ accepted' = accepted \cup {n}
    /\ hand' = n
    /\ calls' = Calls
    /\ UNCHANGED <<open, bus>>

Call ==
    /\ hand # Nothing
    /\ calls' = calls - 1
    /\ hand' = IF calls = 1 THEN Nothing ELSE hand
    /\ bus' = IF open THEN Append(bus, hand) ELSE bus
    /\ UNCHANGED <<accepted, open>>

Open ==
    /\ ~open
    /\ open' = TRUE
    /\ UNCHANGED <<accepted, hand, calls, bus>>

Restart ==
    /\ open' = FALSE
    /\ hand' = Nothing
    /\ calls' = 0
    /\ UNCHANGED <<accepted, bus>>

Next == (\E n \in Frames : Take(n)) \/ Call \/ Open \/ Restart

Spec == Init /\ [][Next]_vars

=============================================================================
