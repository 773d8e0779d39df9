----------------------------- MODULE ParamStore -----------------------------
(***************************************************************************)
(* What the parameters promise to whoever sets them and asks for them,      *)
(* however many calls of NVS, tasks and errors stand behind it.             *)
(*                                                                         *)
(*   - A parameter changes by being set to a value that is allowed for it;    *)
(*     a restart may take back, or bring about, what was not promised.       *)
(*   - What is promised has a value, and no restart changes that value: only *)
(*     setting the parameter anew ends the promise.                         *)
(*   - Asking is in vain exactly if something asked for has no value.        *)
(***************************************************************************)

CONSTANTS Params, Unset,
          Allowed     \* the values each parameter may be set to

VARIABLES value,      \* what asking for a parameter finds
          promised,   \* the parameters of the last command answered OK, not set since
          missing     \* what the last step asked for in vain

vars == <<value, promised, missing>>

Init ==
    /\ value = [p \in Params |-> Unset]
    /\ promised = {}
    /\ missing = {}

Set(p, v) ==
    /\ value' = [value EXCEPT ![p] = v]
    /\ v \in Allowed[p]
    /\ promised' = promised \ {p}
    /\ missing' = {}

Promise(ps) ==
    /\ promised' = ps
    /\ \A p \in ps : value[p] # Unset
    /\ missing' = {}
    /\ UNCHANGED value

Restart ==
    /\ DOMAIN value' = Params
    /\ \A p \in Params : value'[p] \in Allowed[p] \cup {Unset}
    /\ \A p \in promised : value'[p] = value[p]
    /\ missing' = {}
    /\ UNCHANGED promised

Ask(ps) ==
    /\ UNCHANGED <<value, promised>>
    /\ missing' = IF \A p \in ps : value[p] # Unset THEN {} ELSE ps

Next ==
    \/ \E ps \in SUBSET Params : Ask(ps) \/ Promise(ps)
    \/ \E p \in Params : \E v \in Allowed[p] : Set(p, v)
    \/ Restart

Spec == Init /\ [][Next]_vars

=============================================================================
