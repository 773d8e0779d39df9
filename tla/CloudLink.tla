----------------------------- MODULE CloudLink -----------------------------
(***************************************************************************)
(* What the cloud connection promises to the rest of the firmware, which    *)
(* sees it only through tcp_client_task_is_connected() and                  *)
(* tcp_client_task_send().                                                  *)
(*                                                                         *)
(*   - The connection is announced (READY) only when a TLS session exists,   *)
(*     and a session comes to exist only in a handshake.                    *)
(*   - No new connection is dialled while the last session still exists.     *)
(*   - A session that is lost is no longer announced in the end, and a lost  *)
(*     connection is dialled again.                                         *)
(*                                                                         *)
(* It does not promise that an announced connection still has its session:  *)
(* the teardown may destroy the session before it withdraws READY.          *)
(***************************************************************************)

VARIABLES link,      \* tcp_client_state_t of the client
          session    \* "none" or "sealed": a TLS session with completed handshake

vars == <<link, session>>

Init == link = "DISCONNECTED" /\ session = "none"

\* A failed connect() leaves the link CONNECTING: dialling again is no step of it.
Dial ==
    /\ link = "DISCONNECTED"
    /\ session = "none"
    /\ link' = "CONNECTING"
    /\ UNCHANGED session

Secure ==
    /\ link = "CONNECTING"
    /\ link' = "TLS_HANDSHAKE"
    /\ UNCHANGED session

Seal ==
    /\ link = "TLS_HANDSHAKE"
    /\ session = "none"
    /\ session' = "sealed"
    /\ UNCHANGED link

Refuse ==
    /\ link = "TLS_HANDSHAKE"
    /\ session = "none"
    /\ link' = "DISCONNECTED"
    /\ UNCHANGED session

Announce ==
    /\ link = "TLS_HANDSHAKE"
    /\ session = "sealed"
    /\ link' = "READY"
    /\ UNCHANGED session

\* The session goes before or after the announcement is withdrawn.
Lose ==
    /\ link \in {"READY", "DISCONNECTED"}
    /\ session = "sealed"
    /\ session' = "none"
    /\ UNCHANGED link

Withdraw ==
    /\ link = "READY"
    /\ link' = "DISCONNECTED"
    /\ UNCHANGED session

Next == Dial \/ Secure \/ Seal \/ Refuse \/ Announce \/ Lose \/ Withdraw

Safety == Init /\ [][Next]_vars

Progress ==
    /\ WF_vars(Dial)
    /\ WF_vars(Announce)
    /\ WF_vars(session = "none" /\ Withdraw)

Spec == Safety /\ Progress

=============================================================================
