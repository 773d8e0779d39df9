----------------------------- MODULE MCSettings -----------------------------
(* Terminal and button over one flash, with power loss. *)
EXTENDS Settings

=============================================================================
