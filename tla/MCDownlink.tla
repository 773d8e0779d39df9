----------------------------- MODULE MCDownlink -----------------------------
(* Cloud to bus: frames whole, in pairs and in parts. *)
EXTENDS Downlink

=============================================================================
