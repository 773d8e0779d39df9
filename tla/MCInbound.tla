----------------------------- MODULE MCInbound ------------------------------
(* Cloud frames whole, in pairs and in parts, and lines of any length. *)
EXTENDS Inbound

=============================================================================
