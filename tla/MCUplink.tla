------------------------------ MODULE MCUplink ------------------------------
(* Bus and heartbeat to cloud, with a counter small enough to wrap. *)
EXTENDS Uplink

=============================================================================
