------------------------------ MODULE MCRadio -------------------------------
(* WiFi, lights and BLE on one chip, restarted at any time. *)
EXTENDS Radio

=============================================================================
