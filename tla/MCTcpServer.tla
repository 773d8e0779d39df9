---------------------------- MODULE MCTcpServer ----------------------------
(* The TCP server with two slots and more connections than it can keep. *)
EXTENDS TcpServer

=============================================================================
