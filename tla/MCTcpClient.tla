---------------------------- MODULE MCTcpClient ----------------------------
(* The cloud connection with both senders and two sockets of the TCP server. *)
EXTENDS TcpClient

CONSTANTS rs485, heartbeat

MCSenders == {rs485, heartbeat}
MCGuardedSenders == {rs485}

=============================================================================
