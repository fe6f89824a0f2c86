---------------------------- MODULE MCTcpServer -----------------------------
(* Three connections of up to two frames each, racing stop(). *)
EXTENDS TcpServer
=============================================================================
