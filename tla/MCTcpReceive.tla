---------------------------- MODULE MCTcpReceive ----------------------------
(* TcpReceive for TLC. *)
EXTENDS TcpReceive
=============================================================================
