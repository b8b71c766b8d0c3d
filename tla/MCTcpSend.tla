----------------------------- MODULE MCTcpSend -----------------------------
(* Model checking TcpSend: the sending half of one lwIP connection. *)
EXTENDS TcpSend
=============================================================================
