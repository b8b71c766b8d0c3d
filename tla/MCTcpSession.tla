---------------------------- MODULE MCTcpSession ----------------------------
(* Instance of TcpSession for TLC: a ring the download wraps around, a       *)
(* window smaller than the upload.                                           *)
EXTENDS TcpSession
=============================================================================
