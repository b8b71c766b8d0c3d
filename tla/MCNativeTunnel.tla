--------------------------- MODULE MCNativeTunnel ---------------------------
(***************************************************************************)
(* NativeTunnel with two callers that overlap and two sessions, and with   *)
(* one caller; enough starts that a tunnel is stopped and started again.   *)
(***************************************************************************)
EXTENDS NativeTunnel

CONSTANTS s1, s2, s3, c1, c2
=============================================================================
