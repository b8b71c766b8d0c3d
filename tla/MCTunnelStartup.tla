-------------------------- MODULE MCTunnelStartup --------------------------
(***************************************************************************)
(* TunnelStartup for sets of tunnel kinds.                                 *)
(***************************************************************************)
EXTENDS TunnelStartup

\* Kinds that stopCurrentProxy() stops completely: all but VLESS with REALITY.
StoppedKinds == AllKinds \ {"VLESS_REALITY"}

\* Kinds that start a client and then a listener, whose restart waits for the
\* parts it has started itself.
CancelledKinds == {"SLIPSTREAM", "DNSTT_SSH", "NAIVE"}

=============================================================================
