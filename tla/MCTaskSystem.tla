---------------------------- MODULE MCTaskSystem ----------------------------
(***************************************************************************)
(* TaskSystem for three tasks, one of them more important: enough for a    *)
(* holder, a woken waiter and one that barges in, and for two sleepers     *)
(* that expire together.                                                   *)
(***************************************************************************)
EXTENDS TaskSystem

MCPriority == <<1, 1, 2>>
=============================================================================
