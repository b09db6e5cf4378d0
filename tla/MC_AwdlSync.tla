---------------------------- MODULE MC_AwdlSync ----------------------------
(***************************************************************************)
(* AwdlSync for TLC: an EAW of 6 ticks and a counter that wraps around     *)
(* every 24.  A master, a node that follows it and one that follows that.  *)
(***************************************************************************)
EXTENDS AwdlSync

(* Schedules with the same position in the cycle are the same schedule:    *)
(* what a node derives depends on no more.                                 *)
Schedules == <<[n \in Node |-> Position(n) % Cycle], air, synced>>

=============================================================================
