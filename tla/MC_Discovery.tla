---------------------------- MODULE MC_Discovery ----------------------------
(* Instances of Discovery for TLC. *)
EXTENDS Discovery, TLC

CONSTANTS iPad, mac, a1, a2

MCServices == {iPad, mac}
MCAddresses == {a1, a2}
MCAtFirst == {(iPad :> a1) @@ (mac :> Gone)}
MCMovers == {mac}
=============================================================================
