----------------------------- MODULE MC_AwdlRx -----------------------------
(***************************************************************************)
(* AwdlRx for TLC: a node and two peers.  One has two announcements that   *)
(* differ in every field a TLV carries, the other's frames carry no        *)
(* election TLVs.                                                          *)
(***************************************************************************)
EXTENDS AwdlRx

MCMaxAddr == 3
MCMetricInit == 1
MCCounterInit == 0
MCWord == 4
MCTreeMaxHeight == 2

MCSelf == 1
TwoPeers == {2, 3}

\* Peer 3 as its own master, and below peer 2 with another metric and counter.
AsMaster == NewState(3)
AsFollower ==
  [ self_addr |-> 3, master_addr |-> 2, sync_addr |-> 2, height |-> 1,
    master_metric |-> 2, self_metric |-> 2, master_counter |-> 1, self_counter |-> 1 ]

MCAnnounce == [p \in TwoPeers |-> IF p = 3 THEN {AsMaster, AsFollower} ELSE {}]

=============================================================================
