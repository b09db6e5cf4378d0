---------------------------- MODULE MC_Receiving ----------------------------
(* Instances of Receiving for TLC. *)
EXTENDS Receiving

MCTwoPorts == {Port, Port + 1}
=============================================================================
