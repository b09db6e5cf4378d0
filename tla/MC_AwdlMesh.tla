---------------------------- MODULE MC_AwdlMesh ----------------------------
(***************************************************************************)
(* AwdlMesh for TLC.  Two and three nodes of this program, with and        *)
(* without a foreign device.  TreeMaxHeight is small so that counting up   *)
(* to it is within reach.                                                  *)
(***************************************************************************)
EXTENDS AwdlMesh

MCMaxAddr == 4
MCMetricInit == 1
MCCounterInit == 0
MCWord == 6
MCTreeMaxHeight == 3

\* For the runs that count up to the height limit: fewer heights, and still one
\* above the limit that does not wrap.
MCSmallWord == 5
MCShallow == 2

TwoNodes == {1, 2}
ThreeNodes == {1, 2, 3}
NoForeign == {}
OneForeign == {4}
MCForeignMetric == 2
MCForeignCounter == 0

\* Everybody hears everybody.
Complete == {link \in Device \X Node : link[1] # link[2]}
\* A ring 1 -> 2 -> 3 -> 1 of links in one direction, into which node 2 brings
\* what it hears of the foreign device.
Ring == {<<1, 2>>, <<2, 3>>, <<3, 1>>, <<4, 2>>}

\* Every device runs at the outset, and one that leaves does not come back.
FarewellInit ==
  /\ up = Device
  /\ elec = [n \in Node |-> NewState(n)]
  /\ peers = [n \in Node |-> EmptyTable]
  /\ inbox = [n \in Node |-> <<>>]

FarewellSpec == FarewellInit /\ [][Next /\ up' \subseteq up]_vars /\ Fairness

AllTypes == {"PSF", "MIF"}
OnlyMIF == {"MIF"}

=============================================================================
