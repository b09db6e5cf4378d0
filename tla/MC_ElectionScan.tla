-------------------------- MODULE MC_ElectionScan --------------------------
(***************************************************************************)
(* ElectionScan for TLC: node 1 with up to three peers, one below and two  *)
(* above it, a u32 of 6 values and trees of height 2.                      *)
(***************************************************************************)
EXTENDS ElectionScan

MCMaxAddr == 3
MCTreeMaxHeight == 2
MCMetricInit == 1
MCCounterInit == 0
MCWord == 6
MCSelf == 1
MCSyncs == {1, 3}
\* Up to the limit, and the last value of a u32, whose successor wraps to 0.
MCHeights == {0, 1, 2, MCWord - 1}
MCMetrics == {0, 1}
MCCounters == {0, 1}

=============================================================================
