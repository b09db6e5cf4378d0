\* Every order of every table: the call computes the declarative outcome.
SPECIFICATION Spec
CONSTANTS
  MaxAddr <- MCMaxAddr
  TreeMaxHeight <- MCTreeMaxHeight
  MetricInit <- MCMetricInit
  CounterInit <- MCCounterInit
  Word <- MCWord
  Self <- MCSelf
  Syncs <- MCSyncs
  Heights <- MCHeights
  Metrics <- MCMetrics
  Counters <- MCCounters
INVARIANTS
  TypeOK
  ScanElects
  HeightBounded
\* The call returns: "done" has no successor.
CHECK_DEADLOCK FALSE
