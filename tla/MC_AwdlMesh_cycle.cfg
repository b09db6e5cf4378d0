SPECIFICATION Spec
CONSTANTS
  MaxAddr <- MCMaxAddr
  TreeMaxHeight <- MCTreeMaxHeight
  MetricInit <- MCMetricInit
  CounterInit <- MCCounterInit
  Word <- MCWord
  Node <- TwoNodes
  Foreign <- OneForeign
  Steady <- NoForeign
  InRange <- Complete
  ForeignMetric <- MCForeignMetric
  ForeignCounter <- MCForeignCounter
  Timeout = 0
  FrameTypes <- OnlyMIF
  InboxCap = 1
  Timely = FALSE
INVARIANTS
  NoSyncCycle
