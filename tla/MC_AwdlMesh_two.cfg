SPECIFICATION Spec
CONSTANTS
  MaxAddr <- MCMaxAddr
  TreeMaxHeight <- MCTreeMaxHeight
  MetricInit <- MCMetricInit
  CounterInit <- MCCounterInit
  Word <- MCWord
  Node <- TwoNodes
  Foreign <- NoForeign
  Steady <- NoForeign
  InRange <- Complete
  ForeignMetric <- MCForeignMetric
  ForeignCounter <- MCForeignCounter
  Timeout = 1
  FrameTypes <- AllTypes
  InboxCap = 2
  Timely = FALSE
INVARIANTS
  TypeOK
  FlatInv
  NoSyncCycle
  SyncMasterKnown
