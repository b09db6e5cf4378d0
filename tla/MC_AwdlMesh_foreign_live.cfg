SPECIFICATION FarewellSpec
CONSTANTS
  MaxAddr <- MCMaxAddr
  TreeMaxHeight <- MCShallow
  MetricInit <- MCMetricInit
  CounterInit <- MCCounterInit
  Word <- MCSmallWord
  Node <- ThreeNodes
  Foreign <- OneForeign
  Steady <- ThreeNodes
  InRange <- Ring
  ForeignMetric <- MCForeignMetric
  ForeignCounter <- MCForeignCounter
  Timeout = 1
  FrameTypes <- OnlyMIF
  InboxCap = 1
  Timely = TRUE
PROPERTIES
  Settles
