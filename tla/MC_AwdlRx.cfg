SPECIFICATION Spec
CONSTANTS
  MaxAddr <- MCMaxAddr
  TreeMaxHeight <- MCTreeMaxHeight
  MetricInit <- MCMetricInit
  CounterInit <- MCCounterInit
  Word <- MCWord
  Self <- MCSelf
  Peer <- TwoPeers
  Announce <- MCAnnounce
INVARIANTS
  TypeOK
  ValidEarned
  ValidCurrent
  EntryWhole
  MasterEarned
PROPERTIES
  SyncEarned
