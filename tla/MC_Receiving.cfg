\* Two starts; other programs take and leave both ports.
CONSTANTS
  MaxStarts = 2
  Port = 1
  Takers <- MCTwoPorts
SPECIFICATION FairSpec
CHECK_DEADLOCK FALSE
INVARIANTS
  TypeOK
  NoOrphanServer
  DaemonsOwned
  LeftoverExplained
  SocketsBounded
PROPERTIES
  StopsEventually
  GuiReturns
  FailureShown
