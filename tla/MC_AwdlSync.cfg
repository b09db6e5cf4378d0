SPECIFICATION Spec
VIEW Schedules
CONSTANTS
  Depth = 2
  Tu = 2
  AwPeriod = 1
  Presence = 3
  SeqLength = 2
  CounterWord = 12
  Threshold = 3
  MaxDelay = 1
  Jumps = {12}
INVARIANTS
  TypeOK
  LagBounded
  SlotsAgree
PROPERTIES
  ErrorSmall
