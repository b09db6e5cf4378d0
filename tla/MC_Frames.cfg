SPECIFICATION Spec
CONSTANTS
  ChanseqLength = 16
  PresenceMode = 4
  NameMax = 64
  Bodies <- MCBodies
  Frames <- MCFrames
INVARIANTS
  ReadAsWritten
  WalkedAsWritten
CHECK_DEADLOCK FALSE
