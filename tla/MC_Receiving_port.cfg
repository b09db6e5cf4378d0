\* Two starts on a host where no other program wants the ports.
CONSTANTS
  MaxStarts = 2
  Port = 1
  Takers = {}
SPECIFICATION Spec
CHECK_DEADLOCK FALSE
INVARIANT AdvertisedPort
