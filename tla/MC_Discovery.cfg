\* Two services, one of which may move; discovery starts twice.
CONSTANTS
  iPad = iPad  mac = mac  a1 = a1  a2 = a2
  Services <- MCServices
  Addresses <- MCAddresses
  AtFirst <- MCAtFirst
  Movers <- MCMovers
  MaxStarts = 2
  MaxChanges = 2
SPECIFICATION FairSpec
CHECK_DEADLOCK FALSE
INVARIANTS
  TypeOK
  ListFollowsMap
  QuietShowsWorld
PROPERTIES
  ListSettles
  StopsEventually
