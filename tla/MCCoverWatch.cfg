\* One watch, one change after its first read, one fault.
SPECIFICATION FairSpec
CONSTANTS
  MaxVersion = 1
  MaxFaults = 1
  MaxNews = 1
  Terminal = {1}
  Pinned = FALSE
INVARIANTS NothingLost NothingTwice
PROPERTIES ChangesArrive Settles
CHECK_DEADLOCK FALSE
