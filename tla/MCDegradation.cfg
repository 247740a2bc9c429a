SPECIFICATION LedgerSpec
CONSTANTS
  Surfaces <- MCSurfaces
  Messages <- MCMessages
  NoMessage = NoMessage
  MaxTime = 8
  MaxTakeovers = 2
INVARIANTS DeclaredTruthfully GapsDeclared WatcherIsCurrent
CHECK_DEADLOCK FALSE
