\* Two daemons and a fuse of one copy.
CONSTANTS
  MaxDaemons = 2
  Nil = Nil
  maxReexecDepth = 1
  MinBackoff = 1
  MaxBackoff = 3
  MaxRapidFails = 3
  MaxVersion = 2
  MaxStarting = 2
  MaxDeaths = 2
  MaxFaults = 1
SPECIFICATION ResidentSpec
INVARIANTS StaleExplained OrphansExplained
PROPERTIES WakeRearmed
CHECK_DEADLOCK FALSE
