\* A chain of reloads: three daemons and the program's fuse of two.
CONSTANTS
  MaxDaemons = 3
  Nil = Nil
  maxReexecDepth = 2
  MinBackoff = 1
  MaxBackoff = 3
  MaxRapidFails = 3
  MaxVersion = 2
  MaxStarting = 1
  MaxDeaths = 0
  MaxFaults = 0
SPECIFICATION ResidentSpec
INVARIANT FuseSpares
CHECK_DEADLOCK FALSE
