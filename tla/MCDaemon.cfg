\* Three processes, two of them in the service manager's unit.
SPECIFICATION FairSpec
CONSTANTS
  Pids = {p1, p2, p3}
  Unit = {p1, p2}
  None = None
INVARIANTS Reachable MainServes
CHECK_DEADLOCK FALSE
PROPERTIES StartServes OneOwner
