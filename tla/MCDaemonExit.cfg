\* Three processes, two of them in the service manager's unit.
SPECIFICATION Spec
CONSTANTS
  Pids = {p1, p2, p3}
  Unit = {p1, p2}
  None = None
INVARIANTS ExitSparesOthers
CHECK_DEADLOCK FALSE
