SPECIFICATION PacingFairSpec
CONSTANTS
  p1 = p1
  p2 = p2
  p3 = p3
  Pollers = {p1, p2, p3}
  Restored = {}
  Gap = 1
  Base = 2
  MaxDelay = 4
INVARIANTS BoundedWait
