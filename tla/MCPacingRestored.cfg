SPECIFICATION PacingFairSpec
CONSTANTS
  p1 = p1
  p2 = p2
  p3 = p3
  Pollers = {p1, p2}
  Restored = {p1}
  Gap = 2
  Base = 2
  MaxDelay = 5
PROPERTY NoStarvation
