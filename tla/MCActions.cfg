SPECIFICATION Spec
CONSTANTS
  c1 = c1
  c2 = c2
  Commands <- MCCommands
  Jobs <- MCJobs
  Settings <- MCSettings
  Initially <- MCInitially
  Everyone = ""
  PageSize = 1
  ReportSize = 2
  MaxThreads = 3
  MaxHead = 2
  MaxOthers = 1
SYMMETRY Symmetry
INVARIANTS AtMostOnce SuccessIsTrue ListIsTrue
CHECK_DEADLOCK FALSE
