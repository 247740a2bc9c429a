CONSTANTS
  None = None
  NoName = NoName
  Nil = Nil
  AnyEvent = AnyEvent
  Kinds = {"issue", "pr"}
  Invocations <- MCInvocations
  ReviveAfter = 2
  ReviveEvery = 2
  OutCap = 3
  MaxItems = 1
  MaxCrashes = 0
  MaxHandoffs = 0
  MaxFailures = 0
  MaxStarts = 2
SPECIFICATION Spec
INVARIANT DeadlineIsSaid
CHECK_DEADLOCK FALSE
