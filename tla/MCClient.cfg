CONSTANTS
  None = None
  NoName = NoName
  Nil = Nil
  AnyEvent = AnyEvent
  Kinds = {"issue", "run", "ref"}
  Invocations <- MCInvocations
  ReviveAfter = 2
  ReviveEvery = 2
  OutCap = 3
  MaxItems = 1
  MaxCrashes = 1
  MaxHandoffs = 1
  MaxFailures = 1
  MaxStarts = 2
SPECIFICATION Spec
INVARIANTS NothingLost CursorIsTold ExitIsTrue
PROPERTIES NothingTwice CommentsTold
CHECK_DEADLOCK FALSE
