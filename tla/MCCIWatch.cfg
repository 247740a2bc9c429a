CONSTANTS
  Check = Check  App = App  Context = Context  Actions = Actions
  NoName = NoName  None = None  Nil = Nil
  Outcomes <- MCOutcomes  Filters <- MCFilters  EndStates = {"MERGED"}
  ContextStates = {"PENDING", "SUCCESS"}
  SuitePage = 2  RunPage = 2  ReadyRunPage = 1  NoteCap = 2
  Authors = {viewer}  Viewer = viewer
  Required = {App}
  MaxSuites = 2  MaxRuns = 2  MaxChanges = 6
  CommentIds = {c1}  ThreadIds = {t1}
  ReviewStates = {"APPROVED", "CHANGES_REQUESTED", "COMMENTED"}  MaxComments = 2
SPECIFICATION Spec
CHECK_DEADLOCK FALSE
CONSTRAINT MCDiscussed
INVARIANTS GreenIsTrue ReadyIsTrue FilterAccusedTruly SameIsSilent
