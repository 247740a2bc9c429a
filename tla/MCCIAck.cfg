CONSTANTS
  Check = Check  App = App  Context = Context  Actions = Actions
  NoName = NoName  None = None  Nil = Nil
  Outcomes <- MCOutcomes  Filters <- MCOneFilter  EndStates = {"CLOSED"}
  ContextStates = {}
  SuitePage = 2  RunPage = 2  ReadyRunPage = 1  NoteCap = 2
  Authors = {viewer}  Viewer = viewer
  Required = {}
  MaxSuites = 1  MaxRuns = 2  MaxChanges = 5
  CommentIds = {c1}  ThreadIds = {t1}
  ReviewStates = {"APPROVED", "CHANGES_REQUESTED", "COMMENTED"}  MaxComments = 2
SPECIFICATION Spec
CHECK_DEADLOCK FALSE
INVARIANT WholeFingerprintTells
