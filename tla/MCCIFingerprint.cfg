CONSTANTS
  Check = Check  App = App  Context = Context  Actions = Actions
  NoName = NoName  None = None  Nil = Nil
  Outcomes <- MCOutcomes  Filters <- MCFilters  EndStates = {}
  ContextStates = {}
  SuitePage = 2  RunPage = 1  ReadyRunPage = 1  NoteCap = 2
  Authors = {viewer}  Viewer = viewer
  Required = {}
  MaxSuites = 2  MaxRuns = 3  MaxChanges = 8
  CommentIds = {}  ThreadIds = {}  ReviewStates = {}  MaxComments = 1
SPECIFICATION Spec
CHECK_DEADLOCK FALSE
INVARIANT FingerprintTells
