CONSTANTS
  Check = Check  App = App  Context = Context  Actions = Actions
  NoName = NoName  None = None  Nil = Nil
  Outcomes <- MCOutcomes  Filters <- MCFilters  EndStates = {"MERGED"}
  ContextStates = {"SUCCESS"}
  SuitePage = 2  RunPage = 1  ReadyRunPage = 1  NoteCap = 2
  Authors = {viewer}  Viewer = viewer
  Required = {Context}
  MaxSuites = 1  MaxRuns = 2  MaxChanges = 6
  CommentIds = {}  ThreadIds = {}  ReviewStates = {}  MaxComments = 1
SPECIFICATION Spec
CHECK_DEADLOCK FALSE
INVARIANT GreenBeyondPages
