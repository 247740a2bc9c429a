SPECIFICATION Spec
CONSTANTS
  s1 = s1
  s2 = s2
  p1 = p1
  p2 = p2
  p3 = p3
  Subs = {s1, s2}
  Pollers = {p1, p2, p3}
  NoPoller = NoPoller
  Messages = {"timeout"}
  NoMessage = NoMessage
  Recovered = Recovered
  NotifCap = 1
  Terminal = {1}
  MaxVersion = 1
  MaxNotices = 1
SYMMETRY Symmetric
INVARIANTS OneLivePoller FetchHasAudience NoOrphanPoller WatchersSee
CHECK_DEADLOCK FALSE
