SPECIFICATION Spec
CONSTANTS
  s1 = s1
  s2 = s2
  p1 = p1
  p2 = p2
  p3 = p3
  Subs = {s1, s2}
  Pollers = {p1, p2, p3}
  NoPoller = NoPoller
  Messages = {}
  NoMessage = NoMessage
  Recovered = Recovered
  NotifCap = 1
  Terminal = {}
  MaxVersion = 1
  MaxNotices = 0
INVARIANT NoBlindWatcher
CHECK_DEADLOCK FALSE
