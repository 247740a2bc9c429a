SPECIFICATION FairSpec
CONSTANTS
  s1 = s1
  s2 = s2
  p1 = p1
  p2 = p2
  p3 = p3
  Subs = {s1}
  Pollers = {p1}
  NoPoller = NoPoller
  Messages = {"timeout"}
  NoMessage = NoMessage
  Recovered = Recovered
  NotifCap = 2
  Terminal = {2}
  MaxVersion = 2
  MaxNotices = 2
PROPERTIES ChangesArrive NoticesArrive PollingStops
CHECK_DEADLOCK FALSE
