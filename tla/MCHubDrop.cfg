SPECIFICATION FairSpec
CONSTANTS
  s1 = s1
  s2 = s2
  p1 = p1
  p2 = p2
  p3 = p3
  Subs = {s1}
  Pollers = {p1}
  NoPoller = NoPoller
  Messages = {"timeout"}
  NoMessage = NoMessage
  Recovered = Recovered
  NotifCap = 1
  Terminal = {2}
  MaxVersion = 2
  MaxNotices = 1
PROPERTY OutagesEnd
CHECK_DEADLOCK FALSE
