\* A watch whose poller on the hub another watch keeps running.
SPECIFICATION Spec
CONSTANTS
  MaxVersion = 1
  MaxFaults = 1
  MaxNews = 1
  Terminal = {1}
  Pinned = TRUE
INVARIANT OneFirstPoll
CHECK_DEADLOCK FALSE
