CONSTANTS
  target = target
  repo = repo
  Targets = {target}
  Repos = {repo}
  RepoOf <- MCRepoOf
  NoTarget = NoTarget
  Interval = 2
  RunInterval = 1
  IdleCeiling = 3
  BrokerCap = 5
  MaxErrBackoff = 4
  QuietPolls = 1
  TTL = 3
  InitialBackoff = 1
  MaxBackoff = 2
  MaxEvents = 1
SPECIFICATION Spec
PROPERTY RepoEventWakes
CHECK_DEADLOCK FALSE
