SPECIFICATION FairSpec
CONSTANTS
  w1 = w1
  d1 = d1
  e1 = e1
  Workers <- MCWorkers
  Callers <- MCCallers
  Entries <- OneEntry
  MaxJobs = 2
  MaxItems = 0
  HostPassesId = TRUE
  Platforms = {"android", "ios"}
  MaxFinished = 0
CHECK_DEADLOCK FALSE
INVARIANTS
  EnginesAccountedFor
  OnDoneAtMostOnce
  WaitReturnsOwn
PROPERTIES
  EnginesTornDown
  OnDoneCalledOnIos
