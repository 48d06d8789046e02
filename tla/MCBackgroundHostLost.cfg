SPECIFICATION FairSpec
CONSTANTS
  w1 = w1
  d1 = d1
  e1 = e1
  Workers <- MCWorkers
  Callers <- MCWorkers
  Entries <- OneEntry
  MaxJobs = 1
  MaxItems = 0
  HostPassesId = TRUE
  Platforms = {"android"}
  MaxFinished = 2
CHECK_DEADLOCK FALSE
PROPERTIES
  OnDoneCalled
