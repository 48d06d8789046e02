SPECIFICATION FairJobsSpec
CONSTANTS
  c1 = c1
  c2 = c2
  e1 = e1
  e2 = e2
  Callers <- MCCallers
  Entries <- OneEntry
  MaxJobs = 2
  MaxItems = 2
  HostPassesId = TRUE
CHECK_DEADLOCK FALSE
INVARIANTS
  TableInv
  InflightHasIsolate
  PortProtocol
  AtMostOneLateItem
  ToldOnce
PROPERTIES
  ImplementsLifecycle
  EveryJobFinishes
