SPECIFICATION FairSpec
CONSTANTS
  b1 = b1
  s1 = s1
  t1 = t1
  t2 = t2
  NoPort = NoPort
  BatchPorts <- MCBatchPorts
  StreamPorts <- MCStreamPorts
  HeapStreams <- MCStreamPorts
  Threads <- MCThreads
  MaxBinds = 3
  MaxPosts = 3
CHECK_DEADLOCK FALSE
INVARIANTS
  AtMostOneInFlight
  PendingHasCarrier
  OwnedOnce
PROPERTIES
  ImplementsChannels
  EveryPostArrives
