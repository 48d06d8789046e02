SPECIFICATION FairSpec
CONSTANTS
  c1 = c1
  c2 = c2
  p1 = p1
  p2 = p2
  NoPort = NoPort
  Callers <- MCCallers
  Ports <- MCPorts
  MaxCalls = 2
  Builds = {"native", "web"}
CHECK_DEADLOCK FALSE
INVARIANTS
  AnsweredOnceOnOwnPort
  AnsweredInOrder
  ShutdownDrains
PROPERTIES
  EveryCallAnswered
