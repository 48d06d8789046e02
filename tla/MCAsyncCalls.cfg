SPECIFICATION FairCallSpec
CONSTANTS
  Isolates = {i1, i2}
  Workers = {w1, w2}
  MaxCalls = 2
  Platforms = {"jni", "cpp", "apple"}
  Methods <- MCMethods
CHECK_DEADLOCK FALSE
INVARIANTS
  NoJobForgotten
  SlotOutlivesCall
  OwnOutcome
  TextsFreedOnce
  OwnersAgree
  NothingKept
PROPERTIES
  EveryCallEnds
