SPECIFICATION FairSpec
CONSTANTS
  MaxConfigs = 2
  MaxSubs = 2
  Count = 2
  Styles = {"plain", "generation", "channel"}
CHECK_DEADLOCK FALSE
INVARIANTS
  AtMostOneStaleItem
  InRangeOrder
PROPERTIES
  WholeRangeArrives
