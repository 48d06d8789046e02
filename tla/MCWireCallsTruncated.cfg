CONSTANTS
  Langs = {"cpp", "kotlin", "swift"}
  Values <- MCValues
  Write <- MCWrite
  Read <- MCRead
  Trips <- MCTrips
  Rank <- MCRank
SPECIFICATION Spec
INVARIANTS ResultWhole
