SPECIFICATION Spec
CONSTANTS
  Platforms = {"jni", "cpp", "apple"}
  Methods <- MCMethods
  Callables = {c1, c2, c3, c4}
  NoCallable = NoCallable
  NoCall = NoCall
  MaxDepth = 3
SYMMETRY Symmetry
INVARIANTS
  OwnOutcome
  CallableOpen
  NothingElseLost
