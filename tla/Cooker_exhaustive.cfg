SPECIFICATION Spec
CONSTANTS
  None = None
  Strings <- FiveStrings
  CookRequests <- Skipping
  SolveRequests = {}
INVARIANTS
  BundlesExhaustive
CHECK_DEADLOCK FALSE
