SPECIFICATION Spec
CONSTANTS
  None = None
  Strings <- FiveStrings
  CookRequests <- Cooks
  SolveRequests <- Solves
INVARIANTS
  TypeOK
  ActionsExhaustive
  SearchExact
  StatesShrink
  CertificateSound
  CookedCost
CHECK_DEADLOCK FALSE
