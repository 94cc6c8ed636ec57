SPECIFICATION Spec
CONSTANTS
  BLOCK_BYTES = 2
  WordLimit = 16777216
  OrderLimit = 1048576
  None = None
  FieldOf <- StandardFields
  CanonicalField = 11
  CanonicalPoints <- TinyCanonicalPoints
  MaxAtoms = 60
  Contents <- StaticContents
  Schemes <- CanonicalSchemes
INVARIANT PassVisitsEachPointOnce
CHECK_DEADLOCK FALSE
