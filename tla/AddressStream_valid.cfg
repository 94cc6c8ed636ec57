SPECIFICATION Spec
CONSTANTS
  BLOCK_BYTES = 2
  WordLimit = 16777216
  OrderLimit = 1048576
  None = None
  FieldOf <- StandardFields
  CanonicalField = 11
  CanonicalPoints <- TinyCanonicalPoints
  MaxAtoms = 32
  Contents <- ShortContents
  Schemes <- AllSchemes
INVARIANTS
  TypeOK
  WalkEnds
  Exact
  RadixDecodes
  PassVisitsEachPointOnce
CHECK_DEADLOCK FALSE
