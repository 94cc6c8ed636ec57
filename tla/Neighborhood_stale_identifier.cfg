SPECIFICATION Spec
CONSTANTS
  Contents = {1, 2, 3}
  Atoms = {0, 1}
  Code <- Fork
  Identifiers = {p, q}
  NoId = NoId
  MaxDivergence = 3
  RowBatches = {}
  Reassign = TRUE
  MaxLostSlots = 0
INVARIANTS
  IdentifierIndexExact
