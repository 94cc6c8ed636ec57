SPECIFICATION Spec
CONSTANTS
  Contents = {1, 2, 3}
  Atoms = {0, 1}
  Code <- Fork
  Identifiers = {p, q}
  NoId = NoId
  MaxDivergence = 3
  RowBatches <- Batches
  Reassign = FALSE
  MaxLostSlots = 1
INVARIANTS
  TypeOK
  IdentifierIndexExact
  RebuildAgrees
PROPERTIES
  ChangesReplay
  ImplementsSpec
SYMMETRY Symmetry
