SPECIFICATION Spec
CONSTANTS
  Contents = {1, 2, 3}
  Atoms = {0, 1}
  Code <- Late
  Identifiers = {}
  NoId = NoId
  MaxDivergence = 2
  RowBatches = {}
  Reassign = FALSE
  MaxLostSlots = 1
INVARIANTS
  RebuildAgrees
