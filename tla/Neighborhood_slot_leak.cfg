SPECIFICATION Spec
CONSTANTS
  Contents = {1, 2, 3}
  Atoms = {0, 1}
  Code <- Fork
  Identifiers = {}
  NoId = NoId
  MaxDivergence = 3
  RowBatches = {}
  Reassign = FALSE
  MaxLostSlots = 0
INVARIANTS
  NoSlotLost
