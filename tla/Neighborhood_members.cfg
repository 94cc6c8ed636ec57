SPECIFICATION Spec
CONSTANTS
  Contents = {1, 2, 3, 4}
  Atoms = {0, 1}
  Code <- Twins
  Identifiers = {p, q}
  NoId = NoId
  MaxDivergence = 5
  RowBatches = {}
  Reassign = TRUE
  MaxLostSlots = 1
INVARIANTS
  AddressesCanonical
  CallsFindOneAnswer
  AllSound
  SlotsSound
  ResolveCorrect
  IdentifierForward
  RebuildAgreesButIndex
PROPERTIES
  SlotsLostOnlyByReseat
  CallsMoveOne
SYMMETRY Symmetry
