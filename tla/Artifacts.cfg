SPECIFICATION Spec
CONSTANTS
  ByteBase = 16
  U32Bytes = 2
  U64Bytes = 3
  U128Bytes = 4
  OrderLimit = 32768
  BLOCK_BYTES = 2
  WordLimit = 16777216
  CtmWidth = 2
  CtmAuditBytes = 1
  Horizon = 40
  None = None
  FieldOf <- StandardFields
  Values <- AllValues
  CtmTables <- Tables
PROPERTIES
  RoundTrip
  OneEncoding
  FaultsNamed
CHECK_DEADLOCK FALSE
