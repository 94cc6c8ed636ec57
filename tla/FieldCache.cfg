SPECIFICATION Spec
CONSTANTS
  t1 = t1
  t2 = t2
  Free = Free
  Threads = {t1, t2}
  OrderLimit = 1048576
  RankBound = 80
CONSTANT Requests <- TwoThreads
INVARIANTS
  TypeOK
  CacheConsistent
  AnswersRight
  FieldsAreFields
  EmbeddingsCommute
PROPERTIES
  CacheOnlyGrows
  Terminates
CHECK_DEADLOCK FALSE
