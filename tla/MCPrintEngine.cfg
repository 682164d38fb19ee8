CONSTANTS
  PRINT_STRING_LEN = 4
  Jobs <- MCJobs
  UintnModulus = 64
  NoLimitCap = 16
  NULL = NULL
INIT Init
NEXT Next
INVARIANT TypeOK
INVARIANT NoWildWrite
INVARIANT SPrintReturnsPrefix
INVARIANT PoolHoldsText
PROPERTY ConversionsCorrect
\* A call returns; the library then stops.
CHECK_DEADLOCK FALSE
