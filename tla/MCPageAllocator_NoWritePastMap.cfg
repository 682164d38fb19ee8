CONSTANTS
  PageSize <- MCPageSize
  InitMaps <- MCInitMaps
  MemTypes <- MCMemTypes
  PageCounts <- MCPageCounts
  Addresses <- MCAddresses
  BeyondTypes <- MCBeyondTypes
  UintnModulus <- MCUintnModulus

SPECIFICATION Spec

INVARIANT NoWritePastMap
