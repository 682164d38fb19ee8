CONSTANTS
  PageSize <- MCPageSize
  DescSize <- MCDescSize
  HoleStart <- MCHoleStart
  HoleEnd <- MCHoleEnd
  AddrModulus <- MCAddrModulus
  FirmwareMaps <- MCLongReservedMaps
  Garbage <- MCZeroGarbage

SPECIFICATION ImportSpec

\* init_memory_map runs once; after it the importer has nothing left to do.
CHECK_DEADLOCK FALSE

INVARIANT ImportedFreeIsFirmwareFree
