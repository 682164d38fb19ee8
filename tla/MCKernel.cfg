CONSTANTS
  PageSize = 4
  DescSize = 1
  HoleStart = 8
  HoleEnd = 12
  AddrModulus = 1024
  FirmwareMaps <- MCFirmwareMaps
  Garbage <- MCZeroGarbage
  MemTypes <- MCMemTypes
  PageCounts <- MCPageCounts
  Addresses <- MCAddresses
  BeyondTypes <- MCBeyondTypes
  UintnModulus <- MCUintnModulus
  Words <- MCWords
  Lines <- MCLines
  MAXARGS = 3
  LoaderParams <- MCLoaderParams
  Messages <- MCMessages

SPECIFICATION KernelSpec

INVARIANT KernelTypeOK ReportMatchesRunsButLast ArgvInBounds CommandLineRuns

