CONSTANTS
  NPages <- MCBootPages
  KPages = 1
  Default <- MCBootDefault
  LinkBase <- MCBootDefault
  DescBounds <- MCBootDescBounds
  InitFree <- MCBootInitFree
  AllOnes = AllOnes
  InitDescs <- MCBootInitDescs
  AllocGrowth <- MCBootGrowth
  MaxEvents = 1
  GarbageKeys <- MCBootKeys
  NoMap = NoMap

SPECIFICATION BootSpec

\* GoTime stops for good once it has jumped to the kernel or returned.
CHECK_DEADLOCK FALSE

INVARIANT HeldIsKernelRegion
INVARIANT KernelGetsExitMap
PROPERTY PlacedKernelBoots
