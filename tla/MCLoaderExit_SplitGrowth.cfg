CONSTANTS
  InitDescs <- MCInitDescs
  AllocGrowth <- MCSplitGrowth
  MaxEvents = 0
  GarbageKeys <- MCUnreachedKeys
  NoMap = NoMap

SPECIFICATION Spec

\* The loader stops for good once it has jumped to the kernel or returned.
CHECK_DEADLOCK FALSE

PROPERTY EventuallyBoots
