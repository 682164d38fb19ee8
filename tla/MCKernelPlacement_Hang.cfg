\* The loader stops for good once it has loaded the kernel or returned.
CHECK_DEADLOCK FALSE

CONSTANTS
  NPages <- MCNPages
  KPages = 1
  Default <- MCDefault
  LinkBase <- MCDefault
  DescBounds <- MCDescBounds
  InitFree <- MCInitFree
  AllOnes = AllOnes

SPECIFICATION Spec

PROPERTY EventuallyPlaced
