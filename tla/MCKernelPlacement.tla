-------------------------- MODULE MCKernelPlacement --------------------------
(***************************************************************************)
(* Placement on five pages.  0x100000 is page 2, above two low pages, as  *)
(* on a PC; the image is linked to load there (p_pa = 0x100000, the       *)
(* default of Loader.c 620).  Firmware descriptors begin at pages 0 and 3 *)
(* as well as after every reserved page, so a free stretch can be split   *)
(* into two descriptors.  Any set of pages may be free.                    *)
(***************************************************************************)
EXTENDS KernelPlacement

MCNPages == 5

MCDefault == 2

MCDescBounds == {0, 3}

MCInitFree == SUBSET (0 .. MCNPages - 1)

=============================================================================
