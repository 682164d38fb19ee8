----------------------------- MODULE MCLoaderBoot -----------------------------
(***************************************************************************)
(* GoTime from placement to the jump: placement on five pages with        *)
(* 0x100000 at page 2 and the image linked there, then the exit on        *)
(* firmware maps of 3 or 4 descriptors whose pool allocations stay in     *)
(* pages already mapped, one timer event, and a MemMapKey stack value the *)
(* key counter does not reach.                                             *)
(***************************************************************************)
EXTENDS LoaderBoot

MCBootPages == 5

MCBootDefault == 2

MCBootDescBounds == {0, 3}

MCBootInitFree == SUBSET (0 .. MCBootPages - 1)

MCBootInitDescs == {3, 4}

MCBootGrowth == {0}

MCBootKeys == {9}

=============================================================================
