---------------------------- MODULE MCLoaderExit ----------------------------
(***************************************************************************)
(* Firmware maps of 3 or 4 descriptors.  MemMapKey starts as a stack value *)
(* the firmware's key counter does not reach (9), or with MCReachedKeys    *)
(* one it does reach, which lets an unfilled map pass the exit.            *)
(***************************************************************************)
EXTENDS LoaderExit

MCInitDescs == {3, 4}

\* Allocations served from pool pages, or taking pages without adding a
\* descriptor (the new pages extend an adjacent loader-data region).
MCNoGrowth == {0}

\* Allocations that split a free region: one more descriptor.
MCSplitGrowth == {0, 1}

MCUnreachedKeys == {9}
MCReachedKeys == {2, 9}

=============================================================================
