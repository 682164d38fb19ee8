----------------------------- MODULE MCMemoryMap -----------------------------
(***************************************************************************)
(* Import of small PC-layout firmware maps (4-byte pages, 1-byte           *)
(* descriptors, the legacy hole at 8) followed by allocator calls.         *)
(***************************************************************************)
EXTENDS MemoryMap

Desc(t, s, n) == [Type |-> t, PhysicalStart |-> s, NumberOfPages |-> n]

\* 9 pages: the new map takes 9 bytes, 2 pages rounded down, and sits at
\* 20 behind two pages of loader data.
MCPartialPageMaps ==
  { << Desc(EfiConventionalMemory, 0, 2), Desc(EfiLoaderData, 12, 2),
       Desc(EfiConventionalMemory, 20, 4) >> }

\* The map above, and an 8-page map whose region at 16 follows a free page.
MCFirmwareMaps ==
  MCPartialPageMaps \cup
  { << Desc(EfiBootServicesData, 0, 2), Desc(EfiConventionalMemory, 12, 1),
       Desc(EfiConventionalMemory, 16, 4) >> }

MCGarbage == {[Type |-> EfiReservedMemoryType, PhysicalStart |-> 0],
              [Type |-> EfiConventionalMemory, PhysicalStart |-> 0]}

MCZeroGarbage == {[Type |-> EfiReservedMemoryType, PhysicalStart |-> 0]}

\* The maps whose map storage ends on a page boundary.
MCWholePageMaps == MCFirmwareMaps \ MCPartialPageMaps

MCMemTypes == {EfiLoaderData}
\* an OS-defined type, which the argument checks of AllocatePages accept
MCOemMemTypes == {EfiLoaderData, EfiOemMemoryType}
MCPageCounts == {0, 1, 2}
\* an unaligned address, the page before a map region, the region's
\* first page, and one beyond AVAIBLE_MEMORY
MCAddresses == {6, 12, 16, 40}
MCBeyondTypes == {EfiReservedMemoryType, EfiConventionalMemory}
MCUintnModulus == 16

=============================================================================
