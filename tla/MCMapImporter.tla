---------------------------- MODULE MCMapImporter ----------------------------
(***************************************************************************)
(* init_memory_map on small firmware maps.  A page is 4 bytes and a        *)
(* descriptor 1 byte, so a map of 8 or 9 pages needs 2 pages (rounded     *)
(* down) and the map region must have at least 3.  The legacy hole is the *)
(* page at 8 (the counter jumps from 8 to 12), and the maps are laid out   *)
(* as PC firmware lays them out: one descriptor below the hole, the rest   *)
(* from 12 on.                                                             *)
(***************************************************************************)
EXTENDS MapImporter

MCPageSize == 4
MCDescSize == 1
MCHoleStart == 8
MCHoleEnd == 12
MCAddrModulus == 1024

Desc(t, s, n) == [Type |-> t, PhysicalStart |-> s, NumberOfPages |-> n]

\* Below the hole: two pages at 0; above it: two descriptors from 12.
PCMaps(lowTypes, highTypes, sizes) ==
  { << Desc(t0, 0, 2), Desc(t1, 12, a), Desc(t2, 12 + 4 * a, b) >> :
      t0 \in lowTypes, t1 \in highTypes, t2 \in highTypes,
      a \in sizes, b \in sizes }

\* All PC-layout maps of 8 or 9 pages over three kinds of region.
MCFirmwareMaps ==
  { f \in PCMaps({EfiBootServicesData, EfiConventionalMemory},
                 {EfiConventionalMemory, EfiReservedMemoryType, EfiLoaderData},
                 1 .. 4) :
      Len(f) = 3 /\ f[2].NumberOfPages + f[3].NumberOfPages \in {5, 6} }

\* Memory never written reads as zero (type 0 at address 0) or as a
\* leftover conventional entry.
MCGarbage == {[Type |-> EfiReservedMemoryType, PhysicalStart |-> 0],
              [Type |-> EfiConventionalMemory, PhysicalStart |-> 0]}

\* Zeroed memory only.
MCZeroGarbage == {[Type |-> EfiReservedMemoryType, PhysicalStart |-> 0]}

\* 12-page maps (the new map fills its 3 pages exactly) with a region for
\* it and a reserved region longer than 3 pages.
MCLongReservedMaps ==
  { << Desc(EfiBootServicesData, 0, 2), Desc(EfiReservedMemoryType, 12, 4),
       Desc(EfiConventionalMemory, 28, 5) >>,
    << Desc(EfiBootServicesData, 0, 2), Desc(EfiConventionalMemory, 12, 5),
       Desc(EfiRuntimeServicesData, 32, 4) >> }

\* The PC-layout maps in which a region can hold the new map.
MCRegionMaps == { f \in MCFirmwareMaps : MapRegion(f) # 0 }

\* 9-page maps with a region for the new map (the new map spills 1 byte into a third page) with no
\* region other than the map's own longer than 2 pages.
MCPartialPageMaps ==
  { f \in MCFirmwareMaps :
      /\ MapRegion(f) # 0
      /\ f[2].NumberOfPages + f[3].NumberOfPages = 6
      /\ \A j \in 2..3 : f[j].Type # EfiConventionalMemory => f[j].NumberOfPages <= 2 }

\* Maps that describe memory with a gap other than the legacy hole, or
\* describe the hole itself.
MCGapMaps ==
  { << Desc(EfiConventionalMemory, 0, 2), Desc(EfiReservedMemoryType, 8, 1),
       Desc(EfiConventionalMemory, 12, 5) >>,
    << Desc(EfiConventionalMemory, 0, 2), Desc(EfiConventionalMemory, 12, 3),
       Desc(EfiReservedMemoryType, 28, 2) >> }

\* Maps in which no conventional region has more than 2 pages.
MCNoRegionMaps == { f \in MCFirmwareMaps : MapRegion(f) = 0 }

\* Maps whose only region large enough for the new map lies at 20 or
\* above, with MEMORY_MAP_ADDR cast to a 4-bit address (the uint32_t cast
\* at a machine scale where such a region lies above 4 GiB).
MCHighRegionMaps == { f \in MCFirmwareMaps : MapRegion(f) # 0 /\ f[MapRegion(f)].PhysicalStart >= 20 }
MCSmallAddrModulus == 16

=============================================================================
