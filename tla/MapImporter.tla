----------------------------- MODULE MapImporter -----------------------------
(***************************************************************************)
(* init_memory_map (src/kern/uefi.c 50-129): the kernel reads the          *)
(* firmware memory map the loader handed over in LOADER_PARAMS, sizes a    *)
(* page-granularity map from its last descriptor, places it at the start   *)
(* of the first conventional region that is large enough, and expands     *)
(* every firmware descriptor into one entry per page.  The call is one     *)
(* synchronous step.                                                       *)
(*                                                                         *)
(* Addresses are in bytes and PageSize stands for SPAGES; DescSize is the  *)
(* firmware descriptor stride Memory_Map_Descriptor_Size.  The firmware    *)
(* map is sorted and its descriptors do not overlap, as UEFI firmware      *)
(* returns it in practice.                                                 *)
(***************************************************************************)
EXTENDS Naturals, Sequences, SequencesExt, EfiTypes

CONSTANTS
  PageSize,       \* SPAGES
  DescSize,       \* Memory_Map_Descriptor_Size, the firmware stride
  HoleStart,      \* 0xA0000, the address the page counter jumps from
  HoleEnd,        \* 0x100000, the address it jumps to
  AddrModulus,    \* 2^32: MEMORY_MAP_ADDR is cast to uint32_t before use
  FirmwareMaps,   \* firmware memory maps the loader may hand over
  Garbage         \* entries that memory never written by the import holds

ASSUME PageSize \in Nat \ {0} /\ DescSize \in Nat \ {0}
ASSUME HoleStart % PageSize = 0 /\ HoleEnd % PageSize = 0
ASSUME 0 < HoleStart /\ HoleStart < HoleEnd

VARIABLES
  fw,       \* UEFI_LP->Memory_Map, as descriptors
  phase,    \* "boot" before init_memory_map, "ready" after it
  avail,    \* AVAIBLE_MEMORY
  mapSize,  \* MEMORY_MAP_SIZE, in bytes
  mapAddr,  \* MEMORY_MAP_ADDR
  map       \* the page map at (uint32_t) MEMORY_MAP_ADDR

importVars == <<fw, phase, avail, mapSize, mapAddr, map>>

\* uefi.c 53-69: the end of the last firmware descriptor bounds memory,
\* and the new map holds one stride-sized descriptor per page below it.
AvailableMemory(f) ==
  f[Len(f)].PhysicalStart + f[Len(f)].NumberOfPages * PageSize

MemoryMapSize(f) == (AvailableMemory(f) \div PageSize) * DescSize

\* Plausible fault: the buffer's length in entries counted in pages.
MapEntriesByPage(f) == MemoryMapSize(f) \div PageSize

\* The number of descriptors the buffer holds, the loop bound of every
\* scan over it (endOfMemoryMap = start + MEMORY_MAP_SIZE).
MapEntries(f) == MemoryMapSize(f) \div DescSize

\* MEMORY_MAP_SIZE / SPAGES: the pages the code reserves for the new map,
\* rounded down.
MapPages(f) == MemoryMapSize(f) \div PageSize

\* uefi.c 80-90: the first conventional descriptor with more than
\* MapPages pages; 0 when there is none.
MapRegion(f) ==
  SelectInSeq(f, LAMBDA d : /\ d.Type = EfiConventionalMemory
                            /\ d.NumberOfPages > MapPages(f))

\* Plausible fault: the jump tested before the increment instead of after.
PageAddrLate(k) ==
  IF k * PageSize > HoleStart THEN k * PageSize + (HoleEnd - HoleStart)
                              ELSE k * PageSize

\* memadr_offset after k pages (uefi.c 107, 121-122): it counts from 0 in
\* page steps and jumps from HoleStart to HoleEnd.
PageAddr(k) ==
  IF k * PageSize >= HoleStart THEN k * PageSize + (HoleEnd - HoleStart)
                               ELSE k * PageSize

\* Plausible fault: only the first page of the map's region is tagged.
PageTypeFirstOnly(d, i, addr, pages) ==
  IF i >= pages THEN EfiConventionalMemory
  ELSE IF d.PhysicalStart = addr /\ i = 0 THEN EfiMaxMemoryType
  ELSE d.Type

\* The Type the i-th page (from 0) of descriptor d gets (uefi.c 113-118):
\* the descriptor whose PhysicalStart is MEMORY_MAP_ADDR is tagged
\* EfiMaxMemoryType, and from page MapPages on every descriptor's pages
\* are tagged conventional.
PageType(d, i, addr, pages) ==
  IF i >= pages THEN EfiConventionalMemory
  ELSE IF d.PhysicalStart = addr THEN EfiMaxMemoryType
  ELSE d.Type

\* The types of the entries written, in order: each descriptor expanded
\* into one entry per page (uefi.c 109-126).
ExpandedTypes(f, addr) ==
  FlattenSeq([j \in DOMAIN f |->
                [i \in 1 .. f[j].NumberOfPages |->
                   PageType(f[j], i - 1, addr, MapPages(f))]])

\* The bytes [base, base + size) of the new map, as the page addresses
\* they touch; base is MEMORY_MAP_ADDR after the cast to uint32_t
\* (uefi.c 98-99, 106).
StoragePages(base, size) ==
  {p * PageSize : p \in (base \div PageSize) .. ((base + size - 1) \div PageSize)}

\* One whole init_memory_map call.  Entries the loop writes get the page
\* counter's address; the rest of the buffer (when the firmware map
\* describes fewer pages than AVAIBLE_MEMORY spans) is never written and
\* holds whatever was in memory.  No region found leaves MEMORY_MAP_ADDR
\* at its old value and the loop runs anyway.
Import ==
  LET addr  == IF MapRegion(fw) = 0 THEN mapAddr
                                    ELSE fw[MapRegion(fw)].PhysicalStart
      types == ExpandedTypes(fw, addr)
      n     == MapEntries(fw)
  IN /\ phase = "boot"
     /\ \E g \in [1 .. n -> Garbage] :
          map' = [k \in 1 .. n |->
                    IF k <= Len(types)
                    THEN [Type |-> types[k], PhysicalStart |-> PageAddr(k - 1)]
                    ELSE g[k]]
     /\ avail' = AvailableMemory(fw)
     /\ mapSize' = MemoryMapSize(fw)
     /\ mapAddr' = addr
     /\ phase' = "ready"
     /\ UNCHANGED fw

ImportInit ==
  /\ fw \in FirmwareMaps
  /\ phase = "boot"
  /\ avail = 0
  /\ mapSize = 0
  /\ mapAddr = 0
  /\ map = <<>>

ImportSpec == ImportInit /\ [][Import]_importVars

-----------------------------------------------------------------------------
(* Properties *)

ImportTypeOK ==
  /\ phase \in {"boot", "ready"}
  /\ avail \in Nat /\ mapSize \in Nat /\ mapAddr \in Nat
  /\ map \in Seq(Entry(Nat, Nat))
  /\ Len(map) * DescSize = mapSize

\* The firmware descriptor that contains physical address a (0 if none).
FwIndexOf(a) ==
  SelectInSeq(fw, LAMBDA d : /\ d.PhysicalStart <= a
                             /\ a < d.PhysicalStart + d.NumberOfPages * PageSize)

\* The pages of the buffer the map really occupies.
MapStorage == StoragePages(mapAddr % AddrModulus, mapSize)

\* The firmware page the k-th written entry was expanded from.
SourceAddr(k) ==
  LET RECURSIVE Walk(_, _)
      Walk(j, r) == IF r < fw[j].NumberOfPages
                    THEN fw[j].PhysicalStart + r * PageSize
                    ELSE Walk(j + 1, r - fw[j].NumberOfPages)
  IN Walk(1, k - 1)

Written == Len(ExpandedTypes(fw, mapAddr))

\* spec.md 3 and 8: after import each written entry carries the physical
\* address of the firmware page it stands for, so the addresses the
\* allocator hands out are the pages the entries describe; they are
\* therefore strictly increasing.  This relies on the page counter's
\* single jump over the legacy hole matching the firmware's layout.
EntryAddressesMatchFirmware ==
  phase = "ready" =>
    \A k \in 1 .. Written : map[k].PhysicalStart = SourceAddr(k)

\* The first MapPages pages of the buffer that holds the map are tagged
\* EfiMaxMemoryType, so no allocation can hand them out.
MapStorageReserved ==
  phase = "ready" /\ MapRegion(fw) # 0 =>
    \A k \in 1 .. Written :
      map[k].PhysicalStart \in
          StoragePages(mapAddr % AddrModulus, MapPages(fw) * PageSize)
        => map[k].Type = EfiMaxMemoryType

\* Every entry the allocator may hand out (tagged conventional) is a page
\* the firmware reported as conventional and holds no part of the map.
ImportedFreeIsFirmwareFree ==
  phase = "ready" =>
    \A k \in DOMAIN map :
      map[k].Type = EfiConventionalMemory =>
        /\ FwIndexOf(map[k].PhysicalStart) # 0
        /\ fw[FwIndexOf(map[k].PhysicalStart)].Type = EfiConventionalMemory
        /\ map[k].PhysicalStart \notin MapStorage

\* Every entry of the MEMORY_MAP_SIZE buffer that the allocator scans was
\* written by the import.
MapFullyWritten ==
  phase = "ready" => Written = Len(map)

\* spec.md 4.1 and 7: when no conventional region can hold the new map,
\* import fails (OutOfMemory, boot halts) instead of producing a map.
ImportFailsClosed ==
  phase = "ready" => MapRegion(fw) # 0

=============================================================================
