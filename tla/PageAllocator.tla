---------------------------- MODULE PageAllocator ----------------------------
(***************************************************************************)
(* The kernel page allocator of src/kern/uefi.c: AllocatePages with its    *)
(* three strategies and FreePages, over the page-granularity map that      *)
(* init_memory_map built.  The kernel is single-threaded and every call is *)
(* a bounded synchronous scan, so each call is one atomic action.          *)
(*                                                                         *)
(* map[k] is the k-th page descriptor of the buffer at MEMORY_MAP_ADDR     *)
(* (1-based); Len(map) = MEMORY_MAP_SIZE / Memory_Map_Descriptor_Size.     *)
(* Memory past the end of the buffer is not part of the map: a read there  *)
(* yields whatever the memory holds (a type from BeyondTypes) and a write  *)
(* there is recorded in the history variable overrun.                      *)
(***************************************************************************)
EXTENDS Naturals, Sequences, SequencesExt, EfiTypes

CONSTANTS
  PageSize,     \* SPAGES, bytes per page (4096 in the code)
  InitMaps,     \* page maps the allocator may start from
  MemTypes,     \* m_type arguments callers pass
  PageCounts,   \* pages arguments callers pass
  Addresses,    \* *mem arguments callers pass (aligned and unaligned)
  BeyondTypes,  \* Type values that memory past the map may hold
  UintnModulus  \* 2^32: UINTN is uint32_t (src/inc/uefi.h)

ASSUME PageSize \in Nat \ {0}
ASSUME PageCounts \subseteq Nat /\ Addresses \subseteq Nat
\* num_pages = pages - 1 wraps to UintnModulus - 1 when pages = 0; a scan
\* over fewer entries than that never counts down to zero, so any modulus
\* above the map length gives the scans of the 2^32 the code uses.
ASSUME UintnModulus \in Nat /\ \A m \in InitMaps : UintnModulus > Len(m) + 1

VARIABLES
  map,      \* the kernel page map
  avail,    \* AVAIBLE_MEMORY
  last,     \* history: the last call, its arguments and its outcome
  overrun   \* history: some call wrote a descriptor past the map's end

vars == <<map, avail, last, overrun>>

\* The record kept in last.  first is the map index of the run a call
\* retagged (0 when it retagged nothing); out is *mem after the call.
Call(op, a, t, n, mem, status, out, first) ==
  [op |-> op, a_type |-> a, m_type |-> t, pages |-> n, mem |-> mem,
   status |-> status, out |-> out, first |-> first]

NoCall == Call("none", "none", 0, 0, 0, EFI_SUCCESS, 0, 0)

IsConv(t) == t = EfiConventionalMemory

\* Set the Type of entries first .. first+n-1 to t (uefi.c 259-264,
\* 338-343, 387-392).  Only entries inside the map are kept; a write past
\* the end is seen through PastEnd.
Retag(m, first, n, t) ==
  [k \in DOMAIN m |->
     IF first <= k /\ k < first + n THEN [m[k] EXCEPT !.Type = t] ELSE m[k]]

PastEnd(m, first, n) == first + n - 1 > Len(m)

\* The argument checks at the top of AllocatePages (uefi.c 218-227).  mem
\* is never NULL in this model, so the NULL checks are not reachable.
InvalidAllocation(m_type, mem) ==
  \/ mem % PageSize # 0
  \/ m_type = EfiPersistentMemory
  \/ m_type >= EfiMaxMemoryType /\ m_type <= 1879048191

Found(first, out) == [status |-> EFI_SUCCESS, first |-> first, out |-> out]
NotGranted(status, mem) == [status |-> status, first |-> 0, out |-> mem]

\* Plausible faults of the scans below, each of which a property catches:
\* the run is not restarted at a non-conventional entry, and save_offset
\* is taken one entry too late.
RECURSIVE AnyScanNoReset(_, _, _, _, _, _)
AnyScanNoReset(m, pages, mem, k, save, num) ==
  IF k > Len(m) THEN NotGranted(EFI_OUT_OF_RESOURCES, mem)
  ELSE IF IsConv(m[k].Type)
    THEN LET s == IF save = 0 THEN k ELSE save
             n == IF save = 0 THEN (pages - 1) % UintnModulus
                              ELSE (num - 1) % UintnModulus
         IN IF n = 0 THEN Found(s, m[k].PhysicalStart)
                     ELSE AnyScanNoReset(m, pages, mem, k + 1, s, n)
    ELSE AnyScanNoReset(m, pages, mem, k + 1, save, num)

RECURSIVE AnyScanSaveNext(_, _, _, _, _, _)
AnyScanSaveNext(m, pages, mem, k, save, num) ==
  IF k > Len(m) THEN NotGranted(EFI_OUT_OF_RESOURCES, mem)
  ELSE IF IsConv(m[k].Type)
    THEN LET s == IF save = 0 THEN k + 1 ELSE save
             n == IF save = 0 THEN (pages - 1) % UintnModulus
                              ELSE (num - 1) % UintnModulus
         IN IF n = 0 THEN Found(s, m[k].PhysicalStart)
                     ELSE AnyScanSaveNext(m, pages, mem, k + 1, s, n)
    ELSE AnyScanSaveNext(m, pages, mem, k + 1, 0, pages)

(***************************************************************************)
(* The AllocateAnyPages loop (uefi.c 248-277).  save is the index of the   *)
(* first entry of the current run of conventional entries (0 for NULL),    *)
(* num the pages still missing, counted in UINTN.  On success *mem gets    *)
(* the PhysicalStart of the entry at which the count reached zero.         *)
(***************************************************************************)
RECURSIVE AnyScan(_, _, _, _, _, _)
AnyScan(m, pages, mem, k, save, num) ==
  IF k > Len(m) THEN NotGranted(EFI_OUT_OF_RESOURCES, mem)
  ELSE IF IsConv(m[k].Type)
    THEN LET s == IF save = 0 THEN k ELSE save
             n == IF save = 0 THEN (pages - 1) % UintnModulus
                              ELSE (num - 1) % UintnModulus
         IN IF n = 0 THEN Found(s, m[k].PhysicalStart)
                     ELSE AnyScan(m, pages, mem, k + 1, s, n)
    ELSE AnyScan(m, pages, mem, k + 1, 0, pages)

(***************************************************************************)
(* The AllocateMaxAddress loop (uefi.c 285-314): the same count, but the   *)
(* scan fails at the first entry above the ceiling *mem, and the count is  *)
(* tested after the reset of a non-conventional entry as well.             *)
(***************************************************************************)
RECURSIVE MaxScan(_, _, _, _, _, _)
MaxScan(m, pages, mem, k, save, num) ==
  IF k > Len(m) THEN NotGranted(EFI_OUT_OF_RESOURCES, mem)
  ELSE IF m[k].PhysicalStart > mem THEN NotGranted(EFI_OUT_OF_RESOURCES, mem)
  ELSE LET conv == IsConv(m[k].Type)
           s == IF ~conv THEN 0 ELSE IF save = 0 THEN k ELSE save
           n == IF ~conv THEN pages
                ELSE IF save = 0 THEN (pages - 1) % UintnModulus
                ELSE (num - 1) % UintnModulus
       IN IF n = 0 THEN Found(s, m[k].PhysicalStart)
                   ELSE MaxScan(m, pages, mem, k + 1, s, n)

\* Plausible fault: the pages after the one at *mem are not checked.
AddressScanNoCheck(m, pages, mem, g) ==
  LET k == SelectInSeq(m, LAMBDA e : \/ ~IsConv(e.Type) /\ e.PhysicalStart > mem
                                     \/ IsConv(e.Type) /\ e.PhysicalStart = mem)
  IN IF k = 0 \/ ~IsConv(m[k].Type) THEN NotGranted(EFI_OUT_OF_RESOURCES, mem)
     ELSE Found(k, mem)

(***************************************************************************)
(* AllocateAddress (uefi.c 317-350): the first entry that is either not    *)
(* conventional and above *mem, or conventional and at *mem, decides.  In  *)
(* the second case the pages entries from it must all be conventional;     *)
(* entries past the end of the map read as g.                              *)
(***************************************************************************)
AddressScan(m, pages, mem, g) ==
  LET k == SelectInSeq(m, LAMBDA e : \/ ~IsConv(e.Type) /\ e.PhysicalStart > mem
                                     \/ IsConv(e.Type) /\ e.PhysicalStart = mem)
      TypeAt(i) == IF i <= Len(m) THEN m[i].Type ELSE g
  IN IF k = 0 \/ ~IsConv(m[k].Type) THEN NotGranted(EFI_OUT_OF_RESOURCES, mem)
     ELSE IF \E i \in k .. k + pages - 1 : ~IsConv(TypeAt(i))
       THEN NotGranted(EFI_OUT_OF_RESOURCES, mem)
     ELSE Found(k, mem)

\* One whole AllocatePages call (uefi.c 215-354).
\* g is what memory past the end of the map holds.
AllocatePages(a_type, m_type, pages, mem, g) ==
    LET r == CASE InvalidAllocation(m_type, mem) ->
                    NotGranted(EFI_INVALID_PARAMETER, mem)
               [] a_type = AllocateAnyPages ->
                    AnyScan(map, pages, mem, 1, 0, pages)
               [] a_type = AllocateMaxAddress ->
                    MaxScan(map, pages, mem, 1, 0, pages)
               [] a_type = AllocateAddress /\ mem > avail ->
                    NotGranted(EFI_NOT_FOUND, mem)
               [] a_type = AllocateAddress ->
                    AddressScan(map, pages, mem, g)
        granted == r.status = EFI_SUCCESS /\ r.first # 0
    IN /\ map' = IF granted THEN Retag(map, r.first, pages, m_type) ELSE map
       /\ overrun' = (overrun \/ (granted /\ PastEnd(map, r.first, pages)))
       /\ last' = Call("AllocatePages", a_type, m_type, pages, mem,
                       r.status, r.out, IF granted THEN r.first ELSE 0)
       /\ UNCHANGED avail

\* One whole FreePages call (uefi.c 358-399): the first entry at or above
\* *mem decides; the pages entries from it become conventional whatever
\* they were.  No entry at or above *mem is reported as success.
FreePages(mem, pages) ==
  LET k == SelectInSeq(map, LAMBDA e : e.PhysicalStart >= mem)
      hit == k # 0 /\ map[k].PhysicalStart = mem
      status == CASE mem % PageSize # 0 -> EFI_INVALID_PARAMETER
                  [] mem > avail -> EFI_INVALID_PARAMETER
                  [] k # 0 /\ ~hit -> EFI_NOT_FOUND
                  [] OTHER -> EFI_SUCCESS
      freed == status = EFI_SUCCESS /\ hit
  IN /\ map' = IF freed THEN Retag(map, k, pages, EfiConventionalMemory) ELSE map
     /\ overrun' = (overrun \/ (freed /\ PastEnd(map, k, pages)))
     /\ last' = Call("FreePages", "none", EfiConventionalMemory, pages, mem,
                     status, mem, IF freed THEN k ELSE 0)
     /\ UNCHANGED avail

AllocTypes == {AllocateAnyPages, AllocateMaxAddress, AllocateAddress}

\* Any call a kernel caller can make, with arguments from the input sets.
Step ==
  \/ \E a \in AllocTypes, t \in MemTypes, n \in PageCounts, mem \in Addresses :
       \* only AllocateAddress reads past the end of the map
       \E g \in IF a = AllocateAddress THEN BeyondTypes
                                       ELSE {EfiReservedMemoryType} :
         AllocatePages(a, t, n, mem, g)
  \/ \E n \in PageCounts, mem \in Addresses : FreePages(mem, n)

\* Stand-alone: the map as init_memory_map leaves it, AVAIBLE_MEMORY the end
\* of its last page.
Init ==
  /\ map \in InitMaps
  /\ avail = map[Len(map)].PhysicalStart + PageSize
  /\ last = NoCall
  /\ overrun = FALSE

Next == Step

Spec == Init /\ [][Next]_vars

-----------------------------------------------------------------------------
(* Properties *)

TypeOK ==
  /\ map \in [DOMAIN map -> Entry(Nat, Nat)]
  /\ DOMAIN map = 1 .. Len(map)
  /\ avail \in Nat
  /\ last.status \in Statuses
  /\ last.first \in 0 .. Len(map)
  /\ overrun \in BOOLEAN

Abs == INSTANCE AbstractPages

\* Every AllocatePages and FreePages call changes the map only as the
\* allocator's contract allows: a granted run was entirely conventional,
\* fits the strategy (below the ceiling, at the exact address) and is
\* retagged with the requested type; a failed call leaves the map as it was.
AllocatorRefinesContract == Abs!Spec

\* Reference definition of first-fit: the lowest index of n consecutive map
\* entries that are conventional and, when bounded, start at or below ceil.
FirstRun(m, n, bounded, ceil) ==
  LET ok(k) == IsConv(m[k].Type) /\ (~bounded \/ (m[k].PhysicalStart <= ceil))
      starts == {i \in DOMAIN m : /\ i + n - 1 <= Len(m)
                                  /\ \A k \in i .. i + n - 1 : ok(k)}
  IN IF starts = {} THEN 0 ELSE Min(starts)

\* The AllocateAnyPages and AllocateMaxAddress scans, with their
\* save_offset/num_pages bookkeeping, grant exactly the first run of
\* free entries that fits (below the ceiling for MaxAddress), and fail
\* with EFI_OUT_OF_RESOURCES exactly when there is none.
FirstFit ==
  [][ /\ last'.op = "AllocatePages"
      /\ last'.a_type \in {AllocateAnyPages, AllocateMaxAddress}
      /\ last'.pages >= 1
      /\ last'.status # EFI_INVALID_PARAMETER
      => LET ref == FirstRun(map, last'.pages,
                             last'.a_type = AllocateMaxAddress, last'.mem)
         IN /\ (last'.status = EFI_SUCCESS) = (ref # 0)
            /\ last'.first = ref ]_vars

\* spec.md 4.2 and 8: a successful AllocateAnyPages or AllocateMaxAddress
\* returns in *mem the base address of the run it retagged.
ReturnedAddressIsRunBase ==
  /\ last.op = "AllocatePages"
  /\ last.status = EFI_SUCCESS
  /\ last.first # 0
  => last.out = map[last.first].PhysicalStart

\* A granted run is physically contiguous: the caller uses the pages
\* [base, base + pages * SPAGES), so consecutive entries of the run must be
\* consecutive pages.
GrantedRunIsContiguous ==
  last.op = "AllocatePages" /\ last.first # 0 =>
    \A k \in last.first .. last.first + last.pages - 2 :
      k + 1 \in DOMAIN map =>
        map[k + 1].PhysicalStart = map[k].PhysicalStart + PageSize

\* No AllocatePages or FreePages call writes a descriptor past the end of
\* the map buffer (the memory after it is not the allocator's).
NoWritePastMap == ~overrun

=============================================================================
