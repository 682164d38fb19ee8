------------------------------ MODULE MemoryMap ------------------------------
(***************************************************************************)
(* The kernel's physical memory map end to end: init_memory_map imports    *)
(* the firmware map once, then callers make any sequence of AllocatePages *)
(* and FreePages calls on the map it built (spec.md 2, control flow).      *)
(* The importer's state is MapImporter's; the allocator is PageAllocator   *)
(* instantiated on the same map and AVAIBLE_MEMORY.                       *)
(***************************************************************************)
EXTENDS MapImporter

CONSTANTS MemTypes, PageCounts, Addresses, BeyondTypes, UintnModulus

VARIABLES last, overrun

vars == <<fw, phase, avail, mapSize, mapAddr, map, last, overrun>>

PA == INSTANCE PageAllocator WITH InitMaps <- {}

MR == INSTANCE MapReport

\* init_memory_map, once, before any allocation.
ImportStep == Import /\ UNCHANGED <<last, overrun>>

\* An allocator call on the imported map.
AllocatorStep ==
  /\ phase = "ready"
  /\ PA!Step
  /\ UNCHANGED <<fw, phase, mapSize, mapAddr>>

Init == ImportInit /\ last = PA!NoCall /\ overrun = FALSE

Next == ImportStep \/ AllocatorStep

Spec == Init /\ [][Next]_vars

-----------------------------------------------------------------------------
(* Properties *)

TypeOK == ImportTypeOK /\ PA!TypeOK

\* Every page an AllocatePages call grants is a page the firmware reported
\* as conventional and holds no part of the kernel's map, whatever calls
\* came before it.
GrantedPagesAreFree ==
  [][ last'.op = "AllocatePages" /\ last'.first # 0 =>
        \A k \in last'.first .. last'.first + last'.pages - 1 :
          k \in DOMAIN map =>
            LET a == map[k].PhysicalStart
            IN /\ FwIndexOf(a) # 0
               /\ fw[FwIndexOf(a)].Type = EfiConventionalMemory
               /\ a \notin MapStorage ]_vars

\* PrintMemoryMap, run from the monitor on whatever map the calls so far
\* left, prints exactly the maximal runs of equal Type in address order
\* with their page counts, except the last run: the loop ends without
\* printing the run in progress (spec.md 4.3 asks for it at the end of
\* the map too).
ReportMatchesRunsButLast ==
  LET ref == MR!ReferenceRuns(map)
  IN MR!Report(map) = SubSeq(ref, 1, Len(ref) - 1)

\* Every Type PrintMemoryMap prints is a name of memory_types[] (indexes
\* 0 to EfiMaxMemoryType), whatever m_type AllocatePages accepted before.
ReportTypesNamed ==
  \A i \in DOMAIN MR!Report(map) : MR!Report(map)[i].Type <= EfiMaxMemoryType

=============================================================================
