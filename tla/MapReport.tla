------------------------------ MODULE MapReport ------------------------------
(***************************************************************************)
(* PrintMemoryMap (src/kern/uefi.c 131-187), run from the monitor's       *)
(* PrintMemoryMap command: a read-only walk over the page map that         *)
(* coalesces consecutive entries of one Type and prints one record per     *)
(* run.  The printed text is abstracted to the sequence of records         *)
(* (Type, PhysicalStart of the run's first entry, page count); every entry *)
(* stands for one page, as init_memory_map writes them.                    *)
(***************************************************************************)
EXTENDS Naturals, Sequences, SequencesExt, EfiTypes

\* The record cprintf prints for the run starting at entry tmp.
Record(m, tmp, num) ==
  [Type |-> m[tmp].Type, PhysicalStart |-> m[tmp].PhysicalStart, pages |-> num]

\* Plausible fault: the page count is not reset when a run is printed.
RECURSIVE ReportWalkNoReset(_, _, _, _)
ReportWalkNoReset(m, k, tmp, num) ==
  IF k > Len(m) THEN <<>>
  ELSE IF tmp = 0 THEN ReportWalkNoReset(m, k + 1, k, 1)
  ELSE IF m[k].Type # m[tmp].Type
    THEN <<Record(m, tmp, num)>> \o ReportWalkNoReset(m, k + 1, k, num + 1)
  ELSE ReportWalkNoReset(m, k + 1, tmp, num + 1)

(***************************************************************************)
(* The loop at uefi.c 153-185 from entry k on.  tmp is desctmp (0 while    *)
(* flag is 0), num the pages of the run so far.  A record is printed only  *)
(* when an entry of another Type is reached; the loop then ends without    *)
(* printing the run in progress.                                           *)
(***************************************************************************)
RECURSIVE ReportWalk(_, _, _, _)
ReportWalk(m, k, tmp, num) ==
  IF k > Len(m) THEN <<>>
  ELSE IF tmp = 0 THEN ReportWalk(m, k + 1, k, 1)
  ELSE IF m[k].Type # m[tmp].Type
    THEN <<Record(m, tmp, num)>> \o ReportWalk(m, k + 1, k, 1)
  ELSE ReportWalk(m, k + 1, tmp, num + 1)

\* What one PrintMemoryMap call prints for map m.
Report(m) == ReportWalk(m, 1, 0, 0)

\* Reference coalescing: the maximal runs of equal Type, in order.
RunStarts(m) ==
  SelectSeq([k \in 1 .. Len(m) |-> k],
            LAMBDA k : k = 1 \/ m[k - 1].Type # m[k].Type)

ReferenceRuns(m) ==
  LET s == RunStarts(m)
      stop(i) == IF i < Len(s) THEN s[i + 1] ELSE Len(m) + 1
  IN [i \in DOMAIN s |-> Record(m, s[i], stop(i) - s[i])]

=============================================================================
