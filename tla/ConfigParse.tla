---------------------------- MODULE ConfigParse ----------------------------
(***************************************************************************)
(* GoTime's parse of Kernel64.txt (src/JosPkg/Application/Loader/Loader.c *)
(* 268-391): the file is read as UTF-16 units, checked for the little-    *)
(* endian BOM, measured (the first line is the kernel image's path, with  *)
(* spaces ignored; the second is the command line), two pools are         *)
(* allocated for KernelPath and Cmdline, and the two lines are copied in.  *)
(*                                                                         *)
(* A unit is a model value or a one-letter string; pools start as JUNK.   *)
(* The two measuring loops have no side effects and are one action; each  *)
(* AllocatePool and each copying loop is an action.                        *)
(***************************************************************************)
EXTENDS Integers, Sequences, FiniteSetsExt

CONSTANTS
  Files  \* contents of Kernel64.txt: functions from 0..units-1 to units

BOM_LE == "FEFF"
BOM_BE == "FFFE"
CR == "CR"
LF == "LF"
SP == " "
NUL == "NUL"
JUNK == "JUNK"

VARIABLES
  pc,               \* the statement GoTime executes next
  file,             \* KernelcmdArray
  FirstLineLength,
  KernelPathLen,
  CmdlineLen,
  KernelPath,       \* the pool: index -> unit ([] before it is allocated)
  Cmdline,
  wild              \* a write fell outside KernelPath's or Cmdline's pool

vars == <<pc, file, FirstLineLength, KernelPathLen, CmdlineLen, KernelPath,
          Cmdline, wild>>

\* (Txt_FileInfo->FileSize) >> 1
Units(f) == Cardinality(DOMAIN f)

\* The line ends the scanning loops stop at, from index `from` on.
Breaks(f, from) == {i \in from..Units(f) - 1 : f[i] \in {CR, LF}}
EndOfLine(f, from) == IF Breaks(f, from) = {} THEN Units(f) ELSE Min(Breaks(f, from))

\* 269-292: anything but the little-endian BOM ends GoTime.
CheckBOM ==
  /\ pc = "bom"
  /\ pc' = IF file[0] = BOM_LE THEN "measure" ELSE "failed"
  /\ UNCHANGED <<file, FirstLineLength, KernelPathLen, CmdlineLen, KernelPath, Cmdline, wild>>

\* 298-345: the first loop counts the non-space units before the first
\* line end and sets FirstLineLength past "\n" or past an assumed "\r\n"
\* (0 when there is no line end); the second counts the units from there
\* to the next line end.
Measure ==
  /\ pc = "measure"
  /\ LET brk == EndOfLine(file, 1)
         fll == IF Breaks(file, 1) = {} THEN 0
                ELSE IF file[brk] = LF THEN brk + 1 ELSE brk + 2
     IN /\ FirstLineLength' = fll
        /\ KernelPathLen' = Cardinality({i \in 1..brk - 1 : file[i] # SP})
        /\ CmdlineLen' = IF fll >= Units(file) THEN 0 ELSE EndOfLine(file, fll) - fll
  /\ pc' = "allocPath"
  /\ UNCHANGED <<file, KernelPath, Cmdline, wild>>

\* 351-365: AllocatePool((len + 1) * sizeof(CHAR16)) for each line; on
\* error GoTime returns.
Alloc(here, next, len, buf) ==
  /\ pc = here
  /\ \/ pc' = "failed" /\ UNCHANGED buf
     \/ pc' = next /\ buf' = [i \in 0..len |-> JUNK]

AllocPath ==
  /\ Alloc("allocPath", "allocCmd", KernelPathLen, KernelPath)
  /\ UNCHANGED <<file, FirstLineLength, KernelPathLen, CmdlineLen, Cmdline, wild>>

AllocCmdline ==
  /\ Alloc("allocCmd", "copyPath", CmdlineLen, Cmdline)
  /\ UNCHANGED <<file, FirstLineLength, KernelPathLen, CmdlineLen, KernelPath, wild>>

\* 367-379: each non-space unit i of the first line goes to
\* KernelPath[i-1], then KernelPath[KernelPathLen] = 0.
PathWrites == {i \in 1..EndOfLine(file, 1) - 1 : i < FirstLineLength /\ file[i] # SP}

CopyPath ==
  /\ pc = "copyPath"
  /\ KernelPath' = [k \in DOMAIN KernelPath |->
                      IF k = KernelPathLen THEN NUL
                      ELSE IF k + 1 \in PathWrites THEN file[k + 1]
                      ELSE KernelPath[k]]
  /\ wild' = (wild \/ \E i \in PathWrites : i - 1 \notin DOMAIN KernelPath)
  /\ pc' = "copyCmd"
  /\ UNCHANGED <<file, FirstLineLength, KernelPathLen, CmdlineLen, Cmdline>>

\* 381-391: unit j of the second line goes to Cmdline[j-FirstLineLength],
\* then Cmdline[CmdlineLen] = 0.
CopyCmdline ==
  /\ pc = "copyCmd"
  /\ Cmdline' = [k \in DOMAIN Cmdline |->
                   IF k = CmdlineLen THEN NUL ELSE file[k + FirstLineLength]]
  /\ pc' = "parsed"
  /\ UNCHANGED <<file, FirstLineLength, KernelPathLen, CmdlineLen, KernelPath, wild>>

\* 254-262: the file has been read into KernelcmdArray.
Init ==
  /\ file \in Files
  /\ pc = "bom"
  /\ FirstLineLength = 0 /\ KernelPathLen = 0 /\ CmdlineLen = 0
  /\ KernelPath = <<>> /\ Cmdline = <<>>
  /\ wild = FALSE

Next == CheckBOM \/ Measure \/ AllocPath \/ AllocCmdline \/ CopyPath \/ CopyCmdline

Spec == Init /\ [][Next]_vars

-----------------------------------------------------------------------------
(* Properties *)

\* Every write of the two copying loops and of the terminators lands in
\* the pool AllocatePool gave that string, whatever the file holds.
ConfigWritesInBounds == ~wild

\* The units of a pool up to its first terminator.
CString(buf) ==
  LET ends == {k \in DOMAIN buf : buf[k] = NUL}
  IN [k \in 0..Min(ends) - 1 |-> buf[k]]

\* The first line of a file without its spaces (the comment at 318:
\* "There might be an errant space or two. Ignore them."), as a sequence.
NonSpace(f) ==
  SelectSeq([k \in 1..EndOfLine(f, 1) - 1 |-> f[k]], LAMBDA u : u # SP)

\* When the parse is done, KernelPath holds the first line of the file
\* with its errant spaces ignored, as the comments of 294-296 and 318 say.
PathIsFirstLine ==
  pc = "parsed" =>
    LET p == CString(KernelPath)
    IN [k \in 1..Cardinality(DOMAIN p) |-> p[k - 1]] = NonSpace(file)

\* Where the second line starts: after "\r\n" or after a lone "\r" or "\n"
\* (past the end when the file has one line).
SecondLineStart(f) ==
  LET brk == EndOfLine(f, 1)
  IN IF brk + 1 < Units(f) /\ f[brk] = CR /\ f[brk + 1] = LF THEN brk + 2 ELSE brk + 1

\* When the parse is done, Cmdline holds the file's second line, as the
\* comment at 295 says ("Command line will just go until the next \n or
\* \r\n"), whatever line end the first line has.
CmdlineIsSecondLine ==
  pc = "parsed" =>
    LET c == CString(Cmdline)
        start == SecondLineStart(file)
        stop == IF start >= Units(file) THEN start ELSE EndOfLine(file, start)
    IN [k \in 1..Cardinality(DOMAIN c) |-> c[k - 1]] = [k \in 1..stop - start |-> file[start + k - 1]]

=============================================================================
