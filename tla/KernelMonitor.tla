---------------------------- MODULE KernelMonitor ----------------------------
(***************************************************************************)
(* The kernel's own control after the loader jumps to it: i386_init       *)
(* (src/kern/init.c 24-69) clears BSS around the saved UEFI_LP, brings up *)
(* the console and drops into the monitor, whose loop (src/kern/monitor.c *)
(* 156-171) reads a line and runs it: runcmd (117-154) splits the line    *)
(* into whitespace-separated arguments and calls the command the first    *)
(* one names.  _panic (init.c 82-104) records the first message and       *)
(* enters the monitor.                                                     *)
(*                                                                         *)
(* A line is a sequence of units: a whitespace unit or a word unit; a      *)
(* maximal run of word units is one C string after runcmd's NULs, so a     *)
(* token is the sequence of its units and strcmp with a command name is    *)
(* equality with <<name>>.  The commands only print, except lpinfo and     *)
(* PrintMemoryMap, whose callees (uefi.c 134, 192) overwrite UEFI_LP with  *)
(* the constant LP_pointer.                                                *)
(***************************************************************************)
EXTENDS Integers, Sequences, SequencesExt

CONSTANTS
  Words,         \* the non-whitespace units a line is made of
  Lines,         \* the lines readline can hand to runcmd
  MAXARGS,       \* argv's size (16 in monitor.c 115)
  LoaderParams,  \* the LOADER_PARAMS addresses the entry code leaves in UEFI_LP
  Messages       \* the format strings _panic can be called with

\* monitor.c 114: "\t\r\n "
WHITESPACE == {"TAB", "CR", "LF", "SP"}

ASSUME Words \cap WHITESPACE = {} /\ MAXARGS \in Nat \ {0}

\* uefi.c 34: the address LP_info and PrintMemoryMap assume (-m 512).
LP_pointer == 515501200

NULL == "NULL"

\* monitor.c 26-33
Commands == {"help", "kerninfo", "firestarter", "backtrace", "lpinfo", "PrintMemoryMap"}

\* mon_lpinfo -> LP_info and mon_GMM -> PrintMemoryMap set UEFI_LP.
ResetsUEFI_LP == {"lpinfo", "PrintMemoryMap"}

VARIABLES
  kpc,         \* "entry", "init" (between memset and the monitor), "monitor"
  handedOff,   \* the UEFI_LP the entry code stored (never changes)
  UEFI_LP,
  panicstr,
  line,        \* the line of the last runcmd
  args,        \* its argv[0..argc-1], each a token
  ran,         \* what it did: a command name, "Unknown", "TooMany", "Empty"
  argvWild     \* some runcmd wrote argv past its MAXARGS slots

vars == <<kpc, handedOff, UEFI_LP, panicstr, line, args, ran, argvWild>>

IsWS(u) == u \in WHITESPACE

\* The first index from i on whose unit is (ws) or is not (~ws)
\* whitespace; Len(l) + 1 is the NUL.
Skip(l, i, ws) ==
  LET S == {j \in i .. Len(l) : IsWS(l[j]) # ws}
  IN IF S = {} THEN Len(l) + 1 ELSE Min(S)

\* 127-142 with the limit one higher: the check of 135 as argc == MAXARGS.
RECURSIVE ParseMaxArgs(_, _, _)
ParseMaxArgs(l, i, argv) ==
  LET j == Skip(l, i, TRUE)
  IN IF j > Len(l) THEN [argv |-> argv, tooMany |-> FALSE]
     ELSE IF Len(argv) = MAXARGS THEN [argv |-> argv, tooMany |-> TRUE]
     ELSE ParseMaxArgs(l, Skip(l, j, FALSE), Append(argv, SubSeq(l, j, Skip(l, j, FALSE) - 1)))

\* 127-142: gobble whitespace (129-130), stop at the NUL (131-132),
\* refuse an argument when argc is MAXARGS-1 (135-138), else save it and
\* scan past it (139-141).
RECURSIVE Parse(_, _, _)
Parse(l, i, argv) ==
  LET j == Skip(l, i, TRUE)
  IN IF j > Len(l) THEN [argv |-> argv, tooMany |-> FALSE]
     ELSE IF Len(argv) = MAXARGS - 1 THEN [argv |-> argv, tooMany |-> TRUE]
     ELSE Parse(l, Skip(l, j, FALSE), Append(argv, SubSeq(l, j, Skip(l, j, FALSE) - 1)))

\* The argv slots a parse writes: argv[0] (126), one per saved argument
\* (139) and the terminator (143), which the too-many return skips.
Written(r) ==
  {0} \cup (0 .. Len(r.argv) - 1) \cup (IF r.tooMany THEN {} ELSE {Len(r.argv)})

\* 148-152 compared by the name's prefix (strncmp with the name's length).
LookupPrefix(argv) ==
  IF \E c \in Commands : argv[1][1] = c THEN CHOOSE c \in Commands : argv[1][1] = c
  ELSE "Unknown"

\* 148-152: the command whose name equals argv[0], else "Unknown".
Lookup(argv) ==
  IF \E c \in Commands : argv[1] = <<c>> THEN CHOOSE c \in Commands : argv[1] = <<c>>
  ELSE "Unknown"

\* 33-35: the pointer is saved, BSS zeroed, the pointer restored.
ClearBss ==
  /\ kpc = "entry"
  /\ panicstr' = NULL
  /\ UEFI_LP' = UEFI_LP
  /\ kpc' = "init"
  /\ UNCHANGED <<handedOff, line, args, ran, argvWild>>

\* 39-68, 161-162: console, greetings, test_backtrace (prints only), then
\* the monitor.
StartMonitor ==
  /\ kpc = "init"
  /\ kpc' = "monitor"
  /\ UNCHANGED <<handedOff, UEFI_LP, panicstr, line, args, ran, argvWild>>

\* 165-169 and runcmd 117-154 on a line readline returned; every command
\* returns 0, so the loop goes on.
RunCmd ==
  /\ kpc = "monitor"
  /\ \E l \in Lines :
       LET r == Parse(l, 1, <<>>)
           cmd == CASE r.tooMany     -> "TooMany"
                    [] r.argv = <<>> -> "Empty"
                    [] OTHER         -> Lookup(r.argv)
       IN /\ line' = l
          /\ args' = r.argv
          /\ ran' = cmd
          /\ argvWild' = (argvWild \/ \E s \in Written(r) : s >= MAXARGS)
          /\ UEFI_LP' = IF cmd \in ResetsUEFI_LP THEN LP_pointer ELSE UEFI_LP
  /\ UNCHANGED <<kpc, handedOff, panicstr>>

\* 82-104: a panic after an earlier one goes straight to the monitor;
\* the first records its message, prints and enters the monitor.  The
\* callers (assert and panic in the console, readline and stab code) are
\* outside src/, so a panic may come at any point after the memset.
Panic(m) ==
  /\ kpc \in {"init", "monitor"}
  /\ panicstr' = IF panicstr # NULL THEN panicstr ELSE m
  /\ kpc' = "monitor"
  /\ UNCHANGED <<handedOff, UEFI_LP, line, args, ran, argvWild>>

Init ==
  /\ kpc = "entry"
  /\ handedOff \in LoaderParams
  /\ UEFI_LP = handedOff
  \* its value before the memset is never read: no panic precedes ClearBss
  /\ panicstr = NULL
  /\ line = <<>> /\ args = <<>> /\ ran = "Empty"
  /\ argvWild = FALSE

Next == ClearBss \/ StartMonitor \/ RunCmd \/ \E m \in Messages : Panic(m)

Spec == Init /\ [][Next]_vars

-----------------------------------------------------------------------------
(* Properties *)

TypeOK ==
  /\ kpc \in {"entry", "init", "monitor"}
  /\ {UEFI_LP, handedOff} \subseteq LoaderParams \cup {LP_pointer}
  /\ panicstr \in Messages \cup {NULL}
  /\ line \in Lines \cup {<<>>}
  /\ ran \in Commands \cup {"Unknown", "TooMany", "Empty"}
  /\ argvWild \in BOOLEAN

\* runcmd never writes argv past its MAXARGS slots, whatever the line:
\* the argument limit of 135 leaves room for the terminator of 143.
ArgvInBounds == ~argvWild

\* The arguments of a line: its maximal runs of non-whitespace units, in
\* order (the reference the parse loop is checked against).
TokenStarts(l) == {a \in 1 .. Len(l) : ~IsWS(l[a]) /\ (a = 1 \/ IsWS(l[a - 1]))}
TokenAt(l, a) == SubSeq(l, a, Skip(l, a, FALSE) - 1)
Tokens(l) ==
  LET s == SetToSortSeq(TokenStarts(l), <)
  IN [k \in 1 .. Len(s) |-> TokenAt(l, s[k])]

\* After each runcmd: a line of fewer than MAXARGS arguments runs the
\* command its first argument names exactly (or none, for an empty line
\* or an unknown name) with argv equal to the line's arguments; a longer
\* line runs nothing.
CommandLineRuns ==
  LET T == Tokens(line)
  IN IF Len(T) >= MAXARGS THEN ran = "TooMany"
     ELSE /\ args = T
          /\ ran = IF T = <<>> THEN "Empty"
                   ELSE IF \E c \in Commands : T[1] = <<c>> THEN T[1][1]
                   ELSE "Unknown"

\* The LOADER_PARAMS pointer i386_init saves across the memset (33-35)
\* stays the one the loader handed over.
LoaderParamsKept == kpc # "entry" => UEFI_LP = handedOff

\* A line of at most MAXARGS arguments is run: monitor.c 136 reports
\* "Too many arguments (max MAXARGS)".
ArgsUpToMaxRun == Len(Tokens(line)) <= MAXARGS => ran # "TooMany"

=============================================================================
