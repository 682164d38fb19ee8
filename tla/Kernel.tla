-------------------------------- MODULE Kernel --------------------------------
(***************************************************************************)
(* The kernel as one program: i386_init clears BSS, the memory map is      *)
(* imported and allocated from during early init (spec.md 2: the importer *)
(* runs once at early init, before any allocation; the shell reads the     *)
(* map on demand), then the monitor runs commands forever.  The monitor   *)
(* loop never returns and no command allocates, so no allocator call      *)
(* follows the first command; PrintMemoryMap reads whatever map early     *)
(* init left, the never-imported one included, as init.c itself makes no *)
(* call to init_memory_map.                                                *)
(***************************************************************************)
EXTENDS MemoryMap

CONSTANTS Words, Lines, MAXARGS, LoaderParams, Messages

VARIABLES kpc, handedOff, UEFI_LP, panicstr, line, args, ran, argvWild

KM == INSTANCE KernelMonitor

monitorVars == <<kpc, handedOff, UEFI_LP, panicstr, line, args, ran, argvWild>>

kernelVars == <<vars, monitorVars>>

\* init_memory_map, called between the memset and the monitor; it sets
\* UEFI_LP to LP_pointer first (uefi.c 52).
ImportEarly ==
  /\ kpc = "init"
  /\ ImportStep
  /\ UEFI_LP' = KM!LP_pointer
  /\ UNCHANGED <<kpc, handedOff, panicstr, line, args, ran, argvWild>>

\* An AllocatePages or FreePages call of early init.  Past the argument
\* checks, the only ones returning EFI_INVALID_PARAMETER, each sets UEFI_LP
\* to LP_pointer (uefi.c 231, 365).
AllocateEarly ==
  /\ kpc = "init"
  /\ AllocatorStep
  /\ UEFI_LP' = IF last'.status = EFI_INVALID_PARAMETER THEN UEFI_LP ELSE KM!LP_pointer
  /\ UNCHANGED <<kpc, handedOff, panicstr, line, args, ran, argvWild>>

\* The kernel's own steps leave the map alone: runcmd's commands only read
\* it (PrintMemoryMap) or print.
KernelStep(A) == A /\ UNCHANGED vars

KernelInit == Init /\ KM!Init

KernelNext ==
  \/ ImportEarly
  \/ AllocateEarly
  \/ KernelStep(KM!ClearBss)
  \/ KernelStep(KM!StartMonitor)
  \/ KernelStep(KM!RunCmd)
  \/ \E m \in Messages : KernelStep(KM!Panic(m))

KernelSpec == KernelInit /\ [][KernelNext]_kernelVars

-----------------------------------------------------------------------------
(* Properties *)

KernelTypeOK == TypeOK /\ KM!TypeOK

\* runcmd never writes argv past its MAXARGS slots (monitor.c 135, 143).
ArgvInBounds == KM!ArgvInBounds

\* Each monitor command line runs the command its first argument names
\* with argv equal to the line's whitespace-separated arguments.
CommandLineRuns == KM!CommandLineRuns

\* UEFI_LP, saved across the memset, stays the loader's pointer
\* (init.c 33-35); init_memory_map, the allocator, lpinfo and
\* PrintMemoryMap overwrite it (uefi.c 52, 231, 365, 134, 192).
LoaderParamsKept == KM!LoaderParamsKept

\* A line of at most MAXARGS arguments is run, as the message of
\* monitor.c 136 ("Too many arguments (max %d)", MAXARGS) says.
ArgsUpToMaxRun == KM!ArgsUpToMaxRun

=============================================================================
