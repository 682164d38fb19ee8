------------------------------ MODULE LoaderBoot ------------------------------
(***************************************************************************)
(* GoTime from the kernel placement to the jump (src/JosPkg/Application/  *)
(* Loader/Loader.c 614-1317): KernelPlacement, the AllocatePool of the     *)
(* LOADER_PARAMS block, then the exit sequence of LoaderExit, on the same  *)
(* GoTimeStatus.  The two firmware abstractions are kept apart: the        *)
(* placement sees which pages are free, the exit sees the map's size and   *)
(* key.  Firmware timer events may change the key at any time before the  *)
(* exit.                                                                   *)
(***************************************************************************)
EXTENDS KernelPlacement

CONSTANTS InitDescs, AllocGrowth, MaxEvents, GarbageKeys, NoMap

VARIABLES fwDescs, fwKey, exited, events, exitPc, size, key, bufCap,
          bufLive, bufKey

EX == INSTANCE LoaderExit WITH pc <- exitPc

exitVars == <<fwDescs, fwKey, exited, events, exitPc, size, key, bufCap,
              bufLive, bufKey>>

vars == <<placeVars, exitVars>>

\* The placement's variables other than GoTimeStatus.
placeOnly == <<free, content, stuck, held, pc, AllocatedMemory, NewAddress,
               OldAllocatedMemory>>

\* Loader.c 1075-1081: AllocatePool(EfiLoaderData, sizeof(LOADER_PARAMS));
\* on error GoTime returns.
AllocParams ==
  /\ pc = "done"
  /\ \/ /\ status' = EFI_OUT_OF_RESOURCES
        /\ pc' = "noParams"
        /\ UNCHANGED <<fwDescs, fwKey>>
     \/ /\ status' = EFI_SUCCESS
        /\ pc' = "params"
        /\ EX!PoolMapEffect(AllocGrowth)
  /\ UNCHANGED <<free, content, stuck, held, AllocatedMemory, NewAddress,
                 OldAllocatedMemory, exited, events, exitPc, size, key,
                 bufCap, bufLive, bufKey>>

BootStep ==
  \/ PlaceStep /\ UNCHANGED exitVars
  \/ AllocParams
  \/ pc = "params" /\ EX!LoaderStep /\ UNCHANGED placeOnly

Init == PlaceInit /\ EX!Init

Next == BootStep \/ (EX!FirmwareEvent /\ UNCHANGED placeOnly)

\* GoTime is the only code running; the firmware's events are not fair.
BootSpec == Init /\ [][Next]_vars /\ WF_vars(BootStep)

-----------------------------------------------------------------------------
(* Properties *)

\* The exit sequence's safety, in the whole of GoTime: the kernel is
\* entered after a successful ExitBootServices with the map of its key.
KernelGetsExitMap == EX!KernelGetsExitMap

\* Once the kernel is placed and the LOADER_PARAMS block allocated, the
\* exit sequence ends at the kernel, or in a return for want of pool.
PlacedKernelBoots == pc = "params" ~> EX!Booted

=============================================================================
