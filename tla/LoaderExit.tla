----------------------------- MODULE LoaderExit -----------------------------
(***************************************************************************)
(* The end of GoTime (src/JosPkg/Application/Loader/Loader.c 1138-1320):  *)
(* the loader fetches the firmware memory map, exits boot services with   *)
(* its key, retries once when the key was stale, fills LOADER_PARAMS and  *)
(* jumps to the kernel.  One action per firmware call of the loader, with  *)
(* the status tests that follow it.                                        *)
(*                                                                         *)
(* The firmware is the environment, modelled from the UEFI contract the    *)
(* code relies on: GetMemoryMap fails with EFI_BUFFER_TOO_SMALL and        *)
(* reports the needed size when the buffer is smaller than the map;        *)
(* otherwise it fills the buffer and returns the map's key.  The key       *)
(* changes whenever the map changes: when a pool allocation or free needs  *)
(* or returns whole pages, and when firmware code running asynchronously  *)
(* (timer events) allocates.  ExitBootServices succeeds only with the      *)
(* current key.  Sizes are counted in descriptors.                         *)
(***************************************************************************)
EXTENDS Integers

CONSTANTS
  InitDescs,    \* descriptor counts of the firmware map at the start
  AllocGrowth,  \* descriptors a pool allocation that takes new pages adds
  MaxEvents,    \* bound on asynchronous map changes before the exit
  GarbageKeys,  \* values the uninitialised MemMapKey may hold
  NoMap         \* the buffer holds no map (model value)

ASSUME InitDescs \subseteq Nat \ {0} /\ AllocGrowth \subseteq Nat
ASSUME MaxEvents \in Nat /\ GarbageKeys \subseteq Nat

EFI_BUFFER_TOO_SMALL == "EFI_BUFFER_TOO_SMALL"
EFI_SUCCESS == "EFI_SUCCESS"
EFI_INVALID_PARAMETER == "EFI_INVALID_PARAMETER"
EFI_OUT_OF_RESOURCES == "EFI_OUT_OF_RESOURCES"

VARIABLES
  \* firmware
  fwDescs,  \* descriptors in the firmware's current map
  fwKey,    \* the current map key
  exited,   \* ExitBootServices has succeeded
  events,   \* asynchronous map changes so far
  \* loader (GoTime's locals)
  pc,       \* the statement the loader executes next
  status,   \* GoTimeStatus
  size,     \* MemMapSize
  key,      \* MemMapKey
  bufCap,   \* descriptors the pool at MemMap holds (0: MemMap is NULL)
  bufLive,  \* the pool at MemMap is allocated and not yet freed
  bufKey    \* key of the map GetMemoryMap last wrote into MemMap

fwVars == <<fwDescs, fwKey, exited, events>>
loaderVars == <<pc, status, size, key, bufCap, bufLive, bufKey>>
vars == <<fwVars, loaderVars>>

(* The firmware services, as the loader's actions use them. *)

\* GetMemoryMap(&MemMapSize, MemMap, &MemMapKey, ...): the new status,
\* size, key and buffer contents.
GetMemoryMap ==
  IF size < fwDescs
  THEN [st |-> EFI_BUFFER_TOO_SMALL, size |-> fwDescs, key |-> key, buf |-> bufKey]
  ELSE [st |-> EFI_SUCCESS, size |-> fwDescs, key |-> fwKey, buf |-> fwKey]

\* A pool allocation or free either stays inside pool pages already in
\* the map, or changes the map (and so its key) by d descriptors.
MapChange(d) ==
  /\ fwKey' = fwKey + 1
  /\ fwDescs' = fwDescs + d

PoolMapEffect(deltas) ==
  \/ UNCHANGED <<fwDescs, fwKey>>
  \/ \E d \in deltas : MapChange(d)

(* The loader.  Each action is one firmware call and the tests after it. *)

\* Loader.c 1159-1160, 1188-1189: GetMemoryMap with MemMapSize = 0; on
\* EFI_BUFFER_TOO_SMALL allocate, otherwise go straight to the exit.
QuerySize(here, alloc, exit) ==
  /\ pc = here
  /\ LET r == GetMemoryMap
     IN /\ status' = r.st /\ size' = r.size /\ key' = r.key /\ bufKey' = r.buf
        /\ pc' = IF r.st = EFI_BUFFER_TOO_SMALL THEN alloc ELSE exit
  /\ UNCHANGED <<fwVars, bufCap, bufLive>>

\* Loader.c 1162-1167, 1191-1196: AllocatePool(EfiLoaderData, MemMapSize)
\* for MemMap; on error GoTime returns.
AllocMap(here, next) ==
  /\ pc = here
  /\ \/ /\ status' = EFI_OUT_OF_RESOURCES
        /\ pc' = "failed"
        /\ UNCHANGED <<fwDescs, fwKey, bufCap, bufLive>>
     \/ /\ status' = EFI_SUCCESS
        /\ PoolMapEffect(AllocGrowth)
        /\ bufCap' = size /\ bufLive' = TRUE
        /\ pc' = next
  /\ UNCHANGED <<exited, events, size, key, bufKey>>

\* Loader.c 1168, 1197: the second GetMemoryMap; its status is not tested.
FillMap(here, next) ==
  /\ pc = here
  /\ LET r == GetMemoryMap
     IN /\ status' = r.st /\ size' = r.size /\ key' = r.key /\ bufKey' = r.buf
  /\ pc' = next
  /\ UNCHANGED <<fwVars, bufCap, bufLive>>

\* Plausible fault: no retry; a stale key goes straight to the final test.
ExitNoRetry(here, onFail, onSuccess) ==
  /\ pc = here
  /\ IF key = fwKey
     THEN status' = EFI_SUCCESS /\ exited' = TRUE /\ pc' = onSuccess
     ELSE status' = EFI_INVALID_PARAMETER /\ UNCHANGED exited /\ pc' = "check"
  /\ UNCHANGED <<fwDescs, fwKey, events, size, key, bufCap, bufLive, bufKey>>

\* Loader.c 1171-1203, 1200: ExitBootServices(ImageHandle, MemMapKey);
\* after the first one EFI_INVALID_PARAMETER leads to the retry and
\* EFI_SUCCESS to the final test.
Exit(here, onFail, onSuccess) ==
  /\ pc = here
  /\ IF key = fwKey
     THEN status' = EFI_SUCCESS /\ exited' = TRUE /\ pc' = onSuccess
     ELSE status' = EFI_INVALID_PARAMETER /\ UNCHANGED exited /\ pc' = onFail
  /\ UNCHANGED <<fwDescs, fwKey, events, size, key, bufCap, bufLive, bufKey>>

\* Plausible fault: MemMapSize not reset before the retry's GetMemoryMap.
FreeForRetryKeepSize ==
  /\ pc = "retry"
  /\ PoolMapEffect({d \in {-1, 0} : fwDescs + d > 0})
  /\ bufLive' = FALSE
  /\ pc' = "query2"
  /\ UNCHANGED <<exited, events, status, size, key, bufCap, bufKey>>

\* Loader.c 1173-1187: after the first exit failed, FreePool(MemMap) (an
\* error is printed and ignored) and MemMapSize = 0.  A free may hand
\* pages back and shrink the map.
FreeForRetry ==
  /\ pc = "retry"
  /\ PoolMapEffect({d \in {-1, 0} : fwDescs + d > 0})
  /\ bufLive' = FALSE
  /\ size' = 0
  /\ pc' = "query2"
  /\ UNCHANGED <<exited, events, status, key, bufCap, bufKey>>

\* Loader.c 1206-1218: a failed exit frees MemMap and returns; otherwise
\* Loader.c 1273-1317 store MemMap and MemMapSize in the loader block and
\* jump to the kernel's entry point.
Handoff ==
  /\ pc = "check"
  /\ IF status = EFI_INVALID_PARAMETER
     THEN /\ pc' = "failed"
          /\ bufLive' = FALSE
          /\ PoolMapEffect({0})
     ELSE /\ pc' = "kernel"
          /\ UNCHANGED <<bufLive, fwDescs, fwKey>>
  /\ UNCHANGED <<exited, events, status, size, key, bufCap, bufKey>>

\* Firmware code running on a timer changes the map while boot services
\* are still up.
FirmwareEvent ==
  /\ ~exited
  /\ events < MaxEvents
  /\ \E d \in {0, 1} : MapChange(d)
  /\ events' = events + 1
  /\ UNCHANGED <<exited, loaderVars>>

LoaderStep ==
  \/ QuerySize("query1", "alloc1", "exit1")
  \/ AllocMap("alloc1", "fill1")
  \/ FillMap("fill1", "exit1")
  \/ Exit("exit1", "retry", "check")
  \/ FreeForRetry
  \/ QuerySize("query2", "alloc2", "exit2")
  \/ AllocMap("alloc2", "fill2")
  \/ FillMap("fill2", "exit2")
  \/ Exit("exit2", "check", "check")
  \/ Handoff

\* Loader.c 1138-1140: MemMapSize = 0, MemMap = NULL, MemMapKey
\* uninitialised.
Init ==
  /\ fwDescs \in InitDescs
  /\ fwKey = 0
  /\ exited = FALSE
  /\ events = 0
  /\ pc = "query1"
  /\ status = EFI_SUCCESS
  /\ size = 0
  /\ key \in GarbageKeys
  /\ bufCap = 0
  /\ bufLive = FALSE
  /\ bufKey = NoMap

\* The loader runs until it jumps to the kernel or returns an error; it
\* is the only code running, so it never stalls while a step of it is
\* enabled.  The firmware's asynchronous changes may or may not happen.
Next == LoaderStep \/ FirmwareEvent

Spec == Init /\ [][Next]_vars /\ WF_vars(LoaderStep)

-----------------------------------------------------------------------------
(* Properties *)

\* The kernel is entered only after ExitBootServices succeeded, with a
\* live MemMap that GetMemoryMap filled with the very map whose key the
\* exit accepted, and a MemMapSize that fits that buffer.
KernelGetsExitMap ==
  pc = "kernel" =>
    /\ exited
    /\ bufLive
    /\ bufKey = fwKey
    /\ size <= bufCap

\* The loader has jumped to the kernel, or returned because an
\* AllocatePool found no memory.
Booted == pc = "kernel" \/ (pc = "failed" /\ status = EFI_OUT_OF_RESOURCES)

\* The GetMemoryMap / AllocatePool / GetMemoryMap / ExitBootServices
\* sequence with its one retry eventually reaches the kernel, unless an
\* AllocatePool fails for want of memory.
EventuallyBoots == <>Booted

=============================================================================
