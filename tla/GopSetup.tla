------------------------------ MODULE GopSetup ------------------------------
(***************************************************************************)
(* InitUEFI_GOP (src/JosPkg/Application/Loader/Graphics.c 102-1160): find *)
(* the GOP devices, walk the naming search for each, then either set mode *)
(* 0 on every GPU (several GPUs) or let the user pick a mode of the only  *)
(* GPU from a menu, and record each GPU's mode in Graphics->GPUArray.     *)
(*                                                                         *)
(* The naming search only computes names that nothing reads (the code    *)
(* that stored them is commented out), so each device's search is one    *)
(* step whose only effect is a possible error return.  Keystrokes reach   *)
(* ConIn's buffer at any time; the user is an environment action.         *)
(***************************************************************************)
EXTENDS Integers, Sequences, FiniteSets

CONSTANTS
  Configs,     \* what LocateHandleBuffer finds: a sequence of MaxMode, one per GPU
  KeyCodes,    \* UnicodeChar of a keystroke (0 for a key with only a scan code)
  MaxPresses   \* keystrokes the user makes in one behaviour

GPU_MENU_TIMEOUT_SECONDS == 90
ZERO == 48   \* 0x30, L'0'

VARIABLES
  pc,                    \* the statement InitUEFI_GOP executes next
  gpus,                  \* the GPUs found
  fwMode,                \* GOPTable->Mode->Mode of each GPU (firmware state)
  DevNum,
  NumberOfFrameBuffers,
  GPUArray,              \* Graphics->GPUArray: index -> stored mode record
  mode,
  Key,                   \* Key.UnicodeChar
  keybuf,                \* keystrokes in ConIn's buffer, oldest first
  presses,               \* keystrokes made so far
  read                   \* history: the keys ReadKeyStroke returned, in order

vars == <<pc, gpus, fwMode, DevNum, NumberOfFrameBuffers, GPUArray, mode, Key,
          keybuf, presses, read>>
gop == <<pc, gpus, fwMode, DevNum, NumberOfFrameBuffers, GPUArray, mode, Key, read>>

NumGpus == Len(gpus)
MaxMode(d) == gpus[d + 1]

\* GOPTable->Mode->Info of mode m of GPU d (what QueryMode reports for it).
Info(d, m) == <<d, m>>

\* A GPUArray entry as 1101-1108 fill it from GOPTable->Mode in mode m.
Stored(d, m) == [MaxMode |-> MaxMode(d), Mode |-> m, Info |-> Info(d, m)]

\* Pool that AllocatePool handed out and nothing wrote yet.
Junk == [MaxMode |-> 0, Mode |-> 0, Info |-> <<>>]

\* 150-214: LocateHandleBuffer for GOP, ComponentName2 and DevicePath
\* handles; an error from any of them returns.
LocateHandles ==
  /\ pc = "locate"
  /\ pc' \in {"name", "failed"}
  /\ DevNum' = 0
  /\ UNCHANGED <<gpus, fwMode, NumberOfFrameBuffers, GPUArray, mode, Key, read>>

\* The naming loop run with DevNum <= NumHandlesInHandleBuffer.
NameGpuPastEnd ==
  /\ pc = "name"
  /\ DevNum <= NumGpus
  /\ \/ pc' = "failed" /\ UNCHANGED DevNum
     \/ DevNum' = DevNum + 1 /\ UNCHANGED pc
  /\ UNCHANGED <<gpus, fwMode, NumberOfFrameBuffers, GPUArray, mode, Key, read>>

\* 227-803: one pass of the naming loop.  Every name it finds is only
\* displayed in debug builds; the OpenProtocol and CloseProtocol errors
\* of the search return.
NameGpu ==
  /\ pc = "name"
  /\ DevNum < NumGpus
  /\ \/ pc' = "failed" /\ UNCHANGED DevNum
     \/ DevNum' = DevNum + 1 /\ UNCHANGED pc
  /\ UNCHANGED <<gpus, fwMode, NumberOfFrameBuffers, GPUArray, mode, Key, read>>

\* 805-849 and 922-938: the naming handles are freed, NumberOfFrameBuffers
\* is set, and GPUArray is allocated; on error it returns.
SetupFrameBuffers ==
  /\ pc = "name"
  /\ DevNum = NumGpus
  /\ NumberOfFrameBuffers' = IF NumGpus > 1 THEN NumGpus ELSE 1
  /\ \/ pc' = "failed" /\ UNCHANGED GPUArray
     \/ /\ GPUArray' = [d \in 0..NumberOfFrameBuffers' - 1 |-> Junk]
        /\ pc' = IF NumGpus > 1 THEN "multi" ELSE "single"
  /\ DevNum' = 0
  /\ UNCHANGED <<gpus, fwMode, mode, Key, read>>

\* GOPTable->SetMode(GOPTable, m): the firmware rejects a mode the GPU
\* does not have (EFI_UNSUPPORTED) and may fail with EFI_DEVICE_ERROR.
SetModeOk(d, m) ==
  /\ m < MaxMode(d)
  /\ fwMode' = [fwMode EXCEPT ![d] = m]

\* 852-921: each GPU of several is opened, set to mode 0, and its mode
\* info allocated and stored; SetMode and AllocatePool errors return.
ConfigureGpu ==
  /\ pc = "multi"
  /\ mode' = 0
  /\ \/ pc' = "failed" /\ UNCHANGED <<fwMode, GPUArray, DevNum>>
     \/ /\ SetModeOk(DevNum, 0)
        /\ pc' = "failed"
        /\ UNCHANGED <<GPUArray, DevNum>>
     \/ /\ SetModeOk(DevNum, 0)
        /\ GPUArray' = [GPUArray EXCEPT ![DevNum] = Stored(DevNum, fwMode'[DevNum])]
        /\ DevNum' = DevNum + 1
        /\ pc' = IF DevNum + 1 = NumGpus THEN "free" ELSE "multi"
  /\ UNCHANGED <<gpus, NumberOfFrameBuffers, Key, read>>

\* 940-1006: the only GPU is opened; with one mode it is mode 0, with more
\* the menu loop starts.
OpenGpu ==
  /\ pc = "single"
  /\ IF MaxMode(0) = 1 THEN pc' = "set" /\ mode' = 0 ELSE pc' = "menu" /\ UNCHANGED mode
  /\ UNCHANGED <<gpus, fwMode, DevNum, NumberOfFrameBuffers, GPUArray, Key, read>>

\* The menu test one key too wide or too narrow.
ValidKeyWide(k) == ZERO <= k /\ k <= ZERO + MaxMode(0)
ValidKeyNarrow(k) == ZERO <= k /\ k < ZERO + MaxMode(0) - 1

\* 1008: the menu loop runs while Key.UnicodeChar is not '0'..'0'+MaxMode-1.
ValidKey(k) == ZERO <= k /\ k <= ZERO + MaxMode(0) - 1

\* 1010-1034: the menu lists every mode through QueryMode (an error
\* returns); the loop leaves mode at MaxMode.
ShowMenu ==
  /\ pc = "menu"
  /\ ~ValidKey(Key)
  /\ \/ pc' = "failed" /\ UNCHANGED mode
     \/ pc' = "wait" /\ mode' = MaxMode(0)
  /\ UNCHANGED <<gpus, fwMode, DevNum, NumberOfFrameBuffers, GPUArray, Key, read>>

\* 1036-1057: while(timeout_seconds), WaitForEvent(WaitForKey) blocks until
\* a keystroke is buffered, ReadKeyStroke takes it (an error returns) and
\* the loop breaks.  The decrement at 1056 is never reached, so
\* timeout_seconds keeps its value and the default at 1059-1064 is dead.
ReadKey ==
  /\ pc = "wait"
  /\ GPU_MENU_TIMEOUT_SECONDS # 0
  /\ keybuf # <<>>
  /\ keybuf' = Tail(keybuf)
  /\ \/ pc' = "failed" /\ UNCHANGED <<Key, read>>
     \/ /\ Key' = Head(keybuf)
        /\ read' = Append(read, Head(keybuf))
        /\ pc' = "menu"
  /\ UNCHANGED <<gpus, fwMode, DevNum, NumberOfFrameBuffers, GPUArray, mode, presses>>

\* The key read as a 1-based mode number.
ChooseOneBased ==
  /\ pc = "menu"
  /\ ValidKey(Key)
  /\ mode' = Key - ZERO - 1
  /\ Key' = 0
  /\ pc' = "set"
  /\ UNCHANGED <<gpus, fwMode, DevNum, NumberOfFrameBuffers, GPUArray, read>>

\* 1067-1071: the loop ended on a valid key: mode = Key - '0', Key reset.
Choose ==
  /\ pc = "menu"
  /\ ValidKey(Key)
  /\ mode' = IF GPU_MENU_TIMEOUT_SECONDS # 0 THEN Key - ZERO ELSE mode
  /\ Key' = 0
  /\ pc' = "set"
  /\ UNCHANGED <<gpus, fwMode, DevNum, NumberOfFrameBuffers, GPUArray, read>>

\* 1076-1083: SetMode on the only GPU; an error returns.
SetMode ==
  /\ pc = "set"
  /\ \/ pc' = "failed" /\ UNCHANGED fwMode
     \/ SetModeOk(0, mode) /\ pc' = "info"
  /\ UNCHANGED <<gpus, DevNum, NumberOfFrameBuffers, GPUArray, mode, Key, read>>

\* 1089-1108: the mode info is allocated (an error returns) and the
\* entry filled from GOPTable->Mode.
StoreMode ==
  /\ pc = "info"
  /\ \/ pc' = "failed" /\ UNCHANGED GPUArray
     \/ pc' = "free" /\ GPUArray' = [GPUArray EXCEPT ![0] = Stored(0, fwMode[0])]
  /\ UNCHANGED <<gpus, fwMode, DevNum, NumberOfFrameBuffers, mode, Key, read>>

\* 1137-1160: GraphicsHandles is freed and the status returned.
FreeHandles ==
  /\ pc = "free"
  /\ pc' = "done"
  /\ UNCHANGED <<gpus, fwMode, DevNum, NumberOfFrameBuffers, GPUArray, mode, Key, read>>

\* The user types a key; ConIn buffers it until ReadKeyStroke.
Press ==
  /\ presses < MaxPresses
  /\ \E k \in KeyCodes : keybuf' = Append(keybuf, k)
  /\ presses' = presses + 1
  /\ UNCHANGED gop

\* 104-117: NumberOfFrameBuffers = 0, Key.UnicodeChar = 0; the firmware's
\* current mode of each GPU is any of its modes.
Init ==
  /\ gpus \in Configs
  /\ fwMode \in [0..Len(gpus) - 1 -> 0..9]
  /\ \A d \in 0..Len(gpus) - 1 : fwMode[d] < gpus[d + 1]
  /\ pc = "locate"
  /\ DevNum = 0 /\ NumberOfFrameBuffers = 0 /\ GPUArray = <<>>
  /\ mode = 0 /\ Key = 0
  /\ keybuf = <<>> /\ presses = 0 /\ read = <<>>

GopStep ==
  \/ LocateHandles /\ UNCHANGED <<keybuf, presses>>
  \/ NameGpu /\ UNCHANGED <<keybuf, presses>>
  \/ SetupFrameBuffers /\ UNCHANGED <<keybuf, presses>>
  \/ ConfigureGpu /\ UNCHANGED <<keybuf, presses>>
  \/ OpenGpu /\ UNCHANGED <<keybuf, presses>>
  \/ ShowMenu /\ UNCHANGED <<keybuf, presses>>
  \/ ReadKey
  \/ Choose /\ UNCHANGED <<keybuf, presses>>
  \/ SetMode /\ UNCHANGED <<keybuf, presses>>
  \/ StoreMode /\ UNCHANGED <<keybuf, presses>>
  \/ FreeHandles /\ UNCHANGED <<keybuf, presses>>

Next == GopStep \/ Press

\* InitUEFI_GOP is the only code running and never yields except in
\* WaitForEvent; the user gets no fairness (nobody need press a key).
Spec == Init /\ [][Next]_vars /\ WF_vars(GopStep)

-----------------------------------------------------------------------------
(* Properties *)

Entry == [MaxMode : 0..10, Mode : 0..10, Info : {<<>>} \cup ((0..3) \X (0..10))]

TypeOK ==
  /\ pc \in {"locate", "name", "multi", "single", "menu", "wait", "set", "info",
            "free", "done", "failed"}
  /\ DevNum \in 0..NumGpus
  /\ NumberOfFrameBuffers \in 0..NumGpus
  /\ GPUArray \in [DOMAIN GPUArray -> Entry]
  /\ Key \in {0} \cup KeyCodes
  /\ keybuf \in Seq(KeyCodes) /\ Len(keybuf) <= MaxPresses
  /\ presses \in 0..MaxPresses

\* The mode a keystroke names on the menu of the only GPU, if any.
Names(k) == k - ZERO \in 0..MaxMode(0) - 1

\* InitUEFI_GOP never calls SetMode on the only GPU with a mode that GPU
\* does not have: the key test of the menu loop (1008) and the conversion
\* after it (1069) agree.
SetModeArgumentValid == pc = "set" => mode \in 0..MaxMode(0) - 1

\* When InitUEFI_GOP succeeds, GPUArray holds one entry per GPU, each the
\* GPU's current mode and that mode's info; several GPUs are all in mode
\* 0; a GPU with a menu is in the mode named by the last key read, and
\* every key read before it named no mode.
FrameBuffersMatchChoice ==
  pc = "done" =>
    /\ NumberOfFrameBuffers = NumGpus
    /\ \A d \in 0..NumGpus - 1 : GPUArray[d] = Stored(d, fwMode[d])
    /\ NumGpus > 1 \/ MaxMode(0) = 1 => \A d \in 0..NumGpus - 1 : fwMode[d] = 0
    /\ NumGpus = 1 /\ MaxMode(0) > 1 =>
         /\ read # <<>>
         /\ fwMode[0] = read[Len(read)] - ZERO
         /\ \A i \in 1..Len(read) - 1 : ~Names(read[i])

\* Once ConIn holds a key that names a mode while the menu waits, the
\* menu ends: InitUEFI_GOP returns, with that mode or with an error.
KeyEndsMenu ==
  (pc = "wait" /\ \E i \in 1..Len(keybuf) : Names(keybuf[i]))
    ~> pc \in {"done", "failed"}

\* The menu ends by itself, as its prompt at 1038 ("Defaulting to mode %c
\* in %llu...") and the comment at 927 promise: InitUEFI_GOP returns even
\* when nobody presses a key.
MenuTimesOut == <>(pc \in {"done", "failed"})

=============================================================================
