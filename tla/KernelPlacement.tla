--------------------------- MODULE KernelPlacement ---------------------------
(***************************************************************************)
(* Placement of the ELF kernel in GoTime (src/JosPkg/Application/Loader/  *)
(* Loader.c 614-1015): AllocatePages(AllocateAddress) at 0x100000, zero   *)
(* the pages, and when they do not read back as zero ("buggy firmware")   *)
(* search bottom-up for free memory that does, first by descriptor        *)
(* (ActuallyFreeAddress) and then page by page (ActuallyFreeAddressByPage).*)
(* Then the sections are read to their p_pa and AllocatedMemory becomes    *)
(* KernelBaseAddress.  One action per loop iteration or straight block.   *)
(*                                                                         *)
(* Addresses are page numbers 0 .. NPages-1.  The firmware is the         *)
(* environment: a set of free (EfiConventionalMemory) pages, what each     *)
(* page holds, and the pages where writes do not stick.  ActuallyFree-     *)
(* Address, ActuallyFreeAddressByPage, VerifyZeroMem and compare are not  *)
(* defined in the repository; they are modelled from their use: the next *)
(* suitable address strictly above the argument, or ~0 when there is none;*)
(* "some byte is non-zero"; "the region starts with ELFMAG".              *)
(***************************************************************************)
EXTENDS Integers, FiniteSetsExt

CONSTANTS
  NPages,      \* pages the firmware describes
  KPages,      \* pages = EFI_SIZE_TO_PAGES(virt_size - virt_min) (614)
  Default,     \* 0x100000, the first AllocatedMemory (620)
  LinkBase,    \* p_pa of the image, where the sections are read (947)
  DescBounds,  \* pages at which a firmware descriptor begins
  InitFree,    \* possible sets of free pages at the start
  AllOnes      \* ~0ULL (model value)

Page == 0 .. NPages - 1

ASSUME KPages \in Nat \ {0} /\ {Default, LinkBase} \subseteq Page
ASSUME DescBounds \subseteq Page /\ InitFree \subseteq SUBSET Page

EFI_SUCCESS == "EFI_SUCCESS"
EFI_NOT_FOUND == "EFI_NOT_FOUND"
EFI_OUT_OF_RESOURCES == "EFI_OUT_OF_RESOURCES"

VARIABLES
  \* firmware and memory
  free,      \* pages the firmware map lists as EfiConventionalMemory
  content,   \* what a page holds: "zero", "elf" (ELFMAG at its start), "junk"
  stuck,     \* pages whose contents ZeroMem cannot change
  held,      \* pages the loader has allocated and not freed
  \* GoTime's locals
  pc,
  status,              \* GoTimeStatus
  AllocatedMemory,
  NewAddress,
  OldAllocatedMemory

placeVars == <<free, content, stuck, held, pc, status, AllocatedMemory,
               NewAddress, OldAllocatedMemory>>

Span(a) == a .. a + KPages - 1

(* The firmware services and the helpers, as the loader uses them. *)

\* gBS->AllocatePages(AllocateAddress, EfiLoaderData, pages, &a).
AllocAt(a) ==
  IF a # AllOnes /\ Span(a) \subseteq free
  THEN /\ status' = EFI_SUCCESS
       /\ free' = free \ Span(a)
       /\ held' = held \cup Span(a)
  ELSE /\ status' = EFI_NOT_FOUND
       /\ UNCHANGED <<free, held>>

\* gBS->FreePages(a, pages) of pages the loader holds; it succeeds.
FreeAt(a) ==
  /\ free' = free \cup Span(a)
  /\ held' = held \ Span(a)

\* The least of S above a, or ~0.
NextAbove(a, S) ==
  IF a = AllOnes THEN AllOnes
  ELSE LET c == {b \in S : b > a} IN IF c = {} THEN AllOnes ELSE Min(c)

\* A conventional descriptor begins at b and holds the pages.
DescFits(b) ==
  /\ Span(b) \subseteq free
  /\ b \in DescBounds \/ b - 1 \notin free
  /\ \A p \in Span(b) \ {b} : p \notin DescBounds

ActuallyFreeAddress(a) == NextAbove(a, {b \in Page : DescFits(b)})

ActuallyFreeAddressByPage(a) ==
  NextAbove(a, {b \in Page : Span(b) \subseteq free})

\* ActuallyFreeAddressByPage when byPage, ActuallyFreeAddress otherwise.
FindFree(byPage, a) ==
  IF byPage THEN ActuallyFreeAddressByPage(a) ELSE ActuallyFreeAddress(a)

\* The next candidate, skipping the known bad address once (703-709).
Candidate(byPage, a) ==
  LET c == FindFree(byPage, a)
  IN IF c = OldAllocatedMemory THEN FindFree(byPage, c) ELSE c

\* VerifyZeroMem(pages << EFI_PAGE_SHIFT, a): TRUE when a byte is non-zero.
VerifyZeroMem(a) == \E p \in Span(a) : content[p] # "zero"

\* compare(a, ELFMAG, SELFMAG): remains of an earlier load.
compare(a) == content[a] = "elf"

(* The loader. *)

\* Loader.c 620-631: AllocatePages at 0x100000; on error GoTime returns.
AllocDefault ==
  /\ pc = "alloc"
  /\ AllocAt(Default)
  /\ AllocatedMemory' = Default
  /\ pc' = IF status' = EFI_SUCCESS THEN "zero" ELSE "failed"
  /\ UNCHANGED <<content, stuck, NewAddress, OldAllocatedMemory>>

\* Loader.c 643-674: ZeroMem, then VerifyZeroMem; zero pages, or the
\* remains of an earlier load, are kept.
ZeroAndVerify ==
  /\ pc = "zero"
  /\ LET zeroed == [p \in Page |->
                      IF p \in Span(AllocatedMemory) \ stuck THEN "zero"
                      ELSE content[p]]
     IN /\ content' = zeroed
        /\ pc' = IF \E p \in Span(AllocatedMemory) : zeroed[p] # "zero"
                    /\ zeroed[AllocatedMemory] # "elf"
                 THEN "relocate" ELSE "loaded"
  /\ UNCHANGED <<free, stuck, held, status, AllocatedMemory, NewAddress,
                 OldAllocatedMemory>>

\* Loader.c 682-694: FreePages(AllocatedMemory) (its error return is
\* unreachable), NewAddress = 0, OldAllocatedMemory = AllocatedMemory.
Relocate ==
  /\ pc = "relocate"
  /\ FreeAt(AllocatedMemory)
  /\ NewAddress' = 0
  /\ OldAllocatedMemory' = AllocatedMemory
  /\ pc' = "probe0"
  /\ UNCHANGED <<content, stuck, status, AllocatedMemory>>

\* Loader.c 696: AllocatePages at 0.
ProbeZero ==
  /\ pc = "probe0"
  /\ AllocAt(0)
  /\ pc' = "search1"
  /\ UNCHANGED <<content, stuck, AllocatedMemory, NewAddress,
                 OldAllocatedMemory>>

\* Loader.c 697-730 and 822-850: while the last AllocatePages failed,
\* take the next candidate above NewAddress; ~0 makes GoTime return
\* (722, 846); otherwise AllocatePages there.  On success the loop ends
\* and AllocatedMemory = NewAddress (733, 852).  The EFI_ERROR branch
\* (712, 836) is unreachable: AllocatePages at an address reports
\* EFI_SUCCESS or EFI_NOT_FOUND.
Search(here, byPage, next) ==
  /\ pc = here
  /\ IF status = EFI_SUCCESS
     THEN /\ AllocatedMemory' = NewAddress
          /\ pc' = next
          /\ UNCHANGED <<free, held, status, NewAddress>>
     ELSE LET a == Candidate(byPage, NewAddress)
          IN /\ NewAddress' = a
             /\ IF a = AllOnes
                THEN pc' = "failed" /\ UNCHANGED <<free, held, status>>
                ELSE AllocAt(a) /\ pc' = here
             /\ UNCHANGED AllocatedMemory
  /\ UNCHANGED <<content, stuck, OldAllocatedMemory>>

\* Plausible fault: a rejected allocation is not freed before the search.
Verify1NoFree ==
  /\ pc = "verify1"
  /\ IF NewAddress # AllOnes /\ VerifyZeroMem(AllocatedMemory)
     THEN IF compare(AllocatedMemory)
          THEN pc' = "loaded" /\ UNCHANGED <<free, held, status, NewAddress>>
          ELSE /\ status' = EFI_NOT_FOUND
               /\ pc' = "search2"
               /\ UNCHANGED <<free, held, NewAddress>>
     ELSE IF AllocatedMemory = AllOnes
          THEN /\ NewAddress' = ActuallyFreeAddress(0)
               /\ status' = EFI_NOT_FOUND
               /\ pc' = "search3"
               /\ UNCHANGED <<free, held>>
          ELSE pc' = "loaded" /\ UNCHANGED <<free, held, status, NewAddress>>
  /\ UNCHANGED <<content, stuck, AllocatedMemory, OldAllocatedMemory>>

\* Loader.c 736-762 and 802-819: while NewAddress is not ~0 and the pages
\* at AllocatedMemory are not all zero: keep them if they hold an earlier
\* load (747), otherwise FreePages and search again from NewAddress.
\* When the loop ends with AllocatedMemory = ~0 the page-by-page search
\* starts at ActuallyFreeAddress(pages, 0) (819-821).
Verify1 ==
  /\ pc = "verify1"
  /\ IF NewAddress # AllOnes /\ VerifyZeroMem(AllocatedMemory)
     THEN IF compare(AllocatedMemory)
          THEN pc' = "loaded" /\ UNCHANGED <<free, held, status, NewAddress>>
          ELSE /\ FreeAt(AllocatedMemory)
               /\ status' = EFI_NOT_FOUND
               /\ pc' = "search2"
               /\ UNCHANGED NewAddress
     ELSE IF AllocatedMemory = AllOnes
          THEN /\ NewAddress' = ActuallyFreeAddress(0)
               /\ status' = EFI_NOT_FOUND
               /\ pc' = "search3"
               /\ UNCHANGED <<free, held>>
          ELSE pc' = "loaded" /\ UNCHANGED <<free, held, status, NewAddress>>
  /\ UNCHANGED <<content, stuck, AllocatedMemory, OldAllocatedMemory>>

\* Loader.c 766-794: while AllocatePages failed and NewAddress is not ~0,
\* take the next candidate and AllocatePages there, with no test for ~0
\* before the call; then AllocatedMemory = NewAddress.
Search2 ==
  /\ pc = "search2"
  /\ IF status # EFI_SUCCESS /\ NewAddress # AllOnes
     THEN LET a == Candidate(FALSE, NewAddress)
          IN /\ NewAddress' = a
             /\ AllocAt(a)
             /\ UNCHANGED <<AllocatedMemory, pc>>
     ELSE /\ AllocatedMemory' = NewAddress
          /\ pc' = "verify1"
          /\ UNCHANGED <<free, held, status, NewAddress>>
  /\ UNCHANGED <<content, stuck, OldAllocatedMemory>>

\* Loader.c 854-879: while the pages at AllocatedMemory are not all zero:
\* keep an earlier load (864), otherwise FreePages and search again.
Verify3 ==
  /\ pc = "verify3"
  /\ IF VerifyZeroMem(AllocatedMemory)
     THEN IF compare(AllocatedMemory)
          THEN pc' = "loaded" /\ UNCHANGED <<free, held, status>>
          ELSE /\ FreeAt(AllocatedMemory)
               /\ status' = EFI_NOT_FOUND
               /\ pc' = "search4"
     ELSE pc' = "loaded" /\ UNCHANGED <<free, held, status>>
  /\ UNCHANGED <<content, stuck, AllocatedMemory, NewAddress,
                 OldAllocatedMemory>>

\* Loader.c 882-911: the page-by-page retry; GoTime returns when
\* AllocatedMemory (not NewAddress) is ~0 (902), otherwise AllocatePages
\* at the candidate; then AllocatedMemory = NewAddress.
Search4 ==
  /\ pc = "search4"
  /\ IF status # EFI_SUCCESS
     THEN LET a == Candidate(TRUE, NewAddress)
          IN /\ NewAddress' = a
             /\ IF AllocatedMemory = AllOnes
                THEN pc' = "failed" /\ UNCHANGED <<free, held, status>>
                ELSE AllocAt(a) /\ UNCHANGED pc
             /\ UNCHANGED AllocatedMemory
     ELSE /\ AllocatedMemory' = NewAddress
          /\ pc' = "verify3"
          /\ UNCHANGED <<free, held, status, NewAddress>>
  /\ UNCHANGED <<content, stuck, OldAllocatedMemory>>

\* Loader.c 943-1015: read every PT_LOAD section to its p_pa, then
\* KernelBaseAddress = AllocatedMemory.
LoadSections ==
  /\ pc = "loaded"
  /\ content' = [p \in Page |-> IF p \in Span(LinkBase) THEN "kernel"
                                ELSE content[p]]
  /\ pc' = "done"
  /\ UNCHANGED <<free, stuck, held, status, AllocatedMemory, NewAddress,
                 OldAllocatedMemory>>

PlaceStep ==
  \/ AllocDefault
  \/ ZeroAndVerify
  \/ Relocate
  \/ ProbeZero
  \/ Search("search1", FALSE, "verify1")
  \/ Verify1
  \/ Search2
  \/ Search("search3", TRUE, "verify3")
  \/ Verify3
  \/ Search4
  \/ LoadSections

\* Loader.c 620: AllocatedMemory = 0x100000.  Reserved pages hold
\* anything; only free pages are ever examined.
PlaceInit ==
  /\ free \in InitFree
  /\ content \in {c \in [Page -> {"zero", "elf", "junk"}] :
                    \A p \in Page \ free : c[p] = "junk"}
  /\ stuck \in SUBSET Span(Default)
  /\ held = {}
  /\ pc = "alloc"
  /\ status = EFI_SUCCESS
  /\ AllocatedMemory = Default
  /\ NewAddress = 0
  /\ OldAllocatedMemory = 0

\* GoTime is the only code running: it never stalls while it can step.
Spec == PlaceInit /\ [][PlaceStep]_placeVars /\ WF_placeVars(PlaceStep)

-----------------------------------------------------------------------------
(* Properties *)

\* Across every retry of the search, the loader ends up holding exactly
\* the pages at AllocatedMemory when it goes on to load the kernel, and
\* nothing when GoTime returns: every page it allocated and rejected was
\* freed again (682, 757, 874).
HeldIsKernelRegion ==
  /\ pc \in {"loaded", "done"} => held = Span(AllocatedMemory)
  /\ pc = "failed" => held = {}

\* The sections are read into pages the loader holds: the image written
\* at p_pa lies in the allocation that becomes KernelBaseAddress.
ImageInHeldPages ==
  pc = "done" => Span(LinkBase) \subseteq held

\* The placement ends: the kernel is loaded or GoTime returns an error.
EventuallyPlaced == <>(pc \in {"done", "failed"})

=============================================================================
