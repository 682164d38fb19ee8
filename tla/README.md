# TLA+ models of the UEFI memory-map handoff

These modules model two programs and the map that passes between them:
- **The loader** (`src/JosPkg/Application/Loader/Loader.c`, `GoTime`) places the ELF kernel in physical memory, fetches the firmware memory map, calls `ExitBootServices` with the map's key, and jumps to the kernel.
- **The kernel** (`src/kern/uefi.c`) rebuilds a page-granular map from the firmware map in `init_memory_map`. `AllocatePages` and `FreePages` then allocate from it, and `PrintMemoryMap` reports it. `i386_init` (`src/kern/init.c`) clears BSS and enters the monitor (`src/kern/monitor.c`), whose commands include `PrintMemoryMap`; `_panic` also ends in the monitor.

A third part, the loader's print library (`print.c`), is modelled on its own: nothing in the build calls it yet (its callers in `Graphics.c` are commented out), but it is the loader's only formatting code.

A fourth, the loader's graphics setup (`Graphics.c`, `InitUEFI_GOP`), runs before GoTime and fills the `GPU_CONFIG` GoTime hands to the kernel; its model covers the GPU discovery, the mode menu and the recorded modes.

Everything is checked with TLC.

## 1. Inventory

| Part | Code | State | Operations | Modules |
|---|---|---|---|---|
| Memory descriptor model | `src/inc/uefi.h` 11-43, `uefi.c` 6-32 | `EFI_MEMORY_DESCRIPTOR` | none | `EfiTypes` |
| Map importer | `uefi.c` 50-129 | `AVAIBLE_MEMORY`, `MEMORY_MAP_SIZE`, `MEMORY_MAP_ADDR`, the map buffer | `init_memory_map` (once) | `MapImporter` |
| Page allocator | `uefi.c` 215-399 | the map, in place | `AllocatePages` (AnyPages, MaxAddress, Address), `FreePages` | `PageAllocator`, `AbstractPages` |
| Kernel memory map | `uefi.c`, `uefi_f.h` | both of the above | import, then any calls | `MemoryMap` |
| Introspection | `uefi.c` 131-187, `monitor.c` 49-54 | none (reads the map) | `PrintMemoryMap` | `MapReport`, `MemoryMap`, `Kernel` |
| Kernel init and monitor | `init.c` 24-104, `monitor.c` 19-171, `uefi.c` 134, 190-207 | UEFI_LP, panicstr, runcmd's argv | BSS clear, monitor start, one command line, `_panic` | `KernelMonitor`, `Kernel` |
| Loader kernel placement | `Loader.c` 614-1015 | AllocatedMemory, NewAddress, OldAllocatedMemory; the firmware's free pages | AllocateAddress at 0x100000, ZeroMem, zero check, two searches, section reads | `KernelPlacement` |
| Loader exit sequence | `Loader.c` 1075-1219, 1276-1316 | MemMap, MemMapSize, MemMapKey; the firmware map's size and key | AllocatePool (LOADER_PARAMS), GetMemoryMap, AllocatePool, ExitBootServices, one retry, jump | `LoaderExit`, `LoaderBoot` |
| Print library | `print.c` 168-659, 813-1094 | `POOL_PRINT` (str, len, maxlen), `PRINT_STATE` (format index, Buffer, Pos, Len), `PRINT_ITEM` | SPrint/VSPrint, PoolPrint/VPoolPrint, CatPrint; inside them `_Print`, PITEM, PPUTC, PFLUSH, `_SPrint`, `_PoolPrint`, ValueToHex, ValueToString | `PrintEngine` |
| Loader configuration parse | `Loader.c` 254-391 | KernelcmdArray, FirstLineLength, KernelPathLen, CmdlineLen, the KernelPath and Cmdline pools | BOM check, the two measuring loops, two AllocatePools, the two copies | `ConfigParse` |
| Graphics setup | `Graphics.c` 102-1160 | NumberOfFrameBuffers, GPUArray, mode, Key; each GPU's current mode; ConIn's key buffer | LocateHandleBuffer, the naming loop (one step per GPU), SetMode(0) per GPU, the key menu (QueryMode listing, WaitForEvent, ReadKeyStroke), SetMode, the GPUArray entry | `GopSetup` |
| Not modelled | `Graphics.c` 1-101 (LibMatchDevicePaths) and the naming searches inside 227-803, `print.c` FloatToString/TimeToString/DumpHex, `Loader.c` 32-253 and 392-613, the printing of `init.c` and `monitor.c` | firmware and console I/O | | see §6 |

**Concurrency.**
- The kernel code is single-threaded and every call is a bounded synchronous scan. The hard cases are orderings of calls and edge values.
- In the loader, the one source of interleaving is the firmware. Timer events may change the memory map, and with it the map key, between any two loader steps until `ExitBootServices` succeeds.

## 2. Modules

Each MC module EXTENDS its specification and fixes the constants for TLC.

1. **`EfiTypes`**: type codes, allocation types, statuses and descriptor records.
2. **`PageAllocator`** (+ `MCPageAllocator`): one action per call.
   - `AllocatePages(a_type, m_type, pages, mem, g)` is the whole call: the argument checks (218-227), then the scan. `AnyScan` (248-277) and `MaxScan` (285-314) are RECURSIVE; `AddressScan` covers 317-349.
   - `FreePages(mem, pages)` covers 358-399.
   - `map` is the buffer; `avail` is `AVAIBLE_MEMORY`. `last` records the last call, its result and the run it retagged. `overrun` records a write past the buffer.
   - `g` is what memory past the buffer holds. Reading it is undefined in C, so it is a nondeterministic choice.
3. **`AbstractPages`**: the allocator's contract. A call grants a free run that fits the strategy and retags exactly that run, releases the run at an address, or changes nothing. `PageAllocator` refines it through `Abs == INSTANCE AbstractPages`, checked as `PROPERTY AllocatorRefinesContract`.
4. **`MapImporter`** (+ `MCMapImporter`): `Import` is the whole of `init_memory_map`.
   - `PageAddr` is the closed form of the page counter and its hole jump (107, 121-122).
   - `PageType` is the tagging (113-118).
   - Buffer entries the loop never reaches are chosen from `Garbage`.
   - `mapAddr % AddrModulus` is the `uint32_t` cast.
5. **`MapReport`**: `PrintMemoryMap` as the RECURSIVE walk `ReportWalk`, with `tmp` and `num` as in the C loop. `ReferenceRuns` is an independent run-length coalescing, used as the reference.
6. **`MemoryMap`** (+ `MCMemoryMap`, which gives its constants) composes the importer and the allocator: `Import` once, then `PA!Step` on the same `map` and `avail`. `MR!Report(map)` is what the monitor would print in any state.
7. **`KernelPlacement`** (+ `MCKernelPlacement`): addresses are page numbers, and `~0ULL` is the model value `AllOnes`.
   - The firmware is the environment. `free` holds the pages that are `EfiConventionalMemory`. `content` is what each page holds: zero, ELF remains, or other data. `stuck` holds the pages where ZeroMem does not take effect, which is the "buggy firmware" the code works around.
   - `held` holds the pages the loader has allocated and not freed.
   - Actions:
     - `AllocDefault` covers 620-631.
     - `ZeroAndVerify` covers 643-674.
     - `Relocate` covers 682-694.
     - `ProbeZero` covers 696.
     - `Search(here, Find, next)` is one iteration of 697-730 or 822-850.
     - `Verify1` covers 736-762 and 802-821.
     - `Search2` covers 766-794.
     - `Verify3` covers 854-879.
     - `Search4` covers 882-911.
     - `LoadSections` covers 943-1015.
   - These helpers are not defined in the repository, so they are modelled from their use:
     - `ActuallyFreeAddress(a)` is the next conventional descriptor above `a` that holds the kernel, or ~0.
     - `ActuallyFreeAddressByPage(a)` is the next page above `a` that starts enough free pages, or ~0.
     - `VerifyZeroMem` is TRUE when a byte is non-zero.
     - `compare` tests for ELF magic.
8. **`LoaderExit`** (+ `MCLoaderExit`): the exit sequence.
   - The firmware follows the UEFI contract. GetMemoryMap fails with `EFI_BUFFER_TOO_SMALL` and reports the size when the buffer is smaller than the map; otherwise it fills the buffer and returns the key. The key changes whenever the map changes. ExitBootServices succeeds only with the current key.
   - A pool allocation may add `AllocGrowth` descriptors. `FirmwareEvent` is a timer event; there are at most `MaxEvents` of them.
   - Actions: `QuerySize`, `AllocMap`, `FillMap`, `Exit`, `FreeForRetry` and `Handoff`, each parameterised by its place in the two attempts.
   - The uninitialised `MemMapKey` (1138) is a choice from `GarbageKeys`.
9. **`LoaderBoot`** (+ `MCLoaderBoot`) composes the two loader parts in the order of `GoTime`:
   - first `KernelPlacement`;
   - then `AllocParams` (1075-1081);
   - then `EX!LoaderStep`, where `EX == INSTANCE LoaderExit WITH pc <- exitPc`.

   `GoTimeStatus` is the variable `status`, shared by both parts. The two firmware abstractions stay separate: placement sees pages, the exit sees the map's size and key.
10. **`PrintEngine`** (+ `MCPrintEngine`): one call of the print library, a `job` with its format, va_args, StrSize and starting POOL_PRINT.
   - Characters are one-letter strings, plus `CR`, `LF`, `NUL`; `JUNK` is memory nobody wrote. A format is a sequence of characters; `FmtChar` is PGETC.
   - `_Print`'s loops are actions: `Literal` (876-881), `Percent` (883-896), and, inside a directive, `Flag`, `Width` (925-944, the digit run read whole), `Attribute` ('n', 'h', 'e': PSETATTR's flush) and `Item`, which runs PITEM's arithmetic (`ItemText`) and queues the characters in `pending`. `Put` is one PPUTC, with the PFLUSH it makes at End; `Finish` is the final PFLUSH.
   - `PFLUSH(text, bad)` calls the Output callback: `SPrintOut` (`_SPrint`: truncation, copy, terminator) or `Grown` then `SPrintOut` (`_PoolPrint`). `ReallocatePool` may fail (`failed`); the pool it returns is zeroed, as EDK2's AllocateZeroPool does.
   - `overflow` records a write outside `ps->Buffer` or `spc->str`, or through a NULL `str`. `emitted` and `delivered` record what PPUTC was given and what reached Output.
   - The PRINT_STATE is zeroed by `_PoolCatPrint` on every path, so every attribute is 0: 'N', 'H', 'E' set `Attr` to 0 and the loop reads on, and the restore at 1086 never runs.
   - `ValueToHex` and `ValueToString` are RECURSIVE operators following the C loops (nibbles or digits low first, then the `ca[]` comma countdown); `InBase` and `Thousands` are place-value references.
11. **`ConfigParse`** (+ `MCConfigParse`): GoTime's parse of Kernel64.txt, once the file is in `KernelcmdArray` (`file`, a function from unit index to unit).
   - `CheckBOM` (268-292) ends GoTime unless unit 0 is the little-endian BOM.
   - `Measure` (298-345) is the two measuring loops: they have no side effects, so they are one action. `EndOfLine` is the loops' stop at '\r' or '\n'.
   - `AllocPath` and `AllocCmdline` (351-365) are the AllocatePools of `len + 1` units; each may fail and end GoTime. Fresh pool is `JUNK`.
   - `CopyPath` (367-379) stores each non-space unit `i` at `KernelPath[i-1]`, then the terminator at `KernelPathLen`; `wild` records a store outside the pool. `CopyCmdline` (381-391) copies the second line and terminates it.
12. **`GopSetup`** (+ `MCGopSetup`): `InitUEFI_GOP`.
   - `gpus` is what LocateHandleBuffer finds, a sequence of each GPU's MaxMode; `fwMode` is each GPU's `Mode->Mode`, the firmware state SetMode changes. `Info(d, m)` stands for mode m's `EFI_GRAPHICS_OUTPUT_MODE_INFORMATION`.
   - `LocateHandles` (150-214), `NameGpu` (227-803: the names it finds are only shown in debug builds, so a pass's one effect is a possible error return), `SetupFrameBuffers` (805-849, 922-938).
   - Several GPUs: `ConfigureGpu` (852-921) sets each to mode 0 and stores its entry.
   - One GPU: `OpenGpu` (940-1006), then, if it has several modes, the menu loop: `ShowMenu` (1008-1034) while `Key` names no mode, `ReadKey` (1036-1057), `Choose` (1067-1071: `mode = Key - '0'`). `SetMode` (1076-1083) and `StoreMode` (1089-1108) follow; `FreeHandles` (1137-1160) ends.
   - `Press` is the user: a keystroke enters ConIn's buffer at any time, at most `MaxPresses` of them. `read` is a history of the keys ReadKeyStroke returned.
   - Every firmware call the code checks may fail (LocateHandleBuffer, the naming search, AllocatePool, QueryMode, ReadKeyStroke, SetMode), and each failure returns. SetMode also rejects a mode the GPU lacks.
13. **`KernelMonitor`**: the kernel's own control. `kpc` is `entry`, `init` (after the memset) or `monitor`.
    - `ClearBss` is init.c 33-35: `panicstr` zeroed, `UEFI_LP` saved and restored.
    - `StartMonitor` is 37-68 and monitor.c 161-162; they only print.
    - `RunCmd` is one pass of the monitor loop (165-169) with the whole of `runcmd` (117-154). A line is a sequence of whitespace and word units. `Parse` is the RECURSIVE form of the loop 127-142; `Written` is the argv slots it stores to; `Lookup` is the strcmp search 148-152. lpinfo and PrintMemoryMap set `UEFI_LP` to `LP_pointer` (uefi.c 134, 192); every other command only prints.
    - `Panic(m)` is `_panic` (82-104). Its callers are outside `src/`, so it may come at any point after the memset. `panicstr` starts NULL: nothing reads it before the memset.
    - `Tokens(l)` is a declarative reference: the line's maximal runs of non-whitespace, in order.
14. **`Kernel`** (+ `MCKernel`) composes `MemoryMap` and `KernelMonitor`. Import and allocator calls happen only between the memset and the monitor (spec.md §2: early init). The monitor never returns and no command allocates, so the map is frozen once commands run. The monitor may start before any import, as `init.c` itself never calls `init_memory_map`. `ImportEarly` also sets `UEFI_LP` to `LP_pointer` (uefi.c 52). `AllocateEarly` does the same (231, 365) unless the call returned EFI_INVALID_PARAMETER, which only the argument checks before those stores return.

## 3. Runs

| Run | cfg | Expect | What it shows |
|---|---|---|---|
| allocator | `MCPageAllocator.cfg` | pass | All calls on 32 maps refine the contract. AnyPages and MaxAddress are exactly first-fit. |
| allocator_write_past_map | `MCPageAllocator_NoWritePastMap.cfg` | violation | FreePages at the last entry writes past the buffer (387-392). |
| importer | `MCMapImporter.cfg` | pass | On PC-layout maps, entry addresses match the firmware and the map's own pages are reserved. |
| importer_tail_retagged | `MCMapImporter_TailRetagged.cfg` | violation | Reserved pages past index `MEMORY_MAP_SIZE/SPAGES` become conventional (118). |
| kernel | `MCKernel.cfg` | pass | See below. |
| loader | `MCLoaderBoot.cfg` | pass | See below. |
| loader_split_growth | `MCLoaderExit_SplitGrowth.cfg` | violation | If the AllocatePool for MemMap adds a descriptor, the unchecked second GetMemoryMap leaves a stale key. Both exits fail, and the loader returns. |
| placement_image | `MCKernelPlacement_ImageInHeldPages.cfg` | violation | After the search moves AllocatedMemory, the sections are still read to their `p_pa`, into pages the loader freed (947). |
| placement_hang | `MCKernelPlacement_Hang.cfg` | violation | The page-by-page retry tests `AllocatedMemory == ~0` (902) instead of `NewAddress`, so it calls AllocatePages(~0) forever. |
| print | `MCPrintEngine.cfg` | pass | See below. |
| gop | `MCGopSetup.cfg` | pass | See below. |
| config_path_overflow | `MCConfigParse.cfg` | violation | A first line of two spaces and `a` gives a 2-unit KernelPath pool, and the copy writes `KernelPath[2]` (376): the path is stored by file position, not by its count of non-space units. |

The `loader` run shows three things, on every 5-page memory:
- the searches free every allocation they reject (`HeldIsKernelRegion`);
- the kernel is entered only after a successful ExitBootServices, with the map of its key (`KernelGetsExitMap`);
- once the kernel is placed, boot eventually reaches the kernel unless AllocatePool fails (`PlacedKernelBoots`).

The `kernel` run shows, for the boot, early-init import and allocator calls on two firmware maps, then any monitor commands and panics:
- on every map the monitor can see, PrintMemoryMap prints exactly the maximal runs except the last one (`ReportMatchesRunsButLast`);
- runcmd never writes argv past its MAXARGS slots (`ArgvInBounds`);
- every command line runs the command its first argument names, with argv equal to the line's arguments, or runs nothing when it has MAXARGS arguments or more (`CommandLineRuns`).

The `print` run shows, for every format, buffer size and ReallocatePool failure:
- no write of PPUTC, PFLUSH, `_SPrint` or `_PoolPrint` leaves its buffer or goes through a NULL pool (`NoWildWrite`);
- SPrint leaves, up to the terminator, the first `maxlen` characters `_Print` produced over all its flushes, and returns their count (`SPrintReturnsPrefix`);
- a PoolPrint or CatPrint in which no ReallocatePool failed holds the earlier text and all the new text, terminated (`PoolHoldsText`);
- every number formatted with 'u', 'd', 'x' or 'X' is its decimal (with commas every three digits for ',') or hex reference (`ConversionsCorrect`, an action property checked at each item).

The `gop` run shows, for one GPU with one mode, one GPU with three modes and two GPUs, any three keystrokes and any firmware error:
- SetMode is never asked for a mode the GPU lacks: the menu's key test and the conversion after it agree (`SetModeArgumentValid`);
- a successful InitUEFI_GOP leaves one GPUArray entry per GPU holding the GPU's current mode and its info; several GPUs are in mode 0, and a menu GPU is in the mode of the last key read, every earlier key having named no mode (`FrameBuffersMatchChoice`);
- once ConIn holds a key naming a mode while the menu waits, InitUEFI_GOP returns (`KeyEndsMenu`).

Each property of a passing run has a mutant in `PROJECT.json`: a plausible fault of the mapped code that TLC finds. The mutants are:
- a missed run reset, and `save_offset` taken one entry late (allocator);
- AllocateAddress without the range check;
- the naming loop run to `DevNum <= NumHandles`, the menu's key test one too wide and one too narrow, and the key read as a 1-based mode (gop);
- the page-counter jump tested before the increment, only the first page of the region tagged, and the buffer counted in pages instead of descriptors (importer);
- `num` not reset when PrintMemoryMap starts a new run;
- runcmd's argument limit tested as `argc == MAXARGS`, and the command found by prefix (kernel);
- a rejected placement candidate not freed;
- `MemMapSize` not reset before the retry;
- no retry after the first failed exit;
- the truncation's subtraction swapped, End one slot late, `_SPrint` copying to the start of `str`, ReallocatePool told the old size is 0, and the `ca[]` table reordered (print).

**Reproducing properties that have no run.** Some properties are defined but have no run of their own; each violation run checks one property. Each was found violated with these settings:
- `GrantedRunIsContiguous` (PageAllocator) under `MCPageAllocator.cfg`: a granted run straddles the legacy hole (uefi.c 122).
- `ImportFailsClosed` (MapImporter), with no conventional region large enough for the map: import still succeeds (uefi.c 128), though spec.md §4.1 says it is fatal.
- `MapStorageReserved` with `AddrModulus = 16` and a region above it: the map is written at the truncated address, and those pages stay allocatable (uefi.c 98).
- `EntryAddressesMatchFirmware` with `FirmwareMaps <- MCGapMaps`: a gap other than the hole shifts every later entry address (uefi.c 117).
- `ReportTypesNamed` (MemoryMap) under `MCKernel.cfg` with `MemTypes <- MCOemMemTypes`: PrintMemoryMap indexes `memory_types[]` with an OEM type that AllocatePages accepted (uefi.c 162, 227).
- `MapFullyWritten` (MapImporter) under `MCMapImporter.cfg` with `FirmwareMaps <- MCRegionMaps`: `MEMORY_MAP_SIZE` counts the legacy hole, which the expansion never writes, so the last buffer entry holds stale memory (uefi.c 69).
- `PoolResultComplete` (PrintEngine) under `MCPrintEngine.cfg`: when the first flush's ReallocatePool fails, the final flush allocates a fresh pool, and PoolPrint of `"%*c"` returns an empty string instead of NULL or its text (print.c 241).
- `GrantedPagesAreFree` (MemoryMap) under `MCKernel.cfg` with `FirmwareMaps <- MCPartialPageMaps`, `Garbage <- MCZeroGarbage`, `BeyondTypes <- MCZeroGarbage`: the map's last, partial page is tagged conventional (uefi.c 118, `MEMORY_MAP_SIZE / SPAGES` rounds down) and two AllocateAnyPages calls hand it out, so the allocator overwrites its own map.
- `GrantedPagesAreFree` (MemoryMap) under `MCKernel.cfg` with `FirmwareMaps <- MCWholePageMaps`: FreePages(12, 2) is accepted because the entry at 16, the map's own storage, is not conventional, and it retags that entry conventional (uefi.c 384). The next AllocateAnyPages grants the map's storage.
- `PathIsFirstLine` (ConfigParse) under `MCConfigParse.cfg`: a Kernel64.txt with no line end leaves the path unwritten pool (FirstLineLength stays 0, 301); with a line end, one space leaves a hole and the terminator overwrites the last letter (376).
- `CmdlineIsSecondLine` (ConfigParse) under `MCConfigParse.cfg`, with `Files` restricted to files that have a line end: a lone '\r' line end makes the command line lose its first unit (313).
- `ReturnedAddressIsRunBase` (PageAllocator) under `MCPageAllocator.cfg`: AllocateAnyPages (and AllocateMaxAddress at 303) sets `*mem` to the run's last page, not its base as spec.md §4.2 says (uefi.c 258), so a caller using `*mem` as the base overruns its grant.
- `MenuTimesOut` (GopSetup) under `MCGopSetup.cfg`: with one GPU of several modes and no keystroke, the menu waits in WaitForEvent forever (Graphics.c 1042). The prompt at 1038 says it defaults to mode 0 in 90 seconds, but the timed wait is commented out (1039) and `timeout_seconds` is never decremented, so the default at 1059-1064 is dead.
- `LoaderParamsKept` (Kernel) under `MCKernel.cfg` with `LoaderParams <- MCOtherLoaderParams` (the `-m 128` address of uefi.c 36 besides `LP_pointer`): after init_memory_map, an accepted AllocatePages or FreePages call, or the monitor's PrintMemoryMap or lpinfo, `UEFI_LP` is the constant `LP_pointer` (uefi.c 52, 231, 365, 134, 192), not the pointer `i386_init` saved across the memset (init.c 33-35).
- `ArgsUpToMaxRun` (Kernel) under `MCKernel.cfg`: a line of MAXARGS arguments is refused, though the message of monitor.c 136 names MAXARGS as the maximum; runcmd takes at most MAXARGS-1.
- `KernelGetsExitMap` under `MCLoaderExit_SplitGrowth.cfg` with `GarbageKeys <- MCReachedKeys` and `MaxEvents = 1`: a garbage `MemMapKey` equal to the current key lets ExitBootServices succeed with an unfilled MemMap.

## 4. Bounds

**Kernel map.**
- Addresses are bytes, with small page sizes: 2 in the allocator model and 4 in the importer. The legacy hole is 8..12, one page.
- This keeps every case that depends on the code's arithmetic: pages on both sides of the hole, a map that ends inside a page, and a descriptor longer than `MEMORY_MAP_SIZE/SPAGES`.
- The descriptor size is 1 byte, so the map fills 2 pages and a fraction. That is the rounding case.
- `UintnModulus = 16` stands for 2^32. It is greater than the map length plus 1, so a wrapped `num_pages` never counts down to zero within a scan, as with 2^32.

**Kernel and monitor.** `MAXARGS = 3` (16 in the code): the limit test compares argc with the constant, so a line of 3 words hits the same branch as one of 16. The ten lines give an empty and a blank line, each command name alone or with an argument after leading and inner blanks and tabs, a name glued to a word (`helpx`), an unknown name, and a line of MAXARGS arguments. Two panic messages let a panic follow another. The passing run hands over `LP_pointer` only; no property of it depends on the address, and the other address belongs to the `LoaderParamsKept` reproduction.

**Allocator inputs.**
- 32 maps: 4 entries each, every entry Reserved or Conventional, in 2 layouts, one of which spans the hole.
- Memory types: LoaderData, and Persistent (invalid).
- Page counts: 0, 1, 2. Zero is the wrap case.
- Addresses: 0, 3, 8, 10. These are aligned at the start, unaligned, the last entry in the layout that spans the hole, and above `AVAIBLE_MEMORY`.
- Every call sequence is explored to the full depth of its graph: 6 states.

**Composed kernel-map inputs.**
- Two firmware maps. In one the map region ends in a partial page. In the other the region follows a free page.
- Addresses: 6, 12, 16, 40.

**Placement.**
- Memory is 5 pages. 0x100000 is page 2, above two low pages.
- The image is linked at 0x100000, as the default of line 620 assumes.
- Descriptors begin at pages 0 and 3, and after every reserved page.
- Every set of free pages, and every assignment of zero, ELF remains or other data to the free pages, is an initial state. That is 2048 states with `stuck`.
- `KPages = 1` keeps the descriptor-level and page-by-page searches distinct (bounds at 0 and 3), and 5 pages make every branch happen, including a successful page-by-page retry. On 4 pages that retry is never reached.

**Exit.**
- Firmware maps have 3 or 4 descriptors.
- In the passing run, pool allocations stay inside mapped pages and there is one timer event. The split-growth run lets an allocation add a descriptor.
- The garbage key 9 is one the key counter never reaches in these runs.

**Print.**
- `PRINT_STRING_LEN = 4` (200 in the code): the buffer flushes every 3 characters, so most texts flush mid-item, a `\r\n` can straddle a flush, and `_PoolPrint` grows by 4.
- SPrint buffers of 0 (no limit; `NoLimitCap = 16` characters, more than any text), 1, 2 and 4 characters; `UintnModulus = 64` stands for 2^64 and exceeds every length, so a wrapped `maxlen` is "no limit" as in the code.
- 21 formats: every flag, width form ('*', digit runs, '.'), attribute and item kind, `%%`, the no-item 'g', an unknown character, an empty and a NULL string, and `%,d` on values of 1 to 7 digits. Each is printed by SPrint (4 sizes), PoolPrint, and CatPrint onto the pool `PoolPrint(L"b")` leaves. Numbers stay below 2^31 (TLC's integers).

**Deadlock.** `CHECK_DEADLOCK FALSE` is set wherever the program really stops: `init_memory_map` runs once, and the loader ends at the kernel or in a return. The allocator and kernel runs check deadlock: a call is always possible, and the monitor always reads another line.

**Configuration parse.** `MCFiles` is every file of a BOM and 1 to 4 units from `a`, space, '\r' and '\n' (340 files), plus a big-endian BOM and a missing BOM. Four units hold two spaces and a letter before a line end, the smallest overflow, and every line-end form.

**Graphics.** Three GPU sets: one GPU with one mode (no menu), one with three modes (a menu with a middle and a top mode), two GPUs (the mode-0 loop). Keys: a scan-code key (UnicodeChar 0), '0', '1', '2', '3' (one past the top mode) and '9', up to 3 keystrokes, so an invalid key can precede a valid one and a key can arrive before the menu. The firmware's starting mode is any mode of the GPU, so a stale entry would differ from the set one.

## 5. Fairness

- **Kernel model, monitor, print library and configuration parse.** No fairness is assumed; its properties are safety and action properties.
- **Loader model.** `WF_vars(BootStep)` (`WF_placeVars(PlaceStep)` in `KernelPlacement`, `WF_vars(LoaderStep)` in `LoaderExit`). GoTime is the only code running while boot services are up, and it never waits: every step is a synchronous firmware call, so it is taken whenever it is enabled.
- **Graphics.** `WF_vars(GopStep)`: InitUEFI_GOP is the only code running, and its one wait is WaitForEvent, whose step `ReadKey` is enabled only when ConIn holds a key. The user (`Press`) gets no fairness: nobody need be at the keyboard.
- **Firmware.** `FirmwareEvent` gets no fairness. Timer events may or may not happen.
- **The hang.** In `placement_hang` the loop's step leaves the state unchanged. TLC reports stuttering at `search4` because the loop makes no progress, not because fairness is missing.

## 6. Not modelled

- `VirtualStart` and `Attribute` are copied through and never read. The `NULL` checks on `mem` are not modelled; every kernel caller passes an address.
- In the loader, the ESP path construction and the Kernel64.txt open, GetInfo and read (`Loader.c` 32-262), and the three FreePools after the parse (399-419): file I/O whose only effect on the model is an early return.
- The kernel file reads in the loader (`Loader.c` 420-613): opening the file, GetInfo, the ELF header and the program headers. They are file I/O. Their result is `pages`, a constant `KPages` of the model. Their error returns end GoTime before any memory is allocated.
- The firmware's own map and the pages seen by the placement are two abstractions. They are not tied together, because the exit sequence starts from a fresh GetMemoryMap.
- In `print.c`: FloatToString (floating point, outside TLC), TimeToString and DumpHex (fixed console layouts with no caller), and attributes, which are 0 on every entry point. Formats are sequences of the characters above; `%lu` of values of 2^63 or more (printed negative through ValueToString's INT64) is beyond TLC's integers.
- In `Graphics.c`: the device-path and ComponentName2 searches inside the naming loop (they compute names nothing reads), LibMatchDevicePaths, the debug-only mode listing, and the OpenProtocol(GOP) error branches on handles LocateHandleBuffer returned for that protocol.
- The output of the monitor's commands (help, kerninfo, firestarter, backtrace's stack walk, LP_info's field addresses), `cons_init`, `_warn` and `test_backtrace`: console output only. `readline` is outside `src/`; its NULL return only repeats the monitor loop.
- Nothing under `src/` calls `init_memory_map` or the allocator yet. The composition follows the control flow of spec.md §2.
