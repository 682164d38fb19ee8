--------------------------- MODULE MCPageAllocator ---------------------------
(***************************************************************************)
(* The allocator on four-page maps, with a page size of 2 bytes so that    *)
(* odd addresses are unaligned.  The maps are laid out as init_memory_map  *)
(* lays them out: addresses 0, 2, 4, 6, or 0, 2, 6, 8 when the address     *)
(* jump over the legacy hole (0xA0000 -> 0x100000) falls inside the map.   *)
(***************************************************************************)
EXTENDS PageAllocator

MCPageSize == 2

MCLayouts == {<<0, 2, 4, 6>>, <<0, 2, 6, 8>>}

MCInitMaps ==
  { [k \in 1..4 |-> [Type |-> types[k], PhysicalStart |-> layout[k]]] :
      layout \in MCLayouts,
      types \in [1..4 -> {EfiReservedMemoryType, EfiConventionalMemory}] }

MCMemTypes == {EfiLoaderData, EfiPersistentMemory}

MCPageCounts == {0, 1, 2}

MCAddresses == {0, 3, 8, 10}

MCBeyondTypes == {EfiReservedMemoryType, EfiConventionalMemory}

\* Above the map length, so the wrap of num_pages acts as with 2^32.
MCUintnModulus == 16

=============================================================================
