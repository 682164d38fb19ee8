------------------------------ MODULE EfiTypes ------------------------------
(***************************************************************************)
(* The memory descriptor model shared by the loader and the kernel:        *)
(* EFI_MEMORY_TYPE codes and EFI_MEMORY_DESCRIPTOR (src/inc/uefi.h).       *)
(* Only the fields the kernel's map code reads are kept: Type,             *)
(* PhysicalStart and NumberOfPages.  VirtualStart and Attribute are copied *)
(* through opaquely by the code and never inspected, so they are dropped.  *)
(***************************************************************************)
LOCAL INSTANCE Naturals

\* Type codes from the memory_types[] table, src/kern/uefi.c.  The numeric
\* values matter: AllocatePages rejects a range of codes by comparison.
EfiReservedMemoryType  == 0
EfiLoaderCode          == 1
EfiLoaderData          == 2
EfiBootServicesData    == 4
EfiRuntimeServicesData == 6
EfiConventionalMemory  == 7
EfiPersistentMemory    == 14
EfiMaxMemoryType       == 15
\* First OEM-defined code (0x70000000); AllocatePages accepts it.
EfiOemMemoryType       == 1879048192

\* EFI_ALLOCATE_TYPE (alocate_types[] in uefi.c).
AllocateAnyPages   == "AllocateAnyPages"
AllocateMaxAddress == "AllocateMaxAddress"
AllocateAddress    == "AllocateAddress"

\* EFI_ALLOCATE_ERROR results.
EFI_SUCCESS           == "EFI_SUCCESS"
EFI_INVALID_PARAMETER == "EFI_INVALID_PARAMETER"
EFI_NOT_FOUND         == "EFI_NOT_FOUND"
EFI_OUT_OF_RESOURCES  == "EFI_OUT_OF_RESOURCES"
Statuses == {EFI_SUCCESS, EFI_INVALID_PARAMETER, EFI_NOT_FOUND,
             EFI_OUT_OF_RESOURCES}

\* A firmware descriptor, with the fields the kernel reads.
Descriptor(types, addrs, counts) ==
  [Type: types, PhysicalStart: addrs, NumberOfPages: counts]

\* A kernel page-map entry: init_memory_map writes one descriptor per page
\* with NumberOfPages = 1, so only Type and PhysicalStart vary.
Entry(types, addrs) == [Type: types, PhysicalStart: addrs]

=============================================================================
