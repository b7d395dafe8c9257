------------------------------ MODULE Handover ------------------------------
(***************************************************************************)
(* The handover of a boot image to the Linux kernel (android.c).           *)
(* handover_kernel allocates the kernel and boot_params; handover_jump     *)
(* sets up the GDT, then up to ten times builds the memory map the kernel  *)
(* gets (setup_memory_map, setup_e820_map) and calls ExitBootServices with *)
(* its key.  The firmware may change its memory map at any time before a   *)
(* successful ExitBootServices (an event allocating pages), which makes    *)
(* the key the loader holds stale.                                         *)
(*                                                                         *)
(* Addresses and sizes are in bytes, as in the code; a memory descriptor   *)
(* is [Type, PhysicalStart, NumberOfPages] with the EFI_MEMORY_TYPE number. *)
(***************************************************************************)
EXTENDS Integers, Sequences, SequencesExt

CONSTANTS
    Types,          \* EFI memory types of the firmware's initial map
    MaxDescs,       \* descriptors of the initial map
    MaxPages,       \* pages of one initial descriptor
    ExitTries,      \* handover_jump's tries of ExitBootServices (10 in the code)
    MaxMapChanges,  \* changes of the map by firmware events in one handover
    AllocFaults     \* an allocation may fail

ASSUME /\ Types \subseteq 0 .. 15
       /\ MaxDescs \in Nat \ {0} /\ MaxPages \in Nat \ {0}
       /\ ExitTries \in Nat \ {0} /\ MaxMapChanges \in Nat
       /\ AllocFaults \in BOOLEAN

EFI_PAGE_SHIFT == 12
PAGE_SIZE == 2 ^ EFI_PAGE_SHIFT

EfiBootServicesData == 4
EfiRuntimeServicesData == 6
EfiConventionalMemory == 7

Outcomes == IF AllocFaults THEN BOOLEAN ELSE {TRUE}

(***************************************************************************)
(* setup_e820_map, a fold over the descriptors.                            *)
(***************************************************************************)

\* The E820 type of an EFI memory type; "skip" for the types the switch
\* does not name (default: continue).
E820Type(t) ==
    CASE t \in {0, 5, 6, 11, 12, 13} -> "RESERVED"
      [] t = 8 -> "UNUSABLE"
      [] t = 9 -> "ACPI"
      [] t \in {1, 2, 3, 4, 7} -> "RAM"
      [] t = 10 -> "NVS"
      [] OTHER -> "skip"

\* mutant: the merge does not compare the types
e820_add_any_type(e820_map, d) ==
    LET cur_type == E820Type(d.Type)
        n_page == Len(e820_map)
        size == d.NumberOfPages * PAGE_SIZE IN
    CASE cur_type = "skip" -> e820_map
      [] n_page # 0
            /\ e820_map[n_page].addr + e820_map[n_page].size = d.PhysicalStart ->
            [e820_map EXCEPT ![n_page].size = @ + size]
      [] OTHER -> Append(e820_map, [addr |-> d.PhysicalStart, size |-> size,
                                    type |-> cur_type])

\* mutant: no default arm, so an unknown type is entered with the initial
\* cur_type 0, which is no E820 type
e820_add_keep_unknown(e820_map, d) ==
    LET cur_type == E820Type(d.Type)
        n_page == Len(e820_map)
        size == d.NumberOfPages * PAGE_SIZE IN
    CASE n_page # 0 /\ e820_map[n_page].type = cur_type
            /\ e820_map[n_page].addr + e820_map[n_page].size = d.PhysicalStart ->
            [e820_map EXCEPT ![n_page].size = @ + size]
      [] OTHER -> Append(e820_map, [addr |-> d.PhysicalStart, size |-> size,
                                    type |-> cur_type])

\* One turn of the loop: an unknown type is skipped; a descriptor of the
\* last entry's type that starts where that entry ends extends it; any
\* other is appended.
e820_add(e820_map, d) ==
    LET cur_type == E820Type(d.Type)
        n_page == Len(e820_map)
        size == d.NumberOfPages * PAGE_SIZE IN
    CASE cur_type = "skip" -> e820_map
      [] n_page # 0 /\ e820_map[n_page].type = cur_type
            /\ e820_map[n_page].addr + e820_map[n_page].size = d.PhysicalStart ->
            [e820_map EXCEPT ![n_page].size = @ + size]
      [] OTHER -> Append(e820_map, [addr |-> d.PhysicalStart, size |-> size,
                                    type |-> cur_type])

setup_e820_map(mem_entries) == FoldLeft(e820_add, <<>>, mem_entries)

(***************************************************************************)
(* The firmware's memory map.                                              *)
(***************************************************************************)

\* The initial maps: descriptors in address order from 0, each starting
\* right after the previous one or one page later.
Shapes == [type : Types, gap : 0 .. 1, pages : 1 .. MaxPages]

RECURSIVE LayOut(_, _)
LayOut(ss, at) ==
    IF ss = <<>> THEN <<>>
    ELSE LET s == Head(ss) IN
         <<[Type |-> s.type, PhysicalStart |-> (at + s.gap) * PAGE_SIZE,
            NumberOfPages |-> s.pages]>> \o LayOut(Tail(ss), at + s.gap + s.pages)

FirmwareMaps == { LayOut(ss, 0) : ss \in SeqOf(Shapes, MaxDescs) \ {<<>>} }

\* A firmware event allocates the first page of free descriptor k as
\* memory of type t.
Allocated(m, k, t) ==
    LET d == m[k] IN
    InsertAt(ReplaceAt(m, k, [d EXCEPT !.PhysicalStart = @ + PAGE_SIZE,
                                       !.NumberOfPages = @ - 1]),
             k, [d EXCEPT !.Type = t, !.NumberOfPages = 1])

VARIABLES
    fwMap,        \* the firmware's memory map
    fwKey,        \* its map key, changed by every change of the map
    changes,      \* changes of the map by firmware events so far
    uefi,         \* is_UEFI(): no EFI wrapper under the loader
    pc,           \* "kernel", "setup", "exit", "booted" or "failed"
    i,            \* handover_jump's loop counter
    map_key,      \* the key setup_memory_map last got (-1: none yet)
    e820,         \* boot_params->e820_map[0 .. e820_entries - 1]
    efi_memmap,   \* boot_params->efi_info.efi_memmap is set
    liveMaps,     \* buffers LibMemoryMap returned that are not freed
    ret,          \* what handover_kernel returns ("none" while running)
    exitCalled,   \* ExitBootServices has been called
    \* observation: a boot service other than GetMemoryMap and
    \* ExitBootServices was called after the first ExitBootServices
    bsAfterExit

firmware == <<fwMap, fwKey, changes, uefi>>
vars == <<firmware, pc, i, map_key, e820, efi_memmap, liveMaps, ret,
          exitCalled, bsAfterExit>>

(***************************************************************************)
(* The loader.                                                             *)
(***************************************************************************)

\* handover_kernel up to handover_jump's loop: the kernel is allocated at
\* its preferred address or, failing that, anywhere (emalloc); boot_params
\* below 1 GiB; boot_params is zeroed; handover_jump detaches ivshmem and
\* setup_gdt allocates the GDT in UEFI mode.  A failed allocation ends the
\* handover with its error.
handover_kernel ==
    /\ pc = "kernel"
    /\ \E ok \in Outcomes :
        /\ pc' = IF ok THEN "setup" ELSE "failed"
        /\ ret' = IF ok THEN ret ELSE "OUT_OF_RESOURCES"
    /\ UNCHANGED <<firmware, i, map_key, e820, efi_memmap, liveMaps,
                   exitCalled, bsAfterExit>>

\* mutant: the buffer of the previous call is not freed
setup_memory_map_no_free ==
    /\ pc = "setup"
    /\ \E ok \in Outcomes :
        IF ok
        THEN /\ map_key' = fwKey
             /\ e820' = setup_e820_map(fwMap)
             /\ efi_memmap' = (efi_memmap \/ uefi)
             /\ liveMaps' = IF uefi THEN liveMaps + 1 ELSE liveMaps
             /\ pc' = "exit"
             /\ UNCHANGED ret
        ELSE /\ pc' = "failed" /\ ret' = "OUT_OF_RESOURCES"
             /\ UNCHANGED <<map_key, e820, efi_memmap, liveMaps>>
    /\ bsAfterExit' = (bsAfterExit \/ exitCalled)
    /\ UNCHANGED <<firmware, i, exitCalled>>

\* setup_memory_map, called at the top of every try: it frees the buffer
\* of the previous call when efi_info holds one, gets the map and its key
\* (LibMemoryMap), records the buffer in efi_info in UEFI mode, builds the
\* e820 map from it, and frees it in EFI-wrapper mode.  A failed
\* LibMemoryMap makes handover_jump return EFI_OUT_OF_RESOURCES.  FreePool
\* and the AllocatePool of LibMemoryMap are boot services.
setup_memory_map ==
    /\ pc = "setup"
    /\ \E ok \in Outcomes :
        LET kept == IF efi_memmap THEN liveMaps - 1 ELSE liveMaps IN
        IF ok
        THEN /\ map_key' = fwKey
             /\ e820' = setup_e820_map(fwMap)
             /\ efi_memmap' = (efi_memmap \/ uefi)
             /\ liveMaps' = IF uefi THEN kept + 1 ELSE kept
             /\ pc' = "exit"
             /\ UNCHANGED ret
        ELSE /\ pc' = "failed" /\ ret' = "OUT_OF_RESOURCES"
             /\ liveMaps' = kept
             /\ UNCHANGED <<map_key, e820, efi_memmap>>
    /\ bsAfterExit' = (bsAfterExit \/ exitCalled)
    /\ UNCHANGED <<firmware, i, exitCalled>>

\* mutant: the loop gives up one try early
handover_jump_exit_early ==
    /\ pc = "exit"
    /\ exitCalled' = TRUE
    /\ IF map_key = fwKey
       THEN pc' = "booted" /\ UNCHANGED <<i, ret>>
       ELSE /\ i' = i + 1
            /\ IF i + 2 < ExitTries THEN pc' = "setup" /\ UNCHANGED ret
               ELSE pc' = "failed" /\ ret' = "INVALID_PARAMETER"
    /\ UNCHANGED <<firmware, map_key, e820, efi_memmap, liveMaps, bsAfterExit>>

\* ExitBootServices with the key of the last setup_memory_map: with the
\* current key the kernel is jumped to; with a stale one the firmware
\* returns EFI_INVALID_PARAMETER and the loop tries again, up to ExitTries
\* times, after which handover_jump returns that error.
handover_jump_exit ==
    /\ pc = "exit"
    /\ exitCalled' = TRUE
    /\ IF map_key = fwKey
       THEN pc' = "booted" /\ UNCHANGED <<i, ret>>
       ELSE /\ i' = i + 1
            /\ IF i + 1 < ExitTries THEN pc' = "setup" /\ UNCHANGED ret
               ELSE pc' = "failed" /\ ret' = "INVALID_PARAMETER"
    /\ UNCHANGED <<firmware, map_key, e820, efi_memmap, liveMaps, bsAfterExit>>

\* The firmware: an event allocates a page of free memory for boot-services
\* or runtime data, which changes the map key.
FirmwareAllocate ==
    /\ pc \in {"setup", "exit"}
    /\ changes < MaxMapChanges
    /\ \E k \in DOMAIN fwMap, t \in {EfiBootServicesData, EfiRuntimeServicesData} :
        /\ fwMap[k].Type = EfiConventionalMemory
        /\ fwMap[k].NumberOfPages >= 2
        /\ fwMap' = Allocated(fwMap, k, t)
    /\ fwKey' = fwKey + 1
    /\ changes' = changes + 1
    /\ UNCHANGED <<uefi, pc, i, map_key, e820, efi_memmap, liveMaps, ret,
                   exitCalled, bsAfterExit>>

\* The kernel runs, or the error has been returned to efi_main.
Done ==
    /\ pc \in {"booted", "failed"}
    /\ UNCHANGED vars

Init ==
    /\ fwMap \in FirmwareMaps
    /\ fwKey = 0
    /\ changes = 0
    /\ uefi \in BOOLEAN
    /\ pc = "kernel"
    /\ i = 0
    /\ map_key = -1
    /\ e820 = <<>>
    /\ efi_memmap = FALSE
    /\ liveMaps = 0
    /\ ret = "none"
    /\ exitCalled = FALSE
    /\ bsAfterExit = FALSE

Next ==
    \/ handover_kernel
    \/ setup_memory_map
    \/ handover_jump_exit
    \/ FirmwareAllocate
    \/ Done

Spec == Init /\ [][Next]_vars

(***************************************************************************)
(* Properties.                                                             *)
(***************************************************************************)

Descs == [Type : 0 .. 15, PhysicalStart : Nat, NumberOfPages : Nat]
E820Entries == [addr : Nat, size : Nat,
                type : {"RESERVED", "UNUSABLE", "ACPI", "RAM", "NVS"}]

TypeOK ==
    /\ fwMap \in Seq(Descs)
    /\ fwKey \in 0 .. MaxMapChanges /\ changes \in 0 .. MaxMapChanges
    /\ uefi \in BOOLEAN
    /\ pc \in {"kernel", "setup", "exit", "booted", "failed"}
    /\ i \in 0 .. ExitTries
    /\ map_key \in -1 .. MaxMapChanges
    /\ e820 \in Seq(E820Entries)
    /\ efi_memmap \in BOOLEAN
    /\ liveMaps \in 0 .. 2
    /\ ret \in {"none", "OUT_OF_RESOURCES", "INVALID_PARAMETER"}
    /\ exitCalled \in BOOLEAN /\ bsAfterExit \in BOOLEAN

\* The page addresses any map of the model covers.
PageAddrs == { p * PAGE_SIZE : p \in 0 .. MaxDescs * (1 + MaxPages) }

\* The E820 types the EFI map gives the page at address a, and those the
\* e820 map gives it.
MapTypesAt(m, a) ==
    { E820Type(m[k].Type) :
        k \in { k \in DOMAIN m : m[k].PhysicalStart <= a
                  /\ a < m[k].PhysicalStart + m[k].NumberOfPages * PAGE_SIZE } }
        \ {"skip"}
E820TypesAt(e, a) ==
    { e[k].type : k \in { k \in DOMAIN e : e[k].addr <= a /\ a < e[k].addr + e[k].size } }

\* The kernel is started with an e820 map that describes the firmware's
\* map at ExitBootServices page by page (same E820 type, holes where the
\* firmware has nothing or a type setup_e820_map does not know), with no
\* two entries that setup_e820_map could have merged, although the map may
\* have changed between tries.
E820Faithful ==
    pc = "booted" =>
        /\ \A a \in PageAddrs : E820TypesAt(e820, a) = MapTypesAt(fwMap, a)
        /\ \A k \in 1 .. Len(e820) - 1 :
              ~(e820[k].type = e820[k + 1].type
                /\ e820[k].addr + e820[k].size = e820[k + 1].addr)

\* handover_jump gives up on ExitBootServices only when the firmware had
\* changed its map before each of its ExitTries calls: every try rereads
\* the map and the key.
RetriesSuffice == ret = "INVALID_PARAMETER" => changes >= ExitTries

\* setup_memory_map runs once per try, and every memory-map buffer
\* LibMemoryMap returned is either the one efi_info hands the kernel or
\* freed, whatever number of tries the firmware's changes cause.
MemmapNotLeaked == liveMaps <= 1 /\ (liveMaps = 1 => efi_memmap /\ uefi)

\* UEFI 2.4, 6.4 (which handover_jump's comment cites): after the first
\* call to ExitBootServices a loader calls no boot service but
\* GetMemoryMap and ExitBootServices.  setup_memory_map calls FreePool and
\* AllocatePool on every retry.
OnlyMemoryMapAfterExit == ~bsAfterExit
====
