------------------------------ MODULE AbSlots ------------------------------
(***************************************************************************)
(* A/B slot selection across boots.  kfld, the stage before kernelflinger, *)
(* records in volatile EFI variables which slot it loaded kernelflinger    *)
(* from (LoadedSlot) and, per slot, the error it met loading it            *)
(* (LoadedSlotFailed_%04x).  efi_main then disables the slots kfld failed  *)
(* on, lets the AVB A/B flow elect and verify a slot, and reboots when     *)
(* that slot is not the one kfld loaded.  The SlotManager (slot.c) and the *)
(* AVB A/B flow are not part of the repository: their operations are the  *)
(* ones spec.md 4.2 and 4.4 describe.  The target choice is an input here; *)
(* its own module is BootPolicy.  The device is locked, so a verification  *)
(* failure is a RED boot state, which boot_error ends with halt_system.    *)
(***************************************************************************)
EXTENDS Integers

CONSTANTS
    MaxTries,       \* tries_remaining a fresh slot gets (7 in spec.md 4.2)
    MaxBoots,       \* bound on boots
    RecoveryInBoot  \* recovery_in_boot_partition()

ASSUME MaxTries \in 1 .. 7 /\ MaxBoots \in Nat /\ RecoveryInBoot \in BOOLEAN

\* slot indices in suffix order, "_a" then "_b"
Slots == 0 .. 1
NoSlot == -1
MaxPriority == 15

\* The targets efi_main loads a boot image for, besides fastboot.
N == "NORMAL_BOOT"
Targets == {N, "CHARGER", "RECOVERY", "FASTBOOT"}

\* What kfld left in LoadedSlot: NoSlot when the variable is absent or
\* unreadable, 2 for a slot number past nb_slots.  LoadedSlotFailed_<slot>
\* is absent, holds EFI_SUCCESS or an error code, or has the wrong size.
LoadedValues == {NoSlot, 2} \cup Slots
FailedValues == {"absent", "success", "error", "bad_size"}

NoRecords == [s \in Slots |-> "absent"]

SlotRecords == [priority : 0 .. MaxPriority, tries : 0 .. MaxTries,
                successful : BOOLEAN]

(***************************************************************************)
(* SlotManager operations (spec.md 3 and 4.2).                             *)
(***************************************************************************)

\* init() default after a wrong magic or CRC, here the first metadata
DefaultMetadata == [s \in Slots |-> [priority |-> 7, tries |-> MaxTries,
                                     successful |-> FALSE]]

Bootable(m, s) == m[s].priority > 0 /\ (m[s].successful \/ m[s].tries > 0)

\* active_slot(): the bootable slot of highest priority, the first suffix
\* on a tie; NoSlot when every slot is exhausted.
active_slot(m) ==
    LET B == {s \in Slots : Bootable(m, s)}
    IN IF B = {} THEN NoSlot
       ELSE CHOOSE s \in B : \A t \in B : m[t].priority < m[s].priority
                                          \/ (m[t].priority = m[s].priority /\ s <= t)

mark_boot_attempt(m, s) ==
    IF m[s].successful THEN m
    ELSE [m EXCEPT ![s].tries = IF @ > 0 THEN @ - 1 ELSE 0]

mark_boot_failed(m, s) == [m EXCEPT ![s].priority = 0, ![s].tries = 0]

\* disable_slot_by_index: priority 0 is the disabled slot of spec.md 3.
disable_slot_by_index(m, s) == mark_boot_failed(m, s)

\* mutant: the other slot loses one from its own priority
set_active_own_less(m, s) ==
    [t \in Slots |-> IF t = s
                     THEN [priority |-> MaxPriority, tries |-> MaxTries,
                           successful |-> FALSE]
                     ELSE [m[t] EXCEPT !.priority = @ - 1]]

set_active(m, s) ==
    [t \in Slots |-> IF t = s
                     THEN [priority |-> MaxPriority, tries |-> MaxTries,
                           successful |-> FALSE]
                     ELSE [m[t] EXCEPT !.priority = MaxPriority - 1]]

\* The Verifier's retry and fallback (spec.md 4.4): the active slot is
\* verified; a failure with tries left costs a try, a failure with none
\* disables the slot, and the slot elected next is verified once.  The try
\* of the slot that is booted is taken before the jump.  slot is the slot
\* whose image verified, NoSlot for a RED boot state.
avb_ab_flow(m, ok) ==
    LET a == active_slot(m) IN
    CASE a = NoSlot -> [meta |-> m, slot |-> NoSlot]
      [] ok[a] -> [meta |-> mark_boot_attempt(m, a), slot |-> a]
      [] m[a].tries > 0 -> [meta |-> mark_boot_attempt(m, a), slot |-> NoSlot]
      [] OTHER ->
            LET m2 == mark_boot_failed(m, a)
                b == active_slot(m2)
            IN IF b # NoSlot /\ ok[b]
               THEN [meta |-> mark_boot_attempt(m2, b), slot |-> b]
               ELSE [meta |-> m2, slot |-> NoSlot]

(***************************************************************************)
(* kernelflinger.c and vars.c.                                             *)
(***************************************************************************)

\* mutant: the status of the variable read taken for kfld's error code
get_efi_loaded_slot_failed_status(rec) == rec \in {"absent", "bad_size"}

\* get_efi_loaded_slot_failed: a LoadedSlotFailed_<slot> of the wrong size
\* is EFI_COMPROMISED_DATA, which the caller treats like an absent one; only
\* a well-formed error code says that kfld failed on the slot.
get_efi_loaded_slot_failed(rec) == rec = "error"

\* disable_slot_if_efi_loaded_slot_failed: nothing when LoadedSlot cannot be
\* read or is past nb_slots; otherwise every other slot kfld failed on is
\* disabled.
disable_slot_if_efi_loaded_slot_failed(m, loaded, failed) ==
    IF loaded \notin Slots THEN m
    ELSE [s \in Slots |-> IF s # loaded /\ get_efi_loaded_slot_failed(failed[s])
                          THEN disable_slot_by_index(m, s)[s]
                          ELSE m[s]]

\* reboot_if_slot_is_different: the target a cold reset is requested for,
\* or "none" when the AVB slot is the loaded one or LoadedSlot is unusable.
reboot_if_slot_is_different(slot, loaded, bootTarget) ==
    IF loaded \in Slots /\ slot # loaded THEN bootTarget ELSE "none"

\* avb_load_verify_boot_image for a slotted target: NORMAL_BOOT and CHARGER
\* load "boot" through the A/B flow; RECOVERY does the same through a call
\* for NORMAL_BOOT when recovery lives in the boot partition, and otherwise
\* loads the non-A/B "recovery" partition.  slot_data is set only when the
\* image verified; reboot is what reboot_if_slot_is_different then asks for.
avb_load_verify_boot_image(t, m, ok, loaded) ==
    IF t = "RECOVERY" /\ ~RecoveryInBoot
    THEN [meta |-> m, slot |-> NoSlot, reboot |-> "none", red |-> FALSE]
    ELSE LET r == avb_ab_flow(m, ok) IN
         [meta |-> r.meta, slot |-> r.slot, red |-> r.slot = NoSlot,
          reboot |-> IF r.slot = NoSlot THEN "none"
                     ELSE reboot_if_slot_is_different(r.slot, loaded,
                                IF t = "RECOVERY" THEN N ELSE t)]

VARIABLES
    pc,          \* "boot", "running" (a kernel or fastboot runs), "off"
    target,      \* the target of the current boot
    meta,        \* the A/B metadata in misc
    imageOk,     \* per slot: its boot image verifies
    loadedSlot,  \* LoadedSlot as kfld set it for this boot (volatile)
    loadedFailed, \* LoadedSlotFailed_<slot> as kfld set them (volatile)
    kernelSlot,  \* the slot whose kernel runs, NoSlot otherwise
    rebootTo,    \* the target the last slot-mismatch reboot asked for
    boots

vars == <<pc, target, meta, imageOk, loadedSlot, loadedFailed, kernelSlot,
          rebootTo, boots>>

Init ==
    /\ pc = "boot"
    /\ target = N
    /\ meta = DefaultMetadata
    /\ imageOk = [s \in Slots |-> TRUE]
    /\ loadedSlot = NoSlot
    /\ loadedFailed = NoRecords
    /\ kernelSlot = NoSlot
    /\ rebootTo = "none"
    /\ boots = 0

\* efi_main from disable_slot_if_efi_loaded_slot_failed to load_image for
\* a target with a boot image: kfld's records are inputs.  A RED boot
\* state halts (boot_error), a slot mismatch resets, and otherwise the
\* kernel of the verified slot is started, which does not return.
efi_main_load_image ==
    /\ pc = "boot"
    /\ \E t \in Targets \ {"FASTBOOT"}, loaded \in LoadedValues,
          failed \in [Slots -> FailedValues] :
        LET m1 == disable_slot_if_efi_loaded_slot_failed(meta, loaded, failed)
            r == avb_load_verify_boot_image(t, m1, imageOk, loaded)
        IN /\ target' = t
           /\ loadedSlot' = loaded
           /\ loadedFailed' = failed
           /\ meta' = r.meta
           /\ rebootTo' = r.reboot
           /\ pc' = IF r.red \/ r.reboot # "none" THEN "off" ELSE "running"
           /\ kernelSlot' = IF pc' = "running" THEN r.slot ELSE NoSlot
    /\ UNCHANGED <<imageOk, boots>>

\* efi_main enters fastboot before any slot step.
efi_main_fastboot ==
    /\ pc = "boot"
    /\ \E loaded \in LoadedValues, failed \in [Slots -> FailedValues] :
        loadedSlot' = loaded /\ loadedFailed' = failed
    /\ target' = "FASTBOOT"
    /\ pc' = "running"
    /\ kernelSlot' = NoSlot
    /\ rebootTo' = "none"
    /\ UNCHANGED <<meta, imageOk, boots>>

(***************************************************************************)
(* The environment: Android marks its slot successful, fastboot flashes a  *)
(* slot's boot image (well or badly) or makes a slot active, and the device   *)
(* is reset or powered on again.                                           *)
(***************************************************************************)

OsMarkSuccessful ==
    /\ pc = "running" /\ target = N /\ kernelSlot \in Slots
    /\ ~meta[kernelSlot].successful
    /\ meta' = [meta EXCEPT ![kernelSlot].successful = TRUE,
                            ![kernelSlot].tries = 0]
    /\ UNCHANGED <<pc, target, imageOk, loadedSlot, loadedFailed, kernelSlot, rebootTo,
                   boots>>

\* "fastboot flash boot_<slot>" writes a slot's boot image, well or badly.
FastbootFlash ==
    /\ pc = "running" /\ target = "FASTBOOT"
    /\ \E s \in Slots, good \in BOOLEAN : imageOk' = [imageOk EXCEPT ![s] = good]
    /\ UNCHANGED <<pc, target, meta, loadedSlot, loadedFailed, kernelSlot, rebootTo,
                   boots>>

\* "fastboot --set-active=<slot>"
FastbootSetActive ==
    /\ pc = "running" /\ target = "FASTBOOT"
    /\ \E s \in Slots : meta' = set_active(meta, s)
    /\ UNCHANGED <<pc, target, imageOk, loadedSlot, loadedFailed, kernelSlot, rebootTo,
                   boots>>

Reboot ==
    /\ pc \in {"running", "off"}
    /\ boots < MaxBoots
    /\ pc' = "boot"
    /\ boots' = boots + 1
    /\ kernelSlot' = NoSlot
    /\ loadedSlot' = NoSlot
    /\ loadedFailed' = NoRecords
    /\ UNCHANGED <<target, meta, imageOk, rebootTo>>

Done ==
    /\ pc \in {"running", "off"}
    /\ boots = MaxBoots
    /\ UNCHANGED vars

Next ==
    \/ efi_main_load_image
    \/ efi_main_fastboot
    \/ OsMarkSuccessful
    \/ FastbootFlash
    \/ FastbootSetActive
    \/ Reboot
    \/ Done

Spec == Init /\ [][Next]_vars

(***************************************************************************)
(* Properties.                                                             *)
(***************************************************************************)

TypeOK ==
    /\ pc \in {"boot", "running", "off"}
    /\ target \in Targets
    /\ meta \in [Slots -> SlotRecords]
    /\ imageOk \in [Slots -> BOOLEAN]
    /\ loadedSlot \in LoadedValues
    /\ loadedFailed \in [Slots -> FailedValues]
    /\ kernelSlot \in Slots \cup {NoSlot}
    /\ rebootTo \in Targets \cup {"none"}
    /\ boots \in 0 .. MaxBoots

\* When kfld fell back to a slot, having recorded an error for every other
\* one, the boot does not reset for a slot mismatch: the slots kfld failed
\* on are disabled before the AVB flow elects one, so kernelflinger does
\* not send the device back to a slot kfld cannot load, boot after boot.
KfldFallbackKept ==
    rebootTo # "none" /\ loadedSlot \in Slots
        => \E s \in Slots \ {loadedSlot} : loadedFailed[s] # "error"

\* A reset asked for by reboot_if_slot_is_different is for the target
\* efi_main was loading (its comment: "reboot to target %d").
RebootKeepsTarget == rebootTo # "none" => rebootTo = target

====
