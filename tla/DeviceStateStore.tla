-------------------------- MODULE DeviceStateStore --------------------------
(***************************************************************************)
(* The device-state store of kernelflinger over several boots.             *)
(*                                                                         *)
(* With andr_tpm the lock state and the rollback indices live in TPM NV    *)
(* index 0x01500082 (WRITE_STCLEAR | READ_STCLEAR) and the trusty seed in  *)
(* NV index 0x01500080 (WRITEDEFINE | READ_STCLEAR), both created with an  *)
(* empty auth value (tpm2_security.c); without a TPM they live in the      *)
(* OEMLock and RollbackIndex_%04x EFI variables (vars.c).  With tee_tpm    *)
(* (an SBL build) every access is a request forwarded over ivshmem to a    *)
(* TEE that keeps the same record (ivshmem.c, tee_* of tpm2_security.c).   *)
(* current_state and provisioning_mode are the per-boot caches of vars.c.  *)
(*                                                                         *)
(* One step is one TPM command or one EFI variable access, so a crash      *)
(* (Reboot) can fall between any two of them.  The untrusted OS that runs  *)
(* after handover is an environment actor that issues NV writes with the   *)
(* empty auth value the indices were created with.                         *)
(***************************************************************************)
EXTENDS Naturals, FiniteSets

CONSTANTS
    Backends,           \* backends explored: "tpm" (andr_tpm), "efi" (EFI
                        \*   variables), "tee" (tee_tpm, SBL builds)
    Ivshmem,            \* ivshmem_init outcomes explored: "found", "absent"
                        \*   (EFI_NOT_FOUND), "small" (bar2 too small)
    USER,               \* TRUE for a USER build
    LifeCycle,          \* life_cycle_is_enduser(): "enduser", "other",
                        \*   "unsupported" (EFI_NOT_FOUND) or "error"
    BootDeviceVirtual,  \* is_boot_device_virtual()
    WriteFaults,        \* an NV or EFI variable write may fail
    Slots,              \* rollback index slots the images use
    MaxIndex,           \* largest rollback index an image carries
    MaxBoots,           \* number of boots explored
    EspEfiBinary,       \* the BCB may name an .efi file present on the ESP
                        \*   (check_bcb's ESP_EFI_BINARY target)
    HostileBinary       \* that binary issues TPM NV writes itself

ASSUME Backends \subseteq {"tpm", "efi", "tee"}
ASSUME Ivshmem \subseteq {"found", "absent", "small"}
ASSUME LifeCycle \in {"enduser", "other", "unsupported", "error"}
ASSUME Slots \subseteq 0 .. 7      \* ARRAY_SIZE(tpm2_bootloader_t.rollback_index)
ASSUME MaxBoots \in Nat
ASSUME EspEfiBinary \in BOOLEAN /\ HostileBinary \in BOOLEAN

Values == 0 .. MaxIndex

\* enum device_state, with UNKNOWN_STATE the "not read yet" value
States == {"UNKNOWN", "LOCKED", "UNLOCKED"}

\* Variant storing the unlocked state as 2 instead of OEM_LOCK_UNLOCKED.
StoredOfWrongBit(state) == IF state = "UNLOCKED" THEN 2 ELSE 0

\* stored byte: OEM_LOCK_UNLOCKED = 1, locked = 0
StoredOf(state) == IF state = "UNLOCKED" THEN 1 ELSE 0
StateOf(byte) == IF byte = 1 THEN "UNLOCKED" ELSE "LOCKED"

\* bootloader program points (efi_main, load_image, enter_fastboot_mode)
Pcs == {"ivshmem_init", "tee_init", "cap_check", "bl_check", "bl_define", "bl_write", "seed_check", "seed_define",
        "seed_write", "seed_lock", "set_state", "policy", "verify", "load",
        "fastboot", "binary", "foreign", "os", "stopped"}

NvType == [defined : BOOLEAN, written : BOOLEAN, wlock : BOOLEAN, rlock : BOOLEAN]
NoIndex == [defined |-> FALSE, written |-> FALSE, wlock |-> FALSE, rlock |-> FALSE]

VARIABLES
    backend,        \* the build's backend, fixed for the device's life
    ivshmem,        \* what ivshmem_init finds, fixed for the device's life
    rotAddr,        \* g_ivshmem_rot_addr # 0: ivshmem_init succeeded this boot
    blIdx,          \* NV index 0x01500082 attributes set by the TPM
    seedIdx,        \* NV index 0x01500080 attributes set by the TPM
    lockState,      \* tpm2_bootloader_t.lock_state
    rollback,       \* tpm2_bootloader_t.rollback_index[] / RollbackIndex_%04x
    seed,           \* who wrote the seed: "none", "fused" or "foreign"
    oemLock,        \* OEMLock EFI variable: whether it exists, its byte
    pc,             \* where the bootloader is
    current_state,  \* vars.c cache
    provisioning_mode,
    initErr,        \* tpm2_init failed: boot_target = FASTBOOT
    fbUnlocked,     \* history: the last successful fastboot lock write unlocked
    acked,          \* history: the state of the last set_current_state that
                    \*   returned EFI_SUCCESS ("none" before the first)
    committed,      \* history: per slot, the largest index a rollback index
                    \*   write reported stored
    accepted,       \* history: the indices of the image avb_verify last
                    \*   accepted on a locked device
    boots

vars == <<backend, ivshmem, rotAddr, blIdx, seedIdx, lockState, rollback,
          seed, oemLock, pc, current_state, provisioning_mode, initErr,
          fbUnlocked, acked, committed, accepted, boots>>

tpmVars == <<blIdx, seedIdx, lockState, rollback, seed>>
cacheVars == <<current_state, provisioning_mode>>
hist == <<committed, accepted>>

\* A TPM NV command or SetVariable that changes state either succeeds or,
\* with faults enabled, fails (EFI_DEVICE_ERROR after tpm2_write_nvindex's
\* five retries).
Outcomes == IF WriteFaults THEN BOOLEAN ELSE {TRUE}

\* The stored lock state, "none" while nothing readable was ever stored.
StoredLock ==
    IF backend \in {"tpm", "tee"}
    THEN IF blIdx.written THEN StateOf(lockState) ELSE "none"
    ELSE IF oemLock.exists THEN StateOf(oemLock.byte) ELSE "none"

StartPc == CASE backend = "tpm" -> "cap_check"
            [] backend = "tee" -> "ivshmem_init"
            [] backend = "efi" -> "set_state"

\* Where efi_main goes after the TPM initialisation: an SBL build has no
\* device_need_locked / set_current_state block.
AfterInit == IF backend = "tee" THEN "policy" ELSE "set_state"

-----------------------------------------------------------------------------
(* Device-state reads and writes of vars.c                                 *)

\* tpm2_read_nvindex: TPM2_NV_Read of a missing index is EFI_NOT_FOUND;
\* of an index never written or read-locked it fails with another error
\* (the five retries are for EFI_DEVICE_ERROR only).
tpm2_read_nvindex(idx) ==
    CASE ~idx.defined -> "NOT_FOUND"
      [] ~idx.written \/ idx.rlock -> "ERROR"
      [] OTHER -> "SUCCESS"

\* read_device_state_tpm2: tpm2_read_nvindex of the lock_state byte.
read_device_state_tpm2 == [status |-> tpm2_read_nvindex(blIdx), byte |-> lockState]

\* read_device_state_efi: get_efi_variable of OEMLock; an absent variable
\* is EFI_NOT_FOUND.
read_device_state_efi ==
    [status |-> IF oemLock.exists THEN "SUCCESS" ELSE "NOT_FOUND",
     byte |-> oemLock.byte]

\* ivshmem_rollback_index_interrupt: the request reaches the TEE only when
\* g_ivshmem_rot_addr is set.  Otherwise it returns before writing
\* NOT_READY_MAGIC into req->ret, so the caller finds the ret and payload
\* of its zero-allocated request: EFI_SUCCESS and 0.
TeeAnswers == rotAddr

\* tee_read_device_state_tpm2: the TEE reads the lock_state byte as
\* read_device_state_tpm2 does; unanswered, it is a success with byte 0.
tee_read_device_state_tpm2 ==
    IF TeeAnswers THEN read_device_state_tpm2
    ELSE [status |-> "SUCCESS", byte |-> 0]

\* get_current_state's choice of backend.
read_device_state ==
    CASE backend = "tpm" -> read_device_state_tpm2
      [] backend = "tee" -> tee_read_device_state_tpm2
      [] backend = "efi" -> read_device_state_efi

\* get_current_state: fill the cache on first use.  Returns the new
\* <<current_state, provisioning_mode>>.
get_current_state ==
    LET r == read_device_state IN
    IF current_state # "UNKNOWN" THEN <<current_state, provisioning_mode>>
    ELSE IF r.status = "NOT_FOUND" /\ ~BootDeviceVirtual
    THEN CASE LifeCycle = "unsupported" -> <<"UNLOCKED", TRUE>>
           [] LifeCycle = "error"       -> <<"LOCKED", FALSE>>
           [] LifeCycle = "other"       -> <<"UNLOCKED", TRUE>>
           [] LifeCycle = "enduser"     ->
                IF USER THEN <<"LOCKED", FALSE>> ELSE <<"UNLOCKED", TRUE>>
    ELSE IF r.status # "SUCCESS"
    THEN <<IF USER THEN "LOCKED" ELSE "UNLOCKED", provisioning_mode>>
    ELSE <<StateOf(r.byte), provisioning_mode>>

\* tpm2_bootloader_need_init: TPM2_NV_ReadPublic of the bootloader index
\* returns EFI_NOT_FOUND.
tpm2_bootloader_need_init == ~blIdx.defined

\* device_need_locked: the lock record does not exist yet.
device_need_locked ==
    IF backend = "tpm" THEN tpm2_bootloader_need_init ELSE ~oemLock.exists

\* write_device_state_tpm2: tpm2_write_nvindex of the lock_state byte; the
\* TPM refuses a write to a missing or write-locked index.
write_device_state_tpm2(ok) == ok /\ blIdx.defined /\ ~blIdx.wlock

\* write_device_state_efi: set_efi_variable of OEMLock.
write_device_state_efi(ok) == ok

\* Variant that returns EFI_SUCCESS without looking at req->ret.
tee_write_device_state_tpm2_no_ret(ok) ==
    [stored |-> TeeAnswers /\ write_device_state_tpm2(ok), status |-> TRUE]

\* tee_write_device_state_tpm2: the TEE writes as write_device_state_tpm2
\* does; unanswered, req->ret stays 0 and the write reports success.
tee_write_device_state_tpm2(ok) ==
    [stored |-> TeeAnswers /\ write_device_state_tpm2(ok),
     status |-> ~TeeAnswers \/ write_device_state_tpm2(ok)]

\* Whether a lock-state write with outcome ok changes the store.
write_device_state_ok(ok) ==
    CASE backend = "tpm" -> write_device_state_tpm2(ok)
      [] backend = "tee" -> tee_write_device_state_tpm2(ok).stored
      [] backend = "efi" -> write_device_state_efi(ok)

\* Whether it returns EFI_SUCCESS to set_current_state.
write_device_state_status(ok) ==
    IF backend = "tee" THEN tee_write_device_state_tpm2(ok).status
    ELSE write_device_state_ok(ok)

\* read_rollback_index_tpm2: tpm2_read_nvindex of the slot's eight bytes
\* in the bootloader index.
read_rollback_index_tpm2(s) ==
    [ok |-> tpm2_read_nvindex(blIdx) = "SUCCESS", value |-> rollback[s]]

\* read_efi_rollback_index: get_efi_variable of RollbackIndex_%04x; an
\* absent variable is EFI_NOT_FOUND, which the verifier takes as index 0,
\* the value a factory-fresh store holds.
read_efi_rollback_index(s) == [ok |-> TRUE, value |-> rollback[s]]

\* tee_read_rollback_index_tpm2 never copies the slot into the payload of
\* its zero-allocated request: the TEE answers for slot 0, and an
\* unanswered request reads as EFI_SUCCESS and 0.
tee_read_rollback_index_tpm2 ==
    IF TeeAnswers
    THEN [ok |-> tpm2_read_nvindex(blIdx) = "SUCCESS",
          value |-> IF 0 \in Slots THEN rollback[0] ELSE 0]
    ELSE [ok |-> TRUE, value |-> 0]

read_rollback_index(s) ==
    CASE backend = "tpm" -> read_rollback_index_tpm2(s)
      [] backend = "efi" -> read_efi_rollback_index(s)
      [] backend = "tee" -> tee_read_rollback_index_tpm2

\* write_rollback_index_tpm2 (tpm2_write_nvindex into the slot's eight
\* bytes) and write_efi_rollback_index (set_efi_variable): whether the store
\* takes the index, which is also what the call returns.
write_rollback_index_ok(ok) ==
    IF backend = "tpm" THEN ok /\ blIdx.defined /\ ~blIdx.wlock ELSE ok

\* tee_write_rollback_index_tpm2 copies neither the slot nor the index into
\* its zero-allocated payload: the TEE is asked to store 0 in slot 0, which
\* a store that refuses decreases leaves as it is.  The status is the
\* TEE's, or EFI_SUCCESS when the request went unanswered.
tee_write_rollback_index_tpm2(ok) == [ok |-> ok \/ ~TeeAnswers, store |-> rollback]

\* Variant that reports a failed write of the TPM or EFI store as done.
write_rollback_index_ignore_status(img, ok) ==
    LET raised == [s \in Slots |-> IF img[s] > rollback[s] THEN img[s] ELSE rollback[s]]
    IN  CASE backend = "tee" -> tee_write_rollback_index_tpm2(ok)
          [] write_rollback_index_ok(ok) -> [ok |-> TRUE, store |-> raised]
          [] OTHER -> [ok |-> TRUE, store |-> rollback]

\* The store and the status after write_rollback_index(s, v) for each slot
\* the image raises.
write_rollback_index(img, ok) ==
    LET raised == [s \in Slots |-> IF img[s] > rollback[s] THEN img[s] ELSE rollback[s]]
    IN  CASE backend = "tee" -> tee_write_rollback_index_tpm2(ok)
          [] write_rollback_index_ok(ok) -> [ok |-> TRUE, store |-> raised]
          [] OTHER -> [ok |-> FALSE, store |-> rollback]

\* The store side of a lock-state write that the backend took.
StoreLock(state, done) ==
    IF backend \in {"tpm", "tee"}
    THEN /\ lockState' = IF done THEN StoredOf(state) ELSE lockState
         /\ blIdx' = IF done THEN [blIdx EXCEPT !.written = TRUE] ELSE blIdx
         /\ UNCHANGED oemLock
    ELSE /\ oemLock' = IF done THEN [exists |-> TRUE, byte |-> StoredOf(state)]
                        ELSE oemLock
         /\ UNCHANGED <<lockState, blIdx>>

\* Variant that updates the cache before, and whatever the outcome of,
\* the backend write.
set_current_state_cache_first(state, ok) ==
    /\ current_state' = state
    /\ acked' = IF write_device_state_status(ok) THEN state ELSE acked
    /\ StoreLock(state, write_device_state_ok(ok))

\* set_current_state(state): write the backend, then, when it returned
\* EFI_SUCCESS only, the cache.
set_current_state(state, ok) ==
    LET ret == write_device_state_status(ok) IN
    /\ current_state' = IF ret THEN state ELSE current_state
    /\ acked' = IF ret THEN state ELSE acked
    /\ StoreLock(state, write_device_state_ok(ok))

\* Variant of tpm2_end without TPM2_NV_WriteLock of the bootloader index.
tpm2_end_no_write_lock ==
    IF backend = "tpm"
    THEN /\ seedIdx' = [seedIdx EXCEPT !.rlock = @ \/ seedIdx.defined]
         /\ blIdx' = [blIdx EXCEPT !.rlock = @ \/ blIdx.defined]
    ELSE UNCHANGED <<seedIdx, blIdx>>

\* tpm2_end: read-lock the seed, read- and write-lock the bootloader index;
\* the locks of an index that does not exist fail and are ignored.
tpm2_end ==
    IF backend = "tpm"
    THEN /\ seedIdx' = [seedIdx EXCEPT !.rlock = @ \/ seedIdx.defined]
         /\ blIdx' = [blIdx EXCEPT !.rlock = @ \/ blIdx.defined,
                                   !.wlock = @ \/ blIdx.defined]
    ELSE UNCHANGED <<seedIdx, blIdx>>

\* tee_tpm2_end: the TEE read- and write-locks the bootloader record; the
\* seed stays inside the TEE.  Unanswered, nothing is locked.
tee_tpm2_end ==
    /\ blIdx' = IF TeeAnswers
                THEN [blIdx EXCEPT !.rlock = @ \/ blIdx.defined,
                                   !.wlock = @ \/ blIdx.defined]
                ELSE blIdx
    /\ UNCHANGED seedIdx

\* load_image: "Make sure the TPM2 is ended".
end_store == IF backend = "tee" THEN tee_tpm2_end ELSE tpm2_end

-----------------------------------------------------------------------------
(* tpm2_init: tpm2_check_bootloader_index, tpm2_check_trusty_seed_index    *)
(* and the fuse steps they call, one TPM command per step.                 *)

\* Failure of any tpm2_init step: efi_main enters fastboot mode.
InitFails ==
    /\ initErr' = TRUE
    /\ pc' = AfterInit

\* tpm2_check_cap_permanent: TPM2_GetCapability of TPM_PT_PERMANENT; a
\* failed call fails tpm2_init, while unset lockout or owner
\* authorisations are only reported.
tpm2_check_cap_permanent ==
    /\ pc = "cap_check"
    /\ \E ok \in Outcomes :
        IF ok THEN pc' = "bl_check" /\ UNCHANGED initErr ELSE InitFails
    /\ UNCHANGED <<tpmVars, oemLock, cacheVars, fbUnlocked, rotAddr, acked, hist, boots>>

\* tpm2_check_bootloader_index: fuse a missing index; an existing one must
\* have its struct_ver readable by tpm2_read_nvindex, which fails while it
\* was never written.
tpm2_check_bootloader_index ==
    /\ pc = "bl_check"
    /\ CASE tpm2_read_nvindex(blIdx) = "NOT_FOUND" -> pc' = "bl_define" /\ UNCHANGED initErr
         [] tpm2_read_nvindex(blIdx) = "ERROR" -> InitFails
         [] OTHER -> pc' = "seed_check" /\ UNCHANGED initErr
    /\ UNCHANGED <<tpmVars, oemLock, cacheVars, fbUnlocked, rotAddr, acked, hist, boots>>

\* tpm2_create_nvindex: TPM2_NV_DefineSpace under owner authorization with
\* an empty auth value.  The TPM refuses an index that already exists
\* (TPM_RC_NV_DEFINED); a new one is defined, unwritten and unlocked.
tpm2_create_nvindex(idx, ok) ==
    [ok |-> ok /\ ~idx.defined, idx |-> [NoIndex EXCEPT !.defined = TRUE]]

\* tpm2_fuse_bootloader, tpm2_create_nvindex of the bootloader index.
tpm2_fuse_bootloader_define ==
    /\ pc = "bl_define"
    /\ \E ok \in Outcomes :
        LET r == tpm2_create_nvindex(blIdx, ok) IN
        IF r.ok THEN /\ blIdx' = r.idx
                     /\ pc' = "bl_write" /\ UNCHANGED initErr
        ELSE InitFails /\ UNCHANGED blIdx
    /\ UNCHANGED <<seedIdx, lockState, rollback, seed, oemLock, cacheVars,
                   fbUnlocked, rotAddr, acked, hist, boots>>

\* tpm2_fuse_bootloader, TPM2_NV_Write of the whole record with
\* lock_state = UNLOCKED and zero rollback indices, then the read-back.
tpm2_fuse_bootloader_write ==
    /\ pc = "bl_write"
    /\ \E ok \in Outcomes :
        IF ok THEN /\ blIdx' = [blIdx EXCEPT !.written = TRUE]
                   /\ lockState' = StoredOf("UNLOCKED")
                   /\ rollback' = [s \in Slots |-> 0]
                   /\ pc' = "seed_check" /\ UNCHANGED initErr
        ELSE InitFails /\ UNCHANGED <<blIdx, lockState, rollback>>
    /\ UNCHANGED <<seedIdx, seed, oemLock, cacheVars, fbUnlocked, rotAddr, acked, hist, boots>>

\* tpm2_check_trusty_seed_index: fuse the seed when its index is missing.
tpm2_check_trusty_seed_index ==
    /\ pc = "seed_check"
    /\ pc' = IF seedIdx.defined THEN "set_state" ELSE "seed_define"
    /\ UNCHANGED <<tpmVars, oemLock, cacheVars, initErr, fbUnlocked, rotAddr, acked, hist, boots>>

\* tpm2_fuse_trusty_seed: Tpm2GetRandom, then tpm2_create_nvindex of the
\* seed index (a failure of either is a failed step).
tpm2_fuse_trusty_seed_define ==
    /\ pc = "seed_define"
    /\ \E ok \in Outcomes :
        LET r == tpm2_create_nvindex(seedIdx, ok) IN
        IF r.ok THEN /\ seedIdx' = r.idx
                     /\ pc' = "seed_write" /\ UNCHANGED initErr
        ELSE InitFails /\ UNCHANGED seedIdx
    /\ UNCHANGED <<blIdx, lockState, rollback, seed, oemLock, cacheVars,
                   fbUnlocked, rotAddr, acked, hist, boots>>

\* create_index_and_write_lock, TPM2_NV_Write of the random seed.
tpm2_fuse_trusty_seed_write ==
    /\ pc = "seed_write"
    /\ \E ok \in Outcomes :
        IF ok THEN /\ seedIdx' = [seedIdx EXCEPT !.written = TRUE]
                   /\ seed' = "fused"
                   /\ pc' = "seed_lock" /\ UNCHANGED initErr
        ELSE InitFails /\ UNCHANGED <<seedIdx, seed>>
    /\ UNCHANGED <<blIdx, lockState, rollback, oemLock, cacheVars,
                   fbUnlocked, rotAddr, acked, hist, boots>>

\* create_index_and_write_lock, TPM2_NV_WriteLock (permanent under
\* WRITEDEFINE), then tpm2_fuse_trusty_seed's read-back and compare.
tpm2_fuse_trusty_seed_lock ==
    /\ pc = "seed_lock"
    /\ \E ok \in Outcomes :
        IF ok THEN /\ seedIdx' = [seedIdx EXCEPT !.wlock = TRUE]
                   /\ pc' = "set_state" /\ UNCHANGED initErr
        ELSE InitFails /\ UNCHANGED seedIdx
    /\ UNCHANGED <<blIdx, lockState, rollback, seed, oemLock, cacheVars,
                   fbUnlocked, rotAddr, acked, hist, boots>>

-----------------------------------------------------------------------------
(* tee_tpm: ivshmem_init, then tee_tpm2_init                               *)

\* ivshmem_get_dev_func: the ivshmem PCI device is on bus 0.
ivshmem_get_dev_func == ivshmem # "absent"

\* ivshmem_init sets g_ivshmem_rot_addr only when the device is found and
\* bar2 is large enough.  efi_main ignores EFI_NOT_FOUND and enters
\* fastboot mode on any other error.
ivshmem_init ==
    /\ pc = "ivshmem_init"
    /\ rotAddr' = (ivshmem_get_dev_func /\ ivshmem # "small")
    /\ initErr' = (ivshmem_get_dev_func /\ ivshmem = "small")
    /\ pc' = "tee_init"
    /\ UNCHANGED <<tpmVars, oemLock, cacheVars, fbUnlocked, acked, hist, boots>>

\* tee_tpm2_init: TEE_TPM2_INIT.  The TEE keeps tpm2_init's contract: it
\* creates a missing bootloader record with lock_state = UNLOCKED, and
\* fails on one that was never written.  Unanswered, the request succeeds.
tee_tpm2_init ==
    /\ pc = "tee_init"
    /\ IF ~TeeAnswers \/ blIdx.written
       THEN pc' = AfterInit /\ UNCHANGED <<blIdx, lockState, rollback, initErr>>
       ELSE IF blIdx.defined
       THEN InitFails /\ UNCHANGED <<blIdx, lockState, rollback>>
       ELSE \E ok \in Outcomes :
            IF ok THEN /\ blIdx' = [blIdx EXCEPT !.defined = TRUE, !.written = TRUE]
                       /\ lockState' = StoredOf("UNLOCKED")
                       /\ rollback' = [s \in Slots |-> 0]
                       /\ pc' = AfterInit /\ UNCHANGED initErr
            ELSE InitFails /\ UNCHANGED <<blIdx, lockState, rollback>>
    /\ UNCHANGED <<seedIdx, seed, oemLock, cacheVars, rotAddr, fbUnlocked,
                   acked, hist, boots>>

-----------------------------------------------------------------------------
(* efi_main after tpm2_init, load_image and the fastboot loop              *)

\* Variant applying the userdebug "set unlocked by default" to every build.
efi_main_set_state_always_unlocked ==
    /\ pc = "set_state"
    /\ \E ok \in Outcomes : set_current_state("UNLOCKED", ok)
    /\ pc' = "policy"
    /\ UNCHANGED <<seedIdx, rollback, seed, provisioning_mode, initErr,
                   fbUnlocked, rotAddr, hist, boots>>

\* efi_main: need_lock = device_need_locked(); a non-USER build then
\* writes UNLOCKED, a USER build writes LOCKED when need_lock.
efi_main_set_state ==
    /\ pc = "set_state"
    /\ \E ok \in Outcomes :
        IF ~USER THEN set_current_state("UNLOCKED", ok)
        ELSE IF device_need_locked THEN set_current_state("LOCKED", ok)
        ELSE UNCHANGED <<lockState, blIdx, oemLock, current_state, acked>>
    /\ pc' = "policy"
    /\ UNCHANGED <<seedIdx, rollback, seed, provisioning_mode, initErr,
                   fbUnlocked, rotAddr, hist, boots>>

\* efi_main: device_is_unlocked() and device_is_provisioning() fill the
\* cache; a tpm2_init failure, or provisioning on a USER build, forces
\* fastboot; otherwise choose_boot_target's result decides: a kernel, an
\* EFI binary on the ESP, or fastboot.
efi_main_check_state ==
    /\ pc = "policy"
    /\ LET g == get_current_state IN
        /\ current_state' = g[1]
        /\ provisioning_mode' = g[2]
        /\ pc' \in IF initErr \/ (USER /\ g[2]) THEN {"fastboot"}
                   ELSE {"verify", "fastboot"} \cup
                        (IF EspEfiBinary THEN {"binary"} ELSE {})
    /\ UNCHANGED <<tpmVars, oemLock, initErr, fbUnlocked, rotAddr, acked, hist, boots>>

\* AVB verification of the boot image: a locked device reads the stored
\* rollback index of every slot, stops in the red state (boot_error powers
\* off) when a read fails or a stored index is above the image's, and
\* otherwise raises the stored ones.  An unlocked device boots orange
\* without either.
avb_verify ==
    /\ pc = "verify"
    /\ IF current_state = "LOCKED"
       THEN \E img \in [Slots -> Values], ok \in Outcomes :
            LET rd == [s \in Slots |-> read_rollback_index(s)]
                w == write_rollback_index(img, ok)
            IN  IF \E s \in Slots : ~rd[s].ok \/ img[s] < rd[s].value
                THEN pc' = "stopped" /\ UNCHANGED <<rollback, hist>>
                ELSE /\ rollback' = w.store
                     /\ committed' = IF w.ok
                                     THEN [s \in Slots |-> IF img[s] > committed[s]
                                                           THEN img[s] ELSE committed[s]]
                                     ELSE committed
                     /\ accepted' = img
                     /\ pc' = "load"
       ELSE pc' = "load" /\ UNCHANGED <<rollback, hist>>
    /\ UNCHANGED <<blIdx, seedIdx, lockState, seed, oemLock, cacheVars,
                   initErr, fbUnlocked, rotAddr, acked, boots>>

\* load_image: tpm2_end, then android_image_start_buffer, which either
\* hands over to the kernel or returns, after which efi_main reboots.
load_image ==
    /\ pc = "load"
    /\ end_store
    /\ \E started \in BOOLEAN : pc' = IF started THEN "os" ELSE "stopped"
    /\ UNCHANGED <<lockState, rollback, seed, oemLock, cacheVars, initErr,
                   fbUnlocked, rotAddr, acked, hist, boots>>

\* fastboot flashing lock / unlock: set_current_state from the fastboot
\* command loop.
fastboot_set_lock(state) ==
    /\ pc = "fastboot"
    /\ \E ok \in Outcomes :
        /\ set_current_state(state, ok)
        /\ fbUnlocked' = IF write_device_state_status(ok)
                         THEN state = "UNLOCKED" ELSE fbUnlocked
    /\ UNCHANGED <<seedIdx, rollback, seed, pc, provisioning_mode, initErr,
                   rotAddr, hist, boots>>

\* enter_fastboot_mode, "fastboot boot": only an unlocked device runs
\* load_image, which seals the TPM and may return into the loop.
enter_fastboot_mode_boot ==
    /\ pc = "fastboot"
    /\ current_state = "UNLOCKED"
    /\ end_store
    /\ \E started \in BOOLEAN : pc' = IF started THEN "os" ELSE "fastboot"
    /\ UNCHANGED <<lockState, rollback, seed, oemLock, cacheVars, initErr,
                   fbUnlocked, rotAddr, acked, hist, boots>>

\* efi_main, boot_target == ESP_EFI_BINARY ("EFI binaries are validated by
\* the BIOS"): uefi_enter_binary starts the binary with no tpm2_end before
\* it, so it runs with the NV indices as the bootloader left them; when it
\* returns, efi_main reboots.
efi_main_enter_binary ==
    /\ pc = "binary"
    /\ pc' = "foreign"
    /\ UNCHANGED <<tpmVars, oemLock, cacheVars, initErr, fbUnlocked, rotAddr,
                   acked, hist, boots>>

-----------------------------------------------------------------------------
(* Environment: the OS after handover, the EFI binary, and resets          *)

\* TPM2_NV_Write by the OS with the index's empty auth value; the TPM
\* refuses it (TPM_RC_NV_LOCKED) while the index is write-locked.
NvWritable(idx) == idx.defined /\ ~idx.wlock

\* Code that is not the bootloader runs: the kernel after handover, or an
\* EFI binary that issues TPM commands of its own.
Foreign == pc = "os" \/ (pc = "foreign" /\ HostileBinary)

OsWriteLockState(v) ==
    /\ Foreign /\ backend = "tpm"
    /\ IF NvWritable(blIdx)
       THEN /\ lockState' = v
            /\ blIdx' = [blIdx EXCEPT !.written = TRUE]
       ELSE UNCHANGED <<lockState, blIdx>>
    /\ UNCHANGED <<seedIdx, rollback, seed, oemLock, pc, cacheVars, initErr,
                   fbUnlocked, rotAddr, acked, hist, boots>>

OsWriteRollbackIndex(s, v) ==
    /\ Foreign /\ backend = "tpm"
    /\ IF NvWritable(blIdx)
       THEN /\ rollback' = [rollback EXCEPT ![s] = v]
            /\ blIdx' = [blIdx EXCEPT !.written = TRUE]
       ELSE UNCHANGED <<rollback, blIdx>>
    /\ UNCHANGED <<seedIdx, lockState, seed, oemLock, pc, cacheVars, initErr,
                   fbUnlocked, rotAddr, acked, hist, boots>>

OsWriteTrustySeed ==
    /\ Foreign /\ backend = "tpm"
    /\ IF NvWritable(seedIdx)
       THEN /\ seed' = "foreign"
            /\ seedIdx' = [seedIdx EXCEPT !.written = TRUE]
       ELSE UNCHANGED <<seed, seedIdx>>
    /\ UNCHANGED <<blIdx, lockState, rollback, oemLock, pc, cacheVars, initErr,
                   fbUnlocked, rotAddr, acked, hist, boots>>

\* Reset, crash or power cycle at any point: TPM Restart clears the
\* READ_STCLEAR and WRITE_STCLEAR locks but not a WRITEDEFINE write lock;
\* the bootloader's statics start over.
Reboot ==
    /\ boots < MaxBoots
    /\ blIdx' = [blIdx EXCEPT !.rlock = FALSE, !.wlock = FALSE]
    /\ seedIdx' = [seedIdx EXCEPT !.rlock = FALSE]
    /\ pc' = StartPc
    /\ rotAddr' = FALSE
    /\ current_state' = "UNKNOWN"
    /\ provisioning_mode' = FALSE
    /\ initErr' = FALSE
    /\ boots' = boots + 1
    /\ UNCHANGED <<lockState, rollback, seed, oemLock, fbUnlocked, acked, hist>>

\* The last explored boot has handed over or stopped.
Done ==
    /\ boots = MaxBoots
    /\ pc \in {"os", "foreign", "stopped"}
    /\ UNCHANGED vars

-----------------------------------------------------------------------------
\* A factory-fresh device: no NV index, no OEMLock variable.
Init ==
    /\ backend \in Backends
    /\ ivshmem \in Ivshmem
    /\ rotAddr = FALSE
    /\ blIdx = NoIndex
    /\ seedIdx = NoIndex
    /\ lockState = 0
    /\ rollback = [s \in Slots |-> 0]
    /\ seed = "none"
    /\ oemLock = [exists |-> FALSE, byte |-> 0]
    /\ pc = StartPc
    /\ current_state = "UNKNOWN"
    /\ provisioning_mode = FALSE
    /\ initErr = FALSE
    /\ fbUnlocked = FALSE
    /\ acked = "none"
    /\ committed = [s \in Slots |-> 0]
    /\ accepted = [s \in Slots |-> 0]
    /\ boots = 0

Next ==
  /\ UNCHANGED <<backend, ivshmem>>
  /\ \/ ivshmem_init
     \/ tee_tpm2_init
     \/ tpm2_check_cap_permanent
     \/ tpm2_check_bootloader_index
     \/ tpm2_fuse_bootloader_define
     \/ tpm2_fuse_bootloader_write
     \/ tpm2_check_trusty_seed_index
     \/ tpm2_fuse_trusty_seed_define
     \/ tpm2_fuse_trusty_seed_write
     \/ tpm2_fuse_trusty_seed_lock
     \/ efi_main_set_state
     \/ efi_main_check_state
     \/ avb_verify
     \/ load_image
     \/ \E st \in {"LOCKED", "UNLOCKED"} : fastboot_set_lock(st)
     \/ enter_fastboot_mode_boot
     \/ efi_main_enter_binary
     \/ \E v \in {0, 1} : OsWriteLockState(v)
     \/ \E s \in Slots, v \in Values : OsWriteRollbackIndex(s, v)
     \/ OsWriteTrustySeed
     \/ Reboot
     \/ Done

Spec == Init /\ [][Next]_vars

-----------------------------------------------------------------------------
(* Properties                                                              *)

TypeOK ==
    /\ blIdx \in NvType /\ seedIdx \in NvType
    /\ lockState \in {0, 1}
    /\ rollback \in [Slots -> Values]
    /\ seed \in {"none", "fused", "foreign"}
    /\ oemLock \in [exists : BOOLEAN, byte : {0, 1}]
    /\ backend \in Backends /\ ivshmem \in Ivshmem /\ rotAddr \in BOOLEAN
    /\ acked \in {"none", "LOCKED", "UNLOCKED"}
    /\ pc \in Pcs
    /\ current_state \in States
    /\ provisioning_mode \in BOOLEAN /\ initErr \in BOOLEAN
    /\ fbUnlocked \in BOOLEAN
    /\ committed \in [Slots -> Values] /\ accepted \in [Slots -> Values]
    /\ boots \in 0 .. MaxBoots

\* The cached current_state of vars.c never disagrees with the stored lock
\* byte while the bootloader runs: set_current_state must only update the
\* cache after the backend accepted the write, and the fuse path writes
\* the store only while the cache is still unread.
CacheCoherent ==
    (pc \notin {"os", "foreign"} /\ current_state # "UNKNOWN" /\ StoredLock # "none")
        => current_state = StoredLock

\* On a USER build the bootloader treats the device as unlocked only in
\* provisioning mode or after a successful "fastboot flashing unlock" that
\* was not followed by a successful lock: efi_main's first-boot code is to
\* leave a new device LOCKED ("set device to LOCKED state by default on
\* the first boot").
OnlyFastbootUnlocks ==
    (USER /\ current_state = "UNLOCKED") => (provisioning_mode \/ fbUnlocked)

\* The same promise on the EFI-variable backend, where first boot creates
\* OEMLock as LOCKED before anything reads it (the TPM backend breaks it,
\* see run dss_tpm_first_boot).
EfiOnlyFastbootUnlocks == backend = "efi" => OnlyFastbootUnlocks

\* A lock or unlock that set_current_state reported as done is the state
\* the store holds, across resets, the OS and later boots, until the next
\* reported write: fastboot answers OKAY to "flashing lock" only after
\* set_current_state returned EFI_SUCCESS, and the next boot reads the
\* state back with get_current_state.
AckedStateStored == acked # "none" => StoredLock = acked

\* The trusty seed is only ever written by tpm2_fuse_trusty_seed: after
\* handover the seed index must be write-locked, as spec.md 4.3 asks of
\* seal() ("the trusty_seed index both read- and write-locked").
SeedIntegrity == seed # "foreign"

\* Anti-rollback: once write_rollback_index reported an image's index as
\* stored, a locked device never again accepts an image with a lower one
\* in that slot, across resets, faults and the OS (spec.md 4.4: the store
\* is compared with the image's indices, and a raised index is written).
\* On the andr_tpm and EFI backends, where the write carries its slot and
\* index.
RollbackRefused ==
    [][backend # "tee" /\ pc = "verify" /\ pc' = "load" /\ current_state = "LOCKED"
         => \A s \in Slots : accepted'[s] >= committed[s]]_vars

\* The same promise on every backend (tee_tpm breaks it: the TEE requests
\* carry neither slot nor index; see DeviceStateStore_tee_rollback.cfg).
RollbackRefusedAll ==
    [][pc = "verify" /\ pc' = "load" /\ current_state = "LOCKED"
         => \A s \in Slots : accepted'[s] >= committed[s]]_vars

\* The store refines AbsDeviceStore: updated only while the bootloader
\* runs (the OS finds the bootloader index write-locked by tpm2_end) and
\* rollback indices never decrease.
AbsStore == INSTANCE AbsDeviceStore
    WITH store <- [lock |-> StoredLock, rollback |-> rollback],
         sealed <- (pc = "os")

StoreRefinement == AbsStore!Spec

=============================================================================
