# TLA+ models of kernelflinger

kernelflinger is the UEFI bootloader of Android on Intel platforms. It
chooses a boot target, verifies and loads the Android boot image, and keeps
the device's security state: whether the device is locked, the AVB rollback
indices, and the Trusty seed. This directory holds TLA+ models of the parts
of `src/` that have state worth model-checking, the TLC configurations that
check them, and `PROJECT.json`. That file maps every definition to the source
lines it models and lists the runs, the mutants, the findings and the hazards.

## The system's parts and how they interact

| Part | Source | State | Interacts with |
|---|---|---|---|
| efi_main flow | `kernelflinger.c` `efi_main` | the boot target, `need_lock`, the boot state | everything below |
| Device-state store | `tpm2_security.c`, `vars.c` | TPM NV indices (bootloader: lock state and rollback indices; trusty seed), their attributes and per-boot read and write locks, or the `OEMLock` and rollback EFI variables; the per-boot cache `current_state` / `provisioning_mode` | efi_main, fastboot lock/unlock, AVB rollback check, load_image (seal), the OS after handover |
| TEE forwarding | `ivshmem.c`, the `tee_*` functions in `tpm2_security.c` | a 4 KiB shared request page and a doorbell | a TEE peer that owns the TPM on virtual platforms |
| Boot-target policy | `kernelflinger.c` `choose_boot_target` and the `check_*` functions | BCB in `misc`, `LoaderEntryOneShot`, reboot reason, the watchdog counter and time reference | efi_main, android.c BCB I/O, vars.c |
| A/B slots | `kernelflinger.c` `disable_slot_if_efi_loaded_slot_failed`, `reboot_if_slot_is_different`, `avb_load_verify_boot_image`; the `LoadedSlot` variables of `vars.c`; slot.c and libavb (not in the repository) | the A/B metadata in `misc` (priority, tries, successful per slot); the volatile `LoadedSlot` and `LoadedSlotFailed_%04x` that kfld, the stage before, sets | efi_main, fastboot `set_active`, Android marking a slot successful |
| Watchdog | `check_watchdog`, the watchdog functions of `vars.c` | `WatchdogCounter` (UINT8), `WatchdogTimeReference` | boot-target policy |
| Kernel handover | `android.c` | the boot image, command line, bootconfig; `boot_params` with its E820 map and `efi_info`; the firmware's memory map and its key | load_image, the firmware's boot services |
| GPT | `gpt.c` | primary and backup headers and entry arrays | fastboot flashing, partition lookup |
| Flashing | `unnamed/part_000` (flash.c) | `cur_offset` within the target partition | fastboot |
| Keymaster IPC | `unnamed/part_001` | `km_chan`, the `initialized` flag, the response buffer and `resp_len` during frame reassembly | the Trusty keymaster (root of trust, patchlevel, attestation ids), its caller outside the repository |
| XDCI driver | `libefiusb/device_mode/XdciDWC.c` | event ring, read pointer, `InterrupProcessing` | fastboot over USB |

The store is the part whose mistakes cost the most, and the part where
interleavings matter. Every TPM command is a separate NV operation, and the
device can reset between any two of them. After the bootloader hands over,
the operating system can issue its own TPM commands against whatever the
bootloader left unlocked. That is where this first module starts.

## Modules

### `DeviceStateStore` (with `MC_DeviceStateStore`)

The state of the store and of one boot of `efi_main`.

- Variables:
  - `blIdx` and `seedIdx`: the bootloader and trusty-seed NV indices. Each is
    a record `[defined, written, wlock, rlock]`. `wlock` of the seed models
    the permanent WRITEDEFINE lock. The other locks are the STCLEAR kind and
    are cleared by a reset.
  - `lockState` and `rollback`: the contents of the bootloader index.
  - `seed`: `"none"`, `"fused"` (written by the bootloader), or `"foreign"`
    (overwritten by the OS).
  - `oemLock`: the `OEMLock` EFI variable of the EFI backend.
  - `current_state` and `provisioning_mode`: the static cache of `vars.c`.
  - `initErr`: `tpm2_init` failed.
  - `pc`: where `efi_main` is.
  - `fbUnlocked`: a ghost that records a successful `fastboot flashing unlock`.
  - `acked`: a ghost that records the state of the last `set_current_state`
    that returned `EFI_SUCCESS`.
  - `committed`: a ghost that records, per slot, the largest rollback index
    that a rollback write reported stored.
  - `accepted`: a ghost that records the indices of the image that the last
    locked boot accepted.
  - `ivshmem` and `rotAddr`: what `ivshmem_init` finds on this hardware
    (fixed), and whether it set `g_ivshmem_rot_addr` in this boot.
  - `boots`: counts the resets.
- Constants select the build:
  - `Backends` is the set of backends explored: `"tpm"` (andr_tpm), `"efi"`,
    and `"tee"` (tee_tpm, which only the SBL build's command line sets). The
    variable `backend` takes one of them in `Init` and never changes.
  - `Ivshmem` is the set of `ivshmem_init` outcomes explored: `"found"`,
    `"absent"` (`EFI_NOT_FOUND`, which `efi_main` ignores) and `"small"`
    (bar2 too small, which sends `efi_main` to fastboot).
  - `USER` is a user build.
  - `LifeCycle` is the answer of `get_life_cycle_state`.
  - `BootDeviceVirtual`.
  - `WriteFaults` lets any NV or variable write fail, and the
    `TPM2_GetCapability` of `tpm2_init`.
  - `Slots` and `MaxIndex` bound the rollback indices.
  - `MaxBoots` bounds the resets.
  - `EspEfiBinary` lets the BCB name an `.efi` file on the ESP (the
    `ESP_EFI_BINARY` target of `check_bcb`), and `HostileBinary` lets that
    binary issue NV writes of its own.
- Actions: `tpm2_init` is split into its TPM commands:
  - `tpm2_check_cap_permanent`;
  - `tpm2_check_bootloader_index`, which reads `struct_ver` with
    `tpm2_read_nvindex` (the same read as `read_device_state_tpm2`);
  - `tpm2_fuse_bootloader_define` and `_write`; both define steps go
    through `tpm2_create_nvindex`, which the TPM refuses for an index that
    exists;
  - `tpm2_check_trusty_seed_index`;
  - `tpm2_fuse_trusty_seed_define`, `_write` and `_lock`.

  On the TEE backend, `ivshmem_init` and `tee_tpm2_init` come first, and each
  TEE request is one step. `TeeAnswers` is the early return of
  `ivshmem_rollback_index_interrupt`. When `g_ivshmem_rot_addr` is 0, the
  request never reaches the TEE, and the caller reads the zeroed `ret` of its
  request as `EFI_SUCCESS`. The TEE side is not under `src/`. Following
  spec.md 4.3 ("contract identical"), it keeps the same record as the TPM
  path, and `tee_tpm2_end` seals it. The SBL build has no
  `device_need_locked` block, so `AfterInit` skips `efi_main_set_state` there.

  The other actions model `efi_main` and the calls it makes:
  - `efi_main_set_state`: the `need_lock` block;
  - `efi_main_check_state`: the `device_is_provisioning` / `get_current_state`
    checks that pick the boot path;
  - `avb_verify`: the rollback check and update of the verifier. The
    verifier (libavb and its ops) is not under `src/` and is modelled from
    spec.md 4.4. The store calls it makes are translated per backend:
    `read_rollback_index_tpm2`, `read_efi_rollback_index` and
    `tee_read_rollback_index_tpm2` for the read, and
    `write_rollback_index_ok` and `tee_write_rollback_index_tpm2` for the
    write. A failed read stops the boot in the red state. The TEE requests
    never carry their slot or index (run `dss_tee_rollback`). The TEE side
    is not under `src/`; the model lets it refuse the decrease to 0 that it
    is asked for, as spec.md 4.3 asks of the store;
  - `load_image`: seals with `tpm2_end` and starts the kernel;
  - `fastboot_set_lock`: `fastboot flashing lock/unlock`;
  - `enter_fastboot_mode_boot`: `fastboot boot`, which seals and may come back;
  - `efi_main_enter_binary`: the `ESP_EFI_BINARY` branch of `efi_main`.
    `uefi_enter_binary` starts the binary with no `tpm2_end` before it
    (pc `"foreign"`), and `efi_main` reboots when it returns.

  The environment has three actions:
  - `Os*`: the OS after handover, or an EFI binary when `HostileBinary`
    holds (`Foreign`). It tries NV writes with the empty auth value
    that the indices were created with, and they succeed only on an index that
    is not write-locked.
  - `Reboot`: a reset at any point. It clears the STCLEAR locks and every
    per-boot variable.
  - `Done`: the end of the bounded run.
- `StoreRefinement` checks that the store refines `AbsDeviceStore`.

### `AbsDeviceStore`

The promise of spec.md 4.3, written as an abstract store:
- the lock state and the rollback indices change only while unsealed;
- the seal lasts until a reset;
- rollback indices never decrease.

The refinement mapping sends the store to `[lock, rollback]` and `sealed` to
"the OS is running".

### `Watchdog` (with `MC_Watchdog`)

This module models the crash-event watchdog across boots.

Variables:
- `wdtCounter` is the stored `WatchdogCounter`, with 0 meaning the variable
  is absent.
- `wdtTimeRef` is `WatchdogTimeReference`.
- `rebootReason` is `LoaderEntryRebootReason`, abstracted to what
  `is_reboot_reason`'s `StrStr` tests: "panic", "shutdown", other, or none.
  `is_reboot_reason` is an operator; `get_reboot_reason` reads the variable
  once per boot, and the model reads it in the one step that uses it.
- `resetSource` is the RSCI reset source.
- `clock` is the RTC.
- `counter`, `now` and `after` are the locals of `check_watchdog`.

Actions:
- `check_watchdog` is the read-and-decide step.
- `check_watchdog_set_time_ref` and `check_watchdog_set_counter` are its two
  writes.
- `reset_watchdog_status` is split into two steps, one per variable it
  deletes.
- `get_boot_reason` is the delete on the kernel-load path.
- The environment resets the device by:
  - a kernel panic, which writes the reason;
  - a hardware watchdog;
  - an OS reset;
  - a fastboot reboot;
  - power on after halt;
  - power loss in any bootloader step.

The other checks of `choose_boot_target` are abstracted to where the boot
ends.

A ghost records the true cause of each reset. From it the module computes the
streak that spec 4.1 and the comment above `check_watchdog` describe: crash
resets in a row, all within `WATCHDOG_DELAY` of the first one. One time unit
stands for the 600 s window, and the RTC moves 0, 1 or 2 units per reset.

### `Gpt` (with `MC_Gpt`)

This module models the GPT of the system disk and the fastboot commands that
use it.

Variables:
- `disk` holds the two copies. Each copy is a header and an entries array.
  - A table is a version number. A header records the version whose entries
    CRC it carries.
  - An entries array holds a version, or `Torn` when a write was cut short
    and its CRC matches no header.
  - A blank copy has no signature.
- `cache` is the table in the global `sdisk` (`pdisk`), or `Uncached` after
  `gpt_free_cache` and at boot.
- `pc` is the next `WriteDisk` of `gpt_write_partition_tables`, or `idle`.
- `userdata_erased` and `new_install_device` are the statics of flash.c.
- `misplaced` and `erasedLayout` are ghosts. They record what a data write
  addressed and which table the erase flag stands for.
- `binLayoutOk` is a ghost. It records whether the last `gpt_bin` table that
  `gpt_create` built met the reference (see the layout below).

Read path:
- `read_gpt_header` is the header CRC check; a blank block fails it.
- `gpt_prepare_disk` takes the master header, or the backup header when the
  master one fails its CRC.
- `ReadTable` is `gpt_list_partition_on_disk` on that header: its entries if
  their CRC matches, else the backup copy, else nothing
  (`gpt_cache_partition` zeroes `gpt_hd`).
- `LoadCache` is `gpt_cache_partition`, which reads only when nothing is
  cached.

Write path:
- `flash` dispatches `fastboot flash`: the label "gpt" goes to `_flash_gpt`
  and every other label to `flash_partition`.
- `_flash_gpt` refuses a payload that is neither a bpttool image nor a
  `gpt_bin` list before it loads anything. Otherwise it calls `gpt_create`,
  which may still reject the header or the list after loading the cache.
- `gpt_create` and `gpt_swap_partition` change the cached table, then write
  it.
- The write is one action per `WriteDisk`, in the code's order:
  1. primary header;
  2. primary entries;
  3. backup header;
  4. backup entries.

  `gpt_write_mbr` and `gpt_refresh` follow.
- Each step may fail and return, and a reset may cut any step short. A failed
  or interrupted entries write may be torn. Header blocks are written
  atomically.

Layout of a `gpt_bin` table. These are operators, not actions. They are
functions of the block size, `LastBlock`, `start_lba` and the list of
lengths in MiB. The labels and GUIDs they copy are left out.
- `gpt_new` gives `first_usable_lba` and `last_usable_lba`.
  - A forced `start_lba` is used only if it clears the header and the entries
    array. Otherwise the table starts at 1 MiB.
  - `last_usable_lba` is aligned down to a MiB below the backup copy, less
    one.
- `gpt_check_partition_list` is the loop of the code as a fold.
  - It stops at the first length that is 0 or below -1, or at a second -1.
  - It refuses a total larger than the usable range in whole MiB.
  - It gives the -1 partition what is left.
  - When there is no -1 partition, the code writes `gbp[-1]`, outside the
    list. The model leaves the list unchanged.
- `gpt_fill_entries` lays the partitions out back to back from
  `first_usable_lba`.
- `gpt_create_bin` chains the three, with the `part_count > GPT_ENTRIES`
  test.
- `TableBlocks` holds the blocks `gpt_write_partition_tables` writes: both
  headers and both entries arrays. The property adds the MBR at LBA 0.
- `gpt_create` takes its verdict on a `gpt_bin` list from `GptBinOutcomes`.
  That set holds what `gpt_create_bin` returns over `GptBinInputs`, together
  with whether the result met `GptBinMatchesReference`. The ghost
  `binLayoutOk` records the latter, and `GptBinLayoutSound` is the invariant
  that it stays TRUE.
- A bpttool image always passes. `get_full_gpt_header` has already made the
  checks that `gpt_create` repeats.

Users of the table:
- `flash_partition` and `erase_by_label` (with `fast_erase_part`) look the
  label up through the cache and write its blocks.
- After an ESP, they call `gpt_refresh`.

### `BootPolicy`

This module models `choose_boot_target` across boots, together with the
requests that one boot leaves for the next.

Each check is an operator on the boot's signals, named after its function:
- `check_command_line`, `check_fastboot_sentinel`, `check_magic_key` and
  `check_battery_inserted`;
- `read_bcb` (a missing misc partition or a failed `ReadDisk` is an error,
  and `check_bcb` then takes `NORMAL_BOOT`) and `check_bcb`, with
  `BcbCmdTarget` for the command;
- `check_loader_entry_one_shot`, `check_battery` and `check_charge_mode`.

`FirstOf` is the `goto out` chain. It gives the first result that is not
`NORMAL_BOOT`, in the code's order.

The signals of a boot are a record chosen by `\E`:
- the command line, the sentinel file and the magic key;
- the result of `check_watchdog`, which is modelled in `Watchdog`;
- the RSCI wake source and `off-mode-charge`;
- the battery level and the charger;
- whether the ESP file a BCB path names exists.

Variables:
- `bcb` and `bcbStatus` are the command and the status of the BCB in `misc`.
- `oneShot` is `LoaderEntryOneShot`.
- `verityCorrupted` is the slot flag set by the `dm-verity` reason.
- `pc`, `target` and `boots` track where each boot ends.
- `bcbTaken` and `varTaken` are ghosts. They count how often the pending
  one-shot request was honoured.

There are three actions, one per way a boot ends:
- `choose_boot_target_early`: a check before the BCB decides.
- `choose_boot_target_bcb`: the BCB decides. The write-back of `check_bcb`
  may fail. The `del_efi_variable` of a one-shot BCB may fail too.
- `choose_boot_target_rest`: the BCB is unreadable, or it names nothing. The
  variable is read and deleted, then the battery and charger checks run.

`Chosen` is what `efi_main` does with the target. `POWER_OFF` halts and
`DNX` resets, so no OS runs to set a new request. Every other target goes on
to `efi_main_load`, the tail of `efi_main`. The OS sets requests with
`OsWriteBcb` (any command, any status) and `OsSetOneShot`.

`efi_main_load` models the OEM variables that a boot image carries. Two
variables hold this state:
- `updateOemVars` is the `UpdateOemVars` EFI variable ("absent", "0" or "1").
  `get_current_boolean_var` reads an absent or bad value as TRUE.
- `oemvarsFrom` records whether the OEM variables came from the normal boot
  image or from another one.

`TailWrites` lists the variable writes of the tail, in the code's order:
- a recovery or ESP boot image calls `set_image_oemvars_nocheck` and then
  `set_oemvars_update(TRUE)`;
- `NORMAL_BOOT` and `CHARGER` call `set_image_oemvars`, which reloads only
  when the flag is set and clears the flag first;
- fastboot sets the flag, and a `fastboot boot` then loads the downloaded
  image's variables.

Each write may fail when `VarFaults` is set. With `PowerCuts`, a power loss
may end the boot after any write but the last. `Written` applies the writes
that took effect. Every image is taken to carry an oemvars blob, and
`fastboot boot` stands for an unlocked device (the module has no lock state).

`name_to_boot_target` is not under `src/`. `NameToTarget` is modelled from
spec.md 4.1.

### `AbSlots`

This module models the A/B slot steps of `efi_main` across boots. kfld, the
stage that loads kernelflinger, leaves two volatile records: `LoadedSlot`,
the slot it loaded kernelflinger from, and `LoadedSlotFailed_<slot>`, the
error it met on a slot it tried first. Both are inputs of a boot, drawn with
`\E`: any slot, no variable (`NoSlot`) or a slot past `nb_slots` (2), and
per slot an absent, successful, failed or wrongly sized record. kfld itself
is not in the repository, so the model lets it record anything.

From the code:
- `get_efi_loaded_slot_failed` treats a record of the wrong size like an
  absent one (`EFI_COMPROMISED_DATA`, then `continue`);
- `disable_slot_if_efi_loaded_slot_failed` does nothing when `LoadedSlot`
  cannot be read or is out of range, and otherwise disables each other slot
  with a failed record;
- `reboot_if_slot_is_different` gives the target of the cold reset it asks
  for, or `"none"`;
- `avb_load_verify_boot_image` runs the A/B flow for `NORMAL_BOOT` and
  `CHARGER`. For `RECOVERY` with recovery in the boot partition, it goes
  through a call for `NORMAL_BOOT`, which makes the slot check with that
  target. Otherwise it loads the non-A/B recovery partition.
- `efi_main_load_image` is `efi_main` from line 1732 to `load_image`. A RED
  boot state halts, because `boot_error` powers off a locked device. A
  mismatch resets. Otherwise the kernel of the verified slot starts. The
  device is locked, so an unlocked ORANGE boot is not modelled.
  `efi_main_fastboot` is the fastboot target, which reaches no slot step.

From spec.md 4.2 and 4.4, because slot.c and libavb's A/B flow are not in
the repository:
- `active_slot` elects the highest-priority slot with priority > 0 and a try
  left or the successful flag, with the first suffix winning a tie.
- `mark_boot_attempt`, `mark_boot_failed`, `set_active` and the default
  record follow 4.2. `disable_slot_by_index` sets priority 0, the disabled
  slot of section 3.
- `avb_ab_flow` is the Verifier's retry and fallback. A failure with tries
  left costs a try. A failure with none disables the slot, and the next
  elected slot is verified once. The booted slot's try is taken before the
  jump.

Variables:
- `meta` is the metadata in `misc`.
- `imageOk` says, per slot, whether the boot image verifies.
- `loadedSlot` and `loadedFailed` are kfld's records for this boot. They are
  cleared at a reset, as volatile variables are.
- `kernelSlot` is the slot whose kernel runs.
- `rebootTo` is the target of the last mismatch reset.

The environment has four steps:
- `OsMarkSuccessful`: Android marks its slot successful, with its tries 0 as
  in the invariant of spec.md 3.
- `FastbootFlash`: a good or bad boot image is flashed to either slot.
- `FastbootSetActive`.
- `Reboot`.

`slot_boot_failed`, which runs after a kernel start returns, is in slot.c,
so the kernel start is taken to succeed here. `Handover` models the start.

### `XdciEvents` (with `MC_XdciEvents`)

This models the event path of the DWC3 device controller driver
(`src/libefiusb/device_mode/XdciDWC.c`), as used by fastboot over USB. The
controller is the producer. It writes events into a ring of `RingSize` slots
and raises the event count. The driver consumes the events in
`DwcXdciCoreIsrRoutine` (or `DwcXdciCoreIsrRoutineTimerBased`).

State:
- `ring`, `wr` and `cnt` are the controller's side: the event buffer, its
  write position, and the event count register.
- `rd`, `isr`, `left` and `done` are the ISR's side: `CurrentEventBuffer`,
  whether an ISR is inside its loop, the events it still has to process, and
  the ones it has processed but not yet acknowledged.
- `trb`, `active` and `ep` are the driver's per-endpoint state for the four
  physical endpoints 0..3: the TRB last armed, `EpXferActive`, and the
  endpoint record (its state and the `CurrentXferRscIdx` bit).
- `st0`, `setupDir` and `ctlReq` are the EP0 control state machine
  (`Ep0State` and the direction of the SETUP in flight).
- `host` is the host's position in a control transfer. `run` is the
  controller's run bit.
- `client`, `nextId` and `posted` are the fastboot client: its state, the
  ids of its requests, and a bound on events posted.

The driver's handlers are pure operators on a record `D` of the driver
state: `DwcXdciEndXfer`, `DwcXdciCoreStartEp0SetupXfer`,
`DwcXdciProcessEp0XferPhaseDone`, `DwcXdciProcessEpXferDone`,
`DwcXdciEpTxData`, `DwcXdciEpRxData` and the others. An ISR step
(`DwcXdciCoreIsrRoutine_event`) applies one event through
`ProcessEvent`, which dispatches as `DwcXdciProcessDeviceEvent` and
`DwcXdciProcessEpEvent` do. The loop of the ISR is split into `_begin`,
`_event` and `_end`, so the controller may post between any two events.
`NextSlot` is the wrap of `CurrentEventBuffer` in `DwcXdciProcessLineEvents`.

The client calls `DwcXdciCoreConnect`, `DwcXdciCoreDisconnect` (the drain
loop and the halt), `UsbXdciCoreReinit`, `RxData`, `TxData`,
`DwcXdciEpCancelTransfer` and the EP0 data and status stages. The host
posts bus resets, connection done, SETUP packets, EP0 data and status
phases, and bulk completions.

Assumptions. The callers of the ISR, of `UsbXdciCoreReinit` and of the
transfer functions are not under `src/`, so these are stated, not derived:
- `ClientWaits = TRUE` is a client that starts a new bulk request only from
  the completion callback of the previous one, as a synchronous fastboot
  transport does.
- The timer routine is modelled only when events are pending. Its behaviour
  with a zero count is a hazard of its own (`XdciDWC.c:2187`).
- `UsbXdciCoreReinit` is called outside the ISR.

Register programming, LMP and link-state events, and command failures of
`DwcXdciCoreIssueEpCmd` are left out. Every command succeeds.

### `Handover` (with `MC_Handover`)

This models the last steps of a boot in `android.c`: `handover_kernel`
and `handover_jump`. The firmware's memory map is part of the state
(`fwMap`, a sequence of `[Type, PhysicalStart, NumberOfPages]` descriptors
with byte addresses, and its key `fwKey`). The loader's state is what the
code keeps in `boot_params` (`e820`, `efi_memmap`) and the loop counter `i`.

- `handover_kernel`: the kernel, `boot_params` and (in UEFI mode) GDT
  allocations, any of which may fail when `AllocFaults` is set.
- `setup_memory_map`: one try's first half. It frees the previous try's
  buffer when `efi_info` holds one, gets the map and key (`LibMemoryMap`),
  keeps the buffer for the kernel in UEFI mode or frees it under the EFI
  wrapper (`uefi`, which is `is_UEFI()`), and builds the E820 map.
- `handover_jump_exit`: `ExitBootServices` with that key. A stale key makes
  the loop try again, up to `ExitTries` times (10 in the code).
- `FirmwareAllocate`: a firmware event takes the first page of a free
  descriptor for boot-services or runtime data, which changes the key.

`setup_e820_map` is `FoldLeft` of `e820_add` over the descriptors.
`e820_add` is one turn of the loop: it skips unknown types, merges a
descriptor into the last entry, or appends one. `E820Faithful` checks the fold
against a reference that is written independently of it: the E820 types each
page has in the firmware's map, and the rule that no two consecutive entries
are mergeable. Every initial map of up to three descriptors is tried. The
descriptors are of reserved, conventional, ACPI and unknown types, with or
without a page of gap between them. Allocations add boot-services and runtime
data.

### `KmTipc` (with `MC_KmTipc`)

This models the bootloader's client of the Trusty keymaster
(`unnamed/part_001`) against the keymaster as a second actor.

- Client state: `chan` (`km_chan`), `initialized`, the public function
  running (`fn`), where it is (`pc`: connect, or waiting for a reply), the
  request in progress (`cmd`), and the response buffer `resp` with
  `resp_len` (`got`).
- Keymaster state: whether it holds a root of trust, a boot patchlevel and
  attestation ids (`tee`), the request it has not answered (`inbox`), and
  the frames it has sent (`out`, in order). `conns` counts the keymaster
  connections open on its side.
- Actions:
  - `Call`: the caller (outside the repository) calls `km_tipc_init` at any
    time, and `trusty_set_attestation_key` or
    `trusty_append_attestation_cert_chain` after an init succeeded. Both go
    through `km_do_tipc`.
  - `km_tipc_init_connect`: `trusty_ipc_chan_init` and
    `trusty_ipc_connect`. The connect may fail, and it then sends
    `KM_GET_VERSION`.
  - `km_read_raw_response`: one `trusty_ipc_recv` with
    `check_response_error`. The frame's data goes to `resp + resp_len`.
    After the frame with `KEYMASTER_STOP_BIT`, or when the buffer is full,
    the step reads the result the way `km_do_tipc` or `km_get_version`
    does (the little-endian `int32_t` error, or `MessageVersion`). It then
    applies `km_tipc_init`'s check for that request (`Accepted`) and sends
    the next request of `InitSeq` or returns.
    `NextRespLen` is line 119: `resp_len` grows by what the recv returned,
    less the 4-byte frame header.
  - `km_tipc_shutdown`: closes the channel only when `initialized` is set.
  - `TeeReply`: the keymaster answers the request with the bytes of its
    reply, cut into nonempty frames at any point (`Chunkings`). The stop
    bit is on the last frame. It may refuse any request, and it answers a
    second `SET_BOOT_PARAMS` with `KM_ERROR_ROOT_OF_TRUST_ALREADY_SET`.

The transport (`trusty_ipc_*`) and the headers with the error codes are
outside the repository. The codes are constants, and `MC_KmTipc` gives them
the values of ql-tipc's `trusty_err.h` and `keymaster_defs.h`:
`TRUSTY_ERR_GENERIC` and `KM_ERROR_ROOT_OF_TRUST_ALREADY_SET` are both -1.
Sends are delivered, a connect may fail, and a recv returns the next
frame. `km_read_data_response` is not modelled, because no call in the file
passes it a buffer.

## Runs

| Run | Config | Expect | What it shows |
|---|---|---|---|
| `dss_store` | `DeviceStateStore_store.cfg` | pass | All three backends (the TEE with its ivshmem device present), with write faults and resets anywhere. A lock or unlock that `set_current_state` reported as done is what the store holds, through resets, the OS and later boots (`AckedStateStored`). The cache never disagrees with the stored lock state (`CacheCoherent`). The store refines `AbsDeviceStore`, so the OS cannot change it after the seal and rollback never decreases (`StoreRefinement`). On the EFI-variable backend, a USER-build device is unlocked only by provisioning mode or by a fastboot unlock (`EfiOnlyFastbootUnlocks`). On the andr_tpm and EFI backends, once a rollback write reported an index as stored, no later locked boot accepts an image with a lower one (`RollbackRefused`). The BCB may also name an EFI binary, trusted as the code's comment assumes ("EFI binaries are validated by the BIOS": `HostileBinary = FALSE`). 1730 distinct states. |
| `dss_tpm_seed` | `DeviceStateStore_tpm_seed.cfg` | violation | `SeedIntegrity` fails. A reset between defining the seed index and write-locking it leaves an index that `tpm2_check_trusty_seed_index` reports as fused. It is never write-locked, and the OS overwrites the seed. |
| `dss_tee_rollback` | `DeviceStateStore_tee_rollback.cfg` | violation | `RollbackRefusedAll` fails on tee_tpm. `tee_write_rollback_index_tpm2` and `tee_read_rollback_index_tpm2` never put the slot or the index into the request, so a verified image of index 1 leaves the TEE's index at 0, and the next locked boot accepts an image of index 0 (15 states). |
| `wdt_faults` | `Watchdog_faults.cfg` | pass | Variable writes and `GetTime` may fail, and power may be lost between any two writes. A stored counter never lacks its time reference (`CounterHasTimeRef`), so `get_watchdog_status` cannot fail on every boot from then on. 206k distinct states. |
| `wdt_stale_reason` | `Watchdog_stale.cfg` | violation | `MenuOnlyAfterStorm` fails. `kernel_panic` stays in `LoaderEntryRebootReason` until a kernel is loaded. One panic followed by two resets that end before the kernel (power loss, fastboot) shows the crash event menu. The same stale reason shifts the time window and can also hide a real storm. |
| `gpt_single_fault` | `Gpt_single_fault.cfg` | pass | With one reset or one failed `WriteDisk` in any sequence of table writes, flashes and erases, a disk that had a table keeps a readable one after every command (`TableNeverLost`). The cached table is never a torn array (`TypeOK`). Over 5698 `gpt_bin` inputs (1047 of them accepted), `gpt_create` accepts a list exactly when it fits, and lays it out back to back inside the usable range, clear of the MBR and of both headers and entries arrays. Each fixed partition has its size, and the -1 partition ends less than a MiB before `last_usable_lba` (`GptBinLayoutSound`). The reference counts blocks, not MiB. |
| `bootpolicy_oneshot` | `BootPolicy_oneshot.cfg` | pass | There are three boots, and the OS sets any BCB command and any `LoaderEntryOneShot` in between. BCB reads may fail. A `bootonce-` command and a one-shot variable are each honoured by at most one boot (`OneShotsTakenOnce`). After recovery, an ESP boot image or `fastboot boot` loaded other OEM variables, the next `NORMAL_BOOT` or `CHARGER` kernel runs with the boot image's own (`OemVarsFromBootImage`). 33k distinct states, 45 s. |
| `xdci_ring` | `XdciEvents_ring.cfg` | pass | The controller posts up to five events into a two-slot ring while ISRs, timer polls, connects, disconnects and reinits interleave. The driver's read position always agrees with the controller's write position and count (`RingInSync`). A bulk endpoint marked active either holds its transfer resource or has a completion on the way (`RscTracksHw`). With the interrupt routine called fairly, `DwcXdciCoreDisconnect` always gets past its drain loop (`DisconnectCompletes`). One request per bulk endpoint; about 0.9M distinct states, under a minute. |
| `handover_exit` | `Handover_exit.cfg` | pass | Firmware events change the memory map between any two steps, and allocations may fail. A kernel that `handover_jump` starts gets an E820 map that describes, page by page, the firmware's map at the successful `ExitBootServices` (`E820Faithful`). The loop gives up only when every one of its tries met a changed map (`RetriesSuffice`). No memory-map buffer is leaked across tries (`MemmapNotLeaked`). 129k distinct states, a few seconds. |
| `abslots_boot` | `AbSlots_boot.cfg` | pass | There are five boots, with any kfld records, fastboot flashing good and bad images and `set_active`, and Android marking slots successful. When kfld recorded an error for every slot but the one it loaded, efi_main disables them first, so it never resets for a mismatch and the fallback is not undone (`KfldFallbackKept`). 219k distinct states, 6 s. |
| `km_client` | `KmTipc_client.cfg` | pass | There are four calls: `km_tipc_init`, provisioning calls, `km_tipc_shutdown`, and another init. The keymaster cuts its replies into frames anywhere, reports a version that is too old, the expected one or a newer one, and may refuse any request. `resp_len` never passes the buffer's size, since each frame's header is taken off what `trusty_ipc_recv` returns (`TypeOK`). Every request that returns `TRUSTY_ERR_NONE` read exactly the reply the keymaster sent to it (`ReplyMatchesRequest`). An init that succeeds leaves the boot patchlevel and the attestation ids configured (`InitConfigured`). 12k distinct states. |
| `xdci_ep0_setup` | `XdciEvents_ep0.cfg` | violation | `Ep0SetupArmed` fails. A bus reset leaves `Ep0State = SETUP` with the SETUP TRB armed. `DwcXdciCoreDisconnect` ends the transfer but does not reset the state, so after a reconnect `DwcXdciCoreStartEp0SetupXfer` returns early and EP0 never has a SETUP TRB again. |

Every property of a passing run has a mutant in `PROJECT.json`: a plausible
bug in the mapped code that TLC must catch. The mutants are:
- a wrong bit for the stored state;
- a cache update before the write;
- a `tpm2_end` without the write lock;
- a set-state block that always unlocks;
- a TEE write that ignores `req->ret`;
- a rollback write that reports a failed store as done;
- an interrupt routine that leaves `InterrupProcessing` set (`XdciEvents`);
- entries used without their CRC check (`Gpt`);
- a read without the backup fallback (`Gpt`);
- a partition-list check that does not compare the total with the disk
  (`Gpt`);
- a `bootonce-` command that is not cleared before the write-back
  (`BootPolicy`);
- an unknown one-shot name that is returned as it is (`BootPolicy`);
- a recovery boot that does not set `UpdateOemVars` (`BootPolicy`);
- a ring wrap one slot late (`XdciEvents`);
- a timer routine that runs with no events pending (`XdciEvents`);
- an `EndXfer` that clears the resource index before issuing the command
  (`XdciEvents`);
- an E820 merge that does not compare types (`Handover`);
- an E820 loop without its `default: continue` (`Handover`);
- a `setup_memory_map` that does not free the previous buffer (`Handover`);
- an `ExitBootServices` loop that gives up one try early (`Handover`);
- a `set_active` that lowers the other slot from its own priority, not
  from the maximum (`AbSlots`);
- a `LoadedSlotFailed` check that tests the status of the variable read
  instead of kfld's error code, the `ret`/`err` mix-up (`AbSlots`);
- a reassembly loop that counts each frame's header into `resp_len`
  (`KmTipc`);
- a reassembly loop that takes the first frame as the whole reply
  (`KmTipc`);
- an init that checks the patchlevel reply as it checks the boot-params one
  (`KmTipc`).

### Bounds

- One rollback slot, with index values 0..1. A second slot only repeats the
  per-slot reasoning, and 0..1 is enough for an image to be older than the
  stored index.
- Three resets. These are enough for:
  - a reset inside the fuse sequence;
  - a boot that finds the half-fused state;
  - a boot after the OS has written.

The store run reaches 1730 distinct states, and every action fires.

For `Watchdog`, five resets allow the three-crash storm of spec scenario 5
with a stale reason or a power loss in between. The wrap run needs 256 crashes
in a row, hence 258 boots.

For `Gpt`, up to four tables (the one on disk and three new ones) allow:
- a write that was cut short;
- a write after it;
- one more write.

Two faults are the least that loses the table. One fault is what the backup
copy is meant to survive. The pass run reaches 885 distinct states.

The `gpt_bin` inputs cover the following (`MC_Gpt`, `Gpt_single_fault.cfg`):
- block sizes of 512 and 4096 bytes, so the entries array is 32 or 4
  blocks;
- disks of 8 MiB and 9000 KiB. The second is not a whole number of MiB, so
  the `ALIGN_DOWN` cuts.
- start LBAs 0, 7, 8, 35, 36 and 3000. These lie on both sides of the
  `2 + gpt_size` limit for each block size, and include a forced start that
  is not MiB-aligned.
- up to three lengths from {-2, -1, 0, 1, 2, 5} MiB. These cover lengths the
  code refuses, one and two -1 partitions, and totals on both sides of the
  usable size.

A `start_lba` past `last_usable_lba + 1` is left out of the inputs. It makes
the code's UINT64 arithmetic wrap to values beyond TLC's integers (see the
hazards in `PROJECT.json`).

For `BootPolicy`, three boots are enough for two things:
- a request, the boot that takes it, and a boot that must not take it again;
- the OS writing a new request between two boots.

The four-way read, write and delete outcomes are enumerated in every boot.

For `XdciEvents`, a ring of two slots wraps after two events, and five posted
events make it wrap twice with an ISR in between. Two request ids per client
are enough for one request to follow another (the stale-completion
configuration uses them); the ring run, which also checks liveness, issues
one request per bulk endpoint. A larger ring (three slots,
seven events) ran for over fifteen minutes without new kinds of states.

For `Handover`, two tries and two map changes let the firmware make every
try fail, so both ends of the loop are reached. The real loop has ten tries,
and more tries only repeat the same step. Three descriptors of up to two pages
are enough for a merge next to a skipped type, a gap, and a merge of two EFI
types that both map to RAM (an allocated boot-services page next to free
memory). Three descriptors also make 8736 initial maps. The 128-entry limit of
`boot_params.e820_map` is beyond these bounds (see the hazards).

- `AbSlots`: two slots, as `MAX_SLOTS` is 2 in practice. Each slot gets two
  tries instead of seven. Two are enough for a try to run out and for a
  slot to fail with a try left, and more only repeat the decrement. Five
  boots are enough to flash a bad image, mark the slot successful, fail it
  and fall back, or to exhaust a fresh slot.

- `KmTipc`: four calls are enough for an init, two provisioning calls of
  the same command (the case where a leftover frame would be taken as the
  next reply), a shutdown and a second init. Replies are 3 or 4 bytes, and
  every way of cutting them into frames is tried.

### Fairness

Only `XdciEvents` states fairness. The USB device stack above the driver
polls `DwcXdciCoreIsrRoutine` for as long as the device is in use, and the
loop in `DwcXdciCoreDisconnect` calls it until `EVNTCOUNT` reads 0 and then
goes on. So the three steps of the routine and the end of a disconnect are
weakly fair. The controller, the host and the client's own calls are not:
they may stop at any time. Every other module makes no assumption about
when the user, the OS or a reset acts, and checks safety only.

## Divergences found while modelling, without a run

`DeviceStateStore` on the TPM backend, first boot of a USER build:
`tpm2_init` fuses the bootloader index with `lock_state = UNLOCKED`
(`tpm2_security.c:636`) before `efi_main` asks `device_need_locked`
(`kernelflinger.c:1633`). The index now exists, so `need_lock` is FALSE,
and a new device boots unlocked without any fastboot unlock. The comment in
`efi_main` says the device is set to LOCKED by default on the first boot.
`DeviceStateStore_tpm_lock.cfg` (`OnlyFastbootUnlocks`) shows it. On the
EFI-variable backend the promise holds (run `dss_store`,
`EfiOnlyFastbootUnlocks`).

`KmTipc`, a refused root of trust: `km_do_tipc` turns every keymaster error
into `TRUSTY_ERR_GENERIC` (-1). `km_tipc_init` then compares it with
`KM_ERROR_ROOT_OF_TRUST_ALREADY_SET`, which is also -1
(`part_001:310`). The check meant to tolerate a root of trust set by an
earlier init therefore accepts any refusal of `SET_BOOT_PARAMS`, and init
reports success with no root of trust set in the keymaster.
`KmTipc_rot.cfg` (`InitEstablishesRot`) shows it. The values come from
headers outside the repository.

`KmTipc`, a leaked connection: nothing sets `initialized`, so
`km_tipc_shutdown` never closes `km_chan` (`part_001:344`). The next
`km_tipc_init` reinitialises the struct and opens a second connection while
the first stays open in the secure side. A failed init also returns with its
channel open. `KmTipc_reinit.cfg` (`KmConnectionsBounded`) shows it after an
init, a shutdown and a second init.

`DeviceStateStore` with an EFI binary that issues TPM commands: `efi_main`
starts an `ESP_EFI_BINARY` target with `uefi_enter_binary`
(`kernelflinger.c:1705`) and never calls `tpm2_end` on that path, while
`load_image` does (`kernelflinger.c:1290`). The binary runs with the
bootloader index still writable under its empty auth value. Any binary that
Secure Boot admits and the BCB names can lower the rollback index, and the
next locked boot accepts an older image. `DeviceStateStore_efi_binary.cfg`
(`RollbackRefused`, andr_tpm, three resets) shows it. It is not a run of its
own, because whether it is a flaw depends on trusting every binary that the
firmware's Secure Boot database admits. spec.md says nothing of EFI binaries.

`Watchdog` with `WatchdogCounterMax = 255` (a userdebug variable): the
counter is a UINT8 (`watchdog.c:419`). The 256th crash computes
`counter = 0`, `set_watchdog_counter(0)` deletes the counter, and the crash
event menu is never shown. `Watchdog_wrap.cfg` (`StormShowsMenu`, a frozen
RTC and crash resets only) shows it in 258 boots.

`DeviceStateStore` with tee_tpm and no usable ivshmem device: `efi_main`
ignores `EFI_NOT_FOUND` from `ivshmem_init` (`kernelflinger.c:1615`). A bar2
that is too small sends it to fastboot. In both cases `g_ivshmem_rot_addr`
stays 0, and `ivshmem_rollback_index_interrupt` (`ivshmem.c:511`) returns
before it marks the request pending. Every TEE request then returns the
`EFI_SUCCESS` of its zero-allocated `ret`. `fastboot flashing lock` or
`unlock` answers OKAY, and nothing is stored. `DeviceStateStore_tee_absent.cfg`
(`AckedStateStored`) shows it in five steps.

`BootPolicy` with `BcbFaults = TRUE`: `check_bcb` clears a `bootonce-`
command only in memory and logs a failed `write_bcb` (`kernelflinger.c:255`)
while it still returns the target. The command stays in misc, and the next
boot takes the same one-shot target again, against spec.md 4.1 step 6.
`BootPolicy_faults.cfg` (`OneShotsTakenOnce`) shows it.

`XdciEvents` with `ClientWaits = FALSE`: a `TxData` issued after the
hardware has completed the previous transfer, or a `Cancel` followed by
`RxData` while a completion is still in the ring, credits the old completion
to the new request. `XdciEvents_stale.cfg` (`NoStaleCompletion`) shows it.
A client that waits for each completion never does this, so it is a hazard
of the driver's API rather than a bug seen by such a client.

Writing the checks of `BootPolicy` as operators made three disagreements with
spec.md plain. Each was confirmed once with TLC over all signal records, and
then left as a note, not a run:
- `check_battery_inserted` (`kernelflinger.c:809`) powers off on a
  battery-inserted wake only when off-mode charging is *enabled*. Spec.md 4.1
  step 5 says *disabled*.
- `choose_boot_target` (`kernelflinger.c:933`) goes on past a `dnx`
  `LoaderEntryOneShot` as if it were `NORMAL_BOOT`, after deleting it. The
  request is lost, while step 7 maps the variable to its target.
- The monotonicity property of spec.md section 8 contradicts the order the
  same spec gives (and the code follows). A held magic key turns a
  low-battery `POWER_OFF` into `FASTBOOT`.

`BootPolicy` with `PowerCuts = TRUE`: the comment at `kernelflinger.c:1749`
says the OEM variables will be read again on the next normal boot. A power
loss breaks this in two places. `set_image_oemvars` clears `UpdateOemVars`
before it reloads (`kernelflinger.c:1201`). A recovery boot loads its
variables before it sets the flag (`kernelflinger.c:1753`). In both cases
every later normal boot keeps the other image's variables.
`BootPolicy_oemvars_cut.cfg` (`OemVarsFromBootImage`) shows the first in ten
steps. A failed `set_oemvars_update(TRUE)`, whose result is ignored, has the
same effect.

`Gpt` on a USER build: `erase_by_label` skips userdata when the per-boot
`userdata_erased` flag is set, as userdata "only need[s] to be erased once
during each boot" (`flash.c`, `unnamed/part_000:633`). Nothing clears the
flag when `fastboot flash gpt` moves the partitions. After a repartition in
the same boot, the erase of the new userdata partition is skipped and
reported as done. `Gpt_erase_flag.cfg` (`ErasedFlagCurrent`) shows it.

`Handover`: the comment in `handover_jump` cites UEFI 2.4 section 6.4 for its
retry. The same section says that after the first `ExitBootServices` a loader
calls no boot service except `GetMemoryMap` and `ExitBootServices`. The retry
calls `setup_memory_map` (`android.c:457`). That function frees the previous
buffer with `FreePool` and gets the map through `LibMemoryMap`, which
allocates. `Handover_bs_after_exit.cfg` (`OnlyMemoryMapAfterExit`) shows this
after one change of the map. The failure path after the loop also frees
pages (`android.c:1893`). That path is not modelled.

`Gpt`, the layout of a `gpt_bin` list: `gpt_check_partition_list` refuses
a fixed length of 0. Fixed lengths that fill the usable range exactly still
pass `totsize > disksize`, and the -1 partition then gets length 0.
`gpt_fill_entries` writes an entry whose `ending_lba` is one below its
`starting_lba`. `Gpt_empty_rest.cfg` (`GptBinRestNonEmpty`) shows this for
lengths 5, 1 and -1 on an 8 MiB disk with 512-byte blocks. Related: on a
refused list, `gpt_new` has already replaced the cached header
(`gpt.c:878`). A later `gpt_swap_partition` then writes the new usable range
with the old entries. `Gpt` keeps a table as one version, so it does not
represent this.

`Gpt` after a failed table write: `gpt_create` and `gpt_swap_partition`
change `pdisk` (the cached `sdisk`) before `gpt_write_partition_tables`.
Only its last step, `gpt_refresh`, drops the cache. When a `WriteDisk`
fails (`gpt.c:811`), it returns early and `sdisk` keeps the unwritten
table. The next `flash_partition` or `erase_by_label` of the same fastboot
session then writes at offsets of a table the disk does not return.
`Gpt_failed_write.cfg` (`LayoutUsedIsOnDisk`) shows it after one failed
write. It was a run until `AbSlots` took its place.

`AbSlots`, a recovery boot with recovery in the boot partition:
`avb_load_verify_boot_image(RECOVERY)` calls itself for `NORMAL_BOOT`
(`kernelflinger.c:1096`). The inner call makes the slot check with
`NORMAL_BOOT`, so a mismatch resets to a normal boot, and the outer check
for `RECOVERY` at line 1097 never runs. A recovery request that was already
consumed (`LoaderEntryOneShot`, a magic key, the fastboot menu) is lost.
`AbSlots_recovery_target.cfg` (`RebootKeepsTarget`) shows it in one boot.
Also, with the spec's `mark_boot_attempt` taken before the jump, each
mismatch reset spends a try of a slot whose kernel never ran.

Spec.md disagrees with itself about slot metadata. Its scenario 1 in
section 8 has a successful slot with 7 tries, while the invariant in
section 3 says a successful slot has 0. `set_active` gives the other slot
"one less" than the maximum priority, which re-enables a slot that
`mark_boot_failed` disabled "permanently". `AbSlots` follows the operations
as section 4.2 words them.

`Gpt` with two faults loses the table. The first fault leaves one consistent
copy. The next write rewrites that copy's header first, and a reset before its
entries leaves none. Nothing repairs a damaged copy, so two faults are beyond
what the two copies protect against.

## Not modelled, and the plan

The table of components in `PROJECT.json` names each part and its status. The
plan for the next modules, in order:

1. (done) **BootPolicy**. Left open:
   - a reset between the deletion of `LoaderEntryOneShot` and the handover;
   - (now modelled in `DeviceStateStore` as `efi_main_enter_binary`, see
     `DeviceStateStore_efi_binary.cfg`) the EFI-binary target, which is
     started without `tpm2_end`.
2. (done, in part, as the `"tee"` backend of `DeviceStateStore`). Left open:
   - (now modelled: the rollback-index requests that never carry their slot
     or value, `DeviceStateStore_tee_rollback.cfg`);
   - the busy-wait on the reply, as a liveness property.
3. (done) **Gpt**.
4. (done, in part) **XdciEvents**. Left open:
   - LMP and link-state events and the failure of endpoint commands;
   - the chunking of `DwcXdciCoreInitTrb` as an operator;
   - liveness: a SETUP is eventually answered under a fair ISR.
5. (done, in part) **AbSlots**. Left open:
   - `slot_boot_failed` and the reset after a kernel start returns;
   - the verity flag per slot;
   - a metadata record with a bad CRC, which `init()` resets to the
     default;
   - a liveness property, which needs a model of kfld.
6. (done, in part) **Handover**. Left open:
   - `bootimage_size` and `pagealign` as operators;
   - the sizes of the kernel allocation, which the failure path frees with
     the wrong length.
7. (done, in part) **KmTipc**. Left open:
   - `km_read_data_response`, once a caller passes it a buffer;
   - failures of the ql-tipc transport, whose behaviour (whether a failed
     recv consumes the frame) is not in the repository.

Not modelled and not planned:
- the `cur_offset` arithmetic of flash.c. The sparse-image parser that drives
  it is not under `src/`.
- the byte layout of boot images, the command line and bootconfig, which is
  formatting;
- the register programming of the XDCI driver, beyond the run bit;
- the Trusty sysdeps wrappers;
- `erase_efivars` and `reprovision_state_vars` (non-USER builds), which
  nothing under `src/` calls;
- the build files.
