----------------------------- MODULE BootPolicy -----------------------------
(***************************************************************************)
(* choose_boot_target of kernelflinger.c across boots: the ordered checks, *)
(* the boot control block (BCB) in misc with its persistent "boot-" and    *)
(* one-shot "bootonce-" commands and the status field the bootloader owns, *)
(* and the LoaderEntryOneShot variable.  The OS sets the requests while it *)
(* runs; every boot reads them.  The watchdog check is an input here; its  *)
(* own module is Watchdog.                                                 *)
(***************************************************************************)
EXTENDS Naturals, Sequences

CONSTANTS
    BcbReadFaults,  \* read_bcb may fail
    BcbFaults,      \* write_bcb may fail
    VarFaults,  \* del_efi_variable and set_efi_variable may fail
    PowerCuts,  \* power may be lost between two variable writes of efi_main
    MaxBoots    \* bound on boots

ASSUME BcbReadFaults \in BOOLEAN /\ BcbFaults \in BOOLEAN /\ VarFaults \in BOOLEAN
ASSUME PowerCuts \in BOOLEAN /\ MaxBoots \in Nat

N == "NORMAL_BOOT"

\* The names a BCB command or LoaderEntryOneShot may carry.  "verity" is
\* the string "dm-verity device corrupted"; "efi_file" and "img_file" are
\* BCB paths "\...\x.efi" and "\...\x.img" on the ESP.
BcbNames == {"recovery", "fastboot", "dnx", "bogus", "efi_file", "img_file"}
VarNames == {"recovery", "bootloader", "dnx", "charger", "bogus", "verity"}

\* name_to_boot_target
NameToTarget(name) ==
    CASE name = "recovery" -> "RECOVERY"
      [] name \in {"fastboot", "bootloader"} -> "FASTBOOT"
      [] name = "dnx" -> "DNX"
      [] name = "charger" -> "CHARGER"
      [] OTHER -> "UNKNOWN_TARGET"

\* What the platform reports in one boot.  watchdog is what check_watchdog
\* returned (module Watchdog).
Signals ==
    [cmdline : {"none", "-f"}, sentinel : BOOLEAN, magicKey : BOOLEAN,
     watchdog : {N, "CRASHMODE", "POWER_OFF"},
     wake : {"battery_inserted", "charger_inserted", "other"},
     offModeCharge : BOOLEAN, batteryLow : BOOLEAN, chargerPlugged : BOOLEAN,
     espFile : BOOLEAN]

\* enum boot_target values choose_boot_target may return here
Targets == {N, "RECOVERY", "FASTBOOT", "DNX", "CHARGER", "POWER_OFF", "CRASHMODE",
            "ESP_EFI_BINARY", "ESP_BOOTIMAGE"}

Outcomes(faulty) == IF faulty THEN BOOLEAN ELSE {TRUE}

\* A BCB: the command (a name, once or not) and whether status is non-empty.
NoCmd == [name |-> "none", once |-> FALSE]
Bcbs == {NoCmd} \cup [name : BcbNames, once : BOOLEAN]

(***************************************************************************)
(* The checks, in the order choose_boot_target calls them.                 *)
(***************************************************************************)

\* The first target other than NORMAL_BOOT in a sequence, else NORMAL_BOOT.
RECURSIVE FirstOf(_)
FirstOf(ts) ==
    IF ts = <<>> THEN N
    ELSE IF Head(ts) # N THEN Head(ts) ELSE FirstOf(Tail(ts))

\* check_command_line (non-SBL build): "-f" and "-a <addr>" force
\* fastboot.
check_command_line(s) == IF s.cmdline = "-f" THEN "FASTBOOT" ELSE N
check_fastboot_sentinel(s) == IF s.sentinel THEN "FASTBOOT" ELSE N
check_magic_key(s) == IF s.magicKey THEN "FASTBOOT" ELSE N
check_battery_inserted(s) ==
    IF s.offModeCharge /\ s.wake = "battery_inserted" THEN "POWER_OFF" ELSE N

EarlyTarget(s) ==
    FirstOf(<<check_command_line(s), check_fastboot_sentinel(s),
              check_magic_key(s), s.watchdog, check_battery_inserted(s)>>)

\* The target a BCB command names (check_bcb after the read): an ESP path
\* needs the file to exist; an unknown name is NORMAL_BOOT.
BcbCmdTarget(cmd, s) ==
    CASE cmd.name = "none" -> N
      [] cmd.name = "efi_file" -> IF s.espFile THEN "ESP_EFI_BINARY" ELSE N
      [] cmd.name = "img_file" -> IF s.espFile THEN "ESP_BOOTIMAGE" ELSE N
      [] OTHER -> IF NameToTarget(cmd.name) = "UNKNOWN_TARGET"
                  THEN N ELSE NameToTarget(cmd.name)

\* mutant: a "bootonce-" command is not cleared before the write-back
check_bcb_keeps_command(cmd, s) ==
    [t |-> BcbCmdTarget(cmd, s), oneshot |-> cmd.once, written |-> cmd]

\* check_bcb on a BCB read successfully: the target, whether it was a
\* "bootonce-" command, and the BCB it writes back when dirty.
check_bcb(cmd, s) ==
    [t |-> BcbCmdTarget(cmd, s), oneshot |-> cmd.once,
     written |-> IF cmd.once THEN NoCmd ELSE cmd]

\* choose_boot_target: a persistent "boot-fastboot" goes to recovery
\* (fastbootd).
BcbTarget(r) == IF ~r.oneshot /\ r.t = "FASTBOOT" THEN "RECOVERY" ELSE r.t

\* mutant: an unknown name is returned instead of NORMAL_BOOT
check_loader_entry_one_shot_unmapped(v, s) ==
    IF v = "none" THEN N
    ELSE IF NameToTarget(v) = "CHARGER" /\ ~s.offModeCharge THEN "POWER_OFF"
    ELSE NameToTarget(v)

\* check_loader_entry_one_shot
check_loader_entry_one_shot(v, s) ==
    IF v = "none" THEN N
    ELSE IF NameToTarget(v) = "UNKNOWN_TARGET" THEN N
    ELSE IF NameToTarget(v) = "CHARGER" /\ ~s.offModeCharge THEN "POWER_OFF"
    ELSE NameToTarget(v)

check_battery(s) ==
    IF s.offModeCharge /\ s.batteryLow
    THEN IF s.chargerPlugged THEN "CHARGER" ELSE "POWER_OFF"
    ELSE N

check_charge_mode(s) ==
    IF s.offModeCharge /\ s.wake = "charger_inserted" THEN "CHARGER" ELSE N

\* After the one-shot variable: DNX and NORMAL_BOOT fall through.
RestTarget(v, s) ==
    LET o == check_loader_entry_one_shot(v, s)
    IN IF o \notin {"DNX", N} THEN o
       ELSE FirstOf(<<check_battery(s), check_charge_mode(s)>>)

(***************************************************************************)
(* State across boots.                                                     *)
(***************************************************************************)

VARIABLES
    bcb,                \* the BCB command in misc
    bcbStatus,          \* its status field is non-empty
    oneShot,            \* LoaderEntryOneShot, "none" when absent
    verityCorrupted,    \* the active slot's verity-corrupted flag
    pc,                 \* "boot" (choosing), "load" (efi_main tail), "running", "off"
    target,             \* the target chosen by the last boot
    boots,
    updateOemVars,      \* the UpdateOemVars variable: "absent", "0" or "1"
    oemvarsFrom,        \* the image the OEM variables were last loaded from
    \* observation: how often the pending one-shot request was honoured
    bcbTaken,
    varTaken

oemVars == <<updateOemVars, oemvarsFrom>>
vars == <<bcb, bcbStatus, oneShot, verityCorrupted, pc, target, boots,
          oemVars, bcbTaken, varTaken>>

\* the observation counters stop at 2
Bump(n) == IF n < 2 THEN n + 1 ELSE 2

\* efi_main after choose_boot_target: POWER_OFF halts and DNX resets into
\* the firmware's DNX mode, with no OS to set a request; every other target
\* goes on to the tail of efi_main (an image, fastboot, or the crash menu,
\* whose choice is itself rebooted into).
Chosen(t) ==
    /\ target' = t
    /\ pc' = IF t \in {"POWER_OFF", "DNX"} THEN "off" ELSE "load"

\* read_bcb: gpt_get_partition_by_label of misc, then ReadDisk of the
\* bootloader_message; a missing partition or a failed read is an error,
\* on which check_bcb takes NORMAL_BOOT without writing anything back.
read_bcb(readOk) ==
    IF readOk THEN [ok |-> TRUE, cmd |-> bcb] ELSE [ok |-> FALSE, cmd |-> NoCmd]

\* check_bcb writes the BCB back when the status was set or the command was
\* a one-shot; a failed write_bcb is logged and ignored.
WriteBack(r, writeOk) ==
    IF (bcbStatus \/ r.oneshot) /\ writeOk
    THEN bcb' = r.written /\ bcbStatus' = FALSE
    ELSE UNCHANGED <<bcb, bcbStatus>>

\* A check before the BCB decides.
choose_boot_target_early ==
    /\ pc = "boot"
    /\ \E s \in Signals : EarlyTarget(s) # N /\ Chosen(EarlyTarget(s))
    /\ UNCHANGED <<bcb, bcbStatus, oneShot, verityCorrupted, boots, bcbTaken, varTaken, oemVars>>

\* The BCB decides; a one-shot BCB target also deletes LoaderEntryOneShot.
choose_boot_target_bcb ==
    /\ pc = "boot"
    /\ \E s \in Signals, readOk \in Outcomes(BcbReadFaults),
          writeOk \in Outcomes(BcbFaults), delOk \in Outcomes(VarFaults) :
        LET rd == read_bcb(readOk)
            r == check_bcb(rd.cmd, s) IN
        /\ EarlyTarget(s) = N
        /\ rd.ok /\ BcbTarget(r) # N
        /\ Chosen(BcbTarget(r))
        /\ WriteBack(r, writeOk)
        /\ oneShot' = IF r.oneshot /\ delOk THEN "none" ELSE oneShot
        /\ bcbTaken' = IF r.oneshot THEN Bump(bcbTaken) ELSE bcbTaken
    /\ UNCHANGED <<verityCorrupted, boots, varTaken, oemVars>>

\* The BCB is unreadable or names nothing: check_loader_entry_one_shot
\* reads and deletes LoaderEntryOneShot, then the battery and charger
\* checks.
choose_boot_target_rest ==
    /\ pc = "boot"
    /\ \E s \in Signals, readOk \in Outcomes(BcbReadFaults),
          writeOk \in Outcomes(BcbFaults), delOk \in Outcomes(VarFaults) :
        LET rd == read_bcb(readOk)
            r == check_bcb(rd.cmd, s) IN
        /\ EarlyTarget(s) = N
        /\ ~rd.ok \/ BcbTarget(r) = N
        /\ IF rd.ok THEN WriteBack(r, writeOk) ELSE UNCHANGED <<bcb, bcbStatus>>
        /\ oneShot' = IF delOk THEN "none" ELSE oneShot
        /\ verityCorrupted' = (verityCorrupted \/ oneShot = "verity")
        /\ Chosen(RestTarget(oneShot, s))
        /\ varTaken' = IF check_loader_entry_one_shot(oneShot, s) \notin {N, "DNX"}
                       THEN Bump(varTaken) ELSE varTaken
    /\ UNCHANGED <<boots, bcbTaken, oemVars>>

(***************************************************************************)
(* The tail of efi_main: the OEM variables a boot image carries.  A write *)
(* is <<variable, value>>; "update" is UpdateOemVars and "oemvars" the     *)
(* OEM variables, set from the normal boot image ("boot") or from another  *)
(* one ("other": recovery, an ESP boot image, a 'fastboot boot' image).    *)
(* Every image is taken to carry an oemvars blob.                          *)
(***************************************************************************)

\* get_current_boolean_var with default TRUE: an absent, unreadable or
\* malformed variable reads as TRUE.
get_current_boolean_var(v) == v # "0"

get_oemvars_update == get_current_boolean_var(updateOemVars)

set_oemvars_update(on) == <<"update", IF on THEN "1" ELSE "0">>

\* set_image_oemvars_nocheck: flash_oemvars_silent_write_error of the blob.
set_image_oemvars_nocheck(img) == <<"oemvars", img>>

\* set_image_oemvars: the variables are reloaded only when UpdateOemVars
\* says so, and the flag is cleared first.
set_image_oemvars(img) ==
    IF get_oemvars_update
    THEN <<set_oemvars_update(FALSE), set_image_oemvars_nocheck(img)>>
    ELSE <<>>

\* enter_fastboot_mode sets the flag; a 'fastboot boot' on an unlocked
\* device then loads the downloaded image's variables.
enter_fastboot_mode_oemvars(fbBoot) ==
    <<set_oemvars_update(TRUE)>> \o
        (IF fbBoot THEN <<set_image_oemvars_nocheck("other")>> ELSE <<>>)

\* mutant: a recovery boot that does not ask for a reload
TailWrites_no_flag(t, fbBoot) ==
    CASE t = "FASTBOOT" -> enter_fastboot_mode_oemvars(fbBoot)
      [] t \in {"RECOVERY", "ESP_BOOTIMAGE"} -> <<set_image_oemvars_nocheck("other")>>
      [] t \in {N, "CHARGER"} -> set_image_oemvars("boot")
      [] OTHER -> <<>>

\* The writes efi_main makes for the target, in order.
TailWrites(t, fbBoot) ==
    CASE t = "FASTBOOT" -> enter_fastboot_mode_oemvars(fbBoot)
      [] t \in {"RECOVERY", "ESP_BOOTIMAGE"} ->
            <<set_image_oemvars_nocheck("other"), set_oemvars_update(TRUE)>>
      [] t \in {N, "CHARGER"} -> set_image_oemvars("boot")
      [] OTHER -> <<>>

\* The value of variable x after the first n writes of w, of which those j
\* with ok[j] FALSE failed (set_boolean_var and the silent oemvars writes
\* leave the variable as it was).
Written(w, n, ok, x, old) ==
    LET js == {j \in 1 .. n : ok[j] /\ w[j][1] = x}
    IN IF js = {} THEN old ELSE w[CHOOSE j \in js : \A k \in js : k <= j][2]

\* efi_main from the target check to load_image: the writes in order,
\* each of which may fail; a power cut may end the boot after any of them
\* but the last.
efi_main_load ==
    /\ pc = "load"
    /\ \E fbBoot \in BOOLEAN :
        LET w == TailWrites(target, fbBoot) IN
        /\ fbBoot => target = "FASTBOOT"
        /\ \E n \in (IF PowerCuts THEN 0 .. Len(w) ELSE {Len(w)}),
              ok \in [1 .. Len(w) -> Outcomes(VarFaults)] :
            /\ updateOemVars' = Written(w, n, ok, "update", updateOemVars)
            /\ oemvarsFrom' = Written(w, n, ok, "oemvars", oemvarsFrom)
            /\ pc' = IF n < Len(w) THEN "off" ELSE "running"
    /\ UNCHANGED <<bcb, bcbStatus, oneShot, verityCorrupted, target, boots,
                   bcbTaken, varTaken>>

(***************************************************************************)
(* The environment: the running system sets requests, and the device       *)
(* reboots or is powered on again.                                         *)
(***************************************************************************)

\* Android or recovery writes the BCB (recovery also clears it).
OsWriteBcb ==
    /\ pc = "running"
    /\ \E cmd \in Bcbs, st \in BOOLEAN : bcb' = cmd /\ bcbStatus' = st
    /\ bcbTaken' = 0
    /\ UNCHANGED <<oneShot, verityCorrupted, pc, target, boots, varTaken, oemVars>>

\* "reboot <target>" sets LoaderEntryOneShot.
OsSetOneShot ==
    /\ pc = "running"
    /\ \E v \in VarNames : oneShot' = v
    /\ varTaken' = 0
    /\ UNCHANGED <<bcb, bcbStatus, verityCorrupted, pc, target, boots, bcbTaken, oemVars>>

Reboot ==
    /\ pc \in {"running", "off"}
    /\ boots < MaxBoots
    /\ pc' = "boot"
    /\ boots' = boots + 1
    /\ UNCHANGED <<bcb, bcbStatus, oneShot, verityCorrupted, target, bcbTaken, varTaken, oemVars>>

Done ==
    /\ pc \in {"running", "off"}
    /\ boots = MaxBoots
    /\ UNCHANGED vars

Init ==
    /\ bcb = NoCmd
    /\ bcbStatus = FALSE
    /\ oneShot = "none"
    /\ verityCorrupted = FALSE
    /\ pc = "running"
    /\ target = N
    /\ boots = 0
    /\ updateOemVars = "absent"
    /\ oemvarsFrom = "boot"
    /\ bcbTaken = 0
    /\ varTaken = 0

Next ==
    \/ choose_boot_target_early
    \/ choose_boot_target_bcb
    \/ choose_boot_target_rest
    \/ efi_main_load
    \/ OsWriteBcb
    \/ OsSetOneShot
    \/ Reboot
    \/ Done

Spec == Init /\ [][Next]_vars

(***************************************************************************)
(* Properties.                                                             *)
(***************************************************************************)

TypeOK ==
    /\ bcb \in Bcbs
    /\ bcbStatus \in BOOLEAN
    /\ oneShot \in VarNames \cup {"none"}
    /\ verityCorrupted \in BOOLEAN
    /\ pc \in {"boot", "load", "running", "off"}
    /\ target \in Targets
    /\ boots \in 0 .. MaxBoots
    /\ updateOemVars \in {"absent", "0", "1"}
    /\ oemvarsFrom \in {"boot", "other"}
    /\ bcbTaken \in 0 .. 2 /\ varTaken \in 0 .. 2

\* A "bootonce-" BCB command and a LoaderEntryOneShot request are each
\* honoured by at most one boot: check_bcb clears the command and
\* check_loader_entry_one_shot deletes the variable, whatever other checks
\* and requests the boots in between see.
OneShotsTakenOnce == bcbTaken <= 1 /\ varTaken <= 1

\* The UpdateOemVars handshake of efi_main: a recovery boot, an ESP boot
\* image or fastboot loads other OEM variables and sets the flag, and the
\* next NORMAL_BOOT or CHARGER boot, seeing it, reloads the boot image's
\* own.  So a kernel started for NORMAL_BOOT or CHARGER runs with the OEM
\* variables of the boot image.
OemVarsFromBootImage ==
    pc = "running" /\ target \in {N, "CHARGER"} => oemvarsFrom = "boot"

=====
