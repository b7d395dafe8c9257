------------------------------- MODULE Watchdog -------------------------------
(***************************************************************************)
(* The crash-event watchdog of kernelflinger across boots: check_watchdog *)
(* (kernelflinger.c) with the WatchdogCounter / WatchdogTimeReference     *)
(* variables of vars.c, the LoaderEntryRebootReason variable the OS       *)
(* writes before a reset and get_boot_reason (android.c) deletes at kernel *)
(* handover, and the resets that end a boot: kernel panic, hardware       *)
(* watchdog, OS reboot, a reboot out of fastboot, and power loss at any    *)
(* step, including between two variable writes.                           *)
(*                                                                         *)
(* Each variable write is its own step.  Time is the RTC in abstract       *)
(* units; Delay stands for WATCHDOG_DELAY (600 s): only the comparisons   *)
(* now < time_ref and now - time_ref > WATCHDOG_DELAY are modelled.        *)
(***************************************************************************)
EXTENDS Integers

CONSTANTS
    USER,        \* user build: a "shutdown" reboot reason powers off
    CounterMax,  \* get_watchdog_counter_max(): 2, or WatchdogCounterMax (u8)
    Delay,       \* WATCHDOG_DELAY in abstract time units
    Advance,     \* how far the RTC may move between two boots
    VarFaults,   \* EFI variable writes and deletes may fail
    TimeFaults,  \* RT->GetTime may fail
    MaxBoots,    \* bound on the number of resets
    Resets       \* the kinds of reset the environment may cause

ASSUME CounterMax \in 0 .. 255 /\ Delay \in Nat /\ Advance \subseteq Nat
ResetKinds == {"panic", "watchdog", "os", "fastboot", "poweron", "powerloss"}

ASSUME Resets \subseteq ResetKinds
ASSUME MaxBoots \in Nat /\ {VarFaults, TimeFaults, USER} \subseteq BOOLEAN

NoTime == -1          \* WatchdogTimeReference absent
UINT8(n) == n % 256   \* the UINT8 counter of check_watchdog

\* The reboot reason as is_reboot_reason's StrStr sees it: "panic"
\* contains kernel_panic or watchdog, "shutdown" contains shutdown.
Reasons == {"none", "panic", "shutdown", "other"}

Pcs == {"policy", "wdt", "wdt_ref", "wdt_count", "wdt_clear_count",
        "wdt_clear_ref", "menu", "rest", "kernel", "os", "fastboot", "off"}

VARIABLES
    wdtCounter,    \* WatchdogCounter; 0 when the variable is absent
    wdtTimeRef,    \* WatchdogTimeReference, or NoTime
    rebootReason,  \* LoaderEntryRebootReason
    resetSource,   \* RSCI reset source of this boot: "watchdog" or "other"
    clock,         \* the RTC
    pc,            \* where this boot is
    counter,       \* check_watchdog's local counter
    now,           \* check_watchdog's local now
    after,         \* what check_watchdog returns once the reset is done
    wdtResult,     \* what check_watchdog returned this boot, or "none"
    crashCause,    \* ghost: this boot began with a panic or watchdog reset
    streak,        \* ghost: crash resets in a row within Delay (spec 4.1)
    streakStart,   \* ghost: time of the first crash of the streak
    storm,         \* ghost: this boot's streak exceeded CounterMax
    boots

vars == <<wdtCounter, wdtTimeRef, rebootReason, resetSource, clock, pc,
          counter, now, after, wdtResult, crashCause, streak, streakStart,
          storm, boots>>
store == <<wdtCounter, wdtTimeRef, rebootReason>>
ghost == <<crashCause, streak, streakStart, storm>>

Outcomes == IF VarFaults THEN BOOLEAN ELSE {TRUE}

\* check_watchdog has returned target t: continue choose_boot_target.
Return(t) ==
    /\ wdtResult' = t
    /\ pc' = CASE t = "CRASH_MENU" -> "menu"
               [] t = "POWER_OFF"  -> "off"
               [] OTHER            -> "rest"

\* is_reboot_reason: StrStr in get_reboot_reason(), which reads
\* LoaderEntryRebootReason once per boot into a static buffer; an absent
\* or unreadable variable matches nothing.
is_reboot_reason(r) == rebootReason = r

\* reset_is_due_to_watchdog_or_panic
reset_is_due_to_watchdog_or_panic ==
    resetSource = "watchdog" \/ is_reboot_reason("panic")

\* The window test of check_watchdog: the reference is in the future or
\* more than WATCHDOG_DELAY old.
Expired(t, ref) == t < ref \/ t - ref > Delay

\* The streak the spec defines (section 4.1, item 4): crash resets in a
\* row, all within WATCHDOG_DELAY of the first.
NextStreak ==
    IF ~crashCause THEN <<0, streakStart>>
    ELSE IF streak = 0 \/ Expired(clock, streakStart) THEN <<1, clock>>
    ELSE <<streak + 1, streakStart>>

\* counter++ and the comparison with get_watchdog_counter_max(): within the
\* maximum the counter is stored, beyond it the status is reset and the
\* crash event menu is shown.
Increment(c) ==
    /\ counter' = UINT8(c + 1)
    /\ IF UINT8(c + 1) <= CounterMax
       THEN pc' = "wdt_count" /\ after' = "NORMAL_BOOT"
       ELSE pc' = "wdt_clear_count" /\ after' = "CRASH_MENU"

(***************************************************************************)
(* choose_boot_target up to check_watchdog: check_command_line,           *)
(* check_fastboot_sentinel and check_magic_key either short-circuit to    *)
(* Fastboot or fall through to check_watchdog (CrashEventMenu is at its   *)
(* default, TRUE).                                                         *)
(***************************************************************************)
choose_boot_target_early ==
    /\ pc = "policy"
    /\ \E fastboot \in BOOLEAN :
         pc' = IF fastboot THEN "fastboot" ELSE "wdt"
    /\ UNCHANGED <<store, resetSource, clock, counter, now, after, wdtResult,
                   ghost, boots>>

(***************************************************************************)
(* check_watchdog up to its first write: get_watchdog_status, the reset   *)
(* source and reason tests, the USER shutdown exit, GetTime and the       *)
(* window test.  The ghost streak advances in the same step, except on    *)
(* the shutdown exit, which the policy does not count.                    *)
(***************************************************************************)
\* get_watchdog_status: a stored counter without its time reference fails.
StatusReadable == ~(wdtCounter # 0 /\ wdtTimeRef = NoTime)

ShutdownExit ==
    reset_is_due_to_watchdog_or_panic /\ USER /\ is_reboot_reason("shutdown")

check_watchdog ==
    /\ pc = "wdt"
    /\ IF ShutdownExit
       THEN UNCHANGED <<streak, streakStart, storm>>
       ELSE LET ns == NextStreak IN
            /\ storm' = (ns[1] > CounterMax)
            /\ streak' = IF ns[1] > CounterMax THEN 0 ELSE ns[1]
            /\ streakStart' = ns[2]
    /\ \/ /\ ~StatusReadable
          /\ Return("NORMAL_BOOT")
          /\ UNCHANGED <<rebootReason, counter, now, after>>
       \/ /\ StatusReadable /\ ~reset_is_due_to_watchdog_or_panic
          /\ IF wdtCounter = 0
             THEN Return("NORMAL_BOOT") /\ UNCHANGED after
             ELSE /\ pc' = "wdt_clear_count" /\ after' = "NORMAL_BOOT"
                  /\ UNCHANGED wdtResult
          /\ UNCHANGED <<rebootReason, counter, now>>
       \/ /\ StatusReadable /\ ShutdownExit
          /\ \E ok \in Outcomes :
                rebootReason' = IF ok THEN "none" ELSE rebootReason
          /\ Return("POWER_OFF")
          /\ UNCHANGED <<counter, now, after>>
       \/ /\ StatusReadable /\ reset_is_due_to_watchdog_or_panic
          /\ ~ShutdownExit /\ TimeFaults
          \* RT->GetTime fails
          /\ Return("NORMAL_BOOT")
          /\ UNCHANGED <<rebootReason, counter, now, after>>
       \/ /\ StatusReadable /\ reset_is_due_to_watchdog_or_panic
          /\ ~ShutdownExit
          /\ now' = clock
          /\ LET c == IF wdtCounter > 0 /\ Expired(clock, wdtTimeRef)
                      THEN 0 ELSE wdtCounter
             IN IF c = 0
                THEN pc' = "wdt_ref" /\ counter' = 0 /\ UNCHANGED after
                ELSE Increment(c)
          /\ UNCHANGED <<wdtResult, rebootReason>>
    /\ UNCHANGED <<wdtCounter, wdtTimeRef, resetSource, clock, crashCause, boots>>

\* set_watchdog_time_reference(&now); on failure check_watchdog gives up.
check_watchdog_set_time_ref ==
    /\ pc = "wdt_ref"
    /\ \E ok \in Outcomes :
         IF ok THEN /\ wdtTimeRef' = now
                    /\ Increment(counter)
                    /\ UNCHANGED wdtResult
               ELSE /\ Return("NORMAL_BOOT")
                    /\ UNCHANGED <<wdtTimeRef, counter, after>>
    /\ UNCHANGED <<wdtCounter, rebootReason, resetSource, clock, now, ghost, boots>>

\* set_watchdog_counter(counter); a failure is only logged.
check_watchdog_set_counter ==
    /\ pc = "wdt_count"
    /\ \E ok \in Outcomes :
         wdtCounter' = IF ok THEN counter ELSE wdtCounter
    /\ Return("NORMAL_BOOT")
    /\ UNCHANGED <<wdtTimeRef, rebootReason, resetSource, clock, counter, now,
                   after, ghost, boots>>

\* Mutant: a failed reset hands its error status back as the boot target.
reset_watchdog_status_counter_returns_error ==
    /\ pc = "wdt_clear_count"
    /\ \E ok \in Outcomes :
         IF ok THEN /\ wdtCounter' = 0
                    /\ pc' = "wdt_clear_ref"
                    /\ UNCHANGED wdtResult
               ELSE /\ Return("EFI_ERROR")
                    /\ UNCHANGED wdtCounter
    /\ UNCHANGED <<wdtTimeRef, rebootReason, resetSource, clock, counter, now,
                   after, ghost, boots>>

\* Mutant: reset_watchdog_status forgets set_watchdog_counter(0).
reset_watchdog_status_counter_kept ==
    /\ pc = "wdt_clear_count"
    /\ pc' = "wdt_clear_ref"
    /\ UNCHANGED <<wdtCounter, wdtResult, wdtTimeRef, rebootReason, resetSource,
                   clock, counter, now, after, ghost, boots>>

\* reset_watchdog_status, first call: set_watchdog_counter(0) deletes the
\* counter; if that fails reset_watchdog_status returns at once.
reset_watchdog_status_counter ==
    /\ pc = "wdt_clear_count"
    /\ \E ok \in Outcomes :
         IF ok THEN /\ wdtCounter' = 0
                    /\ pc' = "wdt_clear_ref"
                    /\ UNCHANGED wdtResult
               ELSE /\ Return(after)
                    /\ UNCHANGED wdtCounter
    /\ UNCHANGED <<wdtTimeRef, rebootReason, resetSource, clock, counter, now,
                   after, ghost, boots>>

\* reset_watchdog_status, second call: set_watchdog_time_reference(NULL).
reset_watchdog_status_time_ref ==
    /\ pc = "wdt_clear_ref"
    /\ \E ok \in Outcomes :
         wdtTimeRef' = IF ok THEN NoTime ELSE wdtTimeRef
    /\ Return(after)
    /\ UNCHANGED <<wdtCounter, rebootReason, resetSource, clock, counter, now,
                   after, ghost, boots>>

(***************************************************************************)
(* The rest of the boot, abstracted to where it ends.                     *)
(***************************************************************************)

\* The crash event menu (ux_prompt_user_for_boot_target): the user picks
\* Fastboot, or NormalBoot and choose_boot_target carries on.
ux_prompt_user_for_boot_target ==
    /\ pc = "menu"
    /\ \E t \in {"rest", "fastboot"} : pc' = t
    /\ UNCHANGED <<store, resetSource, clock, counter, now, after, wdtResult,
                   ghost, boots>>

\* The checks after check_watchdog (battery, BCB, LoaderEntryOneShot,
\* charger) and efi_main's dispatch: the boot loads a kernel, stays in
\* fastboot (or runs an EFI binary and resets), or halts.
choose_boot_target_rest ==
    /\ pc = "rest"
    /\ \E t \in {"kernel", "fastboot", "off"} : pc' = t
    /\ UNCHANGED <<store, resetSource, clock, counter, now, after, wdtResult,
                   ghost, boots>>

\* load_image builds the command line; get_boot_reason reads the reason
\* and deletes LoaderEntryRebootReason before the kernel starts.
get_boot_reason ==
    /\ pc = "kernel"
    /\ \E ok \in Outcomes :
         rebootReason' = IF ok THEN "none" ELSE rebootReason
    /\ pc' = "os"
    /\ UNCHANGED <<wdtCounter, wdtTimeRef, resetSource, clock, counter, now,
                   after, wdtResult, ghost, boots>>

(***************************************************************************)
(* Resets.  A new boot starts with the RTC moved on by some element of    *)
(* Advance, its reset source, and the true cause kept in the ghost.       *)
(***************************************************************************)
NewBoot(source, crash) ==
    /\ boots < MaxBoots
    /\ boots' = boots + 1
    /\ \E a \in Advance : clock' = clock + a
    /\ resetSource' = source
    /\ crashCause' = crash
    /\ pc' = "policy"
    /\ counter' = 0 /\ now' = 0 /\ after' = "NORMAL_BOOT"
    /\ wdtResult' = "none" /\ storm' = FALSE
    /\ UNCHANGED <<wdtCounter, wdtTimeRef, streak, streakStart>>

\* The OS stores a reboot reason (a reboot or shutdown on its way).
OsSetRebootReason ==
    /\ pc = "os"
    /\ \E r \in {"shutdown", "other"} : rebootReason' = r
    /\ UNCHANGED <<wdtCounter, wdtTimeRef, resetSource, clock, pc, counter,
                   now, after, wdtResult, ghost, boots>>

\* A kernel panic: the reason becomes kernel_panic, then an OS reset.
OsPanic ==
    /\ "panic" \in Resets
    /\ pc = "os"
    /\ rebootReason' = "panic"
    /\ NewBoot("other", TRUE)

\* A hardware watchdog fires while the OS runs.
HwWatchdogReset ==
    /\ "watchdog" \in Resets
    /\ pc = "os"
    /\ NewBoot("watchdog", TRUE)
    /\ UNCHANGED rebootReason

\* An OS-initiated reset (or power loss) while the OS runs.
OsReset ==
    /\ "os" \in Resets
    /\ pc = "os"
    /\ NewBoot("other", FALSE)
    /\ UNCHANGED rebootReason

\* 'fastboot reboot' and the resets of efi_main's other exits.
FastbootReboot ==
    /\ "fastboot" \in Resets
    /\ pc = "fastboot"
    /\ NewBoot("other", FALSE)
    /\ UNCHANGED rebootReason

\* Power on after halt_system.
PowerOn ==
    /\ "poweron" \in Resets
    /\ pc = "off"
    /\ NewBoot("other", FALSE)
    /\ UNCHANGED rebootReason

\* Power loss while the bootloader runs, between any two of its steps.
PowerLoss ==
    /\ "powerloss" \in Resets
    /\ pc \in {"policy", "wdt", "wdt_ref", "wdt_count", "wdt_clear_count",
               "wdt_clear_ref", "menu", "rest", "kernel"}
    /\ NewBoot("other", FALSE)
    /\ UNCHANGED rebootReason

\* The bound on resets is reached in a state where the device rests.
Done ==
    /\ boots = MaxBoots
    /\ pc \in {"os", "fastboot", "off"}
    /\ UNCHANGED vars

Init ==
    /\ wdtCounter = 0
    /\ wdtTimeRef = NoTime
    /\ rebootReason = "none"
    /\ resetSource = "other"
    /\ clock = 0
    /\ pc = "policy"
    /\ counter = 0 /\ now = 0 /\ after = "NORMAL_BOOT"
    /\ wdtResult = "none"
    /\ crashCause = FALSE /\ streak = 0 /\ streakStart = 0 /\ storm = FALSE
    /\ boots = 0

Next ==
    \/ choose_boot_target_early
    \/ check_watchdog
    \/ check_watchdog_set_time_ref
    \/ check_watchdog_set_counter
    \/ reset_watchdog_status_counter
    \/ reset_watchdog_status_time_ref
    \/ ux_prompt_user_for_boot_target
    \/ choose_boot_target_rest
    \/ get_boot_reason
    \/ OsSetRebootReason
    \/ OsPanic
    \/ HwWatchdogReset
    \/ OsReset
    \/ FastbootReboot
    \/ PowerOn
    \/ PowerLoss
    \/ Done

Spec == Init /\ [][Next]_vars

(***************************************************************************)
(* Properties                                                              *)
(***************************************************************************)

\* Every variable has the type its code gives it; in particular the target
\* check_watchdog hands back to choose_boot_target is a boot target, never
\* an error status (failures degrade to NormalBoot, spec 4.1).
TypeOK ==
    /\ wdtCounter \in 0 .. 255
    /\ wdtTimeRef \in {NoTime} \cup Nat
    /\ rebootReason \in Reasons
    /\ resetSource \in {"watchdog", "other"}
    /\ pc \in Pcs
    /\ counter \in 0 .. 255
    /\ after \in {"NORMAL_BOOT", "CRASH_MENU"}
    /\ wdtResult \in {"none", "NORMAL_BOOT", "POWER_OFF", "CRASH_MENU"}
    /\ streak \in Nat /\ storm \in BOOLEAN /\ crashCause \in BOOLEAN

\* A stored WatchdogCounter always has its WatchdogTimeReference, whatever
\* step a power loss interrupts: otherwise get_watchdog_status fails on
\* every later boot and check_watchdog never counts or resets again.
CounterHasTimeRef == wdtCounter # 0 => wdtTimeRef # NoTime

\* When more than get_watchdog_counter_max() panic or watchdog resets in a
\* row fell within WATCHDOG_DELAY, check_watchdog shows the crash event
\* menu (the comment above check_watchdog, spec 4.1 item 4).
StormShowsMenu == (storm /\ wdtResult # "none") => wdtResult = "CRASH_MENU"

\* check_watchdog shows the crash event menu only after such a storm of
\* real panic or watchdog resets.
MenuOnlyAfterStorm == wdtResult = "CRASH_MENU" => storm

====
