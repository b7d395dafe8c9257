------------------------------ MODULE MC_Watchdog ------------------------------
(* Watchdog instantiated for TLC.  One abstract time unit stands for the  *)
(* 600 s of WATCHDOG_DELAY; the RTC moves by 0, 1 or 2 units per reset, so *)
(* a reset falls inside the window, at its edge, or after it.             *)
EXTENDS Watchdog

MC_Delay == 1
MC_Advance == {0, 1, 2}
\* The storm of the spec's scenario 5 needs three crash boots; two more
\* resets let a stale reason or a power loss come between them.
MC_MaxBoots == 5
\* With a u8 WatchdogCounterMax of 255 the storm needs 256 crashes in a row,
\* all inside one window: the RTC does not move.
MC_FrozenAdvance == {0}
MC_WrapBoots == 258
\* A boot loop of kernel panics and hardware watchdog resets only.
MC_CrashResets == {"panic", "watchdog"}
====
