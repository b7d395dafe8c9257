\* userdebug build with WatchdogCounterMax set to 255, a reliable store and a
\* boot loop of crashes, which may stop at any point: deadlock is not checked.
CONSTANTS
    USER = FALSE
    CounterMax = 255
    VarFaults = FALSE
    TimeFaults = FALSE
    Delay <- MC_Delay
    Advance <- MC_FrozenAdvance
    MaxBoots <- MC_WrapBoots
    Resets <- MC_CrashResets
SPECIFICATION Spec
INVARIANT StormShowsMenu
CHECK_DEADLOCK FALSE
