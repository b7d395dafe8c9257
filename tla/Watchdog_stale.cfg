\* USER build, reliable variable store and RTC, power loss anywhere.
CONSTANTS
    USER = TRUE
    CounterMax = 2
    VarFaults = FALSE
    TimeFaults = FALSE
    Delay <- MC_Delay
    Advance <- MC_Advance
    MaxBoots <- MC_MaxBoots
    Resets <- ResetKinds
SPECIFICATION Spec
INVARIANT MenuOnlyAfterStorm
