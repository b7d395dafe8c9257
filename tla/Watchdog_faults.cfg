\* USER build: variable writes and GetTime may fail, power loss anywhere.
CONSTANTS
    USER = TRUE
    CounterMax = 2
    VarFaults = TRUE
    TimeFaults = TRUE
    Delay <- MC_Delay
    Advance <- MC_Advance
    MaxBoots <- MC_MaxBoots
    Resets <- ResetKinds
SPECIFICATION Spec
INVARIANTS TypeOK CounterHasTimeRef
