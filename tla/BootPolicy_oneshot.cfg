\* Reliable misc and EFI variable writes, three boots with OS requests in between.
CONSTANTS
    BcbReadFaults = TRUE
    BcbFaults = FALSE
    VarFaults = FALSE
    PowerCuts = FALSE
    MaxBoots = 3
SPECIFICATION Spec
INVARIANTS TypeOK OneShotsTakenOnce OemVarsFromBootImage
