\* write_bcb and del_efi_variable may fail.
CONSTANTS
    BcbReadFaults = FALSE
    BcbFaults = TRUE
    VarFaults = TRUE
    PowerCuts = FALSE
    MaxBoots = 3
SPECIFICATION Spec
INVARIANT OneShotsTakenOnce
