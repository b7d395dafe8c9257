\* Power may be lost between the variable writes of the efi_main tail.
CONSTANTS
    BcbReadFaults = FALSE
    BcbFaults = FALSE
    VarFaults = FALSE
    PowerCuts = TRUE
    MaxBoots = 3
SPECIFICATION Spec
INVARIANT OemVarsFromBootImage
