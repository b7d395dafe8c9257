\* Two tries per fresh slot, five boots, recovery in the boot partition.
CONSTANTS
    MaxTries = 2
    MaxBoots = 5
    RecoveryInBoot = TRUE
SPECIFICATION Spec
INVARIANTS TypeOK KfldFallbackKept
