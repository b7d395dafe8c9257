\* Recovery in the boot partition, a slot mismatch on a recovery boot.
CONSTANTS
    MaxTries = 2
    MaxBoots = 2
    RecoveryInBoot = TRUE
SPECIFICATION Spec
INVARIANT RebootKeepsTarget
