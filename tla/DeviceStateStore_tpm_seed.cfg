\* USER build with andr_tpm, no faults, crashes: can the OS rewrite the seed?
CONSTANTS
    Backends = {"tpm"}
    Ivshmem = {"found"}
    USER = TRUE
    LifeCycle = "enduser"
    BootDeviceVirtual = FALSE
    WriteFaults = FALSE
    Slots <- MC_Slots
    MaxIndex <- MC_MaxIndex
    MaxBoots <- MC_MaxBoots
    EspEfiBinary = TRUE
    HostileBinary = FALSE
SPECIFICATION Spec
INVARIANT
    SeedIntegrity
