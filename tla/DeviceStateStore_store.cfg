\* USER build, all three backends (andr_tpm NV indices, EFI variables, and
\* the TEE over a present ivshmem device), write failures and resets
\* between any two store accesses.
CONSTANTS
    Backends = {"tpm", "efi", "tee"}
    Ivshmem = {"found"}
    USER = TRUE
    LifeCycle = "enduser"
    BootDeviceVirtual = FALSE
    WriteFaults = TRUE
    Slots <- MC_Slots
    MaxIndex <- MC_MaxIndex
    MaxBoots <- MC_MaxBoots
    EspEfiBinary = TRUE
    HostileBinary = FALSE
SPECIFICATION Spec
INVARIANTS
    TypeOK
    CacheCoherent
    EfiOnlyFastbootUnlocks
    AckedStateStored
PROPERTIES
    StoreRefinement
    RollbackRefused
