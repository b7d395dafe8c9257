\* USER build with tee_tpm over a present ivshmem device: the anti-rollback
\* promise on the TEE backend.
CONSTANTS
    Backends = {"tee"}
    Ivshmem = {"found"}
    USER = TRUE
    LifeCycle = "enduser"
    BootDeviceVirtual = FALSE
    WriteFaults = FALSE
    Slots <- MC_Slots
    MaxIndex <- MC_MaxIndex
    MaxBoots <- MC_MaxBoots
    EspEfiBinary = TRUE
    HostileBinary = FALSE
SPECIFICATION Spec
PROPERTIES
    RollbackRefusedAll
