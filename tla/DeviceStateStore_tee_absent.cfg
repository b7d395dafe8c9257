\* USER build with tee_tpm where ivshmem_init finds no usable device.
CONSTANTS
    Backends = {"tee"}
    Ivshmem = {"absent", "small"}
    USER = TRUE
    LifeCycle = "enduser"
    BootDeviceVirtual = FALSE
    WriteFaults = TRUE
    Slots <- MC_Slots
    MaxIndex <- MC_MaxIndex
    MaxBoots <- MC_MaxBoots
    EspEfiBinary = TRUE
    HostileBinary = FALSE
SPECIFICATION Spec
INVARIANTS
    AckedStateStored
