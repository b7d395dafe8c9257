\* USER build on andr_tpm whose BCB names an EFI binary on the ESP that
\* issues NV writes of its own: uefi_enter_binary runs it before tpm2_end.
CONSTANTS
    Backends = {"tpm"}
    Ivshmem = {"found"}
    USER = TRUE
    LifeCycle = "enduser"
    BootDeviceVirtual = FALSE
    WriteFaults = FALSE
    Slots <- MC_Slots
    MaxIndex <- MC_MaxIndex
    MaxBoots <- MC_MaxBoots
    EspEfiBinary = TRUE
    HostileBinary = TRUE
SPECIFICATION Spec
PROPERTY
    RollbackRefused
