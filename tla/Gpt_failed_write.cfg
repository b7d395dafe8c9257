\* One failed WriteDisk during a table write, no reset afterwards.
CONSTANTS
    MaxVersion = 3
    MaxFaults = 1
    Faults = {"ioerror"}
    USER = TRUE
    BlockSizes = {512}
    DiskKiB = {8192}
    StartLbas = {0}
    PartLengths <- MC_FewLengths
    MaxParts = 1
SPECIFICATION Spec
INVARIANT LayoutUsedIsOnDisk
