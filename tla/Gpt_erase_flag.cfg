\* USER build, no faults: erase userdata, repartition, erase userdata again.
CONSTANTS
    MaxVersion = 2
    MaxFaults = 0
    Faults = {}
    USER = TRUE
    BlockSizes = {512}
    DiskKiB = {8192}
    StartLbas = {0}
    PartLengths <- MC_FewLengths
    MaxParts = 1
SPECIFICATION Spec
INVARIANT ErasedFlagCurrent
