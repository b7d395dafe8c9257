\* No faults; the gpt_bin lists of Gpt_single_fault.cfg.  Fixed lengths
\* that fill the usable range leave the -1 partition nothing.
CONSTANTS
    MaxVersion = 2
    MaxFaults = 0
    Faults = {}
    USER = TRUE
    BlockSizes = {512, 4096}
    DiskKiB = {8192, 9000}
    StartLbas = {0, 7, 8, 35, 36, 3000}
    PartLengths <- MC_PartLengths
    MaxParts = 3
SPECIFICATION Spec
INVARIANT GptBinRestNonEmpty
