\* One crash or failed write anywhere in a sequence of table writes, and
\* gpt_bin lists of up to three partitions on two disk sizes of each
\* block size, with the default start, forced starts and a start too low.
CONSTANTS
    MaxVersion = 4
    MaxFaults = 1
    Faults = {"crash", "ioerror"}
    USER = TRUE
    BlockSizes = {512, 4096}
    DiskKiB = {8192, 9000}
    StartLbas = {0, 7, 8, 35, 36, 3000}
    PartLengths <- MC_PartLengths
    MaxParts = 3
SPECIFICATION Spec
INVARIANT TypeOK
INVARIANT GptBinLayoutSound
PROPERTY TableNeverLost
