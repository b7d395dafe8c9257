\* Initial maps of up to three descriptors of up to two pages; two tries
\* and two map changes, so the firmware can make every try fail.
CONSTANTS
    Types <- MC_Types
    MaxDescs = 3
    MaxPages = 2
    ExitTries = 2
    MaxMapChanges = 2
    AllocFaults = TRUE
SPECIFICATION Spec
INVARIANTS TypeOK E820Faithful RetriesSuffice MemmapNotLeaked
