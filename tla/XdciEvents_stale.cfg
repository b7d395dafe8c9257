\* A client that starts a bulk request while the completion of the previous one is still in the ring.
CONSTANTS
    RingSize <- MC_RingSize
    MaxEvents <- MC_MaxEvents
    MaxIds <- MC_MaxIds
    ClientWaits = FALSE
SPECIFICATION Spec
INVARIANT NoStaleCompletion
