\* Disconnect and re-initialisation against EP0's SETUP state.
CONSTANTS
    RingSize <- MC_RingSize
    MaxEvents <- MC_MaxEvents
    MaxIds <- MC_MaxIds
    ClientWaits = TRUE
SPECIFICATION Spec
INVARIANT Ep0SetupArmed
