\* The event ring and the transfers under every interleaving of the
\* controller, the host, both interrupt routines and the client, with a
\* client that waits for a completion before reusing an endpoint.
CONSTANTS
    RingSize <- MC_RingSize
    MaxEvents <- MC_MaxEvents
    MaxIds <- MC_MaxIdsRing
    ClientWaits = TRUE
SPECIFICATION Spec
INVARIANTS
    TypeOK
    RingInSync
    RscTracksHw
PROPERTIES
    DisconnectCompletes
