--------------------------- MODULE MC_XdciEvents ---------------------------
(***************************************************************************)
(* Model-checking instance of XdciEvents: a ring of two events (so it      *)
(* wraps twice within a run), up to five controller events per run (a bus  *)
(* reset, connection done and a SETUP with its phases), and request ids    *)
(* 0..2 per bulk endpoint, so one request can follow another.              *)
(***************************************************************************)
EXTENDS XdciEvents

MC_RingSize == 2
MC_MaxEvents == 5
MC_MaxIds == 2

\* One request per bulk endpoint for the run that also checks liveness.
MC_MaxIdsRing == 1

=============================================================================
