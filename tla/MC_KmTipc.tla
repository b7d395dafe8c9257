------------------------------ MODULE MC_KmTipc ------------------------------
(***************************************************************************)
(* Model-checking instance of KmTipc.  The error codes take the values of *)
(* ql-tipc's trusty_err.h and keymaster_defs.h; the keymaster reports a   *)
(* version too old (1.0), the expected one (1.1) or a newer one (2.0).    *)
(***************************************************************************)
EXTENDS KmTipc

MC_TRUSTY_ERR_NONE == 0
MC_TRUSTY_ERR_GENERIC == -1
MC_KM_ERROR_OK == 0
MC_KM_ERROR_ROOT_OF_TRUST_ALREADY_SET == -1
MC_KmRefusal == -38         \* KM_ERROR_INVALID_ARGUMENT
MC_TeeVersions == {<<1, 0>>, <<1, 1>>, <<2, 0>>}

=============================================================================
