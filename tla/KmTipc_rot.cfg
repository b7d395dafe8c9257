\* km_tipc_init against a keymaster that may refuse SET_BOOT_PARAMS: the
\* refusal comes back from km_do_tipc as TRUSTY_ERR_GENERIC, which equals
\* KM_ERROR_ROOT_OF_TRUST_ALREADY_SET, and init goes on.
CONSTANTS
    TRUSTY_ERR_NONE <- MC_TRUSTY_ERR_NONE
    TRUSTY_ERR_GENERIC <- MC_TRUSTY_ERR_GENERIC
    KM_ERROR_OK <- MC_KM_ERROR_OK
    KM_ERROR_ROOT_OF_TRUST_ALREADY_SET <- MC_KM_ERROR_ROOT_OF_TRUST_ALREADY_SET
    KmRefusal <- MC_KmRefusal
    TeeVersions <- MC_TeeVersions
    TeeRefuses = TRUE
    MaxCalls = 4
SPECIFICATION Spec
INVARIANT
    InitEstablishesRot
