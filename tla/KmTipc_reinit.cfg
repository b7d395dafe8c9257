\* km_tipc_init, km_tipc_shutdown and km_tipc_init again against a keymaster
\* that accepts everything: shutdown tests initialized, which nothing sets.
CONSTANTS
    TRUSTY_ERR_NONE <- MC_TRUSTY_ERR_NONE
    TRUSTY_ERR_GENERIC <- MC_TRUSTY_ERR_GENERIC
    KM_ERROR_OK <- MC_KM_ERROR_OK
    KM_ERROR_ROOT_OF_TRUST_ALREADY_SET <- MC_KM_ERROR_ROOT_OF_TRUST_ALREADY_SET
    KmRefusal <- MC_KmRefusal
    TeeVersions <- MC_TeeVersions
    TeeRefuses = FALSE
    MaxCalls = 4
SPECIFICATION Spec
INVARIANT
    KmConnectionsBounded
