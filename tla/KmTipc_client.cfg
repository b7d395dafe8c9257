\* Four public calls (km_tipc_init, provisioning calls, km_tipc_shutdown,
\* init again) against a keymaster that cuts its replies into frames at
\* any point, reports any of three versions and may refuse any request.
CONSTANTS
    TRUSTY_ERR_NONE <- MC_TRUSTY_ERR_NONE
    TRUSTY_ERR_GENERIC <- MC_TRUSTY_ERR_GENERIC
    KM_ERROR_OK <- MC_KM_ERROR_OK
    KM_ERROR_ROOT_OF_TRUST_ALREADY_SET <- MC_KM_ERROR_ROOT_OF_TRUST_ALREADY_SET
    KmRefusal <- MC_KmRefusal
    TeeVersions <- MC_TeeVersions
    TeeRefuses = TRUE
    MaxCalls = 4
SPECIFICATION Spec
INVARIANTS
    TypeOK
    ReplyMatchesRequest
    InitConfigured
