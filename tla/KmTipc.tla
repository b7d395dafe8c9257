------------------------------- MODULE KmTipc -------------------------------
(***************************************************************************)
(* The bootloader's Trusty keymaster client (src/unnamed/part_001): the   *)
(* keymaster channel, km_tipc_init's sequence of requests, the public     *)
(* provisioning calls, km_tipc_shutdown, and the reassembly of a response *)
(* that the secure side sends as several frames, each with the command    *)
(* header and the last one with KEYMASTER_STOP_BIT.                        *)
(*                                                                         *)
(* The keymaster is the other actor.  It answers each request with the    *)
(* little-endian bytes of its answer, cut into frames at any point.  The  *)
(* ql-tipc transport (trusty_ipc_connect/send/recv) and the header        *)
(* constants are outside the repository: a connect may fail, a send is    *)
(* delivered, a recv returns the next frame, and the error codes are      *)
(* CONSTANTS given their header values in MC_KmTipc.                      *)
(***************************************************************************)
EXTENDS Integers, Sequences

CONSTANTS
    TRUSTY_ERR_NONE,                    \* trusty_err.h
    TRUSTY_ERR_GENERIC,
    KM_ERROR_OK,                        \* keymaster_defs.h
    KM_ERROR_ROOT_OF_TRUST_ALREADY_SET,
    KmRefusal,          \* another keymaster error the secure side may answer
    TeeVersions,        \* <<major, minor>> versions the keymaster may report
    TeeRefuses,         \* the keymaster may refuse a request, a connect fail
    MaxCalls            \* public calls the caller makes

ASSUME TeeRefuses \in BOOLEAN /\ MaxCalls \in Nat

Bytes == 0 .. 255

\* The commands, and the calls of km_tipc_init in its order.
Cmds == {"KM_GET_VERSION", "KM_SET_BOOT_PARAMS", "KM_CONFIGURE_BOOT_PATCHLEVEL",
         "KM_SET_ATTESTATION_IDS", "KM_SET_ATTESTATION_KEY",
         "KM_APPEND_ATTESTATION_CERT_CHAIN"}
InitSeq == <<"KM_GET_VERSION", "KM_SET_BOOT_PARAMS",
             "KM_CONFIGURE_BOOT_PATCHLEVEL", "KM_SET_ATTESTATION_IDS">>

\* Public functions the caller (outside the repository) may call.
Fns == {"km_tipc_init", "trusty_set_attestation_key",
        "trusty_append_attestation_cert_chain"}
FnCmd == [f \in Fns \ {"km_tipc_init"} |->
            IF f = "trusty_set_attestation_key" THEN "KM_SET_ATTESTATION_KEY"
            ELSE "KM_APPEND_ATTESTATION_CERT_CHAIN"]

\* An int32_t as its bytes in memory and back (little-endian, two's
\* complement).
LE32(v) == [i \in 1 .. 4 |-> (v \div (256 ^ (i - 1))) % 256]
Int32LE(b) == b[1] + 256 * b[2] + 65536 * b[3]
                + 16777216 * (IF b[4] >= 128 THEN b[4] - 256 ELSE b[4])

\* sizeof the response the client reads into: km_get_version_resp (three
\* uint8_t) or km_no_response (one int32_t).
RespLen(c) == IF c = "KM_GET_VERSION" THEN 3 ELSE 4

\* The keymaster's message version for the reported version.
MessageVersion(major_ver, minor_ver, subminor_ver) ==
    CASE major_ver = 0 -> 0
      [] major_ver = 1 /\ minor_ver = 0 -> 1
      [] major_ver = 1 /\ minor_ver = 1 -> 2
      [] major_ver = 2 -> 3
      [] OTHER -> -1

trusty_km_version == 2

\* The ways the secure side may cut a reply into nonempty frames.
RECURSIVE Chunkings(_)
Chunkings(s) ==
    IF s = <<>> THEN {<<>>}
    ELSE UNION {{<<SubSeq(s, 1, k)>> \o rest : rest \in Chunkings(SubSeq(s, k + 1, Len(s)))}
                : k \in 1 .. Len(s)}

Frames(c, s) ==
    {[i \in 1 .. Len(ch) |-> [cmd |-> c, stop |-> i = Len(ch), data |-> ch[i]]]
        : ch \in Chunkings(s)}

NoAnswer == <<>>

VARIABLES
    chan,           \* km_chan: "closed" or "connected"
    conns,          \* keymaster connections open on the secure side
    initialized,    \* the static flag km_tipc_shutdown tests
    fn,             \* the public function running, or "none"
    pc,             \* "idle", "connect", "send" or "recv"
    cmd,            \* the request in progress
    resp,           \* the response buffer (|resp|) ...
    got,            \* ... and resp_len, the bytes reassembled into it
    tee,            \* what the keymaster holds
    inbox,          \* the request the keymaster has not answered, or "none"
    out,            \* frames sent by the keymaster, not yet received
    answer,         \* ghost: the reply the keymaster sent to this request
    lastCall,       \* ghost: the last request that returned, with its reply
    initRc,         \* ghost: the return of the last km_tipc_init
    calls           \* public calls made

vars == <<chan, conns, initialized, fn, pc, cmd, resp, got, tee, inbox, out,
          answer, lastCall, initRc, calls>>
client == <<chan, conns, initialized, fn, pc, cmd, resp, got, answer,
            lastCall, initRc, calls>>

-----------------------------------------------------------------------------
(* The client                                                              *)

\* km_send_request with its wait: the header and the request go to the
\* keymaster, and the zero-initialised response buffer is set up.
SendRequest(c) ==
    /\ cmd' = c /\ pc' = "recv"
    /\ inbox' = c
    /\ resp' = [i \in 1 .. RespLen(c) |-> 0] /\ got' = 0
    /\ answer' = NoAnswer

\* Variant that does not check the CONFIGURE_BOOT_PATCHLEVEL reply.
Accepted_patchlevel_unchecked(c, rc, version) ==
    CASE c = "KM_GET_VERSION" -> version >= trusty_km_version
      [] c \in {"KM_SET_BOOT_PARAMS", "KM_CONFIGURE_BOOT_PATCHLEVEL"} ->
            rc = KM_ERROR_OK \/ rc = KM_ERROR_ROOT_OF_TRUST_ALREADY_SET
      [] OTHER -> rc = KM_ERROR_OK

\* Whether km_tipc_init goes on after a call: the version check, the
\* boot-params check that tolerates KM_ERROR_ROOT_OF_TRUST_ALREADY_SET,
\* and KM_ERROR_OK for the rest.
Accepted(c, rc, version) ==
    CASE c = "KM_GET_VERSION" -> version >= trusty_km_version
      [] c = "KM_SET_BOOT_PARAMS" ->
            rc = KM_ERROR_OK \/ rc = KM_ERROR_ROOT_OF_TRUST_ALREADY_SET
      [] OTHER -> rc = KM_ERROR_OK

\* A public function returns rc.
Return(rc) ==
    /\ fn' = "none" /\ pc' = "idle"
    /\ initRc' = IF fn = "km_tipc_init" THEN rc ELSE initRc

\* The caller calls km_tipc_init at any time, and the provisioning calls
\* once km_tipc_init has succeeded.
Call(f) ==
    /\ fn = "none" /\ calls < MaxCalls
    /\ f # "km_tipc_init" => initRc = TRUSTY_ERR_NONE
    /\ fn' = f /\ calls' = calls + 1
    /\ IF f = "km_tipc_init" THEN pc' = "connect" /\ UNCHANGED <<cmd, resp, got, answer, inbox>>
       ELSE SendRequest(FnCmd[f])
    /\ UNCHANGED <<chan, conns, initialized, tee, out, lastCall, initRc>>

\* km_tipc_init: trusty_ipc_chan_init(&km_chan) forgets any channel the
\* struct held, then trusty_ipc_connect; a failure is returned as is.
km_tipc_init_connect ==
    /\ pc = "connect"
    /\ \/ /\ chan' = "connected" /\ conns' = conns + 1
          /\ SendRequest("KM_GET_VERSION")
          /\ UNCHANGED <<fn, initRc>>
       \/ /\ TeeRefuses
          /\ chan' = "closed" /\ UNCHANGED <<conns, cmd, resp, got, answer, inbox>>
          /\ Return(TRUSTY_ERR_GENERIC)
    /\ UNCHANGED <<initialized, tee, out, lastCall, calls>>

\* sizeof(struct keymaster_message), the header of every frame.
KmHeaderSize == 4

\* Variant that counts the frame's header into resp_len.
NextRespLen_header_counted(resp_len, rc) == resp_len + rc

\* resp_len after a frame: check_response_error returns what
\* trusty_ipc_recv received, the header included.
NextRespLen(resp_len, rc) == resp_len + (rc - KmHeaderSize)

\* Variant that takes the first frame as the whole response.
ResponseComplete_first_frame(f, len) == TRUE

\* The end of km_read_raw_response's loop after a frame: the stop bit, or
\* resp_len has reached the buffer's size.
ResponseComplete(f, len) == f.stop \/ len >= Len(resp)

\* One trusty_ipc_recv of km_read_raw_response and check_response_error: a
\* frame of another command is "malformed response"; otherwise its data
\* lands at resp + resp_len (at most the room left).  The loop ends on
\* KEYMASTER_STOP_BIT or a full buffer; then km_do_tipc reads the error
\* (km_get_version the version) and the caller goes on or returns.
km_read_raw_response ==
    /\ pc = "recv" /\ out # <<>>
    /\ LET f == Head(out)
           room == Len(resp) - got
           data == SubSeq(f.data, 1, IF Len(f.data) < room THEN Len(f.data) ELSE room)
           buf == [i \in 1 .. Len(resp) |->
                     IF got < i /\ i <= got + Len(data) THEN data[i - got] ELSE resp[i]]
           len == NextRespLen(got, KmHeaderSize + Len(data))
           version == MessageVersion(buf[1], buf[2], buf[3])
           rc == IF cmd = "KM_GET_VERSION" \/ Int32LE(buf) = KM_ERROR_OK
                 THEN TRUSTY_ERR_NONE ELSE TRUSTY_ERR_GENERIC
           i == CHOOSE j \in 1 .. Len(InitSeq) : InitSeq[j] = cmd
       IN /\ out' = Tail(out)
          /\ IF f.cmd # cmd
             THEN /\ lastCall' = [cmd |-> cmd, rc |-> TRUSTY_ERR_GENERIC,
                                  read |-> resp, answer |-> answer]
                  /\ Return(TRUSTY_ERR_GENERIC) /\ resp' = buf
                  /\ UNCHANGED <<cmd, got, answer, inbox>>
             ELSE IF ~ResponseComplete(f, len)
             THEN /\ resp' = buf /\ got' = len
                  /\ UNCHANGED <<fn, pc, cmd, answer, inbox, lastCall, initRc>>
             ELSE /\ lastCall' = [cmd |-> cmd, rc |-> rc, read |-> buf, answer |-> answer]
                  /\ IF fn = "km_tipc_init" /\ Accepted(cmd, rc, version) /\ i < Len(InitSeq)
                     THEN SendRequest(InitSeq[i + 1]) /\ UNCHANGED <<fn, initRc>>
                     ELSE /\ Return(IF fn # "km_tipc_init" THEN rc
                                     ELSE IF Accepted(cmd, rc, version) THEN TRUSTY_ERR_NONE
                                     ELSE TRUSTY_ERR_GENERIC)
                          /\ resp' = buf /\ got' = len
                          /\ UNCHANGED <<cmd, answer, inbox>>
    /\ UNCHANGED <<chan, conns, initialized, tee, calls>>

\* km_tipc_shutdown: closes km_chan only when initialized is set.
km_tipc_shutdown ==
    /\ fn = "none" /\ calls < MaxCalls
    /\ calls' = calls + 1
    /\ IF initialized
       THEN chan' = "closed" /\ conns' = conns - 1 /\ initialized' = FALSE
       ELSE UNCHANGED <<chan, conns, initialized>>
    /\ UNCHANGED <<fn, pc, cmd, resp, got, tee, inbox, out, answer, lastCall, initRc>>

-----------------------------------------------------------------------------
(* The keymaster                                                           *)

\* The replies the keymaster may give to a request, with what it then
\* holds: SET_BOOT_PARAMS sets the root of trust once and answers
\* KM_ERROR_ROOT_OF_TRUST_ALREADY_SET after that.
Replies(c) ==
    LET ok(t) == {[bytes |-> LE32(KM_ERROR_OK), tee |-> t]}
        no == IF TeeRefuses THEN {[bytes |-> LE32(KmRefusal), tee |-> tee]} ELSE {}
    IN CASE c = "KM_GET_VERSION" ->
              {[bytes |-> <<v[1], v[2], 0>>, tee |-> tee] : v \in TeeVersions}
         [] c = "KM_SET_BOOT_PARAMS" ->
              (IF tee.rot THEN {[bytes |-> LE32(KM_ERROR_ROOT_OF_TRUST_ALREADY_SET), tee |-> tee]}
               ELSE ok([tee EXCEPT !.rot = TRUE])) \cup no
         [] c = "KM_CONFIGURE_BOOT_PATCHLEVEL" -> ok([tee EXCEPT !.patch = TRUE]) \cup no
         [] c = "KM_SET_ATTESTATION_IDS" -> ok([tee EXCEPT !.ids = TRUE]) \cup no
         [] OTHER -> ok(tee) \cup no

TeeReply ==
    /\ inbox # "none"
    /\ \E r \in Replies(inbox) : \E fs \in Frames(inbox, r.bytes) :
        /\ tee' = r.tee
        /\ out' = out \o fs
        /\ answer' = r.bytes
    /\ inbox' = "none"
    /\ UNCHANGED <<chan, conns, initialized, fn, pc, cmd, resp, got, lastCall,
                   initRc, calls>>

\* The caller has made its calls.
Done ==
    /\ calls = MaxCalls /\ fn = "none"
    /\ UNCHANGED vars

Init ==
    /\ chan = "closed" /\ conns = 0 /\ initialized = FALSE
    /\ fn = "none" /\ pc = "idle" /\ cmd = "KM_GET_VERSION"
    /\ resp = <<>> /\ got = 0
    /\ tee = [rot |-> FALSE, patch |-> FALSE, ids |-> FALSE]
    /\ inbox = "none" /\ out = <<>>
    /\ answer = NoAnswer
    /\ lastCall = [cmd |-> "KM_GET_VERSION", rc |-> TRUSTY_ERR_NONE,
                   read |-> NoAnswer, answer |-> NoAnswer]
    /\ initRc = TRUSTY_ERR_GENERIC
    /\ calls = 0

Next ==
    \/ \E f \in Fns : Call(f)
    \/ km_tipc_init_connect
    \/ km_read_raw_response
    \/ km_tipc_shutdown
    \/ TeeReply
    \/ Done

Spec == Init /\ [][Next]_vars

-----------------------------------------------------------------------------
(* Properties                                                              *)

\* The type of every variable; resp_len never passes the size of the buffer
\* the response is read into, whatever frames the keymaster sends.
TypeOK ==
    /\ chan \in {"closed", "connected"} /\ conns \in Nat /\ initialized \in BOOLEAN
    /\ fn \in Fns \cup {"none"} /\ pc \in {"idle", "connect", "recv"}
    /\ cmd \in Cmds /\ resp \in Seq(Bytes) /\ got \in 0 .. Len(resp)
    /\ tee \in [rot : BOOLEAN, patch : BOOLEAN, ids : BOOLEAN]
    /\ inbox \in Cmds \cup {"none"}
    /\ out \in Seq([cmd : Cmds, stop : BOOLEAN, data : Seq(Bytes)])
    /\ answer \in Seq(Bytes) /\ calls \in 0 .. MaxCalls

\* A request that km_do_tipc or km_get_version completed with
\* TRUSTY_ERR_NONE read exactly the reply the keymaster sent to that very
\* request, however the reply was cut into frames: km_read_raw_response
\* must strip every header, place each frame at resp_len, and read up to
\* the frame with KEYMASTER_STOP_BIT, or a later request of the same
\* command takes the leftover frames as its own reply.
ReplyMatchesRequest ==
    lastCall.rc = TRUSTY_ERR_NONE => lastCall.read = lastCall.answer

\* km_tipc_init returns TRUSTY_ERR_NONE only after the keymaster accepted
\* the boot patchlevel and the attestation ids.
InitConfigured ==
    initRc = TRUSTY_ERR_NONE => tee.patch /\ tee.ids

\* km_tipc_init returns TRUSTY_ERR_NONE only when the keymaster holds a root
\* of trust: SET_BOOT_PARAMS answered KM_ERROR_OK, now or in an earlier
\* init (KM_ERROR_ROOT_OF_TRUST_ALREADY_SET is the one refusal it means
\* to tolerate).
InitEstablishesRot ==
    initRc = TRUSTY_ERR_NONE => tee.rot

\* The bootloader holds at most one keymaster connection: km_tipc_shutdown
\* closes the channel km_tipc_init opened before another init opens one.
KmConnectionsBounded == conns <= 1

=============================================================================
