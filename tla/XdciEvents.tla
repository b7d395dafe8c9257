----------------------------- MODULE XdciEvents -----------------------------
(***************************************************************************)
(* The event side of the DWC3 device-controller driver (XdciDWC.c).        *)
(*                                                                         *)
(* The controller (an environment actor) writes 4-byte events into a ring *)
(* of RingSize slots and counts them in EVNTCOUNT; the driver consumes    *)
(* them from CurrentEventBuffer in DwcXdciCoreIsrRoutine (one step per    *)
(* event, then a write-back of the processed count) or one at a time in   *)
(* DwcXdciCoreIsrRoutineTimerBased, both excluded by InterrupProcessing.  *)
(* Processing an event runs the EP0 control-transfer handlers and the     *)
(* bulk transfer-done handler.  The client (the USB device layer above    *)
(* the driver, whose callbacks run inside the ISR) starts bulk transfers, *)
(* cancels them, answers SETUP packets and connects, disconnects and      *)
(* re-initialises the core.  The host sends SETUP, data and status        *)
(* stages, resets the bus and completes bulk transfers.                   *)
(*                                                                         *)
(* trb is the TRB memory (type, HWO bit, the request it was prepared for, *)
(* whether the host ended a data stage short); active is the controller's *)
(* own view of which physical endpoints have a transfer it will complete. *)
(***************************************************************************)
EXTENDS Naturals, Sequences

CONSTANTS
    RingSize,       \* DWC_XDCI_MAX_EVENTS_PER_BUFFER, in 4-byte events
    MaxEvents,      \* bound on the events the controller writes in a run
    MaxIds,         \* bound on the bulk requests the client issues per endpoint
    ClientWaits     \* the client starts a bulk request only when no completion
                    \*   of the endpoint's previous one is still in the ring

ASSUME RingSize \in Nat \ {0} /\ MaxEvents \in Nat /\ MaxIds \in Nat
ASSUME ClientWaits \in BOOLEAN

Phys == 0 .. 3          \* physical endpoints: EP0 OUT, EP0 IN, EP1 OUT, EP1 IN
Bulk == {2, 3}          \* 2 receives (DwcXdciEpRxData), 3 sends (DwcXdciEpTxData)
Ids == 0 .. MaxIds      \* 0: no request (control stages)

TrbTypes == {"none", "setup", "data", "status2", "status3", "normal"}
NoTrb == [type |-> "none", hwo |-> FALSE, id |-> 0, short |-> FALSE]

\* DwcXdciCoreInitTrb / DwcXdciCorePrepareOneTrb: a TRB owned by hardware.
InitTrb(type, id) == [type |-> type, hwo |-> TRUE, id |-> id, short |-> FALSE]

Events == [k : {"reset", "conndone", "nrdy"}, ep : {0}, id : {0}]
          \cup [k : {"cmplt"}, ep : Phys, id : Ids]
EpStates == {"zero", "setup", "data", "status", "enabled"}
EpRec == [rsc : BOOLEAN, checkFlag : BOOLEAN, xfer : Ids]

VARIABLES
    ring,       \* the event buffer, slot -> last event written there
    wr,         \* controller's write slot
    cnt,        \* EVNTCOUNT: events written and not yet acknowledged
    rd,         \* CurrentEventBuffer, as a slot
    isr,        \* InterrupProcessing
    left, done, \* DwcXdciCoreIsrRoutine's eventCount and ProcessedEventCount
    trb,        \* TRB memory per physical endpoint
    active,     \* controller: endpoints with a started transfer
    ep,         \* EpHandles[]: CurrentXferRscIdx # 0, CheckFlag, XferHandle
    st0,        \* EpHandles[0].State
    setupDir,   \* direction bit of the SETUP packet in AlignedSetupBuffer
    ctlReq,     \* client: SETUP packet it still has to answer
    host,       \* host: stage of its control transfer
    run,        \* DCTL Run/Stop
    client,     \* client: "off", "on", or "drain" inside DwcXdciCoreDisconnect
    nextId,     \* client: last request id issued per bulk endpoint
    posted      \* events the controller wrote

vars == <<ring, wr, cnt, rd, isr, left, done, trb, active, ep, st0, setupDir,
          ctlReq, host, run, client, nextId, posted>>
drv == <<trb, active, ep, st0>>

\* The driver and endpoint state a handler transforms, as one record.
D == [trb |-> trb, active |-> active, ep |-> ep, st0 |-> st0]
SetD(d) == trb' = d.trb /\ active' = d.active /\ ep' = d.ep /\ st0' = d.st0

\* Ring slots holding events written and not yet processed by the driver.
Unprocessed == {(rd + j) % RingSize : j \in 0 .. (cnt - done) - 1}
PendingCmplt(p) == \E s \in Unprocessed : ring[s].k = "cmplt" /\ ring[s].ep = p

-----------------------------------------------------------------------------
(* Driver handlers as record transformers                                 *)
(* Each takes the state before the call and, where the code reads a       *)
(* resource index back from DEPCMD after DEPSTRTXFER, whether it is       *)
(* nonzero (r): the controller assigns it, and for EP0/EP1 it may be 0.   *)

\* DwcXdciCoreIssueEpCmd(EPCMD_START_XFER) after the TRB was prepared, and
\* the read-back of CurrentXferRscIdx.
StartXfer(d, p, t, r) ==
    [d EXCEPT !.trb[p] = t, !.active[p] = TRUE, !.ep[p].rsc = r]

\* Variant that drops the resource index before issuing DEPENDXFER, so the
\* command names index 0 and ends nothing.
DwcXdciEndXfer_index_first(d, p) ==
    [d EXCEPT !.ep[p].checkFlag = FALSE, !.ep[p].rsc = FALSE]

\* DwcXdciEndXfer: CheckFlag is cleared first; without a resource index
\* nothing is ended; otherwise DEPENDXFER, and the TRBs are zeroed.
DwcXdciEndXfer(d, p) ==
    LET d1 == [d EXCEPT !.ep[p].checkFlag = FALSE]
    IN  IF ~d.ep[p].rsc THEN d1
        ELSE [d1 EXCEPT !.ep[p].rsc = FALSE, !.trb[p] = NoTrb,
                        !.active[p] = FALSE]

\* DwcXdciCoreStartEp0SetupXfer: returns at once when EP0 is already in
\* the SETUP state, else arms an 8-byte SETUP TRB on physical EP0.
DwcXdciCoreStartEp0SetupXfer(d, r) ==
    IF d.st0 = "setup" THEN d
    ELSE StartXfer([d EXCEPT !.st0 = "setup"], 0, InitTrb("setup", 0), r)

\* DwcXdciEp0ReceiveStatusPkt: nothing if the EP0 OUT TRB is still owned by
\* hardware, else a 3-phase status TRB; EP0 goes to the STATUS state.
DwcXdciEp0ReceiveStatusPkt(d, r) ==
    IF d.trb[0].hwo THEN d
    ELSE [StartXfer(d, 0, InitTrb("status3", 0), r) EXCEPT !.st0 = "status"]

\* DwcXdciEp0SendStatusPkt: a 2-phase status TRB on physical EP1.
DwcXdciEp0SendStatusPkt(d, r) ==
    [StartXfer(d, 1, InitTrb("status2", 0), r) EXCEPT !.st0 = "status"]

\* DwcXdciProcessEp0XferPhaseDone: the endpoint's State becomes ENABLED and
\* its resource index 0; what follows depends on the TRB type now in
\* memory.  After a SETUP without an IN data stage, after a 3-phase status
\* and after a data stage the host cut short, the next SETUP is queued.
DwcXdciProcessEp0XferPhaseDone(d, p, dir, r) ==
    LET d1 == [d EXCEPT !.ep[p].rsc = FALSE,
                        !.st0 = IF p = 0 THEN "enabled" ELSE @]
        t == d.trb[p]
    IN  CASE t.type = "setup" ->
                 IF dir = "in" THEN d1 ELSE DwcXdciCoreStartEp0SetupXfer(d1, r)
          [] t.type = "status3" -> DwcXdciCoreStartEp0SetupXfer(d1, r)
          [] t.type = "data" /\ t.short -> DwcXdciCoreStartEp0SetupXfer(d1, r)
          [] OTHER -> d1

\* DwcXdciProcessEpXferDone: resource index 0 and CheckFlag FALSE, then the
\* XferDone callbacks for the request in XferHandle.
DwcXdciProcessEpXferDone(d, p) ==
    [d EXCEPT !.ep[p].rsc = FALSE, !.ep[p].checkFlag = FALSE]

\* DwcXdciEpTxData: a transfer whose TRB hardware still owns is ended (and
\* the Tx FIFO flushed); XferHandle is overwritten and a new one started.
DwcXdciEpTxData(d, p, id, r) ==
    LET d1 == IF d.trb[p].hwo THEN DwcXdciEndXfer(d, p) ELSE d
    IN  StartXfer([d1 EXCEPT !.ep[p].xfer = id], p,
                  InitTrb(IF p > 1 THEN "normal" ELSE "data", id), r)

\* DwcXdciEpRxData past its CheckFlag test: CheckFlag is set, XferHandle
\* overwritten and the transfer started.
DwcXdciEpRxData(d, p, id) ==
    StartXfer([d EXCEPT !.ep[p].checkFlag = TRUE, !.ep[p].xfer = id], p,
              InitTrb("normal", id), TRUE)

\* The end of DwcXdciCoreDisconnect: DEPENDXFER on every endpoint with a
\* resource index.
EndActiveXfers(d) ==
    LET E == {p \in Phys : d.ep[p].rsc}
    IN  [d EXCEPT
           !.trb = [p \in Phys |-> IF p \in E THEN NoTrb ELSE d.trb[p]],
           !.active = [p \in Phys |-> d.active[p] /\ p \notin E],
           !.ep = [p \in Phys |-> IF p \in E
                                  THEN [d.ep[p] EXCEPT !.rsc = FALSE,
                                                       !.checkFlag = FALSE]
                                  ELSE d.ep[p]]]

\* Variant wrapping only past the end (addr + size > end).
NextSlot_past_end(a) == IF a + 1 > RingSize THEN 0 ELSE a + 1

\* The slot after one 4-byte event, wrapping with addr + size >= end.
NextSlot(a) == IF a + 1 >= RingSize THEN 0 ELSE a + 1

\* DwcXdciProcessDeviceResetDet: flush the FIFOs (no modelled state) and
\* queue SETUP; the bus-reset callback follows.
DwcXdciProcessDeviceResetDet(d, r) == DwcXdciCoreStartEp0SetupXfer(d, r)

\* DwcXdciProcessEp0XferNotReady: a NOT_READY for the status stage of
\* physical EP0 queues the status TRB.
DwcXdciProcessEp0XferNotReady(d, r) == DwcXdciEp0ReceiveStatusPkt(d, r)

\* DwcXdciProcessDeviceEvent: a bus reset queues SETUP; connection done
\* (DwcXdciProcessDeviceResetDone) only reprograms EP0/EP1 and the PHYs.
DwcXdciProcessDeviceEvent(ev) ==
    /\ \E r \in BOOLEAN :
           SetD(IF ev.k = "reset" THEN DwcXdciProcessDeviceResetDet(D, r) ELSE D)
    /\ UNCHANGED ctlReq

\* DwcXdciProcessEpEvent: XFER_CMPLT goes to the bulk handler above
\* physical EP1 and to the EP0 handler below (a SETUP is handed to the
\* client to answer); NOT_READY matters only for EP0.
DwcXdciProcessEpEvent(ev) ==
    \E r \in BOOLEAN :
      CASE ev.k = "nrdy" ->
               SetD(DwcXdciProcessEp0XferNotReady(D, r)) /\ UNCHANGED ctlReq
        [] ev.ep > 1 ->
               SetD(DwcXdciProcessEpXferDone(D, ev.ep)) /\ UNCHANGED ctlReq
        [] OTHER ->
               /\ SetD(DwcXdciProcessEp0XferPhaseDone(D, ev.ep, setupDir, r))
               /\ ctlReq' = IF trb[ev.ep].type = "setup" THEN setupDir ELSE ctlReq

\* The dispatch of DwcXdciProcessInterruptLineEvents on the event type.
ProcessEvent(ev) ==
    IF ev.k \in {"reset", "conndone"} THEN DwcXdciProcessDeviceEvent(ev)
    ELSE DwcXdciProcessEpEvent(ev)

-----------------------------------------------------------------------------
(* Controller and host                                                    *)

\* The controller writes an event into the next slot and counts it.  It
\* writes only while running, and the ring never overruns (RingSize is
\* the DWC_XDCI_MAX_EVENTS_PER_BUFFER the driver sized it for).
Post(ev) ==
    /\ run /\ cnt < RingSize /\ posted < MaxEvents
    /\ ring' = [ring EXCEPT ![wr] = ev]
    /\ wr' = (wr + 1) % RingSize
    /\ cnt' = cnt + 1
    /\ posted' = posted + 1

Cmplt(p) == [k |-> "cmplt", ep |-> p, id |-> trb[p].id]
Ep0Ev(k) == [k |-> k, ep |-> 0, id |-> 0]

\* The controller finishes the transfer on p and hands the TRB back.
Complete(p) ==
    /\ active' = [active EXCEPT ![p] = FALSE]
    /\ Post(Cmplt(p))

HostReset ==
    /\ Post(Ep0Ev("reset"))
    /\ host' = "idle"
    /\ UNCHANGED <<rd, isr, left, done, drv, setupDir, ctlReq, run, client, nextId>>

HostConnDone ==
    /\ Post(Ep0Ev("conndone"))
    /\ UNCHANGED <<rd, isr, left, done, drv, setupDir, ctlReq, host, run,
                   client, nextId>>

\* A SETUP packet lands in the armed SETUP TRB; the host may abandon the
\* control transfer it was in.  dir "in": an IN data stage follows;
\* "out": no data stage, the status stage is IN.
HostSetup(dir) ==
    /\ active[0] /\ trb[0].type = "setup"
    /\ trb' = [trb EXCEPT ![0].hwo = FALSE]
    /\ Complete(0)
    /\ setupDir' = dir
    /\ host' = IF dir = "in" THEN "data" ELSE "status_in"
    /\ UNCHANGED <<rd, isr, left, done, ep, st0, ctlReq, run, client, nextId>>

HostDataIn(short) ==
    /\ host = "data" /\ active[1] /\ trb[1].type = "data"
    /\ trb' = [trb EXCEPT ![1].hwo = FALSE, ![1].short = short]
    /\ Complete(1)
    /\ host' = "status_out"
    /\ UNCHANGED <<rd, isr, left, done, ep, st0, setupDir, ctlReq, run, client,
                   nextId>>

\* The OUT status token finds no status TRB: XferNotReady (status stage).
HostStatusNotReady ==
    /\ host = "status_out"
    /\ ~(active[0] /\ trb[0].type = "status3")
    /\ Post(Ep0Ev("nrdy"))
    /\ host' = "status_wait"
    /\ UNCHANGED <<rd, isr, left, done, drv, setupDir, ctlReq, run, client, nextId>>

HostStatusOut ==
    /\ host \in {"status_out", "status_wait"}
    /\ active[0] /\ trb[0].type = "status3"
    /\ trb' = [trb EXCEPT ![0].hwo = FALSE]
    /\ Complete(0)
    /\ host' = "idle"
    /\ UNCHANGED <<rd, isr, left, done, ep, st0, setupDir, ctlReq, run, client,
                   nextId>>

HostStatusIn ==
    /\ host = "status_in" /\ active[1] /\ trb[1].type = "status2"
    /\ trb' = [trb EXCEPT ![1].hwo = FALSE]
    /\ Complete(1)
    /\ host' = "idle"
    /\ UNCHANGED <<rd, isr, left, done, ep, st0, setupDir, ctlReq, run, client,
                   nextId>>

HostBulkDone(p) ==
    /\ active[p]
    /\ trb' = [trb EXCEPT ![p].hwo = FALSE]
    /\ Complete(p)
    /\ UNCHANGED <<rd, isr, left, done, ep, st0, setupDir, ctlReq, host, run,
                   client, nextId>>

-----------------------------------------------------------------------------
(* Driver: the two interrupt routines                                      *)

\* DwcXdciCoreIsrRoutine: set InterrupProcessing and read EVNTCOUNT (a
\* zero count processes nothing).
DwcXdciCoreIsrRoutine_begin ==
    /\ ~isr /\ cnt > 0
    /\ isr' = TRUE /\ left' = cnt /\ done' = 0
    /\ UNCHANGED <<ring, wr, cnt, rd, drv, setupDir, ctlReq, host, run, client,
                   nextId, posted>>

\* One iteration of DwcXdciProcessInterruptLineEvents.
DwcXdciCoreIsrRoutine_event ==
    /\ isr /\ left > 0
    /\ ProcessEvent(ring[rd])
    /\ rd' = NextSlot(rd)
    /\ left' = left - 1 /\ done' = done + 1
    /\ UNCHANGED <<ring, wr, cnt, isr, setupDir, host, run, client, nextId, posted>>

\* Variant that writes the count back but leaves InterrupProcessing set.
DwcXdciCoreIsrRoutine_end_keep_flag ==
    /\ isr /\ left = 0
    /\ cnt' = cnt - done
    /\ done' = 0
    /\ UNCHANGED <<ring, wr, rd, left, isr, drv, setupDir, ctlReq, host, run, client,
                   nextId, posted>>

\* Write the processed count back to EVNTCOUNT and clear the flag.
DwcXdciCoreIsrRoutine_end ==
    /\ isr /\ left = 0
    /\ cnt' = cnt - done
    /\ isr' = FALSE /\ done' = 0
    /\ UNCHANGED <<ring, wr, rd, left, drv, setupDir, ctlReq, host, run, client,
                   nextId, posted>>

\* Variant that does not test InterrupProcessing.
DwcXdciCoreIsrRoutineTimerBased_unguarded ==
    /\ cnt > 0
    /\ ProcessEvent(ring[rd])
    /\ rd' = NextSlot(rd)
    /\ cnt' = cnt - 1
    /\ UNCHANGED <<ring, wr, isr, left, done, setupDir, host, run, client,
                   nextId, posted>>

\* DwcXdciCoreIsrRoutineTimerBased: returns while the other routine runs;
\* otherwise processes the one event at CurrentEventBuffer and writes back
\* its size.  The code does not test the count it read; its timer is taken
\* to fire with events present (see the README).
DwcXdciCoreIsrRoutineTimerBased ==
    /\ ~isr /\ cnt > 0
    /\ ProcessEvent(ring[rd])
    /\ rd' = NextSlot(rd)
    /\ cnt' = cnt - 1
    /\ UNCHANGED <<ring, wr, isr, left, done, setupDir, host, run, client,
                   nextId, posted>>

-----------------------------------------------------------------------------
(* Client calls into the driver                                           *)

ClientVarsUnchanged == UNCHANGED <<ring, wr, cnt, rd, isr, left, done,
                                   setupDir, host, posted>>

\* DwcXdciCoreConnect: set Run/Stop and wait until the core runs.
DwcXdciCoreConnect ==
    /\ client = "off"
    /\ run' = TRUE /\ client' = "on"
    /\ ClientVarsUnchanged /\ UNCHANGED <<drv, ctlReq, nextId>>

\* DwcXdciCoreDisconnect: run the ISR until EVNTCOUNT reads 0 (the ISR
\* steps themselves are the routine's actions), then end every transfer
\* with a resource index and clear Run/Stop.
DwcXdciCoreDisconnect_drain ==
    /\ client = "on"
    /\ client' = "drain"
    /\ ClientVarsUnchanged /\ UNCHANGED <<drv, ctlReq, run, nextId>>

DwcXdciCoreDisconnect_halt ==
    /\ client = "drain" /\ cnt = 0
    /\ SetD(EndActiveXfers(D))
    /\ run' = FALSE /\ client' = "off"
    /\ ClientVarsUnchanged /\ UNCHANGED <<ctlReq, nextId>>

\* UsbXdciCoreReinit after a disconnect, outside the ISR: core soft reset
\* (the controller forgets its transfers and EVNTCOUNT), the event buffer
\* reprogrammed and CurrentEventBuffer back at its start.  EpHandles[] and
\* the TRB memory are left as they are.
UsbXdciCoreReinit ==
    /\ client = "off" /\ ~isr
    /\ rd' = 0 /\ wr' = 0 /\ cnt' = 0
    /\ active' = [p \in Phys |-> FALSE]
    /\ host' = "idle"
    /\ UNCHANGED <<ring, isr, left, done, trb, ep, st0, setupDir, ctlReq, run,
                   client, nextId, posted>>

\* A new bulk request (ids are issued in order).  With ClientWaits the
\* client never issues one while a completion of the endpoint is unread.
NewRequest(p) ==
    /\ client = "on" /\ nextId[p] < MaxIds
    /\ ClientWaits => ~PendingCmplt(p)
    /\ nextId' = [nextId EXCEPT ![p] = @ + 1]

\* DwcXdciEpRxData; with CheckFlag set it returns EFI_NOT_READY unchanged.
RxData ==
    /\ ~ep[2].checkFlag
    /\ NewRequest(2)
    /\ SetD(DwcXdciEpRxData(D, 2, nextId'[2]))
    /\ ClientVarsUnchanged /\ UNCHANGED <<ctlReq, run, client>>

\* DwcXdciEpTxData on the bulk IN endpoint (its resource index is nonzero).
TxData ==
    /\ NewRequest(3)
    /\ SetD(DwcXdciEpTxData(D, 3, nextId'[3], TRUE))
    /\ ClientVarsUnchanged /\ UNCHANGED <<ctlReq, run, client>>

\* DwcXdciEpCancelTransfer: DwcXdciEndXfer, then a FIFO flush.
DwcXdciEpCancelTransfer(p) ==
    /\ client = "on"
    /\ SetD(DwcXdciEndXfer(D, p))
    /\ ClientVarsUnchanged /\ UNCHANGED <<ctlReq, run, client, nextId>>

\* The client's answer to a SETUP with an IN data stage: DwcXdciEpTxData
\* on physical EP1 with a control data TRB.
Ep0DataIn ==
    /\ ctlReq = "in"
    /\ \E r \in BOOLEAN : SetD(DwcXdciEpTxData(D, 1, 0, r))
    /\ ctlReq' = "none"
    /\ ClientVarsUnchanged /\ UNCHANGED <<run, client, nextId>>

\* ... and to one without a data stage: DwcXdciEp0SendStatusPkt.
Ep0Status ==
    /\ ctlReq = "out"
    /\ \E r \in BOOLEAN : SetD(DwcXdciEp0SendStatusPkt(D, r))
    /\ ctlReq' = "none"
    /\ ClientVarsUnchanged /\ UNCHANGED <<run, client, nextId>>

-----------------------------------------------------------------------------
\* After DwcXdciCoreInit: the handle zeroed, CurrentEventBuffer at the
\* start of the buffer, the core stopped ("We will queue SETUP request
\* when we see bus reset").
Init ==
    /\ ring = [s \in 0 .. RingSize - 1 |-> Ep0Ev("conndone")]
    /\ wr = 0 /\ cnt = 0 /\ rd = 0
    /\ isr = FALSE /\ left = 0 /\ done = 0
    /\ trb = [p \in Phys |-> NoTrb]
    /\ active = [p \in Phys |-> FALSE]
    /\ ep = [p \in Phys |-> [rsc |-> FALSE, checkFlag |-> FALSE, xfer |-> 0]]
    /\ st0 = "zero"
    /\ setupDir = "out"
    /\ ctlReq = "none"
    /\ host = "idle"
    /\ run = FALSE /\ client = "off"
    /\ nextId = [p \in Bulk |-> 0]
    /\ posted = 0

Next ==
    \/ HostReset
    \/ HostConnDone
    \/ \E dir \in {"in", "out"} : HostSetup(dir)
    \/ \E short \in BOOLEAN : HostDataIn(short)
    \/ HostStatusNotReady
    \/ HostStatusOut
    \/ HostStatusIn
    \/ \E p \in Bulk : HostBulkDone(p)
    \/ DwcXdciCoreIsrRoutine_begin
    \/ DwcXdciCoreIsrRoutine_event
    \/ DwcXdciCoreIsrRoutine_end
    \/ DwcXdciCoreIsrRoutineTimerBased
    \/ DwcXdciCoreConnect
    \/ DwcXdciCoreDisconnect_drain
    \/ DwcXdciCoreDisconnect_halt
    \/ UsbXdciCoreReinit
    \/ RxData
    \/ TxData
    \/ \E p \in Bulk : DwcXdciEpCancelTransfer(p)
    \/ Ep0DataIn
    \/ Ep0Status

\* The USB device stack above the driver calls DwcXdciCoreIsrRoutine from
\* its polling loop for as long as the device is in use, and the loop in
\* DwcXdciCoreDisconnect calls it until EVNTCOUNT reads 0 and then goes
\* on: the routine's steps and the end of a disconnect are weakly fair.
\* The controller, the host and the client's own calls are not.
Fairness ==
    /\ WF_vars(DwcXdciCoreIsrRoutine_begin)
    /\ WF_vars(DwcXdciCoreIsrRoutine_event)
    /\ WF_vars(DwcXdciCoreIsrRoutine_end)
    /\ WF_vars(DwcXdciCoreDisconnect_halt)

Spec == Init /\ [][Next]_vars /\ Fairness

-----------------------------------------------------------------------------
(* Properties                                                              *)

TypeOK ==
    /\ ring \in [0 .. RingSize - 1 -> Events]
    /\ wr \in 0 .. RingSize - 1 /\ rd \in 0 .. RingSize - 1
    /\ cnt \in 0 .. RingSize /\ left \in 0 .. RingSize /\ done \in 0 .. RingSize
    /\ isr \in BOOLEAN
    /\ trb \in [Phys -> [type : TrbTypes, hwo : BOOLEAN, id : Ids, short : BOOLEAN]]
    /\ active \in [Phys -> BOOLEAN]
    /\ ep \in [Phys -> EpRec]
    /\ st0 \in EpStates
    /\ setupDir \in {"in", "out"} /\ ctlReq \in {"none", "in", "out"}
    /\ host \in {"idle", "data", "status_out", "status_wait", "status_in"}
    /\ run \in BOOLEAN /\ client \in {"off", "on", "drain"}
    /\ nextId \in [Bulk -> Ids] /\ posted \in 0 .. MaxEvents

\* The driver's CurrentEventBuffer stays where the controller's unread
\* events begin, whichever routine (the interrupt routine, its timer
\* twin, the drain in DwcXdciCoreDisconnect) consumed them and however the
\* controller's writes interleaved: EVNTCOUNT minus the events processed
\* and not yet written back counts back from the write slot to it.
RingInSync ==
    /\ done <= cnt
    /\ rd = (wr + RingSize - (cnt - done)) % RingSize

\* A bulk transfer the controller still runs can be ended by the driver:
\* its resource index is nonzero, or its completion is still in the ring
\* (and will clear the endpoint).  DwcXdciEndXfer skips an endpoint whose
\* index is 0, so a lost index leaves a transfer nobody can cancel.
RscTracksHw ==
    \A p \in Bulk : active[p] => ep[p].rsc \/ PendingCmplt(p)

\* The XferDone callback reports the request the controller finished:
\* every bulk completion still in the ring belongs to the request now in
\* the endpoint's XferHandle, which DwcXdciProcessEpXferDone reports.
NoStaleCompletion ==
    \A s \in Unprocessed :
        (ring[s].k = "cmplt" /\ ring[s].ep \in Bulk) => ring[s].id = ep[ring[s].ep].xfer

\* DwcXdciCoreDisconnect returns: its loop runs the interrupt routine
\* until EVNTCOUNT reads 0, which needs every routine that started to
\* write its count back and let the next one in.
DisconnectCompletes == client = "drain" ~> client = "off"

\* StartEp0SetupXfer returns early in the SETUP state, so that state must
\* mean a SETUP TRB the controller will fill (or whose completion is
\* still to be read).  CoreInit and Reinit rely on it: "We will queue
\* SETUP request when we see bus reset".
Ep0SetupArmed ==
    st0 = "setup" =>
        \/ active[0] /\ trb[0].type = "setup"
        \/ PendingCmplt(0)

====
