--------------------------- MODULE AbsDeviceStore ---------------------------
(***************************************************************************)
(* What the device-state store promises (spec.md section 4.3): a record of *)
(* the lock state and the rollback indices that the bootloader may update  *)
(* while it runs, that is read-only from the seal before kernel handover   *)
(* until the next TPM reset, and whose rollback indices never decrease.    *)
(***************************************************************************)
EXTENDS Naturals

CONSTANTS
    Slots,      \* rollback index slots
    MaxIndex    \* largest rollback index value

Values == 0 .. MaxIndex

\* "none": no lock state has been stored yet
StoreType == [lock : {"none", "LOCKED", "UNLOCKED"}, rollback : [Slots -> Values]]

VARIABLES
    store,      \* the persisted record
    sealed      \* TRUE from seal() until the next reset

vars == <<store, sealed>>

Init ==
    /\ store = [lock |-> "none", rollback |-> [s \in Slots |-> 0]]
    /\ sealed = FALSE

\* A write while unsealed; rollback indices only grow.
Update ==
    /\ ~sealed
    /\ \E new \in StoreType :
        /\ new # store
        /\ \A s \in Slots : new.rollback[s] >= store.rollback[s]
        /\ store' = new
    /\ UNCHANGED sealed

Seal ==
    /\ ~sealed
    /\ sealed' = TRUE
    /\ UNCHANGED store

\* A TPM reset (reboot or power cycle) drops the transient locks.
Reset ==
    /\ sealed' = FALSE
    /\ UNCHANGED store

Next == Update \/ Seal \/ Reset

Spec == Init /\ [][Next]_vars

=============================================================================
