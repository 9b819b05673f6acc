------------------------------ MODULE Capacity ------------------------------
(***************************************************************************)
(* The capacity records of hive_mind_proxy.py: after each probe of the     *)
(* encoders the gateway compares the last record of a file with what it    *)
(* sees now, and derives a new one when the basis has changed.             *)
(*                                                                         *)
(* A fingerprint is that of the hardware and that of the encoders' config; *)
(* rates and payloads are small numbers, and one rate is outside the band  *)
(* of another when they differ by more than one.  The derived figures are  *)
(* left out.                                                               *)
(***************************************************************************)
EXTENDS Naturals, Sequences

CONSTANTS
    Hardware, Configs,      \* fingerprints
    Rates, Payloads,        \* reranker rates; largest payload measured, 0 for none
    MAX_RECORDS             \* CAPACITY_LOG_MAX_RECORDS

ASSUME CapacityAssumption ==
    MAX_RECORDS \in Nat \ {0} /\ Rates \subseteq Nat /\ Payloads \subseteq Nat

VARIABLES
    disk,       \* the records of CAPACITY_LOG_PATH
    newest,     \* _capacity_latest
    loaded,     \* _capacity_latest_loaded_from_disk
    probed,     \* _capacity_first_probe_done
    machine,    \* this boot's fingerprint
    basis,      \* what a healthy probe, not the first of this boot, measured last (history)
    missed,     \* the record of this boot's first probe could not be written (history)
    unsecured   \* a record reached the disk and not the memory (history)

capacityVars == <<disk, newest, loaded, probed, machine, basis, missed, unsecured>>

None == [status |-> "none"]
LastRecord == IF disk = <<>> THEN None ELSE disk[Len(disk)]

CapacityInit ==
    /\ disk = <<>> /\ newest = None /\ loaded = FALSE /\ probed = FALSE
    /\ machine \in [hw : Hardware, enc : Configs]
    /\ basis = None /\ missed = FALSE /\ unsecured = FALSE

-----------------------------------------------------------------------------
\* _capacity_drift_outside_band.
Drifted(r1, r2) == r1 > r2 + 1 \/ r2 > r1 + 1

\* _maybe_derive_capacity: whether p, the probe's status, rate and payload, calls for
\* a new record beside the last one.
Fingerprint(p) ==
    IF probed THEN LastRecord.enc # machine.enc ELSE LastRecord.hw # machine.hw \/ LastRecord.enc # machine.enc
Drift(p) == probed /\ LastRecord.status = "ok" /\ p.status = "ok" /\ Drifted(p.rate, LastRecord.rate)
NoRecovery(p) == FALSE
Recovery(p) == LastRecord.status # "ok" /\ p.status = "ok"
Payload(p) == p.enough /\ p.status = "ok" /\ p.payload # 0 /\ p.payload > LastRecord.payload
Triggered(p) ==
    IF LastRecord = None THEN p.status = "ok"
    ELSE Fingerprint(p) \/ Drift(p) \/ Recovery(p) \/ Payload(p)

\* _build_capacity_record.
Record(p) == [hw |-> machine.hw, enc |-> machine.enc, status |-> p.status, rate |-> p.rate,
              payload |-> p.payload]

\* _append_capacity_record: the file is replaced, then its permissions are set; the
\* write or that may raise, and then the memory is not updated.
Kept(s) == IF Len(s) > MAX_RECORDS THEN SubSeq(s, Len(s) - MAX_RECORDS + 1, Len(s)) ELSE s
Derive(p, write) ==
    /\ probed' = TRUE
    /\ basis' = IF probed /\ p.status = "ok" /\ write # "fails" THEN p ELSE None
    /\ IF Triggered(p)
       THEN /\ disk' = IF write = "fails" THEN disk ELSE Kept(Append(disk, Record(p)))
            /\ newest' = IF write = "ok" THEN Record(p) ELSE newest
            /\ missed' = (missed \/ (write = "fails" /\ ~probed))
            /\ unsecured' = (unsecured \/ write = "unsecured")
       ELSE UNCHANGED <<disk, newest, missed, unsecured>>
    /\ UNCHANGED <<loaded, machine>>

\* capacity_snapshot: the file is read once, for as long as nothing was derived.
Snapshot ==
    /\ newest = None /\ ~loaded
    /\ loaded' = TRUE /\ newest' = LastRecord
    /\ UNCHANGED <<disk, probed, machine, basis, missed, unsecured>>

\* The gateway is started again, elsewhere or with other encoders perhaps.
Reboot(m) ==
    /\ machine' = m /\ newest' = None /\ loaded' = FALSE /\ probed' = FALSE
    /\ basis' = None /\ missed' = FALSE /\ unsecured' = FALSE
    /\ UNCHANGED disk

Probes == [status : {"ok"}, rate : Rates, payload : Payloads, enough : BOOLEAN]
          \cup [status : {"too_slow", "failing"}, rate : Rates, payload : {0}, enough : {FALSE}]
CapacityNext ==
    \/ \E p \in Probes, write \in {"ok", "fails", "unsecured"} : Derive(p, write)
    \/ Snapshot
    \/ \E m \in [hw : Hardware, enc : Configs] : Reboot(m)

CapacitySpec == CapacityInit /\ [][CapacityNext]_capacityVars

-----------------------------------------------------------------------------
\* After a healthy probe, not the first of a boot, the record that recommendations rest on was derived from a
\* healthy reranker, from this configuration and this machine, at a rate within the
\* band and with no smaller payload, whatever restarts, failing probes and failed
\* writes came before.  Of the machine this holds only if the first record of the
\* boot was written: later probes do not compare it.  What /health serves is that
\* record, unless one was replaced on disk and then raised.
CapacityIsCurrent ==
    /\ basis # None =>
        /\ LastRecord # None /\ LastRecord.status = "ok" /\ LastRecord.enc = machine.enc
        /\ LastRecord.hw = machine.hw \/ missed
        /\ ~Drifted(basis.rate, LastRecord.rate)
        /\ basis.enough => LastRecord.payload >= basis.payload
    /\ newest # None => newest = LastRecord \/ unsecured

-----------------------------------------------------------------------------
(***************************************************************************)
(* The inductive invariant.                                                *)
(***************************************************************************)
CapacityRecords ==
    [hw : Hardware, enc : Configs, status : {"ok", "too_slow", "failing"}, rate : Rates,
     payload : Payloads \cup {0}]
CapacityTypeOK ==
    /\ disk \in Seq(CapacityRecords) /\ newest \in CapacityRecords \cup {None}
    /\ machine \in [hw : Hardware, enc : Configs]
    /\ {probed, loaded, missed, unsecured} \subseteq BOOLEAN

\* Only the first probe of a boot compares the machine.
MachineIsKnown == probed /\ LastRecord # None => LastRecord.hw = machine.hw \/ missed

CapacityInv == CapacityTypeOK /\ MachineIsKnown /\ CapacityIsCurrent

=============================================================================
