------------------------------ MODULE Measurements ------------------------------
(***************************************************************************)
(* What the database records of a device's messages: the check on arrival  *)
(* (validateTelemetryEnvelope with the asset's profile, packages/core and  *)
(* installations.ts), and saveTelemetryEnvelope (telemetry.ts), which      *)
(* reads the device, writes it, and then writes the message's row with     *)
(* what the device said before and with its quality.                       *)
(*                                                                         *)
(* Workers save messages of one device concurrently and in any order, and  *)
(* a job that failed or stalled is saved again.                            *)
(*                                                                         *)
(* Abstractions: one device and one measurement; times are minutes before  *)
(* reception, which may be negative; NoSequence, -1, is a message without  *)
(* a number and a device without a lastSequence (null, which compares as   *)
(* 0); the expected measurements that are there, and those of good         *)
(* quality, are in percent, scores in thousandths.                         *)
(***************************************************************************)
EXTENDS Integers, FiniteSetsExt

CONSTANTS
  Envelopes,    \* [id, sequence, late, value, unit, limits, simulated, complete, good]
  Profiles,     \* physicalRanges that assets may have: [min, max, unit]
  Physical,     \* PHYSICAL_RANGES of the measurement, or NoRange
  NoRange,      \* no profile, no limits
  NoUnit,       \* no unit is given
  Savers        \* workers

NoSequence == -1
Year == 365 * 24 * 60

ASSUME MeasurementAssumption ==
  /\ NoRange \notin Profiles
  /\ \A e \in Envelopes : /\ e.sequence \in Nat \cup {NoSequence} /\ e.late \in Int
                          /\ e.complete \in 0 .. 100 /\ e.good \in 0 .. 100

VARIABLES
  profile,      \* the asset's range
  arrived,      \* messages that passed the check
  device,       \* lastSequence, NoSequence for null; "none" when there is no row
  row,          \* row[e]: [outOfOrder, delayed, stale, trust, quality], NoRow
  save,         \* save[w]: [pc, env, seen]
  highest       \* history: the highest sequence number a device update has had

measurementVars == <<profile, arrived, device, row, save, highest>>

NoRow == [saved |-> FALSE]
NoDevice == [exists |-> FALSE, last |-> NoSequence]
NoSave == [pc |-> "idle"]
SequenceNumbers == {NoSequence} \cup {e.sequence : e \in Envelopes}
DeviceRows == [exists : BOOLEAN, last : SequenceNumbers]

\* sourceTimestamp, on the clock of the check: too far ahead, or too old.
InTime(e) == e.late >= -5 /\ e.late <= Year

\* The profile's range, else the measurement's own limits, in its own unit, else
\* PHYSICAL_RANGES, which do not list every measurement.
RangeFor(e, p) ==
  IF p # NoRange THEN p
  ELSE IF e.limits # NoRange THEN [min |-> e.limits.min, max |-> e.limits.max, unit |-> e.unit]
  ELSE Physical

Within(e, range) ==
  /\ range.min <= e.value /\ e.value <= range.max
  /\ NoUnit \in {e.unit, range.unit} \/ e.unit = range.unit

\* validateTelemetryEnvelope without errors.
Valid(e, p) == InTime(e) /\ (RangeFor(e, p) # NoRange => Within(e, RangeFor(e, p)))

Delayed(e) == e.late > 2
Stale(e) == e.late > 15

\* Mutant: a score is what the sum says.
Unbounded(low, high, x) == x
\* Math.max(low, Math.min(high, x)).
Between(low, high, x) == Max({low, Min({high, x})})
Distance(x) == IF x < 0 THEN -x ELSE x

\* assessTelemetryQuality of the one message: fewer than 3 values raise no issue.
ClockScore(e) == Between(0, 1000, 1000 - (Distance(e.late) * 1000) \div 15)
Trust(e) ==
  IF e.simulated THEN "LOW"
  ELSE IF e.good >= 90 /\ ClockScore(e) >= 800 THEN "HIGH" ELSE "MEDIUM"
Quality(e) ==
  Between(0, 1000, (e.complete * 35 + e.good * 40) \div 10 + ClockScore(e) \div 4)

MessageRows == [saved : {TRUE}, outOfOrder : BOOLEAN, delayed : BOOLEAN, stale : BOOLEAN,
          trust : {"LOW", "MEDIUM", "HIGH"}, quality : 0 .. 1000]

MeasurementTypeOK ==
  /\ profile \in Profiles \cup {NoRange}
  /\ arrived \subseteq Envelopes
  /\ device \in DeviceRows
  /\ row \in [Envelopes -> MessageRows \cup {NoRow}]
  /\ save \in [Savers -> {NoSave} \cup [pc : {"device", "row"}, env : Envelopes, seen : DeviceRows]]
  /\ highest \in SequenceNumbers

\* getTelemetryValidationProfile leaves out a range that is upside down.
Usable(p) == IF p # NoRange /\ p.min > p.max THEN NoRange ELSE p

MeasurementInit ==
  /\ \E p \in Profiles \cup {NoRange} : profile = Usable(p)
  /\ arrived = {} /\ device = NoDevice
  /\ row = [e \in Envelopes |-> NoRow]
  /\ save = [w \in Savers |-> NoSave]
  /\ highest = NoSequence
-----------------------------------------------------------------------------
\* The asset's limits are edited.
SetProfile(p) ==
  /\ profile' = Usable(p)
  /\ UNCHANGED <<arrived, device, row, save, highest>>

\* The gateway checks a message and hands it on.
Arrives(e) ==
  /\ Valid(e, profile)
  /\ arrived' = arrived \cup {e}
  /\ UNCHANGED <<profile, device, row, save, highest>>

\* saveTelemetryEnvelope, the first time or again: the device is read...
ReadDevice(w, e) ==
  /\ save[w] = NoSave /\ e \in arrived
  /\ save' = [save EXCEPT ![w] = [pc |-> "device", env |-> e, seen |-> device]]
  /\ UNCHANGED <<profile, arrived, device, row, highest>>

\* ...created or updated; a message without a number leaves lastSequence as it is...
SaveDevice(w) ==
  /\ save[w].pc = "device"
  /\ LET e == save[w].env IN
     /\ device' = [exists |-> TRUE,
                   last |-> IF e.sequence = NoSequence THEN device.last ELSE e.sequence]
     /\ highest' = Max({highest, e.sequence})
  /\ save' = [save EXCEPT ![w].pc = "row"]
  /\ UNCHANGED <<profile, arrived, row>>

\* Mutant: a number that comes again is out of order too.
NotAfter(e, seen) ==
  seen.exists /\ e.sequence # NoSequence /\ e.sequence <= Max({0, seen.last})
\* outOfOrder, judged by the device as it was read.
Before(e, seen) ==
  seen.exists /\ e.sequence # NoSequence /\ e.sequence < Max({0, seen.last})

\* ...and the row is created or written over.
SaveRow(w) ==
  /\ save[w].pc = "row"
  /\ LET e == save[w].env IN
     row' = [row EXCEPT ![e] =
       [saved |-> TRUE, outOfOrder |-> Before(e, save[w].seen), delayed |-> Delayed(e),
        stale |-> Stale(e), trust |-> Trust(e), quality |-> Quality(e)]]
  /\ save' = [save EXCEPT ![w] = NoSave]
  /\ UNCHANGED <<profile, arrived, device, highest>>

\* A statement fails, or the worker dies: the job is run again.
SaveFails(w) ==
  /\ save[w] # NoSave
  /\ save' = [save EXCEPT ![w] = NoSave]
  /\ UNCHANGED <<profile, arrived, device, row, highest>>

MeasurementNext ==
  \/ \E p \in Profiles \cup {NoRange} : SetProfile(p)
  \/ \E e \in Envelopes : Arrives(e)
  \/ \E w \in Savers :
       \/ \E e \in Envelopes : ReadDevice(w, e)
       \/ SaveDevice(w) \/ SaveRow(w) \/ SaveFails(w)

MeasurementSpec == MeasurementInit /\ [][MeasurementNext]_measurementVars
-----------------------------------------------------------------------------
(***************************************************************************)
(* A row that is flagged out of order belongs to a message some later      *)
(* number was saved before, however saves interleave and however often a   *)
(* message is saved again.  (The converse fails: the last save, not the    *)
(* highest number, is what the device keeps.)  And a row that is stale is  *)
(* not of high trust: two thresholds that are set apart.                   *)
(***************************************************************************)
FlagsAreJustified ==
  \A e \in Envelopes : row[e] # NoRow =>
    /\ row[e].outOfOrder => e.sequence < highest
    /\ row[e].stale => row[e].trust # "HIGH"
=============================================================================
