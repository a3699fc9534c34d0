--------------------------- MODULE PresenceRecord ---------------------------
(***************************************************************************)
(* The one record every presence sensor becomes (rusty_esp_signal-core,    *)
(* radar/presence.rs), sent by devices of two ages to a home computer of   *)
(* today.  Distances are left out; they travel as the energies do.         *)
(***************************************************************************)
EXTENDS Naturals

CONSTANTS
  Energies,    \* energies and motion levels
  Rates,       \* rates an estimator may find
  Confidences  \* its confidences, permille

V1_LEN == 18
ENCODED_LEN == 28
VERSION == 2

Occupancy == <<"Unknown", "Absent", "Moving", "Stationary", "Both">>

(* Occupancy::tag and from_tag *)
Tag(state) == CHOOSE t \in 0..4 : Occupancy[t + 1] = state
Known(tag) == tag \in 0..4

Estimates == [ran : {TRUE}, rate : Rates, confidence : Confidences, accepted : BOOLEAN]
               \cup {[ran |-> FALSE, rate |-> 0, confidence |-> 0, accepted |-> FALSE]}

Radar(target, moving, stationary) ==
  [state |-> CASE target = "None" -> "Absent" [] target # "None" -> target,
   moving |-> moving, stationary |-> stationary, rate |-> 0, confidence |-> 0, fingerprint |-> 0]

(* Presence::from_ld2410 and from_csi *)
FromLd2410 == {Radar(t, m, s) : t \in {"None", "Moving", "Stationary", "Both"}, m, s \in Energies}

FromCsi ==
  {[state |-> CASE v = "Warming" -> "Unknown" [] v = "Absent" -> "Absent" [] v = "Present" -> "Moving",
    moving |-> IF v = "Present" THEN m ELSE 0,
    stationary |-> 0, rate |-> 0, confidence |-> 0, fingerprint |-> 0] :
      v \in {"Warming", "Absent", "Present"}, m \in Energies}

WithVitalsAlways(p, e) == [p EXCEPT !.rate = e.rate, !.confidence = e.confidence]   \* mutant

(* Presence::with_vitals: a rate only from an accepted estimate. *)
WithVitals(p, e) == [p EXCEPT !.rate = IF e.accepted THEN e.rate ELSE 0, !.confidence = e.confidence]

WithFingerprint(p, permille) == [p EXCEPT !.fingerprint = permille]

(* Presence::encode, of a device of today; a device from before the vitals *)
(* sends the shorter record.                                               *)
Encoded(p, version) ==
  [version |-> version, tag |-> Tag(p.state), moving |-> p.moving, stationary |-> p.stationary,
   rate |-> p.rate, confidence |-> p.confidence, fingerprint |-> p.fingerprint,
   len |-> IF version = VERSION THEN ENCODED_LEN ELSE V1_LEN]

RecordLen(version) == IF version = 1 THEN V1_LEN ELSE ENCODED_LEN

Decodable(b) == b.version \in {1, VERSION} /\ b.len >= RecordLen(b.version) /\ Known(b.tag)

Decoded(b) ==
  [state |-> Occupancy[b.tag + 1], moving |-> b.moving, stationary |-> b.stationary,
   rate |-> IF b.version = VERSION THEN b.rate ELSE 0,
   confidence |-> IF b.version = VERSION THEN b.confidence ELSE 0,
   fingerprint |-> IF b.version = VERSION THEN b.fingerprint ELSE 0]

VARIABLES
  version,   \* the device's; fixed
  reading,   \* its last reading and the estimate it was made with
  home       \* what the home computer shows, and the reading it came from

recordVars == <<version, reading, home>>

NoReading == [p |-> [state |-> "Unknown", moving |-> 0, stationary |-> 0, rate |-> 0,
                     confidence |-> 0, fingerprint |-> 0],
              e |-> [ran |-> FALSE, rate |-> 0, confidence |-> 0, accepted |-> FALSE]]

RecordInit ==
  /\ version \in {1, VERSION}
  /\ reading = NoReading
  /\ home = [shown |-> NoReading.p, of |-> NoReading]

Sense ==
  /\ \E p \in FromLd2410 \cup FromCsi, e \in Estimates, fp \in Energies :
       reading' = [p |-> IF version = 1 THEN p ELSE WithFingerprint(WithVitals(p, e), fp), e |-> e]
  /\ UNCHANGED <<version, home>>

(* What the transport leaves of a record: nothing of the fields past the cut. *)
Cut(b, len) ==
  IF len >= b.len THEN b
  ELSE [b EXCEPT !.len = len, !.rate = 0, !.confidence = 0, !.fingerprint = 0]

(* The record arrives, whole or cut short. *)
RecordArrives ==
  /\ \E len \in {V1_LEN - 1, V1_LEN, ENCODED_LEN} :
       LET b == Cut(Encoded(reading.p, version), len)
       IN  /\ Decodable(b)
           /\ home' = [shown |-> Decoded(b), of |-> reading]
  /\ UNCHANGED <<version, reading>>

RecordNext == Sense \/ RecordArrives

RecordSpec == RecordInit /\ [][RecordNext]_recordVars

(* What the home shows is the whole of one reading, whichever sensor and   *)
(* whichever device sent it, and never a mixture of two: a device from     *)
(* before the vitals reads as one that ran no estimator.                   *)
ShownIsSent == home.shown = home.of.p

(* A consumer that reads the rate and not the confidence is not misled: a  *)
(* rate that is shown was accepted.                                        *)
RateWasAccepted == home.shown.rate # 0 => home.of.e.accepted

(* A reading crosses the wire whole and misleads nobody, between devices   *)
(* and homes of either version.                                            *)
RecordFaithful == ShownIsSent /\ RateWasAccepted
=============================================================================
