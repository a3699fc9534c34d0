--------------------------- MODULE IdfBoard_proofs ---------------------------
(***************************************************************************)
(* The setup session, for every limit, timeout and set of codes, networks  *)
(* and owners: type correctness, the bound on guesses, and what a step may *)
(* never do to the stored settings.  Then the board: nothing its two       *)
(* threads do to the shared Provisioner is anything but a step of the      *)
(* session, for every value of the constants, sends that fail included.    *)
(***************************************************************************)
EXTENDS IdfBoard, TLAPS

-----------------------------------------------------------------------------
(* Lemmas on the operators *)

(* The session a handler finds: the one there is, or none when it idled    *)
(* out.                                                                    *)
LEMMA LiveType ==
  ASSUME NEW s \in Sessions
  PROVE  /\ Live(s) \in Sessions
         /\ Live(s).at # "idle" => Live(s) = s /\ s.age <= IDLE_TIMEOUT
  BY DeviceAssumption DEF Live, Idle, Sessions

(* apply's writes keep the stores well formed and never touch the count. *)
LEMMA WriteType ==
  ASSUME NEW st \in Stores, NEW rec \in Records, NEW k \in 0 .. LastPut
  PROVE  /\ Write(st, rec, k) \in Stores
         /\ Write(st, rec, k).fail = st.fail
  BY DEF Write, Stores, Records

(* Counting a failure, and clearing the count, leave the stores well       *)
(* formed.                                                                 *)
LEMMA CountType ==
  ASSUME NEW st \in Stores
  PROVE  /\ Failed(st) \in Stores /\ Failed(st).fail = st.fail + 1
         /\ Cleared(st) \in Stores /\ Cleared(st).fail = 0
  BY DEF Failed, Cleared, Stores

(* The stores a boot finds: only a power-on lowers the count, by lifting a *)
(* lockout to one guess.                                                   *)
LEMMA ResetType ==
  ASSUME NEW st \in Stores, NEW powerOn \in BOOLEAN
  PROVE  /\ AfterReset(st, powerOn) \in Stores
         /\ powerOn /\ st.fail >= MAX_FAILURES
              => AfterReset(st, powerOn).fail = MAX_FAILURES - 1
         /\ ~(powerOn /\ st.fail >= MAX_FAILURES)
              => AfterReset(st, powerOn).fail = st.fail
  BY DeviceAssumption DEF AfterReset, LockedOut, Stores

(* An empty record is a record.                                            *)
LEMMA NoRecordType == NoRecord \in Records
  BY DEF NoRecord, Records

-----------------------------------------------------------------------------
(* The inductive invariant *)

IInv == DeviceTypeOK /\ CountedSessions /\ GuessesCounted

(* A restart from a store whose count is within the limit, and covers the  *)
(* Replies given out, re-establishes the invariant.                        *)
LEMMA RestartedInv ==
  ASSUME IInv, NEW st \in Stores, NEW proven \in BOOLEAN, NEW powerOn \in BOOLEAN,
         st.fail <= MAX_FAILURES,
         proven => st.fail = 0,
         ~proven => guesses <= st.fail + lifts,
         Restarted(st, proven, powerOn),
         record' \in Records
  PROVE  IInv'
  <1>0. /\ st.fail \in Nat /\ guesses \in Nat /\ lifts \in Nat /\ MaxLifts \in Nat
        /\ MAX_FAILURES \in Nat /\ MAX_FAILURES >= 1 /\ WINDOW_AFTER_RESET \in Nat
    BY DeviceAssumption DEF IInv, DeviceTypeOK, Stores
  <1>1. store' \in Stores /\ store' = AfterReset(st, powerOn)
    BY ResetType DEF Restarted
  <1>2. sess' = Idle /\ Idle \in Sessions
    BY DEF Restarted, Idle, Sessions
  <1>3. windowAge' \in 0 .. WINDOW_AFTER_RESET /\ failAge' \in 0 .. NoFailure
    BY <1>0, NoFailureAssumption DEF Restarted
  <1>4. CASE powerOn /\ st.fail >= MAX_FAILURES
    <2>a. AfterReset(st, powerOn).fail = MAX_FAILURES - 1
      BY <1>4, ResetType, Zenon
    <2>b. st.fail = MAX_FAILURES /\ ~proven
      BY <1>0, <1>4
    <2>1. store'.fail = MAX_FAILURES - 1 /\ st.fail = MAX_FAILURES /\ ~proven
      BY <1>1, <2>a, <2>b
    <2>2. /\ lifts' = (IF proven THEN 0 ELSE lifts)
                      + (IF powerOn /\ LockedOut(st) THEN 1 ELSE 0)
          /\ guesses' = IF proven THEN 0 ELSE guesses
          /\ lifts' <= MaxLifts
      BY DEF Restarted
    <2>3. lifts' = lifts + 1 /\ guesses' = guesses
      BY <1>0, <1>4, <2>1, <2>2 DEF LockedOut
    <2>4. guesses' <= store'.fail + lifts'
      BY <1>0, <2>1, <2>3
    <2> QED
      BY <1>0, <1>1, <1>2, <1>3, <2>1, <2>2, <2>3, <2>4
      DEF IInv, DeviceTypeOK, CountedSessions, GuessesCounted, Idle
  <1>5. CASE ~(powerOn /\ st.fail >= MAX_FAILURES)
    <2>1. store'.fail = st.fail
      BY <1>1, <1>5, ResetType
    <2>2. /\ lifts' = IF proven THEN 0 ELSE lifts
          /\ guesses' = IF proven THEN 0 ELSE guesses
          /\ lifts' <= MaxLifts
      BY <1>0, <1>5 DEF Restarted, LockedOut
    <2>3. guesses' <= store'.fail + lifts' /\ guesses' \in Nat /\ lifts' \in 0 .. MaxLifts
      BY <1>0, <2>1, <2>2
    <2> QED
      BY <1>0, <1>1, <1>2, <1>3, <2>1, <2>3
      DEF IInv, DeviceTypeOK, CountedSessions, GuessesCounted, Idle
  <1> QED BY <1>4, <1>5

(* A new device starts in the invariant.                                   *)
LEMMA InvInit == DeviceInit => IInv
  <1> SUFFICES ASSUME DeviceInit PROVE IInv
    OBVIOUS
  <1>1. store \in Stores /\ store.fail = 0
    BY DEF DeviceInit, Stores
  <1>2. sess \in Sessions /\ sess.at = "idle"
    BY DEF DeviceInit, Idle, Sessions
  <1>3. record \in Records
    BY DEF DeviceInit, NoRecord, Records
  <1> QED
    BY <1>1, <1>2, <1>3, DeviceAssumption, NoFailureAssumption
    DEF DeviceInit, IInv, DeviceTypeOK, CountedSessions, GuessesCounted

(* Every handler, timeout and power cut keeps it.                          *)
LEMMA InvNext == IInv /\ [DeviceNext]_vars => IInv'
  <1> SUFFICES ASSUME IInv, [DeviceNext]_vars PROVE IInv'
    OBVIOUS
  <1> DEFINE s == Live(sess)
  <1>0. /\ store \in Stores /\ sess \in Sessions /\ record \in Records
        /\ windowAge \in 0 .. WINDOW_AFTER_RESET /\ failAge \in 0 .. NoFailure
        /\ guesses \in Nat /\ lifts \in 0 .. MaxLifts /\ store.fail \in Nat
        /\ MaxLifts \in Nat /\ MAX_FAILURES \in Nat /\ MAX_FAILURES >= 1
        /\ WINDOW_AFTER_RESET \in Nat /\ NoFailure \in Nat /\ IDLE_TIMEOUT \in Nat
        /\ NothingOpened => record' \in Records
    BY NoRecordType, DeviceAssumption, NoFailureAssumption DEF IInv, DeviceTypeOK, Stores, NothingOpened
  <1>1. /\ s \in Sessions
        /\ s.at # "idle" => s = sess
    BY <1>0, LiveType
  <1>2. Idle \in Sessions /\ Idle.at = "idle"
    BY DEF Idle, Sessions
  <1>3. store.fail <= MAX_FAILURES /\ guesses <= store.fail + lifts
    BY DEF IInv, CountedSessions, GuessesCounted
  \* a handler that ends the session and writes nothing
  <1>4. ASSUME sess' = Idle, NothingOpened,
               UNCHANGED <<store, windowAge, failAge, guesses, lifts>>
        PROVE  IInv'
    BY <1>0, <1>2, <1>3, <1>4 DEF IInv, DeviceTypeOK, CountedSessions, GuessesCounted
  \* a handler that only lets the session time out
  <1>5. ASSUME sess' = s, NothingOpened,
               UNCHANGED <<store, windowAge, failAge, guesses, lifts>>
        PROVE  IInv'
    <2>1. sess' \in Sessions /\ (sess'.at # "idle" => sess' = sess)
      BY <1>1, <1>5
    <2> QED BY <1>0, <1>5, <2>1 DEF IInv, DeviceTypeOK, CountedSessions, GuessesCounted
  <1>6. ASSUME NEW code \in Codes, OnStart(code) PROVE IInv'
    <2>1. CASE sess' = s /\ UNCHANGED <<store, failAge, guesses>>
      BY <1>5, <1>6, <2>1 DEF OnStart
    <2>2. CASE /\ ~StartRefused(s) /\ store' = Failed(store) /\ failAge' = 0
               /\ sess' = [at |-> "replied", match |-> code = store.v, age |-> 0]
               /\ guesses' = guesses + 1
      <3>1. store.fail < MAX_FAILURES
        BY <1>0, <2>2 DEF StartRefused, WindowOpen, LockedOut
      <3>2. store' \in Stores /\ store'.fail = store.fail + 1
        BY <1>0, <2>2, CountType
      <3>3. sess' \in Sessions /\ sess'.at = "replied"
        BY <2>2 DEF Sessions
      <3>4. windowAge' = windowAge /\ lifts' = lifts /\ record' \in Records
        BY <1>0, <1>6 DEF OnStart
      <3>5. DeviceTypeOK'
        BY <1>0, <2>2, <3>2, <3>3, <3>4 DEF DeviceTypeOK
      <3>6. CountedSessions' /\ GuessesCounted'
        BY <1>0, <1>3, <2>2, <3>1, <3>2, <3>3, <3>4 DEF CountedSessions, GuessesCounted
      <3> QED BY <3>5, <3>6 DEF IInv
    <2> QED BY <1>6, <2>1, <2>2 DEF OnStart
  <1>7. ASSUME NEW right \in BOOLEAN, OnConfirm(right) PROVE IInv'
    <2>1. CASE sess' = Idle /\ UNCHANGED <<store, failAge, guesses, lifts>>
      BY <1>4, <1>7, <2>1 DEF OnConfirm
    <2>2. CASE /\ s.at = "replied" /\ ConfirmVerifies(s, right) /\ store' = Cleared(store)
               /\ failAge' = NoFailure
               /\ sess' = [at |-> "confirmed", match |-> s.match, age |-> 0]
               /\ guesses' = 0 /\ lifts' = 0
      <3>1. store' \in Stores /\ store'.fail = 0
        BY <1>0, <2>2, CountType
      <3>2. s.match \in BOOLEAN /\ s.match
        BY <1>1, <2>2 DEF ConfirmVerifies, Sessions
      <3>3. sess' \in Sessions /\ sess'.at = "confirmed" /\ sess'.match
        BY <2>2, <3>2 DEF Sessions
      <3>4. windowAge' = windowAge /\ record' \in Records
        BY <1>0, <1>7 DEF OnConfirm
      <3> QED
        BY <1>0, <2>2, <3>1, <3>3, <3>4 DEF IInv, DeviceTypeOK, CountedSessions, GuessesCounted
    <2> QED BY <1>7, <2>1, <2>2 DEF OnConfirm
  <1>8. CASE OnSettingsUnopened
    <2>1. CASE UNCHANGED <<store, failAge>>
      BY <1>4, <1>8, <2>1 DEF OnSettingsUnopened, history
    <2>2. CASE s.at = "confirmed" /\ store' = Failed(store) /\ failAge' = 0
      <3>1. store.fail = 0
        BY <1>1, <2>2 DEF IInv, CountedSessions
      <3>2. store' \in Stores /\ store'.fail = 1
        BY <1>0, <2>2, <3>1, CountType
      <3>3. sess' = Idle /\ record' \in Records /\ UNCHANGED <<windowAge, guesses, lifts>>
        BY <1>0, <1>8 DEF OnSettingsUnopened, history
      <3> QED
        BY <1>0, <1>2, <1>3, <2>2, <3>1, <3>2, <3>3
        DEF IInv, DeviceTypeOK, CountedSessions, GuessesCounted
    <2> QED BY <1>8, <2>1, <2>2 DEF OnSettingsUnopened
  <1>9. ASSUME NEW rec \in Records, NEW k \in Cuts(rec), OnSettings(rec, k) PROVE IInv'
    <2>1. k \in 0 .. LastPut
      BY DEF Cuts
    <2>2. store' \in Stores /\ store'.fail = store.fail
      BY <1>0, <1>9, <2>1, WriteType DEF OnSettings
    <2>3. sess' = Idle /\ record' = rec /\ UNCHANGED <<windowAge, failAge, guesses, lifts>>
      BY <1>9 DEF OnSettings
    <2> QED
      BY <1>0, <1>2, <1>3, <2>2, <2>3 DEF IInv, DeviceTypeOK, CountedSessions, GuessesCounted
  <1>10. CASE OnOther \/ CarrierClosed
    BY <1>4, <1>10 DEF OnOther, CarrierClosed, history
  <1>11. CASE Button
    BY <1>0, <1>11 DEF Button, history, IInv, DeviceTypeOK, CountedSessions, GuessesCounted
  <1>12. CASE DeviceTick
    BY <1>5, <1>12 DEF DeviceTick, history
  <1>13. ASSUME NEW powerOn \in BOOLEAN, Reset(powerOn) PROVE IInv'
    BY <1>0, <1>3, <1>13, RestartedInv DEF Reset
  <1>14. ASSUME NEW powerOn \in BOOLEAN, CutInStart(powerOn) PROVE IInv'
    <2>1. store.fail < MAX_FAILURES
      BY <1>0, <1>14 DEF CutInStart, StartRefused, WindowOpen, LockedOut
    <2>2. Failed(store) \in Stores /\ Failed(store).fail = store.fail + 1
      BY <1>0, CountType
    <2>3. Failed(store).fail <= MAX_FAILURES /\ guesses <= Failed(store).fail + lifts
      BY <1>0, <1>3, <2>1, <2>2
    <2>4. Restarted(Failed(store), FALSE, powerOn) /\ record' \in Records
      BY <1>0, <1>14 DEF CutInStart
    <2> QED BY <2>2, <2>3, <2>4, RestartedInv
  <1>15. ASSUME NEW powerOn \in BOOLEAN, CutInConfirm(powerOn) PROVE IInv'
    <2>1. Cleared(store) \in Stores /\ Cleared(store).fail = 0
      BY <1>0, CountType
    <2>2. Restarted(Cleared(store), TRUE, powerOn) /\ record' \in Records
      BY <1>0, <1>15 DEF CutInConfirm
    <2>3. Cleared(store).fail <= MAX_FAILURES
      BY <1>0, <2>1
    <2> QED BY <2>1, <2>2, <2>3, RestartedInv
  <1>16. ASSUME NEW powerOn \in BOOLEAN, CutInSettings(powerOn) PROVE IInv'
    <2>1. store.fail = 0
      BY <1>1, <1>16 DEF CutInSettings, IInv, CountedSessions
    <2>2. CASE Restarted(Failed(store), FALSE, powerOn) /\ NothingOpened
      <3>1. Failed(store) \in Stores /\ Failed(store).fail = 1
        BY <1>0, <2>1, CountType
      <3>2. Failed(store).fail <= MAX_FAILURES /\ guesses <= Failed(store).fail + lifts
        BY <1>0, <1>3, <2>1, <3>1
      <3> QED BY <1>0, <2>2, <3>1, <3>2, RestartedInv
    <2>3. ASSUME NEW rec \in Records, NEW k \in 0 .. LastPut,
                 Restarted(Write(store, rec, k), FALSE, powerOn), record' = rec
          PROVE  IInv'
      <3>1. Write(store, rec, k) \in Stores /\ Write(store, rec, k).fail = store.fail
        BY <1>0, WriteType
      <3> QED BY <1>3, <2>3, <3>1, RestartedInv
    <2> QED BY <1>16, <2>2, <2>3 DEF CutInSettings
  <1>17. CASE Elapse
    <2>1. sess' = [sess EXCEPT !.age = IF sess.at # "idle" /\ @ <= IDLE_TIMEOUT
                                       THEN @ + 1 ELSE @]
      BY <1>17 DEF Elapse
    <2>2. sess' \in Sessions /\ sess'.at = sess.at /\ sess'.match = sess.match
      BY <1>0, <2>1 DEF Sessions
    <2>3. windowAge' \in 0 .. WINDOW_AFTER_RESET /\ failAge' \in 0 .. NoFailure
      BY <1>0, <1>17 DEF Elapse
    <2>4. record' \in Records /\ UNCHANGED <<store, guesses, lifts>>
      BY <1>0, <1>17 DEF Elapse, history
    <2> QED
      BY <1>0, <2>2, <2>3, <2>4 DEF IInv, DeviceTypeOK, CountedSessions, GuessesCounted
  <1>18. CASE UNCHANGED vars
    BY <1>18 DEF vars, IInv, DeviceTypeOK, CountedSessions, GuessesCounted
  <1> QED
    BY <1>6, <1>7, <1>8, <1>9, <1>10, <1>11, <1>12, <1>13, <1>14, <1>15, <1>16, <1>17, <1>18
    DEF DeviceNext

-----------------------------------------------------------------------------
(* Theorems *)

(* The session's count covers every answered Start, in every reachable     *)
(* state, with the types.                                                  *)
THEOREM Invariance == DeviceSpec => []IInv
  BY InvInit, InvNext, PTL DEF DeviceSpec

(* Type correctness. *)
THEOREM TypeCorrect == DeviceSpec => []DeviceTypeOK
  <1>1. IInv => DeviceTypeOK
    BY DEF IInv
  <1> QED BY <1>1, Invariance, PTL

(* The lockout: at most MAX_FAILURES guesses, and one more for each        *)
(* lockout a power-on lifts, whatever is abandoned or interrupted.         *)
THEOREM Lockout == DeviceSpec => []GuessBound
  <1>1. IInv => GuessBound
    <2> SUFFICES ASSUME IInv PROVE GuessBound
      OBVIOUS
    <2>1. /\ guesses \in Nat /\ store.fail \in Nat /\ lifts \in Nat /\ MAX_FAILURES \in Nat
          /\ guesses <= store.fail + lifts /\ store.fail <= MAX_FAILURES
      BY DeviceAssumption DEF IInv, DeviceTypeOK, Stores, CountedSessions, GuessesCounted
    <2> QED BY <2>1 DEF GuessBound
  <1> QED BY <1>1, Invariance, PTL

(* The settings, apart from the count. *)
LEMMA CountOnly ==
  ASSUME NEW st \in Stores, NEW powerOn
  PROVE  /\ Settings(Failed(st)) = Settings(st)
         /\ Settings(Cleared(st)) = Settings(st)
         /\ Settings(AfterReset(st, powerOn)) = Settings(st)
  BY DEF Settings, Failed, Cleared, AfterReset, Stores

(* A step leaves the settings alone or writes a prefix of a record's       *)
(* settings that a live, confirmed session opened.                         *)
Applies ==
  /\ Live(sess).at = "confirmed"
  /\ \E rec \in Records, k \in 0 .. LastPut :
       /\ AdoptionAccepted(store, rec)
       /\ record' = rec
       /\ Settings(store') = Settings(Write(store, rec, k))

(* No other step of the session, no reset and no power cut writes one.     *)
LEMMA StepEffect ==
  ASSUME IInv, DeviceNext
  PROVE  Settings(store') = Settings(store) \/ Applies
  <1>0. store \in Stores
    BY DEF IInv, DeviceTypeOK
  <1>1. /\ Failed(store) \in Stores /\ Settings(Failed(store)) = Settings(store)
        /\ Cleared(store) \in Stores /\ Settings(Cleared(store)) = Settings(store)
    BY <1>0, CountType, CountOnly
  <1>2. ASSUME NEW code \in Codes, OnStart(code) PROVE Settings(store') = Settings(store)
    BY <1>1, <1>2 DEF OnStart
  <1>3. ASSUME NEW right \in BOOLEAN, OnConfirm(right) PROVE Settings(store') = Settings(store)
    BY <1>1, <1>3 DEF OnConfirm
  <1>4. CASE OnSettingsUnopened
    BY <1>1, <1>4 DEF OnSettingsUnopened
  <1>5. ASSUME NEW rec \in Records, NEW k \in Cuts(rec), OnSettings(rec, k)
        PROVE  Settings(store') = Settings(store) \/ Applies
    <2>1. k \in 0 .. LastPut
      BY DEF Cuts
    <2> QED BY <1>5, <2>1 DEF OnSettings, Applies
  <1>6. CASE OnOther \/ CarrierClosed \/ Button \/ DeviceTick \/ Elapse
    BY <1>6 DEF OnOther, CarrierClosed, Button, DeviceTick, Elapse
  <1>7. ASSUME NEW powerOn \in BOOLEAN,
               Reset(powerOn) \/ CutInStart(powerOn) \/ CutInConfirm(powerOn)
        PROVE  Settings(store') = Settings(store)
    <2>1. ASSUME NEW st \in Stores, NEW proven, Restarted(st, proven, powerOn)
          PROVE  Settings(store') = Settings(st)
      BY <2>1, CountOnly DEF Restarted
    <2>2. \/ Restarted(store, FALSE, powerOn)
          \/ Restarted(Failed(store), FALSE, powerOn)
          \/ Restarted(Cleared(store), TRUE, powerOn)
      BY <1>7 DEF Reset, CutInStart, CutInConfirm
    <2> QED BY <1>0, <1>1, <2>1, <2>2
  <1>8. ASSUME NEW powerOn \in BOOLEAN, CutInSettings(powerOn)
        PROVE  Settings(store') = Settings(store) \/ Applies
    <2>1. CASE Restarted(Failed(store), FALSE, powerOn)
      BY <1>1, <2>1, CountOnly DEF Restarted
    <2>2. ASSUME NEW rec \in Records, NEW k \in 0 .. LastPut, AdoptionAccepted(store, rec),
                 Restarted(Write(store, rec, k), FALSE, powerOn), record' = rec
          PROVE  Applies
      <3>1. Settings(store') = Settings(Write(store, rec, k))
        BY <1>0, <2>2, WriteType, CountOnly DEF Restarted
      <3> QED BY <1>8, <2>2, <3>1 DEF Applies, CutInSettings
    <2> QED BY <1>8, <2>1, <2>2 DEF CutInSettings
  <1> QED BY <1>2, <1>3, <1>4, <1>5, <1>6, <1>7, <1>8 DEF DeviceNext

(* Equal settings are equal field by field. *)
LEMMA SettingsFields ==
  ASSUME NEW st \in Stores, NEW tt \in Stores, Settings(st) = Settings(tt)
  PROVE  /\ st.ssid = tt.ssid /\ st.psk = tt.psk /\ st.v = tt.v
         /\ st.adoption = tt.adoption /\ st.pin = tt.pin
  <1>1. ASSUME NEW x \in Stores
        PROVE  /\ Settings(x).ssid = x.ssid /\ Settings(x).psk = x.psk /\ Settings(x).v = x.v
               /\ Settings(x).adoption = x.adoption /\ Settings(x).pin = x.pin
    BY DEF Settings, Stores
  <1> QED BY <1>1

(* Only a peer that proved the stored verifier's code, in a session that   *)
(* has not idled out, changes a setting.                                   *)
THEOREM CodeHolder == DeviceSpec => OnlyTheCodeHolderWrites
  <1>1. IInv /\ [DeviceNext]_vars
          => [Settings(store') # Settings(store) =>
                sess.at = "confirmed" /\ sess.match /\ sess.age <= IDLE_TIMEOUT]_vars
    <2> SUFFICES ASSUME IInv, DeviceNext, Settings(store') # Settings(store)
                 PROVE  sess.at = "confirmed" /\ sess.match /\ sess.age <= IDLE_TIMEOUT
      BY DEF vars
    <2>1. sess \in Sessions
      BY DEF IInv, DeviceTypeOK
    <2>2. Live(sess).at = "confirmed"
      BY StepEffect DEF Applies
    <2>3. sess.at = "confirmed" /\ sess.age <= IDLE_TIMEOUT
      BY <2>1, <2>2, LiveType
    <2> QED BY <2>3 DEF IInv, CountedSessions
  <1> QED BY <1>1, Invariance, PTL DEF DeviceSpec, OnlyTheCodeHolderWrites

(* Every step that changes the code has stored the rest of its record, so  *)
(* an interrupted apply leaves the old code in force.                      *)
THEOREM RotatesLast == DeviceSpec => CodeRotatesLast
  <1>1. IInv /\ IInv' /\ [DeviceNext]_vars
          => [store'.v # store.v =>
                /\ record'.net # None => store'.ssid = record'.net /\ store'.psk = record'.net
                /\ record'.owner # None =>
                     store'.adoption = record'.owner /\ store'.pin = record'.owner]_vars
    <2> SUFFICES ASSUME IInv, IInv', DeviceNext, store'.v # store.v
                 PROVE  /\ record'.net # None => store'.ssid = record'.net /\ store'.psk = record'.net
                        /\ record'.owner # None =>
                             store'.adoption = record'.owner /\ store'.pin = record'.owner
      BY DEF vars
    <2>0. store \in Stores /\ store' \in Stores
      BY DEF IInv, DeviceTypeOK
    <2>1. Applies
      BY <2>0, StepEffect, SettingsFields
    <2>2. PICK rec \in Records, k \in 0 .. LastPut :
            record' = rec /\ Settings(store') = Settings(Write(store, rec, k))
      BY <2>1 DEF Applies
    <2> DEFINE w == Write(store, rec, k)
    <2>3. w \in Stores
      BY <2>0, WriteType
    <2>4. /\ store'.ssid = w.ssid /\ store'.psk = w.psk /\ store'.v = w.v
          /\ store'.adoption = w.adoption /\ store'.pin = w.pin
      <3> HIDE DEF w
      <3> QED BY <2>0, <2>2, <2>3, SettingsFields DEF w
    <2>5. k = LastPut
      BY <2>0, <2>4 DEF Write, LastPut
    <2> QED BY <2>2, <2>4, <2>5 DEF Write, LastPut
  <1> QED BY <1>1, Invariance, PTL DEF DeviceSpec, CodeRotatesLast

(* A pinned owner is never replaced or lost: an adoption of another owner  *)
(* writes nothing, and nothing else touches the pin.                       *)
THEOREM Pinned == DeviceSpec => OwnerStaysPinned
  <1>1. IInv /\ IInv' /\ [DeviceNext]_vars
          => [store.pin # None => store'.pin = store.pin]_vars
    <2> SUFFICES ASSUME IInv, IInv', DeviceNext, store.pin # None
                 PROVE  store'.pin = store.pin
      BY DEF vars
    <2>0. store \in Stores /\ store' \in Stores
      BY DEF IInv, DeviceTypeOK
    <2>1. CASE Settings(store') = Settings(store)
      BY <2>0, <2>1, SettingsFields
    <2>2. CASE Applies
      <3>1. PICK rec \in Records, k \in 0 .. LastPut :
              /\ AdoptionAccepted(store, rec)
              /\ Settings(store') = Settings(Write(store, rec, k))
        BY <2>2 DEF Applies
      <3>2. store'.pin = Write(store, rec, k).pin
        BY <2>0, <3>1, WriteType, SettingsFields
      <3>3. Write(store, rec, k).pin = store.pin
        BY <2>0, <3>1 DEF Write, AdoptionAccepted
      <3> QED BY <3>2, <3>3
    <2> QED BY <2>1, <2>2, StepEffect
  <1> QED BY <1>1, Invariance, PTL DEF DeviceSpec, OwnerStaysPinned

-----------------------------------------------------------------------------
(* The board on ESP-IDF implements the setup device *)

(* A link event reopens the window as the button does, or leaves the       *)
(* session alone.                                                          *)
LEMMA EventIsButton ==
  ASSUME NEW event, OnEvent(event)
  PROVE  [DeviceNext]_vars
  BY DEF OnEvent, DeviceNext

(* Each step of either thread is a step of the setup device or leaves it   *)
(* alone.                                                                  *)
LEMMA BoardStep == [Next]_allVars => [DeviceNext]_vars
  <1> SUFFICES ASSUME [Next]_allVars PROVE [DeviceNext]_vars
    OBVIOUS
  <1>1. CASE TakeAction
    BY <1>1 DEF TakeAction, Perform
  <1>2. ASSUME NEW event \in {"Connected", "Disconnected"}, JoinReturns(event)
        PROVE  [DeviceNext]_vars
    BY <1>2, EventIsButton DEF JoinReturns, Report
  <1>3. CASE ReceiveTimedOut
    BY <1>3 DEF ReceiveTimedOut, DeviceNext
  <1>4. CASE RetryChecked
    BY <1>4, EventIsButton DEF RetryChecked, Report
  <1>5. ASSUME NEW rec \in Records, NEW k \in Cuts(rec), PeerSettings(rec, k)
        PROVE  [DeviceNext]_vars
    BY <1>5 DEF PeerSettings, OnWriteSettings, DeviceNext
  <1>6. CASE PeerMessage
    BY <1>6 DEF PeerMessage, OnWriteOther, DeviceNext
  <1>7. CASE PeerLeaves
    BY <1>7 DEF PeerLeaves, DeviceNext
  <1>8. CASE HandOn
    BY <1>8 DEF HandOn
  <1>9. ASSUME NEW powerOn \in BOOLEAN, BoardReset(powerOn)
        PROVE  [DeviceNext]_vars
    BY <1>9 DEF BoardReset, DeviceNext
  <1>10. CASE TimePasses
    BY <1>10 DEF TimePasses, DeviceNext
  <1>11. CASE UNCHANGED allVars
    BY <1>11 DEF allVars
  <1> QED
    BY <1>1, <1>2, <1>3, <1>4, <1>5, <1>6, <1>7, <1>8, <1>9, <1>10, <1>11
    DEF Next, MainLoop

(* Every behaviour of the board is one of the setup device.                *)
THEOREM BoardIsDevice == Spec => DeviceSpec
  <1>1. Init => DeviceInit
    BY DEF Init
  <1> QED BY <1>1, BoardStep, PTL DEF Spec, DeviceSpec

(* So the lockout bound holds of the board with its two threads: no        *)
(* interleaving, failed send or interrupted handler gives a guess away.    *)
THEOREM BoardLockout == Spec => []GuessBound
  BY BoardIsDevice, Lockout, PTL

(* And only a proven peer of a live session changes the board's settings.  *)
THEOREM BoardCodeHolder == Spec => OnlyTheCodeHolderWrites
  BY BoardIsDevice, CodeHolder, PTL
-----------------------------------------------------------------------------
(* No wakeup is lost.  The invariant says which of the loop's places holds *)
(* the next step in each phase, and that there is a network to take it on: *)
(* a Connect that finds none would be dropped, and a Wait that is performed*)
(* must set the timer.                                                     *)

NextStepHeld ==
  /\ policy.phase = "Connecting" => joining # None \/ Queued("Connect")
  /\ policy.phase = "Backoff" => retry # None \/ Queued("Wait")

NetworkKnown ==
  policy.phase # "Unprovisioned" \/ joining # None => creds # None

WInv == DeviceTypeOK /\ BoardTypeOK /\ NextStepHeld /\ NetworkKnown

Asked(kind, q) == \E i \in DOMAIN q : q[i].kind = kind

(* What a queue holds is its head or in its tail.                          *)
LEMMA HeadOrTail ==
  ASSUME NEW q \in Seq(Actions), q # <<>>, NEW kind, Asked(kind, q)
  PROVE  Head(q).kind = kind \/ Asked(kind, Tail(q))
  <1>1. PICK i \in 1 .. Len(q) : q[i].kind = kind
    BY DEF Asked
  <1>2. CASE i = 1
    BY <1>1, <1>2
  <1>3. CASE i # 1
    <2>1. i - 1 \in 1 .. Len(Tail(q)) /\ Tail(q)[i - 1] = q[i]
      BY <1>3
    <2>2. DOMAIN Tail(q) = 1 .. Len(Tail(q))
      OBVIOUS
    <2> QED BY <1>1, <2>1, <2>2 DEF Asked
  <1> QED BY <1>2, <1>3

(* An action appended to a queue is asked for there, with those before it. *)
LEMMA AskedAppend ==
  ASSUME NEW q \in Seq(Actions), NEW a \in Actions, NEW kind
  PROVE  /\ Append(q, a) \in Seq(Actions)
         /\ Asked(kind, q) => Asked(kind, Append(q, a))
         /\ a.kind = kind => Asked(kind, Append(q, a))
  <1>1. Append(q, a) \in Seq(Actions)
    OBVIOUS
  <1>2. DOMAIN Append(q, a) = 1 .. Len(q) + 1 /\ DOMAIN q = 1 .. Len(q)
    OBVIOUS
  <1>3. Append(q, a)[Len(q) + 1] = a /\ \A i \in 1 .. Len(q) : Append(q, a)[i] = q[i]
    OBVIOUS
  <1>4. Len(q) + 1 \in 1 .. Len(q) + 1 /\ \A i \in 1 .. Len(q) : i \in 1 .. Len(q) + 1
    OBVIOUS
  <1> QED BY <1>1, <1>2, <1>3, <1>4 DEF Asked

(* An action is queued where it is asked for: in the loop's own queue, in  *)
(* the channel, or in the hand-over.                                       *)
LEMMA QueuedAsked ==
  ASSUME NEW kind
  PROVE  Queued(kind) <=> \/ Asked(kind, pending) \/ Asked(kind, chan)
                          \/ handing # None /\ handing.kind = kind
  BY DEF Queued, Asked

(* A backoff is a number.                                                  *)
LEMMA BackoffType ==
  ASSUME NEW failures \in Nat PROVE BackoffFor(failures) \in Int
  BY PolicyAssumption DEF BackoffFor

(* The policy's actions are actions of the main loop.                      *)
LEMMA ActType ==
  /\ \A kind \in {"None", "Connect", "StartProvisioning", "Wait"} : Act(kind) \in Actions
  /\ \A us \in Int : WaitFor(us) \in Actions
  BY DEF Act, WaitFor, Actions

(* A policy moved to another phase and count is a policy.                  *)
LEMMA PolicyMoves ==
  ASSUME NEW p \in Policies, NEW phase \in Phases, NEW failures \in Nat
  PROVE  /\ [p EXCEPT !.phase = phase, !.failures = failures] \in Policies
         /\ [p EXCEPT !.phase = phase, !.failures = failures].phase = phase
  BY DEF Policies

(* StationPolicy::on keeps its types, and what it asks for is what the     *)
(* phase it comes to waits for.                                            *)
LEMMA PolicyStep ==
  ASSUME NEW p \in Policies,
         NEW event \in {"Connected", "Disconnected", "Tick", "Provisioned"}
  PROVE  /\ On(p, event).policy \in Policies
         /\ On(p, event).action \in Actions
         /\ On(p, event).policy.phase = "Connecting" =>
              \/ On(p, event).action.kind = "Connect"
              \/ p.phase = "Connecting" /\ event = "Tick"
         /\ On(p, event).policy.phase = "Backoff" =>
              \/ On(p, event).action.kind = "Wait"
              \/ p.phase = "Backoff" /\ event = "Disconnected"
         /\ On(p, event).policy.phase = "Unprovisioned" => p.phase = "Unprovisioned"
         /\ p.phase = "Unprovisioned" /\ event \in {"Disconnected", "Tick"}
              => On(p, event).policy.phase = "Unprovisioned"
  <1>1. CASE event = "Disconnected" /\ p.phase \in {"Connecting", "Connected"}
    <2>1. p.failures + 1 \in Nat /\ BackoffFor(p.failures + 1) \in Int
      BY BackoffType DEF Policies
    <2>2. On(p, event) = OnDisconnected(p)
      BY <1>1 DEF On
    <2>3. CASE p.failures + 1 >= MAX_JOIN_FAILURES
      <3>1. On(p, event) = [policy |-> [p EXCEPT !.phase = "Fallback",
                                                 !.failures = p.failures + 1],
                            action |-> Act("StartProvisioning")]
        BY <2>2, <2>3 DEF OnDisconnected
      <3>2. /\ [p EXCEPT !.phase = "Fallback", !.failures = p.failures + 1] \in Policies
            /\ [p EXCEPT !.phase = "Fallback", !.failures = p.failures + 1].phase = "Fallback"
        BY <2>1, PolicyMoves, ZenonT(60) DEF Phases
      <3>3. PICK q : q = [p EXCEPT !.phase = "Fallback", !.failures = p.failures + 1]
        OBVIOUS
      <3>4. q \in Policies /\ q.phase = "Fallback"
        BY <3>2, <3>3, Zenon
      <3>5. On(p, event) = [policy |-> q, action |-> Act("StartProvisioning")]
        BY <3>1, <3>3, Zenon
      <3> QED BY <1>1, <3>4, <3>5, ActType DEF Act
    <2>4. CASE ~(p.failures + 1 >= MAX_JOIN_FAILURES)
      <3>1. On(p, event) = [policy |-> [phase |-> "Backoff", failures |-> p.failures + 1,
                                        waitLeft |-> BackoffFor(p.failures + 1)],
                            action |-> WaitFor(BackoffFor(p.failures + 1))]
        BY <2>2, <2>4 DEF OnDisconnected
      <3> QED BY <1>1, <2>1, <3>1, ActType DEF WaitFor, Phases, Policies
    <2> QED BY <2>3, <2>4
  <1>2. CASE event = "Tick" /\ p.phase = "Backoff"
    BY <1>2, ActType DEF On, OnTick, Act, WaitFor, Phases, Policies
  <1>3. CASE event \in {"Provisioned", "Connected"}
    BY <1>3, ActType DEF On, Act, Phases, Policies
  <1>4. CASE /\ ~(event = "Disconnected" /\ p.phase \in {"Connecting", "Connected"})
             /\ ~(event = "Tick" /\ p.phase = "Backoff")
             /\ event \notin {"Provisioned", "Connected"}
    <2>1. On(p, event) = [policy |-> p, action |-> Act("None")]
      BY <1>4 DEF On
    <2> QED BY <1>4, <2>1, ActType DEF Act
  <1> QED BY <1>1, <1>2, <1>3, <1>4

(* A boot starts in the invariant.                                         *)
LEMMA WakeInit == Init => WInv
  <1> SUFFICES ASSUME Init PROVE WInv
    OBVIOUS
  <1>1. DeviceTypeOK
    BY InvInit DEF Init, IInv
  <1>2. BoardTypeOK
    <2>1. Act("StartProvisioning") \in Actions
      BY ActType
    <2>2. pending \in Seq(Actions) /\ chan \in Seq(Actions)
      BY <2>1 DEF Init
    <2>3. NewPolicy \in Policies
      BY DEF NewPolicy, Phases, Policies
    <2>4. resets \in Nat
      BY DEF Init
    <2> QED BY <2>2, <2>3, <2>4, Zenon DEF Init, BoardTypeOK
  <1> QED BY <1>1, <1>2 DEF Init, WInv, NextStepHeld, NetworkKnown, NewPolicy

(* Every step of either thread keeps the next step held somewhere.         *)
LEMMA WakeNext ==
  ASSUME ~SendFails, WInv, DeviceTypeOK', [Next]_allVars
  PROVE  WInv'
  <1>0. /\ BoardTypeOK /\ NextStepHeld /\ NetworkKnown /\ DeviceTypeOK
    BY DEF WInv
  <1>1. ASSUME NEW a \in Actions, Perform(a), joining = None,
               pending' \in Seq(Actions), chan' \in Seq(Actions),
               \A kind : Asked(kind, pending) \/ Asked(kind, chan) =>
                           \/ a.kind = kind
                           \/ Asked(kind, pending') \/ Asked(kind, chan')
        PROVE  WInv'
    <2>1. BoardTypeOK'
      <3>1. joining' \in Attempts \cup {None} /\ untried' \in BOOLEAN
        <4>1. \A n \in Pairs, f \in BOOLEAN : [net |-> n, first |-> f] \in Attempts
          BY DEF Attempts
        <4> QED BY <1>0, <1>1, <4>1, Zenon DEF Perform, BoardTypeOK
      <3>2. retry' \in Int \cup {None}
        BY <1>0, <1>1 DEF Perform, BoardTypeOK, Actions
      <3> QED BY <1>0, <1>1, <3>1, <3>2 DEF Perform, BoardTypeOK, provisioner
    <2>2. NextStepHeld'
      <3>1. policy' = policy /\ creds' = creds /\ handing' = handing
        BY <1>1 DEF Perform, provisioner
      <3>2. a.kind = "Connect" /\ creds # None => joining' # None
        BY <1>0, <1>1, NoneAssumption DEF Perform, BoardTypeOK, Attempts
      <3>3. a.kind = "Wait" => retry' # None
        BY <1>1, NoneAssumption DEF Perform, Actions
      <3>4. (retry # None => retry' # None) 
        BY <1>1, <3>3 DEF Perform
      <3> QED BY <1>0, <1>1, <3>1, <3>2, <3>3, <3>4, QueuedAsked
              DEF NextStepHeld, NetworkKnown, Queued, Asked
    <2>3. NetworkKnown'
      BY <1>0, <1>1 DEF Perform, NetworkKnown, provisioner
    <2> QED BY <2>1, <2>2, <2>3 DEF WInv
  <1>2. CASE TakeAction
    <2>1. CASE pending # <<>> /\ Perform(Head(pending)) /\ pending' = Tail(pending)
               /\ chan' = chan
      BY <1>0, <1>1, <1>2, <2>1, HeadOrTail DEF TakeAction, BoardTypeOK
    <2>2. CASE pending = <<>> /\ chan # <<>> /\ Perform(Head(chan))
               /\ chan' = Tail(chan) /\ pending' = pending
      BY <1>0, <1>1, <1>2, <2>2, HeadOrTail DEF TakeAction, BoardTypeOK
    <2> QED BY <1>2, <2>1, <2>2 DEF TakeAction
  (* The policy is told of an event, and its answer is queued. *)
  <1>3. ASSUME NEW event \in {"Connected", "Disconnected", "Tick"}, Report(event)
        PROVE  /\ pending' = Append(pending, On(policy, event).action)
               /\ pending' \in Seq(Actions)
               /\ policy' = On(policy, event).policy
               /\ policy' \in Policies
               /\ trial' \in BOOLEAN
               /\ loop' = "recv"
               /\ creds' = creds
               /\ \A kind : Asked(kind, pending) \/ On(policy, event).action.kind = kind
                              => Asked(kind, pending')
    <2>1. On(policy, event).action \in Actions
      BY <1>0, PolicyStep DEF BoardTypeOK
    <2>2. /\ pending' = Append(pending, On(policy, event).action)
          /\ policy' = On(policy, event).policy
          /\ loop' = "recv"
          /\ creds' = creds
      BY <1>3 DEF Report, OnEvent
    <2>3. policy' \in Policies /\ trial' \in BOOLEAN
      BY <1>0, <1>3, <2>2, PolicyStep DEF BoardTypeOK, Report, OnEvent
    <2>4. pending \in Seq(Actions)
      BY <1>0 DEF BoardTypeOK
    <2> QED BY <2>1, <2>2, <2>3, <2>4, AskedAppend
  <1>4. ASSUME NEW event \in {"Connected", "Disconnected"}, JoinReturns(event)
        PROVE  WInv'
    <2>1. /\ Report(event) /\ joining # None /\ joining' = None
          /\ UNCHANGED <<chan, handing, retry, untried, resets>>
      BY <1>4 DEF JoinReturns
    <2>2. BoardTypeOK'
      BY <1>0, <1>3, <2>1 DEF BoardTypeOK
    <2>3. NextStepHeld'
      <3>1. policy \in Policies
        BY <1>0 DEF BoardTypeOK
      <3>2. policy'.phase = "Connecting" => Queued("Connect")'
        BY <1>3, <2>1, <3>1, PolicyStep DEF Queued, Asked
      <3>3. policy'.phase = "Backoff" /\ On(policy, event).action.kind = "Wait"
              => Queued("Wait")'
        BY <1>3, <2>1 DEF Queued, Asked
      <3>4. policy.phase = "Backoff" => retry' # None \/ Queued("Wait")'
        BY <1>0, <1>3, <2>1 DEF Queued, Asked, NextStepHeld
      <3> QED BY <1>3, <2>1, <3>1, <3>2, <3>3, <3>4, PolicyStep DEF NextStepHeld
    <2>4. NetworkKnown'
      BY <1>0, <1>3, <2>1 DEF NetworkKnown
    <2> QED BY <2>2, <2>3, <2>4 DEF WInv
  <1>5. CASE ReceiveTimedOut
    BY <1>0, <1>5 DEF ReceiveTimedOut, WInv, BoardTypeOK, NextStepHeld, NetworkKnown,
                      Queued, provisioner
  <1>6. CASE RetryChecked
    <2>1. CASE retry = 0 /\ retry' = None /\ Report("Tick")
      <3>1. BoardTypeOK'
        BY <1>0, <1>3, <1>6, <2>1 DEF BoardTypeOK, RetryChecked
      <3>2. policy \in Policies
        BY <1>0 DEF BoardTypeOK
      <3>3. /\ policy'.phase = "Connecting" => joining' # None \/ Queued("Connect")'
            /\ policy'.phase = "Backoff" => Queued("Wait")'
        BY <1>0, <1>3, <1>6, <2>1, <3>2, PolicyStep DEF RetryChecked, Queued, Asked, NextStepHeld
      <3>4. NetworkKnown'
        BY <1>0, <1>3, <1>6, <2>1, <3>2, PolicyStep DEF RetryChecked, NetworkKnown
      <3> QED BY <3>1, <3>3, <3>4 DEF WInv, NextStepHeld
    <2>2. CASE retry # 0
      BY <1>0, <1>6, <2>2 DEF RetryChecked, WInv, BoardTypeOK, NextStepHeld, NetworkKnown,
                              Queued, provisioner
    <2> QED BY <1>6, <2>1, <2>2 DEF RetryChecked
  <1>7. ASSUME NEW rec \in Records, NEW k \in Cuts(rec), PeerSettings(rec, k)
        PROVE  WInv'
    <2>1. CASE AppliesNetwork(rec, k)
      <3>1. /\ handing' = Act("Connect") /\ handing' \in Actions /\ handing' # None
            /\ handing'.kind = "Connect"
        BY <1>7, <2>1, ActType, NoneAssumption DEF PeerSettings, Act
      <3>2. creds' \in Pairs /\ creds' # None
        BY <1>7, <2>1, NoneAssumption
        DEF PeerSettings, OnWriteSettings, AppliesNetwork, Records, Pairs
      <3>3. policy' = [policy EXCEPT !.phase = "Connecting", !.failures = 0]
        BY <1>7, <2>1 DEF PeerSettings, OnWriteSettings, On
      <3>4. BoardTypeOK'
        BY <1>0, <1>7, <2>1, <3>1, <3>2, <3>3
        DEF PeerSettings, OnWriteSettings, BoardTypeOK, Phases, Policies
      <3>5. policy'.phase = "Connecting"
        BY <1>0, <3>3 DEF BoardTypeOK, Policies
      <3> QED BY <3>1, <3>2, <3>4, <3>5 DEF WInv, NextStepHeld, NetworkKnown, Queued, Asked
    <2>2. CASE ~AppliesNetwork(rec, k)
      BY <1>0, <1>7, <2>2
      DEF PeerSettings, OnWriteSettings, WInv, BoardTypeOK, NextStepHeld, NetworkKnown,
          Queued, provisioner
    <2> QED BY <2>1, <2>2
  <1>8. CASE PeerMessage \/ PeerLeaves
    BY <1>0, <1>8
    DEF PeerMessage, PeerLeaves, OnWriteOther, board, provisioner, WInv, BoardTypeOK,
        NextStepHeld, NetworkKnown, Queued, Asked
  <1>9. CASE HandOn
    <2>1. /\ handing \in Actions /\ handing' = None /\ chan' = Append(chan, handing)
          /\ UNCHANGED <<provisioner, pending, joining, retry, loop, untried, resets>>
      BY <1>0, <1>9 DEF HandOn, BoardTypeOK
    <2>2. /\ chan' \in Seq(Actions)
          /\ \A kind : Asked(kind, chan) \/ handing.kind = kind => Asked(kind, chan')
      BY <1>0, <2>1, AskedAppend DEF BoardTypeOK
    <2> QED BY <1>0, <2>1, <2>2
            DEF WInv, BoardTypeOK, NextStepHeld, NetworkKnown, Queued, Asked, provisioner
  <1>10. ASSUME NEW powerOn \in BOOLEAN, BoardReset(powerOn)
         PROVE  WInv'
    <2>1. store' \in Stores
      BY DEF DeviceTypeOK
    <2>2. creds' \in Pairs \cup {None} /\ creds' = StoredNetwork(store')
      BY <1>10, <2>1 DEF BoardReset, Booted, StoredNetwork, Stores, Pairs
    <2>3. /\ policy' \in Policies
          /\ policy'.phase = IF creds' = None THEN "Unprovisioned" ELSE "Connecting"
          /\ trial' = FALSE
      <3>1. NewPolicy \in Policies /\ NewPolicy.phase = "Unprovisioned"
        BY DEF NewPolicy, Policies, Phases
      <3>2. /\ On(NewPolicy, "Provisioned").policy \in Policies
            /\ On(NewPolicy, "Provisioned").policy.phase = "Connecting"
        <4>1. On(NewPolicy, "Provisioned").policy
                = [NewPolicy EXCEPT !.phase = "Connecting", !.failures = 0]
          BY DEF On
        <4>2. "Connecting" \in Phases /\ 0 \in Nat
          BY DEF Phases
        <4>3. /\ [NewPolicy EXCEPT !.phase = "Connecting", !.failures = 0] \in Policies
              /\ [NewPolicy EXCEPT !.phase = "Connecting", !.failures = 0].phase = "Connecting"
          BY <3>1, <4>2, PolicyMoves
        <4> QED BY <4>1, <4>3, Zenon
      <3> QED BY <1>10, <2>2, <3>1, <3>2 DEF BoardReset, Booted
    <2>4. /\ pending' = <<BootAction(store')>>
          /\ BootAction(store') \in Actions
          /\ creds' # None => BootAction(store').kind = "Connect"
      BY <1>10, <2>2, ActType DEF BoardReset, BootAction, Act
    <2>5. /\ chan' = <<>> /\ handing' = None /\ joining' = None /\ retry' = None
          /\ loop' = "recv" /\ untried' = FALSE /\ resets' = resets + 1
      BY <1>10 DEF BoardReset
    <2>6. BoardTypeOK'
      <3>1. pending' \in Seq(Actions) /\ chan' \in Seq(Actions)
        BY <2>4, <2>5
      <3>2. resets' \in Nat
        BY <1>0, <2>5 DEF BoardTypeOK
      <3> QED BY <2>2, <2>3, <2>5, <3>1, <3>2, Zenon DEF BoardTypeOK
    <2>7. creds' # None => Queued("Connect")'
      BY <2>4 DEF Queued, Asked
    <2> QED BY <2>3, <2>5, <2>6, <2>7 DEF WInv, NextStepHeld, NetworkKnown
  <1>11. CASE TimePasses
    <2>1. /\ policy' \in Policies
          /\ policy'.phase = policy.phase
      BY <1>0, <1>11 DEF TimePasses, Waited, BoardTypeOK, Policies
    <2>2. /\ retry' \in Int \cup {None}
          /\ retry' = None => retry = None
      BY <1>0, <1>11, NoneAssumption DEF TimePasses, BoardTypeOK
    <2> QED BY <1>0, <1>11, <2>1, <2>2
            DEF TimePasses, WInv, BoardTypeOK, NextStepHeld, NetworkKnown, Queued, Asked
  <1>12. CASE UNCHANGED allVars
    BY <1>0, <1>12
    DEF allVars, board, provisioner, WInv, BoardTypeOK, NextStepHeld, NetworkKnown, Queued, Asked
  <1> QED
    BY <1>2, <1>4, <1>5, <1>6, <1>7, <1>8, <1>9, <1>10, <1>11, <1>12 DEF Next, MainLoop

(* While every send succeeds no interleaving of the two threads, stale     *)
(* join, retry or reset loses the policy's next step.  (With a failing     *)
(* send it is lost: the run board_handon shows it.)                        *)
THEOREM NothingLost == ~SendFails => (Spec => []NoLostWakeup)
  <1> SUFFICES ASSUME ~SendFails PROVE Spec => []NoLostWakeup
    OBVIOUS
  <1>1. WInv /\ DeviceTypeOK' /\ [Next]_allVars => WInv'
    BY WakeNext
  <1>2. WInv => NoLostWakeup
    BY DEF WInv, NextStepHeld, NoLostWakeup
  <1>3. Spec => []DeviceTypeOK
    BY BoardIsDevice, TypeCorrect, PTL
  <1> QED BY WakeInit, <1>1, <1>2, <1>3, PTL DEF Spec
=============================================================================
