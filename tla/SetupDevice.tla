----------------------------- MODULE SetupDevice -----------------------------
(***************************************************************************)
(* The device's side of the setup session (rusty_esp_signal-core,          *)
(* setup/device.rs): the session's states, the window, the backoff, the    *)
(* lockout, and the settings a session stores, with power cuts and         *)
(* failing writes.                                                         *)
(*                                                                         *)
(* Time is kept as ages, each capped where it stops mattering, so a timer  *)
(* that is not set and one that ran out are the same value.  SPAKE2+ is    *)
(* symbolic: a Confirm verifies if the peer sent the right tag and its     *)
(* code is the one the stored verifier was made from.                      *)
(***************************************************************************)
EXTENDS Integers

CONSTANTS Codes, Nets, Owners,
          None,
          MAX_FAILURES, IDLE_TIMEOUT, WINDOW_AFTER_RESET,
          BACKOFF_UNIT,   \* the first backoff: one second in the code
          MaxLifts        \* bound: power-ons that lift a lockout, per success

ASSUME DeviceAssumption ==
  /\ MAX_FAILURES \in Nat \ {0}
  /\ IDLE_TIMEOUT \in Nat
  /\ WINDOW_AFTER_RESET \in Nat \ {0}
  /\ BACKOFF_UNIT \in Nat \ {0}
  /\ MaxLifts \in Nat
  /\ None \notin Codes \cup Nets \cup Owners

VARIABLES
  store,      \* the two Kv stores, which outlive a reset
  sess,       \* Device::state
  windowAge,  \* time since window_opened
  failAge,    \* time since last_failure
  guesses,    \* Starts answered since a Confirm last verified
  lifts,      \* lockouts lifted by a power-on since then
  record      \* the settings record the last step opened, if it did

vars == <<store, sess, windowAge, failAge, guesses, lifts, record>>
history == <<guesses, lifts>>

-----------------------------------------------------------------------------
(* Values *)

Stores == [ssid : Nets \cup {None}, psk : Nets \cup {None},
           v : Codes \cup {None}, fail : Nat,
           adoption : Owners \cup {None}, pin : Owners \cup {None}]

(* Record::decode's fields; name, maker, blink_ms and fps are one put.     *)
Records == [net : Nets \cup {None}, other : BOOLEAN,
            owner : Owners \cup {None}, v : Codes \cup {None}]

NoRecord == [net |-> None, other |-> FALSE, owner |-> None, v |-> None]

NothingOpened == record' = NoRecord

Idle == [at |-> "idle", match |-> FALSE, age |-> 0]

Sessions == [at : {"idle", "replied", "confirmed"}, match : BOOLEAN, age : Nat]

(* The wait after the fail-th consecutive failure. *)
Backoff(fail) == BACKOFF_UNIT * 2^(IF fail - 1 > 31 THEN 31 ELSE fail - 1)

(* No failure remembered, or one so long ago that no wait is left of it. *)
NoFailure == Backoff(MAX_FAILURES)

ASSUME NoFailureAssumption == NoFailure \in Nat

(* failures(): an unreadable count reads as locked; here it is readable.   *)
LockedOut(st) == st.fail >= MAX_FAILURES

Provisioned(st) == st.ssid # None

(* Device::window at an age of its last opening. *)
WindowOpen(st, age) ==
  /\ ~LockedOut(st)
  /\ \/ ~Provisioned(st)
     \/ age < WINDOW_AFTER_RESET

LiveForever(s) == s   \* mutant

(* Device::tick: a session idle for too long is dropped. *)
Live(s) == IF s.at # "idle" /\ s.age > IDLE_TIMEOUT THEN Idle ELSE s

-----------------------------------------------------------------------------
(* Writes *)

LastPut == 6

(* Which of apply's writes a record calls for, in their order: the         *)
(* network's name and passphrase, the other settings, the adoption, the    *)
(* owner's pin, and the verifier last.                                     *)
Calls(rec, i) ==
  CASE i \in {1, 2} -> rec.net # None
    [] i = 3        -> rec.other
    [] i \in {4, 5} -> rec.owner # None
    [] i = 6        -> rec.v # None

(* How many of them are done when apply returns: all, or those before the  *)
(* first that fails.                                                       *)
Cuts(rec) == {k \in 0 .. LastPut : k = LastPut \/ Calls(rec, k + 1)}

WriteVerifierFirst(st, rec, k) ==   \* mutant
  [st EXCEPT
    !.v        = IF k >= 1 /\ rec.v # None THEN rec.v ELSE @,
    !.ssid     = IF k >= 2 /\ rec.net # None THEN rec.net ELSE @,
    !.psk      = IF k >= 3 /\ rec.net # None THEN rec.net ELSE @,
    !.adoption = IF k >= 5 /\ rec.owner # None THEN rec.owner ELSE @,
    !.pin      = IF k >= 6 /\ rec.owner # None THEN rec.owner ELSE @]

(* The stores after the first k of those writes. *)
Write(st, rec, k) ==
  [ssid     |-> IF k >= 1 /\ rec.net # None THEN rec.net ELSE st.ssid,
   psk      |-> IF k >= 2 /\ rec.net # None THEN rec.net ELSE st.psk,
   adoption |-> IF k >= 4 /\ rec.owner # None THEN rec.owner ELSE st.adoption,
   pin      |-> IF k >= 5 /\ rec.owner # None THEN rec.owner ELSE st.pin,
   v        |-> IF k >= 6 /\ rec.v # None THEN rec.v ELSE st.v,
   fail     |-> st.fail]

AdoptionUnpinned(st, rec) == TRUE   \* mutant

(* Adoption::accept (mID) as apply uses it: the first owner is pinned, a   *)
(* later adoption must come from the same one.                             *)
AdoptionAccepted(st, rec) == rec.owner = None \/ st.pin \in {None, rec.owner}

(* record_failure. *)
Failed(st) == [st EXCEPT !.fail = @ + 1]

(* store_failures(0) once a Confirm verified. *)
Cleared(st) == [st EXCEPT !.fail = 0]

-----------------------------------------------------------------------------
(* The session *)

DeviceInit ==
  /\ store \in [ssid : {None}, psk : {None}, v : Codes \cup {None}, fail : {0},
                adoption : {None}, pin : {None}]
  /\ sess = Idle
  /\ windowAge = 0
  /\ failAge = NoFailure
  /\ guesses = 0
  /\ lifts = 0
  /\ record = NoRecord

(* on_start's early returns: Busy, WindowClosed, Backoff, NoVerifier. *)
StartRefused(s) ==
  \/ s.at # "idle"
  \/ ~WindowOpen(store, windowAge)
  \/ store.fail >= 1 /\ failAge < Backoff(store.fail)
  \/ store.v = None

(* on_start.  A refusal leaves the session in flight alone, as do a        *)
(* malformed Start and a failing RNG or store.  An answered Start is       *)
(* counted as a failure before the Reply leaves.                           *)
OnStart(code) ==
  /\ \/ /\ sess' = Live(sess)
        /\ UNCHANGED <<store, failAge, guesses>>
     \/ /\ ~StartRefused(Live(sess))
        /\ store' = Failed(store)
        /\ failAge' = 0
        /\ sess' = [at |-> "replied", match |-> code = store.v, age |-> 0]
        /\ guesses' = guesses + 1
  /\ NothingOpened
  /\ UNCHANGED <<windowAge, lifts>>

(* Response::confirm on the tag of a peer that sent the right one or not. *)
ConfirmVerifies(s, right) == right /\ s.match

(* on_confirm.  The session is over unless the tag verifies and the count  *)
(* could be cleared.                                                       *)
OnConfirm(right) ==
  LET s == Live(sess)
  IN  /\ \/ /\ sess' = Idle
            /\ UNCHANGED <<store, failAge, guesses, lifts>>
         \/ /\ s.at = "replied"
            /\ ConfirmVerifies(s, right)
            /\ store' = Cleared(store)
            /\ failAge' = NoFailure
            /\ sess' = [at |-> "confirmed", match |-> s.match, age |-> 0]
            /\ guesses' = 0
            /\ lifts' = 0
      /\ NothingOpened
      /\ UNCHANGED windowAge

(* on_settings with a body that does not open: out of order it only ends   *)
(* the session; in order it is counted (unless the count cannot be stored).*)
OnSettingsUnopened ==
  /\ sess' = Idle
  /\ \/ UNCHANGED <<store, failAge>>
     \/ /\ Live(sess).at = "confirmed"
        /\ store' = Failed(store)
        /\ failAge' = 0
  /\ NothingOpened
  /\ UNCHANGED <<windowAge, history>>

(* on_settings and apply.  The record is checked whole; then its writes    *)
(* are made in order until one fails (StoreFailed) or all are done         *)
(* (Applied).  Either way the session is over.                             *)
OnSettings(rec, k) ==
  /\ Live(sess).at = "confirmed"
  /\ record' = rec
  /\ store' = IF AdoptionAccepted(store, rec) THEN Write(store, rec, k) ELSE store
  /\ sess' = Idle
  /\ UNCHANGED <<windowAge, failAge, guesses, lifts>>

(* end_with: a message of an unknown version, shape or kind. *)
OnOther ==
  /\ sess' = Idle
  /\ NothingOpened
  /\ UNCHANGED <<store, windowAge, failAge, history>>

(* The carrier's session ended. *)
CarrierClosed ==
  /\ sess' = Idle
  /\ NothingOpened
  /\ UNCHANGED <<store, windowAge, failAge, history>>

(* The board's button. *)
Button ==
  /\ windowAge' = 0
  /\ NothingOpened
  /\ UNCHANGED <<store, sess, failAge, history>>

(* Device::tick from a backend's loop. *)
DeviceTick ==
  /\ sess' = Live(sess)
  /\ NothingOpened
  /\ UNCHANGED <<store, windowAge, failAge, history>>

-----------------------------------------------------------------------------
(* Resets and power cuts *)

AfterResetCleared(st, powerOn) ==   \* mutant
  IF powerOn THEN [st EXCEPT !.fail = 0] ELSE st

(* Device::new after a power-on: the window opens, and a lockout is lifted *)
(* to one guess.  After any other reset neither happens.                   *)
AfterReset(st, powerOn) ==
  IF powerOn /\ LockedOut(st) THEN [st EXCEPT !.fail = MAX_FAILURES - 1] ELSE st

Restarted(st, proven, powerOn) ==
  /\ store' = AfterReset(st, powerOn)
  /\ lifts' = (IF proven THEN 0 ELSE lifts)
              + (IF powerOn /\ LockedOut(st) THEN 1 ELSE 0)
  /\ lifts' <= MaxLifts
  /\ guesses' = IF proven THEN 0 ELSE guesses
  /\ sess' = Idle
  /\ windowAge' = IF powerOn THEN 0 ELSE WINDOW_AFTER_RESET
  /\ failAge' = NoFailure

(* A reset between two messages. *)
Reset(powerOn) == Restarted(store, FALSE, powerOn) /\ NothingOpened

(* The power goes inside a handler: after a Start or a Settings that does  *)
(* not open was counted and before the answer left, after the count was    *)
(* cleared and before Ready left, or between two of apply's writes.        *)
CutInStart(powerOn) ==
  /\ ~StartRefused(Live(sess))
  /\ Restarted(Failed(store), FALSE, powerOn)
  /\ NothingOpened

CutInConfirm(powerOn) ==
  /\ Live(sess).at = "replied"
  /\ ConfirmVerifies(Live(sess), TRUE)
  /\ Restarted(Cleared(store), TRUE, powerOn)
  /\ NothingOpened

CutInSettings(powerOn) ==
  /\ Live(sess).at = "confirmed"
  /\ \/ /\ Restarted(Failed(store), FALSE, powerOn)
        /\ NothingOpened
     \/ \E rec \in Records, k \in 0 .. LastPut :
          /\ AdoptionAccepted(store, rec)
          /\ Restarted(Write(store, rec, k), FALSE, powerOn)
          /\ record' = rec

(* Time passes for every timer. *)
Elapse ==
  /\ sess' = [sess EXCEPT !.age = IF sess.at # "idle" /\ @ <= IDLE_TIMEOUT
                                  THEN @ + 1 ELSE @]
  /\ windowAge' = IF windowAge < WINDOW_AFTER_RESET THEN windowAge + 1 ELSE windowAge
  /\ failAge' = IF failAge < NoFailure THEN failAge + 1 ELSE failAge
  /\ NothingOpened
  /\ UNCHANGED <<store, history>>

DeviceNext ==
  \/ \E code \in Codes : OnStart(code)
  \/ \E right \in BOOLEAN : OnConfirm(right)
  \/ OnSettingsUnopened
  \/ \E rec \in Records : \E k \in Cuts(rec) : OnSettings(rec, k)
  \/ OnOther \/ CarrierClosed \/ Button \/ DeviceTick
  \/ \E powerOn \in BOOLEAN :
       Reset(powerOn) \/ CutInStart(powerOn) \/ CutInConfirm(powerOn) \/ CutInSettings(powerOn)
  \/ Elapse

DeviceSpec == DeviceInit /\ [][DeviceNext]_vars

-----------------------------------------------------------------------------
(* Properties *)

(* Every variable has its type. *)
DeviceTypeOK ==
  /\ store \in Stores
  /\ sess \in Sessions
  /\ windowAge \in 0 .. WINDOW_AFTER_RESET
  /\ failAge \in 0 .. NoFailure
  /\ guesses \in Nat
  /\ lifts \in 0 .. MaxLifts
  /\ record \in Records

(* What the count is worth in each state: an answered Start stays counted  *)
(* while its session lasts, a confirmed session starts from zero, and the  *)
(* count never exceeds the limit.                                          *)
CountedSessions ==
  /\ store.fail <= MAX_FAILURES
  /\ sess.at = "replied" => store.fail >= 1
  /\ sess.at = "confirmed" => store.fail = 0 /\ sess.match

(* "Five wrong codes lock the window, and on the next power-on one more    *)
(* guess": however sessions are abandoned, interrupted by power cuts or    *)
(* dropped by timeouts, the Replies given out since a code last verified   *)
(* (each lets its starter check one guess) are at most MAX_FAILURES, plus  *)
(* one for each lockout a power-on lifted.                                 *)
GuessBound == guesses <= MAX_FAILURES + lifts

(* The strengthening of GuessBound: the stored count covers every Reply.   *)
GuessesCounted == guesses <= store.fail + lifts

Settings(st) == [st EXCEPT !.fail = 0]

(* Only a session whose peer proved the code of the stored verifier, and   *)
(* that is not idle past its timeout, changes a setting.                   *)
OnlyTheCodeHolderWrites ==
  [][Settings(store') # Settings(store) =>
       sess.at = "confirmed" /\ sess.match /\ sess.age <= IDLE_TIMEOUT]_vars

(* The code changes last: when apply's writes stop early (a failing store, *)
(* a power cut), the owner's old code still opens the retry; once the new  *)
(* code is in force, all the rest of its record is stored.                 *)
CodeRotatesLast ==
  [][store'.v # store.v =>
       /\ record'.net # None => store'.ssid = record'.net /\ store'.psk = record'.net
       /\ record'.owner # None => store'.adoption = record'.owner /\ store'.pin = record'.owner]_vars

(* A pinned owner stays pinned through every session, interruption and     *)
(* reset.                                                                  *)
OwnerStaysPinned == [][store.pin # None => store'.pin = store.pin]_vars
=============================================================================
