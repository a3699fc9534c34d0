------------------------------- MODULE ApData -------------------------------
(***************************************************************************)
(* The access point's data path, up from its stations and down to them:    *)
(* the check on packet numbers, the hand-over to the stack and to other    *)
(* stations, the packet numbers it sends under, and each station's rate    *)
(* ladder.  Four builds of it: the crate's (rusty_esp_signal-open,         *)
(* access_point/mod.rs) on a protected and on an open network, and the two *)
(* bench firmwares it grew from (xiao-s3-open-ap: bin/wpa2_ap.rs with one  *)
(* receive counter per station, bin/open_ap.rs without keys or ladder).    *)
(* Who may send, dozing and the handshakes are AccessPoint's.              *)
(***************************************************************************)
EXTENDS Integers, Sequences, FiniteSets

CONSTANTS Builds,        \* "crate", "crate_open", "wpa2_ap", "open_ap"
          Members,       \* stations, 1 .. n: connected when the model begins, keyed in turn
          Senders,       \* the stations that send
          Tids,          \* traffic identifiers, each with its own queue
          DSSS,          \* rungs below the OFDM ones (the crate's ladder only)
          LEGACY,        \* OFDM rungs
          START,         \* the rung of 24 Mbit/s, counted from the OFDM ones
          Mcs,           \* highest MCS a station may claim; -1: none
          UP_AFTER,      \* frames acknowledged in a row before a faster rung
          Clear,         \* the fastest rung heard here: one of these
          UP_ROOM,       \* frames the stack's channel holds
          MaxUp, MaxData, MaxJoins, MaxRekeys   \* bounds

ASSUME DataAssumption ==
  /\ Builds \subseteq {"crate", "crate_open", "wpa2_ap", "open_ap"}
  /\ IsFiniteSet(Members) /\ Members = 1 .. Cardinality(Members)
  /\ Senders \subseteq Members
  /\ DSSS \in Nat /\ LEGACY \in Nat \ {0} /\ START \in Nat
  /\ Mcs \subseteq Nat \cup {-1}
  /\ UP_AFTER \in Nat /\ UP_ROOM \in Nat
  /\ Clear \subseteq Nat

VARIABLES build, ap, waves, upward, got, hears, ups, downs

(* ap: per station whether it is associated, its key (0: none), packet     *)
(* numbers and ladder; the group key's; and the history of what was sent.  *)
dataVars == <<build, ap, waves, upward, got, hears, ups, downs>>

Group == 0
Ap == -1

Secured == build \in {"crate", "wpa2_ap"}

(* Ladder::new, and wpa2_ap.rs's, which has no rungs below 6 Mbit/s. *)
LadderTo(slowest, top) ==
  [rung |-> IF slowest + START < top THEN slowest + START ELSE top, streak |-> 0, top |-> top]
NewLadderCrate(mcs) == LadderTo(DSSS, DSSS + LEGACY + mcs)
NewLadderBench(mcs) == LadderTo(0, LEGACY + mcs)
NewLadder(mcs) ==
  IF build \in {"crate", "crate_open"} THEN NewLadderCrate(mcs) ELSE NewLadderBench(mcs)

(* Ladder::acknowledged. *)
Acknowledged(l) ==
  IF l.streak + 1 >= UP_AFTER /\ l.rung < l.top
  THEN [l EXCEPT !.rung = @ + 1, !.streak = 0]
  ELSE [l EXCEPT !.streak = IF @ < UP_AFTER THEN @ + 1 ELSE @]

(* Ladder::lost. *)
Lost(l) == [l EXCEPT !.streak = 0, !.rung = IF @ > 0 THEN @ - 1 ELSE 0]

NoMember == [joined |-> FALSE, mcs |-> -1, key |-> 0, tx |-> 1,
             rx |-> [t \in Tids |-> -1], ladder |-> NewLadder(-1)]

DataInit ==
  /\ build \in Builds
  /\ hears \in Clear
  /\ \E mcs \in Mcs :
       ap = [members |-> [s \in Members |->
                            [NoMember EXCEPT !.joined = TRUE, !.mcs = mcs, !.ladder = NewLadder(mcs),
                                             !.key = IF Secured THEN s ELSE 0]],
             keys |-> Cardinality(Members), gtk |-> 1, gpn |-> 0,
             nonces |-> {}, reused |-> FALSE, mistaken |-> FALSE,
             losses |-> [s \in Members |-> 0]]
  /\ waves = [s \in Members |-> [t \in Tids |-> <<>>]]
  /\ upward = <<>>
  /\ got = <<>>
  /\ ups = 0
  /\ downs = 0

-----------------------------------------------------------------------------
(* Joins and keys, as far as the data path sees them *)

(* An association: a new security association, counters and ladder anew.   *)
(* The station's frames under its old key are lost with it.                *)
JoinsAnew(s, mcs) ==
  /\ ap.keys < Cardinality(Members) + MaxJoins
  /\ ap' = [ap EXCEPT !.keys = @ + 1,
                      !.members[s] = [NoMember EXCEPT !.joined = TRUE, !.mcs = mcs,
                                                      !.ladder = NewLadder(mcs)],
                      !.losses[s] = 0]
  /\ waves' = [waves EXCEPT ![s] = [t \in Tids |-> <<>>]]
  /\ UNCHANGED <<build, upward, got, hears, ups, downs>>

(* Message 4: the pairwise key is in its slot. *)
KeyInstalled(s) ==
  /\ Secured
  /\ ap.members[s].joined
  /\ ap.members[s].key = 0
  /\ ap' = [ap EXCEPT !.members[s].key = ap.keys + 1, !.keys = @ + 1]
  /\ UNCHANGED <<build, waves, upward, got, hears, ups, downs>>

(* transmit_group_message_1: the new key goes to a station under its       *)
(* pairwise key, numbered by the counter its data frames use.              *)
Keyed == {s \in Members : ap.members[s].key # 0}
HandedOut ==
  LET sent   == {<<"pairwise", ap.members[s].key, ap.members[s].tx + 1>> : s \in Keyed}
      handed == [s \in Members |-> IF s \in Keyed THEN [ap.members[s] EXCEPT !.tx = @ + 1]
                                   ELSE ap.members[s]]
  IN  [ap EXCEPT !.members = handed, !.nonces = @ \cup sent,
                 !.reused = @ \/ sent \cap ap.nonces # {}]

(* A rekey: every station is handed the new key, and then group frames go  *)
(* out under it, counted anew (finish_rekey_if_done).                      *)
GroupKeyTurns ==
  /\ Secured
  /\ ap.gtk <= MaxRekeys
  /\ ap' = [HandedOut EXCEPT !.gtk = @ + 1, !.gpn = 0]
  /\ UNCHANGED <<build, waves, upward, got, hears, ups, downs>>

-----------------------------------------------------------------------------
(* Down *)

Airs(a, nonce) == [a EXCEPT !.nonces = @ \cup {nonce}, !.reused = @ \/ nonce \in a.nonces]

(* The ladder learns from the acknowledgement. *)
Learns(a, to, acked) ==
  [a EXCEPT !.losses[to] = IF acked THEN 0 ELSE @ + 1,
            !.members[to].ladder = IF acked THEN Acknowledged(@) ELSE Lost(@)]

(* transmit: under the next packet number of the group's key, or of the    *)
(* station's, if it has one; a station's ladder learns.                    *)
TransmitSecured(a, to, acked) ==
  IF to = Group
  THEN Airs([a EXCEPT !.gpn = @ + 1], <<"group", a.gtk, a.gpn + 1>>)
  ELSE IF a.members[to].key = 0 THEN a
  ELSE Learns(Airs([a EXCEPT !.members[to].tx = @ + 1],
                   <<"pairwise", a.members[to].key, a.members[to].tx + 1>>), to, acked)

(* wpa2_ap.rs: the same, encrypted by the hardware only. *)
TransmitBench(a, to, acked) == TransmitSecured(a, to, acked)

(* transmit_open: in the clear, to a station that is there. *)
TransmitOpen(a, to, acked) ==
  IF to # Group /\ a.members[to].joined THEN Learns(a, to, acked) ELSE a

(* open_ap.rs: one rate for all, and no account of what was acknowledged. *)
SendData(a, to, acked) == a

Transmit(a, to, acked) ==
  CASE build = "crate"      -> TransmitSecured(a, to, acked)
    [] build = "crate_open" -> TransmitOpen(a, to, acked)
    [] build = "wpa2_ap"    -> TransmitBench(a, to, acked)
    [] build = "open_ap"    -> SendData(a, to, acked)

(* A frame is acknowledged only at a rung its station hears. *)
Acks(to) == IF to = Group \/ ap.members[to].ladder.rung > hears THEN {FALSE}
            ELSE {TRUE}

FromTheStack(to) ==
  /\ ups + downs < MaxData
  /\ downs' = downs + 1
  /\ \E acked \in Acks(to) : ap' = Transmit(ap, to, acked)
  /\ UNCHANGED <<build, waves, upward, got, hears, ups>>

-----------------------------------------------------------------------------
(* Up *)

(* A station sends: one counter numbers its frames, each TID has a queue.  *)
MemberSends(s, t, to) ==
  /\ ap.members[s].joined
  /\ Secured => ap.members[s].key # 0
  /\ ups < MaxUp
  /\ ups + downs < MaxData
  /\ ups' = ups + 1
  /\ waves' = [waves EXCEPT ![s][t] =
                 Append(@, [from |-> s, key |-> ap.members[s].key, pn |-> ups', to |-> to,
                            retry |-> FALSE])]
  /\ UNCHANGED <<build, ap, upward, got, hears, downs>>

CheckOneCounter(rx, t, f) ==   \* mutant
  LET last == CHOOSE n \in {rx[u] : u \in Tids} : \A u \in Tids : rx[u] <= n
  IN  IF f.pn > last THEN "Fresh" ELSE IF f.retry THEN "Duplicate" ELSE "Replay"

(* ap_core::replay::Window::check, as the crate uses it: the number climbs *)
(* on its own TID.                                                         *)
Check(rx, t, f) ==
  IF rx[t] = -1 \/ f.pn > rx[t] THEN "Fresh"
  ELSE IF f.retry THEN "Duplicate" ELSE "Replay"

(* wpa2_ap.rs: one counter for all of a station's frames. *)
CheckBench(rx, t, f) ==
  IF \A u \in Tids : f.pn > rx[u] THEN "Fresh" ELSE "Replay"

Judgement(rx, t, f) ==
  CASE build = "crate"   -> Check(rx, t, f)
    [] build = "wpa2_ap" -> CheckBench(rx, t, f)
    [] OTHER             -> "Fresh"

ForStack(f) == f.to \in {Ap, Group}
Full == Len(upward) >= UP_ROOM

ToStack(f) == upward' = IF ForStack(f) /\ ~Full THEN Append(upward, f.pn) ELSE upward
Onward(a, f) == \E acked \in Acks(f.to) : ap' = Transmit(a, f.to, acked)

(* station_data: to the stack when it is for the access point or the       *)
(* group, then on to the other stations; but a frame the stack has no room *)
(* for goes nowhere.                                                       *)
StationData(a, f) ==
  /\ ToStack(f)
  /\ IF f.to = Ap \/ (ForStack(f) /\ Full) THEN ap' = a ELSE Onward(a, f)

(* wpa2_ap.rs: forwarded, room or not. *)
DataBench(a, f) ==
  /\ ToStack(f)
  /\ IF f.to = Ap THEN ap' = a ELSE Onward(a, f)

(* open_ap.rs: the same, in the clear. *)
DataOpen(a, f) == DataBench(a, f)

Handed(a, f) ==
  CASE build \in {"crate", "crate_open"} -> StationData(a, f)
    [] build = "wpa2_ap" -> DataBench(a, f)
    [] build = "open_ap" -> DataOpen(a, f)

(* The next frame of a TID's queue arrives.  When its acknowledgement is   *)
(* lost, the station sends it again, marked.                               *)
FrameArrives(s, t, ackLost) ==
  /\ waves[s][t] # <<>>
  /\ \E f \in {Head(waves[s][t])} :
       /\ ackLost => ~f.retry
       /\ waves' = [waves EXCEPT ![s][t] =
                      IF ackLost THEN <<[f EXCEPT !.retry = TRUE]>> \o Tail(@) ELSE Tail(@)]
       /\ \E verdict \in {Judgement(ap.members[s].rx, t, f)} :
            IF verdict = "Fresh"
            THEN Handed([ap EXCEPT !.members[s].rx[t] = f.pn], f)
            ELSE /\ ap' = [ap EXCEPT !.mistaken = @ \/ (verdict = "Replay" /\ ~f.retry)]
                 /\ UNCHANGED upward
  /\ UNCHANGED <<build, got, hears, ups, downs>>

StackTakes ==
  /\ upward # <<>>
  /\ upward' = Tail(upward)
  /\ got' = Append(got, Head(upward))
  /\ UNCHANGED <<build, ap, waves, hears, ups, downs>>

-----------------------------------------------------------------------------
DataNext ==
  \/ \E s \in Members, mcs \in Mcs : JoinsAnew(s, mcs)
  \/ \E s \in Members : KeyInstalled(s)
  \/ GroupKeyTurns
  \/ \E to \in Members \cup {Group} : FromTheStack(to)
  \/ \E s \in Senders, t \in Tids : \E to \in (Members \ {s}) \cup {Ap, Group} :
       MemberSends(s, t, to)
  \/ \E s \in Senders, t \in Tids, ackLost \in BOOLEAN : FrameArrives(s, t, ackLost)
  \/ StackTakes

DataSpec == DataInit /\ [][DataNext]_dataVars

-----------------------------------------------------------------------------
(* Properties *)

(* CCMP's one rule: no key ever protects two frames under one packet       *)
(* number, across re-associations, forwarding and group key turns.         *)
NoncesFresh == ~ap.reused

(* The crate takes no frame for a replay that the station sent once: a     *)
(* frame of one TID that overtook another's is no reason.                  *)
NotTakenForReplay == build = "crate" => ~ap.mistaken

(* On a protected network a frame reaches the stack at most once, however  *)
(* often the station repeated it.                                          *)
OncePerFrame ==
  Secured => \A i, j \in 1 .. Len(got \o upward) :
               i # j => (got \o upward)[i] # (got \o upward)[j]

(* The ladder stays within what the station said it receives when it last  *)
(* associated.                                                             *)
LadderFits ==
  \A s \in Members : ap.members[s].ladder.rung <= NewLadder(ap.members[s].mcs).top

(* A station is not lost to a rate it cannot hear: the frames lost in a    *)
(* row are no more than the rungs from the ladder's top to one it hears.   *)
LossesBounded ==
  \A s \in Members : ap.losses[s] = 0 \/ ap.losses[s] <= ap.members[s].ladder.top - hears

(* The crate's data path and its bench forerunners: nonces, replays, rates *)
(* and duplicates.                                                         *)
DataPathSound ==
  NoncesFresh /\ NotTakenForReplay /\ OncePerFrame /\ LadderFits /\ LossesBounded
=============================================================================
