----------------------------- MODULE AccessPoint -----------------------------
(***************************************************************************)
(* The WPA2 access point on the open lower MAC (rusty_esp_signal-open,     *)
(* access_point/mod.rs, over ap_core's station table and held frames): the *)
(* joins, the 4-way handshakes and their resends, the rotation of the      *)
(* group key, and the frames held for dozing stations.                     *)
(*                                                                         *)
(* `ap_task` takes one event at a time and finishes it, so its whole state *)
(* is one record and every method is an operator on it.  A handler and     *)
(* what follows it in the same turn of the loop are one action.            *)
(*                                                                         *)
(* Keys are symbolic: an ANonce is a number drawn once, and names the      *)
(* pairwise key of the handshake it began; group keys are numbered as they *)
(* are drawn.  Whether a timer has run out is left to chance.              *)
(***************************************************************************)
EXTENDS Integers, FiniteSets, Functions

CONSTANTS Stations, NONE,
          MAX_STATIONS, HELD_FRAMES, HANDSHAKE_RESENDS,
          Dozes,          \* the stations that use power save
          OutOfOrder,     \* whether a station associates again, or sends data
                          \* before it associates
          Sheds,          \* whether the firmware switches beaconing off
          MaxHandshakes,  \* bound: ANonces drawn
          MaxKeys,        \* bound: group keys drawn when the interval is up
          MaxCounter      \* bound: replay counters a station answers

ASSUME AccessPointAssumption ==
  /\ MAX_STATIONS \in Nat \ {0}
  /\ HELD_FRAMES \in Nat
  /\ HANDSHAKE_RESENDS \in 0 .. 254
  /\ Dozes \subseteq Stations
  /\ OutOfOrder \in BOOLEAN
  /\ Sheds \in BOOLEAN
  /\ MaxHandshakes \in Nat
  /\ MaxKeys \in Nat
  /\ MaxCounter \in Nat
  /\ NONE \notin Nat

VARIABLES
  ap,         \* the AccessPoint: the record of Booted below
  beaconing,  \* BEACONING
  supplicant, \* supplicant[s]: the station's side of its handshakes
  replies     \* EAPOL frames the stations have sent

vars == <<ap, beaconing, supplicant, replies>>

Slots == 1 .. MAX_STATIONS

-----------------------------------------------------------------------------
(* The record *)

Booted ==
  [table     |-> [s \in Stations |-> NONE],  \* Stations, by address
   peers     |-> [i \in Slots |-> NONE],
   gtk       |-> 0,
   pending   |-> NONE,
   rekey_due |-> FALSE,
   held      |-> [s \in Stations |-> 0],     \* frames held for a station
   group     |-> 0,                          \* group frames held
   sent      |-> {},                         \* EAPOL frames sent
   drawn     |-> 0,                          \* ANonces drawn
   newest    |-> 0,                          \* the last group key drawn
   handed    |-> {},                         \* history: whom a rotation hands its key
   left      |-> {}]                         \* history: stations gone with keys

NewPeer(s, nonce) ==
  [address |-> s, nonce |-> nonce, counter |-> 0, keys |-> FALSE,
   stage |-> "SentMessage1", timed |-> TRUE, resends |-> 0,
   key_slot |-> FALSE, wanted |-> FALSE]

Known(x, s) == x.table[s] # NONE

(* The first peer with this address, which is the one `peer` finds. *)
SlotsOf(x, s) == {i \in Slots : x.peers[i] # NONE /\ x.peers[i].address = s}

HasPeer(x, s) == SlotsOf(x, s) # {}

SlotOf(x, s) == CHOOSE i \in SlotsOf(x, s) : \A j \in SlotsOf(x, s) : i <= j

Peer(x, s) == x.peers[SlotOf(x, s)]

Waits(x, s) == HasPeer(x, s) /\ Peer(x, s).wanted

Dozing(x, s) == Known(x, s) /\ x.table[s].power_save

HeldFrames(x) == FoldFunction(+, x.group, x.held)

(* The TIM's count for a station. *)
RefreshQueued(x, s) ==
  IF Known(x, s)
  THEN [x EXCEPT !.table[s].queued = x.held[s] + (IF Waits(x, s) THEN 1 ELSE 0)]
  ELSE x

(* forget, of every station of a set: the rotation is due if one had keys. *)
Forget(x, gone) ==
  LET theirs == UNION {SlotsOf(x, s) : s \in gone}
      keyed  == {i \in theirs : x.peers[i].key_slot}
  IN  [x EXCEPT
        !.peers     = [i \in Slots |-> IF i \in theirs THEN NONE ELSE x.peers[i]],
        !.rekey_due = @ \/ keyed # {},
        !.held      = [s \in Stations |-> IF s \in gone THEN 0 ELSE x.held[s]],
        !.table     = [s \in Stations |-> IF s \in gone THEN NONE ELSE x.table[s]],
        !.left      = @ \cup {x.peers[i].address : i \in keyed}]

-----------------------------------------------------------------------------
(* The 4-way handshake *)

Frame(kind, p, counter, gtk) ==
  [kind |-> kind, station |-> p.address, nonce |-> p.nonce, counter |-> counter, gtk |-> gtk]

(* Authenticator::replay: a resend carries the counter already sent. *)
Counter(p, fresh) == IF fresh THEN p.counter + 1 ELSE p.counter

(* An EAPOL frame laid out for a peer and sent, its timer started. *)
Sent(x, s, stage, kind, fresh, gtk) ==
  LET p == Peer(x, s)
      n == Counter(p, fresh)
  IN  [x EXCEPT
        !.peers[SlotOf(x, s)] = [p EXCEPT !.counter = n, !.stage = stage, !.timed = TRUE],
        !.sent = @ \cup {Frame(kind, p, n, gtk)}]

SendMessage1(x, s, fresh) ==
  IF HasPeer(x, s) THEN Sent(x, s, "SentMessage1", "m1", fresh, NONE) ELSE x

(* Message 3 carries the next group key while there is one. *)
SendMessage3(x, s, fresh) ==
  IF HasPeer(x, s) /\ Peer(x, s).keys
  THEN Sent(x, s, "SentMessage3", "m3", fresh,
            IF x.pending # NONE THEN x.pending ELSE x.gtk)
  ELSE x

(* begin_handshake: the first slot that is free or the station's own.  The *)
(* frames of an earlier association are lost to the station.               *)
BeginHandshake(x, s) ==
  LET open == {i \in Slots : x.peers[i] = NONE \/ x.peers[i].address = s}
      slot == CHOOSE i \in open : \A j \in open : i <= j
  IN  IF open = {} THEN x
      ELSE SendMessage1([x EXCEPT !.peers[slot] = NewPeer(s, x.drawn + 1),
                                  !.drawn = @ + 1,
                                  !.left = @ \ {s},
                                  !.sent = {f \in @ : f.station # s}],
                        s, TRUE)

-----------------------------------------------------------------------------
(* The rotation of the group key *)

FinishUnawaited(x) ==   \* mutant
  IF x.pending = NONE THEN x ELSE [x EXCEPT !.gtk = x.pending, !.pending = NONE]

(* Once no answer is awaited, group frames go out under the pending key. *)
FinishRekeyIfDone(x) ==
  IF \/ x.pending = NONE
     \/ \E i \in Slots : x.peers[i] # NONE /\ x.peers[i].stage = "SentGroupMessage1"
  THEN x
  ELSE [x EXCEPT !.gtk = x.pending, !.pending = NONE]

TransmitGroupMessage1(x, s, fresh) ==
  IF ~HasPeer(x, s) THEN x
  ELSE IF x.pending = NONE
  THEN [x EXCEPT !.peers[SlotOf(x, s)].stage =
          IF @ = "SentGroupMessage1" THEN "Done" ELSE @]
  ELSE IF Peer(x, s).keys /\ Peer(x, s).key_slot
  THEN Sent(x, s, "SentGroupMessage1", "g1", fresh, x.pending)
  ELSE x

(* For a dozing station it waits, with no timer, until the station wakes. *)
SendGroupMessage1(x, s, fresh) ==
  IF ~Dozing(x, s) THEN TransmitGroupMessage1(x, s, fresh)
  ELSE RefreshQueued(
         IF HasPeer(x, s)
         THEN [x EXCEPT !.peers[SlotOf(x, s)] =
                 [@ EXCEPT !.stage = "SentGroupMessage1", !.wanted = TRUE, !.timed = FALSE]]
         ELSE x, s)

(* begin_rekey: a new key for every connected station; nothing but the     *)
(* clearing of rekey_due while a rotation is under way.  Its loop takes    *)
(* the connected peers' addresses and goes to the first peer of each: as a *)
(* rule that peer, and more than once where a station has several.         *)
Connected(x) == {i \in Slots : x.peers[i] # NONE /\ x.peers[i].stage = "Done"}

Turns(x, i) ==
  IF x.peers[i] # NONE /\ i = SlotOf(x, x.peers[i].address)
  THEN Cardinality({j \in Connected(x) : x.peers[j].address = x.peers[i].address})
  ELSE 0

(* The peer after SendGroupMessage1 in each of its turns. *)
HandedTo(x, i) ==
  LET p == [x.peers[i] EXCEPT !.resends = 0]
  IN  IF Dozing(x, p.address)
      THEN [p EXCEPT !.stage = "SentGroupMessage1", !.wanted = TRUE, !.timed = FALSE]
      ELSE IF p.keys /\ p.key_slot
      THEN [p EXCEPT !.stage = "SentGroupMessage1", !.timed = TRUE,
                     !.counter = @ + Turns(x, i)]
      ELSE p

BeginRekey(x) ==
  LET reached == {i \in Slots : Turns(x, i) > 0}
      awake   == {i \in reached : /\ ~Dozing(x, x.peers[i].address)
                                  /\ x.peers[i].keys
                                  /\ x.peers[i].key_slot}
      Frames(i) == {Frame("g1", x.peers[i], x.peers[i].counter + n, x.newest + 1) :
                      n \in 1 .. Turns(x, i)}
      handed  == [x EXCEPT
        !.rekey_due = FALSE,
        !.newest  = @ + 1,
        !.pending = x.newest + 1,
        !.handed  = {<<x.peers[i].address, x.peers[i].nonce>> : i \in Connected(x)},
        !.peers   = [i \in Slots |-> IF i \in reached THEN HandedTo(x, i) ELSE x.peers[i]],
        !.table   = [s \in Stations |->
                       IF Dozing(x, s) /\ \E i \in reached : x.peers[i].address = s
                       THEN [x.table[s] EXCEPT !.queued = x.held[s] + 1] ELSE x.table[s]],
        !.sent    = @ \cup UNION {Frames(i) : i \in awake}]
  IN  IF x.pending # NONE THEN [x EXCEPT !.rekey_due = FALSE]
      ELSE FinishRekeyIfDone(handed)

-----------------------------------------------------------------------------
(* Frames held for dozing stations *)

(* release_one: a waiting group message first, else the oldest frame. *)
ReleaseOne(x, s) ==
  IF Waits(x, s)
  THEN TransmitGroupMessage1(
         RefreshQueued([x EXCEPT !.peers[SlotOf(x, s)].wanted = FALSE], s), s, TRUE)
  ELSE IF x.held[s] > 0
  THEN RefreshQueued([x EXCEPT !.held[s] = @ - 1], s)
  ELSE x

(* release_all: that, until nothing is left. *)
ReleaseAll(x, s) ==
  LET y == IF Waits(x, s) THEN ReleaseOne(x, s) ELSE x
  IN  IF y.held[s] > 0 THEN RefreshQueued([y EXCEPT !.held[s] = 0], s) ELSE y

(* deliver, to a station or (NONE) to the group: held while it, or any     *)
(* station, dozes; a full pool drops the frame.                            *)
Deliver(x, to) ==
  LET dozing == IF to = NONE THEN \E s \in Stations : Dozing(x, s) ELSE Dozing(x, to)
  IN  IF ~dozing \/ HeldFrames(x) >= HELD_FRAMES THEN x
      ELSE IF to = NONE THEN [x EXCEPT !.group = @ + 1]
      ELSE RefreshQueued([x EXCEPT !.held[to] = @ + 1], to)

HeardOnly(x, s, power_save) ==   \* mutant
  [x EXCEPT !.table[s].power_save = power_save]

(* A data frame's header: heard, and what was held goes out on a wake. *)
Heard(x, s, power_save) ==
  LET y == [x EXCEPT !.table[s].power_save = power_save]
  IN  IF Dozing(x, s) /\ ~power_save /\ x.table[s].state # "Authenticated"
      THEN ReleaseAll(y, s) ELSE y

-----------------------------------------------------------------------------
(* EAPOL-Key frames from the stations *)

AnswersAnyhow(p, kind) ==   \* mutant
  \E f \in replies : f.kind = kind /\ f.station = p.address

(* read_message_2 and _4: the MIC of this handshake's keys, and the replay *)
(* counter last sent.  A frame in the clear can come again.                *)
Answers(p, kind) == Frame(kind, p, p.counter, NONE) \in replies

(* eapol, in the clear: message 2 brings the keys, message 4 their slot.   *)
Eapol(x, s) ==
  LET i == SlotOf(x, s)
      p == x.peers[i]
  IN  IF p.stage = "SentMessage1" /\ Answers(p, "m2")
      THEN SendMessage3([x EXCEPT !.peers[i] = [p EXCEPT !.keys = TRUE, !.resends = 0]], s, TRUE)
      ELSE IF p.stage = "SentMessage3" /\ p.keys /\ Answers(p, "m4")
      THEN [x EXCEPT !.peers[i] = [p EXCEPT !.key_slot = TRUE, !.stage = "Done"],
                     !.table[s].state = IF @ = "Associated" THEN "Connected" ELSE @]
      ELSE x

(* group_eapol, protected: the station has the pending group key. *)
GroupEapol(x, s, f) ==
  LET i == SlotOf(x, s)
      p == x.peers[i]
  IN  IF p.stage = "SentGroupMessage1" /\ p.keys /\ f = Frame("g2", p, p.counter, NONE)
      THEN FinishRekeyIfDone([x EXCEPT !.peers[i] = [p EXCEPT !.stage = "Done", !.resends = 0]])
      ELSE x

-----------------------------------------------------------------------------
(* The turns of ap_task.  Any of them ends with the stations dropped whom  *)
(* renumber_stations and the inactivity sweep find.                        *)

EndTurn(turned) ==
  \E x \in {turned} : \E gone \in SUBSET {s \in Stations : Known(x, s)} : ap' = Forget(x, gone)

ResendsForEver(x, i) ==   \* mutant
  IF i = 0 THEN x
  ELSE LET s == x.peers[i].address
       IN  CASE x.peers[i].stage = "SentMessage1"      -> SendMessage1(x, s, FALSE)
             [] x.peers[i].stage = "SentMessage3"      -> SendMessage3(x, s, FALSE)
             [] x.peers[i].stage = "SentGroupMessage1" -> SendGroupMessage1(x, s, FALSE)

(* resend_due: i is the first peer whose time is up, 0 if none's is.  The  *)
(* count, and the stage, are written to the peer its address finds.        *)
ResendDue(x, i) ==
  IF i = 0 THEN x
  ELSE LET s == x.peers[i].address
           counted == [x EXCEPT !.peers[SlotOf(x, s)].resends = (@ + 1) % 256]
       IN  IF x.peers[i].resends >= HANDSHAKE_RESENDS
           THEN FinishRekeyIfDone(Forget(x, {s}))
           ELSE CASE x.peers[i].stage = "SentMessage1"      -> SendMessage1(counted, s, FALSE)
                  [] x.peers[i].stage = "SentMessage3"      -> SendMessage3(counted, s, FALSE)
                  [] x.peers[i].stage = "SentGroupMessage1" -> SendGroupMessage1(counted, s, FALSE)

KeepsGroup(x) ==   \* mutant
  IF \E s \in Stations : Dozing(x, s) THEN x ELSE [x EXCEPT !.group = 0]

ReleaseGroup(x) == [x EXCEPT !.group = 0]

MayBeDue(x, i) == x.peers[i] # NONE /\ x.peers[i].stage # "Done" /\ x.peers[i].timed

(* A beacon, and after it the group frames (a DTIM's), the resends and the *)
(* rotation.  With beaconing off the turn is over before all of them.      *)
Beacon(dtim, i, interval_up) ==
  /\ beaconing
  /\ i \in {0} \cup {j \in Slots : MayBeDue(ap, j)}
  /\ interval_up => ap.newest < MaxKeys \/ ap.pending # NONE
  /\ \E released \in {IF dtim THEN ReleaseGroup(ap) ELSE ap} :
       \E resent \in {ResendDue(released, i)} :
         EndTurn(IF resent.rekey_due \/ interval_up THEN BeginRekey(resent) ELSE resent)
  /\ UNCHANGED <<beaconing, supplicant, replies>>

(* An authentication request: the station starts again. *)
Authenticate(s, open_system) ==
  LET x == Forget(ap, {s})
      room == Cardinality({t \in Stations : Known(x, t)}) < MAX_STATIONS
  IN  /\ EndTurn(IF open_system /\ room
                 THEN [x EXCEPT !.table[s] =
                         [state |-> "Authenticated", power_save |-> FALSE, queued |-> 0]]
                 ELSE x)
      /\ UNCHANGED <<beaconing, supplicant, replies>>

(* An association request, refused (another SSID, no RSN element, none     *)
(* admitted) or answered with a handshake.  Either way it was heard.       *)
Associate(s, accepted) ==
  LET heard == [ap EXCEPT !.table[s].power_save = FALSE]
  IN  /\ Known(ap, s)
      /\ OutOfOrder \/ ap.table[s].state = "Authenticated"
      /\ accepted => ap.drawn < MaxHandshakes
      /\ EndTurn(IF accepted
                 THEN BeginHandshake([heard EXCEPT !.table[s].state = "Associated"], s)
                 ELSE heard)
      /\ UNCHANGED <<beaconing, supplicant, replies>>

(* A deauthentication or disassociation. *)
Leave(s) ==
  /\ Known(ap, s)
  /\ EndTurn(Forget(ap, {s}))
  /\ UNCHANGED <<beaconing, supplicant, replies>>

PsPoll(s) ==
  /\ s \in Dozes
  /\ Known(ap, s)
  /\ ap.table[s].state = "Connected"
  /\ EndTurn(ReleaseOne([ap EXCEPT !.table[s].power_save = TRUE], s))
  /\ UNCHANGED <<beaconing, supplicant, replies>>

(* What comes before a data frame's body is looked at. *)
MaySend(s, power_save) ==
  /\ Known(ap, s)
  /\ OutOfOrder \/ ap.table[s].state # "Authenticated"
  /\ power_save => s \in Dozes

(* A station's data frame for the access point (or a null frame). *)
Data(s, power_save) ==
  /\ MaySend(s, power_save)
  /\ EndTurn(Heard(ap, s, power_save))
  /\ UNCHANGED <<beaconing, supplicant, replies>>

(* One for another station or for the group: protected, and sent on. *)
Forward(s, power_save, to) ==
  LET x == Heard(ap, s, power_save)
  IN  /\ MaySend(s, power_save)
      /\ HasPeer(ap, s)
      /\ Peer(ap, s).key_slot
      /\ to # s
      /\ EndTurn(Deliver(x, to))
      /\ UNCHANGED <<beaconing, supplicant, replies>>

(* A handshake's answer in the clear, of the exchange it names or not. *)
EapolData(s, power_save) ==
  LET x == Heard(ap, s, power_save)
  IN  /\ MaySend(s, power_save)
      /\ HasPeer(ap, s)
      /\ Peer(x, s).stage \in {"SentMessage1", "SentMessage3"}
      /\ EndTurn(Eapol(x, s))
      /\ UNCHANGED <<beaconing, supplicant, replies>>

(* Group message 2: protected, so one packet number is taken once. *)
GroupEapolData(s, power_save, f) ==
  LET x == Heard(ap, s, power_save)
  IN  /\ MaySend(s, power_save)
      /\ f \in replies
      /\ f.kind = "g2"
      /\ f.station = s
      /\ HasPeer(ap, s)
      /\ Peer(ap, s).key_slot
      /\ replies' = replies \ {f}
      /\ EndTurn(GroupEapol(x, s, f))
      /\ UNCHANGED <<beaconing, supplicant>>

(* A frame from the network stack. *)
FromStack(to) ==
  /\ EndTurn(Deliver(ap, to))
  /\ UNCHANGED <<beaconing, supplicant, replies>>

(* A shedding policy stops or restarts the beacons. *)
SetBeaconing(on) ==
  /\ Sheds
  /\ beaconing' = on
  /\ UNCHANGED <<ap, supplicant, replies>>

-----------------------------------------------------------------------------
(* The stations' side of the handshakes (sta_handshake): the last ANonce   *)
(* answered, the replay counter of the last verified frame (0 until the    *)
(* keys are installed), and the group keys held in this association.       *)

NoSupplicant == [nonce |-> 0, floor |-> 0, keys |-> {}]

Reply(kind, f) ==
  replies' = replies \cup {[f EXCEPT !.kind = kind, !.gtk = NONE]}

AnswerMessage1(f) ==
  /\ f \in ap.sent /\ f.kind = "m1"
  /\ f.nonce # supplicant[f.station].nonce
  /\ supplicant' = [supplicant EXCEPT ![f.station] =
                      [@ EXCEPT !.nonce = f.nonce, !.floor = 0, !.keys = {}]]
  /\ Reply("m2", f)
  /\ UNCHANGED <<ap, beaconing>>

(* Message 3 or a group message 1: under this association's keys, with a   *)
(* replay counter above the last.                                          *)
AnswerKeys(f, kind, answer) ==
  /\ f \in ap.sent /\ f.kind = kind
  /\ f.nonce = supplicant[f.station].nonce
  /\ f.counter > supplicant[f.station].floor
  /\ f.counter <= MaxCounter
  /\ (kind = "g1") => supplicant[f.station].floor > 0
  /\ supplicant' = [supplicant EXCEPT ![f.station].floor = f.counter,
                                      ![f.station].keys = @ \cup {f.gtk}]
  /\ Reply(answer, f)
  /\ UNCHANGED <<ap, beaconing>>

-----------------------------------------------------------------------------
Init ==
  /\ ap = Booted
  /\ beaconing = TRUE
  /\ supplicant = [s \in Stations |-> NoSupplicant]
  /\ replies = {}

Next ==
  \/ \E dtim, interval_up \in BOOLEAN, i \in Slots \cup {0} : Beacon(dtim, i, interval_up)
  \/ \E on \in BOOLEAN : SetBeaconing(on)
  \/ \E to \in Stations \cup {NONE} : FromStack(to)
  \/ \E s \in Stations :
       \/ \E open_system \in BOOLEAN : Authenticate(s, open_system)
       \/ \E accepted \in BOOLEAN : Associate(s, accepted)
       \/ Leave(s)
       \/ PsPoll(s)
       \/ \E power_save \in BOOLEAN :
            \/ Data(s, power_save)
            \/ \E to \in Stations \cup {NONE} : Forward(s, power_save, to)
            \/ EapolData(s, power_save)
            \/ \E f \in replies : GroupEapolData(s, power_save, f)
  \/ \E f \in ap.sent :
       \/ AnswerMessage1(f)
       \/ AnswerKeys(f, "m3", "m4")
       \/ AnswerKeys(f, "g1", "g2")

Spec == Init /\ [][Next]_vars

(* Beacons keep coming: one finds a timer run out, one is a DTIM's.       *)
(* Nothing else need happen.                                              *)
ResendTurn == \E dtim, up \in BOOLEAN, i \in Slots : Beacon(dtim, i, up)
DtimTurn   == \E up \in BOOLEAN, i \in Slots \cup {0} : Beacon(TRUE, i, up)

FairSpec == Spec /\ WF_vars(ResendTurn) /\ WF_vars(DtimTurn)

-----------------------------------------------------------------------------
(* Properties *)

PeerType ==
  [address : Stations, nonce : Nat, counter : Nat, keys : BOOLEAN,
   stage : {"SentMessage1", "SentMessage3", "Done", "SentGroupMessage1"},
   timed : BOOLEAN, resends : 0 .. 255, key_slot : BOOLEAN, wanted : BOOLEAN]

Entries == [state : {"Authenticated", "Associated", "Connected"},
            power_save : BOOLEAN, queued : Nat]

EapolFrames == [kind : {"m1", "m2", "m3", "m4", "g1", "g2"}, station : Stations,
                nonce : Nat, counter : Nat, gtk : Nat \cup {NONE}]

ApType ==
  [table : [Stations -> Entries \cup {NONE}], peers : [Slots -> PeerType \cup {NONE}],
   gtk : Nat, pending : Nat \cup {NONE}, rekey_due : BOOLEAN,
   held : [Stations -> Nat], group : Nat, sent : SUBSET EapolFrames,
   drawn : Nat, newest : Nat, handed : SUBSET (Stations \X Nat), left : SUBSET Stations]

Supplicants == [Stations -> [nonce : Nat, floor : Nat, keys : SUBSET (Nat \cup {NONE})]]

ASSUME NoneAssumption == NONE \notin PeerType /\ NONE \notin Entries /\ NONE \notin Stations

(* Every variable has its type. *)
TypeOK ==
  /\ ap \in ApType
  /\ beaconing \in BOOLEAN
  /\ supplicant \in Supplicants
  /\ replies \in SUBSET EapolFrames

(* Whose key slot the access point fills, has installed the same keys: the *)
(* 4-way handshake of mod.rs against the station's, whatever is lost,      *)
(* repeated or late, and through joins begun again.                        *)
KeysAgree ==
  \A i \in Slots : LET p == ap.peers[i] IN
    p # NONE => (p.key_slot => /\ supplicant[p.address].nonce = p.nonce
                               /\ supplicant[p.address].floor > 0)

(* A station the table calls connected has its keys in a slot, and no      *)
(* other has: what forget, associate and eapol keep between the two.       *)
ConnectedIffKeyed ==
  \A s \in Stations :
    (Known(ap, s) /\ ap.table[s].state = "Connected") <=> (HasPeer(ap, s) /\ Peer(ap, s).key_slot)

(* When group frames have switched to a rotation's key, every station that *)
(* was handed it and is still in that association has it (begin_rekey,     *)
(* group_eapol, resend_due and finish_rekey_if_done together).             *)
RecipientsHaveKey ==
  ap.pending = NONE =>
    \A i \in Slots : LET p == ap.peers[i] IN
      (p # NONE /\ <<p.address, p.nonce>> \in ap.handed) => ap.gtk \in supplicant[p.address].keys

(* The beacon's TIM tells a station exactly what waits for it: the frames  *)
(* held, and a group message waiting for its wake (refresh_queued).        *)
TimExact ==
  \A s \in Stations : Known(ap, s) =>
    ap.table[s].queued = ap.held[s] + (IF Waits(ap, s) THEN 1 ELSE 0)

(* Frames wait, and group messages wait, only for a station that dozes: a  *)
(* wake releases all of them (data, release_all).                          *)
HeldOnlyWhileDozing ==
  \A s \in Stations : ap.held[s] > 0 \/ Waits(ap, s) => Dozing(ap, s)

Handshaking(nonce) ==
  \E i \in Slots : /\ ap.peers[i] # NONE
                   /\ ap.peers[i].nonce = nonce
                   /\ ap.peers[i].stage \in {"SentMessage1", "SentMessage3"}

(* A 4-way handshake ends: with the keys installed, or with the station    *)
(* dropped after its resends (resend_due), answered or not.                *)
HandshakeEnds == \A nonce \in 1 .. MaxHandshakes : Handshaking(nonce) ~> ~Handshaking(nonce)

(* Group frames held go out (release_group after a DTIM beacon).           *)
GroupReleased == ap.group > 0 ~> ap.group = 0

(* A rotation that began ends (begin_rekey, finish_rekey_if_done).         *)
RotationEnds == ap.pending # NONE ~> ap.pending = NONE

(* Once no rotation is due or under way, a station that left with its keys *)
(* does not hold the group key in use.                                     *)
KeyGoesWithTheStation ==
  (ap.pending = NONE /\ ~ap.rekey_due) =>
    \A s \in ap.left : ap.gtk \notin supplicant[s].keys

(* A station that counts as connected has the key the access point has. *)
StationsKeyed == KeysAgree /\ ConnectedIffKeyed

(* The TIM announces exactly what is held, and nothing is held for a       *)
(* station that is awake.                                                  *)
HeldAndAnnounced == TimExact /\ HeldOnlyWhileDozing
=============================================================================
