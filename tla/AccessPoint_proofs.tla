------------------------- MODULE AccessPoint_proofs -------------------------
(***************************************************************************)
(* The access point's handshakes, its held frames and its rotation, proved *)
(* for every number of stations, slots, frames, resends and keys: stations *)
(* associate in order (after they authenticate), as those of the runs do.  *)
(*                                                                         *)
(* The invariant is a conjunction over the stations.  What it says of one  *)
(* reads only that station's entry, peer, frames and supplicant, and the   *)
(* group keys; so a handler that serves one station is reasoned about for  *)
(* that station alone (LocalStep), and every method is a lemma of its own. *)
(***************************************************************************)
EXTENDS AccessPoint, FiniteSetTheorems, WellFoundedInduction, TLAPS

-----------------------------------------------------------------------------
(* The invariant *)

IsOf(x, i, s) == x.peers[i] # NONE /\ x.peers[i].address = s

Wanted(x, s) == \E i \in Slots : IsOf(x, i, s) /\ x.peers[i].wanted

(* The group message last sent is answered, and its answer was taken.      *)
Settled(p, sup, rep) ==
  /\ sup[p.address].floor >= p.counter
  /\ Frame("g2", p, p.counter, NONE) \notin rep

(* It carries the pending key, and its answer says the station has it.     *)
Current(x, p, sup, rep) ==
  /\ x.pending # NONE
  /\ \A f \in x.sent :
       f.kind = "g1" /\ f.station = p.address /\ f.counter = p.counter => f.gtk = x.pending
  /\ Frame("g2", p, p.counter, NONE) \in rep => x.pending \in sup[p.address].keys

(* The peer, its station's entry and the stage of its handshake agree.     *)
Staged(x, p) ==
  /\ Known(x, p.address)
  /\ x.table[p.address].state # "Authenticated"
  /\ x.table[p.address].state = "Connected" <=> p.key_slot
  /\ p.key_slot <=> p.stage \in {"Done", "SentGroupMessage1"}
  /\ p.stage # "SentMessage1" => p.keys
  /\ x.pending = NONE => p.stage # "SentGroupMessage1"
  /\ p.nonce \in 1 .. x.drawn

(* What is in the air of the peer's association is no newer than the peer. *)
InTheAir(x, p, rep) ==
  /\ \A f \in x.sent : f.station = p.address => f.nonce = p.nonce
  /\ \A f \in x.sent \cup rep :
       f.station = p.address /\ f.nonce = p.nonce =>
         /\ f.counter <= p.counter
         /\ f.kind \in {"g1", "g2"} => p.key_slot

(* An answer that needs the keys comes from a station that installed them. *)
Answered(p, sup, rep) ==
  \A f \in rep :
    f.station = p.address /\ f.nonce = p.nonce /\ f.kind \in {"m4", "g2"} =>
      /\ sup[p.address].nonce = p.nonce
      /\ f.counter \in 1 .. sup[p.address].floor

Keyed(p, sup) ==
  p.key_slot => sup[p.address].nonce = p.nonce /\ sup[p.address].floor > 0

(* A station the rotation hands its key has it, or is still awaited.       *)
HandedOn(x, p, sup) ==
  <<p.address, p.nonce>> \in x.handed =>
    /\ p.key_slot
    /\ IF x.pending = NONE THEN x.gtk \in sup[p.address].keys
       ELSE p.stage = "SentGroupMessage1" \/ x.pending \in sup[p.address].keys

PeerInv(x, p, sup, rep) ==
  /\ Staged(x, p)
  /\ InTheAir(x, p, rep)
  /\ Answered(p, sup, rep)
  /\ Keyed(p, sup)
  /\ HandedOn(x, p, sup)
  /\ p.stage = "Done" => Settled(p, sup, rep)
  /\ p.stage = "SentGroupMessage1" => Settled(p, sup, rep) \/ Current(x, p, sup, rep)

(* The station's entry, and what is held for it. *)
EntryInv(x, s) ==
  Known(x, s) =>
    /\ x.table[s].state = "Authenticated" => ~x.table[s].power_save
    /\ x.table[s].state = "Connected" => \E i \in Slots : IsOf(x, i, s)
    /\ x.table[s].queued = x.held[s] + (IF Wanted(x, s) THEN 1 ELSE 0)

HeldInv(x, s) == x.held[s] > 0 \/ Wanted(x, s) => Dozing(x, s)

(* No nonce is in use that has not been drawn. *)
NoncesDrawn(x, s, sup, rep) ==
  /\ \A f \in x.sent \cup rep : f.station = s => f.nonce <= x.drawn
  /\ sup[s].nonce <= x.drawn
  /\ \A h \in x.handed : h[1] = s => h[2] <= x.drawn

StationInv(x, s, sup, rep) ==
  /\ \A i, j \in Slots : IsOf(x, i, s) /\ IsOf(x, j, s) => i = j
  /\ \A i \in Slots : IsOf(x, i, s) => PeerInv(x, x.peers[i], sup, rep)
  /\ EntryInv(x, s)
  /\ NoncesDrawn(x, s, sup, rep)

Typed(x, sup, rep) == x \in ApType /\ sup \in Supplicants /\ rep \in SUBSET EapolFrames

(* Between a wake and the release of what was held, HeldInv is out for the *)
(* station that woke: it holds of the stations in T.                       *)
Good(x, sup, rep, T) ==
  /\ Typed(x, sup, rep)
  /\ \A s \in Stations : StationInv(x, s, sup, rep)
  /\ \A s \in T : HeldInv(x, s)

IInv == Good(ap, supplicant, replies, Stations)

-----------------------------------------------------------------------------
(* Reasoning about one station *)

(* The peer `peer` finds is the one the station has.                       *)
LEMMA ThePeer ==
  ASSUME NEW x, NEW s, NEW i \in Slots, IsOf(x, i, s),
         \A j, k \in Slots : IsOf(x, j, s) /\ IsOf(x, k, s) => j = k
  PROVE  /\ HasPeer(x, s) /\ SlotOf(x, s) = i /\ Peer(x, s) = x.peers[i]
         /\ Waits(x, s) <=> x.peers[i].wanted
         /\ Waits(x, s) <=> Wanted(x, s)
  <1>1. SlotsOf(x, s) = {i}
    BY DEF SlotsOf, IsOf
  <1>2. SlotOf(x, s) = i
    BY <1>1 DEF SlotOf, Slots
  <1> QED BY <1>1, <1>2 DEF HasPeer, Peer, Waits, Wanted

(* A station with no peer in any slot: `peer` finds none, and no message   *)
(* waits.                                                                  *)
LEMMA NoPeer ==
  ASSUME NEW x, NEW s, \A i \in Slots : ~IsOf(x, i, s)
  PROVE  ~HasPeer(x, s) /\ ~Waits(x, s) /\ ~Wanted(x, s)
  BY DEF HasPeer, SlotsOf, IsOf, Waits, Wanted

(* refresh_queued's question, of the peer that `peer` finds.               *)
LEMMA WaitsIsWanted ==
  ASSUME NEW x, NEW s, \A j, k \in Slots : IsOf(x, j, s) /\ IsOf(x, k, s) => j = k
  PROVE  /\ Waits(x, s) <=> Wanted(x, s)
         /\ HasPeer(x, s) <=> \E i \in Slots : IsOf(x, i, s)
  <1>1. CASE \E i \in Slots : IsOf(x, i, s)
    BY <1>1, ThePeer
  <1>2. CASE ~\E i \in Slots : IsOf(x, i, s)
    BY <1>2, NoPeer
  <1> QED BY <1>1, <1>2

(* Two states that agree in all that the invariant of a station reads.     *)
AgreeOn(t, x, sup, rep, y, sup2, rep2) ==
  /\ y.pending = x.pending /\ y.gtk = x.gtk /\ y.handed = x.handed
  /\ y.drawn >= x.drawn
  /\ y.table[t] = x.table[t] /\ y.held[t] = x.held[t] /\ sup2[t] = sup[t]
  /\ \A i \in Slots : IsOf(x, i, t) \/ IsOf(y, i, t) => y.peers[i] = x.peers[i]
  /\ \A f \in EapolFrames : f.station = t =>
       /\ f \in y.sent <=> f \in x.sent
       /\ f \in rep2 <=> f \in rep

(* What is known of one station survives a step that leaves it alone.      *)
LEMMA StationKept ==
  ASSUME NEW x, NEW sup, NEW rep, NEW y, NEW sup2, NEW rep2, NEW t \in Stations,
         Typed(x, sup, rep), Typed(y, sup2, rep2),
         AgreeOn(t, x, sup, rep, y, sup2, rep2),
         StationInv(x, t, sup, rep)
  PROVE  StationInv(y, t, sup2, rep2) /\ (HeldInv(x, t) => HeldInv(y, t))
  <1>1. \A i \in Slots : /\ IsOf(y, i, t) <=> IsOf(x, i, t)
                         /\ IsOf(y, i, t) => y.peers[i] = x.peers[i]
    BY DEF AgreeOn, IsOf
  <1>2. Wanted(y, t) <=> Wanted(x, t)
    BY <1>1 DEF Wanted
  <1>3. /\ y.table[t] = x.table[t] /\ y.held[t] = x.held[t] /\ sup2[t] = sup[t]
        /\ y.pending = x.pending /\ y.gtk = x.gtk /\ y.handed = x.handed
        /\ x.drawn \in Nat /\ y.drawn \in Nat /\ y.drawn >= x.drawn
    BY DEF AgreeOn, Typed, ApType
  <1>4. \A f : f.station = t => /\ f \in y.sent <=> f \in x.sent
                                /\ f \in rep2 <=> f \in rep
    <2>1. x.sent \subseteq EapolFrames /\ y.sent \subseteq EapolFrames
          /\ rep \subseteq EapolFrames /\ rep2 \subseteq EapolFrames
      BY DEF Typed, ApType
    <2> QED BY <2>1 DEF AgreeOn
  <1>5. ASSUME NEW i \in Slots, IsOf(y, i, t)
        PROVE  PeerInv(y, y.peers[i], sup2, rep2)
    <2>1. PICK p : p = x.peers[i]
      OBVIOUS
    <2>2. y.peers[i] = p /\ p.address = t /\ PeerInv(x, p, sup, rep)
      BY <1>1, <1>5, <2>1 DEF StationInv, IsOf
    <2>3. p \in PeerType
      BY <1>1, <1>5, <2>1 DEF Typed, ApType, IsOf
    <2>4. Staged(y, p)
      BY <1>3, <2>2, <2>3 DEF PeerInv, Staged, Known, PeerType
    <2>5. InTheAir(y, p, rep2) /\ Answered(p, sup2, rep2)
      BY <1>3, <1>4, <2>2 DEF PeerInv, InTheAir, Answered
    <2>6. Keyed(p, sup2) /\ HandedOn(y, p, sup2)
      BY <1>3, <2>2 DEF PeerInv, Keyed, HandedOn
    <2>7. /\ Settled(p, sup2, rep2) <=> Settled(p, sup, rep)
          /\ Current(y, p, sup2, rep2) <=> Current(x, p, sup, rep)
      <3>1. Frame("g2", p, p.counter, NONE) \in rep2 <=> Frame("g2", p, p.counter, NONE) \in rep
        BY <1>4, <2>2 DEF Frame
      <3> QED BY <1>3, <1>4, <2>2, <3>1 DEF Settled, Current
    <2> QED BY <2>2, <2>4, <2>5, <2>6, <2>7 DEF PeerInv
  <1>6. EntryInv(y, t) /\ (HeldInv(x, t) => HeldInv(y, t))
    BY <1>1, <1>2, <1>3 DEF StationInv, EntryInv, HeldInv, Known, Dozing
  <1>7. NoncesDrawn(y, t, sup2, rep2)
    <2>1. \A f \in y.sent \cup rep2 : f.station = t => f.nonce <= y.drawn
      <3> SUFFICES ASSUME NEW f \in y.sent \cup rep2, f.station = t PROVE f.nonce <= y.drawn
        OBVIOUS
      <3>1. f \in x.sent \cup rep /\ f.nonce \in Nat
        BY <1>4 DEF Typed, ApType, EapolFrames
      <3> QED BY <1>3, <3>1 DEF StationInv, NoncesDrawn
    <2>2. sup2[t].nonce <= y.drawn
      <3>1. sup[t].nonce \in Nat
        BY DEF Typed, Supplicants
      <3> QED BY <1>3, <3>1 DEF StationInv, NoncesDrawn
    <2>3. \A h \in y.handed : h[1] = t => h[2] <= y.drawn
      <3>1. \A h \in x.handed : h[2] \in Nat
        BY DEF Typed, ApType
      <3> QED BY <1>3, <3>1 DEF StationInv, NoncesDrawn
    <2> QED BY <2>1, <2>2, <2>3 DEF NoncesDrawn
  <1> QED BY <1>1, <1>5, <1>6, <1>7 DEF StationInv

(* A step of one station's entry, peer and held frames keeps the whole.    *)
LEMMA LocalStep ==
  ASSUME NEW x, NEW sup, NEW rep, NEW y, NEW sup2, NEW rep2, NEW s \in Stations,
         NEW T \in SUBSET Stations, NEW U \in SUBSET Stations, U \subseteq T \cup {s},
         Good(x, sup, rep, T),
         Typed(y, sup2, rep2),
         \A t \in Stations \ {s} : AgreeOn(t, x, sup, rep, y, sup2, rep2),
         StationInv(y, s, sup2, rep2),
         s \in U => HeldInv(y, s)
  PROVE  Good(y, sup2, rep2, U)
  <1>1. ASSUME NEW t \in Stations
        PROVE  StationInv(y, t, sup2, rep2)
    BY <1>1, StationKept DEF Good
  <1>2. ASSUME NEW t \in U
        PROVE  HeldInv(y, t)
    BY <1>2, StationKept DEF Good
  <1> QED BY <1>1, <1>2 DEF Good

-----------------------------------------------------------------------------
(* One peer moves on, and frames are sent to its station *)

(* A peer that moves on in its own slot keeps the whole.                   *)
LEMMA PeerMoves ==
  ASSUME NEW x, NEW sup, NEW rep, NEW T \in SUBSET Stations, Good(x, sup, rep, T),
         NEW s \in Stations, NEW i \in Slots, IsOf(x, i, s),
         NEW q \in PeerType, q.address = s, q.nonce = x.peers[i].nonce,
         q.wanted = x.peers[i].wanted,
         NEW F \in SUBSET EapolFrames, \A f \in F : f.station = s /\ f.nonce = q.nonce,
         NEW y, y = [x EXCEPT !.peers[i] = q, !.sent = @ \cup F],
         PeerInv(y, q, sup, rep)
  PROVE  Good(y, sup, rep, T)
  <1>1. x \in ApType /\ StationInv(x, s, sup, rep)
    BY DEF Good, Typed
  <1>2. y \in ApType
    BY <1>1 DEF ApType
  <1>3. /\ y.peers = [x.peers EXCEPT ![i] = q] /\ y.sent = x.sent \cup F
        /\ y.table = x.table /\ y.held = x.held
        /\ y.pending = x.pending /\ y.gtk = x.gtk /\ y.handed = x.handed /\ y.drawn = x.drawn
    BY <1>1 DEF ApType
  <1>4. x.drawn \in Nat /\ y.peers[i] = q /\ q # NONE
        /\ \A j \in Slots \ {i} : y.peers[j] = x.peers[j]
    BY <1>1, <1>3, NoneAssumption DEF ApType
  <1>5. \A t \in Stations \ {s} : AgreeOn(t, x, sup, rep, y, sup, rep)
    BY <1>3, <1>4 DEF AgreeOn, IsOf
  <1>6. \A j \in Slots : IsOf(y, j, s) <=> j = i
    BY <1>1, <1>4 DEF StationInv, IsOf
  <1>7. Wanted(y, s) <=> Wanted(x, s)
    BY <1>1, <1>4, <1>6 DEF Wanted, StationInv, IsOf
  <1>8. EntryInv(y, s) /\ (HeldInv(x, s) => HeldInv(y, s))
    BY <1>1, <1>3, <1>6, <1>7 DEF StationInv, EntryInv, HeldInv, Known, Dozing
  <1>9. NoncesDrawn(y, s, sup, rep)
    <2>1. q.nonce <= x.drawn
      BY <1>1, <1>4 DEF StationInv, PeerInv, Staged
    <2> QED BY <1>1, <1>3, <2>1 DEF StationInv, NoncesDrawn
  <1>10. StationInv(y, s, sup, rep)
    BY <1>4, <1>6, <1>8, <1>9 DEF StationInv
  <1>11. Typed(y, sup, rep)
    BY <1>2 DEF Good, Typed
  <1>12. s \in T => HeldInv(y, s)
    BY <1>8 DEF Good
  <1> QED BY <1>5, <1>10, <1>11, <1>12, LocalStep

(* The timer and the count of resends are nobody's business. *)
LEMMA PeerCounted ==
  ASSUME NEW x, NEW sup, NEW rep, NEW T \in SUBSET Stations, Good(x, sup, rep, T),
         NEW s \in Stations, NEW i \in Slots, IsOf(x, i, s), NEW n \in 0 .. 255
  PROVE  Good([x EXCEPT !.peers[i].resends = n], sup, rep, T)
  <1>1. PICK p : p = x.peers[i]
    OBVIOUS
  <1>2. PICK q : q = [p EXCEPT !.resends = n]
    OBVIOUS
  <1>3. x \in ApType /\ p \in PeerType /\ p.address = s /\ PeerInv(x, p, sup, rep)
    BY <1>1 DEF Good, Typed, ApType, IsOf, StationInv
  <1>4. /\ q \in PeerType /\ q.address = s /\ q.nonce = p.nonce /\ q.wanted = p.wanted
        /\ q.counter = p.counter /\ q.keys = p.keys /\ q.key_slot = p.key_slot
        /\ q.stage = p.stage
    BY <1>2, <1>3 DEF PeerType
  <1>5. PICK F : F = {}
    OBVIOUS
  <1>55. PICK y : y = [x EXCEPT !.peers[i] = q, !.sent = @ \cup F]
    OBVIOUS
  <1>6. y = [x EXCEPT !.peers[i].resends = n]
    BY <1>1, <1>2, <1>3, <1>5, <1>55 DEF ApType
  <1>7. PeerInv(x, q, sup, rep)
    BY <1>3, <1>4 DEF PeerInv, Staged, InTheAir, Answered, Keyed, HandedOn, Settled, Current, Frame
  <1>8. PeerInv(y, q, sup, rep)
    <2>1. /\ y.table = x.table /\ y.pending = x.pending /\ y.gtk = x.gtk
          /\ y.handed = x.handed /\ y.drawn = x.drawn /\ y.sent = x.sent
      BY <1>3, <1>5, <1>55 DEF ApType
    <2> QED BY <1>7, <2>1 DEF PeerInv, Staged, InTheAir, HandedOn, Current, Known
  <1>9. F \in SUBSET EapolFrames /\ \A f \in F : f.station = s /\ f.nonce = q.nonce
    BY <1>5
  <1>10. Good(y, sup, rep, T)
    BY <1>1, <1>4, <1>55, <1>8, <1>9, PeerMoves
  <1> QED BY <1>6, <1>10

(* A peer whose frame has just been sent.                                  *)
Restaged(p, n, stage) == [p EXCEPT !.counter = n, !.stage = stage, !.timed = TRUE]

(* Sending moves a peer's counter, stage and timer and nothing else of it. *)
LEMMA PeerRestaged ==
  ASSUME NEW p \in PeerType, NEW n \in Nat,
         NEW stage \in {"SentMessage1", "SentMessage3", "Done", "SentGroupMessage1"}
  PROVE  /\ Restaged(p, n, stage) \in PeerType
         /\ Restaged(p, n, stage).address = p.address
         /\ Restaged(p, n, stage).nonce = p.nonce
         /\ Restaged(p, n, stage).wanted = p.wanted
         /\ Restaged(p, n, stage).keys = p.keys
         /\ Restaged(p, n, stage).key_slot = p.key_slot
         /\ Restaged(p, n, stage).stage = stage
         /\ Restaged(p, n, stage).counter = n
  BY DEF PeerType, Restaged

(* A frame sent in a stage that is right for it keeps the invariant.       *)
LEMMA SentGood ==
  ASSUME NEW x, NEW sup, NEW rep, NEW T \in SUBSET Stations, Good(x, sup, rep, T),
         NEW s \in Stations, NEW i \in Slots, IsOf(x, i, s),
         NEW stage, NEW kind, NEW fresh \in BOOLEAN, NEW gtk \in Nat \cup {NONE},
         \/ /\ stage = "SentMessage1" /\ kind = "m1"
            /\ x.peers[i].stage = "SentMessage1"
         \/ /\ stage = "SentMessage3" /\ kind = "m3"
            /\ x.peers[i].keys /\ ~x.peers[i].key_slot
         \/ /\ stage = "SentGroupMessage1" /\ kind = "g1"
            /\ x.peers[i].keys /\ x.peers[i].key_slot
            /\ x.pending # NONE /\ gtk = x.pending
            /\ fresh \/ x.peers[i].stage = "SentGroupMessage1"
  PROVE  Good(Sent(x, s, stage, kind, fresh, gtk), sup, rep, T)
  <1>1. /\ x \in ApType /\ sup \in Supplicants /\ rep \subseteq EapolFrames
        /\ StationInv(x, s, sup, rep)
    BY DEF Good, Typed
  <1>2. PICK p : p = x.peers[i]
    OBVIOUS
  <1>3. p \in PeerType /\ p.address = s /\ PeerInv(x, p, sup, rep)
    BY <1>1, <1>2 DEF ApType, IsOf, StationInv
  <1>4. PICK n : n = Counter(p, fresh)
    OBVIOUS
  <1>5. n = p.counter + (IF fresh THEN 1 ELSE 0) /\ n \in Nat
    BY <1>3, <1>4 DEF Counter, PeerType
  <1>6. PICK q : q = Restaged(p, n, stage)
    OBVIOUS
  <1>7. PICK f : f = Frame(kind, p, n, gtk)
    OBVIOUS
  <1>8. /\ q \in PeerType /\ q.address = s /\ q.nonce = p.nonce /\ q.wanted = p.wanted
        /\ q.keys = p.keys /\ q.key_slot = p.key_slot /\ q.stage = stage
        /\ q.counter = p.counter + (IF fresh THEN 1 ELSE 0)
        /\ f \in EapolFrames /\ f.kind = kind /\ f.station = s /\ f.nonce = q.nonce
        /\ f.counter = q.counter /\ f.gtk = gtk
    <2>1. stage \in {"SentMessage1", "SentMessage3", "Done", "SentGroupMessage1"}
      OBVIOUS
    <2>2. kind \in {"m1", "m2", "m3", "m4", "g1", "g2"}
      OBVIOUS
    <2>3. /\ q \in PeerType /\ q.address = s /\ q.nonce = p.nonce /\ q.wanted = p.wanted
          /\ q.keys = p.keys /\ q.key_slot = p.key_slot /\ q.stage = stage /\ q.counter = n
      <3>1. p \in PeerType /\ p.address = s /\ n \in Nat
        BY <1>3, <1>5
      <3>2. Restaged(p, n, stage) \in PeerType
        BY <2>1, <3>1, PeerRestaged, ZenonT(60)
      <3>3. Restaged(p, n, stage).address = p.address
        BY <2>1, <3>1, PeerRestaged, ZenonT(60)
      <3>4. Restaged(p, n, stage).keys = p.keys
        BY <2>1, <3>1, PeerRestaged, ZenonT(60)
      <3>5. Restaged(p, n, stage).stage = stage
        BY <2>1, <3>1, PeerRestaged, ZenonT(60)
      <3>6. Restaged(p, n, stage).nonce = p.nonce
        BY <2>1, <3>1, PeerRestaged, ZenonT(60)
      <3>7. Restaged(p, n, stage).wanted = p.wanted
        BY <2>1, <3>1, PeerRestaged, ZenonT(60)
      <3>8. Restaged(p, n, stage).key_slot = p.key_slot
        BY <2>1, <3>1, PeerRestaged, ZenonT(60)
      <3>9. Restaged(p, n, stage).counter = n
        BY <2>1, <3>1, PeerRestaged
      <3> QED BY <1>6, <3>1, <3>2, <3>3, <3>4, <3>5, <3>6, <3>7, <3>8, <3>9
    <2>4. /\ f \in EapolFrames
          /\ f.kind = kind /\ f.station = s /\ f.nonce = p.nonce /\ f.counter = n /\ f.gtk = gtk
      BY <1>3, <1>5, <1>7, <2>2 DEF Frame, EapolFrames, PeerType
    <2> QED BY <1>5, <2>3, <2>4
  <1>9. Sent(x, s, stage, kind, fresh, gtk) = [x EXCEPT !.peers[i] = q, !.sent = @ \cup {f}]
    <2>1. SlotOf(x, s) = i /\ Peer(x, s) = p
      BY <1>1, <1>2, ThePeer DEF StationInv
    <2> QED BY <2>1, <1>4, <1>6, <1>7 DEF Sent, Restaged
  <1>10. PICK F : F = {f}
    OBVIOUS
  <1>11. PICK y : y = [x EXCEPT !.peers[i] = q, !.sent = @ \cup F]
    OBVIOUS
  <1>12. /\ y.table = x.table /\ y.pending = x.pending /\ y.gtk = x.gtk
         /\ y.handed = x.handed /\ y.drawn = x.drawn /\ y.sent = x.sent \cup {f}
    BY <1>1, <1>10, <1>11 DEF ApType
  <1>13. /\ p.counter \in Nat /\ q.counter \in Nat /\ q.counter >= p.counter
         /\ fresh => q.counter > p.counter
         /\ ~fresh => q.counter = p.counter
    BY <1>3, <1>8 DEF PeerType
  <1>14. Staged(y, q)
    BY <1>2, <1>3, <1>8, <1>12 DEF PeerInv, Staged, Known
  <1>15. InTheAir(y, q, rep)
    <2>1. \A g \in x.sent \cup rep : g.counter \in Nat
      BY <1>1 DEF ApType, EapolFrames
    <2>2. \A g \in x.sent \cup rep :
            g.station = s /\ g.nonce = q.nonce =>
              g.counter <= q.counter /\ (g.kind \in {"g1", "g2"} => q.key_slot)
      BY <1>3, <1>8, <1>13, <2>1 DEF PeerInv, InTheAir
    <2>3. f.counter <= q.counter /\ (f.kind \in {"g1", "g2"} => q.key_slot)
      BY <1>2, <1>8, <1>13
    <2>4. \A g \in x.sent \cup {f} : g.station = s => g.nonce = q.nonce
      BY <1>3, <1>8 DEF PeerInv, InTheAir
    <2> QED BY <1>8, <1>12, <2>2, <2>3, <2>4 DEF InTheAir
  <1>16. Answered(q, sup, rep) /\ Keyed(q, sup)
    BY <1>3, <1>8 DEF PeerInv, Answered, Keyed
  <1>17. HandedOn(y, q, sup)
    BY <1>2, <1>3, <1>8, <1>12 DEF PeerInv, HandedOn, Staged
  <1>18. stage = "SentGroupMessage1" => Settled(q, sup, rep) \/ Current(y, q, sup, rep)
    <2> SUFFICES ASSUME stage = "SentGroupMessage1"
                 PROVE  Settled(q, sup, rep) \/ Current(y, q, sup, rep)
      OBVIOUS
    <2>1. kind = "g1" /\ x.pending # NONE /\ gtk = x.pending
      OBVIOUS
    <2>2. CASE fresh
      <3>1. \A g \in x.sent \cup rep :
              g.station = s /\ g.nonce = p.nonce => g.counter # q.counter
        <4>1. \A g \in x.sent \cup rep : g.counter \in Nat
          BY <1>1 DEF ApType, EapolFrames
        <4>2. \A g \in x.sent \cup rep :
                g.station = s /\ g.nonce = p.nonce => g.counter <= p.counter
          BY <1>3 DEF PeerInv, InTheAir
        <4>3. q.counter > p.counter
          BY <1>13, <2>2
        <4> QED BY <1>13, <4>1, <4>2, <4>3
      <3>2. \A g \in x.sent : g.station = s => g.counter # q.counter
        BY <1>3, <3>1 DEF PeerInv, InTheAir
      <3>3. Frame("g2", q, q.counter, NONE) \notin rep
        BY <1>8, <3>1 DEF Frame
      <3> QED BY <1>8, <1>12, <2>1, <3>2, <3>3 DEF Current
    <2>3. CASE ~fresh
      <3>1. q.counter = p.counter /\ p.stage = "SentGroupMessage1"
        BY <1>2, <1>3, <1>8, <1>13, <2>3
      <3>2. Frame("g2", q, q.counter, NONE) = Frame("g2", p, p.counter, NONE)
        BY <1>3, <1>8, <3>1 DEF Frame
      <3> QED BY <1>3, <1>8, <1>12, <2>1, <3>1, <3>2 DEF PeerInv, Settled, Current
    <2> QED BY <2>2, <2>3
  <1>19. PeerInv(y, q, sup, rep)
    BY <1>8, <1>14, <1>15, <1>16, <1>17, <1>18 DEF PeerInv
  <1>20. F \in SUBSET EapolFrames /\ \A g \in F : g.station = s /\ g.nonce = q.nonce
    BY <1>8, <1>10
  <1>21. Good(y, sup, rep, T)
    BY <1>2, <1>8, <1>11, <1>19, <1>20, PeerMoves
  <1> QED BY <1>9, <1>10, <1>11, <1>21

-----------------------------------------------------------------------------
(* Stations dropped, and the end of a rotation *)

(* forget keeps the invariant of the access point.                         *)
LEMMA ForgetGood ==
  ASSUME NEW x, NEW sup, NEW rep, NEW T \in SUBSET Stations, Good(x, sup, rep, T),
         NEW gone \in SUBSET Stations
  PROVE  /\ Good(Forget(x, gone), sup, rep, T)
         /\ \A s \in gone : /\ ~Known(Forget(x, gone), s)
                            /\ \A i \in Slots : ~IsOf(Forget(x, gone), i, s)
                            /\ Forget(x, gone).held[s] = 0
  <1>1. x \in ApType
    BY DEF Good, Typed
  <1>2. PICK theirs : theirs = UNION {SlotsOf(x, s) : s \in gone}
    OBVIOUS
  <1>3. PICK left : left = x.left \cup {x.peers[i].address : i \in {j \in theirs : x.peers[j].key_slot}}
    OBVIOUS
  <1>4. PICK due : due = (x.rekey_due \/ {i \in theirs : x.peers[i].key_slot} # {})
    OBVIOUS
  <1>5. PICK y : y = Forget(x, gone)
    OBVIOUS
  <1>6. /\ theirs \subseteq Slots
        /\ \A i \in Slots : i \in theirs <=> \E s \in gone : IsOf(x, i, s)
    BY <1>2 DEF SlotsOf, IsOf
  <1>7. y = [x EXCEPT
        !.peers     = [i \in Slots |-> IF i \in theirs THEN NONE ELSE x.peers[i]],
        !.rekey_due = due,
        !.held      = [s \in Stations |-> IF s \in gone THEN 0 ELSE x.held[s]],
        !.table     = [s \in Stations |-> IF s \in gone THEN NONE ELSE x.table[s]],
        !.left      = left]
    BY <1>2, <1>3, <1>4, <1>5 DEF Forget
  <1>8. left \in SUBSET Stations
    <2>1. \A i \in theirs : x.peers[i].address \in Stations
      BY <1>6 DEF IsOf
    <2> QED BY <1>1, <1>3, <2>1 DEF ApType
  <1>9. due \in BOOLEAN
    BY <1>4
  <1>10. /\ y.peers = [i \in Slots |-> IF i \in theirs THEN NONE ELSE x.peers[i]]
         /\ y.held = [s \in Stations |-> IF s \in gone THEN 0 ELSE x.held[s]]
         /\ y.table = [s \in Stations |-> IF s \in gone THEN NONE ELSE x.table[s]]
         /\ y.pending = x.pending /\ y.gtk = x.gtk /\ y.handed = x.handed
         /\ y.drawn = x.drawn /\ y.sent = x.sent
         /\ x.drawn \in Nat
    BY <1>1, <1>7 DEF ApType
  <1>11. y \in ApType
    <2>1. /\ [i \in Slots |-> IF i \in theirs THEN NONE ELSE x.peers[i]]
               \in [Slots -> PeerType \cup {NONE}]
          /\ [s \in Stations |-> IF s \in gone THEN 0 ELSE x.held[s]] \in [Stations -> Nat]
          /\ [s \in Stations |-> IF s \in gone THEN NONE ELSE x.table[s]]
               \in [Stations -> Entries \cup {NONE}]
      BY <1>1 DEF ApType
    <2> QED BY <1>1, <1>7, <1>8, <1>9, <2>1 DEF ApType
  <1>12. Typed(x, sup, rep) /\ Typed(y, sup, rep)
    BY <1>11 DEF Good, Typed
  <1>13. ASSUME NEW s \in gone
         PROVE  /\ ~Known(y, s) /\ y.held[s] = 0 /\ \A i \in Slots : ~IsOf(y, i, s)
                /\ StationInv(y, s, sup, rep) /\ HeldInv(y, s)
    <2>1. ~Known(y, s) /\ y.held[s] = 0 /\ \A i \in Slots : ~IsOf(y, i, s)
      BY <1>6, <1>10 DEF Known, IsOf
    <2>2. NoncesDrawn(y, s, sup, rep)
      BY <1>10 DEF Good, StationInv, NoncesDrawn
    <2> QED BY <2>1, <2>2 DEF StationInv, EntryInv, HeldInv, Wanted
  <1>14. ASSUME NEW s \in Stations, s \notin gone
         PROVE  StationInv(y, s, sup, rep) /\ (HeldInv(x, s) => HeldInv(y, s))
    <2>1. \A i \in Slots : IsOf(x, i, s) \/ IsOf(y, i, s) => y.peers[i] = x.peers[i]
      BY <1>6, <1>10, <1>14 DEF IsOf
    <2>2. AgreeOn(s, x, sup, rep, y, sup, rep)
      BY <1>10, <1>14, <2>1 DEF AgreeOn
    <2> QED BY <1>12, <2>2, StationKept DEF Good
  <1>15. Good(y, sup, rep, T)
    BY <1>12, <1>13, <1>14 DEF Good
  <1> QED BY <1>5, <1>13, <1>15

(* finish_rekey_if_done keeps it: nobody is waited for when the key turns. *)
LEMMA FinishGood ==
  ASSUME NEW x, NEW sup, NEW rep, NEW T \in SUBSET Stations, Good(x, sup, rep, T)
  PROVE  Good(FinishRekeyIfDone(x), sup, rep, T)
  <1>1. CASE \/ x.pending = NONE
             \/ \E i \in Slots : x.peers[i] # NONE /\ x.peers[i].stage = "SentGroupMessage1"
    BY <1>1 DEF FinishRekeyIfDone
  <1>2. CASE /\ x.pending # NONE
             /\ \A i \in Slots : x.peers[i] # NONE => x.peers[i].stage # "SentGroupMessage1"
    <2>1. PICK y : y = [x EXCEPT !.gtk = x.pending, !.pending = NONE]
      OBVIOUS
    <2>2. x \in ApType
      BY DEF Good, Typed
    <2>3. /\ y \in ApType /\ y.gtk = x.pending /\ y.pending = NONE
          /\ y.peers = x.peers /\ y.table = x.table /\ y.held = x.held /\ y.sent = x.sent
          /\ y.handed = x.handed /\ y.drawn = x.drawn
      BY <1>2, <2>1, <2>2 DEF ApType
    <2>4. ASSUME NEW s \in Stations
          PROVE  StationInv(y, s, sup, rep) /\ (HeldInv(x, s) => HeldInv(y, s))
      <3>1. \A i \in Slots : IsOf(y, i, s) <=> IsOf(x, i, s)
        BY <2>3 DEF IsOf
      <3>2. Wanted(y, s) <=> Wanted(x, s)
        BY <2>3, <3>1 DEF Wanted
      <3>3. StationInv(x, s, sup, rep)
        BY DEF Good
      <3>4. ASSUME NEW i \in Slots, IsOf(x, i, s)
            PROVE  PeerInv(y, x.peers[i], sup, rep)
        <4>1. PICK p : p = x.peers[i]
          OBVIOUS
        <4>2. p.stage # "SentGroupMessage1" /\ PeerInv(x, p, sup, rep)
          BY <1>2, <3>3, <3>4, <4>1 DEF StationInv, IsOf
        <4>3. Staged(y, p) /\ InTheAir(y, p, rep) /\ HandedOn(y, p, sup)
          BY <1>2, <2>3, <4>2 DEF PeerInv, Staged, InTheAir, HandedOn, Known
        <4> QED BY <4>1, <4>2, <4>3 DEF PeerInv
      <3>5. EntryInv(y, s) /\ NoncesDrawn(y, s, sup, rep) /\ (HeldInv(x, s) => HeldInv(y, s))
        BY <2>3, <3>1, <3>2, <3>3 DEF StationInv, EntryInv, NoncesDrawn, HeldInv, Known, Dozing
      <3> QED BY <2>3, <3>1, <3>3, <3>4, <3>5 DEF StationInv
    <2>5. Good(y, sup, rep, T)
      BY <2>3, <2>4 DEF Good, Typed
    <2> QED BY <1>2, <2>1, <2>5 DEF FinishRekeyIfDone
  <1> QED BY <1>1, <1>2

-----------------------------------------------------------------------------
(* Messages sent to one station *)

(* What Good says of a station's peer, for the lemmas below. *)
LEMMA PeerFacts ==
  ASSUME NEW x, NEW sup, NEW rep, NEW T \in SUBSET Stations, Good(x, sup, rep, T),
         NEW s \in Stations
  PROVE  /\ x \in ApType
         /\ \A i, j \in Slots : IsOf(x, i, s) /\ IsOf(x, j, s) => i = j
         /\ HasPeer(x, s) <=> \E i \in Slots : IsOf(x, i, s)
         /\ \A i \in Slots : IsOf(x, i, s) =>
              /\ HasPeer(x, s) /\ SlotOf(x, s) = i /\ Peer(x, s) = x.peers[i]
              /\ Waits(x, s) <=> x.peers[i].wanted
              /\ x.peers[i] \in PeerType
              /\ PeerInv(x, x.peers[i], sup, rep)
  <1>1. x \in ApType /\ StationInv(x, s, sup, rep)
    BY DEF Good, Typed
  <1>2. \A i, j \in Slots : IsOf(x, i, s) /\ IsOf(x, j, s) => i = j
    BY <1>1 DEF StationInv
  <1>3. ASSUME NEW i \in Slots, IsOf(x, i, s)
        PROVE  /\ HasPeer(x, s) /\ SlotOf(x, s) = i /\ Peer(x, s) = x.peers[i]
               /\ Waits(x, s) <=> x.peers[i].wanted
               /\ x.peers[i] \in PeerType
               /\ PeerInv(x, x.peers[i], sup, rep)
    BY <1>1, <1>2, <1>3, ThePeer DEF StationInv, ApType, IsOf
  <1>4. HasPeer(x, s) <=> \E i \in Slots : IsOf(x, i, s)
    BY <1>2, WaitsIsWanted
  <1> QED BY <1>1, <1>2, <1>3, <1>4

(* send_message_1 keeps it.                                                *)
LEMMA Message1Good ==
  ASSUME NEW x, NEW sup, NEW rep, NEW T \in SUBSET Stations, Good(x, sup, rep, T),
         NEW s \in Stations, NEW i \in Slots, IsOf(x, i, s),
         x.peers[i].stage = "SentMessage1", NEW fresh \in BOOLEAN
  PROVE  Good(SendMessage1(x, s, fresh), sup, rep, T)
  <1>1. HasPeer(x, s)
    BY PeerFacts
  <1>2. Good(Sent(x, s, "SentMessage1", "m1", fresh, NONE), sup, rep, T)
    BY SentGood
  <1> QED BY <1>1, <1>2 DEF SendMessage1

(* send_message_3 keeps it.                                                *)
LEMMA Message3Good ==
  ASSUME NEW x, NEW sup, NEW rep, NEW T \in SUBSET Stations, Good(x, sup, rep, T),
         NEW s \in Stations, NEW i \in Slots, IsOf(x, i, s),
         x.peers[i].stage \in {"SentMessage1", "SentMessage3"}, NEW fresh \in BOOLEAN
  PROVE  Good(SendMessage3(x, s, fresh), sup, rep, T)
  <1>1. HasPeer(x, s) /\ Peer(x, s) = x.peers[i] /\ ~x.peers[i].key_slot
    BY PeerFacts DEF PeerInv, Staged
  <1>2. PICK gtk : gtk = IF x.pending # NONE THEN x.pending ELSE x.gtk
    OBVIOUS
  <1>3. gtk \in Nat \cup {NONE}
    BY <1>2, PeerFacts DEF ApType
  <1>4. x.peers[i].keys => Good(Sent(x, s, "SentMessage3", "m3", fresh, gtk), sup, rep, T)
    BY <1>1, <1>3, SentGood
  <1> QED BY <1>1, <1>2, <1>4 DEF SendMessage3

(* transmit_group_message_1 keeps it.                                      *)
LEMMA TransmitGood ==
  ASSUME NEW x, NEW sup, NEW rep, NEW T \in SUBSET Stations, Good(x, sup, rep, T),
         NEW s \in Stations, NEW i \in Slots, IsOf(x, i, s), NEW fresh \in BOOLEAN,
         fresh \/ x.peers[i].stage = "SentGroupMessage1"
  PROVE  Good(TransmitGroupMessage1(x, s, fresh), sup, rep, T)
  <1>1. /\ HasPeer(x, s) /\ SlotOf(x, s) = i /\ Peer(x, s) = x.peers[i]
        /\ x \in ApType /\ x.peers[i] \in PeerType /\ PeerInv(x, x.peers[i], sup, rep)
    BY PeerFacts
  <1>2. CASE x.pending = NONE
    <2>1. x.peers[i].stage # "SentGroupMessage1"
      BY <1>1, <1>2 DEF PeerInv, Staged
    <2>2. [x EXCEPT !.peers[i].stage = IF @ = "SentGroupMessage1" THEN "Done" ELSE @] = x
      BY <1>1, <2>1 DEF ApType, PeerType
    <2> QED BY <1>1, <1>2, <2>2 DEF TransmitGroupMessage1
  <1>3. CASE x.pending # NONE /\ x.peers[i].keys /\ x.peers[i].key_slot
    <2>1. x.pending \in Nat \cup {NONE}
      BY <1>1 DEF ApType
    <2>2. Good(Sent(x, s, "SentGroupMessage1", "g1", fresh, x.pending), sup, rep, T)
      BY <1>3, <2>1, SentGood
    <2> QED BY <1>1, <1>3, <2>2 DEF TransmitGroupMessage1
  <1>4. CASE x.pending # NONE /\ ~(x.peers[i].keys /\ x.peers[i].key_slot)
    BY <1>1, <1>4 DEF TransmitGroupMessage1
  <1> QED BY <1>2, <1>3, <1>4

(* RefreshQueued changes nothing but the station's count. *)
LEMMA RefreshIs ==
  ASSUME NEW x \in ApType, NEW s \in Stations,
         \A i, j \in Slots : IsOf(x, i, s) /\ IsOf(x, j, s) => i = j,
         NEW y, y = RefreshQueued(x, s)
  PROVE  /\ y \in ApType
         /\ y.peers = x.peers /\ y.held = x.held /\ y.sent = x.sent
         /\ y.pending = x.pending /\ y.gtk = x.gtk /\ y.handed = x.handed
         /\ y.drawn = x.drawn
         /\ \A t \in Stations \ {s} : y.table[t] = x.table[t]
         /\ Known(y, s) <=> Known(x, s)
         /\ Known(x, s) =>
              /\ y.table[s].state = x.table[s].state
              /\ y.table[s].power_save = x.table[s].power_save
              /\ y.table[s].queued = x.held[s] + (IF Wanted(x, s) THEN 1 ELSE 0)
  <1>1. Waits(x, s) <=> Wanted(x, s)
    BY WaitsIsWanted
  <1>2. PICK n : n = x.held[s] + (IF Wanted(x, s) THEN 1 ELSE 0)
    OBVIOUS
  <1>3. n \in Nat
    BY <1>2 DEF ApType
  <1>4. CASE Known(x, s)
    <2>1. x.table[s] \in Entries
      BY <1>4 DEF Known, ApType
    <2>2. y = [x EXCEPT !.table[s].queued = n]
      BY <1>1, <1>2, <1>4 DEF RefreshQueued
    <2>3. PICK e : e = [x.table[s] EXCEPT !.queued = n]
      OBVIOUS
    <2>4. /\ e \in Entries /\ e.state = x.table[s].state
          /\ e.power_save = x.table[s].power_save /\ e.queued = n
      BY <1>3, <2>1, <2>3 DEF Entries
    <2>5. y = [x EXCEPT !.table = [x.table EXCEPT ![s] = e]]
      BY <2>2, <2>3
    <2>6. y \in ApType /\ y.table = [x.table EXCEPT ![s] = e]
          /\ y.peers = x.peers /\ y.held = x.held /\ y.sent = x.sent
          /\ y.pending = x.pending /\ y.gtk = x.gtk /\ y.handed = x.handed
          /\ y.drawn = x.drawn
      BY <2>4, <2>5 DEF ApType
    <2>7. y.table[s] = e /\ e # NONE /\ \A t \in Stations \ {s} : y.table[t] = x.table[t]
      BY <2>4, <2>6, NoneAssumption DEF ApType
    <2> QED BY <1>2, <1>4, <2>4, <2>6, <2>7 DEF Known
  <1>5. CASE ~Known(x, s)
    BY <1>5 DEF RefreshQueued
  <1> QED BY <1>4, <1>5

(* A peer that differs in nothing but its timer, its count of resends or   *)
(* whether a message waits, in a state that differs in nothing it reads.   *)
LEMMA PeerSame ==
  ASSUME NEW x, NEW y, NEW sup, NEW rep, NEW p, NEW q, PeerInv(x, p, sup, rep),
         q.address = p.address, q.nonce = p.nonce, q.counter = p.counter,
         q.keys = p.keys, q.key_slot = p.key_slot, q.stage = p.stage,
         y.pending = x.pending, y.gtk = x.gtk, y.handed = x.handed, y.drawn = x.drawn,
         y.sent = x.sent, Known(y, p.address) <=> Known(x, p.address),
         Known(x, p.address) => y.table[p.address].state = x.table[p.address].state
  PROVE  PeerInv(y, q, sup, rep)
  <1>1. Staged(y, q)
    BY DEF PeerInv, Staged
  <1>2. InTheAir(y, q, rep) /\ Answered(q, sup, rep) /\ Keyed(q, sup) /\ HandedOn(y, q, sup)
    BY DEF PeerInv, InTheAir, Answered, Keyed, HandedOn
  <1>3. Frame("g2", q, q.counter, NONE) = Frame("g2", p, p.counter, NONE)
    BY DEF Frame
  <1>4. /\ Settled(q, sup, rep) <=> Settled(p, sup, rep)
        /\ Current(y, q, sup, rep) <=> Current(x, p, sup, rep)
    BY <1>3 DEF Settled, Current
  <1> QED BY <1>1, <1>2, <1>4 DEF PeerInv

(* A change to one station's peer, entry or held frames, and the refresh   *)
(* of its count after it.                                                  *)
LEMMA RefreshedGood ==
  ASSUME NEW x, NEW sup, NEW rep, NEW T \in SUBSET Stations, Good(x, sup, rep, T),
         NEW s \in Stations, NEW U \in SUBSET Stations, U \subseteq T \cup {s},
         NEW z \in ApType,
         \A t \in Stations \ {s} : AgreeOn(t, x, sup, rep, z, sup, rep),
         \A i, j \in Slots : IsOf(z, i, s) /\ IsOf(z, j, s) => i = j,
         \A i \in Slots : IsOf(z, i, s) => PeerInv(z, z.peers[i], sup, rep),
         NoncesDrawn(z, s, sup, rep),
         Known(z, s) =>
           /\ z.table[s].state = "Authenticated" => ~z.table[s].power_save
           /\ z.table[s].state = "Connected" => \E i \in Slots : IsOf(z, i, s),
         s \in U => HeldInv(z, s)
  PROVE  Good(RefreshQueued(z, s), sup, rep, U)
  <1>1. PICK y : y = RefreshQueued(z, s)
    OBVIOUS
  <1>2. /\ y \in ApType
        /\ y.peers = z.peers /\ y.held = z.held /\ y.sent = z.sent
        /\ y.pending = z.pending /\ y.gtk = z.gtk /\ y.handed = z.handed
        /\ y.drawn = z.drawn
        /\ \A t \in Stations \ {s} : y.table[t] = z.table[t]
        /\ Known(y, s) <=> Known(z, s)
        /\ Known(z, s) =>
             /\ y.table[s].state = z.table[s].state
             /\ y.table[s].power_save = z.table[s].power_save
             /\ y.table[s].queued = z.held[s] + (IF Wanted(z, s) THEN 1 ELSE 0)
    BY <1>1, RefreshIs
  <1>3. \A i \in Slots, t \in Stations : IsOf(y, i, t) <=> IsOf(z, i, t)
    BY <1>2 DEF IsOf
  <1>4. Wanted(y, s) <=> Wanted(z, s)
    BY <1>2, <1>3 DEF Wanted
  <1>5. \A t \in Stations \ {s} : AgreeOn(t, x, sup, rep, y, sup, rep)
    BY <1>2, <1>3 DEF AgreeOn
  <1>6. ASSUME NEW i \in Slots, IsOf(y, i, s)
        PROVE  PeerInv(y, y.peers[i], sup, rep)
    <2>1. PICK p : p = y.peers[i]
      OBVIOUS
    <2>2. p = z.peers[i] /\ p.address = s /\ PeerInv(z, p, sup, rep)
      BY <1>2, <1>3, <1>6, <2>1 DEF IsOf
    <2> QED BY <1>2, <2>1, <2>2, PeerSame
  <1>7. EntryInv(y, s) /\ (HeldInv(z, s) => HeldInv(y, s))
    BY <1>2, <1>3, <1>4 DEF EntryInv, HeldInv, Known, Dozing
  <1>8. NoncesDrawn(y, s, sup, rep)
    BY <1>2 DEF NoncesDrawn
  <1>9. StationInv(y, s, sup, rep)
    BY <1>3, <1>6, <1>7, <1>8 DEF StationInv
  <1>10. Typed(y, sup, rep)
    BY <1>2 DEF Good, Typed
  <1>11. Good(y, sup, rep, U)
    BY <1>5, <1>7, <1>9, <1>10, LocalStep
  <1> QED BY <1>1, <1>11

(* A group message begins, or ends, to wait for the station to wake.       *)
LEMMA WantGood ==
  ASSUME NEW x, NEW sup, NEW rep, NEW T \in SUBSET Stations, Good(x, sup, rep, T),
         NEW s \in Stations, NEW i \in Slots, IsOf(x, i, s),
         NEW wanted \in BOOLEAN, wanted => Dozing(x, s),
         NEW q \in PeerType, q.wanted = wanted,
         q.address = s, q.nonce = x.peers[i].nonce, q.counter = x.peers[i].counter,
         q.keys = x.peers[i].keys, q.key_slot = x.peers[i].key_slot,
         q.stage = x.peers[i].stage,
         NEW z, z = [x EXCEPT !.peers[i] = q]
  PROVE  Good(RefreshQueued(z, s), sup, rep, T)
  <1>1. x \in ApType /\ StationInv(x, s, sup, rep)
    BY DEF Good, Typed
  <1>2. /\ z \in ApType /\ z.peers = [x.peers EXCEPT ![i] = q]
        /\ z.table = x.table /\ z.held = x.held /\ z.sent = x.sent
        /\ z.pending = x.pending /\ z.gtk = x.gtk /\ z.handed = x.handed /\ z.drawn = x.drawn
    BY <1>1 DEF ApType
  <1>3. x.drawn \in Nat /\ z.peers[i] = q /\ q # NONE
        /\ \A j \in Slots \ {i} : z.peers[j] = x.peers[j]
    BY <1>1, <1>2, NoneAssumption DEF ApType
  <1>4. \A t \in Stations \ {s} : AgreeOn(t, x, sup, rep, z, sup, rep)
    BY <1>2, <1>3 DEF AgreeOn, IsOf
  <1>5. \A j \in Slots : IsOf(z, j, s) <=> j = i
    BY <1>1, <1>3 DEF StationInv, IsOf
  <1>6. PeerInv(z, q, sup, rep)
    <2>1. PICK p : p = x.peers[i]
      OBVIOUS
    <2>2. p.address = s /\ PeerInv(x, p, sup, rep)
      BY <1>1, <2>1 DEF StationInv, IsOf
    <2>3. /\ Known(z, p.address) <=> Known(x, p.address)
          /\ z.table[p.address].state = x.table[p.address].state
      BY <1>2 DEF Known
    <2>4. /\ q.address = p.address /\ q.nonce = p.nonce /\ q.counter = p.counter
          /\ q.keys = p.keys /\ q.key_slot = p.key_slot /\ q.stage = p.stage
      BY <2>1, <2>2
    <2> QED BY <1>2, <2>2, <2>3, <2>4, PeerSame
  <1>7. NoncesDrawn(z, s, sup, rep)
    BY <1>1, <1>2 DEF StationInv, NoncesDrawn
  <1>8. Known(z, s) =>
           /\ z.table[s].state = "Authenticated" => ~z.table[s].power_save
           /\ z.table[s].state = "Connected" => \E j \in Slots : IsOf(z, j, s)
    BY <1>1, <1>2, <1>5 DEF StationInv, EntryInv, Known
  <1>9. s \in T => HeldInv(z, s)
    <2>1. Wanted(z, s) <=> wanted
      BY <1>3, <1>5 DEF Wanted
    <2>2. Dozing(z, s) <=> Dozing(x, s)
      BY <1>2 DEF Dozing, Known
    <2>3. s \in T => HeldInv(x, s)
      BY DEF Good
    <2> QED BY <1>2, <2>1, <2>2, <2>3 DEF HeldInv
  <1>10. /\ \A j, k \in Slots : IsOf(z, j, s) /\ IsOf(z, k, s) => j = k
         /\ \A j \in Slots : IsOf(z, j, s) => PeerInv(z, z.peers[j], sup, rep)
    BY <1>3, <1>5, <1>6
  <1> QED BY <1>2, <1>4, <1>7, <1>8, <1>9, <1>10, RefreshedGood

(* A group message sent again keeps it.                                    *)
LEMMA GroupResendGood ==
  ASSUME NEW x, NEW sup, NEW rep, NEW T \in SUBSET Stations, Good(x, sup, rep, T),
         NEW s \in Stations, NEW i \in Slots, IsOf(x, i, s),
         x.peers[i].stage = "SentGroupMessage1"
  PROVE  Good(SendGroupMessage1(x, s, FALSE), sup, rep, T)
  <1>1. /\ HasPeer(x, s) /\ SlotOf(x, s) = i /\ x.peers[i] \in PeerType /\ x.peers[i].address = s
    BY PeerFacts DEF IsOf
  <1>2. CASE ~Dozing(x, s)
    BY <1>2, TransmitGood DEF SendGroupMessage1
  <1>3. CASE Dozing(x, s)
    <2>1. PICK q : q = [x.peers[i] EXCEPT !.stage = "SentGroupMessage1", !.wanted = TRUE,
                                          !.timed = FALSE]
      OBVIOUS
    <2>2. /\ q \in PeerType /\ q.wanted = TRUE
          /\ q.address = s /\ q.nonce = x.peers[i].nonce /\ q.counter = x.peers[i].counter
          /\ q.keys = x.peers[i].keys /\ q.key_slot = x.peers[i].key_slot
          /\ q.stage = x.peers[i].stage
      BY <1>1, <2>1, ZenonT(60) DEF PeerType
    <2>3. PICK z : z = [x EXCEPT !.peers[i] = q]
      OBVIOUS
    <2>4. Good(RefreshQueued(z, s), sup, rep, T)
      BY <1>3, <2>2, <2>3, WantGood
    <2>5. SendGroupMessage1(x, s, FALSE) = RefreshQueued(z, s)
      BY <1>1, <1>3, <2>1, <2>3 DEF SendGroupMessage1
    <2> QED BY <2>4, <2>5
  <1> QED BY <1>2, <1>3

(* One peer's turn of resend_due keeps it.                                 *)
LEMMA ResendGood ==
  ASSUME NEW x, NEW sup, NEW rep, Good(x, sup, rep, Stations),
         NEW i \in Slots \cup {0}, i # 0 => MayBeDue(x, i)
  PROVE  Good(ResendDue(x, i), sup, rep, Stations)
  <1>1. CASE i = 0
    BY <1>1 DEF ResendDue
  <1>2. CASE i # 0
    <2>1. i \in Slots /\ x.peers[i] # NONE /\ x.peers[i].stage # "Done" /\ x \in ApType
      BY <1>2 DEF MayBeDue, Good, Typed
    <2>2. PICK s : s = x.peers[i].address
      OBVIOUS
    <2>3. x.peers[i] \in PeerType
      BY <2>1 DEF ApType
    <2>4. s \in Stations /\ IsOf(x, i, s)
      BY <2>1, <2>2, <2>3 DEF PeerType, IsOf
    <2>5. SlotOf(x, s) = i
      BY <2>1, <2>4, PeerFacts
    <2>6. PICK n : n = (x.peers[i].resends + 1) % 256
      OBVIOUS
    <2>7. n \in 0 .. 255
      BY <2>3, <2>6 DEF PeerType
    <2>8. PICK y : y = [x EXCEPT !.peers[i].resends = n]
      OBVIOUS
    <2>9. y = [x EXCEPT !.peers[SlotOf(x, s)].resends = (@ + 1) % 256]
      BY <2>5, <2>6, <2>8
    <2>10. Good(y, sup, rep, Stations)
      BY <2>1, <2>4, <2>7, <2>8, PeerCounted
    <2>11. y.peers[i] = [x.peers[i] EXCEPT !.resends = n]
      BY <2>1, <2>8 DEF ApType
    <2>12. y.peers[i] \in PeerType /\ y.peers[i].stage = x.peers[i].stage
           /\ y.peers[i].address = s
      BY <2>2, <2>3, <2>7, <2>11 DEF PeerType
    <2>13. IsOf(y, i, s)
      BY <2>12, NoneAssumption DEF IsOf
    <2>14. CASE x.peers[i].resends >= HANDSHAKE_RESENDS
      <3>1. Good(Forget(x, {s}), sup, rep, Stations)
        BY <2>4, ForgetGood
      <3> QED BY <1>2, <2>2, <2>14, <3>1, FinishGood DEF ResendDue
    <2>15. CASE ~(x.peers[i].resends >= HANDSHAKE_RESENDS)
      <3>1. CASE x.peers[i].stage = "SentMessage1"
        <4>1. Good(SendMessage1(y, s, FALSE), sup, rep, Stations)
          BY <2>1, <2>4, <2>10, <2>12, <2>13, <3>1, Message1Good
        <4> QED BY <1>2, <2>2, <2>9, <2>15, <3>1, <4>1 DEF ResendDue
      <3>2. CASE x.peers[i].stage = "SentMessage3"
        <4>1. Good(SendMessage3(y, s, FALSE), sup, rep, Stations)
          BY <2>1, <2>4, <2>10, <2>12, <2>13, <3>2, Message3Good
        <4> QED BY <1>2, <2>2, <2>9, <2>15, <3>2, <4>1 DEF ResendDue
      <3>3. CASE x.peers[i].stage = "SentGroupMessage1"
        <4>1. Good(SendGroupMessage1(y, s, FALSE), sup, rep, Stations)
          BY <2>1, <2>4, <2>10, <2>12, <2>13, <3>3, GroupResendGood
        <4> QED BY <1>2, <2>2, <2>9, <2>15, <3>3, <4>1 DEF ResendDue
      <3> QED BY <2>1, <2>3, <3>1, <3>2, <3>3 DEF PeerType
    <2> QED BY <2>14, <2>15
  <1> QED BY <1>1, <1>2

-----------------------------------------------------------------------------
(* The start of a rotation *)

(* With one peer to a station, the loop comes once to each connected one.  *)
LEMMA TurnsIs ==
  ASSUME NEW x, NEW sup, NEW rep, Good(x, sup, rep, Stations), NEW i \in Slots
  PROVE  Turns(x, i) = IF i \in Connected(x) THEN 1 ELSE 0
  <1>1. CASE x.peers[i] = NONE
    BY <1>1 DEF Turns, Connected
  <1>2. CASE x.peers[i] # NONE
    <2>1. PICK s : s = x.peers[i].address
      OBVIOUS
    <2>2. s \in Stations /\ IsOf(x, i, s)
      BY <1>2, <2>1 DEF Good, Typed, ApType, PeerType, IsOf
    <2>3. SlotOf(x, s) = i /\ \A j \in Slots : IsOf(x, j, s) => j = i
      BY <2>2, PeerFacts
    <2>4. {j \in Connected(x) : x.peers[j].address = s}
            = IF i \in Connected(x) THEN {i} ELSE {}
      BY <2>1, <2>3 DEF Connected, IsOf
    <2>5. Cardinality({i}) = 1 /\ Cardinality({}) = 0
      BY FS_Singleton, FS_EmptySet
    <2>6. Turns(x, i) = Cardinality({j \in Connected(x) : x.peers[j].address = s})
      BY <1>2, <2>1, <2>3 DEF Turns
    <2> QED BY <2>4, <2>5, <2>6
  <1> QED BY <1>1, <1>2

(* What the loop leaves: in a connected station's peer and in the air. *)
RekeyPeer(x, i) ==
  IF i \in Connected(x) THEN HandedTo(x, i) ELSE x.peers[i]

RekeyFrames(x) ==
  {Frame("g1", x.peers[i], x.peers[i].counter + 1, x.newest + 1) :
     i \in {j \in Connected(x) : ~Dozing(x, x.peers[j].address)}}

(* begin_rekey, read off peer by peer, with one peer for each station.     *)
LEMMA BeginRekeyIs ==
  ASSUME NEW x, NEW sup, NEW rep, Good(x, sup, rep, Stations), x.pending = NONE
  PROVE  BeginRekey(x) = FinishRekeyIfDone(
           [x EXCEPT
             !.rekey_due = FALSE, !.newest = @ + 1, !.pending = x.newest + 1,
             !.handed = {<<x.peers[i].address, x.peers[i].nonce>> : i \in Connected(x)},
             !.peers = [i \in Slots |-> RekeyPeer(x, i)],
             !.table = [s \in Stations |->
                          IF Dozing(x, s) /\ \E i \in Connected(x) : x.peers[i].address = s
                          THEN [x.table[s] EXCEPT !.queued = x.held[s] + 1] ELSE x.table[s]],
             !.sent = @ \cup RekeyFrames(x)])
  <1>1. {i \in Slots : Turns(x, i) > 0} = Connected(x)
    BY TurnsIs DEF Connected
  <1>2. \A i \in Connected(x) : Turns(x, i) = 1 /\ x.peers[i].keys /\ x.peers[i].key_slot
    <2> SUFFICES ASSUME NEW i \in Connected(x)
                 PROVE  Turns(x, i) = 1 /\ x.peers[i].keys /\ x.peers[i].key_slot
      OBVIOUS
    <2>1. i \in Slots /\ x.peers[i] # NONE /\ x.peers[i].stage = "Done"
      BY DEF Connected
    <2>2. x.peers[i] \in PeerType
      BY <2>1 DEF Good, Typed, ApType
    <2>3. PeerInv(x, x.peers[i], sup, rep)
      BY <2>1, <2>2 DEF Good, StationInv, IsOf, PeerType
    <2> QED BY <2>1, <2>3, TurnsIs DEF PeerInv, Staged
  <1>3. {i \in Connected(x) : /\ ~Dozing(x, x.peers[i].address)
                              /\ x.peers[i].keys
                              /\ x.peers[i].key_slot}
          = {j \in Connected(x) : ~Dozing(x, x.peers[j].address)}
    BY <1>2
  <1>4. UNION {{Frame("g1", x.peers[i], x.peers[i].counter + n, x.newest + 1) :
                  n \in 1 .. Turns(x, i)} :
                 i \in {j \in Connected(x) : ~Dozing(x, x.peers[j].address)}}
          = RekeyFrames(x)
    <2>1. \A i \in Connected(x) :
            {Frame("g1", x.peers[i], x.peers[i].counter + n, x.newest + 1) : n \in 1 .. Turns(x, i)}
              = {Frame("g1", x.peers[i], x.peers[i].counter + 1, x.newest + 1)}
      <3>1. 1 .. 1 = {1}
        OBVIOUS
      <3> QED BY <1>2, <3>1
    <2> QED BY <2>1 DEF RekeyFrames
  <1> QED BY <1>1, <1>3, <1>4 DEF BeginRekey, RekeyPeer

(* begin_rekey keeps it.                                                   *)
LEMMA RekeyGood ==
  ASSUME NEW x, NEW sup, NEW rep, Good(x, sup, rep, Stations)
  PROVE  Good(BeginRekey(x), sup, rep, Stations)
  <1>0. x \in ApType /\ sup \in Supplicants /\ rep \subseteq EapolFrames
    BY DEF Good, Typed
  <1>1. CASE x.pending # NONE
    <2>1. PICK y : y = [x EXCEPT !.rekey_due = FALSE]
      OBVIOUS
    <2>2. /\ y \in ApType
          /\ y.peers = x.peers /\ y.table = x.table /\ y.held = x.held /\ y.sent = x.sent
          /\ y.pending = x.pending /\ y.gtk = x.gtk /\ y.handed = x.handed
          /\ y.drawn = x.drawn /\ x.drawn \in Nat
      BY <1>0, <2>1 DEF ApType
    <2>3. \A s \in Stations : AgreeOn(s, x, sup, rep, y, sup, rep)
      BY <2>2 DEF AgreeOn
    <2>4. Typed(y, sup, rep)
      BY <1>0, <2>2 DEF Typed
    <2>5. Good(y, sup, rep, Stations)
      BY <2>3, <2>4, StationKept DEF Good
    <2> QED BY <1>1, <2>1, <2>5 DEF BeginRekey
  <1>2. CASE x.pending = NONE
    <2>1. PICK handed : handed = {<<x.peers[i].address, x.peers[i].nonce>> : i \in Connected(x)}
      OBVIOUS
    <2>2. PICK peers : peers = [i \in Slots |-> RekeyPeer(x, i)]
      OBVIOUS
    <2>3. PICK table : table = [s \in Stations |->
                          IF Dozing(x, s) /\ \E i \in Connected(x) : x.peers[i].address = s
                          THEN [x.table[s] EXCEPT !.queued = x.held[s] + 1] ELSE x.table[s]]
      OBVIOUS
    <2>4. PICK key : key = x.newest + 1
      OBVIOUS
    <2>5. PICK z : z = [x EXCEPT
             !.rekey_due = FALSE, !.newest = @ + 1, !.pending = key,
             !.handed = handed, !.peers = peers, !.table = table,
             !.sent = @ \cup RekeyFrames(x)]
      OBVIOUS
    <2>6. BeginRekey(x) = FinishRekeyIfDone(z)
      BY <1>2, <2>1, <2>2, <2>3, <2>4, <2>5, BeginRekeyIs
    <2>7. \A i \in Connected(x) : /\ i \in Slots /\ x.peers[i] # NONE
                                  /\ x.peers[i] \in PeerType /\ x.peers[i].stage = "Done"
                                  /\ PeerInv(x, x.peers[i], sup, rep)
      <3> SUFFICES ASSUME NEW i \in Connected(x)
                   PROVE  /\ i \in Slots /\ x.peers[i] # NONE
                          /\ x.peers[i] \in PeerType /\ x.peers[i].stage = "Done"
                          /\ PeerInv(x, x.peers[i], sup, rep)
        OBVIOUS
      <3>1. i \in Slots /\ x.peers[i] # NONE /\ x.peers[i].stage = "Done"
        BY DEF Connected
      <3>2. x.peers[i] \in PeerType
        BY <1>0, <3>1 DEF ApType
      <3>3. PeerInv(x, x.peers[i], sup, rep)
        BY <3>1, <3>2 DEF Good, StationInv, IsOf, PeerType
      <3> QED BY <3>1, <3>2, <3>3
    (* A connected peer after its turn. *)
    <2>8. ASSUME NEW i \in Connected(x)
          PROVE  \E q \in PeerType :
                   /\ peers[i] = q /\ q.address = x.peers[i].address
                   /\ q.nonce = x.peers[i].nonce /\ q.stage = "SentGroupMessage1"
                   /\ q.keys = x.peers[i].keys /\ q.key_slot = x.peers[i].key_slot
                   /\ q.counter = x.peers[i].counter
                                    + (IF Dozing(x, x.peers[i].address) THEN 0 ELSE 1)
                   /\ q.wanted <=> (x.peers[i].wanted \/ Dozing(x, x.peers[i].address))
      <3>1. PICK p : p = x.peers[i]
        OBVIOUS
      <3>2. p \in PeerType /\ i \in Slots
        BY <2>7, <3>1
      <3>20. p.keys /\ p.key_slot
        BY <2>7, <3>1 DEF PeerInv, Staged
      <3>3. PICK r : r = [p EXCEPT !.resends = 0]
        OBVIOUS
      <3>4. /\ r \in PeerType /\ r.address = p.address /\ r.nonce = p.nonce
            /\ r.counter = p.counter /\ r.keys = p.keys /\ r.key_slot = p.key_slot
            /\ r.wanted = p.wanted
        BY <3>2, <3>3 DEF PeerType
      <3>5. Turns(x, i) = 1
        BY <3>2, TurnsIs
      <3>6. peers[i] = HandedTo(x, i)
        BY <2>2, <3>2 DEF RekeyPeer
      <3>7. CASE Dozing(x, p.address)
        <4>1. PICK q : q = [r EXCEPT !.stage = "SentGroupMessage1", !.wanted = TRUE, !.timed = FALSE]
          OBVIOUS
        <4>2. /\ q \in PeerType /\ q.address = p.address /\ q.nonce = p.nonce
              /\ q.stage = "SentGroupMessage1" /\ q.keys = p.keys /\ q.key_slot = p.key_slot
              /\ q.counter = p.counter + 0 /\ q.wanted = TRUE
          <5>1. r \in PeerType /\ p.counter \in Nat
            BY <3>2, <3>4 DEF PeerType
          <5>2. /\ q \in PeerType /\ q.address = r.address /\ q.nonce = r.nonce
                /\ q.stage = "SentGroupMessage1" /\ q.keys = r.keys
                /\ q.key_slot = r.key_slot /\ q.counter = r.counter /\ q.wanted = TRUE
            BY <4>1, <5>1 DEF PeerType
          <5> QED BY <3>4, <5>1, <5>2
        <4>3. peers[i] = q
          BY <3>1, <3>3, <3>4, <3>6, <3>7, <4>1 DEF HandedTo
        <4> QED BY <3>1, <3>7, <4>2, <4>3
      <3>8. CASE ~Dozing(x, p.address)
        <4>1. PICK q : q = [r EXCEPT !.stage = "SentGroupMessage1", !.timed = TRUE,
                                     !.counter = @ + 1]
          OBVIOUS
        <4>2. /\ q \in PeerType /\ q.address = p.address /\ q.nonce = p.nonce
              /\ q.stage = "SentGroupMessage1" /\ q.keys = p.keys /\ q.key_slot = p.key_slot
              /\ q.counter = p.counter + 1 /\ q.wanted = p.wanted
          <5>1. r \in PeerType /\ r.counter + 1 \in Nat
            BY <3>4 DEF PeerType
          <5>2. /\ q \in PeerType /\ q.address = r.address /\ q.nonce = r.nonce
                /\ q.stage = "SentGroupMessage1" /\ q.keys = r.keys
                /\ q.key_slot = r.key_slot /\ q.counter = r.counter + 1 /\ q.wanted = r.wanted
            BY <4>1, <5>1 DEF PeerType
          <5> QED BY <3>4, <5>2
        <4>3. peers[i] = q
          BY <3>1, <3>20, <3>3, <3>4, <3>5, <3>6, <3>8, <4>1 DEF HandedTo
        <4> QED BY <3>1, <3>8, <4>2, <4>3
      <3> QED BY <3>7, <3>8
    <2>9. /\ \A i \in Slots \ Connected(x) : peers[i] = x.peers[i]
          /\ peers \in [Slots -> PeerType \cup {NONE}]
      <3>1. \A i \in Slots \ Connected(x) : peers[i] = x.peers[i]
        BY <2>2 DEF RekeyPeer
      <3>2. \A i \in Slots : peers[i] \in PeerType \cup {NONE}
        BY <1>0, <2>8, <3>1 DEF ApType
      <3>3. peers = [i \in Slots |-> peers[i]]
        BY <2>2
      <3> QED BY <3>1, <3>2, <3>3
    <2>10. RekeyFrames(x) \subseteq EapolFrames
      <3> SUFFICES ASSUME NEW i \in Connected(x)
                   PROVE  Frame("g1", x.peers[i], x.peers[i].counter + 1, x.newest + 1) \in EapolFrames
        BY DEF RekeyFrames
      <3>1. x.newest + 1 \in Nat
        BY <1>0 DEF ApType
      <3> QED BY <2>7, <3>1 DEF Frame, EapolFrames, PeerType
    <2>11. handed \in SUBSET (Stations \X Nat)
      <3>1. \A i \in Connected(x) : x.peers[i].address \in Stations /\ x.peers[i].nonce \in Nat
        BY <2>7 DEF PeerType
      <3> QED BY <2>1, <3>1
    <2>12. table \in [Stations -> Entries \cup {NONE}]
      <3> SUFFICES ASSUME NEW s \in Stations
                   PROVE  Dozing(x, s) => [x.table[s] EXCEPT !.queued = x.held[s] + 1] \in Entries
        BY <1>0, <2>3 DEF ApType
      <3>1. x.held[s] + 1 \in Nat /\ (Dozing(x, s) => x.table[s] \in Entries)
        BY <1>0 DEF ApType, Dozing, Known
      <3> QED BY <3>1 DEF Entries
    <2>13. key \in Nat /\ key # NONE
      BY <1>0, <2>4, AccessPointAssumption DEF ApType
    <2>140. z \in ApType
      <3>1. x.newest + 1 \in Nat /\ x.sent \cup RekeyFrames(x) \in SUBSET EapolFrames
        BY <1>0, <2>10 DEF ApType
      <3> QED BY <1>0, <2>5, <2>9, <2>11, <2>12, <2>13, <3>1 DEF ApType
    <2>14. /\ z.pending = key /\ z.handed = handed /\ z.peers = peers
           /\ z.table = table /\ z.sent = x.sent \cup RekeyFrames(x) /\ z.drawn = x.drawn
           /\ z.held = x.held /\ z.gtk = x.gtk /\ x.drawn \in Nat
      BY <1>0, <2>5 DEF ApType
    <2>15. ASSUME NEW s \in Stations
           PROVE  StationInv(z, s, sup, rep) /\ HeldInv(z, s)
      <3>1. StationInv(x, s, sup, rep) /\ HeldInv(x, s)
        BY DEF Good
      <3>2. \A i \in Slots : IsOf(z, i, s) <=> IsOf(x, i, s)
        <4> SUFFICES ASSUME NEW i \in Slots PROVE IsOf(z, i, s) <=> IsOf(x, i, s)
          OBVIOUS
        <4>1. CASE i \in Connected(x)
          BY <2>7, <2>8, <2>14, <4>1, NoneAssumption DEF IsOf
        <4>2. CASE i \notin Connected(x)
          BY <2>9, <2>14, <4>2 DEF IsOf
        <4> QED BY <4>1, <4>2
      <3>3. \A i, j \in Slots : IsOf(z, i, s) /\ IsOf(z, j, s) => i = j
        BY <3>1, <3>2 DEF StationInv
      <3>4. \A f \in RekeyFrames(x) : \E j \in Connected(x) :
              /\ f.kind = "g1" /\ f.station = x.peers[j].address /\ f.nonce = x.peers[j].nonce
              /\ f.counter = x.peers[j].counter + 1 /\ f.gtk = key
              /\ ~Dozing(x, x.peers[j].address)
        BY <2>4 DEF RekeyFrames, Frame
      <3>5. CASE \E i \in Connected(x) : x.peers[i].address = s
        <4>1. PICK i \in Connected(x) : x.peers[i].address = s
          BY <3>5
        <4>2. PICK p : p = x.peers[i]
          OBVIOUS
        <4>3. /\ i \in Slots /\ p \in PeerType /\ p.address = s /\ p.stage = "Done"
              /\ PeerInv(x, p, sup, rep) /\ IsOf(x, i, s)
          BY <2>7, <4>1, <4>2 DEF IsOf
        <4>4. PICK q \in PeerType :
                   /\ peers[i] = q /\ q.address = p.address
                   /\ q.nonce = p.nonce /\ q.stage = "SentGroupMessage1"
                   /\ q.keys = p.keys /\ q.key_slot = p.key_slot
                   /\ q.counter = p.counter + (IF Dozing(x, p.address) THEN 0 ELSE 1)
                   /\ q.wanted <=> (p.wanted \/ Dozing(x, p.address))
          BY <2>8, <4>2
        <4>5. \A j \in Slots : IsOf(z, j, s) <=> j = i
          BY <3>1, <3>2, <4>3 DEF StationInv
        <4>6. \A f \in RekeyFrames(x) : f.station = s =>
                /\ ~Dozing(x, s) /\ f.nonce = p.nonce /\ f.counter = p.counter + 1
                /\ f.gtk = key /\ f.kind = "g1"
          <5> SUFFICES ASSUME NEW f \in RekeyFrames(x), f.station = s
                       PROVE  /\ ~Dozing(x, s) /\ f.nonce = p.nonce
                              /\ f.counter = p.counter + 1
                              /\ f.gtk = key /\ f.kind = "g1"
            OBVIOUS
          <5>1. PICK j \in Connected(x) :
                  /\ f.kind = "g1" /\ f.station = x.peers[j].address /\ f.nonce = x.peers[j].nonce
                  /\ f.counter = x.peers[j].counter + 1 /\ f.gtk = key
                  /\ ~Dozing(x, x.peers[j].address)
            BY <3>4
          <5>2. IsOf(x, j, s) /\ j \in Slots
            BY <2>7, <5>1 DEF IsOf
          <5>3. j = i
            BY <3>1, <4>3, <5>2 DEF StationInv
          <5> QED BY <4>2, <4>3, <5>1, <5>3
        <4>7. /\ Known(x, s) /\ Known(z, s)
              /\ z.table[s].state = x.table[s].state
              /\ z.table[s].power_save = x.table[s].power_save
              /\ z.table[s].queued = IF Dozing(x, s) THEN x.held[s] + 1 ELSE x.table[s].queued
          <5>1. Known(x, s)
            BY <4>3 DEF PeerInv, Staged
          <5>2. x.table[s] \in Entries
            BY <1>0, <5>1 DEF Known, ApType
          <5>3. z.table[s] = IF Dozing(x, s) THEN [x.table[s] EXCEPT !.queued = x.held[s] + 1]
                             ELSE x.table[s]
            BY <2>3, <2>14, <3>5
          <5>4. [x.table[s] EXCEPT !.queued = x.held[s] + 1] \in Entries
            <6>1. x.held[s] + 1 \in Nat
              BY <1>0 DEF ApType
            <6> QED BY <5>2, <6>1 DEF Entries
          <5> QED BY <5>1, <5>2, <5>3, <5>4, NoneAssumption DEF Known, Entries
        <4>8. Dozing(z, s) <=> Dozing(x, s)
          BY <4>7 DEF Dozing
        <4>9. Wanted(z, s) <=> (Wanted(x, s) \/ Dozing(x, s))
          <5>1. \A j \in Slots : IsOf(x, j, s) <=> j = i
            BY <3>2, <4>5
          <5>2. Wanted(x, s) <=> p.wanted
            BY <4>2, <4>3, <5>1 DEF Wanted
          <5>3. Wanted(z, s) <=> q.wanted
            BY <2>14, <4>3, <4>4, <4>5 DEF Wanted
          <5> QED BY <4>3, <4>4, <5>2, <5>3
        <4>10. p.counter \in Nat /\ q.counter \in Nat /\ q.counter >= p.counter
          BY <4>3, <4>4 DEF PeerType
        <4>11. p.keys /\ p.key_slot /\ Settled(p, sup, rep)
          BY <4>3 DEF PeerInv, Staged
        <4>12. Staged(z, q)
          BY <2>13, <2>14, <4>3, <4>4, <4>7, <4>11 DEF PeerInv, Staged
        <4>13. InTheAir(z, q, rep)
          <5>1. \A f \in x.sent \cup rep : f.counter \in Nat
            BY <1>0 DEF ApType, EapolFrames
          <5>2. \A f \in x.sent \cup rep :
                  f.station = s /\ f.nonce = p.nonce => f.counter <= q.counter
            BY <4>3, <4>10, <5>1 DEF PeerInv, InTheAir
          <5>3. \A f \in RekeyFrames(x) : f.station = s => f.counter <= q.counter
            BY <4>3, <4>4, <4>6, <4>10
          <5>4. \A f \in x.sent \cup RekeyFrames(x) : f.station = s => f.nonce = q.nonce
            BY <4>3, <4>4, <4>6 DEF PeerInv, InTheAir
          <5> QED BY <2>14, <4>3, <4>4, <4>11, <5>2, <5>3, <5>4 DEF InTheAir
        <4>14. Answered(q, sup, rep) /\ Keyed(q, sup)
          BY <4>3, <4>4 DEF PeerInv, Answered, Keyed
        <4>15. HandedOn(z, q, sup)
          BY <2>13, <2>14, <4>4, <4>11 DEF HandedOn
        <4>16. Settled(q, sup, rep) \/ Current(z, q, sup, rep)
          <5>1. CASE Dozing(x, s)
            <6>1. q.counter = p.counter
              BY <4>3, <4>4, <4>10, <5>1
            <6> QED BY <4>4, <4>11, <6>1 DEF Settled, Frame
          <5>2. CASE ~Dozing(x, s)
            <6>1. q.counter = p.counter + 1
              BY <4>3, <4>4, <5>2
            <6>2. \A f \in x.sent \cup rep :
                    f.station = s /\ f.nonce = p.nonce => f.counter # q.counter
              <7>1. \A f \in x.sent \cup rep : f.counter \in Nat
                BY <1>0 DEF ApType, EapolFrames
              <7>2. \A f \in x.sent \cup rep :
                      f.station = s /\ f.nonce = p.nonce => f.counter <= p.counter
                BY <4>3 DEF PeerInv, InTheAir
              <7> QED BY <4>10, <6>1, <7>1, <7>2
            <6>3. \A f \in x.sent : f.station = s => f.counter # q.counter
              BY <4>3, <6>2 DEF PeerInv, InTheAir
            <6>4. Frame("g2", q, q.counter, NONE) \notin rep
              BY <4>3, <4>4, <6>2 DEF Frame
            <6> QED BY <2>13, <2>14, <4>3, <4>4, <4>6, <6>3, <6>4 DEF Current
          <5> QED BY <5>1, <5>2
        <4>17. PeerInv(z, q, sup, rep)
          BY <4>4, <4>12, <4>13, <4>14, <4>15, <4>16 DEF PeerInv
        <4>18. EntryInv(z, s) /\ HeldInv(z, s)
          <5>1. EntryInv(x, s)
            BY <3>1 DEF StationInv
          <5>2. x.held[s] \in Nat
            BY <1>0 DEF ApType
          <5>3. z.table[s].queued = z.held[s] + (IF Wanted(z, s) THEN 1 ELSE 0)
            BY <2>14, <4>7, <4>9, <5>1, <5>2 DEF EntryInv
          <5>4. z.table[s].state # "Authenticated"
            BY <4>3, <4>7 DEF PeerInv, Staged
          <5>5. HeldInv(z, s)
            BY <2>14, <3>1, <4>8, <4>9 DEF HeldInv
          <5> QED BY <4>3, <4>5, <5>3, <5>4, <5>5 DEF EntryInv
        <4>19. NoncesDrawn(z, s, sup, rep)
          <5>1. p.nonce <= x.drawn
            BY <4>3 DEF PeerInv, Staged
          <5>2. \A h \in handed : h[1] = s => h[2] = p.nonce
            <6> SUFFICES ASSUME NEW j \in Connected(x), x.peers[j].address = s
                         PROVE  x.peers[j].nonce = p.nonce
              BY <2>1
            <6>1. IsOf(x, j, s) /\ j \in Slots
              BY <2>7 DEF IsOf
            <6> QED BY <3>1, <4>2, <4>3, <6>1 DEF StationInv
          <5> QED BY <2>14, <3>1, <4>6, <5>1, <5>2 DEF StationInv, NoncesDrawn
        <4> QED BY <2>14, <3>3, <4>4, <4>5, <4>17, <4>18, <4>19 DEF StationInv
      <3>6. CASE ~\E i \in Connected(x) : x.peers[i].address = s
        <4>1. \A f \in RekeyFrames(x) : f.station # s
          BY <3>4, <3>6
        <4>2. \A h \in handed : h[1] # s
          BY <2>1, <3>6
        <4>3. z.table[s] = x.table[s]
          BY <2>3, <2>14, <3>6
        <4>4. \A i \in Slots : IsOf(x, i, s) => z.peers[i] = x.peers[i]
          BY <2>9, <2>14, <3>6 DEF IsOf
        <4>5. Wanted(z, s) <=> Wanted(x, s)
          BY <3>2, <4>4 DEF Wanted
        <4>6. ASSUME NEW i \in Slots, IsOf(z, i, s)
              PROVE  PeerInv(z, z.peers[i], sup, rep)
          <5>1. PICK p : p = x.peers[i]
            OBVIOUS
          <5>2. p.address = s /\ PeerInv(x, p, sup, rep) /\ z.peers[i] = p /\ IsOf(x, i, s)
            BY <3>1, <3>2, <4>4, <4>6, <5>1 DEF StationInv, IsOf
          <5>3. p.stage # "Done"
            BY <3>6, <5>1, <5>2 DEF Connected, IsOf
          <5>4. p.stage # "SentGroupMessage1"
            BY <1>2, <5>2 DEF PeerInv, Staged
          <5>5. Staged(z, p)
            BY <2>14, <4>3, <5>2, <5>4 DEF PeerInv, Staged, Known
          <5>6. InTheAir(z, p, rep) /\ Answered(p, sup, rep) /\ Keyed(p, sup)
            BY <2>14, <4>1, <5>2 DEF PeerInv, InTheAir
          <5>7. HandedOn(z, p, sup)
            BY <2>14, <4>2, <5>2 DEF HandedOn
          <5> QED BY <5>2, <5>3, <5>4, <5>5, <5>6, <5>7 DEF PeerInv
        <4>7. EntryInv(z, s) /\ HeldInv(z, s)
          BY <2>14, <3>1, <3>2, <4>3, <4>5 DEF StationInv, EntryInv, HeldInv, Known, Dozing
        <4>8. NoncesDrawn(z, s, sup, rep)
          BY <2>14, <3>1, <4>1, <4>2 DEF StationInv, NoncesDrawn
        <4> QED BY <3>3, <4>6, <4>7, <4>8 DEF StationInv
      <3> QED BY <3>5, <3>6
    <2>16. Good(z, sup, rep, Stations)
      BY <1>0, <2>140, <2>15 DEF Good, Typed
    <2> QED BY <2>6, <2>16, FinishGood
  <1> QED BY <1>1, <1>2

-----------------------------------------------------------------------------
(* Frames held, a station that wakes, and one that dozes off *)

(* The frames held for a station change, and its count with them.          *)
LEMMA HeldGood ==
  ASSUME NEW x, NEW sup, NEW rep, NEW T \in SUBSET Stations, Good(x, sup, rep, T),
         NEW s \in Stations, NEW n \in Nat,
         NEW U \in SUBSET Stations, U \subseteq T \cup {s},
         s \in U => (n > 0 \/ Wanted(x, s) => Dozing(x, s))
  PROVE  /\ Good(RefreshQueued([x EXCEPT !.held[s] = n], s), sup, rep, U)
         /\ \A i \in Slots : IsOf(RefreshQueued([x EXCEPT !.held[s] = n], s), i, s)
                               <=> IsOf(x, i, s)
  <1>1. x \in ApType /\ StationInv(x, s, sup, rep)
    BY DEF Good, Typed
  <1>2. PICK z : z = [x EXCEPT !.held[s] = n]
    OBVIOUS
  <1>3. /\ z \in ApType /\ z.held = [x.held EXCEPT ![s] = n]
        /\ z.table = x.table /\ z.peers = x.peers /\ z.sent = x.sent
        /\ z.pending = x.pending /\ z.gtk = x.gtk /\ z.handed = x.handed /\ z.drawn = x.drawn
    BY <1>1, <1>2 DEF ApType
  <1>4. x.drawn \in Nat /\ z.held[s] = n /\ \A t \in Stations \ {s} : z.held[t] = x.held[t]
    BY <1>1, <1>3 DEF ApType
  <1>5. \A i \in Slots, t \in Stations : IsOf(z, i, t) <=> IsOf(x, i, t)
    BY <1>3 DEF IsOf
  <1>6. \A t \in Stations \ {s} : AgreeOn(t, x, sup, rep, z, sup, rep)
    BY <1>3, <1>4 DEF AgreeOn
  <1>7. /\ \A i, j \in Slots : IsOf(z, i, s) /\ IsOf(z, j, s) => i = j
        /\ NoncesDrawn(z, s, sup, rep)
        /\ Known(z, s) =>
             /\ z.table[s].state = "Authenticated" => ~z.table[s].power_save
             /\ z.table[s].state = "Connected" => \E i \in Slots : IsOf(z, i, s)
    BY <1>1, <1>3, <1>5 DEF StationInv, NoncesDrawn, EntryInv, Known
  <1>8. ASSUME NEW i \in Slots, IsOf(z, i, s)
        PROVE  PeerInv(z, z.peers[i], sup, rep)
    <2>1. PICK p : p = z.peers[i]
      OBVIOUS
    <2>2. p.address = s /\ PeerInv(x, p, sup, rep)
      BY <1>1, <1>3, <1>5, <1>8, <2>1 DEF StationInv, IsOf
    <2>3. Known(z, s) <=> Known(x, s)
      BY <1>3 DEF Known
    <2> QED BY <1>3, <2>1, <2>2, <2>3, PeerSame
  <1>9. s \in U => HeldInv(z, s)
    BY <1>3, <1>4, <1>5 DEF HeldInv, Wanted, Dozing, Known
  <1>10. Good(RefreshQueued(z, s), sup, rep, U)
    BY <1>3, <1>6, <1>7, <1>8, <1>9, RefreshedGood
  <1>11. RefreshQueued(z, s).peers = z.peers
    BY <1>3, <1>7, RefreshIs
  <1> QED BY <1>2, <1>3, <1>10, <1>11 DEF IsOf

(* Sending the group message keeps what is held, and whether one waits.    *)
LEMMA TransmitKeeps ==
  ASSUME NEW x, NEW sup, NEW rep, NEW T \in SUBSET Stations, Good(x, sup, rep, T),
         NEW s \in Stations, NEW i \in Slots, IsOf(x, i, s),
         NEW y, y = TransmitGroupMessage1(x, s, TRUE)
  PROVE  /\ y.held = x.held
         /\ \A j \in Slots : IsOf(y, j, s) <=> IsOf(x, j, s)
         /\ Wanted(y, s) <=> Wanted(x, s)
  <1>1. /\ HasPeer(x, s) /\ SlotOf(x, s) = i /\ Peer(x, s) = x.peers[i] /\ x \in ApType
        /\ x.peers[i] \in PeerType /\ x.peers[i].address = s
        /\ \A j \in Slots : IsOf(x, j, s) => j = i
    BY PeerFacts DEF IsOf
  <1>2. ASSUME NEW q \in PeerType, q.address = s, q.wanted = x.peers[i].wanted,
               y.peers = [x.peers EXCEPT ![i] = q], y.held = x.held
        PROVE  /\ \A j \in Slots : IsOf(y, j, s) <=> IsOf(x, j, s)
               /\ Wanted(y, s) <=> Wanted(x, s)
    <2>1. y.peers[i] = q /\ q # NONE /\ \A j \in Slots \ {i} : y.peers[j] = x.peers[j]
      BY <1>1, <1>2, NoneAssumption DEF ApType
    <2>2. \A j \in Slots : IsOf(y, j, s) <=> IsOf(x, j, s)
      BY <1>2, <2>1 DEF IsOf
    <2> QED BY <1>1, <1>2, <2>1, <2>2 DEF Wanted
  <1>3. CASE x.pending = NONE
    <2>1. x.peers[i].stage # "SentGroupMessage1"
      BY <1>3, PeerFacts DEF PeerInv, Staged
    <2>2. [x EXCEPT !.peers[i].stage = IF @ = "SentGroupMessage1" THEN "Done" ELSE @] = x
      BY <1>1, <2>1 DEF ApType, PeerType
    <2> QED BY <1>1, <1>3, <2>2 DEF TransmitGroupMessage1
  <1>4. CASE x.pending # NONE /\ x.peers[i].keys /\ x.peers[i].key_slot
    <2>1. PICK n : n = x.peers[i].counter + 1
      OBVIOUS
    <2>2. PICK q : q = [x.peers[i] EXCEPT !.counter = n, !.stage = "SentGroupMessage1",
                                          !.timed = TRUE]
      OBVIOUS
    <2>3. n \in Nat
      BY <1>1, <2>1 DEF PeerType
    <2>4. q \in PeerType /\ q.address = s /\ q.wanted = x.peers[i].wanted
      BY <1>1, <2>2, <2>3 DEF PeerType
    <2>5. y = [x EXCEPT !.peers[i] = q, !.sent = @ \cup {Frame("g1", x.peers[i], n, x.pending)}]
      BY <1>1, <1>4, <2>1, <2>2 DEF TransmitGroupMessage1, Sent, Counter
    <2>6. y.peers = [x.peers EXCEPT ![i] = q] /\ y.held = x.held
      BY <1>1, <2>5 DEF ApType
    <2> QED BY <1>2, <2>4, <2>6
  <1>5. CASE x.pending # NONE /\ ~(x.peers[i].keys /\ x.peers[i].key_slot)
    BY <1>1, <1>5 DEF TransmitGroupMessage1
  <1> QED BY <1>3, <1>4, <1>5

(* release_one, of a group message that waits. *)
LEMMA ReleaseWaiting ==
  ASSUME NEW x, NEW sup, NEW rep, NEW T \in SUBSET Stations, Good(x, sup, rep, T),
         NEW s \in Stations, Waits(x, s),
         NEW y, y = ReleaseOne(x, s)
  PROVE  /\ Good(y, sup, rep, T)
         /\ y.held = x.held /\ ~Wanted(y, s)
         /\ \A j \in Slots : IsOf(y, j, s) <=> IsOf(x, j, s)
  <1>1. PICK i \in Slots : IsOf(x, i, s)
    BY PeerFacts DEF Waits
  <1>2. /\ SlotOf(x, s) = i /\ x \in ApType /\ x.peers[i] \in PeerType /\ x.peers[i].address = s
        /\ \A j \in Slots : IsOf(x, j, s) => j = i
    BY <1>1, PeerFacts DEF IsOf
  <1>30. PICK no \in BOOLEAN : no = FALSE
    OBVIOUS
  <1>3. PICK q : q = [x.peers[i] EXCEPT !.wanted = no]
    OBVIOUS
  <1>4. /\ q \in PeerType /\ q.wanted = no
        /\ q.address = s /\ q.nonce = x.peers[i].nonce /\ q.counter = x.peers[i].counter
        /\ q.keys = x.peers[i].keys /\ q.key_slot = x.peers[i].key_slot
        /\ q.stage = x.peers[i].stage
    BY <1>2, <1>3 DEF PeerType
  <1>5. PICK z : z = [x EXCEPT !.peers[i] = q]
    OBVIOUS
  <1>6. PICK w : w = RefreshQueued(z, s)
    OBVIOUS
  <1>7. Good(w, sup, rep, T)
    BY <1>1, <1>30, <1>4, <1>5, <1>6, WantGood
  <1>8. /\ z \in ApType /\ z.held = x.held /\ z.peers = [x.peers EXCEPT ![i] = q]
    BY <1>2, <1>4, <1>5 DEF ApType
  <1>9. z.peers[i] = q /\ q # NONE /\ \A j \in Slots \ {i} : z.peers[j] = x.peers[j]
    BY <1>2, <1>4, <1>8, NoneAssumption DEF ApType
  <1>10. \A j \in Slots : IsOf(z, j, s) <=> j = i
    BY <1>2, <1>4, <1>9 DEF IsOf
  <1>11. w.peers = z.peers /\ w.held = z.held
    BY <1>6, <1>8, <1>10, RefreshIs
  <1>12. IsOf(w, i, s) /\ ~Wanted(w, s) /\ \A j \in Slots : IsOf(w, j, s) <=> j = i
    BY <1>30, <1>4, <1>9, <1>10, <1>11 DEF Wanted, IsOf
  <1>13. y = TransmitGroupMessage1(w, s, TRUE)
    BY <1>2, <1>30, <1>3, <1>5, <1>6 DEF ReleaseOne
  <1>14. Good(y, sup, rep, T)
    BY <1>7, <1>12, <1>13, TransmitGood
  <1>15. /\ y.held = w.held /\ (Wanted(y, s) <=> Wanted(w, s))
         /\ \A j \in Slots : IsOf(y, j, s) <=> IsOf(w, j, s)
    BY <1>7, <1>12, <1>13, TransmitKeeps
  <1> QED BY <1>1, <1>2, <1>8, <1>11, <1>12, <1>14, <1>15

(* release_one keeps it.                                                   *)
LEMMA ReleaseOneGood ==
  ASSUME NEW x, NEW sup, NEW rep, Good(x, sup, rep, Stations), NEW s \in Stations, Dozing(x, s)
  PROVE  Good(ReleaseOne(x, s), sup, rep, Stations)
  <1>1. CASE Waits(x, s)
    BY <1>1, ReleaseWaiting
  <1>2. CASE ~Waits(x, s) /\ x.held[s] > 0
    <2>1. PICK n : n = x.held[s] - 1
      OBVIOUS
    <2>2. n \in Nat
      BY <1>2, <2>1 DEF Good, Typed, ApType
    <2>3. Good(RefreshQueued([x EXCEPT !.held[s] = n], s), sup, rep, Stations)
      BY <2>2, HeldGood
    <2>4. [x EXCEPT !.held[s] = n] = [x EXCEPT !.held[s] = @ - 1]
      BY <2>1
    <2> QED BY <1>2, <2>3, <2>4 DEF ReleaseOne
  <1>3. CASE ~Waits(x, s) /\ ~(x.held[s] > 0)
    BY <1>3 DEF ReleaseOne
  <1> QED BY <1>1, <1>2, <1>3

(* release_all leaves nothing held for the station: so it need not doze.   *)
LEMMA ReleaseAllGood ==
  ASSUME NEW x, NEW sup, NEW rep, NEW s \in Stations, Good(x, sup, rep, Stations \ {s})
  PROVE  /\ Good(ReleaseAll(x, s), sup, rep, Stations)
         /\ \A i \in Slots : IsOf(ReleaseAll(x, s), i, s) <=> IsOf(x, i, s)
  <1>1. PICK y : y = IF Waits(x, s) THEN ReleaseOne(x, s) ELSE x
    OBVIOUS
  <1>2. Waits(x, s) <=> Wanted(x, s)
    BY WaitsIsWanted DEF Good, StationInv
  <1>3. /\ Good(y, sup, rep, Stations \ {s}) /\ ~Wanted(y, s)
        /\ \A i \in Slots : IsOf(y, i, s) <=> IsOf(x, i, s)
    <2>1. CASE Waits(x, s)
      BY <1>1, <2>1, ReleaseWaiting
    <2>2. CASE ~Waits(x, s)
      BY <1>1, <1>2, <2>2
    <2> QED BY <2>1, <2>2
  <1>4. CASE y.held[s] > 0
    <2>1. /\ Good(RefreshQueued([y EXCEPT !.held[s] = 0], s), sup, rep, Stations)
          /\ \A i \in Slots : IsOf(RefreshQueued([y EXCEPT !.held[s] = 0], s), i, s)
                                <=> IsOf(y, i, s)
      BY <1>3, HeldGood
    <2>2. ReleaseAll(x, s) = RefreshQueued([y EXCEPT !.held[s] = 0], s)
      BY <1>1, <1>4 DEF ReleaseAll
    <2> QED BY <1>3, <2>1, <2>2
  <1>5. CASE ~(y.held[s] > 0)
    <2>1. HeldInv(y, s)
      BY <1>3, <1>5 DEF HeldInv
    <2>2. Good(y, sup, rep, Stations)
      BY <1>3, <2>1 DEF Good
    <2>3. ReleaseAll(x, s) = y
      BY <1>1, <1>5 DEF ReleaseAll
    <2> QED BY <1>3, <2>2, <2>3
  <1> QED BY <1>4, <1>5

(* A frame's header says whether the station dozes from here on.           *)
LEMMA PowerSaveGood ==
  ASSUME NEW x, NEW sup, NEW rep, Good(x, sup, rep, Stations), NEW s \in Stations,
         Known(x, s), NEW ps \in BOOLEAN,
         x.table[s].state = "Authenticated" => ~ps,
         NEW y, y = [x EXCEPT !.table[s].power_save = ps]
  PROVE  /\ Good(y, sup, rep, Stations \ {s})
         /\ ps \/ ~Dozing(x, s) => Good(y, sup, rep, Stations)
         /\ \A i \in Slots : IsOf(y, i, s) <=> IsOf(x, i, s)
         /\ Dozing(y, s) <=> ps
  <1>1. x \in ApType /\ StationInv(x, s, sup, rep) /\ HeldInv(x, s) /\ Typed(x, sup, rep)
    BY DEF Good, Typed
  <1>2. x.table[s] \in Entries
    BY <1>1 DEF Known, ApType
  <1>3. PICK e : e = [x.table[s] EXCEPT !.power_save = ps]
    OBVIOUS
  <1>4. /\ e \in Entries /\ e.power_save = ps /\ e.state = x.table[s].state
        /\ e.queued = x.table[s].queued
    BY <1>2, <1>3 DEF Entries
  <1>5. y = [x EXCEPT !.table = [x.table EXCEPT ![s] = e]]
    BY <1>3
  <1>6. /\ y \in ApType /\ y.table = [x.table EXCEPT ![s] = e]
        /\ y.peers = x.peers /\ y.held = x.held /\ y.sent = x.sent
        /\ y.pending = x.pending /\ y.gtk = x.gtk /\ y.handed = x.handed
        /\ y.drawn = x.drawn /\ x.drawn \in Nat
    BY <1>1, <1>4, <1>5 DEF ApType
  <1>7. y.table[s] = e /\ e # NONE /\ \A t \in Stations \ {s} : y.table[t] = x.table[t]
    BY <1>1, <1>4, <1>6, NoneAssumption DEF ApType
  <1>8. \A i \in Slots, t \in Stations : IsOf(y, i, t) <=> IsOf(x, i, t)
    BY <1>6 DEF IsOf
  <1>9. \A t \in Stations \ {s} : AgreeOn(t, x, sup, rep, y, sup, rep)
    BY <1>6, <1>7 DEF AgreeOn
  <1>10. ASSUME NEW i \in Slots, IsOf(y, i, s)
         PROVE  PeerInv(y, y.peers[i], sup, rep)
    <2>1. PICK p : p = y.peers[i]
      OBVIOUS
    <2>2. p.address = s /\ PeerInv(x, p, sup, rep)
      BY <1>1, <1>6, <1>8, <1>10, <2>1 DEF StationInv, IsOf
    <2>3. /\ Known(y, p.address) <=> Known(x, p.address)
          /\ y.table[p.address].state = x.table[p.address].state
      BY <1>4, <1>7, <2>2 DEF Known
    <2>4. PeerInv(y, p, sup, rep)
      BY <1>6, <2>2, <2>3, PeerSame
    <2> QED BY <2>1, <2>4
  <1>11. Wanted(y, s) <=> Wanted(x, s)
    BY <1>6, <1>8 DEF Wanted
  <1>12. StationInv(y, s, sup, rep)
    <2>1. EntryInv(y, s)
      BY <1>1, <1>4, <1>6, <1>7, <1>8, <1>11 DEF StationInv, EntryInv
    <2>2. NoncesDrawn(y, s, sup, rep)
      BY <1>1, <1>6 DEF StationInv, NoncesDrawn
    <2> QED BY <1>1, <1>8, <1>10, <2>1, <2>2 DEF StationInv
  <1>13. Dozing(y, s) <=> ps
    BY <1>4, <1>7 DEF Dozing, Known
  <1>14. ps \/ ~Dozing(x, s) => HeldInv(y, s)
    BY <1>1, <1>6, <1>11, <1>13 DEF HeldInv
  <1>15. Typed(y, sup, rep)
    BY <1>1, <1>6 DEF Typed
  <1>16. Good(y, sup, rep, Stations \ {s})
    BY <1>9, <1>12, <1>15, LocalStep
  <1>17. ps \/ ~Dozing(x, s) => Good(y, sup, rep, Stations)
    BY <1>14, <1>16 DEF Good
  <1> QED BY <1>8, <1>13, <1>16, <1>17

(* A data frame's power-save bit, heard, keeps it.                         *)
LEMMA HeardGood ==
  ASSUME NEW x, NEW sup, NEW rep, Good(x, sup, rep, Stations), NEW s \in Stations,
         Known(x, s), x.table[s].state # "Authenticated", NEW ps \in BOOLEAN
  PROVE  /\ Good(Heard(x, s, ps), sup, rep, Stations)
         /\ \A i \in Slots : IsOf(Heard(x, s, ps), i, s) <=> IsOf(x, i, s)
  <1>1. PICK y : y = [x EXCEPT !.table[s].power_save = ps]
    OBVIOUS
  <1>2. /\ Good(y, sup, rep, Stations \ {s})
        /\ ps \/ ~Dozing(x, s) => Good(y, sup, rep, Stations)
        /\ \A i \in Slots : IsOf(y, i, s) <=> IsOf(x, i, s)
    BY <1>1, PowerSaveGood
  <1>3. CASE Dozing(x, s) /\ ~ps
    <2>1. Heard(x, s, ps) = ReleaseAll(y, s)
      BY <1>1, <1>3 DEF Heard
    <2> QED BY <1>2, <2>1, ReleaseAllGood
  <1>4. CASE ps \/ ~Dozing(x, s)
    <2>1. Heard(x, s, ps) = y
      BY <1>1, <1>4 DEF Heard
    <2> QED BY <1>2, <1>4, <2>1
  <1> QED BY <1>3, <1>4

(* Nothing but the count of group frames changes. *)
LEMMA GroupGood ==
  ASSUME NEW x, NEW sup, NEW rep, Good(x, sup, rep, Stations), NEW n \in Nat
  PROVE  Good([x EXCEPT !.group = n], sup, rep, Stations)
  <1>1. PICK y : y = [x EXCEPT !.group = n]
    OBVIOUS
  <1>2. x \in ApType /\ Typed(x, sup, rep)
    BY DEF Good, Typed
  <1>3. /\ y \in ApType
        /\ y.peers = x.peers /\ y.table = x.table /\ y.held = x.held /\ y.sent = x.sent
        /\ y.pending = x.pending /\ y.gtk = x.gtk /\ y.handed = x.handed
        /\ y.drawn = x.drawn /\ x.drawn \in Nat
    BY <1>1, <1>2 DEF ApType
  <1>4. \A s \in Stations : AgreeOn(s, x, sup, rep, y, sup, rep)
    BY <1>3 DEF AgreeOn
  <1>5. Typed(y, sup, rep)
    BY <1>2, <1>3 DEF Typed
  <1>6. Good(y, sup, rep, Stations)
    BY <1>2, <1>4, <1>5, StationKept DEF Good
  <1> QED BY <1>1, <1>6

(* deliver keeps it: a frame is held only for a station that dozes.        *)
LEMMA DeliverGood ==
  ASSUME NEW x, NEW sup, NEW rep, Good(x, sup, rep, Stations), NEW to \in Stations \cup {NONE}
  PROVE  Good(Deliver(x, to), sup, rep, Stations)
  <1>1. x \in ApType
    BY DEF Good, Typed
  <1>2. CASE to = NONE
    <2>1. PICK n : n = x.group + 1
      OBVIOUS
    <2>2. n \in Nat
      BY <1>1, <2>1 DEF ApType
    <2>3. Good([x EXCEPT !.group = n], sup, rep, Stations)
      BY <2>2, GroupGood
    <2>4. [x EXCEPT !.group = n] = [x EXCEPT !.group = @ + 1]
      BY <2>1
    <2> QED BY <1>2, <2>3, <2>4 DEF Deliver
  <1>3. CASE to # NONE /\ Dozing(x, to)
    <2>1. PICK n : n = x.held[to] + 1
      OBVIOUS
    <2>2. n \in Nat /\ to \in Stations
      BY <1>1, <1>3, <2>1 DEF ApType
    <2>3. Good(RefreshQueued([x EXCEPT !.held[to] = n], to), sup, rep, Stations)
      BY <1>3, <2>2, HeldGood
    <2>4. [x EXCEPT !.held[to] = n] = [x EXCEPT !.held[to] = @ + 1]
      BY <2>1
    <2> QED BY <1>3, <2>3, <2>4 DEF Deliver
  <1>4. CASE to # NONE /\ ~Dozing(x, to)
    BY <1>4 DEF Deliver
  <1> QED BY <1>2, <1>3, <1>4


-----------------------------------------------------------------------------
(* The stations' answers *)

(* Message 2 brings the keys. *)
LEMMA Message2Good ==
  ASSUME NEW x, NEW sup, NEW rep, Good(x, sup, rep, Stations),
         NEW s \in Stations, NEW i \in Slots, IsOf(x, i, s),
         x.peers[i].stage = "SentMessage1",
         NEW z, z = [x EXCEPT !.peers[i] = [x.peers[i] EXCEPT !.keys = TRUE, !.resends = 0]]
  PROVE  Good(SendMessage3(z, s, TRUE), sup, rep, Stations)
  <1>1. PICK p : p = x.peers[i]
    OBVIOUS
  <1>2. x \in ApType /\ p \in PeerType /\ p.address = s /\ PeerInv(x, p, sup, rep)
    BY <1>1, PeerFacts DEF IsOf
  <1>30. PICK yes \in BOOLEAN : yes = TRUE
    OBVIOUS
  <1>3. PICK q : q = [p EXCEPT !.keys = yes, !.resends = 0]
    OBVIOUS
  <1>4. /\ q \in PeerType /\ q.address = p.address /\ q.nonce = p.nonce /\ q.wanted = p.wanted
        /\ q.counter = p.counter /\ q.key_slot = p.key_slot /\ q.stage = p.stage
    <2>1. PICK r : r = [p EXCEPT !.keys = yes]
      OBVIOUS
    <2>2. /\ r \in PeerType /\ r.address = p.address /\ r.nonce = p.nonce
          /\ r.wanted = p.wanted /\ r.counter = p.counter /\ r.key_slot = p.key_slot
          /\ r.stage = p.stage
      BY <1>2, <2>1 DEF PeerType
    <2>3. q = [r EXCEPT !.resends = 0]
      BY <1>3, <2>1
    <2> QED BY <2>2, <2>3 DEF PeerType
  <1>5. PICK F : F = {}
    OBVIOUS
  <1>6. PICK y : y = [x EXCEPT !.peers[i] = q, !.sent = @ \cup F]
    OBVIOUS
  <1>7. y = z
    BY <1>1, <1>2, <1>3, <1>30, <1>5, <1>6 DEF ApType
  <1>8. /\ y.table = x.table /\ y.pending = x.pending /\ y.gtk = x.gtk
        /\ y.handed = x.handed /\ y.drawn = x.drawn /\ y.sent = x.sent
        /\ y.peers[i] = q
    BY <1>2, <1>5, <1>6 DEF ApType
  <1>9. Staged(x, q) /\ InTheAir(x, q, rep) /\ Answered(q, sup, rep)
        /\ Keyed(q, sup) /\ HandedOn(x, q, sup)
    BY <1>1, <1>2, <1>4 DEF PeerInv, Staged, InTheAir, Answered, Keyed, HandedOn
  <1>10. PeerInv(y, q, sup, rep)
    BY <1>1, <1>4, <1>8, <1>9 DEF PeerInv, Staged, InTheAir, HandedOn, Known
  <1>11. F \in SUBSET EapolFrames /\ \A f \in F : f.station = s /\ f.nonce = q.nonce
    BY <1>5
  <1>12. Good(y, sup, rep, Stations)
    BY <1>1, <1>2, <1>4, <1>6, <1>10, <1>11, PeerMoves
  <1>13. IsOf(y, i, s) /\ y.peers[i].stage = "SentMessage1"
    BY <1>1, <1>2, <1>4, <1>8, NoneAssumption DEF IsOf
  <1>14. Good(SendMessage3(y, s, TRUE), sup, rep, Stations)
    BY <1>12, <1>13, Message3Good
  <1> QED BY <1>7, <1>14

(* Message 4 puts them into their slot: the station is connected. *)
LEMMA Message4Good ==
  ASSUME NEW x, NEW sup, NEW rep, Good(x, sup, rep, Stations),
         NEW s \in Stations, NEW i \in Slots, IsOf(x, i, s),
         x.peers[i].stage = "SentMessage3",
         Frame("m4", x.peers[i], x.peers[i].counter, NONE) \in rep,
         NEW y,
         y = [x EXCEPT !.peers[i] = [x.peers[i] EXCEPT !.key_slot = TRUE, !.stage = "Done"],
                       !.table[s].state = IF @ = "Associated" THEN "Connected" ELSE @]
  PROVE  Good(y, sup, rep, Stations)
  <1>1. PICK p : p = x.peers[i]
    OBVIOUS
  <1>2. /\ x \in ApType /\ p \in PeerType /\ p.address = s /\ PeerInv(x, p, sup, rep)
        /\ Typed(x, sup, rep) /\ StationInv(x, s, sup, rep)
    BY <1>1, PeerFacts DEF IsOf, Good
  <1>3. ~p.key_slot /\ p.keys /\ Known(x, s) /\ x.table[s].state = "Associated"
    <2>1. Known(x, s) /\ ~p.key_slot /\ p.keys
      BY <1>1, <1>2 DEF PeerInv, Staged
    <2>2. x.table[s] \in Entries
      BY <1>2, <2>1 DEF Known, ApType
    <2> QED BY <1>2, <2>1, <2>2 DEF PeerInv, Staged, Entries
  <1>30. PICK yes \in BOOLEAN : yes = TRUE
    OBVIOUS
  <1>4. PICK q : q = [p EXCEPT !.key_slot = yes, !.stage = "Done"]
    OBVIOUS
  <1>5. /\ q \in PeerType /\ q # NONE /\ q.address = s /\ q.nonce = p.nonce
        /\ q.wanted = p.wanted /\ q.counter = p.counter /\ q.keys = p.keys
        /\ q.key_slot /\ q.stage = "Done"
    <2>1. /\ q \in PeerType /\ q.address = s /\ q.nonce = p.nonce
          /\ q.wanted = p.wanted /\ q.counter = p.counter /\ q.keys = p.keys
          /\ q.key_slot = yes /\ q.stage = "Done"
      BY <1>2, <1>4 DEF PeerType
    <2> QED BY <1>30, <2>1, NoneAssumption
  <1>6. PICK e : e = [x.table[s] EXCEPT !.state = "Connected"]
    OBVIOUS
  <1>7. /\ e \in Entries /\ e # NONE /\ e.state = "Connected"
        /\ e.power_save = x.table[s].power_save /\ e.queued = x.table[s].queued
    <2>1. x.table[s] \in Entries
      BY <1>2, <1>3 DEF Known, ApType
    <2> QED BY <1>6, <2>1, NoneAssumption DEF Entries
  <1>8. y = [x EXCEPT !.peers = [x.peers EXCEPT ![i] = q], !.table = [x.table EXCEPT ![s] = e]]
    BY <1>1, <1>3, <1>30, <1>4, <1>6
  <1>9. /\ y \in ApType
        /\ y.peers = [x.peers EXCEPT ![i] = q] /\ y.table = [x.table EXCEPT ![s] = e]
        /\ y.held = x.held /\ y.sent = x.sent
        /\ y.pending = x.pending /\ y.gtk = x.gtk /\ y.handed = x.handed
        /\ y.drawn = x.drawn /\ x.drawn \in Nat
    <2>1. /\ [x.peers EXCEPT ![i] = q] \in [Slots -> PeerType \cup {NONE}]
          /\ [x.table EXCEPT ![s] = e] \in [Stations -> Entries \cup {NONE}]
      BY <1>2, <1>5, <1>7 DEF ApType
    <2> QED BY <1>2, <1>8, <2>1 DEF ApType
  <1>10. /\ y.peers[i] = q /\ \A j \in Slots \ {i} : y.peers[j] = x.peers[j]
         /\ y.table[s] = e /\ \A t \in Stations \ {s} : y.table[t] = x.table[t]
    <2>1. DOMAIN x.peers = Slots /\ DOMAIN x.table = Stations
      BY <1>2 DEF ApType
    <2> QED BY <1>9, <2>1
  <1>11. \A t \in Stations \ {s} : AgreeOn(t, x, sup, rep, y, sup, rep)
    BY <1>1, <1>2, <1>5, <1>9, <1>10 DEF AgreeOn, IsOf
  <1>12. \A j \in Slots : IsOf(y, j, s) <=> j = i
    BY <1>2, <1>5, <1>10 DEF StationInv, IsOf
  <1>13. Wanted(y, s) <=> Wanted(x, s)
    BY <1>1, <1>2, <1>5, <1>10, <1>12 DEF Wanted, StationInv, IsOf
  <1>14. sup[s].nonce = p.nonce /\ p.counter \in 1 .. sup[s].floor
    <2>1. PICK m4 : m4 = Frame("m4", p, p.counter, NONE)
      OBVIOUS
    <2>2. /\ m4 \in rep /\ m4.station = p.address /\ m4.nonce = p.nonce /\ m4.kind = "m4"
          /\ m4.counter = p.counter
      BY <1>1, <2>1 DEF Frame
    <2> QED BY <1>2, <2>2 DEF PeerInv, Answered
  <1>15. sup[s].floor \in Nat /\ p.counter \in Nat
    BY <1>2 DEF Typed, Supplicants, PeerType
  <1>16. PeerInv(y, q, sup, rep)
    <2>1. Staged(y, q)
      BY <1>2, <1>3, <1>5, <1>7, <1>9, <1>10 DEF PeerInv, Staged, Known
    <2>2. InTheAir(y, q, rep) /\ Answered(q, sup, rep)
      BY <1>2, <1>5, <1>9 DEF PeerInv, InTheAir, Answered
    <2>3. Keyed(q, sup)
      BY <1>5, <1>14, <1>15 DEF Keyed
    <2>4. HandedOn(y, q, sup)
      BY <1>2, <1>3, <1>5, <1>9 DEF PeerInv, HandedOn
    <2>5. Settled(q, sup, rep)
      <3>1. PICK g2 : g2 = Frame("g2", q, q.counter, NONE)
        OBVIOUS
      <3>2. g2.station = p.address /\ g2.nonce = p.nonce /\ g2.kind = "g2"
        BY <1>2, <1>5, <3>1 DEF Frame
      <3>3. g2 \notin rep
        BY <1>2, <1>3, <3>2 DEF PeerInv, InTheAir
      <3> QED BY <1>5, <1>14, <1>15, <3>1, <3>3 DEF Settled
    <2> QED BY <1>5, <2>1, <2>2, <2>3, <2>4, <2>5 DEF PeerInv
  <1>17. EntryInv(y, s) /\ HeldInv(y, s)
    <2>1. HeldInv(x, s)
      BY DEF Good
    <2>2. EntryInv(y, s)
      BY <1>2, <1>3, <1>7, <1>9, <1>10, <1>12, <1>13 DEF StationInv, EntryInv
    <2>3. Dozing(y, s) <=> Dozing(x, s)
      BY <1>3, <1>7, <1>10 DEF Dozing, Known
    <2> QED BY <1>9, <1>13, <2>1, <2>2, <2>3 DEF HeldInv
  <1>18. NoncesDrawn(y, s, sup, rep)
    BY <1>2, <1>9 DEF StationInv, NoncesDrawn
  <1>19. StationInv(y, s, sup, rep)
    BY <1>10, <1>12, <1>16, <1>17, <1>18 DEF StationInv
  <1>20. Typed(y, sup, rep)
    BY <1>2, <1>9 DEF Typed
  <1> QED BY <1>11, <1>17, <1>19, <1>20, LocalStep

(* eapol keeps it: only an answer the station sent moves its peer on.      *)
LEMMA EapolGood ==
  ASSUME NEW x, NEW sup, Good(x, sup, replies, Stations), NEW s \in Stations, HasPeer(x, s)
  PROVE  Good(Eapol(x, s), sup, replies, Stations)
  <1>1. PICK i \in Slots : IsOf(x, i, s)
    BY PeerFacts
  <1>2. SlotOf(x, s) = i
    BY <1>1, PeerFacts
  <1>3. PICK p : p = x.peers[i]
    OBVIOUS
  <1>4. CASE p.stage = "SentMessage1" /\ Answers(p, "m2")
    BY <1>1, <1>2, <1>3, <1>4, Message2Good DEF Eapol
  <1>5. CASE p.stage = "SentMessage3" /\ p.keys /\ Answers(p, "m4")
    <2>1. /\ Frame("m4", x.peers[i], x.peers[i].counter, NONE) \in replies
          /\ x.peers[i].stage = "SentMessage3"
      BY <1>3, <1>5 DEF Answers
    <2>2. PICK y : y = [x EXCEPT
                       !.peers[i] = [x.peers[i] EXCEPT !.key_slot = TRUE, !.stage = "Done"],
                       !.table[s].state = IF @ = "Associated" THEN "Connected" ELSE @]
      OBVIOUS
    <2>3. Good(y, sup, replies, Stations)
      BY <1>1, <2>1, <2>2, Message4Good
    <2>4. Eapol(x, s) = y
      BY <1>2, <1>3, <1>5, <2>1, <2>2 DEF Eapol
    <2> QED BY <2>3, <2>4
  <1>6. CASE ~(p.stage = "SentMessage1" /\ Answers(p, "m2"))
             /\ ~(p.stage = "SentMessage3" /\ p.keys /\ Answers(p, "m4"))
    BY <1>2, <1>3, <1>6 DEF Eapol
  <1> QED BY <1>4, <1>5, <1>6


(* An answer that is taken is one the less to come. *)
LEMMA ReplyTaken ==
  ASSUME NEW x, NEW sup, NEW rep, Good(x, sup, rep, Stations), NEW f, NEW r, r = rep \ {f}
  PROVE  Good(x, sup, r, Stations)
  <1>1. Typed(x, sup, r)
    BY DEF Good, Typed
  <1>2. ASSUME NEW s \in Stations
        PROVE  StationInv(x, s, sup, r)
    <2>1. StationInv(x, s, sup, rep)
      BY DEF Good
    <2>2. ASSUME NEW i \in Slots, IsOf(x, i, s)
          PROVE  PeerInv(x, x.peers[i], sup, r)
      <3>1. PICK p : p = x.peers[i]
        OBVIOUS
      <3>2. PeerInv(x, p, sup, rep)
        BY <2>1, <2>2, <3>1 DEF StationInv
      <3>3. InTheAir(x, p, r) /\ Answered(p, sup, r)
        BY <3>2 DEF PeerInv, InTheAir, Answered
      <3>4. /\ Settled(p, sup, rep) => Settled(p, sup, r)
            /\ Current(x, p, sup, rep) => Current(x, p, sup, r)
        BY DEF Settled, Current
      <3> QED BY <3>1, <3>2, <3>3, <3>4 DEF PeerInv
    <2>3. NoncesDrawn(x, s, sup, r)
      BY <2>1 DEF StationInv, NoncesDrawn
    <2> QED BY <2>1, <2>2, <2>3 DEF StationInv
  <1> QED BY <1>1, <1>2 DEF Good

(* Group message 2, taken, says that the station has the pending key. *)
LEMMA GroupEapolGood ==
  ASSUME NEW x, NEW sup, NEW rep, Good(x, sup, rep, Stations), NEW s \in Stations,
         HasPeer(x, s), NEW f \in rep
  PROVE  Good(GroupEapol(x, s, f), sup, rep \ {f}, Stations)
  <1>1. PICK r : r = rep \ {f}
    OBVIOUS
  <1>2. Good(x, sup, r, Stations)
    BY <1>1, ReplyTaken
  <1>3. PICK i \in Slots : IsOf(x, i, s)
    BY PeerFacts
  <1>4. PICK p : p = x.peers[i]
    OBVIOUS
  <1>5. /\ SlotOf(x, s) = i /\ x \in ApType /\ p \in PeerType /\ p.address = s
        /\ PeerInv(x, p, sup, rep) /\ Typed(x, sup, rep)
    <2>1. Typed(x, sup, rep) /\ p.address = s
      BY <1>3, <1>4 DEF IsOf, Good
    <2>2. /\ SlotOf(x, s) = i /\ x \in ApType /\ p \in PeerType
          /\ PeerInv(x, p, sup, rep)
      BY <1>3, <1>4, PeerFacts
    <2> QED BY <2>1, <2>2
  <1>6. CASE p.stage = "SentGroupMessage1" /\ p.keys /\ f = Frame("g2", p, p.counter, NONE)
    <2>1. PICK q : q = [p EXCEPT !.stage = "Done", !.resends = 0]
      OBVIOUS
    <2>2. /\ q \in PeerType /\ q.address = p.address /\ q.nonce = p.nonce
          /\ q.wanted = p.wanted /\ q.counter = p.counter /\ q.keys = p.keys
          /\ q.key_slot = p.key_slot /\ q.stage = "Done"
      <3>1. PICK c : c = [p EXCEPT !.stage = "Done"]
        OBVIOUS
      <3>2. /\ c \in PeerType /\ c.address = p.address /\ c.nonce = p.nonce
            /\ c.wanted = p.wanted /\ c.counter = p.counter /\ c.keys = p.keys
            /\ c.key_slot = p.key_slot /\ c.stage = "Done"
        BY <1>5, <3>1 DEF PeerType
      <3>3. q = [c EXCEPT !.resends = 0]
        BY <2>1, <3>1
      <3> QED BY <3>2, <3>3 DEF PeerType
    <2>3. PICK F : F = {}
      OBVIOUS
    <2>4. PICK y : y = [x EXCEPT !.peers[i] = q, !.sent = @ \cup F]
      OBVIOUS
    <2>5. /\ y.table = x.table /\ y.pending = x.pending /\ y.gtk = x.gtk
          /\ y.handed = x.handed /\ y.drawn = x.drawn /\ y.sent = x.sent
      BY <1>5, <2>3, <2>4 DEF ApType
    <2>6. x.pending # NONE /\ x.pending \in sup[p.address].keys
      BY <1>5, <1>6 DEF PeerInv, Settled, Current
    <2>7. p.counter \in 1 .. sup[p.address].floor
      BY <1>5, <1>6 DEF PeerInv, Answered, Frame
    <2>8. sup[p.address].floor \in Nat /\ p.counter \in Nat
      BY <1>5 DEF Typed, Supplicants, PeerType
    <2>9. PeerInv(x, p, sup, r)
      BY <1>2, <1>3, <1>4, PeerFacts
    <2>10. PeerInv(y, q, sup, r)
      <3>1. Staged(y, q)
        BY <1>6, <2>2, <2>5, <2>9 DEF PeerInv, Staged, Known
      <3>2. InTheAir(y, q, r) /\ Answered(q, sup, r) /\ Keyed(q, sup)
        BY <2>2, <2>5, <2>9 DEF PeerInv, InTheAir, Answered, Keyed
      <3>3. HandedOn(y, q, sup)
        BY <2>2, <2>5, <2>6, <2>9 DEF PeerInv, HandedOn
      <3>4. Settled(q, sup, r)
        <4>1. Frame("g2", q, q.counter, NONE) = f
          BY <1>6, <2>2 DEF Frame
        <4> QED BY <1>1, <2>2, <2>7, <2>8, <4>1 DEF Settled
      <3> QED BY <2>2, <3>1, <3>2, <3>3, <3>4 DEF PeerInv
    <2>11. F \in SUBSET EapolFrames /\ \A g \in F : g.station = s /\ g.nonce = q.nonce
      BY <2>3
    <2>12. Good(y, sup, r, Stations)
      BY <1>2, <1>3, <1>4, <1>5, <2>2, <2>4, <2>10, <2>11, PeerMoves, ZenonT(60)
    <2>13. Good(FinishRekeyIfDone(y), sup, r, Stations)
      BY <2>12, FinishGood
    <2>14. y = [x EXCEPT !.peers[i] = q]
      BY <1>5, <2>3, <2>4 DEF ApType
    <2>15. GroupEapol(x, s, f) = FinishRekeyIfDone(y)
      BY <1>4, <1>5, <1>6, <2>1, <2>14 DEF GroupEapol
    <2> QED BY <1>1, <2>13, <2>15
  <1>7. CASE ~(p.stage = "SentGroupMessage1" /\ p.keys /\ f = Frame("g2", p, p.counter, NONE))
    BY <1>1, <1>2, <1>4, <1>5, <1>7 DEF GroupEapol
  <1> QED BY <1>6, <1>7

-----------------------------------------------------------------------------
(* The stations' side *)

(* A station that answers message 1 gives up the keys it had, which are of *)
(* an association that has ended.                                          *)
LEMMA Answer1Good ==
  ASSUME IInv, NEW f, AnswerMessage1(f)
  PROVE  IInv'
  <1>1. /\ ap \in ApType /\ Typed(ap, supplicant, replies) /\ f \in ap.sent
        /\ f.nonce # supplicant[f.station].nonce /\ f.kind = "m1"
    BY DEF IInv, Good, Typed, AnswerMessage1
  <1>2. f \in EapolFrames /\ f.station \in Stations /\ f.nonce \in Nat
    BY <1>1 DEF ApType, EapolFrames
  <1>3. PICK s \in Stations : s = f.station
    BY <1>2
  <1>4. PICK u : u = [supplicant[s] EXCEPT !.nonce = f.nonce, !.floor = 0, !.keys = {}]
    OBVIOUS
  <1>5. PICK r : r = [f EXCEPT !.kind = "m2", !.gtk = NONE]
    OBVIOUS
  <1>6. /\ r \in EapolFrames /\ r.kind = "m2" /\ r.station = s /\ r.nonce = f.nonce
        /\ r.counter = f.counter
    BY <1>2, <1>3, <1>5 DEF EapolFrames
  <1>7. PICK sup : sup = [supplicant EXCEPT ![s] = u]
    OBVIOUS
  <1>8. PICK rep : rep = replies \cup {r}
    OBVIOUS
  <1>9. ap' = ap /\ supplicant' = sup /\ replies' = rep
    BY <1>3, <1>4, <1>5, <1>7, <1>8 DEF AnswerMessage1, Reply
  <1>10. /\ u.nonce = f.nonce
         /\ u \in [nonce : Nat, floor : Nat, keys : SUBSET (Nat \cup {NONE})]
    BY <1>1, <1>2, <1>4 DEF Typed, Supplicants
  <1>11. sup \in Supplicants /\ sup[s] = u /\ \A t \in Stations \ {s} : sup[t] = supplicant[t]
    BY <1>1, <1>7, <1>10 DEF Typed, Supplicants
  <1>12. Typed(ap, sup, rep)
    BY <1>1, <1>6, <1>8, <1>11 DEF Typed
  <1>13. \A t \in Stations \ {s} : AgreeOn(t, ap, supplicant, replies, ap, sup, rep)
    BY <1>1, <1>6, <1>8, <1>11 DEF AgreeOn, ApType
  <1>14. StationInv(ap, s, supplicant, replies)
    BY DEF IInv, Good
  <1>15. ASSUME NEW i \in Slots, IsOf(ap, i, s)
         PROVE  PeerInv(ap, ap.peers[i], sup, rep)
    <2>1. PICK p : p = ap.peers[i]
      OBVIOUS
    <2>2. PeerInv(ap, p, supplicant, replies) /\ p.address = s
      BY <1>14, <1>15, <2>1 DEF StationInv, IsOf
    <2>3. f.nonce = p.nonce /\ f.counter <= p.counter
      BY <1>1, <1>3, <2>2 DEF PeerInv, InTheAir
    <2>4. ~p.key_slot
      BY <1>1, <1>3, <2>2, <2>3 DEF PeerInv, Keyed
    <2>5. InTheAir(ap, p, rep)
      BY <1>6, <1>8, <2>2, <2>3 DEF PeerInv, InTheAir
    <2>6. Answered(p, sup, rep)
      BY <1>1, <1>3, <1>6, <1>8, <2>2, <2>3 DEF PeerInv, Answered
    <2>7. Staged(ap, p) /\ Keyed(p, sup) /\ HandedOn(ap, p, sup)
      BY <2>2, <2>4 DEF PeerInv, Keyed, HandedOn
    <2>8. p.stage \notin {"Done", "SentGroupMessage1"}
      BY <2>2, <2>4 DEF PeerInv, Staged
    <2> QED BY <2>1, <2>5, <2>6, <2>7, <2>8 DEF PeerInv
  <1>16. NoncesDrawn(ap, s, sup, rep)
    <2>1. f.nonce <= ap.drawn
      BY <1>1, <1>3, <1>14 DEF StationInv, NoncesDrawn
    <2> QED BY <1>6, <1>8, <1>10, <1>11, <1>14, <2>1 DEF StationInv, NoncesDrawn
  <1>17. StationInv(ap, s, sup, rep)
    BY <1>14, <1>15, <1>16 DEF StationInv
  <1>18. HeldInv(ap, s)
    BY DEF IInv, Good
  <1>19. Good(ap, sup, rep, Stations)
    BY <1>12, <1>13, <1>17, <1>18, LocalStep DEF IInv
  <1> QED BY <1>9, <1>19 DEF IInv

(* A station that takes a group key answers for it, under a counter that   *)
(* no earlier answer of this association had.                              *)
LEMMA AnswerKeysGood ==
  ASSUME IInv, NEW f, NEW kind, NEW answer, AnswerKeys(f, kind, answer),
         \/ kind = "m3" /\ answer = "m4"
         \/ kind = "g1" /\ answer = "g2"
  PROVE  IInv'
  <1>1. /\ ap \in ApType /\ Typed(ap, supplicant, replies) /\ f \in ap.sent
        /\ f.nonce = supplicant[f.station].nonce /\ f.kind = kind
        /\ f.counter > supplicant[f.station].floor
    BY DEF IInv, Good, Typed, AnswerKeys
  <1>2. /\ f \in EapolFrames /\ f.station \in Stations /\ f.nonce \in Nat
        /\ f.counter \in Nat /\ f.gtk \in Nat \cup {NONE}
    BY <1>1 DEF ApType, EapolFrames
  <1>3. PICK s \in Stations : s = f.station
    BY <1>2
  <1>4. PICK u : u = [supplicant[s] EXCEPT !.floor = f.counter, !.keys = @ \cup {f.gtk}]
    OBVIOUS
  <1>5. PICK r : r = [f EXCEPT !.kind = answer, !.gtk = NONE]
    OBVIOUS
  <1>6. /\ r \in EapolFrames /\ r.kind = answer /\ r.station = s /\ r.nonce = f.nonce
        /\ r.counter = f.counter
    BY <1>2, <1>3, <1>5 DEF EapolFrames
  <1>7. PICK sup : sup = [supplicant EXCEPT ![s] = u]
    OBVIOUS
  <1>8. PICK rep : rep = replies \cup {r}
    OBVIOUS
  <1>9. ap' = ap /\ supplicant' = sup /\ replies' = rep
    <2>1. ap' = ap /\ replies' = rep
      BY <1>5, <1>8 DEF AnswerKeys, Reply
    <2>2. supplicant' = [supplicant EXCEPT ![f.station].floor = f.counter,
                                           ![f.station].keys = @ \cup {f.gtk}]
      BY DEF AnswerKeys
    <2>3. supplicant \in Supplicants
      BY <1>1 DEF Typed
    <2>4. u = [supplicant[f.station] EXCEPT !.floor = f.counter, !.keys = @ \cup {f.gtk}]
      BY <1>3, <1>4
    <2>5. supplicant' = sup
      BY <1>3, <1>7, <2>2, <2>3, <2>4 DEF Supplicants
    <2> QED BY <2>1, <2>5
  <1>10. /\ u.nonce = f.nonce /\ u.nonce = supplicant[s].nonce
         /\ u.floor = f.counter /\ supplicant[s].floor \in Nat
         /\ u.keys = supplicant[s].keys \cup {f.gtk}
         /\ u \in [nonce : Nat, floor : Nat, keys : SUBSET (Nat \cup {NONE})]
    BY <1>1, <1>2, <1>3, <1>4 DEF Typed, Supplicants
  <1>11. sup \in Supplicants /\ sup[s] = u /\ \A t \in Stations \ {s} : sup[t] = supplicant[t]
    BY <1>1, <1>7, <1>10 DEF Typed, Supplicants
  <1>12. Typed(ap, sup, rep)
    BY <1>1, <1>6, <1>8, <1>11 DEF Typed
  <1>13. \A t \in Stations \ {s} : AgreeOn(t, ap, supplicant, replies, ap, sup, rep)
    BY <1>1, <1>6, <1>8, <1>11 DEF AgreeOn, ApType
  <1>14. StationInv(ap, s, supplicant, replies)
    BY DEF IInv, Good
  <1>15. ASSUME NEW i \in Slots, IsOf(ap, i, s)
         PROVE  PeerInv(ap, ap.peers[i], sup, rep)
    <2>1. PICK p : p = ap.peers[i]
      OBVIOUS
    <2>2. PeerInv(ap, p, supplicant, replies) /\ p.address = s /\ p \in PeerType
      BY <1>1, <1>14, <1>15, <2>1 DEF StationInv, IsOf, ApType
    <2>3. /\ f.nonce = p.nonce /\ f.counter <= p.counter /\ p.counter \in Nat
          /\ f.kind = "g1" => p.key_slot
      BY <1>1, <1>3, <2>2 DEF PeerInv, InTheAir, PeerType
    <2>4. ~Settled(p, supplicant, replies)
      BY <1>1, <1>2, <1>3, <1>10, <2>2, <2>3 DEF Settled
    <2>5. InTheAir(ap, p, rep)
      BY <1>1, <1>6, <1>8, <2>2, <2>3 DEF PeerInv, InTheAir
    <2>6. Answered(p, sup, rep)
      <3> SUFFICES ASSUME NEW g \in rep, g.station = p.address, g.nonce = p.nonce,
                          g.kind \in {"m4", "g2"}
                   PROVE  sup[p.address].nonce = p.nonce /\ g.counter \in 1 .. sup[p.address].floor
        BY DEF Answered
      <3>1. CASE g = r
        BY <1>1, <1>2, <1>3, <1>6, <1>10, <1>11, <2>2, <2>3, <3>1
      <3>2. CASE g \in replies
        <4>1. supplicant[s].nonce = p.nonce /\ g.counter \in 1 .. supplicant[s].floor
          BY <2>2, <3>2 DEF PeerInv, Answered
        <4> QED BY <1>1, <1>2, <1>3, <1>10, <1>11, <2>2, <4>1
      <3> QED BY <1>8, <3>1, <3>2
    <2>7. Keyed(p, sup)
      BY <1>1, <1>2, <1>3, <1>10, <1>11, <2>2, <2>3 DEF PeerInv, Keyed
    <2>8. Staged(ap, p) /\ HandedOn(ap, p, sup)
      BY <1>10, <1>11, <2>2 DEF PeerInv, HandedOn
    <2>9. p.stage # "Done"
      BY <2>2, <2>4 DEF PeerInv
    <2>10. ASSUME p.stage = "SentGroupMessage1" PROVE Current(ap, p, sup, rep)
      <3>1. Current(ap, p, supplicant, replies)
        BY <2>2, <2>4, <2>10 DEF PeerInv
      <3>2. ASSUME Frame("g2", p, p.counter, NONE) \in rep
            PROVE  ap.pending \in sup[p.address].keys
        <4>1. CASE Frame("g2", p, p.counter, NONE) \in replies
          BY <1>10, <1>11, <2>2, <3>1, <4>1 DEF Current
        <4>2. CASE Frame("g2", p, p.counter, NONE) = r
          <5>1. r.kind = "g2" /\ r.counter = p.counter
            BY <4>2 DEF Frame
          <5>2. f.gtk = ap.pending
            BY <1>1, <1>3, <1>6, <2>2, <3>1, <5>1 DEF Current
          <5> QED BY <1>10, <1>11, <2>2, <5>2
        <4> QED BY <1>8, <3>2, <4>1, <4>2
      <3> QED BY <3>1, <3>2 DEF Current
    <2> QED BY <2>1, <2>5, <2>6, <2>7, <2>8, <2>9, <2>10 DEF PeerInv
  <1>16. NoncesDrawn(ap, s, sup, rep)
    BY <1>1, <1>3, <1>6, <1>8, <1>10, <1>11, <1>14 DEF StationInv, NoncesDrawn
  <1>17. StationInv(ap, s, sup, rep)
    BY <1>14, <1>15, <1>16 DEF StationInv
  <1>18. HeldInv(ap, s)
    BY DEF IInv, Good
  <1>19. Good(ap, sup, rep, Stations)
    BY <1>12, <1>13, <1>17, <1>18, LocalStep DEF IInv
  <1> QED BY <1>9, <1>19 DEF IInv


-----------------------------------------------------------------------------
(* Associations *)

(* A set of slots that is not empty has a first.                           *)
LEMMA HasFirst ==
  ASSUME NEW S \in SUBSET Nat, S # {}
  PROVE  LET i == CHOOSE i \in S : \A j \in S : i <= j IN i \in S /\ \A j \in S : i <= j
  <1>1. PICK R : R = {ss \in Nat \X Nat : ss[1] < ss[2]}
    OBVIOUS
  <1>2. IsWellFoundedOn(R, Nat)
    BY <1>1, NatLessThanWellFounded, Zenon DEF OpToRel
  <1>3. PICK i \in S : \A j \in S : ~(<<j, i>> \in R)
    BY <1>2, WFMin
  <1>4. \A j \in S : ~(j < i)
    BY <1>1, <1>3
  <1>5. \A j \in S : i <= j
    BY <1>4
  <1> QED BY <1>5

(* A handshake begins with a nonce nobody has seen, so nothing in the air  *)
(* is of it and no rotation has handed it a key.                           *)
LEMMA BeginGood ==
  ASSUME NEW x, NEW sup, NEW rep, Good(x, sup, rep, Stations), NEW s \in Stations,
         Known(x, s), x.table[s].state = "Associated",
         ~Dozing(x, s), \A i \in Slots : ~IsOf(x, i, s)
  PROVE  Good(BeginHandshake(x, s), sup, rep, Stations)
  <1>1. PICK open : open = {i \in Slots : x.peers[i] = NONE \/ x.peers[i].address = s}
    OBVIOUS
  <1>2. CASE open = {}
    BY <1>1, <1>2 DEF BeginHandshake
  <1>3. CASE open # {}
    <2>1. PICK slot : slot = CHOOSE i \in open : \A j \in open : i <= j
      OBVIOUS
    <2>2. slot \in Slots /\ x.peers[slot] = NONE
      <3>1. open \in SUBSET Nat
        BY <1>1 DEF Slots
      <3>2. slot \in open
        BY <1>3, <2>1, <3>1, HasFirst
      <3> QED BY <1>1, <3>2 DEF IsOf
    <2>3. x \in ApType /\ Typed(x, sup, rep) /\ StationInv(x, s, sup, rep) /\ HeldInv(x, s)
      BY DEF Good, Typed
    <2>4. PICK q : q = NewPeer(s, x.drawn + 1)
      OBVIOUS
    <2>5. /\ q \in PeerType /\ q # NONE /\ q.address = s /\ q.nonce = x.drawn + 1
          /\ x.drawn \in Nat /\ ~q.key_slot /\ ~q.wanted /\ q.stage = "SentMessage1"
      <3>1. PICK no \in BOOLEAN, yes \in BOOLEAN : no = FALSE /\ yes = TRUE
        OBVIOUS
      <3>2. x.drawn \in Nat /\ x.drawn + 1 \in Nat
        BY <2>3 DEF ApType
      <3>3. q = [address |-> s, nonce |-> x.drawn + 1, counter |-> 0, keys |-> no,
                 stage |-> "SentMessage1", timed |-> yes, resends |-> 0,
                 key_slot |-> no, wanted |-> no]
        BY <2>4, <3>1 DEF NewPeer
      <3>4. /\ q \in PeerType /\ q.address = s /\ q.nonce = x.drawn + 1
            /\ q.key_slot = no /\ q.wanted = no /\ q.stage = "SentMessage1"
        BY <3>2, <3>3 DEF PeerType
      <3> QED BY <3>1, <3>2, <3>4, NoneAssumption
    <2>6. PICK F : F = {f \in x.sent : f.station # s}
      OBVIOUS
    <2>7. PICK z : z = [x EXCEPT !.peers[slot] = q, !.drawn = @ + 1, !.left = @ \ {s},
                                 !.sent = F]
      OBVIOUS
    <2>8. /\ z \in ApType /\ z.peers = [x.peers EXCEPT ![slot] = q] /\ z.sent = F
          /\ z.table = x.table /\ z.held = x.held
          /\ z.pending = x.pending /\ z.gtk = x.gtk /\ z.handed = x.handed
          /\ z.drawn = x.drawn + 1
      <3>1. /\ [x.peers EXCEPT ![slot] = q] \in [Slots -> PeerType \cup {NONE}]
            /\ x.left \ {s} \in SUBSET Stations
            /\ F \in SUBSET EapolFrames /\ x.drawn + 1 \in Nat
        <4>1. /\ x.peers \in [Slots -> PeerType \cup {NONE}] /\ x.left \in SUBSET Stations
              /\ x.sent \in SUBSET EapolFrames
          BY <2>3 DEF ApType
        <4> QED BY <2>2, <2>5, <2>6, <4>1
      <3>2. z = [x EXCEPT !.peers = [x.peers EXCEPT ![slot] = q], !.drawn = x.drawn + 1,
                          !.left = x.left \ {s}, !.sent = F]
        BY <2>7
      <3> QED BY <2>3, <3>1, <3>2 DEF ApType
    <2>9. z.peers[slot] = q /\ \A j \in Slots \ {slot} : z.peers[j] = x.peers[j]
      <3>1. DOMAIN x.peers = Slots
        BY <2>3 DEF ApType
      <3> QED BY <2>2, <2>8, <3>1
    <2>10. \A j \in Slots : IsOf(z, j, s) <=> j = slot
      BY <2>5, <2>9 DEF IsOf
    <2>11. \A t \in Stations \ {s} : AgreeOn(t, x, sup, rep, z, sup, rep)
      BY <2>2, <2>5, <2>6, <2>8, <2>9 DEF AgreeOn, IsOf
    <2>12. NoncesDrawn(x, s, sup, rep)
      BY <2>3 DEF StationInv
    <2>13. PeerInv(z, q, sup, rep)
      <3>1. Staged(z, q)
        BY <2>5, <2>8 DEF Staged, Known
      <3>2. \A f \in rep : ~(f.station = q.address /\ f.nonce = q.nonce)
        BY <2>5, <2>12 DEF NoncesDrawn
      <3>3. \A f \in z.sent : f.station # q.address
        BY <2>5, <2>6, <2>8
      <3>4. InTheAir(z, q, rep) /\ Answered(q, sup, rep)
        BY <3>2, <3>3 DEF InTheAir, Answered
      <3>5. <<q.address, q.nonce>> \notin z.handed
        <4>1. PICK h : h = <<q.address, q.nonce>>
          OBVIOUS
        <4>2. h[1] = s /\ h[2] = x.drawn + 1
          BY <2>5, <4>1
        <4> QED BY <2>5, <2>8, <2>12, <4>1, <4>2 DEF NoncesDrawn
      <3>6. Keyed(q, sup) /\ HandedOn(z, q, sup)
        BY <2>5, <3>5 DEF Keyed, HandedOn
      <3> QED BY <2>5, <3>1, <3>4, <3>6 DEF PeerInv
    <2>14. ~Wanted(z, s) /\ ~Wanted(x, s)
      BY <2>5, <2>9, <2>10 DEF Wanted
    <2>15. EntryInv(z, s) /\ HeldInv(z, s)
      BY <2>3, <2>8, <2>14 DEF StationInv, EntryInv, HeldInv, Known, Dozing
    <2>16. NoncesDrawn(z, s, sup, rep)
      <3>1. sup[s].nonce \in Nat /\ (\A f \in rep : f.nonce \in Nat)
            /\ (\A f \in x.sent : f.nonce \in Nat) /\ (\A h \in x.handed : h[2] \in Nat)
        BY <2>3 DEF Typed, Supplicants, EapolFrames, ApType
      <3> QED BY <2>5, <2>6, <2>8, <2>12, <3>1 DEF NoncesDrawn
    <2>17. StationInv(z, s, sup, rep)
      BY <2>9, <2>10, <2>13, <2>15, <2>16 DEF StationInv
    <2>18. Typed(z, sup, rep)
      BY <2>3, <2>8 DEF Typed
    <2>19. Good(z, sup, rep, Stations)
      BY <2>11, <2>15, <2>17, <2>18, LocalStep
    <2>20. IsOf(z, slot, s) /\ z.peers[slot].stage = "SentMessage1"
      BY <2>2, <2>5, <2>9, <2>10
    <2>21. Good(SendMessage1(z, s, TRUE), sup, rep, Stations)
      BY <2>2, <2>19, <2>20, Message1Good
    <2>22. BeginHandshake(x, s) = SendMessage1(z, s, TRUE)
      BY <1>1, <1>3, <2>1, <2>4, <2>6, <2>7 DEF BeginHandshake
    <2> QED BY <2>21, <2>22
  <1> QED BY <1>2, <1>3

(* A station's entry written anew, with nothing held and no peer. *)
LEMMA EntryGood ==
  ASSUME NEW x, NEW sup, NEW rep, Good(x, sup, rep, Stations), NEW s \in Stations,
         \A i \in Slots : ~IsOf(x, i, s), x.held[s] = 0,
         NEW e \in Entries, ~e.power_save, e.state # "Connected", e.queued = 0,
         NEW y, y = [x EXCEPT !.table[s] = e]
  PROVE  /\ Good(y, sup, rep, Stations) /\ Known(y, s) /\ ~Dozing(y, s)
         /\ y.table[s] = e
         /\ \A i \in Slots : ~IsOf(y, i, s)
  <1>1. x \in ApType /\ Typed(x, sup, rep) /\ StationInv(x, s, sup, rep)
    BY DEF Good, Typed
  <1>2. /\ y \in ApType /\ y.table = [x.table EXCEPT ![s] = e]
        /\ y.peers = x.peers /\ y.held = x.held /\ y.sent = x.sent
        /\ y.pending = x.pending /\ y.gtk = x.gtk /\ y.handed = x.handed
        /\ y.drawn = x.drawn /\ x.drawn \in Nat
    BY <1>1 DEF ApType
  <1>3. y.table[s] = e /\ e # NONE /\ \A t \in Stations \ {s} : y.table[t] = x.table[t]
    BY <1>1, <1>2, NoneAssumption DEF ApType
  <1>4. \A i \in Slots : ~IsOf(y, i, s)
    BY <1>2 DEF IsOf
  <1>5. ~Wanted(y, s) /\ Known(y, s) /\ ~Dozing(y, s)
    BY <1>3, <1>4 DEF Wanted, Known, Dozing
  <1>6. EntryInv(y, s) /\ HeldInv(y, s)
    BY <1>2, <1>3, <1>5 DEF EntryInv, HeldInv
  <1>7. StationInv(y, s, sup, rep)
    BY <1>1, <1>2, <1>4, <1>6 DEF StationInv, NoncesDrawn
  <1>8. \A t \in Stations \ {s} : AgreeOn(t, x, sup, rep, y, sup, rep)
    BY <1>2, <1>3 DEF AgreeOn
  <1>9. Typed(y, sup, rep)
    BY <1>1, <1>2 DEF Typed
  <1>10. Good(y, sup, rep, Stations)
    BY <1>6, <1>7, <1>8, <1>9, LocalStep
  <1> QED BY <1>3, <1>4, <1>5, <1>10


-----------------------------------------------------------------------------
(* The turns *)

(* The sweeps that end a turn of ap_task keep it.                          *)
LEMMA TurnGood ==
  ASSUME NEW x, Good(x, supplicant, replies, Stations), EndTurn(x),
         UNCHANGED <<supplicant, replies>>
  PROVE  IInv'
  <1>1. PICK gone \in SUBSET Stations : ap' = Forget(x, gone)
    BY DEF EndTurn
  <1>2. Good(Forget(x, gone), supplicant, replies, Stations)
    BY ForgetGood
  <1> QED BY <1>1, <1>2 DEF IInv

(* A beacon's turn keeps it.                                               *)
LEMMA BeaconGood ==
  ASSUME IInv, NEW dtim \in BOOLEAN, NEW i \in Slots \cup {0}, NEW up \in BOOLEAN,
         Beacon(dtim, i, up)
  PROVE  IInv'
  <1>1. PICK released : released = IF dtim THEN ReleaseGroup(ap) ELSE ap
    OBVIOUS
  <1>2. PICK resent : resent = ResendDue(released, i)
    OBVIOUS
  <1>3. PICK turned : turned = IF resent.rekey_due \/ up THEN BeginRekey(resent) ELSE resent
    OBVIOUS
  <1>4. ap \in ApType /\ Good(ap, supplicant, replies, Stations)
    BY DEF IInv, Good, Typed
  <1>5. Good(released, supplicant, replies, Stations) /\ released.peers = ap.peers
    <2>1. Good([ap EXCEPT !.group = 0], supplicant, replies, Stations)
      BY <1>4, GroupGood
    <2>2. [ap EXCEPT !.group = 0].peers = ap.peers
      BY <1>4 DEF ApType
    <2> QED BY <1>1, <1>4, <2>1, <2>2 DEF ReleaseGroup
  <1>6. i # 0 => MayBeDue(released, i)
    BY <1>5 DEF Beacon, MayBeDue
  <1>7. Good(resent, supplicant, replies, Stations)
    BY <1>2, <1>5, <1>6, ResendGood
  <1>8. Good(turned, supplicant, replies, Stations)
    <2>1. Good(BeginRekey(resent), supplicant, replies, Stations)
      BY <1>7, RekeyGood
    <2> QED BY <1>3, <1>7, <2>1
  <1>9. EndTurn(turned) /\ UNCHANGED <<supplicant, replies>>
    BY <1>1, <1>2, <1>3 DEF Beacon
  <1> QED BY <1>8, <1>9, TurnGood

(* An authentication request's turn keeps it.                              *)
LEMMA AuthenticateGood ==
  ASSUME IInv, NEW s \in Stations, NEW open_system \in BOOLEAN, Authenticate(s, open_system)
  PROVE  IInv'
  <1>1. PICK x : x = Forget(ap, {s})
    OBVIOUS
  <1>2. /\ Good(x, supplicant, replies, Stations) /\ x.held[s] = 0
        /\ \A i \in Slots : ~IsOf(x, i, s)
    BY <1>1, ForgetGood DEF IInv
  <1>3. PICK e : e = [state |-> "Authenticated", power_save |-> FALSE, queued |-> 0]
    OBVIOUS
  <1>4. e \in Entries /\ ~e.power_save /\ e.state = "Authenticated" /\ e.queued = 0
    <2>1. PICK no \in BOOLEAN : no = FALSE
      OBVIOUS
    <2>2. e = [state |-> "Authenticated", power_save |-> no, queued |-> 0]
      BY <1>3, <2>1
    <2>3. e \in Entries /\ e.power_save = no /\ e.state = "Authenticated" /\ e.queued = 0
      BY <2>2 DEF Entries
    <2> QED BY <2>1, <2>3
  <1>5. PICK y : y = [x EXCEPT !.table[s] = e]
    OBVIOUS
  <1>6. Good(y, supplicant, replies, Stations)
    BY <1>2, <1>4, <1>5, EntryGood
  <1>7. (EndTurn(x) \/ EndTurn(y)) /\ UNCHANGED <<supplicant, replies>>
    BY <1>1, <1>3, <1>5 DEF Authenticate
  <1> QED BY <1>2, <1>6, <1>7, TurnGood

(* An association request's turn keeps it, in order.                       *)
LEMMA AssociateGood ==
  ASSUME IInv, ~OutOfOrder, NEW s \in Stations, NEW accepted \in BOOLEAN, Associate(s, accepted)
  PROVE  IInv'
  <1>1. /\ Good(ap, supplicant, replies, Stations) /\ Known(ap, s)
        /\ ap.table[s].state = "Authenticated" /\ ap \in ApType
        /\ StationInv(ap, s, supplicant, replies) /\ HeldInv(ap, s)
    BY DEF IInv, Good, Typed, Associate
  <1>2. \A i \in Slots : ~IsOf(ap, i, s)
    BY <1>1 DEF StationInv, PeerInv, Staged, IsOf
  <1>3. ap.table[s] \in Entries
    BY <1>1 DEF Known, ApType
  <1>4. ~ap.table[s].power_save /\ ~Dozing(ap, s) /\ ~Wanted(ap, s)
    BY <1>1, <1>2 DEF StationInv, EntryInv, Dozing, Wanted
  <1>5. ap.held[s] = 0 /\ ap.table[s].queued = 0
    <2>1. ap.held[s] \in Nat
      BY <1>1 DEF ApType
    <2> QED BY <1>1, <1>4, <2>1 DEF HeldInv, StationInv, EntryInv
  <1>6. PICK heard : heard = [ap EXCEPT !.table[s].power_save = FALSE]
    OBVIOUS
  <1>7. heard = ap
    <2>1. ap.table[s].power_save = FALSE
      BY <1>3, <1>4 DEF Entries
    <2>2. [ap.table[s] EXCEPT !.power_save = FALSE] = ap.table[s]
      BY <1>3, <2>1 DEF Entries
    <2>3. heard = [ap EXCEPT !.table = [ap.table EXCEPT ![s] = ap.table[s]]]
      BY <1>6, <2>2
    <2>4. [ap.table EXCEPT ![s] = ap.table[s]] = ap.table
      BY <1>1 DEF ApType
    <2> QED BY <1>1, <2>3, <2>4 DEF ApType
  <1>8. CASE accepted
    <2>1. PICK e : e = [ap.table[s] EXCEPT !.state = "Associated"]
      OBVIOUS
    <2>2. /\ e \in Entries /\ e.state = "Associated"
          /\ e.power_save = ap.table[s].power_save /\ e.queued = ap.table[s].queued
      BY <1>3, <2>1 DEF Entries
    <2>3. PICK y : y = [ap EXCEPT !.table[s] = e]
      OBVIOUS
    <2>4. /\ Good(y, supplicant, replies, Stations) /\ Known(y, s) /\ ~Dozing(y, s)
          /\ y.table[s].state = "Associated" /\ \A i \in Slots : ~IsOf(y, i, s)
      <3>1. ~e.power_save /\ e.state # "Connected" /\ e.queued = 0
        BY <1>4, <1>5, <2>2
      <3>2. /\ Good(y, supplicant, replies, Stations) /\ Known(y, s) /\ ~Dozing(y, s)
            /\ y.table[s] = e /\ \A i \in Slots : ~IsOf(y, i, s)
        <4>1. e \in Entries
          BY <2>2
        <4>2. /\ Good(ap, supplicant, replies, Stations) /\ ap.held[s] = 0
          BY <1>1, <1>5
        <4>3. Good(y, supplicant, replies, Stations)
          BY <1>2, <2>3, <3>1, <4>1, <4>2, EntryGood
        <4>4. Known(y, s) /\ ~Dozing(y, s)
          BY <1>2, <2>3, <3>1, <4>1, <4>2, EntryGood
        <4>5. y.table[s] = e
          BY <1>1, <2>3 DEF ApType
        <4>6. \A i \in Slots : ~IsOf(y, i, s)
          BY <1>2, <2>3, <3>1, <4>1, <4>2, EntryGood
        <4> QED BY <4>3, <4>4, <4>5, <4>6
      <3> QED BY <2>2, <3>2
    <2>5. Good(BeginHandshake(y, s), supplicant, replies, Stations)
      BY <2>4, BeginGood
    <2>6. y = [heard EXCEPT !.table[s].state = "Associated"]
      BY <1>7, <2>1, <2>3
    <2>7. EndTurn(BeginHandshake(y, s)) /\ UNCHANGED <<supplicant, replies>>
      BY <1>6, <1>8, <2>6 DEF Associate
    <2> QED BY <2>5, <2>7, TurnGood
  <1>9. CASE ~accepted
    <2>1. EndTurn(ap) /\ UNCHANGED <<supplicant, replies>>
      BY <1>6, <1>7, <1>9 DEF Associate
    <2> QED BY <1>1, <2>1, TurnGood
  <1> QED BY <1>8, <1>9

(* A PS-Poll's turn keeps it.                                              *)
LEMMA PollGood ==
  ASSUME IInv, NEW s \in Stations, PsPoll(s)
  PROVE  IInv'
  <1>1. PICK y : y = [ap EXCEPT !.table[s].power_save = TRUE]
    OBVIOUS
  <1>2. PICK yes \in BOOLEAN : yes = TRUE
    OBVIOUS
  <1>3. /\ Good(ap, supplicant, replies, Stations) /\ Known(ap, s)
        /\ ap.table[s].state # "Authenticated"
    BY DEF IInv, PsPoll
  <1>4. y = [ap EXCEPT !.table[s].power_save = yes]
    BY <1>1, <1>2
  <1>5. /\ Good(y, supplicant, replies, Stations)
        /\ Dozing(y, s) <=> yes
    <2>1. Heard(ap, s, yes) = y
      BY <1>2, <1>4 DEF Heard
    <2>2. Good(Heard(ap, s, yes), supplicant, replies, Stations)
      <3>1. yes \in BOOLEAN
        BY <1>2
      <3> QED BY <1>3, <3>1, HeardGood
    <2>3. Dozing(y, s) <=> yes
      <3>1. ap \in ApType /\ ap.table[s] \in Entries
        BY <1>3 DEF Good, Typed, ApType, Known
      <3>2. PICK e : e = [ap.table[s] EXCEPT !.power_save = yes]
        OBVIOUS
      <3>3. e \in Entries /\ e.power_save = yes
        BY <1>2, <3>1, <3>2 DEF Entries
      <3>4. y = [ap EXCEPT !.table = [ap.table EXCEPT ![s] = e]]
        BY <1>4, <3>2
      <3>5. y.table[s] = e
        BY <3>1, <3>4 DEF ApType
      <3> QED BY <3>3, <3>5, NoneAssumption DEF Dozing, Known
    <2> QED BY <2>1, <2>2, <2>3
  <1>6. Good(ReleaseOne(y, s), supplicant, replies, Stations)
    <2>1. Good(y, supplicant, replies, Stations) /\ Dozing(y, s)
      BY <1>2, <1>5
    <2> QED BY <2>1, ReleaseOneGood
  <1>7. EndTurn(ReleaseOne(y, s)) /\ UNCHANGED <<supplicant, replies>>
    BY <1>1 DEF PsPoll
  <1> QED BY <1>6, <1>7, TurnGood

(* A frame of a station that has associated, and what is heard of it. *)
LEMMA SenderGood ==
  ASSUME IInv, ~OutOfOrder, NEW s \in Stations, NEW ps \in BOOLEAN, MaySend(s, ps)
  PROVE  /\ Good(Heard(ap, s, ps), supplicant, replies, Stations)
         /\ HasPeer(Heard(ap, s, ps), s) <=> HasPeer(ap, s)
  <1>1. PICK x : x = Heard(ap, s, ps)
    OBVIOUS
  <1>2. /\ Good(x, supplicant, replies, Stations)
        /\ \A i \in Slots : IsOf(x, i, s) <=> IsOf(ap, i, s)
    BY <1>1, HeardGood DEF MaySend, IInv
  <1>3. /\ HasPeer(x, s) <=> \E i \in Slots : IsOf(x, i, s)
        /\ HasPeer(ap, s) <=> \E i \in Slots : IsOf(ap, i, s)
    BY <1>2, PeerFacts DEF IInv
  <1> QED BY <1>1, <1>2, <1>3

(* A data frame's turn keeps it, with or without a handshake answer in it. *)
LEMMA DataGood ==
  ASSUME IInv, ~OutOfOrder, NEW s \in Stations, NEW ps \in BOOLEAN,
         \/ Data(s, ps)
         \/ \E to \in Stations \cup {NONE} : Forward(s, ps, to)
         \/ EapolData(s, ps)
         \/ \E f \in replies : GroupEapolData(s, ps, f)
  PROVE  IInv'
  <1>1. PICK x : x = Heard(ap, s, ps)
    OBVIOUS
  <1>2. /\ Good(x, supplicant, replies, Stations)
        /\ HasPeer(x, s) <=> HasPeer(ap, s)
    BY <1>1, SenderGood DEF Data, Forward, EapolData, GroupEapolData
  <1>3. CASE Data(s, ps)
    BY <1>1, <1>2, <1>3, TurnGood DEF Data
  <1>4. ASSUME NEW to \in Stations \cup {NONE}, Forward(s, ps, to)
        PROVE  IInv'
    <2>1. Good(Deliver(x, to), supplicant, replies, Stations)
      BY <1>2, DeliverGood
    <2> QED BY <1>1, <1>4, <2>1, TurnGood DEF Forward
  <1>5. CASE EapolData(s, ps)
    <2>1. Good(Eapol(x, s), supplicant, replies, Stations)
      BY <1>2, <1>5, EapolGood DEF EapolData
    <2> QED BY <1>1, <1>5, <2>1, TurnGood DEF EapolData
  <1>6. ASSUME NEW f \in replies, GroupEapolData(s, ps, f)
        PROVE  IInv'
    <2>1. Good(GroupEapol(x, s, f), supplicant, replies \ {f}, Stations)
      BY <1>2, <1>6, GroupEapolGood DEF GroupEapolData
    <2>2. PICK gone \in SUBSET Stations : ap' = Forget(GroupEapol(x, s, f), gone)
      BY <1>1, <1>6 DEF GroupEapolData, EndTurn
    <2>3. Good(ap', supplicant, replies \ {f}, Stations)
      BY <2>1, <2>2, ForgetGood
    <2> QED BY <1>6, <2>3 DEF GroupEapolData, IInv
  <1> QED BY <1>3, <1>4, <1>5, <1>6

-----------------------------------------------------------------------------
(* The specification keeps the invariant *)

(* host_on starts in the invariant.                                        *)
LEMMA Starts == Init => IInv
  <1> SUFFICES ASSUME Init PROVE IInv
    OBVIOUS
  <1>1. PICK no \in BOOLEAN : no = FALSE
    OBVIOUS
  <1>2. /\ ap = [table |-> [s \in Stations |-> NONE], peers |-> [i \in Slots |-> NONE],
                 gtk |-> 0, pending |-> NONE, rekey_due |-> no,
                 held |-> [s \in Stations |-> 0], group |-> 0, sent |-> {}, drawn |-> 0,
                 newest |-> 0, handed |-> {}, left |-> {}]
        /\ supplicant = [s \in Stations |-> [nonce |-> 0, floor |-> 0, keys |-> {}]]
        /\ replies = {}
    BY <1>1 DEF Init, Booted, NoSupplicant
  <1>3. Typed(ap, supplicant, replies)
    BY <1>2 DEF Typed, ApType, Supplicants
  <1>4. /\ \A i \in Slots : ap.peers[i] = NONE
        /\ \A s \in Stations : ap.table[s] = NONE /\ ap.held[s] = 0 /\ supplicant[s].nonce = 0
        /\ ap.sent = {} /\ ap.handed = {} /\ ap.drawn = 0
    BY <1>2
  <1>5. \A s \in Stations : ~Known(ap, s) /\ ~Wanted(ap, s) /\ \A i \in Slots : ~IsOf(ap, i, s)
    BY <1>4 DEF Known, Wanted, IsOf
  <1>6. \A s \in Stations : NoncesDrawn(ap, s, supplicant, replies)
    BY <1>2, <1>4 DEF NoncesDrawn
  <1> QED BY <1>3, <1>4, <1>5, <1>6 DEF IInv, Good, StationInv, EntryInv, HeldInv

(* Every turn and every answer of a station keeps the invariant.           *)
LEMMA Kept == ~OutOfOrder /\ IInv /\ [Next]_vars => IInv'
  <1> SUFFICES ASSUME ~OutOfOrder, IInv, [Next]_vars PROVE IInv'
    OBVIOUS
  <1>1. ASSUME NEW dtim \in BOOLEAN, NEW up \in BOOLEAN, NEW i \in Slots \cup {0},
               Beacon(dtim, i, up)
        PROVE  IInv'
    BY <1>1, BeaconGood
  <1>2. ASSUME NEW on \in BOOLEAN, SetBeaconing(on)
        PROVE  IInv'
    BY <1>2 DEF SetBeaconing, IInv
  <1>3. ASSUME NEW to \in Stations \cup {NONE}, FromStack(to)
        PROVE  IInv'
    <2>1. Good(Deliver(ap, to), supplicant, replies, Stations)
      BY DeliverGood DEF IInv
    <2> QED BY <1>3, <2>1, TurnGood DEF FromStack
  <1>4. ASSUME NEW s \in Stations, NEW open_system \in BOOLEAN, Authenticate(s, open_system)
        PROVE  IInv'
    BY <1>4, AuthenticateGood
  <1>5. ASSUME NEW s \in Stations, NEW accepted \in BOOLEAN, Associate(s, accepted)
        PROVE  IInv'
    BY <1>5, AssociateGood
  <1>6. ASSUME NEW s \in Stations, Leave(s)
        PROVE  IInv'
    <2>1. Good(Forget(ap, {s}), supplicant, replies, Stations)
      BY ForgetGood DEF IInv
    <2> QED BY <1>6, <2>1, TurnGood DEF Leave
  <1>7. ASSUME NEW s \in Stations, PsPoll(s)
        PROVE  IInv'
    BY <1>7, PollGood
  <1>8. ASSUME NEW s \in Stations, NEW ps \in BOOLEAN,
               \/ Data(s, ps)
               \/ \E to \in Stations \cup {NONE} : Forward(s, ps, to)
               \/ EapolData(s, ps)
               \/ \E f \in replies : GroupEapolData(s, ps, f)
        PROVE  IInv'
    BY <1>8, DataGood
  <1>9. ASSUME NEW f \in ap.sent, AnswerMessage1(f)
        PROVE  IInv'
    BY <1>9, Answer1Good
  <1>10. ASSUME NEW f \in ap.sent, AnswerKeys(f, "m3", "m4") \/ AnswerKeys(f, "g1", "g2")
         PROVE  IInv'
    BY <1>10, AnswerKeysGood
  <1>11. CASE UNCHANGED vars
    BY <1>11 DEF vars, IInv
  <1> QED BY <1>1, <1>2, <1>3, <1>4, <1>5, <1>6, <1>7, <1>8, <1>9, <1>10, <1>11 DEF Next

(* The invariant holds throughout, of stations that associate in order.    *)
THEOREM Invariance == ~OutOfOrder => (Spec => []IInv)
  <1> SUFFICES ASSUME ~OutOfOrder PROVE Spec => []IInv
    OBVIOUS
  <1>1. IInv /\ [Next]_vars => IInv'
    BY Kept
  <1> QED BY Starts, <1>1, PTL DEF Spec

(* Type correctness, whatever is held, drawn and sent.                     *)
THEOREM TypeCorrect == ~OutOfOrder => (Spec => []TypeOK)
  <1> SUFFICES ASSUME ~OutOfOrder PROVE Spec => []TypeOK
    OBVIOUS
  <1>1. Init => beaconing \in BOOLEAN
    BY DEF Init
  <1>2. beaconing \in BOOLEAN /\ [Next]_vars => (beaconing \in BOOLEAN)'
    <2> SUFFICES ASSUME beaconing \in BOOLEAN, [Next]_vars PROVE beaconing' \in BOOLEAN
      OBVIOUS
    <2>1. CASE Next
      BY <2>1 DEF Next, Beacon, SetBeaconing, FromStack, Authenticate, Associate, Leave, PsPoll,
                  Data, Forward, EapolData, GroupEapolData, AnswerMessage1, AnswerKeys
    <2>2. CASE UNCHANGED vars
      BY <2>2 DEF vars
    <2> QED BY <2>1, <2>2
  <1>3. IInv /\ beaconing \in BOOLEAN => TypeOK
    BY DEF IInv, Good, Typed, TypeOK
  <1>4. Spec => []IInv
    BY Invariance
  <1> QED BY <1>1, <1>2, <1>3, <1>4, PTL DEF Spec

(* A station that counts as connected has the key the access point has, in *)
(* however many associations and whatever is lost, repeated or late.       *)
THEOREM KeysOnBothSides == ~OutOfOrder => (Spec => []StationsKeyed)
  <1> SUFFICES ASSUME ~OutOfOrder PROVE Spec => []StationsKeyed
    OBVIOUS
  <1>1. IInv => StationsKeyed
    <2> SUFFICES ASSUME IInv PROVE StationsKeyed
      OBVIOUS
    <2>1. KeysAgree
      <3> SUFFICES ASSUME NEW i \in Slots, ap.peers[i] # NONE, ap.peers[i].key_slot
                   PROVE  /\ supplicant[ap.peers[i].address].nonce = ap.peers[i].nonce
                          /\ supplicant[ap.peers[i].address].floor > 0
        BY DEF KeysAgree
      <3>1. PICK s : s = ap.peers[i].address
        OBVIOUS
      <3>2. s \in Stations /\ IsOf(ap, i, s)
        BY <3>1 DEF IInv, Good, Typed, ApType, PeerType, IsOf
      <3>3. PeerInv(ap, ap.peers[i], supplicant, replies)
        BY <3>2, PeerFacts DEF IInv
      <3> QED BY <3>3 DEF PeerInv, Keyed
    <2>2. ConnectedIffKeyed
      <3> SUFFICES ASSUME NEW s \in Stations
                   PROVE  (Known(ap, s) /\ ap.table[s].state = "Connected")
                            <=> (HasPeer(ap, s) /\ Peer(ap, s).key_slot)
        BY DEF ConnectedIffKeyed
      <3>1. CASE \E i \in Slots : IsOf(ap, i, s)
        <4>1. PICK i \in Slots : IsOf(ap, i, s)
          BY <3>1
        <4>2. HasPeer(ap, s) /\ Peer(ap, s) = ap.peers[i]
              /\ PeerInv(ap, ap.peers[i], supplicant, replies) /\ ap.peers[i].address = s
          BY <4>1, PeerFacts DEF IInv, IsOf
        <4> QED BY <4>2 DEF PeerInv, Staged
      <3>2. CASE ~\E i \in Slots : IsOf(ap, i, s)
        <4>1. ~HasPeer(ap, s)
          BY <3>2, PeerFacts DEF IInv
        <4>2. EntryInv(ap, s)
          BY DEF IInv, Good, StationInv
        <4> QED BY <3>2, <4>1, <4>2 DEF EntryInv
      <3> QED BY <3>1, <3>2
    <2> QED BY <2>1, <2>2 DEF StationsKeyed
  <1>2. Spec => []IInv
    BY Invariance
  <1> QED BY <1>1, <1>2, PTL

(* When group frames switch to a rotation's key, whoever was handed it and *)
(* is still in that association has it.                                    *)
THEOREM RotationReaches == ~OutOfOrder => (Spec => []RecipientsHaveKey)
  <1> SUFFICES ASSUME ~OutOfOrder PROVE Spec => []RecipientsHaveKey
    OBVIOUS
  <1>1. IInv => RecipientsHaveKey
    <2> SUFFICES ASSUME IInv, ap.pending = NONE, NEW i \in Slots, ap.peers[i] # NONE,
                        <<ap.peers[i].address, ap.peers[i].nonce>> \in ap.handed
                 PROVE  ap.gtk \in supplicant[ap.peers[i].address].keys
      BY DEF RecipientsHaveKey
    <2>1. PICK s : s = ap.peers[i].address
      OBVIOUS
    <2>2. s \in Stations /\ IsOf(ap, i, s)
      BY <2>1 DEF IInv, Good, Typed, ApType, PeerType, IsOf
    <2>3. PeerInv(ap, ap.peers[i], supplicant, replies)
      BY <2>2, PeerFacts DEF IInv
    <2> QED BY <2>3 DEF PeerInv, HandedOn
  <1>2. Spec => []IInv
    BY Invariance
  <1> QED BY <1>1, <1>2, PTL

(* The TIM announces exactly what is held, and nothing is held for a       *)
(* station that is awake.                                                  *)
THEOREM Announced == ~OutOfOrder => (Spec => []HeldAndAnnounced)
  <1> SUFFICES ASSUME ~OutOfOrder PROVE Spec => []HeldAndAnnounced
    OBVIOUS
  <1>1. IInv => HeldAndAnnounced
    <2> SUFFICES ASSUME IInv PROVE HeldAndAnnounced
      OBVIOUS
    <2>1. \A s \in Stations : Waits(ap, s) <=> Wanted(ap, s)
      BY WaitsIsWanted DEF IInv, Good, StationInv
    <2>2. \A s \in Stations : EntryInv(ap, s) /\ HeldInv(ap, s)
      BY DEF IInv, Good, StationInv
    <2>3. TimExact
      BY <2>1, <2>2 DEF TimExact, EntryInv
    <2>4. HeldOnlyWhileDozing
      BY <2>1, <2>2 DEF HeldOnlyWhileDozing, HeldInv
    <2> QED BY <2>3, <2>4 DEF HeldAndAnnounced
  <1>2. Spec => []IInv
    BY Invariance
  <1> QED BY <1>1, <1>2, PTL
=============================================================================
