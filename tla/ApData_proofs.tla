---------------------------- MODULE ApData_proofs ----------------------------
(***************************************************************************)
(* The access point's data path keeps its promises, for every number of    *)
(* stations, traffic identifiers, frames, joins and rekeys: no nonce twice *)
(* under one key, no honest frame taken for a replay, none handed up       *)
(* twice, and a rate ladder that neither leaves its rungs nor loses a      *)
(* station to a rate it does not hear.                                     *)
(***************************************************************************)
EXTENDS ApData, FiniteSetTheorems, TLAPS

Ladders == [rung : Nat, streak : Nat, top : Nat]
MemberType == [joined : BOOLEAN, mcs : Nat \cup {-1}, key : Nat, tx : Nat,
               rx : [Tids -> Int], ladder : Ladders]
Nonces == {"group", "pairwise"} \X Nat \X Nat
ApRecords == [members : [Members -> MemberType], keys : Nat, gtk : Nat, gpn : Nat,
              nonces : SUBSET Nonces, reused : BOOLEAN, mistaken : BOOLEAN,
              losses : [Members -> Nat]]

(* No two stations share a pairwise key, and every key was counted. *)
KeysApart(a) ==
  \A s \in Members :
    /\ a.members[s].key <= a.keys
    /\ \A u \in Members : s # u /\ a.members[s].key # 0 => a.members[s].key # a.members[u].key

(* What was sent under the group's key is numbered up to its counter, and  *)
(* what was sent under a station's key up to that station's.               *)
GroupBelow(a) ==
  \A g, pn \in Nat : <<"group", g, pn>> \in a.nonces => g <= a.gtk /\ (g = a.gtk => pn <= a.gpn)

PairwiseBelow(a) ==
  \A k, pn \in Nat : <<"pairwise", k, pn>> \in a.nonces =>
    k # 0 /\ k <= a.keys /\ \A s \in Members : a.members[s].key = k => pn <= a.members[s].tx

NoncesBelow(a) == ~a.reused /\ KeysApart(a) /\ GroupBelow(a) /\ PairwiseBelow(a)

(* A ladder is its station's; a frame lost is a rung gone down, and none   *)
(* is lost from a rung the station hears.                                  *)
LadderSound(m, losses) ==
  /\ m.ladder.top = NewLadder(m.mcs).top
  /\ losses + m.ladder.rung <= m.ladder.top
  /\ losses # 0 => hears <= m.ladder.rung

LaddersSound(a) == \A s \in Members : LadderSound(a.members[s], a.losses[s])

Setting == build \in Builds /\ hears \in Nat

-----------------------------------------------------------------------------
(* The ladder *)

(* A new ladder is sound, in every build.                                  *)
LEMMA LadderStarts ==
  ASSUME Setting, NEW mcs \in Nat \cup {-1}
  PROVE  /\ NewLadder(mcs) \in Ladders
         /\ NewLadder(mcs).rung <= NewLadder(mcs).top
  BY DataAssumption DEF Setting, NewLadder, NewLadderCrate, NewLadderBench, LadderTo, Ladders

(* An acknowledged frame keeps a ladder sound.                             *)
LEMMA LadderClimbs ==
  ASSUME NEW l \in Ladders, l.rung <= l.top
  PROVE  /\ Acknowledged(l) \in Ladders /\ Acknowledged(l).top = l.top
         /\ Acknowledged(l).rung <= l.top
  <1>1. CASE l.streak + 1 >= UP_AFTER /\ l.rung < l.top
    <2>1. PICK up \in Nat : up = l.rung + 1
      BY DEF Ladders
    <2>2. PICK n \in Nat : n = 0
      OBVIOUS
    <2>3. Acknowledged(l) = [l EXCEPT !.rung = up, !.streak = n]
      BY <1>1, <2>1, <2>2 DEF Acknowledged
    <2>4. Acknowledged(l) \in Ladders /\ Acknowledged(l).top = l.top /\ Acknowledged(l).rung = up
      BY <2>3 DEF Ladders
    <2>5. up <= l.top
      BY <1>1, <2>1 DEF Ladders
    <2> QED BY <2>4, <2>5
  <1>2. CASE ~(l.streak + 1 >= UP_AFTER /\ l.rung < l.top)
    <2>1. PICK n \in Nat : n = IF l.streak < UP_AFTER THEN l.streak + 1 ELSE l.streak
      BY DEF Ladders
    <2>2. Acknowledged(l) = [l EXCEPT !.streak = n]
      BY <1>2, <2>1 DEF Acknowledged
    <2> QED BY <2>2 DEF Ladders
  <1> QED BY <1>1, <1>2

(* A lost frame keeps a ladder sound, and is one step of the way down.     *)
LEMMA LadderFalls ==
  ASSUME NEW l \in Ladders
  PROVE  /\ Lost(l) \in Ladders /\ Lost(l).top = l.top
         /\ Lost(l).rung = IF l.rung > 0 THEN l.rung - 1 ELSE 0
  <1>1. PICK down \in Nat : down = IF l.rung > 0 THEN l.rung - 1 ELSE 0
    BY DEF Ladders
  <1>2. PICK n \in Nat : n = 0
    OBVIOUS
  <1>3. Lost(l) = [l EXCEPT !.streak = n, !.rung = down]
    BY <1>1, <1>2 DEF Lost
  <1> QED BY <1>1, <1>3 DEF Ladders

(* What a station's ladder learns from one frame. *)
LEMMA LearnsLadder ==
  ASSUME Setting, NEW m \in MemberType, NEW n \in Nat, LadderSound(m, n),
         NEW acked \in BOOLEAN, acked <=> m.ladder.rung <= hears,
         NEW l, l = IF acked THEN Acknowledged(m.ladder) ELSE Lost(m.ladder),
         NEW q, q = [m EXCEPT !.ladder = l],
         NEW k, k = IF acked THEN 0 ELSE n + 1
  PROVE  q \in MemberType /\ k \in Nat /\ LadderSound(q, k)
         /\ q.key = m.key /\ q.tx = m.tx /\ q.rx = m.rx /\ q.joined = m.joined
  <1>1. m.ladder \in Ladders /\ m.ladder.rung <= m.ladder.top
    BY DEF MemberType, LadderSound, Ladders
  <1>2. l \in Ladders /\ l.top = m.ladder.top
    BY <1>1, LadderClimbs, LadderFalls
  <1>3. /\ q \in MemberType /\ q.ladder = l /\ q.mcs = m.mcs
        /\ q.key = m.key /\ q.tx = m.tx /\ q.rx = m.rx /\ q.joined = m.joined
    BY <1>2 DEF MemberType
  <1>4. k + l.rung <= l.top /\ (k # 0 => hears <= l.rung)
    <2>1. CASE acked
      BY <1>1, <1>2, <2>1, LadderClimbs DEF Ladders
    <2>2. CASE ~acked
      BY <1>1, <1>2, <2>2, LadderFalls DEF Ladders, LadderSound, Setting
    <2> QED BY <2>1, <2>2
  <1> QED BY <1>2, <1>3, <1>4 DEF LadderSound

-----------------------------------------------------------------------------
(* One station's entry, and its account *)

ApSound(a) == a \in ApRecords /\ NoncesBelow(a) /\ LaddersSound(a)

(* What transmitting leaves alone. *)
Received(a, y) ==
  (y.mistaken <=> a.mistaken) /\ \A s \in Members : y.members[s].rx = a.members[s].rx

WithMember(a, s, m) == [a EXCEPT !.members[s] = m]
WithLosses(a, s, n) == [a EXCEPT !.losses[s] = n]

(* One member's record replaced: nothing else of the access point changes. *)
LEMMA PutMember ==
  ASSUME NEW a \in ApRecords, NEW s \in Members, NEW m \in MemberType,
         NEW y, y = WithMember(a, s, m)
  PROVE  /\ y \in ApRecords /\ y.members[s] = m
         /\ \A u \in Members : u # s => y.members[u] = a.members[u]
         /\ y.keys = a.keys /\ y.gtk = a.gtk /\ y.gpn = a.gpn /\ y.nonces = a.nonces
         /\ (y.reused <=> a.reused) /\ (y.mistaken <=> a.mistaken) /\ y.losses = a.losses
  <1>1. a.members \in [Members -> MemberType]
    BY DEF ApRecords
  <1>2. PICK M \in [Members -> MemberType] : M = [a.members EXCEPT ![s] = m]
    BY <1>1
  <1>3. M[s] = m /\ \A u \in Members : u # s => M[u] = a.members[u]
    BY <1>1, <1>2
  <1>4. y = [a EXCEPT !.members = M]
    BY <1>2 DEF WithMember
  <1>5. /\ y \in ApRecords /\ y.members = M
        /\ y.keys = a.keys /\ y.gtk = a.gtk /\ y.gpn = a.gpn /\ y.nonces = a.nonces
        /\ y.reused = a.reused /\ y.mistaken = a.mistaken /\ y.losses = a.losses
    BY <1>4 DEF ApRecords
  <1> QED BY <1>3, <1>5

(* One member's losses counted: nothing else of the access point changes.  *)
LEMMA PutLosses ==
  ASSUME NEW a \in ApRecords, NEW s \in Members, NEW n \in Nat,
         NEW y, y = WithLosses(a, s, n)
  PROVE  /\ y \in ApRecords /\ y.losses[s] = n
         /\ \A u \in Members : u # s => y.losses[u] = a.losses[u]
         /\ y.keys = a.keys /\ y.gtk = a.gtk /\ y.gpn = a.gpn /\ y.nonces = a.nonces
         /\ (y.reused <=> a.reused) /\ (y.mistaken <=> a.mistaken) /\ y.members = a.members
  <1>1. a.losses \in [Members -> Nat]
    BY DEF ApRecords
  <1>2. PICK L \in [Members -> Nat] : L = [a.losses EXCEPT ![s] = n]
    BY <1>1
  <1>3. L[s] = n /\ \A u \in Members : u # s => L[u] = a.losses[u]
    BY <1>1, <1>2
  <1>4. y = [a EXCEPT !.losses = L]
    BY <1>2 DEF WithLosses
  <1>5. /\ y \in ApRecords /\ y.losses = L
        /\ y.keys = a.keys /\ y.gtk = a.gtk /\ y.gpn = a.gpn /\ y.nonces = a.nonces
        /\ y.reused = a.reused /\ y.mistaken = a.mistaken /\ y.members = a.members
    BY <1>4 DEF ApRecords
  <1> QED BY <1>3, <1>5

(* What a transmission's outcome teaches a ladder keeps the access point   *)
(* sound and leaves the receive side alone.                                *)
LEMMA LearnsKeep ==
  ASSUME Setting, NEW a, ApSound(a), NEW to \in Members, NEW acked \in BOOLEAN,
         acked <=> a.members[to].ladder.rung <= hears
  PROVE  ApSound(Learns(a, to, acked)) /\ Received(a, Learns(a, to, acked))
  <1>1. a \in ApRecords /\ NoncesBelow(a) /\ LaddersSound(a)
    BY DEF ApSound
  <1>2. PICK m \in MemberType : m = a.members[to]
    BY <1>1 DEF ApRecords
  <1>3. PICK n \in Nat : n = a.losses[to]
    BY <1>1 DEF ApRecords
  <1>4. PICK l : l = IF acked THEN Acknowledged(m.ladder) ELSE Lost(m.ladder)
    OBVIOUS
  <1>5. PICK q : q = [m EXCEPT !.ladder = l]
    OBVIOUS
  <1>6. PICK k : k = IF acked THEN 0 ELSE n + 1
    OBVIOUS
  <1>7. /\ q \in MemberType /\ k \in Nat /\ LadderSound(q, k)
        /\ q.key = m.key /\ q.tx = m.tx /\ q.rx = m.rx
    <2>1. LadderSound(m, n)
      BY <1>1, <1>2, <1>3 DEF LaddersSound
    <2> QED BY <1>2, <1>4, <1>5, <1>6, <2>1, LearnsLadder
  <1>8. PICK z : z = WithLosses(a, to, k)
    OBVIOUS
  <1>9. /\ z \in ApRecords /\ z.losses[to] = k
        /\ \A u \in Members : u # to => z.losses[u] = a.losses[u]
        /\ z.keys = a.keys /\ z.gtk = a.gtk /\ z.gpn = a.gpn /\ z.nonces = a.nonces
        /\ (z.reused <=> a.reused) /\ (z.mistaken <=> a.mistaken) /\ z.members = a.members
    BY <1>1, <1>7, <1>8, PutLosses
  <1>10. PICK y : y = WithMember(z, to, q)
    OBVIOUS
  <1>11. /\ y \in ApRecords /\ y.members[to] = q
         /\ \A u \in Members : u # to => y.members[u] = z.members[u]
         /\ y.keys = z.keys /\ y.gtk = z.gtk /\ y.gpn = z.gpn /\ y.nonces = z.nonces
         /\ (y.reused <=> z.reused) /\ (y.mistaken <=> z.mistaken) /\ y.losses = z.losses
    <2>1. z \in ApRecords /\ q \in MemberType
      BY <1>7, <1>9
    <2> QED BY <1>10, <2>1, PutMember
  <1>12. Learns(a, to, acked) = y
    BY <1>1, <1>2, <1>3, <1>4, <1>5, <1>6, <1>8, <1>10 DEF Learns, ApRecords, WithMember, WithLosses
  <1>13. \A s \in Members : /\ y.members[s].key = a.members[s].key
                            /\ y.members[s].tx = a.members[s].tx
                            /\ y.members[s].rx = a.members[s].rx
    BY <1>2, <1>7, <1>9, <1>11
  <1>14. NoncesBelow(y)
    BY <1>1, <1>9, <1>11, <1>13 DEF NoncesBelow, KeysApart, GroupBelow, PairwiseBelow
  <1>15. LaddersSound(y)
    BY <1>1, <1>7, <1>9, <1>11 DEF LaddersSound
  <1>16. Received(a, y)
    BY <1>9, <1>11, <1>13 DEF Received
  <1> QED BY <1>11, <1>12, <1>14, <1>15, <1>16 DEF ApSound

-----------------------------------------------------------------------------
(* Packet numbers *)

(* A frame aired under a nonce not used before: the nonce is recorded and  *)
(* nothing else changes.                                                   *)
LEMMA AirsOne ==
  ASSUME NEW a \in ApRecords, NEW nonce \in Nonces, nonce \notin a.nonces,
         NEW y, y = Airs(a, nonce)
  PROVE  /\ y \in ApRecords /\ y.nonces = a.nonces \cup {nonce}
         /\ y.members = a.members /\ y.losses = a.losses
         /\ y.keys = a.keys /\ y.gtk = a.gtk /\ y.gpn = a.gpn
         /\ (y.reused <=> a.reused) /\ (y.mistaken <=> a.mistaken)
  <1>1. PICK again \in BOOLEAN : again = a.reused
    BY DEF ApRecords
  <1>2. PICK N \in SUBSET Nonces : N = a.nonces \cup {nonce}
    BY DEF ApRecords
  <1>3. (a.reused \/ nonce \in a.nonces) = again
    BY <1>1
  <1>4. y = [a EXCEPT !.nonces = N, !.reused = again]
    BY <1>2, <1>3, Zenon DEF Airs
  <1>5. /\ y \in ApRecords /\ y.nonces = N /\ y.reused = again
        /\ y.members = a.members /\ y.losses = a.losses
        /\ y.keys = a.keys /\ y.gtk = a.gtk /\ y.gpn = a.gpn /\ y.mistaken = a.mistaken
    BY <1>4 DEF ApRecords
  <1> QED BY <1>1, <1>2, <1>5

(* A group frame goes out under a number above all before it. *)
LEMMA GroupAirs ==
  ASSUME NEW a, ApSound(a), NEW y,
         y = Airs([a EXCEPT !.gpn = @ + 1], <<"group", a.gtk, a.gpn + 1>>)
  PROVE  ApSound(y) /\ Received(a, y)
  <1>1. a \in ApRecords /\ NoncesBelow(a) /\ LaddersSound(a)
    BY DEF ApSound
  <1>2. PICK pn \in Nat : pn = a.gpn + 1
    BY <1>1 DEF ApRecords
  <1>3. PICK z : z = [a EXCEPT !.gpn = pn]
    OBVIOUS
  <1>4. /\ z \in ApRecords /\ z.gpn = pn
        /\ z.members = a.members /\ z.losses = a.losses /\ z.nonces = a.nonces
        /\ z.keys = a.keys /\ z.gtk = a.gtk /\ z.reused = a.reused /\ z.mistaken = a.mistaken
    BY <1>1, <1>3 DEF ApRecords
  <1>5. PICK g \in Nat : g = a.gtk
    BY <1>1 DEF ApRecords
  <1>6. PICK nonce \in Nonces : nonce = <<"group", g, pn>>
    BY DEF Nonces
  <1>7. y = Airs(z, nonce)
    BY <1>1, <1>2, <1>3, <1>5, <1>6 DEF ApRecords
  <1>8. nonce \notin z.nonces
    <2>1. a.gpn \in Nat
      BY <1>1 DEF ApRecords
    <2> QED BY <1>1, <1>2, <1>4, <1>5, <1>6, <2>1 DEF NoncesBelow, GroupBelow
  <1>9. /\ y \in ApRecords /\ y.nonces = z.nonces \cup {nonce}
        /\ y.members = z.members /\ y.losses = z.losses
        /\ y.keys = z.keys /\ y.gtk = z.gtk /\ y.gpn = z.gpn
        /\ (y.reused <=> z.reused) /\ (y.mistaken <=> z.mistaken)
    BY <1>4, <1>7, <1>8, AirsOne
  <1>10. ~y.reused /\ KeysApart(y)
    BY <1>1, <1>4, <1>9 DEF NoncesBelow, KeysApart
  <1>11. GroupBelow(y)
    <2> SUFFICES ASSUME NEW h \in Nat, NEW n \in Nat, <<"group", h, n>> \in y.nonces
                 PROVE  h <= y.gtk /\ (h = y.gtk => n <= y.gpn)
      BY DEF GroupBelow
    <2>1. a.gpn \in Nat
      BY <1>1 DEF ApRecords
    <2>2. CASE <<"group", h, n>> \in a.nonces
      BY <1>1, <1>2, <1>4, <1>9, <2>1, <2>2 DEF NoncesBelow, GroupBelow
    <2>3. CASE <<"group", h, n>> = nonce
      BY <1>4, <1>5, <1>6, <1>9, <2>3
    <2> QED BY <1>4, <1>9, <2>2, <2>3
  <1>12. PairwiseBelow(y)
    <2> SUFFICES ASSUME NEW k \in Nat, NEW n \in Nat, <<"pairwise", k, n>> \in y.nonces
                 PROVE  k # 0 /\ k <= y.keys
                        /\ \A s \in Members : y.members[s].key = k => n <= y.members[s].tx
      BY DEF PairwiseBelow
    <2>1. <<"pairwise", k, n>> # nonce
      BY <1>6
    <2>2. <<"pairwise", k, n>> \in a.nonces
      BY <1>4, <1>9, <2>1
    <2> QED BY <1>1, <1>4, <1>9, <2>2 DEF NoncesBelow, PairwiseBelow
  <1>13. LaddersSound(y)
    BY <1>1, <1>4, <1>9 DEF LaddersSound
  <1>14. Received(a, y)
    BY <1>4, <1>9 DEF Received
  <1> QED BY <1>9, <1>10, <1>11, <1>12, <1>13, <1>14 DEF ApSound, NoncesBelow

(* The stations' keys stay apart where none of them changes.               *)
LEMMA KeysApartKept ==
  ASSUME NEW a, NEW y, KeysApart(a), y.keys = a.keys,
         \A s \in Members : y.members[s].key = a.members[s].key
  PROVE  KeysApart(y)
  BY DEF KeysApart

(* A station's frame goes out under its own key and the next of its        *)
(* numbers.                                                                *)
LEMMA PairwiseAirs ==
  ASSUME NEW a, ApSound(a), NEW to \in Members, a.members[to].key # 0, NEW y,
         y = Airs([a EXCEPT !.members[to].tx = @ + 1],
                  <<"pairwise", a.members[to].key, a.members[to].tx + 1>>)
  PROVE  /\ ApSound(y) /\ Received(a, y)
         /\ \A s \in Members : y.members[s].ladder = a.members[s].ladder
  <1>1. a \in ApRecords /\ NoncesBelow(a) /\ LaddersSound(a)
    BY DEF ApSound
  <1>2. PICK m \in MemberType : m = a.members[to]
    BY <1>1 DEF ApRecords
  <1>3. PICK pn \in Nat : pn = m.tx + 1
    BY DEF MemberType
  <1>4. PICK q : q = [m EXCEPT !.tx = pn]
    OBVIOUS
  <1>5. /\ q \in MemberType /\ q.tx = pn /\ q.key = m.key /\ q.rx = m.rx
        /\ q.ladder = m.ladder /\ q.mcs = m.mcs
    BY <1>4 DEF MemberType
  <1>6. PICK z : z = WithMember(a, to, q)
    OBVIOUS
  <1>7. /\ z \in ApRecords /\ z.members[to] = q
        /\ \A u \in Members : u # to => z.members[u] = a.members[u]
        /\ z.keys = a.keys /\ z.gtk = a.gtk /\ z.gpn = a.gpn /\ z.nonces = a.nonces
        /\ (z.reused <=> a.reused) /\ (z.mistaken <=> a.mistaken) /\ z.losses = a.losses
    BY <1>1, <1>5, <1>6, PutMember
  <1>8. PICK k \in Nat : k = m.key
    BY DEF MemberType
  <1>9. PICK nonce \in Nonces : nonce = <<"pairwise", k, pn>>
    BY DEF Nonces
  <1>10. y = Airs(z, nonce)
    BY <1>1, <1>2, <1>3, <1>4, <1>6, <1>8, <1>9 DEF ApRecords, WithMember
  <1>11. m.tx \in Nat /\ k # 0
    BY <1>2, <1>8 DEF MemberType
  <1>12. nonce \notin z.nonces
    BY <1>1, <1>2, <1>3, <1>7, <1>8, <1>9, <1>11 DEF NoncesBelow, PairwiseBelow
  <1>13. /\ y \in ApRecords /\ y.nonces = z.nonces \cup {nonce}
         /\ y.members = z.members /\ y.losses = z.losses
         /\ y.keys = z.keys /\ y.gtk = z.gtk /\ y.gpn = z.gpn
         /\ (y.reused <=> z.reused) /\ (y.mistaken <=> z.mistaken)
    <2>1. z \in ApRecords
      BY <1>7
    <2> QED BY <1>10, <1>12, <2>1, AirsOne
  <1>14. \A s \in Members : /\ y.members[s].key = a.members[s].key
                            /\ y.members[s].rx = a.members[s].rx
                            /\ y.members[s].ladder = a.members[s].ladder
                            /\ y.members[s].mcs = a.members[s].mcs
    BY <1>2, <1>5, <1>7, <1>13
  <1>15. ~y.reused /\ KeysApart(y)
    <2>1. ~y.reused
      BY <1>1, <1>7, <1>13 DEF NoncesBelow
    <2>2. y.keys = a.keys
      BY <1>7, <1>13
    <2>3. KeysApart(a)
      BY <1>1 DEF NoncesBelow
    <2> QED BY <1>14, <2>1, <2>2, <2>3, KeysApartKept
  <1>16. GroupBelow(y)
    <2> SUFFICES ASSUME NEW h \in Nat, NEW n \in Nat, <<"group", h, n>> \in y.nonces
                 PROVE  h <= y.gtk /\ (h = y.gtk => n <= y.gpn)
      BY DEF GroupBelow
    <2>1. <<"group", h, n>> # nonce
      BY <1>9
    <2>2. <<"group", h, n>> \in a.nonces
      BY <1>7, <1>13, <2>1
    <2> QED BY <1>1, <1>7, <1>13, <2>2 DEF NoncesBelow, GroupBelow
  <1>17. PairwiseBelow(y)
    <2> SUFFICES ASSUME NEW j \in Nat, NEW n \in Nat, <<"pairwise", j, n>> \in y.nonces
                 PROVE  j # 0 /\ j <= y.keys
                        /\ \A s \in Members : y.members[s].key = j => n <= y.members[s].tx
      BY DEF PairwiseBelow
    <2>1. CASE <<"pairwise", j, n>> \in a.nonces
      <3>1. j # 0 /\ j <= y.keys
        BY <1>1, <1>7, <1>13, <2>1 DEF NoncesBelow, PairwiseBelow
      <3>2. ASSUME NEW s \in Members, y.members[s].key = j PROVE n <= y.members[s].tx
        <4>1. n <= a.members[s].tx
          BY <1>1, <1>14, <2>1, <3>2 DEF NoncesBelow, PairwiseBelow
        <4> QED BY <1>2, <1>3, <1>5, <1>7, <1>11, <1>13, <4>1
      <3> QED BY <3>1, <3>2
    <2>2. CASE <<"pairwise", j, n>> = nonce
      <3>1. j = k /\ n = pn
        BY <1>9, <2>2
      <3>2. k <= a.keys
        BY <1>1, <1>2, <1>8 DEF NoncesBelow, KeysApart
      <3>3. ASSUME NEW s \in Members, y.members[s].key = j PROVE n <= y.members[s].tx
        <4>1. s = to
          BY <1>1, <1>2, <1>8, <1>11, <1>14, <3>1, <3>3 DEF NoncesBelow, KeysApart
        <4> QED BY <1>5, <1>7, <1>13, <3>1, <4>1
      <3> QED BY <1>7, <1>11, <1>13, <3>1, <3>2, <3>3
    <2> QED BY <1>7, <1>13, <2>1, <2>2
  <1>18. LaddersSound(y)
    <2>1. y.losses = a.losses
      BY <1>7, <1>13
    <2> SUFFICES ASSUME NEW s \in Members PROVE LadderSound(y.members[s], y.losses[s])
      BY DEF LaddersSound
    <2>2. LadderSound(a.members[s], a.losses[s])
      BY <1>1 DEF LaddersSound
    <2> QED BY <1>14, <2>1, <2>2 DEF LadderSound
  <1>19. Received(a, y)
    BY <1>7, <1>13, <1>14 DEF Received
  <1> QED BY <1>13, <1>14, <1>15, <1>16, <1>17, <1>18, <1>19 DEF ApSound, NoncesBelow

(* What leaves the receive side alone twice leaves it alone.               *)
LEMMA ReceivedOn ==
  ASSUME NEW a, NEW y, NEW z, Received(a, y), Received(y, z)
  PROVE  Received(a, z)
  BY DEF Received

(* transmit, in each build, keeps the access point sound.                  *)
LEMMA TransmitKeeps ==
  ASSUME Setting, NEW a, ApSound(a), NEW to \in Members \cup {Group}, NEW acked \in BOOLEAN,
         to # Group => (acked <=> a.members[to].ladder.rung <= hears)
  PROVE  ApSound(Transmit(a, to, acked)) /\ Received(a, Transmit(a, to, acked))
  <1>1. ApSound(TransmitSecured(a, to, acked)) /\ Received(a, TransmitSecured(a, to, acked))
    <2>1. CASE to = Group
      <3>1. PICK y : y = Airs([a EXCEPT !.gpn = @ + 1], <<"group", a.gtk, a.gpn + 1>>)
        OBVIOUS
      <3>2. TransmitSecured(a, to, acked) = y
        BY <2>1, <3>1 DEF TransmitSecured
      <3> QED BY <3>1, <3>2, GroupAirs
    <2>2. CASE to # Group /\ a.members[to].key = 0
      <3>1. TransmitSecured(a, to, acked) = a
        BY <2>2 DEF TransmitSecured
      <3> QED BY <3>1 DEF Received
    <2>3. CASE to # Group /\ a.members[to].key # 0
      <3>1. PICK y : y = Airs([a EXCEPT !.members[to].tx = @ + 1],
                              <<"pairwise", a.members[to].key, a.members[to].tx + 1>>)
        OBVIOUS
      <3>2. TransmitSecured(a, to, acked) = Learns(y, to, acked)
        BY <2>3, <3>1 DEF TransmitSecured
      <3>3. /\ ApSound(y) /\ Received(a, y)
            /\ \A s \in Members : y.members[s].ladder = a.members[s].ladder
        BY <2>3, <3>1, PairwiseAirs
      <3>4. acked <=> y.members[to].ladder.rung <= hears
        BY <2>3, <3>3
      <3>5. ApSound(Learns(y, to, acked)) /\ Received(y, Learns(y, to, acked))
        BY <2>3, <3>3, <3>4, LearnsKeep
      <3> QED BY <3>2, <3>3, <3>5, ReceivedOn
    <2> QED BY <2>1, <2>2, <2>3
  <1>2. ApSound(TransmitOpen(a, to, acked)) /\ Received(a, TransmitOpen(a, to, acked))
    <2>1. CASE to # Group /\ a.members[to].joined
      <3>1. TransmitOpen(a, to, acked) = Learns(a, to, acked)
        BY <2>1 DEF TransmitOpen
      <3> QED BY <2>1, <3>1, LearnsKeep
    <2>2. CASE ~(to # Group /\ a.members[to].joined)
      <3>1. TransmitOpen(a, to, acked) = a
        BY <2>2 DEF TransmitOpen
      <3> QED BY <3>1 DEF Received
    <2> QED BY <2>1, <2>2
  <1>3. build \in {"crate", "crate_open", "wpa2_ap", "open_ap"}
    BY DataAssumption DEF Setting
  <1>4. CASE build \in {"crate", "wpa2_ap"}
    <2>1. Transmit(a, to, acked) = TransmitSecured(a, to, acked)
      BY <1>4 DEF Transmit, TransmitBench
    <2> QED BY <1>1, <2>1
  <1>5. CASE build = "crate_open"
    <2>1. Transmit(a, to, acked) = TransmitOpen(a, to, acked)
      BY <1>5 DEF Transmit
    <2> QED BY <1>2, <2>1
  <1>6. CASE build = "open_ap"
    <2>1. Transmit(a, to, acked) = a
      BY <1>6 DEF Transmit, SendData
    <2> QED BY <2>1 DEF Received
  <1> QED BY <1>3, <1>4, <1>5, <1>6

(* A turn of the group's key: every station's handed its copy under its    *)
(* own next number, and the new key's count begins.                        *)
LEMMA TurnKeeps ==
  ASSUME NEW y, ApSound(ap), y = [HandedOut EXCEPT !.gtk = @ + 1, !.gpn = 0]
  PROVE  ApSound(y) /\ Received(ap, y)
  <1>1. ap \in ApRecords /\ NoncesBelow(ap) /\ LaddersSound(ap)
    BY DEF ApSound
  <1> DEFINE HandedTo(s) == IF s \in Keyed THEN [ap.members[s] EXCEPT !.tx = @ + 1]
                           ELSE ap.members[s]
  <1>2. PICK M : M = [s \in Members |-> HandedTo(s)]
    OBVIOUS
  <1>3. ASSUME NEW s \in Members
        PROVE  /\ M[s] \in MemberType /\ M[s].key = ap.members[s].key
               /\ M[s].rx = ap.members[s].rx /\ M[s].ladder = ap.members[s].ladder
               /\ M[s].mcs = ap.members[s].mcs
               /\ ap.members[s].tx \in Nat
               /\ M[s].tx = IF s \in Keyed THEN ap.members[s].tx + 1 ELSE ap.members[s].tx
    <2>1. PICK m \in MemberType : m = ap.members[s]
      BY <1>1 DEF ApRecords
    <2>2. PICK pn \in Nat : pn = m.tx + 1
      BY DEF MemberType
    <2>3. M[s] = IF s \in Keyed THEN [m EXCEPT !.tx = pn] ELSE m
      BY <1>2, <2>1, <2>2
    <2> QED BY <2>1, <2>2, <2>3 DEF MemberType
  <1>4. PICK sent : sent = {<<"pairwise", ap.members[s].key, ap.members[s].tx + 1>> : s \in Keyed}
    OBVIOUS
  <1>5. sent \subseteq Nonces /\ sent \cap ap.nonces = {}
    <2> SUFFICES ASSUME NEW n \in sent PROVE n \in Nonces /\ n \notin ap.nonces
      OBVIOUS
    <2>1. PICK s \in Members : n = <<"pairwise", ap.members[s].key, ap.members[s].tx + 1>>
      BY <1>4 DEF Keyed
    <2>2. PICK k \in Nat : k = ap.members[s].key
      BY <1>1 DEF ApRecords, MemberType
    <2>3. PICK pn \in Nat : pn = ap.members[s].tx + 1
      BY <1>3
    <2>4. ~(pn <= ap.members[s].tx)
      BY <1>3, <2>3
    <2>5. n = <<"pairwise", k, pn>>
      BY <2>1, <2>2, <2>3
    <2> QED BY <1>1, <2>2, <2>4, <2>5 DEF Nonces, NoncesBelow, PairwiseBelow
  <1>6. PICK again \in BOOLEAN : again = ap.reused
    BY <1>1 DEF ApRecords
  <1>7. (ap.reused \/ sent \cap ap.nonces # {}) = again
    BY <1>5, <1>6
  <1>8. PICK N \in SUBSET Nonces : N = ap.nonces \cup sent
    BY <1>1, <1>5 DEF ApRecords
  <1>9. HandedOut = [ap EXCEPT !.members = M, !.nonces = N, !.reused = again]
    BY <1>2, <1>4, <1>7, <1>8, Zenon DEF HandedOut
  <1>10. PICK g \in Nat : g = ap.gtk + 1
    BY <1>1 DEF ApRecords
  <1>11. M \in [Members -> MemberType]
    BY <1>2, <1>3
  <1>12. PICK h : h = HandedOut
    OBVIOUS
  <1>13. /\ h \in ApRecords /\ h.members = M /\ h.nonces = N /\ h.reused = again
         /\ h.keys = ap.keys /\ h.gtk = ap.gtk /\ h.losses = ap.losses
         /\ h.mistaken = ap.mistaken
    BY <1>1, <1>9, <1>11, <1>12 DEF ApRecords
  <1>14. PICK zero \in Nat : zero = 0
    OBVIOUS
  <1>15. y = [h EXCEPT !.gtk = g, !.gpn = zero]
    BY <1>10, <1>12, <1>13, <1>14 DEF ApRecords
  <1>16. /\ y \in ApRecords /\ y.members = M /\ y.nonces = N /\ y.reused = again
         /\ y.keys = ap.keys /\ y.gtk = g /\ y.gpn = 0 /\ y.losses = ap.losses
         /\ y.mistaken = ap.mistaken
    BY <1>13, <1>14, <1>15 DEF ApRecords
  <1>17. ~y.reused /\ KeysApart(y)
    <2>1. ~y.reused
      BY <1>1, <1>6, <1>16 DEF NoncesBelow
    <2> QED BY <1>1, <1>3, <1>16, <2>1 DEF NoncesBelow, KeysApart
  <1>18. ap.gtk \in Nat /\ ap.gtk < g
    BY <1>1, <1>10 DEF ApRecords
  <1>19. GroupBelow(y)
    <2> SUFFICES ASSUME NEW j \in Nat, NEW n \in Nat, <<"group", j, n>> \in y.nonces
                 PROVE  j <= y.gtk /\ (j = y.gtk => n <= y.gpn)
      BY DEF GroupBelow
    <2>1. <<"group", j, n>> \notin sent
      BY <1>4
    <2>2. <<"group", j, n>> \in ap.nonces
      BY <1>8, <1>16, <2>1
    <2>3. j <= ap.gtk
      BY <1>1, <2>2 DEF NoncesBelow, GroupBelow
    <2> QED BY <1>16, <1>18, <2>3
  <1>20. PairwiseBelow(y)
    <2> SUFFICES ASSUME NEW j \in Nat, NEW n \in Nat, <<"pairwise", j, n>> \in y.nonces
                 PROVE  j # 0 /\ j <= ap.keys
                        /\ \A s \in Members : ap.members[s].key = j => n <= M[s].tx
      BY <1>3, <1>16 DEF PairwiseBelow
    <2>1. CASE <<"pairwise", j, n>> \in ap.nonces
      <3>1. /\ j # 0 /\ j <= ap.keys
            /\ \A s \in Members : ap.members[s].key = j => n <= ap.members[s].tx
        BY <1>1, <2>1 DEF NoncesBelow, PairwiseBelow
      <3> QED BY <1>3, <3>1
    <2>2. CASE <<"pairwise", j, n>> \in sent
      <3>1. PICK u \in Keyed :
              <<"pairwise", j, n>> = <<"pairwise", ap.members[u].key, ap.members[u].tx + 1>>
        BY <1>4, <2>2
      <3>2. j = ap.members[u].key /\ n = ap.members[u].tx + 1
        BY <3>1
      <3>3. u \in Members /\ ap.members[u].key # 0
        BY DEF Keyed
      <3>4. ASSUME NEW s \in Members, ap.members[s].key = j PROVE n <= M[s].tx
        <4>1. s = u
          BY <1>1, <3>2, <3>3, <3>4 DEF NoncesBelow, KeysApart
        <4> QED BY <1>3, <3>2, <3>3, <4>1
      <3>5. j # 0 /\ j <= ap.keys
        BY <1>1, <3>2, <3>3 DEF NoncesBelow, KeysApart
      <3> QED BY <3>4, <3>5
    <2> QED BY <1>8, <1>16, <2>1, <2>2
  <1>21. LaddersSound(y)
    <2> SUFFICES ASSUME NEW s \in Members PROVE LadderSound(y.members[s], y.losses[s])
      BY DEF LaddersSound
    <2>1. LadderSound(ap.members[s], ap.losses[s])
      BY <1>1 DEF LaddersSound
    <2> QED BY <1>3, <1>16, <2>1 DEF LadderSound
  <1>22. Received(ap, y)
    BY <1>3, <1>16 DEF Received
  <1> QED BY <1>16, <1>17, <1>19, <1>20, <1>21, <1>22 DEF ApSound, NoncesBelow

-----------------------------------------------------------------------------
(* Up: the queues, the counters and what the stack was given *)

Frames == [from : Members, key : Nat, pn : Nat, to : Members \cup {Ap, Group}, retry : BOOLEAN]

(* A queue is in the order of its numbers.  What was not sent before is    *)
(* above its counter; what was, at the head, is no longer fresh.           *)
FrameSound(q, i, rx, t) ==
  /\ q[i].pn <= ups
  /\ q[i].retry => i = 1
  /\ ~q[i].retry => rx[t] < q[i].pn
  /\ q[i].retry /\ Secured => \E u \in Tids : q[i].pn <= rx[u]
  /\ q[i].retry /\ build = "crate" => q[i].pn <= rx[t]
  /\ \A j \in 1 .. Len(q) : i < j => q[i].pn < q[j].pn

QueuesSound ==
  \A s \in Members, t \in Tids : \A i \in 1 .. Len(waves[s][t]) :
    FrameSound(waves[s][t], i, ap.members[s].rx, t)

(* Two queues share no number. *)
QueuesApart ==
  \A s, u \in Members, t, v \in Tids :
    \A i \in 1 .. Len(waves[s][t]), j \in 1 .. Len(waves[u][v]) :
      waves[s][t][i].pn = waves[u][v][j].pn => s = u /\ t = v

(* What the stack was given, or waits for it: nothing that is still to be  *)
(* sent for the first time.                                                *)
GivenUp == got \o upward

GivenBefore ==
  \A k \in 1 .. Len(GivenUp) :
    /\ GivenUp[k] <= ups
    /\ \A s \in Members, t \in Tids : \A i \in 1 .. Len(waves[s][t]) :
         ~waves[s][t][i].retry => GivenUp[k] # waves[s][t][i].pn

PathTyped ==
  /\ waves \in [Members -> [Tids -> Seq(Frames)]]
  /\ ups \in Nat /\ got \in Seq(Nat) /\ upward \in Seq(Nat)
  /\ \A s \in Members, t \in Tids : ap.members[s].rx[t] <= ups

PathSound ==
  PathTyped /\ QueuesSound /\ QueuesApart /\ GivenBefore /\ OncePerFrame /\ NotTakenForReplay

DataInv == Setting /\ ApSound(ap) /\ PathSound

(* What is appended to the second of two queues is appended to both.       *)
LEMMA AppendOn ==
  ASSUME NEW p \in Seq(Nat), NEW q \in Seq(Nat), NEW x \in Nat
  PROVE  p \o Append(q, x) = Append(p \o q, x)
  OBVIOUS

(* What neither a queue nor the number appended to it is, is not in it.    *)
LEMMA AppendMisses ==
  ASSUME NEW D \in Seq(Nat), NEW x \in Nat, NEW pn, pn # x,
         \A k \in 1 .. Len(D) : D[k] # pn,
         NEW E, E = Append(D, x), NEW n \in 1 .. Len(E)
  PROVE  E[n] # pn
  <1>1. CASE n \in 1 .. Len(D)
    BY <1>1
  <1>2. CASE n = Len(D) + 1
    BY <1>2
  <1> QED BY <1>1, <1>2

(* The head of a queue moved to the end of the queue before it.            *)
LEMMA TakeOn ==
  ASSUME NEW p \in Seq(Nat), NEW q \in Seq(Nat), q # <<>>
  PROVE  Append(p, Head(q)) \o Tail(q) = p \o q
  OBVIOUS

(* A step that touches neither the queues nor the counters. *)
LEMMA PathLeft ==
  ASSUME DataInv, ApSound(ap)', Received(ap, ap'), UNCHANGED <<build, hears, waves, ups, got, upward>>
  PROVE  DataInv'
  <1>1. PathTyped /\ QueuesSound /\ QueuesApart /\ GivenBefore /\ OncePerFrame /\ NotTakenForReplay
    BY DEF DataInv, PathSound
  <1>2. PathTyped'
    BY <1>1 DEF PathTyped, Received
  <1>3. QueuesSound'
    BY <1>1 DEF QueuesSound, FrameSound, Received, Secured
  <1>4. QueuesApart' /\ GivenBefore' /\ OncePerFrame'
    BY <1>1 DEF QueuesApart, GivenBefore, GivenUp, OncePerFrame, Secured
  <1>5. NotTakenForReplay'
    BY <1>1 DEF NotTakenForReplay, Received
  <1>6. Setting'
    BY DEF Setting, DataInv
  <1> QED BY <1>2, <1>3, <1>4, <1>5, <1>6 DEF DataInv, PathSound

(* A member acknowledges exactly the frames at a rate it hears.            *)
LEMMA AcksWhatIsHeard ==
  ASSUME Setting, ap \in ApRecords, NEW to \in Members \cup {Group}, NEW acked \in Acks(to)
  PROVE  acked \in BOOLEAN /\ (to # Group => (acked <=> ap.members[to].ladder.rung <= hears))
  <1>1. CASE to = Group
    BY <1>1 DEF Acks
  <1>2. CASE to # Group
    <2>1. ap.members[to].ladder.rung \in Nat /\ hears \in Nat
      BY <1>2 DEF ApRecords, MemberType, Ladders, Setting
    <2>2. CASE ap.members[to].ladder.rung > hears
      <3>1. acked = FALSE
        BY <1>2, <2>2, Zenon DEF Acks
      <3>2. ~(ap.members[to].ladder.rung <= hears)
        BY <2>1, <2>2
      <3> QED BY <3>1, <3>2, Zenon
    <2>3. CASE ~(ap.members[to].ladder.rung > hears)
      <3>1. acked = TRUE
        BY <1>2, <2>3, Zenon DEF Acks
      <3>2. ap.members[to].ladder.rung <= hears
        BY <2>1, <2>3
      <3> QED BY <3>1, <3>2, Zenon
    <2> QED BY <2>2, <2>3
  <1> QED BY <1>1, <1>2

(* A frame from the stack keeps the invariant.                             *)
LEMMA FromTheStackKeeps ==
  ASSUME DataInv, NEW to \in Members \cup {Group}, FromTheStack(to)
  PROVE  DataInv'
  <1>1. Setting /\ ApSound(ap) /\ ap \in ApRecords
    BY DEF DataInv, ApSound
  <1>2. PICK acked \in Acks(to) : ap' = Transmit(ap, to, acked)
    BY DEF FromTheStack
  <1>3. acked \in BOOLEAN /\ (to # Group => (acked <=> ap.members[to].ladder.rung <= hears))
    BY <1>1, <1>2, AcksWhatIsHeard
  <1>4. ApSound(ap') /\ Received(ap, ap')
    BY <1>1, <1>2, <1>3, TransmitKeeps
  <1>5. UNCHANGED <<build, hears, waves, ups, got, upward>>
    BY DEF FromTheStack
  <1>6. ApSound(ap)'
    BY <1>4, <1>5 DEF ApSound, NoncesBelow, KeysApart, GroupBelow, PairwiseBelow, LaddersSound,
                      LadderSound, NewLadder
  <1> QED BY <1>4, <1>5, <1>6, PathLeft

(* The turn of the group's key keeps it.                                   *)
LEMMA TurnsKeep ==
  ASSUME DataInv, GroupKeyTurns
  PROVE  DataInv'
  <1>1. ap' = [HandedOut EXCEPT !.gtk = @ + 1, !.gpn = 0]
        /\ UNCHANGED <<build, hears, waves, ups, got, upward>>
    BY DEF GroupKeyTurns
  <1>2. ApSound(ap') /\ Received(ap, ap')
    BY <1>1, TurnKeeps DEF DataInv
  <1>3. ApSound(ap)'
    BY <1>1, <1>2 DEF ApSound, NoncesBelow, KeysApart, GroupBelow, PairwiseBelow, LaddersSound,
                      LadderSound, NewLadder
  <1> QED BY <1>1, <1>2, <1>3, PathLeft

(* A key that was never used before. *)
LEMMA KeyKeeps ==
  ASSUME DataInv, NEW s \in Members, KeyInstalled(s)
  PROVE  DataInv'
  <1>1. ap \in ApRecords /\ NoncesBelow(ap) /\ LaddersSound(ap)
    BY DEF DataInv, ApSound
  <1>2. UNCHANGED <<build, hears, waves, ups, got, upward>>
    BY DEF KeyInstalled
  <1>3. PICK k \in Nat : k = ap.keys + 1
    BY <1>1 DEF ApRecords
  <1>4. PICK m \in MemberType : m = ap.members[s]
    BY <1>1 DEF ApRecords
  <1>5. PICK q : q = [m EXCEPT !.key = k]
    OBVIOUS
  <1>6. /\ q \in MemberType /\ q.key = k /\ q.tx = m.tx /\ q.rx = m.rx
        /\ q.ladder = m.ladder /\ q.mcs = m.mcs
    BY <1>5 DEF MemberType
  <1>7. PICK z : z = WithMember(ap, s, q)
    OBVIOUS
  <1>8. /\ z \in ApRecords /\ z.members[s] = q
        /\ \A u \in Members : u # s => z.members[u] = ap.members[u]
        /\ z.keys = ap.keys /\ z.gtk = ap.gtk /\ z.gpn = ap.gpn /\ z.nonces = ap.nonces
        /\ (z.reused <=> ap.reused) /\ (z.mistaken <=> ap.mistaken) /\ z.losses = ap.losses
    BY <1>1, <1>6, <1>7, PutMember
  <1>9. ap' = [z EXCEPT !.keys = k]
    BY <1>1, <1>3, <1>4, <1>5, <1>7 DEF KeyInstalled, WithMember, ApRecords
  <1>10. PICK y : y = ap'
    OBVIOUS
  <1>11. /\ y \in ApRecords /\ y.keys = k /\ y.members = z.members
         /\ y.gtk = z.gtk /\ y.gpn = z.gpn /\ y.nonces = z.nonces
         /\ y.reused = z.reused /\ y.mistaken = z.mistaken /\ y.losses = z.losses
    BY <1>8, <1>9, <1>10 DEF ApRecords
  <1>12. ap.keys \in Nat /\ \A u \in Members : ap.members[u].key \in Nat
    BY <1>1 DEF ApRecords, MemberType
  <1>13. KeysApart(y)
    <2>1. \A u \in Members : ap.members[u].key <= ap.keys
      BY <1>1 DEF NoncesBelow, KeysApart
    <2> SUFFICES ASSUME NEW v \in Members
                 PROVE  /\ y.members[v].key <= y.keys
                        /\ \A u \in Members : v # u /\ y.members[v].key # 0
                                              => y.members[v].key # y.members[u].key
      BY DEF KeysApart
    <2>2. CASE v = s
      BY <1>3, <1>6, <1>8, <1>11, <1>12, <2>1, <2>2
    <2>3. CASE v # s
      <3>1. y.members[v].key = ap.members[v].key /\ ap.members[v].key < k
        BY <1>3, <1>8, <1>11, <1>12, <2>1, <2>3
      <3>2. \A u \in Members : v # u /\ ap.members[v].key # 0
                               => ap.members[v].key # ap.members[u].key
        BY <1>1 DEF NoncesBelow, KeysApart
      <3>3. \A u \in Members : y.members[u].key = IF u = s THEN k ELSE ap.members[u].key
        BY <1>6, <1>8, <1>11
      <3> QED BY <1>11, <1>12, <3>1, <3>2, <3>3
    <2> QED BY <2>2, <2>3
  <1>14. ~y.reused /\ GroupBelow(y)
    <2>1. ~y.reused
      BY <1>1, <1>8, <1>11 DEF NoncesBelow
    <2>2. y.gtk = ap.gtk /\ y.gpn = ap.gpn /\ y.nonces = ap.nonces
      BY <1>8, <1>11
    <2> QED BY <1>1, <2>1, <2>2 DEF NoncesBelow, GroupBelow
  <1>15. PairwiseBelow(y)
    <2> SUFFICES ASSUME NEW j \in Nat, NEW n \in Nat, <<"pairwise", j, n>> \in y.nonces
                 PROVE  j # 0 /\ j <= y.keys
                        /\ \A u \in Members : y.members[u].key = j => n <= y.members[u].tx
      BY DEF PairwiseBelow
    <2>1. /\ j # 0 /\ j <= ap.keys
          /\ \A u \in Members : ap.members[u].key = j => n <= ap.members[u].tx
      BY <1>1, <1>8, <1>11 DEF NoncesBelow, PairwiseBelow
    <2>2. j < k
      BY <1>3, <1>12, <2>1
    <2> QED BY <1>3, <1>6, <1>8, <1>11, <1>12, <2>1, <2>2
  <1>16. LaddersSound(y)
    <2> SUFFICES ASSUME NEW u \in Members PROVE LadderSound(y.members[u], y.losses[u])
      BY DEF LaddersSound
    <2>1. LadderSound(ap.members[u], ap.losses[u])
      BY <1>1 DEF LaddersSound
    <2>2. y.members[u].ladder = ap.members[u].ladder /\ y.members[u].mcs = ap.members[u].mcs
      BY <1>4, <1>6, <1>8, <1>11
    <2>3. y.losses = ap.losses
      BY <1>8, <1>11
    <2> QED BY <2>1, <2>2, <2>3 DEF LadderSound
  <1>17. Received(ap, y)
    BY <1>4, <1>6, <1>8, <1>11 DEF Received
  <1>18. ApSound(ap)'
    BY <1>2, <1>10, <1>11, <1>13, <1>14, <1>15, <1>16
       DEF ApSound, NoncesBelow, KeysApart, GroupBelow, PairwiseBelow, LaddersSound, LadderSound,
           NewLadder
  <1> QED BY <1>2, <1>10, <1>17, <1>18, PathLeft

(* A new frame has a number above every one before it. *)
LEMMA SendsKeep ==
  ASSUME DataInv, NEW s \in Members, NEW t \in Tids, NEW to \in Members \cup {Ap, Group},
         MemberSends(s, t, to)
  PROVE  DataInv'
  <1>1. /\ PathTyped /\ QueuesSound /\ QueuesApart /\ GivenBefore /\ OncePerFrame
        /\ NotTakenForReplay /\ Setting /\ ApSound(ap) /\ ap \in ApRecords
    BY DEF DataInv, PathSound, ApSound
  <1>2. /\ UNCHANGED <<build, hears, ap, upward, got>> /\ ups' = ups + 1
        /\ ups \in Nat
    BY <1>1 DEF MemberSends, PathTyped
  <1>3. PICK no \in BOOLEAN : no = FALSE
    OBVIOUS
  <1>4. PICK k \in Nat : k = ap.members[s].key
    BY <1>1 DEF ApRecords, MemberType
  <1>5. PICK pn \in Nat : pn = ups + 1
    BY <1>2
  <1>6. PICK f : f = [from |-> s, key |-> k, pn |-> pn, to |-> to, retry |-> no]
    OBVIOUS
  <1>7. f \in Frames /\ f.pn = pn /\ ~f.retry
    BY <1>3, <1>6 DEF Frames
  <1>8. waves' = [waves EXCEPT ![s][t] = Append(@, f)]
    BY <1>2, <1>3, <1>4, <1>5, <1>6, Zenon DEF MemberSends
  <1>9. PICK q \in Seq(Frames) : q = waves[s][t]
    BY <1>1 DEF PathTyped
  <1>10. PICK r : r = Append(q, f)
    OBVIOUS
  <1>11. /\ r \in Seq(Frames) /\ Len(r) = Len(q) + 1 /\ r[Len(r)] = f /\ Len(q) \in Nat
         /\ \A i \in 1 .. Len(q) : r[i] = q[i]
    BY <1>7, <1>10
  <1>12. /\ waves' \in [Members -> [Tids -> Seq(Frames)]]
         /\ waves'[s][t] = r
         /\ \A u \in Members, v \in Tids : u # s \/ v # t => waves'[u][v] = waves[u][v]
    BY <1>1, <1>8, <1>9, <1>10, <1>11 DEF PathTyped
  <1>13. PathTyped'
    <2>1. \A u \in Members, v \in Tids : ap'.members[u].rx[v] <= ups'
      <3> SUFFICES ASSUME NEW u \in Members, NEW v \in Tids PROVE ap.members[u].rx[v] <= ups + 1
        BY <1>2
      <3>1. ap.members[u].rx[v] \in Int /\ ap.members[u].rx[v] <= ups
        BY <1>1 DEF PathTyped, ApRecords, MemberType
      <3> QED BY <1>2, <3>1
    <2> QED BY <1>1, <1>2, <1>12, <2>1 DEF PathTyped
  <1>14. ASSUME NEW u \in Members, NEW v \in Tids, NEW i \in 1 .. Len(waves'[u][v])
         PROVE  /\ \/ i \in 1 .. Len(waves[u][v]) /\ waves'[u][v][i] = waves[u][v][i]
                   \/ u = s /\ v = t /\ i = Len(r) /\ waves'[u][v][i] = f
                /\ i \in 1 .. Len(waves[u][v]) => waves[u][v][i].pn <= ups
                /\ i \in 1 .. Len(waves[u][v]) => waves[u][v][i].pn \in Nat
    <2>1. i \in 1 .. Len(waves[u][v]) => waves[u][v][i].pn <= ups
      BY <1>1 DEF QueuesSound, FrameSound
    <2>2. i \in 1 .. Len(waves[u][v]) => waves[u][v][i].pn \in Nat
      <3>1. PICK w \in Seq(Frames) : w = waves[u][v]
        BY <1>1 DEF PathTyped
      <3>2. i \in 1 .. Len(w) => w[i] \in Frames
        BY <3>1
      <3> QED BY <3>1, <3>2 DEF Frames
    <2>3. CASE u = s /\ v = t
      BY <1>9, <1>11, <1>12, <2>1, <2>2, <2>3
    <2>4. CASE ~(u = s /\ v = t)
      BY <1>12, <2>1, <2>2, <2>4
    <2> QED BY <2>3, <2>4
  <1>15. QueuesSound'
    <2> SUFFICES ASSUME NEW u \in Members, NEW v \in Tids, NEW i \in 1 .. Len(waves'[u][v])
                 PROVE  FrameSound(waves[u][v], i, ap.members[u].rx, v)'
      BY DEF QueuesSound
    <2>1. PICK w : w = waves'[u][v]
      OBVIOUS
    <2>2. PICK rx \in [Tids -> Int] : rx = ap.members[u].rx
      BY <1>1 DEF ApRecords, MemberType
    <2>3. rx[v] <= ups
      BY <1>1, <2>2 DEF PathTyped
    <2>4. ASSUME NEW j \in 1 .. Len(w), i < j PROVE w[i].pn < w[j].pn
      <3>1. CASE j \in 1 .. Len(waves[u][v]) /\ w[j] = waves[u][v][j]
        <4>1. i \in 1 .. Len(waves[u][v])
          BY <1>1, <2>4, <3>1 DEF PathTyped
        <4>2. w[i] = waves[u][v][i]
          BY <1>9, <1>11, <1>14, <2>1, <4>1
        <4> QED BY <1>1, <2>4, <3>1, <4>1, <4>2 DEF QueuesSound, FrameSound
      <3>2. CASE u = s /\ v = t /\ j = Len(r) /\ w[j] = f
        <4>1. i \in 1 .. Len(q)
          BY <1>11, <2>4, <3>2
        <4>2. w[i] = q[i] /\ q[i].pn <= ups /\ q[i].pn \in Nat
          BY <1>9, <1>11, <1>12, <1>14, <2>1, <3>2, <4>1
        <4> QED BY <1>2, <1>5, <1>7, <3>2, <4>2
      <3> QED BY <1>14, <2>1, <3>1, <3>2
    <2>5. CASE i \in 1 .. Len(waves[u][v]) /\ w[i] = waves[u][v][i]
      <3>1. FrameSound(waves[u][v], i, rx, v)
        BY <1>1, <2>2, <2>5 DEF QueuesSound
      <3>2. w[i].pn <= ups + 1
        BY <1>2, <1>14, <2>5
      <3> QED BY <1>2, <2>1, <2>2, <2>4, <2>5, <3>1, <3>2 DEF FrameSound, Secured
    <2>6. CASE u = s /\ v = t /\ i = Len(r) /\ w[i] = f
      <3>1. w[i].pn <= ups + 1 /\ ~w[i].retry /\ rx[v] < w[i].pn
        BY <1>2, <1>5, <1>7, <2>2, <2>3, <2>6
      <3> QED BY <1>2, <2>1, <2>2, <2>4, <3>1 DEF FrameSound
    <2> QED BY <1>14, <2>1, <2>5, <2>6
  <1>16. QueuesApart'
    <2> SUFFICES ASSUME NEW u \in Members, NEW x \in Members, NEW v \in Tids, NEW y \in Tids,
                        NEW i \in 1 .. Len(waves'[u][v]), NEW j \in 1 .. Len(waves'[x][y]),
                        waves'[u][v][i].pn = waves'[x][y][j].pn
                 PROVE  u = x /\ v = y
      BY DEF QueuesApart
    <2>1. CASE i \in 1 .. Len(waves[u][v]) /\ waves'[u][v][i] = waves[u][v][i]
      <3>1. waves'[u][v][i].pn <= ups /\ waves'[u][v][i].pn \in Nat
        BY <1>14, <2>1
      <3>2. waves'[x][y][j] # f
        BY <1>2, <1>5, <1>7, <3>1
      <3>3. j \in 1 .. Len(waves[x][y]) /\ waves'[x][y][j] = waves[x][y][j]
        BY <1>14, <3>2
      <3>4. waves[u][v][i].pn = waves[x][y][j].pn
        BY <2>1, <3>3
      <3> QED BY <1>1, <2>1, <3>3, <3>4 DEF QueuesApart
    <2>2. CASE u = s /\ v = t /\ waves'[u][v][i] = f
      <3>1. ~(j \in 1 .. Len(waves[x][y]) /\ waves'[x][y][j] = waves[x][y][j])
        BY <1>2, <1>5, <1>7, <1>14, <2>2
      <3> QED BY <1>14, <2>2, <3>1
    <2> QED BY <1>14, <2>1, <2>2
  <1>17. GivenBefore'
    <2>1. GivenUp' = GivenUp
      BY <1>2 DEF GivenUp
    <2> SUFFICES ASSUME NEW n \in 1 .. Len(GivenUp)
                 PROVE  /\ GivenUp[n] <= ups + 1
                        /\ \A u \in Members, v \in Tids : \A i \in 1 .. Len(waves'[u][v]) :
                             ~waves'[u][v][i].retry => GivenUp[n] # waves'[u][v][i].pn
      BY <1>2, <2>1 DEF GivenBefore
    <2>2. GivenUp[n] <= ups /\ GivenUp[n] \in Nat
      BY <1>1 DEF GivenBefore, PathTyped, GivenUp
    <2>3. ASSUME NEW u \in Members, NEW v \in Tids, NEW i \in 1 .. Len(waves'[u][v]),
                 ~waves'[u][v][i].retry
          PROVE  GivenUp[n] # waves'[u][v][i].pn
      <3>1. CASE waves'[u][v][i] = f
        BY <1>2, <1>5, <1>7, <2>2, <3>1
      <3>2. CASE i \in 1 .. Len(waves[u][v]) /\ waves'[u][v][i] = waves[u][v][i]
        BY <1>1, <2>3, <3>2 DEF GivenBefore
      <3> QED BY <1>14, <3>1, <3>2
    <2> QED BY <1>2, <2>2, <2>3
  <1>18. OncePerFrame' /\ NotTakenForReplay' /\ Setting' /\ ApSound(ap)'
    BY <1>1, <1>2 DEF OncePerFrame, NotTakenForReplay, Setting, Secured, ApSound, NoncesBelow,
       KeysApart, GroupBelow, PairwiseBelow, LaddersSound, LadderSound, NewLadder
  <1> QED BY <1>13, <1>15, <1>16, <1>17, <1>18 DEF DataInv, PathSound

(* A frame the stack takes keeps it.                                       *)
LEMMA TakesKeep ==
  ASSUME DataInv, StackTakes
  PROVE  DataInv'
  <1>1. /\ PathTyped /\ QueuesSound /\ QueuesApart /\ GivenBefore /\ OncePerFrame
        /\ NotTakenForReplay /\ Setting /\ ApSound(ap)
    BY DEF DataInv, PathSound
  <1>2. /\ UNCHANGED <<build, hears, ap, waves, ups>> /\ upward # <<>>
        /\ upward' = Tail(upward) /\ got' = Append(got, Head(upward))
    BY DEF StackTakes
  <1>3. got' \in Seq(Nat) /\ upward' \in Seq(Nat)
    BY <1>1, <1>2 DEF PathTyped
  <1>4. got' \o upward' = got \o upward
    BY <1>1, <1>2, TakeOn DEF PathTyped
  <1>5. PathTyped' /\ QueuesSound' /\ QueuesApart'
    BY <1>1, <1>2, <1>3 DEF PathTyped, QueuesSound, FrameSound, Secured, QueuesApart
  <1>6. GivenBefore' /\ OncePerFrame'
    BY <1>1, <1>2, <1>4, SMTT(60) DEF GivenBefore, GivenUp, OncePerFrame, Secured
  <1>7. NotTakenForReplay' /\ Setting' /\ ApSound(ap)'
    BY <1>1, <1>2 DEF NotTakenForReplay, Setting, ApSound, NoncesBelow,
       KeysApart, GroupBelow, PairwiseBelow, LaddersSound, LadderSound, NewLadder
  <1> QED BY <1>5, <1>6, <1>7 DEF DataInv, PathSound

(* The record of a member that joins anew: no key, nothing received.       *)
LEMMA FreshMember ==
  ASSUME Setting, NEW mcs \in Nat \cup {-1}, NEW m,
         m = [NoMember EXCEPT !.joined = TRUE, !.mcs = mcs, !.ladder = NewLadder(mcs)]
  PROVE  /\ m \in MemberType /\ m.key = 0 /\ m.rx = [t \in Tids |-> -1]
         /\ m.mcs = mcs /\ m.ladder = NewLadder(mcs)
  <1>1. PICK l \in Ladders : l = NewLadder(mcs)
    BY LadderStarts
  <1>2. PICK b \in Ladders : b = NewLadder(-1)
    BY LadderStarts
  <1>3. PICK no \in BOOLEAN : no = FALSE
    OBVIOUS
  <1>4. PICK yes \in BOOLEAN : yes = TRUE
    OBVIOUS
  <1>5. PICK rx : rx \in [Tids -> Int] /\ rx = [t \in Tids |-> -1]
    <2>1. PICK minus \in Int : minus = -1
      OBVIOUS
    <2>2. [t \in Tids |-> minus] \in [Tids -> Int]
      OBVIOUS
    <2> QED BY <2>1, <2>2
  <1>6. PICK n : n = [joined |-> no, mcs |-> -1, key |-> 0, tx |-> 1, rx |-> rx, ladder |-> b]
    OBVIOUS
  <1>7. NoMember = n
    BY <1>2, <1>3, <1>5, <1>6, Zenon DEF NoMember
  <1>8. m = [n EXCEPT !.joined = yes, !.mcs = mcs, !.ladder = l]
    BY <1>1, <1>4, <1>7, Zenon
  <1>9. m = [joined |-> yes, mcs |-> mcs, key |-> 0, tx |-> 1, rx |-> rx, ladder |-> l]
    BY <1>6, <1>8
  <1>10. m \in MemberType
    BY <1>1, <1>5, <1>9 DEF MemberType
  <1>11. m.key = 0 /\ m.rx = rx /\ m.mcs = mcs /\ m.ladder = l
    <2>1. PICK r : r = [joined |-> yes, mcs |-> mcs, key |-> 0, tx |-> 1, rx |-> rx, ladder |-> l]
      OBVIOUS
    <2>2. r.key = 0 /\ r.rx = rx /\ r.mcs = mcs /\ r.ladder = l
      BY <2>1
    <2> QED BY <1>9, <2>1, <2>2, Zenon
  <1> QED BY <1>1, <1>5, <1>10, <1>11, Zenon

(* A station that associates anew has no key, no frames, no losses. *)
LEMMA JoinKeeps ==
  ASSUME DataInv, NEW s \in Members, NEW mcs \in Mcs, JoinsAnew(s, mcs)
  PROVE  DataInv'
  <1>1. /\ PathTyped /\ QueuesSound /\ QueuesApart /\ GivenBefore /\ OncePerFrame
        /\ NotTakenForReplay /\ Setting /\ NoncesBelow(ap) /\ LaddersSound(ap) /\ ap \in ApRecords
    BY DEF DataInv, PathSound, ApSound
  <1>2. UNCHANGED <<build, hears, upward, got, ups>> /\ mcs \in Nat \cup {-1}
    BY DataAssumption DEF JoinsAnew
  <1>3. PICK m : m = [NoMember EXCEPT !.joined = TRUE, !.mcs = mcs, !.ladder = NewLadder(mcs)]
    OBVIOUS
  <1>4. /\ m \in MemberType /\ m.key = 0 /\ m.rx = [t \in Tids |-> -1]
        /\ m.mcs = mcs /\ m.ladder = NewLadder(mcs)
    BY <1>1, <1>2, <1>3, FreshMember
  <1>5. PICK k \in Nat : k = ap.keys + 1
    BY <1>1 DEF ApRecords
  <1>6. PICK zero \in Nat : zero = 0
    OBVIOUS
  <1>7. PICK x : x = [ap EXCEPT !.keys = k]
    OBVIOUS
  <1>8. /\ x \in ApRecords /\ x.keys = k /\ x.members = ap.members
        /\ x.gtk = ap.gtk /\ x.gpn = ap.gpn /\ x.nonces = ap.nonces
        /\ x.reused = ap.reused /\ x.mistaken = ap.mistaken /\ x.losses = ap.losses
    BY <1>1, <1>7 DEF ApRecords
  <1>9. PICK z : z = WithMember(x, s, m)
    OBVIOUS
  <1>10. /\ z \in ApRecords /\ z.members[s] = m
         /\ \A u \in Members : u # s => z.members[u] = x.members[u]
         /\ z.keys = x.keys /\ z.gtk = x.gtk /\ z.gpn = x.gpn /\ z.nonces = x.nonces
         /\ (z.reused <=> x.reused) /\ (z.mistaken <=> x.mistaken) /\ z.losses = x.losses
    <2>1. x \in ApRecords
      BY <1>8
    <2> QED BY <1>4, <1>9, <2>1, PutMember
  <1>11. PICK y : y = WithLosses(z, s, zero)
    OBVIOUS
  <1>12. /\ y \in ApRecords /\ y.losses[s] = zero
         /\ \A u \in Members : u # s => y.losses[u] = z.losses[u]
         /\ y.keys = z.keys /\ y.gtk = z.gtk /\ y.gpn = z.gpn /\ y.nonces = z.nonces
         /\ (y.reused <=> z.reused) /\ (y.mistaken <=> z.mistaken) /\ y.members = z.members
    <2>1. z \in ApRecords
      BY <1>10
    <2> QED BY <1>11, <2>1, PutLosses
  <1>13. ap' = y
    BY <1>1, <1>3, <1>5, <1>6, <1>7, <1>9, <1>11 DEF JoinsAnew, WithMember, WithLosses, ApRecords
  <1>14. /\ y.keys = k /\ y.nonces = ap.nonces /\ y.gtk = ap.gtk /\ y.gpn = ap.gpn
         /\ y.members[s] = m /\ \A u \in Members : u # s => y.members[u] = ap.members[u]
         /\ y.losses[s] = 0 /\ \A u \in Members : u # s => y.losses[u] = ap.losses[u]
    BY <1>6, <1>8, <1>10, <1>12
  <1>15. ~y.reused /\ (y.mistaken <=> ap.mistaken)
    BY <1>1, <1>8, <1>10, <1>12 DEF NoncesBelow
  <1>16. ap.keys \in Nat /\ \A u \in Members : ap.members[u].key \in Nat
    BY <1>1 DEF ApRecords, MemberType
  <1>17. NoncesBelow(y)
    <2>1. \A u \in Members : y.members[u].key = IF u = s THEN 0 ELSE ap.members[u].key
      BY <1>4, <1>14
    <2>2. KeysApart(y)
      <3>1. \A u \in Members : ap.members[u].key <= ap.keys
        BY <1>1 DEF NoncesBelow, KeysApart
      <3>2. \A u, v \in Members : u # v /\ ap.members[u].key # 0
                                  => ap.members[u].key # ap.members[v].key
        BY <1>1 DEF NoncesBelow, KeysApart
      <3> QED BY <1>5, <1>14, <1>16, <2>1, <3>1, <3>2 DEF KeysApart
    <2>3. GroupBelow(y)
      BY <1>1, <1>14 DEF NoncesBelow, GroupBelow
    <2>4. PairwiseBelow(y)
      <3> SUFFICES ASSUME NEW j \in Nat, NEW n \in Nat, <<"pairwise", j, n>> \in ap.nonces
                   PROVE  j # 0 /\ j <= y.keys
                          /\ \A u \in Members : y.members[u].key = j => n <= y.members[u].tx
        BY <1>14 DEF PairwiseBelow
      <3>1. j # 0 /\ j <= ap.keys
            /\ \A u \in Members : ap.members[u].key = j => n <= ap.members[u].tx
        BY <1>1 DEF NoncesBelow, PairwiseBelow
      <3> QED BY <1>5, <1>14, <1>16, <2>1, <3>1
    <2> QED BY <1>15, <2>2, <2>3, <2>4 DEF NoncesBelow
  <1>18. LaddersSound(y)
    <2> SUFFICES ASSUME NEW u \in Members PROVE LadderSound(y.members[u], y.losses[u])
      BY DEF LaddersSound
    <2>1. CASE u = s
      <3>1. m.ladder \in Ladders /\ m.ladder.rung <= m.ladder.top
        BY <1>1, <1>2, <1>4, LadderStarts
      <3> QED BY <1>4, <1>14, <2>1, <3>1 DEF LadderSound, Ladders
    <2>2. CASE u # s
      BY <1>1, <1>14, <2>2 DEF LaddersSound
    <2> QED BY <2>1, <2>2
  <1>19. ApSound(ap)'
    BY <1>2, <1>12, <1>13, <1>17, <1>18
       DEF ApSound, NoncesBelow, KeysApart, GroupBelow, PairwiseBelow, LaddersSound, LadderSound,
           NewLadder
  <1>20. /\ waves' \in [Members -> [Tids -> Seq(Frames)]]
         /\ \A t \in Tids : waves'[s][t] = <<>>
         /\ \A u \in Members : u # s => waves'[u] = waves[u]
    <2>1. PICK E \in [Tids -> Seq(Frames)] : E = [t \in Tids |-> <<>>]
      <3>1. <<>> \in Seq(Frames)
        OBVIOUS
      <3> QED BY <3>1
    <2>2. waves' = [waves EXCEPT ![s] = E]
      BY <2>1 DEF JoinsAnew
    <2> QED BY <1>1, <2>1, <2>2 DEF PathTyped
  <1>21. ASSUME NEW u \in Members, NEW t \in Tids, NEW i \in 1 .. Len(waves'[u][t])
         PROVE  u # s /\ waves'[u][t] = waves[u][t] /\ ap'.members[u].rx = ap.members[u].rx
    BY <1>13, <1>14, <1>20
  <1>22. PathTyped'
    <2>1. \A u \in Members, t \in Tids : ap'.members[u].rx[t] <= ups'
      <3> SUFFICES ASSUME NEW u \in Members, NEW t \in Tids PROVE ap'.members[u].rx[t] <= ups
        BY <1>2
      <3>1. CASE u = s
        <4>1. ap'.members[u].rx[t] = -1
          BY <1>4, <1>13, <1>14, <3>1
        <4> QED BY <1>1, <4>1 DEF PathTyped
      <3>2. CASE u # s
        BY <1>1, <1>13, <1>14, <3>2 DEF PathTyped
      <3> QED BY <3>1, <3>2
    <2> QED BY <1>1, <1>2, <1>20, <2>1 DEF PathTyped
  <1>23. QueuesSound'
    <2> SUFFICES ASSUME NEW u \in Members, NEW t \in Tids, NEW i \in 1 .. Len(waves'[u][t])
                 PROVE  FrameSound(waves[u][t], i, ap.members[u].rx, t)'
      BY DEF QueuesSound
    <2>1. FrameSound(waves[u][t], i, ap.members[u].rx, t)
      BY <1>1, <1>21 DEF QueuesSound
    <2> QED BY <1>2, <1>21, <2>1 DEF FrameSound, Secured
  <1>24. QueuesApart'
    <2> SUFFICES ASSUME NEW u \in Members, NEW x_1 \in Members, NEW v \in Tids, NEW t \in Tids,
                        NEW i \in 1 .. Len(waves'[u][v]), NEW j \in 1 .. Len(waves'[x_1][t]),
                        waves'[u][v][i].pn = waves'[x_1][t][j].pn
                 PROVE  u = x_1 /\ v = t
      BY DEF QueuesApart
    <2>1. waves'[u][v] = waves[u][v] /\ waves'[x_1][t] = waves[x_1][t]
      BY <1>21
    <2> QED BY <1>1, <2>1 DEF QueuesApart
  <1>25. GivenBefore'
    <2>1. GivenUp' = GivenUp
      BY <1>2 DEF GivenUp
    <2> SUFFICES ASSUME NEW n \in 1 .. Len(GivenUp)
                 PROVE  /\ GivenUp[n] <= ups
                        /\ \A u \in Members, v \in Tids : \A i \in 1 .. Len(waves'[u][v]) :
                             ~waves'[u][v][i].retry => GivenUp[n] # waves'[u][v][i].pn
      BY <1>2, <2>1 DEF GivenBefore
    <2>2. ASSUME NEW u \in Members, NEW v \in Tids, NEW i \in 1 .. Len(waves'[u][v]),
                 ~waves'[u][v][i].retry
          PROVE  GivenUp[n] # waves'[u][v][i].pn
      <3>1. waves'[u][v] = waves[u][v]
        BY <1>21
      <3> QED BY <1>1, <2>2, <3>1 DEF GivenBefore
    <2> QED BY <1>1, <2>2 DEF GivenBefore
  <1>26. OncePerFrame' /\ NotTakenForReplay' /\ Setting'
    BY <1>1, <1>2, <1>13, <1>15 DEF OncePerFrame, NotTakenForReplay, Setting, Secured
  <1> QED BY <1>19, <1>22, <1>23, <1>24, <1>25, <1>26 DEF DataInv, PathSound

-----------------------------------------------------------------------------
(* A frame arrives *)

(* The counter of one queue is moved on. *)
CounterAt(s, t, pn) == [ap EXCEPT !.members[s].rx[t] = pn]

(* One receive counter set: nonces, ladders and the other counters stay.   *)
LEMMA CounterMoves ==
  ASSUME ApSound(ap), NEW s \in Members, NEW t \in Tids, NEW pn \in Nat,
         NEW a, a = CounterAt(s, t, pn)
  PROVE  /\ ApSound(a) /\ (a.mistaken <=> ap.mistaken)
         /\ a.members[s].rx[t] = pn
         /\ \A u \in Members, v \in Tids :
              u # s \/ v # t => a.members[u].rx[v] = ap.members[u].rx[v]
         /\ \A u \in Members : a.members[u].ladder = ap.members[u].ladder
  <1>1. ap \in ApRecords /\ NoncesBelow(ap) /\ LaddersSound(ap)
    BY DEF ApSound
  <1>2. PICK m \in MemberType : m = ap.members[s]
    BY <1>1 DEF ApRecords
  <1>3. PICK rx \in [Tids -> Int] : rx = m.rx
    BY DEF MemberType
  <1>4. PICK nx : nx \in [Tids -> Int] /\ nx = [rx EXCEPT ![t] = pn]
    <2>1. pn \in Int
      OBVIOUS
    <2>2. [rx EXCEPT ![t] = pn] \in [Tids -> Int]
      BY <2>1
    <2> QED BY <2>2, Zenon
  <1>5. nx[t] = pn /\ \A v \in Tids : v # t => nx[v] = rx[v]
    BY <1>4
  <1>6. PICK q : q = [m EXCEPT !.rx = nx]
    OBVIOUS
  <1>7. /\ q \in MemberType /\ q.key = m.key /\ q.tx = m.tx /\ q.rx = nx
        /\ q.ladder = m.ladder /\ q.mcs = m.mcs
    BY <1>4, <1>6 DEF MemberType
  <1>8. PICK y : y = WithMember(ap, s, q)
    OBVIOUS
  <1>9. /\ y \in ApRecords /\ y.members[s] = q
        /\ \A u \in Members : u # s => y.members[u] = ap.members[u]
        /\ y.keys = ap.keys /\ y.gtk = ap.gtk /\ y.gpn = ap.gpn /\ y.nonces = ap.nonces
        /\ (y.reused <=> ap.reused) /\ (y.mistaken <=> ap.mistaken) /\ y.losses = ap.losses
    BY <1>1, <1>7, <1>8, PutMember
  <1>10. a = y
    BY <1>2, <1>3, <1>4, <1>6, <1>8 DEF WithMember, CounterAt
  <1>11. \A u \in Members : /\ y.members[u].key = ap.members[u].key
                            /\ y.members[u].tx = ap.members[u].tx
                            /\ y.members[u].ladder = ap.members[u].ladder
                            /\ y.members[u].mcs = ap.members[u].mcs
    BY <1>2, <1>7, <1>9
  <1>12. ~y.reused
    BY <1>1, <1>9 DEF NoncesBelow
  <1>13. y.keys = ap.keys /\ y.gtk = ap.gtk /\ y.gpn = ap.gpn /\ y.nonces = ap.nonces
    BY <1>9
  <1>14. NoncesBelow(y)
    BY <1>1, <1>11, <1>12, <1>13 DEF NoncesBelow, KeysApart, GroupBelow, PairwiseBelow
  <1>15. LaddersSound(y)
    <2> SUFFICES ASSUME NEW u \in Members PROVE LadderSound(y.members[u], y.losses[u])
      BY DEF LaddersSound
    <2>1. LadderSound(ap.members[u], ap.losses[u]) /\ y.losses = ap.losses
      BY <1>1, <1>9 DEF LaddersSound
    <2> QED BY <1>11, <2>1 DEF LadderSound
  <1>16. \A u \in Members, v \in Tids :
           u # s \/ v # t => y.members[u].rx[v] = ap.members[u].rx[v]
    BY <1>2, <1>3, <1>5, <1>7, <1>9
  <1>17. y.members[s].rx[t] = pn
    BY <1>5, <1>7, <1>9
  <1>18. ApSound(y) /\ (y.mistaken <=> ap.mistaken)
    BY <1>9, <1>14, <1>15 DEF ApSound
  <1>19. \A u \in Members : y.members[u].ladder = ap.members[u].ladder
    BY <1>11
  <1> QED BY <1>10, <1>16, <1>17, <1>18, <1>19

(* What becomes of a fresh frame: up, on, or both; the counters are moved  *)
(* already.                                                                *)
LEMMA HandedKeeps ==
  ASSUME Setting, ApSound(ap), NEW a, ApSound(a), NEW f \in Frames, Handed(a, f),
         \A u \in Members : a.members[u].ladder = ap.members[u].ladder
  PROVE  /\ ApSound(ap') /\ Received(a, ap')
         /\ upward' = upward \/ upward' = Append(upward, f.pn)
  <1>1. f.to \in Members \cup {Ap, Group} /\ ap \in ApRecords
    BY DEF Frames, ApSound
  <1>2. build \in {"crate", "crate_open", "wpa2_ap", "open_ap"}
    BY DataAssumption DEF Setting
  <1>3. ToStack(f) /\ (ap' = a \/ (f.to # Ap /\ Onward(a, f)))
    BY <1>2 DEF Handed, StationData, DataBench, DataOpen
  <1>4. upward' = upward \/ upward' = Append(upward, f.pn)
    BY <1>3 DEF ToStack
  <1>5. CASE ap' = a
    BY <1>4, <1>5 DEF Received
  <1>6. CASE f.to # Ap /\ Onward(a, f)
    <2>1. PICK acked \in Acks(f.to) : ap' = Transmit(a, f.to, acked)
      BY <1>6 DEF Onward
    <2>2. PICK to \in Members \cup {Group} : to = f.to
      BY <1>1, <1>6
    <2>3. acked \in BOOLEAN /\ (to # Group => (acked <=> ap.members[to].ladder.rung <= hears))
      BY <1>1, <2>1, <2>2, AcksWhatIsHeard
    <2>4. to # Group => (acked <=> a.members[to].ladder.rung <= hears)
      BY <2>2, <2>3
    <2>5. ApSound(Transmit(a, to, acked)) /\ Received(a, Transmit(a, to, acked))
      BY <2>3, <2>4, TransmitKeeps
    <2> QED BY <1>4, <2>1, <2>2, <2>5
  <1> QED BY <1>3, <1>5, <1>6

(* A frame is fresh only above its counter, and one that was not sent      *)
(* before always is, for the crate.                                        *)
LEMMA Judged ==
  ASSUME NEW rx \in [Tids -> Int], NEW t \in Tids, NEW f \in Frames,
         build \in {"crate", "crate_open", "wpa2_ap", "open_ap"}
  PROVE  /\ Secured /\ Judgement(rx, t, f) = "Fresh" => rx[t] < f.pn
         /\ build = "wpa2_ap" /\ Judgement(rx, t, f) = "Fresh" => \A u \in Tids : rx[u] < f.pn
         /\ Judgement(rx, t, f) # "Fresh" => Secured /\ \E u \in Tids : f.pn <= rx[u]
         /\ build = "crate" /\ Judgement(rx, t, f) # "Fresh" => f.pn <= rx[t]
         /\ build = "crate" /\ f.retry => Judgement(rx, t, f) # "Replay"
  <1>1. f.pn \in Nat /\ rx[t] \in Int /\ \A u \in Tids : rx[u] \in Int
    BY DEF Frames
  <1>2. CASE build = "crate"
    <2>1. Judgement(rx, t, f) = IF rx[t] = -1 \/ f.pn > rx[t] THEN "Fresh"
                                ELSE IF f.retry THEN "Duplicate" ELSE "Replay"
      BY <1>2 DEF Judgement, Check
    <2> QED BY <1>1, <1>2, <2>1 DEF Secured
  <1>3. CASE build = "wpa2_ap"
    <2>1. Judgement(rx, t, f) = IF \A u \in Tids : f.pn > rx[u] THEN "Fresh" ELSE "Replay"
      BY <1>3 DEF Judgement, CheckBench
    <2> QED BY <1>1, <1>3, <2>1 DEF Secured
  <1>4. CASE build \in {"crate_open", "open_ap"}
    <2>1. Judgement(rx, t, f) = "Fresh"
      BY <1>4 DEF Judgement
    <2> QED BY <1>4, <2>1 DEF Secured
  <1> QED BY <1>2, <1>3, <1>4

(* The queue with a frame put before it.                                   *)
LEMMA Prepended ==
  ASSUME NEW h \in Frames, NEW p \in Seq(Frames), NEW w, w = <<h>> \o p
  PROVE  /\ w \in Seq(Frames) /\ Len(w) = Len(p) + 1 /\ w[1] = h
         /\ \A i \in 2 .. Len(p) + 1 : w[i] = p[i - 1]
  OBVIOUS

(* The queue when its head has arrived: gone, or marked to be sent again.  *)
After(q, ackLost) ==
  IF ackLost THEN <<[Head(q) EXCEPT !.retry = TRUE]>> \o Tail(q) ELSE Tail(q)

(* The queue after its head has arrived, place by place.                   *)
LEMMA HeadArrives ==
  ASSUME NEW q \in Seq(Frames), q # <<>>, NEW ackLost \in BOOLEAN, NEW r,
         r = After(q, ackLost)
  PROVE  /\ r \in Seq(Frames) /\ Len(q) \in Nat /\ Len(q) > 0 /\ q[1] \in Frames
         /\ Len(r) = IF ackLost THEN Len(q) ELSE Len(q) - 1
         /\ \A i \in 1 .. Len(r) :
              IF ackLost /\ i = 1 THEN r[i].pn = q[1].pn /\ r[i].retry
              ELSE LET j == IF ackLost THEN i ELSE i + 1
                   IN  j \in 2 .. Len(q) /\ r[i] = q[j]
  <1>1. Len(q) \in Nat /\ Len(q) > 0 /\ Head(q) = q[1] /\ q[1] \in Frames
    OBVIOUS
  <1>2. PICK p : p = Tail(q)
    OBVIOUS
  <1>3. /\ p \in Seq(Frames) /\ Len(p) = Len(q) - 1
        /\ \A i \in 1 .. Len(p) : p[i] = q[i + 1]
    BY <1>2
  <1>4. CASE ~ackLost
    BY <1>1, <1>2, <1>3, <1>4 DEF After
  <1>5. CASE ackLost
    <2>1. PICK yes \in BOOLEAN : yes = TRUE
      OBVIOUS
    <2>2. PICK h : h = [q[1] EXCEPT !.retry = yes]
      OBVIOUS
    <2>3. h \in Frames /\ h.pn = q[1].pn /\ h.retry
      BY <1>1, <2>1, <2>2 DEF Frames
    <2>4. r = <<h>> \o p
      BY <1>1, <1>2, <1>5, <2>1, <2>2 DEF After
    <2>5. /\ r \in Seq(Frames) /\ Len(r) = Len(q) /\ r[1] = h
          /\ \A i \in 2 .. Len(q) : r[i] = p[i - 1]
      <3>1. p \in Seq(Frames) /\ Len(p) + 1 = Len(q)
        BY <1>1, <1>3
      <3>2. /\ r \in Seq(Frames) /\ Len(r) = Len(p) + 1 /\ r[1] = h
            /\ \A i \in 2 .. Len(p) + 1 : r[i] = p[i - 1]
        BY <2>3, <2>4, <3>1, Prepended
      <3> QED BY <3>1, <3>2, Zenon
    <2>6. \A i \in 2 .. Len(q) : r[i] = q[i]
      BY <1>1, <1>3, <2>5
    <2>7. \A i \in 1 .. Len(r) : IF i = 1 THEN r[i].pn = q[1].pn /\ r[i].retry
                                  ELSE i \in 2 .. Len(q) /\ r[i] = q[i]
      <3> SUFFICES ASSUME NEW i \in 1 .. Len(r)
                   PROVE  IF i = 1 THEN r[i].pn = q[1].pn /\ r[i].retry
                          ELSE i \in 2 .. Len(q) /\ r[i] = q[i]
        OBVIOUS
      <3>1. CASE i = 1
        BY <2>3, <2>5, <3>1
      <3>2. CASE i # 1
        BY <1>1, <2>5, <2>6, <3>2
      <3> QED BY <3>1, <3>2
    <2> QED BY <1>1, <1>5, <2>5, <2>7
  <1> QED BY <1>4, <1>5

(* The head of a queue arrives: judged by its number, handed on if fresh.  *)
(* Whatever was given up before is refused, and what was never sent before *)
(* is not.                                                                 *)
LEMMA ArrivalKeeps ==
  ASSUME DataInv, NEW s \in Members, NEW t \in Tids, NEW ackLost \in BOOLEAN,
         FrameArrives(s, t, ackLost)
  PROVE  DataInv'
  <1>1. /\ PathTyped /\ QueuesSound /\ QueuesApart /\ GivenBefore /\ OncePerFrame
        /\ NotTakenForReplay /\ Setting /\ ApSound(ap) /\ ap \in ApRecords
    BY DEF DataInv, PathSound, ApSound
  <1>2. UNCHANGED <<build, got, hears, ups>> /\ ups \in Nat /\ got \in Seq(Nat) /\ upward \in Seq(Nat)
    BY <1>1 DEF FrameArrives, PathTyped
  <1>3. PICK q \in Seq(Frames) : q = waves[s][t]
    BY <1>1 DEF PathTyped
  <1>4. PICK f : f = Head(q)
    OBVIOUS
  <1>5. PICK r : r = After(q, ackLost)
    OBVIOUS
  <1>6. q # <<>> /\ waves' = [waves EXCEPT ![s][t] = r]
    BY <1>3, <1>5 DEF FrameArrives, After
  <1>7. /\ r \in Seq(Frames) /\ Len(q) \in Nat /\ Len(q) > 0 /\ q[1] \in Frames
        /\ Len(r) = IF ackLost THEN Len(q) ELSE Len(q) - 1
        /\ \A i \in 1 .. Len(r) :
             IF ackLost /\ i = 1 THEN r[i].pn = q[1].pn /\ r[i].retry
             ELSE LET j == IF ackLost THEN i ELSE i + 1
                  IN  j \in 2 .. Len(q) /\ r[i] = q[j]
    <2>1. q # <<>>
      BY <1>6
    <2> QED BY <1>5, <2>1, HeadArrives
  <1>8. f = q[1] /\ f \in Frames /\ f.pn \in Nat
    BY <1>4, <1>6, <1>7 DEF Frames
  <1>9. /\ waves' \in [Members -> [Tids -> Seq(Frames)]] /\ waves'[s][t] = r
        /\ \A u \in Members, v \in Tids : u # s \/ v # t => waves'[u][v] = waves[u][v]
    BY <1>1, <1>6, <1>7 DEF PathTyped
  <1>10. PICK rx \in [Tids -> Int] : rx = ap.members[s].rx
    BY <1>1 DEF ApRecords, MemberType
  <1>11. PICK verdict : verdict = Judgement(rx, t, f)
    OBVIOUS
  <1>12. /\ Secured /\ verdict = "Fresh" => rx[t] < f.pn
         /\ build = "wpa2_ap" /\ verdict = "Fresh" => \A u \in Tids : rx[u] < f.pn
         /\ verdict # "Fresh" => Secured /\ \E u \in Tids : f.pn <= rx[u]
         /\ build = "crate" /\ verdict # "Fresh" => f.pn <= rx[t]
         /\ build = "crate" /\ f.retry => verdict # "Replay"
    BY <1>1, <1>8, <1>10, <1>11, DataAssumption, Judged DEF Setting
  <1>13. FrameSound(q, 1, rx, t)
    BY <1>1, <1>3, <1>7, <1>10 DEF QueuesSound
  (* The counters afterwards. *)
  <1>14. /\ ApSound(ap') /\ (build = "crate" => ~ap'.mistaken)
         /\ \A u \in Members, v \in Tids :
              ap'.members[u].rx[v] = IF verdict = "Fresh" /\ u = s /\ v = t THEN f.pn
                                     ELSE ap.members[u].rx[v]
         /\ upward' = upward \/ (verdict = "Fresh" /\ upward' = Append(upward, f.pn))
    <2>1. CASE verdict = "Fresh"
      <3>1. PICK a : a = CounterAt(s, t, f.pn)
        OBVIOUS
      <3>2. Handed(a, f)
        BY <1>3, <1>4, <1>10, <1>11, <2>1, <3>1 DEF FrameArrives, CounterAt
      <3>3. /\ ApSound(a) /\ (a.mistaken <=> ap.mistaken) /\ a.members[s].rx[t] = f.pn
            /\ \A u \in Members, v \in Tids :
                 u # s \/ v # t => a.members[u].rx[v] = ap.members[u].rx[v]
            /\ \A u \in Members : a.members[u].ladder = ap.members[u].ladder
        BY <1>1, <1>8, <3>1, CounterMoves
      <3>4. /\ ApSound(ap') /\ Received(a, ap')
            /\ upward' = upward \/ upward' = Append(upward, f.pn)
        BY <1>1, <1>8, <3>2, <3>3, HandedKeeps
      <3>5. build = "crate" => ~ap'.mistaken
        BY <1>1, <3>3, <3>4 DEF Received, NotTakenForReplay
      <3>6. \A u \in Members : ap'.members[u].rx = a.members[u].rx
        BY <3>4 DEF Received
      <3> QED BY <2>1, <3>3, <3>4, <3>5, <3>6
    <2>2. CASE verdict # "Fresh"
      <3>1. UNCHANGED upward
            /\ ap' = [ap EXCEPT !.mistaken = @ \/ (verdict = "Replay" /\ ~f.retry)]
        BY <1>3, <1>4, <1>10, <1>11, <2>2 DEF FrameArrives
      <3>2. PICK was \in BOOLEAN : was = (ap.mistaken \/ (verdict = "Replay" /\ ~f.retry))
        OBVIOUS
      <3>3. ap' = [ap EXCEPT !.mistaken = was]
        BY <3>1, <3>2, Zenon
      <3>4. PICK y : y = ap'
        OBVIOUS
      <3>5. /\ y \in ApRecords /\ y.mistaken = was /\ y.members = ap.members
            /\ y.keys = ap.keys /\ y.gtk = ap.gtk /\ y.gpn = ap.gpn /\ y.nonces = ap.nonces
            /\ y.reused = ap.reused /\ y.losses = ap.losses
        BY <1>1, <3>3, <3>4 DEF ApRecords
      <3>6. NoncesBelow(y) /\ LaddersSound(y)
        BY <1>1, <3>5 DEF ApSound, NoncesBelow, KeysApart, GroupBelow, PairwiseBelow, LaddersSound
      <3>7. build = "crate" => ~was
        <4>1. build = "crate" => f.pn <= rx[t]
          BY <1>12, <2>2
        <4>2. ~f.retry => rx[t] < f.pn
          BY <1>8, <1>13 DEF FrameSound
        <4>3. build = "crate" => f.retry
          BY <1>8, <4>1, <4>2
        <4> QED BY <1>1, <3>2, <4>3 DEF NotTakenForReplay
      <3> QED BY <2>2, <3>1, <3>4, <3>5, <3>6, <3>7 DEF ApSound
    <2> QED BY <2>1, <2>2
  <1>15. ApSound(ap)' /\ NotTakenForReplay' /\ Setting'
    BY <1>1, <1>2, <1>14 DEF ApSound, NoncesBelow, KeysApart, GroupBelow, PairwiseBelow,
       LaddersSound, LadderSound, NewLadder, NotTakenForReplay, Setting
  <1>16. f.pn <= ups
    BY <1>8, <1>13 DEF FrameSound
  <1>17. PathTyped'
    <2>1. \A u \in Members, v \in Tids : ap'.members[u].rx[v] <= ups'
      BY <1>1, <1>2, <1>14, <1>16 DEF PathTyped
    <2>2. upward' \in Seq(Nat)
      <3>1. Append(upward, f.pn) \in Seq(Nat)
        BY <1>2, <1>8
      <3> QED BY <1>2, <1>14, <3>1
    <2> QED BY <1>2, <1>9, <2>1, <2>2 DEF PathTyped
  (* The queue that moved. *)
  <1>18. PICK nx \in [Tids -> Int] : nx = ap'.members[s].rx
    BY <1>14 DEF ApSound, ApRecords, MemberType
  <1>19. ASSUME NEW i \in 1 .. Len(r) PROVE FrameSound(r, i, nx, t)'
    <2>1. ASSUME NEW k \in 1 .. Len(r)
          PROVE  LET j == IF ackLost THEN k ELSE k + 1
                 IN  /\ j \in 1 .. Len(q) /\ r[k].pn = q[j].pn
                     /\ r[k].retry => ackLost /\ k = 1
                     /\ ~r[k].retry => j \in 2 .. Len(q)
      <3>1. CASE ackLost /\ k = 1
        BY <1>7, <3>1
      <3>2. CASE ~(ackLost /\ k = 1)
        <4>1. PICK j \in 2 .. Len(q) : j = (IF ackLost THEN k ELSE k + 1) /\ r[k] = q[j]
          BY <1>7, <3>2
        <4>2. ~q[j].retry
          BY <1>1, <1>3, <1>7, <4>1 DEF QueuesSound, FrameSound
        <4> QED BY <4>1, <4>2
      <3> QED BY <3>1, <3>2
    <2>2. PICK j \in 1 .. Len(q) : j = IF ackLost THEN i ELSE i + 1
      BY <2>1
    <2>3. FrameSound(q, j, rx, t) /\ r[i].pn = q[j].pn
      BY <1>1, <1>3, <1>10, <2>1, <2>2 DEF QueuesSound
    <2>4. \A k \in 1 .. Len(r) : i < k => r[i].pn < r[k].pn
      <3> SUFFICES ASSUME NEW k \in 1 .. Len(r), i < k PROVE r[i].pn < r[k].pn
        OBVIOUS
      <3>1. PICK l \in 1 .. Len(q) : l = (IF ackLost THEN k ELSE k + 1) /\ r[k].pn = q[l].pn
        BY <2>1
      <3>2. j < l
        BY <2>2, <3>1
      <3> QED BY <2>3, <3>1, <3>2 DEF FrameSound
    <2>5. r[i].pn <= ups
      BY <2>3 DEF FrameSound
    <2>6. nx[t] = IF verdict = "Fresh" THEN f.pn ELSE rx[t]
      BY <1>10, <1>14, <1>18
    <2>7. CASE r[i].retry
      <3>1. ackLost /\ i = 1 /\ r[i].pn = f.pn
        BY <1>8, <2>1, <2>2, <2>3, <2>7
      <3>2. Secured => \E u \in Tids : f.pn <= nx[u]
        <4>1. CASE verdict = "Fresh"
          BY <1>8, <2>6, <4>1
        <4>2. CASE verdict # "Fresh"
          <5>1. \A u \in Tids : nx[u] = rx[u]
            BY <1>10, <1>14, <1>18, <4>2
          <5> QED BY <1>12, <4>2, <5>1
        <4> QED BY <4>1, <4>2
      <3>3. build = "crate" => f.pn <= nx[t]
        BY <1>8, <1>12, <2>6
      <3> QED BY <1>2, <2>4, <2>5, <2>7, <3>1, <3>2, <3>3 DEF FrameSound, Secured
    <2>8. CASE ~r[i].retry
      <3>1. j \in 2 .. Len(q) /\ r[i] = q[j]
        <4>1. ~(ackLost /\ i = 1)
          BY <1>7, <2>8
        <4> QED BY <1>7, <2>2, <4>1
      <3>2. rx[t] < q[j].pn
        BY <2>3, <2>8, <3>1 DEF FrameSound
      <3>3. f.pn < q[j].pn
        BY <1>7, <1>8, <1>13, <3>1 DEF FrameSound
      <3>4. nx[t] < r[i].pn
        BY <2>6, <3>1, <3>2, <3>3
      <3> QED BY <1>2, <2>4, <2>5, <2>8, <3>4 DEF FrameSound
    <2> QED BY <2>7, <2>8
  (* The others; a counter that moved did not go back. *)
  <1>20. QueuesSound'
    <2> SUFFICES ASSUME NEW u \in Members, NEW v \in Tids, NEW i \in 1 .. Len(waves'[u][v])
                 PROVE  FrameSound(waves[u][v], i, ap.members[u].rx, v)'
      BY DEF QueuesSound
    <2>1. CASE u = s /\ v = t
      <3>1. FrameSound(r, i, nx, t)'
        BY <1>9, <1>19, <2>1
      <3> QED BY <1>9, <1>18, <2>1, <3>1 DEF FrameSound
    <2>2. CASE ~(u = s /\ v = t)
      <3>1. PICK w : w = waves[u][v] /\ w = waves'[u][v]
        BY <1>9, <2>2
      <3>2. FrameSound(w, i, ap.members[u].rx, v)
        BY <1>1, <3>1 DEF QueuesSound
      <3>3. ap'.members[u].rx[v] = ap.members[u].rx[v]
        BY <1>14, <2>2
      <3>4. ASSUME Secured, NEW n, NEW x \in Tids, n \in Nat, n <= ap.members[u].rx[x]
            PROVE  n <= ap'.members[u].rx[x]
        <4>1. CASE u = s /\ x = t /\ verdict = "Fresh"
          <5>1. rx[t] < f.pn /\ n <= rx[t] /\ rx[t] \in Int
            BY <1>10, <1>12, <3>4, <4>1
          <5>2. ap'.members[u].rx[x] = f.pn
            BY <1>14, <4>1
          <5> QED BY <1>8, <3>4, <5>1, <5>2
        <4>2. CASE ~(u = s /\ x = t /\ verdict = "Fresh")
          <5>1. ap'.members[u].rx[x] = ap.members[u].rx[x]
            BY <1>14, <4>2
          <5> QED BY <3>4, <5>1
        <4> QED BY <4>1, <4>2
      <3>5. w[i].pn \in Nat
        <4>1. PICK p \in Seq(Frames) : p = w
          BY <1>1, <3>1 DEF PathTyped
        <4>2. p[i] \in Frames
          BY <3>1, <4>1
        <4> QED BY <4>1, <4>2 DEF Frames
      <3>6. w[i].retry /\ Secured => \E x \in Tids : w[i].pn <= ap'.members[u].rx[x]
        BY <3>2, <3>4, <3>5 DEF FrameSound
      <3> QED BY <1>2, <3>1, <3>2, <3>3, <3>6 DEF FrameSound, Secured
    <2> QED BY <2>1, <2>2
  (* Every number in a queue was there before. *)
  <1>21. ASSUME NEW u \in Members, NEW v \in Tids, NEW i \in 1 .. Len(waves'[u][v])
         PROVE  \E j \in 1 .. Len(waves[u][v]) :
                  /\ waves'[u][v][i].pn = waves[u][v][j].pn
                  /\ ~waves'[u][v][i].retry => /\ ~waves[u][v][j].retry
                                               /\ waves[u][v][j].pn # f.pn
    <2>1. CASE u = s /\ v = t
      <3>1. i \in 1 .. Len(r)
        BY <1>9, <2>1
      <3>2. CASE ackLost /\ i = 1
        <4>1. r[i].pn = q[1].pn /\ r[i].retry /\ 1 \in 1 .. Len(q)
          BY <1>7, <3>1, <3>2
        <4> QED BY <1>3, <1>9, <2>1, <4>1
      <3>3. CASE ~(ackLost /\ i = 1)
        <4>1. PICK j \in 2 .. Len(q) : r[i] = q[j]
          BY <1>7, <3>1, <3>3
        <4>2. j \in 1 .. Len(q) /\ ~q[j].retry
          BY <1>1, <1>3, <1>7, <4>1 DEF QueuesSound, FrameSound
        <4>3. f.pn < q[j].pn
          BY <1>7, <1>8, <1>13, <4>1 DEF FrameSound
        <4>4. q[j].pn # f.pn
          BY <1>8, <4>3
        <4> QED BY <1>3, <1>9, <2>1, <4>1, <4>2, <4>4
      <3> QED BY <3>2, <3>3
    <2>2. CASE ~(u = s /\ v = t)
      <3>1. waves'[u][v] = waves[u][v]
        BY <1>9, <2>2
      <3>2. waves[u][v][i].pn # waves[s][t][1].pn
        BY <1>1, <1>3, <1>7, <2>2, <3>1 DEF QueuesApart
      <3> QED BY <1>3, <1>8, <3>1, <3>2
    <2> QED BY <2>1, <2>2
  <1>22. QueuesApart'
    <2> SUFFICES ASSUME NEW u \in Members, NEW x \in Members, NEW v \in Tids, NEW y \in Tids,
                        NEW i \in 1 .. Len(waves'[u][v]), NEW j \in 1 .. Len(waves'[x][y]),
                        waves'[u][v][i].pn = waves'[x][y][j].pn
                 PROVE  u = x /\ v = y
      BY DEF QueuesApart
    <2>1. PICK k \in 1 .. Len(waves[u][v]) : waves'[u][v][i].pn = waves[u][v][k].pn
      BY <1>21
    <2>2. PICK l \in 1 .. Len(waves[x][y]) : waves'[x][y][j].pn = waves[x][y][l].pn
      BY <1>21
    <2>3. waves[u][v][k].pn = waves[x][y][l].pn
      BY <2>1, <2>2
    <2>4. k \in 1 .. Len(waves[u][v]) /\ l \in 1 .. Len(waves[x][y])
      BY <2>1, <2>2
    <2> QED BY <1>1, <2>3, <2>4 DEF QueuesApart
  (* What the stack is given now is new to it. *)
  <1>23. CASE upward' = upward
    <2>1. GivenUp' = GivenUp
      BY <1>2, <1>23 DEF GivenUp
    <2>2. GivenBefore'
      <3> SUFFICES ASSUME NEW n \in 1 .. Len(GivenUp)
                   PROVE  /\ GivenUp[n] <= ups
                          /\ \A u \in Members, v \in Tids : \A i \in 1 .. Len(waves'[u][v]) :
                               ~waves'[u][v][i].retry => GivenUp[n] # waves'[u][v][i].pn
        BY <1>2, <2>1 DEF GivenBefore
      <3>1. ASSUME NEW u \in Members, NEW v \in Tids, NEW i \in 1 .. Len(waves'[u][v]),
                   ~waves'[u][v][i].retry
            PROVE  GivenUp[n] # waves'[u][v][i].pn
        <4>1. PICK j \in 1 .. Len(waves[u][v]) :
                waves'[u][v][i].pn = waves[u][v][j].pn /\ ~waves[u][v][j].retry
          BY <1>21, <3>1
        <4> QED BY <1>1, <4>1 DEF GivenBefore
      <3> QED BY <1>1, <3>1 DEF GivenBefore
    <2>3. OncePerFrame'
      <3>1. got' \o upward' = got \o upward /\ build' = build
        BY <1>2, <1>23
      <3> QED BY <1>1, <3>1 DEF OncePerFrame, Secured
    <2> QED BY <1>15, <1>17, <1>20, <1>22, <2>2, <2>3 DEF DataInv, PathSound
  <1>24. CASE verdict = "Fresh" /\ upward' = Append(upward, f.pn)
    <2>1. PICK D \in Seq(Nat) : D = GivenUp
      <3>1. got \o upward \in Seq(Nat)
        BY <1>2
      <3> QED BY <3>1 DEF GivenUp
    <2>2. PICK E : E = Append(D, f.pn)
      OBVIOUS
    <2>3. GivenUp' = E
      BY <1>2, <1>8, <1>24, <2>1, <2>2, AppendOn DEF GivenUp
    <2>4. /\ Len(E) = Len(D) + 1 /\ Len(D) \in Nat /\ E[Len(D) + 1] = f.pn
          /\ \A n \in 1 .. Len(D) : E[n] = D[n]
      BY <1>8, <2>1, <2>2
    <2>5. Secured => ~f.retry
      <3> SUFFICES ASSUME Secured, f.retry PROVE FALSE
        OBVIOUS
      <3>1. rx[t] < f.pn /\ (build = "wpa2_ap" => \A u \in Tids : rx[u] < f.pn)
        BY <1>12, <1>24
      <3>2. (\E u \in Tids : f.pn <= rx[u]) /\ (build = "crate" => f.pn <= rx[t])
        BY <1>8, <1>13 DEF FrameSound
      <3> QED BY <1>8, <3>1, <3>2 DEF Secured
    <2>6. Secured => \A n \in 1 .. Len(D) : D[n] # f.pn
      <3>1. ~f.retry => \A n \in 1 .. Len(D) : D[n] # f.pn
        BY <1>1, <1>3, <1>7, <1>8, <2>1 DEF GivenBefore
      <3> QED BY <2>5, <3>1
    <2>7. GivenBefore'
      <3> SUFFICES ASSUME NEW n \in 1 .. Len(E)
                   PROVE  /\ E[n] <= ups
                          /\ \A u \in Members, v \in Tids : \A i \in 1 .. Len(waves'[u][v]) :
                               ~waves'[u][v][i].retry => E[n] # waves'[u][v][i].pn
        BY <1>2, <2>3 DEF GivenBefore
      <3>1. ASSUME NEW u \in Members, NEW v \in Tids, NEW i \in 1 .. Len(waves'[u][v]),
                   ~waves'[u][v][i].retry
            PROVE  E[n] # waves'[u][v][i].pn
        <4>1. PICK j \in 1 .. Len(waves[u][v]) :
                /\ waves'[u][v][i].pn = waves[u][v][j].pn /\ ~waves[u][v][j].retry
                /\ waves[u][v][j].pn # f.pn
          BY <1>21, <3>1
        <4>2. \A k \in 1 .. Len(D) : D[k] # waves[u][v][j].pn
          BY <1>1, <2>1, <4>1 DEF GivenBefore
        <4>3. PICK pn : pn = waves[u][v][j].pn
          OBVIOUS
        <4>4. pn # f.pn /\ pn = waves'[u][v][i].pn /\ \A k \in 1 .. Len(D) : D[k] # pn
          BY <4>1, <4>2, <4>3
        <4>5. E[n] # pn
          BY <1>8, <2>1, <2>2, <4>4, AppendMisses
        <4> QED BY <4>4, <4>5
      <3>2. \A k \in 1 .. Len(D) : D[k] <= ups
        BY <1>1, <2>1 DEF GivenBefore
      <3>3. E[n] <= ups
        BY <1>16, <2>4, <3>2, SMTT(60)
      <3> QED BY <3>1, <3>3
    <2>8. OncePerFrame'
      <3> SUFFICES ASSUME Secured, NEW i \in 1 .. Len(E), NEW j \in 1 .. Len(E), i # j
                   PROVE  E[i] # E[j]
        BY <1>2, <2>3 DEF OncePerFrame, GivenUp, Secured
      <3>1. \A k, l \in 1 .. Len(D) : k # l => D[k] # D[l]
        BY <1>1, <2>1 DEF OncePerFrame, GivenUp
      <3>2. CASE i \in 1 .. Len(D) /\ j \in 1 .. Len(D)
        BY <2>4, <3>1, <3>2
      <3>3. CASE i = Len(D) + 1 /\ j \in 1 .. Len(D)
        BY <2>4, <2>6, <3>3
      <3>4. CASE j = Len(D) + 1 /\ i \in 1 .. Len(D)
        BY <2>4, <2>6, <3>4
      <3> QED BY <2>4, <3>2, <3>3, <3>4
    <2> QED BY <1>15, <1>17, <1>20, <1>22, <2>7, <2>8 DEF DataInv, PathSound
  <1> QED BY <1>14, <1>23, <1>24

-----------------------------------------------------------------------------
(* The data path starts in the invariant.                                  *)
LEMMA DataStarts == DataInit => DataInv
  <1> SUFFICES ASSUME DataInit PROVE DataInv
    OBVIOUS
  <1>1. Setting
    BY DataAssumption DEF DataInit, Setting
  <1>2. PICK n \in Nat : Cardinality(Members) = n
    BY DataAssumption, FS_CardinalityType
  <1>3. Members = 1 .. n
    BY <1>2, DataAssumption
  <1>4. PICK mcs \in Mcs :
          ap = [members |-> [s \in Members |->
                               [NoMember EXCEPT !.joined = TRUE, !.mcs = mcs, !.ladder = NewLadder(mcs),
                                                !.key = IF Secured THEN s ELSE 0]],
                keys |-> Cardinality(Members), gtk |-> 1, gpn |-> 0,
                nonces |-> {}, reused |-> FALSE, mistaken |-> FALSE,
                losses |-> [s \in Members |-> 0]]
    BY DEF DataInit
  <1>5. mcs \in Nat \cup {-1}
    BY DataAssumption
  <1>6. PICK m : m = [NoMember EXCEPT !.joined = TRUE, !.mcs = mcs, !.ladder = NewLadder(mcs)]
    OBVIOUS
  <1>7. /\ m \in MemberType /\ m.key = 0 /\ m.rx = [t \in Tids |-> -1]
        /\ m.mcs = mcs /\ m.ladder = NewLadder(mcs)
    BY <1>1, <1>5, <1>6, FreshMember
  <1> DEFINE Begun(s) == [m EXCEPT !.key = IF Secured THEN s ELSE 0]
  <1>8. PICK M : M = [s \in Members |-> Begun(s)]
    OBVIOUS
  <1>9. ASSUME NEW s \in Members
        PROVE  /\ M[s] \in MemberType /\ M[s].key = (IF Secured THEN s ELSE 0)
               /\ M[s].rx = m.rx /\ M[s].mcs = mcs /\ M[s].ladder = m.ladder
    <2>1. PICK k \in Nat : k = IF Secured THEN s ELSE 0
      BY <1>3
    <2>2. M[s] = [m EXCEPT !.key = k]
      BY <1>8, <2>1
    <2> QED BY <1>7, <2>1, <2>2 DEF MemberType
  <1>10. PICK no \in BOOLEAN : no = FALSE
    OBVIOUS
  <1>11. PICK L \in [Members -> Nat] : L = [s \in Members |-> 0]
    OBVIOUS
  <1>12. ap = [members |-> M, keys |-> n, gtk |-> 1, gpn |-> 0,
               nonces |-> {}, reused |-> no, mistaken |-> no, losses |-> L]
    BY <1>2, <1>4, <1>6, <1>8, <1>10, <1>11
  <1>13. M \in [Members -> MemberType]
    BY <1>8, <1>9
  <1>14. ap \in ApRecords
    BY <1>12, <1>13 DEF ApRecords
  <1>15. /\ ap.members = M /\ ap.keys = n /\ ap.nonces = {} /\ ~ap.reused /\ ~ap.mistaken
         /\ ap.losses = L
    BY <1>10, <1>12
  <1>16. KeysApart(ap)
    BY <1>3, <1>9, <1>15 DEF KeysApart
  <1>17. NoncesBelow(ap)
    BY <1>15, <1>16 DEF NoncesBelow, GroupBelow, PairwiseBelow
  <1>18. LaddersSound(ap)
    <2> SUFFICES ASSUME NEW s \in Members PROVE LadderSound(ap.members[s], ap.losses[s])
      BY DEF LaddersSound
    <2>1. m.ladder \in Ladders /\ m.ladder.rung <= m.ladder.top /\ ap.losses[s] = 0
      BY <1>1, <1>5, <1>7, <1>11, <1>15, LadderStarts
    <2> QED BY <1>7, <1>9, <1>15, <2>1 DEF LadderSound, Ladders
  <1>19. /\ waves = [s \in Members |-> [t \in Tids |-> <<>>]] /\ ups = 0
         /\ got = <<>> /\ upward = <<>>
    BY DEF DataInit
  <1>20. \A s \in Members, t \in Tids : waves[s][t] = <<>> /\ Len(waves[s][t]) = 0
    BY <1>19
  <1>21. PathTyped
    <2>1. waves \in [Members -> [Tids -> Seq(Frames)]]
      <3>1. PICK E : E \in Seq(Frames) /\ E = <<>>
        <4>1. <<>> \in Seq(Frames)
          OBVIOUS
        <4> QED BY <4>1
      <3>2. waves = [s \in Members |-> [t \in Tids |-> E]]
        BY <1>19, <3>1
      <3> QED BY <3>1, <3>2
    <2>2. \A s \in Members, t \in Tids : ap.members[s].rx[t] = -1
      BY <1>7, <1>9, <1>15
    <2>3. ups \in Nat /\ got \in Seq(Nat) /\ upward \in Seq(Nat)
      BY <1>19
    <2>4. \A s \in Members, t \in Tids : ap.members[s].rx[t] <= ups
      BY <1>19, <2>2
    <2> QED BY <2>1, <2>3, <2>4 DEF PathTyped
  <1>22. QueuesSound /\ QueuesApart
    BY <1>20 DEF QueuesSound, QueuesApart
  <1>23. Len(got \o upward) = 0
    BY <1>19
  <1>24. GivenBefore /\ OncePerFrame
    BY <1>23 DEF GivenBefore, GivenUp, OncePerFrame
  <1>25. NotTakenForReplay
    BY <1>15 DEF NotTakenForReplay
  <1> QED BY <1>1, <1>14, <1>17, <1>18, <1>21, <1>22, <1>24, <1>25
          DEF DataInv, PathSound, ApSound

(* Every step of the data path keeps the invariant.                        *)
LEMMA DataKept == DataInv /\ [DataNext]_dataVars => DataInv'
  <1> SUFFICES ASSUME DataInv, [DataNext]_dataVars PROVE DataInv'
    OBVIOUS
  <1>1. ASSUME NEW s \in Members, NEW mcs \in Mcs, JoinsAnew(s, mcs) PROVE DataInv'
    BY <1>1, JoinKeeps
  <1>2. ASSUME NEW s \in Members, KeyInstalled(s) PROVE DataInv'
    BY <1>2, KeyKeeps
  <1>3. CASE GroupKeyTurns
    BY <1>3, TurnsKeep
  <1>4. ASSUME NEW to \in Members \cup {Group}, FromTheStack(to) PROVE DataInv'
    BY <1>4, FromTheStackKeeps
  <1>5. ASSUME NEW s \in Senders, NEW t \in Tids, NEW to \in (Members \ {s}) \cup {Ap, Group},
               MemberSends(s, t, to)
        PROVE  DataInv'
    BY <1>5, SendsKeep, DataAssumption
  <1>6. ASSUME NEW s \in Senders, NEW t \in Tids, NEW ackLost \in BOOLEAN,
               FrameArrives(s, t, ackLost)
        PROVE  DataInv'
    BY <1>6, ArrivalKeeps, DataAssumption
  <1>7. CASE StackTakes
    BY <1>7, TakesKeep
  <1>8. CASE UNCHANGED dataVars
    <2>1. UNCHANGED <<build, hears, ap, waves, ups, got, upward>>
      BY <1>8 DEF dataVars
    <2>2. ApSound(ap)'
      BY <2>1 DEF DataInv, ApSound, NoncesBelow, KeysApart, GroupBelow, PairwiseBelow,
                  LaddersSound, LadderSound, NewLadder
    <2>3. Received(ap, ap')
      BY <2>1 DEF Received
    <2> QED BY <2>1, <2>2, <2>3, PathLeft
  <1> QED BY <1>1, <1>2, <1>3, <1>4, <1>5, <1>6, <1>7, <1>8 DEF DataNext

(* The data path of every build, with any number of stations, traffic      *)
(* identifiers, joins, rekeys and frames: no packet number is used twice   *)
(* under a key, the crate takes no honest frame for a replay, a protected  *)
(* network hands no frame up twice, ladders stay on their rungs, and a     *)
(* station is lost to a rate for no longer than the way down to one it     *)
(* hears.                                                                  *)
THEOREM PathsSound == DataSpec => []DataPathSound
  <1>1. DataInv => DataPathSound
    <2> SUFFICES ASSUME DataInv PROVE DataPathSound
      OBVIOUS
    <2>1. /\ Setting /\ ap \in ApRecords /\ NoncesBelow(ap) /\ LaddersSound(ap)
          /\ OncePerFrame /\ NotTakenForReplay
      BY DEF DataInv, ApSound, PathSound
    <2>2. NoncesFresh
      BY <2>1 DEF NoncesBelow, NoncesFresh
    <2>3. ASSUME NEW s \in Members
          PROVE  /\ ap.members[s].ladder.rung <= NewLadder(ap.members[s].mcs).top
                 /\ ap.losses[s] = 0 \/ ap.losses[s] <= ap.members[s].ladder.top - hears
      <3>1. LadderSound(ap.members[s], ap.losses[s])
        BY <2>1 DEF LaddersSound
      <3>2. /\ ap.members[s].ladder.rung \in Nat /\ ap.members[s].ladder.top \in Nat
            /\ ap.losses[s] \in Nat /\ hears \in Nat
        BY <2>1 DEF ApRecords, MemberType, Ladders, Setting
      <3> QED BY <3>1, <3>2 DEF LadderSound
    <2>4. LadderFits /\ LossesBounded
      BY <2>3 DEF LadderFits, LossesBounded
    <2> QED BY <2>1, <2>2, <2>4 DEF DataPathSound
  <1> QED BY <1>1, DataStarts, DataKept, PTL DEF DataSpec
=============================================================================
