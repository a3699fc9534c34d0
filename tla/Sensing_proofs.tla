--------------------------- MODULE Sensing_proofs ---------------------------
(***************************************************************************)
(* Theorems about the sensing parts and LoRa, for every value of their     *)
(* constants: the CSI queue between the driver's callback and its reader,  *)
(* the fall detector, the record a presence reading travels in, the        *)
(* airtime budget, and the amplitude detector, with what they need of sums *)
(* and of the whole-number root.                                           *)
(***************************************************************************)
EXTENDS CsiCapture, CsiFall, CsiPresence, PresenceRecord, Lora,
  FiniteSetTheorems, WellFoundedInduction, TLAPS

-----------------------------------------------------------------------------
(* The CSI queue and its capture *)

Frames == [at : Nat, layout : 0 .. 2, field : 0 .. 2, len : Nat]
Rings == [frames : [0 .. (CAPACITY - 1) -> Frames], head : 0 .. (CAPACITY - 1), len : 0 .. CAPACITY]
Counts == [received : Nat, dropped : Nat, short : Nat]

(* The callback: none, a buffer, or a frame about to be parked. *)
Buffers == [stage : {"load", "ingest"}, field : 0 .. 2, at : Nat, len : Nat, layout : 0 .. 2]
Parking == [stage : {"park"}, frame : Frames]

Steps == [at : {"counters", "clear", "enable"}, field : {1, 2}]

CaptureTyped ==
  /\ layout \in 0 .. 2
  /\ stats \in Counts
  /\ ring \in Rings
  /\ cb \in {NoCallback} \cup Buffers \cup Parking
  /\ sketch \in {Idle, [at |-> "polling"]} \cup Steps
  /\ radio \in [on : BOOLEAN, field : 0 .. 2]
  /\ last \in Nat /\ taken \in Nat /\ clock \in Nat

(* A callback runs only while capture is on, and begin only while it is    *)
(* off: no buffer meets the layout of another begin.                       *)
OffIsQuiet ==
  /\ ~radio.on => cb = NoCallback
  /\ Beginning => ~radio.on
  /\ radio.on => layout = radio.field /\ layout # 0
  /\ Beginning => sketch.field = layout

(* The buffer in hand is of the field captured, and the frame made of it   *)
(* has its layout.                                                         *)
InHand ==
  /\ cb \in Buffers => cb.field = radio.field /\ (cb.stage = "ingest" => cb.layout = layout)
  /\ cb \in Parking => cb.frame.layout = cb.frame.field

(* The resets of begin, each done by its step. *)
ResetInTurn ==
  /\ sketch.at \in {"clear", "enable"} => stats.received = 0 /\ stats.dropped = 0
  /\ sketch.at = "enable" => ring.len = 0 /\ taken = 0

(* The frames parked and taken are older than the one in hand. *)
Newest == IF cb = NoCallback THEN clock ELSE clock - 1

Nth(r, i) == r.frames[(r.head + i) % CAPACITY].at

(* The waiting frames of a ring in the order of their times, after t. *)
InOrder(r, t) ==
  /\ \A i \in 0 .. (r.len - 1) : Nth(r, i) > (IF i = 0 THEN t ELSE Nth(r, i - 1))
  /\ \A i \in r.len .. (CAPACITY - 1) : Nth(r, i) = 0

OlderThanHand ==
  /\ last <= Newest
  /\ \A i \in 0 .. (CAPACITY - 1) : ring.frames[i].at <= Newest
  /\ cb \in Buffers => cb.at = clock
  /\ cb \in Parking => cb.frame.at = clock
  /\ cb # NoCallback => clock > 0

CaptureInv ==
  /\ CaptureTyped /\ OffIsQuiet /\ InHand /\ ResetInTurn /\ OlderThanHand
  /\ NoSilentGap /\ InOrder(ring, last) /\ LayoutIsTheFields /\ HeardWhole

(* A place in the ring, without the division.                              *)
LEMMA Place ==
  ASSUME NEW h \in 0 .. (CAPACITY - 1), NEW i \in 0 .. CAPACITY
  PROVE  /\ (h + i) % CAPACITY \in 0 .. (CAPACITY - 1)
         /\ h + i < CAPACITY => (h + i) % CAPACITY = h + i
         /\ h + i >= CAPACITY => (h + i) % CAPACITY = h + i - CAPACITY
  BY CaptureAssumption

(* Two places of a ring differ where their numbers do.                     *)
LEMMA PlacesApart ==
  ASSUME NEW h \in 0 .. (CAPACITY - 1),
         NEW i \in 0 .. (CAPACITY - 1), NEW j \in 0 .. (CAPACITY - 1), i # j
  PROVE  (h + i) % CAPACITY # (h + j) % CAPACITY
  <1>1. i \in 0 .. CAPACITY /\ j \in 0 .. CAPACITY /\ CAPACITY \in Nat
    BY CaptureAssumption
  <1> QED BY <1>1, CaptureAssumption

(* The next place is the place after the next head.                        *)
LEMMA PlaceMoves ==
  ASSUME NEW h \in 0 .. (CAPACITY - 1), NEW i \in 0 .. (CAPACITY - 1)
  PROVE  /\ (h + 1) % CAPACITY \in 0 .. (CAPACITY - 1)
         /\ (((h + 1) % CAPACITY) + i) % CAPACITY = (h + (i + 1)) % CAPACITY
         /\ (h + CAPACITY) % CAPACITY = h
  <1>1. i \in 0 .. CAPACITY /\ i + 1 \in 0 .. CAPACITY /\ 1 \in 0 .. CAPACITY
        /\ CAPACITY \in 0 .. CAPACITY /\ CAPACITY \in Nat
    BY CaptureAssumption
  <1>2. PICK g \in 0 .. (CAPACITY - 1) : g = (h + 1) % CAPACITY
    BY <1>1, Place
  <1>3. g = (IF h + 1 < CAPACITY THEN h + 1 ELSE h + 1 - CAPACITY)
    BY <1>1, <1>2, CaptureAssumption
  <1>4. (g + i) % CAPACITY = (IF g + i < CAPACITY THEN g + i ELSE g + i - CAPACITY)
    BY <1>1, CaptureAssumption
  <1>5. (h + (i + 1)) % CAPACITY
          = (IF h + (i + 1) < CAPACITY THEN h + (i + 1) ELSE h + (i + 1) - CAPACITY)
    BY <1>1, CaptureAssumption
  <1>6. (h + CAPACITY) % CAPACITY = h + CAPACITY - CAPACITY
    BY <1>1, CaptureAssumption
  <1> QED BY <1>1, <1>2, <1>3, <1>4, <1>5, <1>6

(* Ring::push keeps the order and the newest CAPACITY frames.              *)
LEMMA PushInOrder ==
  ASSUME NEW r \in Rings, NEW t \in Nat, NEW f \in Frames, InOrder(r, t), f.at > t,
         \A i \in 0 .. (CAPACITY - 1) : r.frames[i].at < f.at
  PROVE  /\ RingPush(r, f) \in Rings /\ InOrder(RingPush(r, f), t)
         /\ RingPush(r, f).len = (IF r.len = CAPACITY THEN CAPACITY ELSE r.len + 1)
         /\ \A i \in 0 .. (CAPACITY - 1) : RingPush(r, f).frames[i] \in {f, r.frames[i]}
  <1>1. PICK h \in 0 .. (CAPACITY - 1), n \in 0 .. CAPACITY : h = r.head /\ n = r.len
    BY DEF Rings
  <1>2. PICK k \in 0 .. (CAPACITY - 1) : k = (h + n) % CAPACITY
    BY Place
  <1>3. PICK F : F = [r.frames EXCEPT ![k] = f]
    OBVIOUS
  <1>4. /\ F \in [0 .. (CAPACITY - 1) -> Frames] /\ F[k] = f
        /\ \A i \in 0 .. (CAPACITY - 1) : i # k => F[i] = r.frames[i]
    BY <1>3 DEF Rings
  <1>5. PICK y : y = RingPush(r, f)
    OBVIOUS
  <1>6. /\ y.frames = F /\ y.head = (IF n = CAPACITY THEN (h + 1) % CAPACITY ELSE h)
        /\ y.len = (IF n = CAPACITY THEN n ELSE n + 1)
        /\ y = [frames |-> y.frames, head |-> y.head, len |-> y.len]
    BY <1>1, <1>2, <1>3, <1>5 DEF RingPush, Rings
  <1>7. y.head \in 0 .. (CAPACITY - 1) /\ y.len \in 0 .. CAPACITY /\ CAPACITY \in Nat \ {0}
    BY <1>1, <1>6, PlaceMoves, CaptureAssumption
  <1>8. y \in Rings
    BY <1>4, <1>6, <1>7 DEF Rings
  <1>9. \A i \in 0 .. (CAPACITY - 1) : Nth(r, i) = r.frames[(h + i) % CAPACITY].at
                                       /\ (h + i) % CAPACITY \in 0 .. (CAPACITY - 1)
                                       /\ Nth(r, i) \in Nat /\ Nth(r, i) < f.at
    <2> TAKE i \in 0 .. (CAPACITY - 1)
    <2>1. (h + i) % CAPACITY \in 0 .. (CAPACITY - 1)
      BY <1>7, Place
    <2> QED BY <1>1, <2>1 DEF Nth, Rings, Frames
  <1>10. InOrder(y, t)
    <2>1. CASE n # CAPACITY
      <3>1. n \in 0 .. (CAPACITY - 1)
        BY <1>7, <2>1
      <3>2. \A i \in 0 .. (CAPACITY - 1) : Nth(y, i) = (IF i = n THEN f.at ELSE Nth(r, i))
        <4> TAKE i \in 0 .. (CAPACITY - 1)
        <4>1. i # n => (h + i) % CAPACITY # k
          BY <1>2, <3>1, PlacesApart
        <4>2. Nth(y, i) = F[(h + i) % CAPACITY].at
          BY <1>6, <2>1 DEF Nth
        <4> QED BY <1>2, <1>4, <1>9, <4>1, <4>2
      <3>3. \A i \in 0 .. (y.len - 1) : Nth(y, i) > (IF i = 0 THEN t ELSE Nth(y, i - 1))
        <4> TAKE i \in 0 .. (y.len - 1)
        <4>1. i \in 0 .. n /\ i \in 0 .. (CAPACITY - 1) /\ (i # 0 => i - 1 \in 0 .. (n - 1) /\
              i - 1 \in 0 .. (CAPACITY - 1))
          BY <1>6, <1>7, <2>1, <3>1
        <4>2. CASE i = n
          BY <1>9, <3>2, <4>1, <4>2
        <4>3. CASE i # n
          <5>1. i \in 0 .. (n - 1) /\ i - 1 # n
            BY <4>1, <4>3
          <5>2. Nth(r, i) > (IF i = 0 THEN t ELSE Nth(r, i - 1))
            BY <1>1, <5>1 DEF InOrder
          <5> QED BY <3>2, <4>1, <5>1, <5>2
        <4> QED BY <4>2, <4>3
      <3>4. \A i \in y.len .. (CAPACITY - 1) : Nth(y, i) = 0
        <4> TAKE i \in y.len .. (CAPACITY - 1)
        <4>1. i \in 0 .. (CAPACITY - 1) /\ i # n /\ i \in n .. (CAPACITY - 1)
          BY <1>6, <1>7, <2>1, <3>1
        <4>2. Nth(r, i) = 0
          BY <1>1, <4>1 DEF InOrder
        <4> QED BY <3>2, <4>1, <4>2
      <3> QED BY <3>3, <3>4 DEF InOrder
    <2>2. CASE n = CAPACITY
      <3>1. k = h /\ y.head = (h + 1) % CAPACITY /\ y.len = CAPACITY
        BY <1>2, <1>6, <2>2, PlaceMoves, <1>7
      <3>2. \A i \in 0 .. (CAPACITY - 1) :
              Nth(y, i) = (IF i = CAPACITY - 1 THEN f.at ELSE Nth(r, i + 1))
        <4> TAKE i \in 0 .. (CAPACITY - 1)
        <4>1. Nth(y, i) = F[(h + (i + 1)) % CAPACITY].at
          BY <1>6, <3>1, PlaceMoves DEF Nth
        <4>2. CASE i = CAPACITY - 1
          <5>1. i + 1 = CAPACITY
            BY <1>7, <4>2
          <5>2. (h + (i + 1)) % CAPACITY = h
            BY <5>1, PlaceMoves
          <5> QED BY <1>4, <3>1, <4>1, <4>2, <5>2
        <4>3. CASE i # CAPACITY - 1
          <5>1. i + 1 \in 0 .. (CAPACITY - 1) /\ 0 \in 0 .. (CAPACITY - 1) /\ i + 1 # 0
            BY <1>7, <4>3
          <5>2. (h + (i + 1)) % CAPACITY # (h + 0) % CAPACITY
            BY <5>1, PlacesApart
          <5>3. (h + 0) % CAPACITY = h
            BY <1>7, CaptureAssumption
          <5> QED BY <1>4, <1>9, <3>1, <4>1, <4>3, <5>1, <5>2, <5>3
        <4> QED BY <4>2, <4>3
      <3>3. ASSUME NEW i \in 0 .. (CAPACITY - 1)
            PROVE  Nth(y, i) > (IF i = 0 THEN t ELSE Nth(y, i - 1))
        <4>1. \A j \in 1 .. (CAPACITY - 1) : Nth(r, j) > Nth(r, j - 1)
          BY <1>1, <1>7, <2>2 DEF InOrder
        <4>2. Nth(r, 0) > t /\ Nth(r, 0) \in Nat
          BY <1>1, <1>7, <1>9, <2>2 DEF InOrder
        <4>3. CASE i = 0
          <5>1. CASE CAPACITY = 1
            BY <3>2, <4>3, <5>1
          <5>2. CASE CAPACITY # 1
            <6>1. 1 \in 1 .. (CAPACITY - 1) /\ 1 \in 0 .. (CAPACITY - 1) /\ i # CAPACITY - 1
              BY <1>7, <4>3, <5>2
            <6>2. Nth(r, 1) > Nth(r, 0) /\ Nth(r, 1) \in Nat
              BY <1>9, <4>1, <6>1
            <6> QED BY <3>2, <4>2, <4>3, <6>1, <6>2
          <5> QED BY <5>1, <5>2
        <4>4. CASE i # 0
          <5>1. i \in 1 .. (CAPACITY - 1) /\ i - 1 \in 0 .. (CAPACITY - 1) /\ i - 1 # CAPACITY - 1
                /\ (i - 1) + 1 = i
            BY <1>7, <4>4
          <5>2. Nth(y, i - 1) = Nth(r, i) /\ Nth(r, i) \in Nat /\ Nth(r, i) < f.at
            BY <1>9, <3>2, <5>1
          <5>3. CASE i = CAPACITY - 1
            BY <3>2, <4>4, <5>2, <5>3
          <5>4. CASE i # CAPACITY - 1
            <6>1. i + 1 \in 1 .. (CAPACITY - 1) /\ (i + 1) - 1 = i
              BY <1>7, <5>1, <5>4
            <6>2. Nth(r, i + 1) > Nth(r, i)
              BY <4>1, <6>1
            <6> QED BY <3>2, <4>4, <5>2, <5>4, <6>2
          <5> QED BY <5>3, <5>4
        <4> QED BY <4>3, <4>4
      <3> QED BY <1>7, <3>1, <3>3 DEF InOrder
    <2> QED BY <2>1, <2>2
  <1> QED BY <1>1, <1>4, <1>5, <1>6, <1>8, <1>10

(* Ring::pop takes the oldest, and the rest are after it.                  *)
LEMMA PopInOrder ==
  ASSUME NEW r \in Rings, NEW t \in Nat, InOrder(r, t), r.len # 0
  PROVE  /\ Popped(r) \in Rings /\ InOrder(Popped(r), r.frames[r.head].at)
         /\ Popped(r).len = r.len - 1
         /\ r.frames[r.head] \in Frames
         /\ \A i \in 0 .. (CAPACITY - 1) : Popped(r).frames[i] \in {NoFrame, r.frames[i]}
  <1>1. PICK h \in 0 .. (CAPACITY - 1), n \in 1 .. CAPACITY : h = r.head /\ n = r.len
    BY DEF Rings
  <1>2. CAPACITY \in Nat \ {0} /\ NoFrame \in Frames
    BY CaptureAssumption DEF NoFrame, Frames
  <1>3. PICK F : F = [r.frames EXCEPT ![h] = NoFrame]
    OBVIOUS
  <1>4. /\ F \in [0 .. (CAPACITY - 1) -> Frames] /\ F[h] = NoFrame
        /\ \A i \in 0 .. (CAPACITY - 1) : i # h => F[i] = r.frames[i]
    BY <1>2, <1>3 DEF Rings
  <1>5. PICK y : y = Popped(r)
    OBVIOUS
  <1>6. /\ y.frames = F /\ y.head = (h + 1) % CAPACITY /\ y.len = n - 1
        /\ y = [frames |-> y.frames, head |-> y.head, len |-> y.len]
    BY <1>1, <1>3, <1>5 DEF Popped, Rings
  <1>7. y.head \in 0 .. (CAPACITY - 1) /\ y.len \in 0 .. CAPACITY
    BY <1>1, <1>2, <1>6, PlaceMoves
  <1>8. y \in Rings
    BY <1>4, <1>6, <1>7 DEF Rings
  <1>9. \A i \in 0 .. (CAPACITY - 1) :
          Nth(y, i) = (IF i = CAPACITY - 1 THEN 0 ELSE Nth(r, i + 1))
    <2> TAKE i \in 0 .. (CAPACITY - 1)
    <2>1. Nth(y, i) = F[(h + (i + 1)) % CAPACITY].at
      BY <1>6, PlaceMoves DEF Nth
    <2>2. CASE i = CAPACITY - 1
      <3>1. i + 1 = CAPACITY
        BY <1>2, <2>2
      <3>2. (h + (i + 1)) % CAPACITY = h
        BY <3>1, PlaceMoves
      <3> QED BY <1>4, <2>1, <2>2, <3>2 DEF NoFrame
    <2>3. CASE i # CAPACITY - 1
      <3>1. i + 1 \in 0 .. (CAPACITY - 1) /\ 0 \in 0 .. (CAPACITY - 1) /\ i + 1 # 0
        BY <1>2, <2>3
      <3>2. (h + (i + 1)) % CAPACITY # (h + 0) % CAPACITY
        BY <3>1, PlacesApart
      <3>3. (h + 0) % CAPACITY = h /\ (h + (i + 1)) % CAPACITY \in 0 .. (CAPACITY - 1)
        BY <1>2, CaptureAssumption
      <3>4. Nth(r, i + 1) = r.frames[(h + (i + 1)) % CAPACITY].at
        BY <1>1 DEF Nth
      <3> QED BY <1>4, <2>1, <2>3, <3>2, <3>3, <3>4
    <2> QED BY <2>2, <2>3
  <1>10. Nth(r, 0) = r.frames[r.head].at
    <2>1. (h + 0) % CAPACITY = h
      BY <1>2, CaptureAssumption
    <2> QED BY <1>1, <2>1 DEF Nth
  <1>11. ASSUME NEW i \in 0 .. (y.len - 1)
         PROVE  Nth(y, i) > (IF i = 0 THEN Nth(r, 0) ELSE Nth(y, i - 1))
    <2>1. /\ i \in 0 .. (CAPACITY - 1) /\ i # CAPACITY - 1 /\ i + 1 \in 0 .. (n - 1)
          /\ i + 1 # 0 /\ (i + 1) - 1 = i
          /\ i # 0 => i - 1 \in 0 .. (CAPACITY - 1) /\ i - 1 # CAPACITY - 1 /\ (i - 1) + 1 = i
      BY <1>1, <1>2, <1>6
    <2>2. Nth(r, i + 1) > Nth(r, i)
      BY <1>1, <2>1 DEF InOrder
    <2>3. Nth(y, i) = Nth(r, i + 1) /\ (i # 0 => Nth(y, i - 1) = Nth(r, i))
      BY <1>9, <2>1
    <2> QED BY <2>2, <2>3
  <1>12. ASSUME NEW i \in y.len .. (CAPACITY - 1)
         PROVE  Nth(y, i) = 0
    <2>1. i \in 0 .. (CAPACITY - 1) /\ (i # CAPACITY - 1 => i + 1 \in n .. (CAPACITY - 1))
      BY <1>1, <1>2, <1>6
    <2>2. i # CAPACITY - 1 => Nth(r, i + 1) = 0
      BY <1>1, <2>1 DEF InOrder
    <2> QED BY <1>9, <2>1, <2>2
  <1>13. InOrder(y, r.frames[r.head].at)
    BY <1>10, <1>11, <1>12 DEF InOrder
  <1>14. r.frames[r.head] \in Frames
    BY DEF Rings
  <1> QED BY <1>1, <1>4, <1>5, <1>6, <1>8, <1>13, <1>14

(* Nothing is captured before begin.                                       *)
LEMMA CaptureStarts == CaptureInit => CaptureInv
  <1> SUFFICES ASSUME CaptureInit PROVE CaptureInv
    OBVIOUS
  <1>1. CAPACITY \in Nat \ {0} /\ NoFrame \in Frames
    BY CaptureAssumption DEF NoFrame, Frames
  <1>2. /\ ring.frames = [i \in 0 .. (CAPACITY - 1) |-> NoFrame] /\ ring.head = 0 /\ ring.len = 0
        /\ ring = EmptyRing
    BY DEF CaptureInit, EmptyRing
  <1>3. ring \in Rings
    BY <1>1, <1>2 DEF Rings, EmptyRing
  <1>4. InOrder(ring, last)
    <2>1. \A i \in 0 .. (CAPACITY - 1) : (0 + i) % CAPACITY \in 0 .. (CAPACITY - 1)
      BY <1>1
    <2> QED BY <1>1, <1>2, <2>1 DEF InOrder, Nth, NoFrame
  <1>5. CaptureTyped
    <2>1. stats \in Counts /\ radio \in [on : BOOLEAN, field : 0 .. 2]
      BY DEF CaptureInit, Counts
    <2> QED BY <1>3, <2>1 DEF CaptureInit, CaptureTyped
  <1>6. OffIsQuiet /\ InHand /\ ResetInTurn
    BY DEF CaptureInit, OffIsQuiet, InHand, ResetInTurn, Beginning, Idle, NoCallback, Buffers,
       Parking
  <1>7. OlderThanHand
    BY <1>1, <1>2 DEF CaptureInit, OlderThanHand, Newest, NoFrame, NoCallback, Buffers, Parking
  <1>8. NoSilentGap /\ LayoutIsTheFields /\ HeardWhole
    BY <1>1, <1>2 DEF CaptureInit, NoSilentGap, LayoutIsTheFields, HeardWhole, NoFrame, NoCallback
  <1> QED BY <1>4, <1>5, <1>6, <1>7, <1>8 DEF CaptureInv

(* Which callback it is shows in its stage.                                *)
LEMMA Stages ==
  ASSUME CaptureTyped
  PROVE  /\ cb.stage = "none" <=> cb = NoCallback
         /\ cb.stage \in {"load", "ingest"} <=> cb \in Buffers
         /\ cb.stage = "park" <=> cb \in Parking
         /\ NoCallback \notin Buffers \cup Parking
         /\ Buffers \cap Parking = {}
  BY DEF CaptureTyped, NoCallback, Buffers, Parking

(* Which step it is, of begin or of poll.                                  *)
LEMMA Doing ==
  ASSUME CaptureTyped
  PROVE  /\ sketch = Idle => sketch.at = "idle" /\ ~Beginning
         /\ sketch.at = "polling" <=> sketch = [at |-> "polling"]
         /\ Beginning <=> sketch \in Steps
         /\ Beginning => sketch.field \in {1, 2}
  BY DEF CaptureTyped, Idle, Steps, Beginning

(* A buffer comes of the field captured.                                   *)
LEMMA ArrivesKeeps == CaptureInv /\ CsiArrives => CaptureInv'
  <1> SUFFICES ASSUME CaptureInv, CsiArrives PROVE CaptureInv'
    OBVIOUS
  <1>1. /\ CaptureTyped /\ OffIsQuiet /\ InHand /\ ResetInTurn /\ OlderThanHand
        /\ NoSilentGap /\ InOrder(ring, last) /\ LayoutIsTheFields /\ HeardWhole
    BY DEF CaptureInv
  <1>2. /\ UNCHANGED <<layout, stats, ring, holder, sketch, radio, last, taken, heard, begins>>
        /\ radio.on /\ cb = NoCallback /\ clock' = clock + 1
    BY DEF CsiArrives
  <1>3. PICK len \in Nat :
          cb' = [stage |-> "load", field |-> radio.field, at |-> clock + 1, len |-> len, layout |-> 0]
    BY CaptureAssumption DEF CsiArrives
  <1>4. /\ cb' \in Buffers /\ cb'.field = radio.field /\ cb'.at = clock + 1 /\ cb'.stage = "load"
        /\ cb' # NoCallback /\ cb' \notin Parking
    BY <1>1, <1>3 DEF CaptureTyped, Buffers, Parking, NoCallback
  <1>5. CaptureTyped'
    BY <1>1, <1>2, <1>4 DEF CaptureTyped
  <1>6. OffIsQuiet' /\ InHand' /\ ResetInTurn'
    BY <1>1, <1>2, <1>4 DEF OffIsQuiet, InHand, ResetInTurn, Beginning
  <1>7. OlderThanHand'
    <2>1. Newest = clock /\ Newest' = clock
      BY <1>1, <1>2, <1>4 DEF Newest, CaptureTyped
    <2> QED BY <1>1, <1>2, <1>4, <2>1 DEF OlderThanHand, CaptureTyped
  <1>8. NoSilentGap'
    <2>1. cb.stage # "park" /\ cb'.stage # "park"
      BY <1>1, <1>2, <1>4, Stages
    <2> QED BY <1>1, <1>2, <2>1 DEF NoSilentGap, Beginning
  <1> QED BY <1>1, <1>2, <1>5, <1>6, <1>7, <1>8
          DEF CaptureInv, InOrder, Nth, LayoutIsTheFields, HeardWhole

(* on_csi keeps the field's layout in hand, and lets go of what it counts  *)
(* as short.                                                               *)
LEMMA LoadKeeps == CaptureInv /\ OnCsiLoad => CaptureInv'
  <1> SUFFICES ASSUME CaptureInv, OnCsiLoad PROVE CaptureInv'
    OBVIOUS
  <1>1. /\ CaptureTyped /\ OffIsQuiet /\ InHand /\ ResetInTurn /\ OlderThanHand
        /\ NoSilentGap /\ InOrder(ring, last) /\ LayoutIsTheFields /\ HeardWhole
    BY DEF CaptureInv
  <1>2. /\ UNCHANGED <<layout, stats, ring, holder, sketch, radio, last, taken, heard, clock, begins>>
        /\ cb.stage = "load"
    BY DEF OnCsiLoad
  <1>3. cb \in Buffers /\ cb # NoCallback /\ radio.on /\ layout # 0
    BY <1>1, <1>2, Stages DEF OffIsQuiet
  <1>4. cb' = [cb EXCEPT !.stage = "ingest", !.layout = layout]
    BY <1>3 DEF OnCsiLoad
  <1>5. /\ cb' \in Buffers /\ cb'.stage = "ingest" /\ cb'.layout = layout /\ cb'.field = cb.field
        /\ cb'.at = cb.at
    BY <1>1, <1>3, <1>4 DEF Buffers, CaptureTyped
  <1>6. CaptureTyped'
    BY <1>1, <1>2, <1>5 DEF CaptureTyped
  <1>7. cb' # NoCallback /\ cb' \notin Parking /\ cb'.stage # "park"
    BY <1>5 DEF Buffers, NoCallback, Parking
  <1>8. OffIsQuiet' /\ InHand' /\ ResetInTurn'
    BY <1>1, <1>2, <1>3, <1>5, <1>7 DEF OffIsQuiet, InHand, ResetInTurn, Beginning
  <1>9. OlderThanHand'
    BY <1>1, <1>2, <1>3, <1>5, <1>7 DEF OlderThanHand, Newest
  <1>10. NoSilentGap'
    BY <1>1, <1>2, <1>7 DEF NoSilentGap, Beginning
  <1> QED BY <1>1, <1>2, <1>6, <1>8, <1>9, <1>10
          DEF CaptureInv, InOrder, Nth, LayoutIsTheFields, HeardWhole

(* ingest counts the buffer as short or has its frame in hand.             *)
LEMMA IngestKeeps == CaptureInv /\ OnCsiIngest => CaptureInv'
  <1> SUFFICES ASSUME CaptureInv, OnCsiIngest PROVE CaptureInv'
    OBVIOUS
  <1>1. /\ CaptureTyped /\ OffIsQuiet /\ InHand /\ ResetInTurn /\ OlderThanHand
        /\ NoSilentGap /\ InOrder(ring, last) /\ LayoutIsTheFields /\ HeardWhole
    BY DEF CaptureInv
  <1>2. /\ UNCHANGED <<layout, ring, holder, sketch, radio, last, taken, heard, clock, begins>>
        /\ cb.stage = "ingest"
    BY DEF OnCsiIngest
  <1>3. /\ cb \in Buffers /\ cb # NoCallback /\ radio.on /\ layout # 0 /\ ~Beginning
        /\ cb.at = clock /\ cb.layout = layout /\ cb.field = radio.field /\ layout = radio.field
        /\ clock > 0
    BY <1>1, <1>2, Stages DEF OffIsQuiet, InHand, OlderThanHand
  <1>4. CASE /\ stats' = [stats EXCEPT !.short = @ + 1]
             /\ cb' = NoCallback
    <2>1. stats' \in Counts /\ stats'.received = stats.received /\ stats'.dropped = stats.dropped
      BY <1>1, <1>4 DEF CaptureTyped, Counts
    <2>2. CaptureTyped'
      BY <1>1, <1>2, <1>4, <2>1 DEF CaptureTyped
    <2>3. cb' \notin Buffers /\ cb' \notin Parking /\ cb'.stage # "park"
      BY <1>4 DEF NoCallback, Buffers, Parking
    <2>4. OffIsQuiet' /\ InHand' /\ ResetInTurn'
      BY <1>1, <1>2, <1>4, <2>1, <2>3 DEF OffIsQuiet, InHand, ResetInTurn, Beginning
    <2>5. OlderThanHand'
      <3>1. Newest = clock - 1 /\ Newest' = clock
        BY <1>2, <1>3, <1>4 DEF Newest
      <3>2. \A i \in 0 .. (CAPACITY - 1) : ring.frames[i].at \in Nat
        BY <1>1 DEF CaptureTyped, Rings, Frames
      <3>3. clock \in Nat /\ last \in Nat
        BY <1>1 DEF CaptureTyped
      <3> QED BY <1>1, <1>2, <1>4, <2>3, <3>1, <3>2, <3>3 DEF OlderThanHand
    <2>6. NoSilentGap'
      BY <1>1, <1>2, <2>1, <2>3 DEF NoSilentGap, Beginning
    <2> QED BY <1>1, <1>2, <2>2, <2>4, <2>5, <2>6
            DEF CaptureInv, InOrder, Nth, LayoutIsTheFields, HeardWhole
  <1>5. ASSUME NEW n \in Nat,
               stats' = [stats EXCEPT !.received = @ + 1],
               cb' = [stage |-> "park",
                      frame |-> [at |-> cb.at, layout |-> cb.layout, field |-> cb.field, len |-> n]]
        PROVE  CaptureInv'
    <2>1. /\ stats' \in Counts /\ stats'.received = stats.received + 1
          /\ stats'.dropped = stats.dropped
      BY <1>1, <1>5 DEF CaptureTyped, Counts
    <2>2. /\ cb' \in Parking /\ cb'.frame.at = cb.at /\ cb'.frame.layout = cb.layout
          /\ cb'.frame.field = cb.field
      BY <1>3, <1>5 DEF Parking, Frames, Buffers
    <2>3. CaptureTyped'
      BY <1>1, <1>2, <2>1, <2>2 DEF CaptureTyped
    <2>4. cb' \notin Buffers /\ cb' # NoCallback /\ cb'.stage = "park"
      BY <2>2 DEF Parking, NoCallback, Buffers
    <2>5. OffIsQuiet' /\ InHand' /\ ResetInTurn'
      BY <1>1, <1>2, <1>3, <2>2, <2>4 DEF OffIsQuiet, InHand, ResetInTurn, Beginning
    <2>6. OlderThanHand'
      BY <1>1, <1>2, <1>3, <2>2, <2>4 DEF OlderThanHand, Newest
    <2>7. NoSilentGap'
      <3>1. cb.stage # "park"
        BY <1>2
      <3>2. stats.received \in Nat /\ stats.dropped \in Nat /\ taken \in Nat /\ ring.len \in Nat
        BY <1>1, CaptureAssumption DEF CaptureTyped, Counts, Rings
      <3>3. stats.received = taken + ring.len + stats.dropped
        BY <1>1, <1>3, <3>1, <3>2 DEF NoSilentGap
      <3> QED BY <1>2, <2>1, <2>4, <3>2, <3>3 DEF NoSilentGap
    <2> QED BY <1>1, <1>2, <2>3, <2>5, <2>6, <2>7
            DEF CaptureInv, InOrder, Nth, LayoutIsTheFields, HeardWhole
  <1>6. cb.len \in Nat /\ MAX_IQ \in Nat
    BY <1>3, CaptureAssumption DEF Buffers
  <1>7. CASE ~(cb.len < 2 * NeededEntries)
    <2>1. PICK n \in Nat : n = IF cb.len < MAX_IQ THEN cb.len ELSE MAX_IQ
      BY <1>6
    <2> QED BY <1>5, <1>7, <2>1 DEF OnCsiIngest
  <1> QED BY <1>4, <1>7 DEF OnCsiIngest

(* The frame in hand is parked or counted as dropped, and so is the oldest *)
(* of a full ring.                                                         *)
LEMMA ParkKeeps == CaptureInv /\ OnCsiPark => CaptureInv'
  <1> SUFFICES ASSUME CaptureInv, OnCsiPark PROVE CaptureInv'
    OBVIOUS
  <1>1. /\ CaptureTyped /\ OffIsQuiet /\ InHand /\ ResetInTurn /\ OlderThanHand
        /\ NoSilentGap /\ InOrder(ring, last) /\ LayoutIsTheFields /\ HeardWhole
    BY DEF CaptureInv
  <1>2. /\ UNCHANGED <<layout, holder, sketch, radio, last, taken, heard, clock, begins>>
        /\ cb.stage = "park" /\ cb' = NoCallback
        /\ ring' = (IF holder = "none" THEN RingPush(ring, cb.frame) ELSE ring)
        /\ stats' = [stats EXCEPT !.dropped = IF holder # "none" \/ ring.len = CAPACITY
                                              THEN @ + 1 ELSE @]
    BY DEF OnCsiPark
  <1>3. cb \in Parking /\ cb # NoCallback /\ ~Beginning /\ cb.frame \in Frames
        /\ cb.frame.at = clock /\ cb.frame.layout = cb.frame.field /\ clock > 0
    BY <1>1, <1>2, Stages DEF OffIsQuiet, InHand, OlderThanHand, Parking
  <1>4. CAPACITY \in Nat /\ clock \in Nat /\ last \in Nat /\ ring \in Rings /\ taken \in Nat
        /\ stats \in Counts
    BY <1>1, CaptureAssumption DEF CaptureTyped
  <1>5. Newest = clock - 1 /\ Newest' = clock
    BY <1>2, <1>3 DEF Newest
  <1>6. \A i \in 0 .. (CAPACITY - 1) : ring.frames[i].at \in Nat /\ ring.frames[i].at < cb.frame.at
    BY <1>1, <1>3, <1>4, <1>5 DEF OlderThanHand, Rings, Frames
  <1>7. last < cb.frame.at
    BY <1>1, <1>3, <1>4, <1>5 DEF OlderThanHand
  <1>8. /\ ring' \in Rings /\ InOrder(ring', last)
        /\ \A i \in 0 .. (CAPACITY - 1) : ring'.frames[i] \in {cb.frame, ring.frames[i]}
        /\ ring'.len = (IF holder = "none" /\ ring.len # CAPACITY THEN ring.len + 1 ELSE ring.len)
    <2>1. CASE holder = "none"
      <3>1. PICK f \in Frames : f = cb.frame
        BY <1>3
      <3>2. f.at > last /\ \A i \in 0 .. (CAPACITY - 1) : ring.frames[i].at < f.at
        BY <1>4, <1>6, <1>7, <3>1 DEF Frames
      <3>3. /\ RingPush(ring, f) \in Rings /\ InOrder(RingPush(ring, f), last)
            /\ RingPush(ring, f).len = (IF ring.len = CAPACITY THEN CAPACITY ELSE ring.len + 1)
            /\ \A i \in 0 .. (CAPACITY - 1) : RingPush(ring, f).frames[i] \in {f, ring.frames[i]}
        BY <1>1, <1>4, <3>2, PushInOrder
      <3>4. ring' = RingPush(ring, f)
        BY <1>2, <2>1, <3>1
      <3> QED BY <2>1, <3>1, <3>3, <3>4
    <2>2. CASE holder # "none"
      BY <1>1, <1>2, <1>4, <2>2
    <2> QED BY <2>1, <2>2
  <1>9. /\ stats' \in Counts /\ stats'.received = stats.received
        /\ stats'.dropped = stats.dropped + (IF holder # "none" \/
           ring.len = CAPACITY THEN 1 ELSE 0)
    BY <1>2, <1>4 DEF Counts
  <1>10. CaptureTyped'
    BY <1>1, <1>2, <1>8, <1>9 DEF CaptureTyped
  <1>11. cb' \notin Buffers /\ cb' \notin Parking /\ cb'.stage # "park"
    BY <1>2 DEF NoCallback, Buffers, Parking
  <1>12. OffIsQuiet' /\ InHand' /\ ResetInTurn'
    BY <1>1, <1>2, <1>3, <1>11 DEF OffIsQuiet, InHand, ResetInTurn, Beginning
  <1>13. OlderThanHand'
    <2>1. \A i \in 0 .. (CAPACITY - 1) : ring'.frames[i].at <= clock
      BY <1>3, <1>4, <1>6, <1>8
    <2>2. last <= clock
      BY <1>3, <1>4, <1>7
    <2> QED BY <1>2, <1>5, <1>11, <2>1, <2>2 DEF OlderThanHand
  <1>14. NoSilentGap'
    <2>1. /\ stats.received \in Nat /\ stats.dropped \in Nat /\ ring.len \in Nat
      BY <1>4 DEF Counts, Rings
    <2>2. stats.received = taken + ring.len + stats.dropped + 1
      BY <1>1, <1>2, <1>3 DEF NoSilentGap
    <2>3. stats'.received = taken' + ring'.len + stats'.dropped
      BY <1>2, <1>4, <1>8, <1>9, <2>1, <2>2
    <2> QED BY <1>8, <1>9, <1>11, <2>3, <1>10 DEF NoSilentGap, CaptureTyped, Counts, Rings
  <1>15. LayoutIsTheFields'
    <2>1. DOMAIN ring'.frames = 0 .. (CAPACITY - 1) /\ DOMAIN ring.frames = 0 .. (CAPACITY - 1)
      BY <1>4, <1>8 DEF Rings
    <2> QED BY <1>1, <1>2, <1>3, <1>8, <2>1 DEF LayoutIsTheFields
  <1>16. InOrder(ring, last)' /\ HeardWhole'
    BY <1>1, <1>2, <1>8 DEF InOrder, Nth, HeardWhole
  <1> QED BY <1>10, <1>12, <1>13, <1>14, <1>15, <1>16 DEF CaptureInv

(* begin's resets, one after another, with no callback running.            *)
LEMMA BeginsKeep == CaptureInv /\ (Begin \/ BeginCounters \/ BeginClear \/
BeginEnable) => CaptureInv'
  <1> SUFFICES ASSUME CaptureInv, Begin \/ BeginCounters \/ BeginClear \/
               BeginEnable PROVE CaptureInv'
    OBVIOUS
  <1>1. /\ CaptureTyped /\ OffIsQuiet /\ InHand /\ ResetInTurn /\ OlderThanHand
        /\ NoSilentGap /\ InOrder(ring, last) /\ LayoutIsTheFields /\ HeardWhole
    BY DEF CaptureInv
  <1>2. UNCHANGED <<holder, cb, last, heard, clock>>
    BY DEF Begin, BeginCounters, BeginClear, BeginEnable
  <1>3. ~radio.on /\ cb = NoCallback
    BY <1>1, Doing DEF OffIsQuiet, Begin, BeginCounters, BeginClear, BeginEnable, Beginning
  <1>4. cb \notin Buffers /\ cb \notin Parking /\ cb.stage # "park"
    BY <1>1, <1>3, Stages DEF NoCallback
  <1>5. InHand'
    BY <1>2, <1>4 DEF InHand
  <1>6. CASE Begin
    <2>1. UNCHANGED <<stats, ring, radio, taken>>
      BY <1>6 DEF Begin
    <2>2. PICK field \in {1, 2} : layout' = field /\ sketch' = [at |-> "counters", field |-> field]
      BY <1>6 DEF Begin
    <2>3. sketch' \in Steps /\ sketch'.at = "counters" /\ sketch'.field = field
      BY <2>2 DEF Steps
    <2>4. CaptureTyped'
      BY <1>1, <1>2, <2>1, <2>2, <2>3 DEF CaptureTyped
    <2>5. OffIsQuiet' /\ ResetInTurn' /\ NoSilentGap'
      BY <1>2, <1>3, <2>1, <2>2, <2>3 DEF OffIsQuiet, ResetInTurn, NoSilentGap, Beginning
    <2> QED BY <1>1, <1>2, <1>5, <2>1, <2>4, <2>5
            DEF CaptureInv, InOrder, Nth, LayoutIsTheFields, HeardWhole, OlderThanHand, Newest
  <1>7. CASE BeginCounters
    <2>1. UNCHANGED <<layout, ring, radio, taken>> /\ sketch.at = "counters"
          /\ stats' = [received |-> 0, dropped |-> 0, short |-> 0]
          /\ sketch' = [sketch EXCEPT !.at = "clear"]
      BY <1>7 DEF BeginCounters
    <2>2. sketch \in Steps /\ sketch.field = layout
      BY <1>1, <2>1, Doing DEF Beginning, OffIsQuiet
    <2>3. sketch' \in Steps /\ sketch'.at = "clear" /\ sketch'.field = layout
      BY <2>1, <2>2 DEF Steps
    <2>4. CaptureTyped'
      BY <1>1, <1>2, <2>1, <2>3 DEF CaptureTyped, Counts
    <2>5. OffIsQuiet' /\ ResetInTurn' /\ NoSilentGap'
      BY <1>2, <1>3, <2>1, <2>3 DEF OffIsQuiet, ResetInTurn, NoSilentGap, Beginning
    <2> QED BY <1>1, <1>2, <1>5, <2>1, <2>4, <2>5
            DEF CaptureInv, InOrder, Nth, LayoutIsTheFields, HeardWhole, OlderThanHand, Newest
  <1>8. CASE BeginClear
    <2>1. UNCHANGED <<layout, stats, radio>> /\ sketch.at = "clear" /\ taken' = 0
          /\ ring' = EmptyRing /\ sketch' = [sketch EXCEPT !.at = "enable"]
      BY <1>8 DEF BeginClear
    <2>2. sketch \in Steps /\ sketch.field = layout
      BY <1>1, <2>1, Doing DEF Beginning, OffIsQuiet
    <2>3. sketch' \in Steps /\ sketch'.at = "enable" /\ sketch'.field = layout
      BY <2>1, <2>2 DEF Steps
    <2>4. CAPACITY \in Nat \ {0} /\ NoFrame \in Frames
      BY CaptureAssumption DEF NoFrame, Frames
    <2>5. /\ ring'.frames = [i \in 0 .. (CAPACITY - 1) |-> NoFrame] /\ ring'.head = 0 /\
             ring'.len = 0
          /\ ring' \in Rings
      BY <2>1, <2>4 DEF EmptyRing, Rings
    <2>6. CaptureTyped'
      BY <1>1, <1>2, <2>1, <2>3, <2>5 DEF CaptureTyped
    <2>7. OffIsQuiet' /\ ResetInTurn' /\ NoSilentGap'
      BY <1>1, <1>2, <1>3, <2>1, <2>3, <2>5 DEF OffIsQuiet, ResetInTurn, NoSilentGap, Beginning
    <2>8. InOrder(ring, last)'
      <3>1. \A i \in 0 .. (CAPACITY - 1) : (0 + i) % CAPACITY \in 0 .. (CAPACITY - 1)
        BY <2>4
      <3>2. \A i \in 0 .. (CAPACITY - 1) : ring'.frames[(0 + i) % CAPACITY].at = 0
        BY <2>5, <3>1 DEF NoFrame
      <3>3. 0 .. (ring'.len - 1) = {} /\ ring'.len .. (CAPACITY - 1) = 0 .. (CAPACITY - 1)
        BY <2>4, <2>5
      <3> QED BY <2>5, <3>2, <3>3 DEF InOrder, Nth
    <2>9. LayoutIsTheFields' /\ HeardWhole'
      BY <1>1, <1>2, <2>4, <2>5 DEF LayoutIsTheFields, HeardWhole, NoFrame
    <2>10. OlderThanHand'
      <3>1. Newest = clock /\ Newest' = clock /\ clock \in Nat
        BY <1>1, <1>2, <1>3 DEF Newest, CaptureTyped
      <3> QED BY <1>1, <1>2, <1>3, <1>4, <2>4, <2>5, <3>1 DEF OlderThanHand, NoFrame
    <2> QED BY <1>5, <2>6, <2>7, <2>8, <2>9, <2>10 DEF CaptureInv
  <1>9. CASE BeginEnable
    <2>1. UNCHANGED <<layout, stats, ring, taken>> /\ sketch.at = "enable" /\ sketch' = Idle
          /\ (radio' = [on |-> TRUE, field |-> sketch.field] \/ radio' = radio)
      BY <1>9 DEF BeginEnable
    <2>2. sketch \in Steps /\ sketch.field = layout /\ sketch.field \in {1, 2}
      BY <1>1, <2>1, Doing DEF Beginning, OffIsQuiet
    <2>3. /\ stats.received = 0 /\ stats.dropped = 0 /\ ring.len = 0 /\ taken = 0
      BY <1>1, <2>1 DEF ResetInTurn
    <2>4. radio' \in [on : BOOLEAN, field : 0 .. 2] /\ (radio'.on => radio'.field = layout)
      <3>1. CASE radio' = [on |-> TRUE, field |-> sketch.field]
        BY <2>2, <3>1
      <3>2. CASE radio' = radio
        BY <1>1, <1>3, <3>2 DEF CaptureTyped
      <3> QED BY <2>1, <3>1, <3>2
    <2>5. CaptureTyped'
      BY <1>1, <1>2, <2>1, <2>4 DEF CaptureTyped
    <2>6. sketch'.at = "idle"
      BY <2>1 DEF Idle
    <2>7. OffIsQuiet' /\ ResetInTurn' /\ NoSilentGap'
      BY <1>2, <1>3, <1>4, <2>1, <2>2, <2>3, <2>4, <2>6
      DEF OffIsQuiet, ResetInTurn, NoSilentGap, Beginning
    <2> QED BY <1>1, <1>2, <1>5, <2>1, <2>5, <2>7
            DEF CaptureInv, InOrder, Nth, LayoutIsTheFields, HeardWhole, OlderThanHand, Newest
  <1> QED BY <1>6, <1>7, <1>8, <1>9

(* end waits for the callback, and turns capture off.                      *)
LEMMA EndKeeps == CaptureInv /\ End => CaptureInv'
  <1> SUFFICES ASSUME CaptureInv, End PROVE CaptureInv'
    OBVIOUS
  <1>1. /\ CaptureTyped /\ OffIsQuiet /\ InHand /\ ResetInTurn /\ OlderThanHand
        /\ NoSilentGap /\ InOrder(ring, last) /\ LayoutIsTheFields /\ HeardWhole
    BY DEF CaptureInv
  <1>2. /\ UNCHANGED <<stats, ring, holder, cb, sketch, last, taken, heard, clock, begins>>
        /\ cb = NoCallback /\ sketch = Idle /\ layout' \in {0, layout}
        /\ radio' = [radio EXCEPT !.on = FALSE]
    BY DEF End
  <1>3. ~radio'.on /\ radio' \in [on : BOOLEAN, field : 0 .. 2]
    BY <1>1, <1>2 DEF CaptureTyped
  <1>4. cb \notin Buffers /\ cb \notin Parking /\ ~Beginning
    BY <1>1, <1>2, Stages, Doing
  <1>5. CaptureTyped' /\ OffIsQuiet' /\ InHand'
    BY <1>1, <1>2, <1>3, <1>4 DEF CaptureTyped, OffIsQuiet, InHand, Beginning
  <1> QED BY <1>1, <1>2, <1>5 DEF CaptureInv, InOrder, Nth, LayoutIsTheFields, HeardWhole,
             OlderThanHand,
             Newest, NoSilentGap, Beginning, ResetInTurn

(* A sample that decodes is the frame's, whole.                            *)
LEMMA DecodedWhole ==
  ASSUME NEW f \in Frames, NEW s \in Delivered(f)
  PROVE  s.bytes = HEADER_LEN + f.len /\ s.layout = f.layout
  <1>1. PICK b : b = EncodeSample(f)
    OBVIOUS
  <1>2. s \in {b, [b EXCEPT !.bytes = @ - 1], [b EXCEPT !.bytes = HEADER_LEN]} /\ Decodes(s)
    BY <1>1 DEF Delivered
  <1>3. s.len = f.len /\ s.layout = f.layout
    BY <1>1, <1>2 DEF EncodeSample
  <1> QED BY <1>2, <1>3 DEF Decodes

(* poll takes the oldest frame, or finds none.                             *)
LEMMA PollsKeep == CaptureInv /\ (PollLock \/ PollPop) => CaptureInv'
  <1> SUFFICES ASSUME CaptureInv, PollLock \/ PollPop PROVE CaptureInv'
    OBVIOUS
  <1>1. /\ CaptureTyped /\ OffIsQuiet /\ InHand /\ ResetInTurn /\ OlderThanHand
        /\ NoSilentGap /\ InOrder(ring, last) /\ LayoutIsTheFields /\ HeardWhole
    BY DEF CaptureInv
  <1>2. UNCHANGED <<layout, stats, cb, radio, clock>>
    BY DEF PollLock, PollPop
  <1>3. sketch' \in {Idle, [at |-> "polling"]} /\ sketch'.at \in {"idle", "polling"} /\ ~Beginning
    BY <1>1, Doing DEF PollLock, PollPop, Idle, Beginning
  <1>4. OffIsQuiet' /\ InHand' /\ ResetInTurn' /\ ~Beginning'
    BY <1>1, <1>2, <1>3 DEF OffIsQuiet, InHand, ResetInTurn, Beginning
  <1>5. CASE UNCHANGED <<ring, last, taken, heard>>
    <2>1. CaptureTyped'
      BY <1>1, <1>2, <1>3, <1>5 DEF CaptureTyped
    <2> QED BY <1>1, <1>2, <1>3, <1>4, <1>5, <2>1
            DEF CaptureInv, InOrder, Nth, LayoutIsTheFields, HeardWhole,
               OlderThanHand, Newest, NoSilentGap
  <1>6. CASE PollPop /\ ring.len # 0
    <2>1. PICK f : f = ring.frames[ring.head]
      OBVIOUS
    <2>2. /\ ring' = Popped(ring) /\ last' = f.at /\ taken' = taken + 1
          /\ heard' = {[frame |-> f, sample |-> s] : s \in Delivered(f)}
      BY <1>6, <2>1 DEF PollPop
    <2>3. ring \in Rings /\ last \in Nat /\ taken \in Nat /\ stats \in Counts
      BY <1>1 DEF CaptureTyped
    <2>4. /\ ring' \in Rings /\ InOrder(ring', f.at) /\ ring'.len = ring.len - 1 /\ f \in Frames
          /\ \A i \in 0 .. (CAPACITY - 1) : ring'.frames[i] \in {NoFrame, ring.frames[i]}
      BY <1>1, <1>6, <2>1, <2>2, <2>3, PopInOrder
    <2>5. CaptureTyped'
      BY <1>1, <1>2, <1>3, <2>2, <2>3, <2>4 DEF CaptureTyped, Frames
    <2>6. ring.head \in 0 .. (CAPACITY - 1) /\ CAPACITY \in Nat
      BY <2>3, CaptureAssumption DEF Rings
    <2>7. OlderThanHand'
      <3>1. Newest' = Newest
        BY <1>2 DEF Newest
      <3>2. Newest \in Nat
        BY <1>1 DEF Newest, OlderThanHand, CaptureTyped
      <3>3. f.at <= Newest
        BY <1>1, <2>1, <2>6 DEF OlderThanHand
      <3>4. \A i \in 0 .. (CAPACITY - 1) : ring'.frames[i].at <= Newest
        BY <1>1, <2>4, <3>2 DEF OlderThanHand, NoFrame
      <3> QED BY <1>1, <1>2, <2>2, <3>1, <3>3, <3>4 DEF OlderThanHand
    <2>8. NoSilentGap'
      <3>1. stats.received \in Nat /\ stats.dropped \in Nat /\ ring.len \in Nat
        BY <2>3 DEF Counts, Rings
      <3>2. PICK p \in {0, 1} : p = IF cb.stage = "park" THEN 1 ELSE 0
        OBVIOUS
      <3>3. stats.received = taken + ring.len + stats.dropped + p
        BY <1>1, <1>3, <3>2 DEF NoSilentGap
      <3>4. stats'.received = taken' + ring'.len + stats'.dropped + p
        BY <1>2, <2>2, <2>3, <2>4, <3>1, <3>3
      <3> QED BY <1>2, <3>2, <3>4 DEF NoSilentGap
    <2>9. LayoutIsTheFields'
      <3>1. DOMAIN ring'.frames = 0 .. (CAPACITY - 1) /\ DOMAIN ring.frames = 0 .. (CAPACITY - 1)
        BY <2>3, <2>4 DEF Rings
      <3>2. f.layout = f.field
        BY <1>1, <2>1, <2>6, <3>1 DEF LayoutIsTheFields
      <3>3. \A h \in heard' : h.sample.layout = h.frame.field
        BY <2>2, <2>4, <3>2, DecodedWhole
      <3>4. \A i \in DOMAIN ring'.frames : ring'.frames[i].layout = ring'.frames[i].field
        BY <1>1, <2>4, <3>1 DEF LayoutIsTheFields, NoFrame
      <3> QED BY <3>3, <3>4 DEF LayoutIsTheFields
    <2>10. HeardWhole'
      BY <2>2, <2>4, DecodedWhole DEF HeardWhole
    <2>11. InOrder(ring, last)'
      BY <2>2, <2>4 DEF InOrder, Nth
    <2> QED BY <1>4, <2>5, <2>7, <2>8, <2>9, <2>10, <2>11 DEF CaptureInv
  <1> QED BY <1>5, <1>6 DEF PollLock, PollPop

(* The capture keeps its invariant.                                        *)
LEMMA CaptureKept == CaptureInv /\ [CaptureNext]_captureVars => CaptureInv'
  <1>1. CaptureInv /\ UNCHANGED captureVars => CaptureInv'
    BY DEF CaptureInv, CaptureTyped, OffIsQuiet, InHand, ResetInTurn, OlderThanHand, Newest,
       NoSilentGap,
           Beginning, InOrder, Nth, LayoutIsTheFields, HeardWhole, captureVars
  <1> QED BY <1>1, ArrivesKeeps, LoadKeeps, IngestKeeps, ParkKeeps, BeginsKeep, EndKeeps, PollsKeep
          DEF CaptureNext, OnCsi, Sketch

(* For any ring, buffers and number of begins, with the callback anywhere  *)
(* between the sketch's steps (csi_queue.rs, idf/csi.rs): every frame      *)
(* received is taken, waiting, in hand or counted as dropped, the waiting  *)
(* ones in order, each with its own field's layout, at a subscriber too.   *)
THEOREM CapturesHonest == CaptureSpec => []CaptureHonest
  <1>1. CaptureInv => CaptureHonest
    BY DEF CaptureInv, CaptureHonest, InOrder, Nth, RingInOrder
  <1> QED BY <1>1, CaptureStarts, CaptureKept, PTL DEF CaptureSpec

-----------------------------------------------------------------------------
(* Falls *)

FallPhases == {"Idle", "Active", "Burst", "Settling", "Refractory"}
LogFrames == [at : Nat, w : Levels, met : FallPhases]

FallTyped ==
  /\ log \in Seq(LogFrames)
  /\ fall \in {FallIdle} \cup [phase : {"Active"}, since : Nat, quiet : Nat \cup {NoTime}]
              \cup [phase : {"Burst"}, at : Nat, peak : Levels]
              \cup [phase : {"Settling"}, burst : Nat, peak : Levels, still : Nat]
              \cup [phase : {"Refractory"}, until : Int]
  /\ apart \in Nat

(* Frames come one after another. *)
OneAfterAnother == \A i, j \in 1 .. Len(log) : i < j => log[i].at < log[j].at

(* Somebody was seen moving no later than t. *)
SeenMoving(L, n, t) == \E a \in 1 .. n : L[a].w >= ActiveLevel /\ L[a].at <= t

(* A burst at b, of somebody who moved before it, not yet still at n. *)
BurstAt(L, b, n, peak) ==
  /\ b \in 1 .. n
  /\ L[b].w >= BurstLevel
  /\ \E a \in 1 .. (b - 1) : L[a].w >= ActiveLevel /\ L[b].at - L[a].at >= MIN_ACTIVE
  /\ \A i \in (b + 1) .. n : L[i].w > StillLevel
  /\ L[n].at - L[b].at <= SETTLE
  /\ \E i \in b .. n : L[i].w = peak
  /\ \A i \in b .. n : L[i].w <= peak

(* Still since s, after the burst at b, and nobody got up until n. *)
StillAt(L, b, s, n, peak) ==
  /\ s \in 1 .. n
  /\ BurstAt(L, b, s - 1, peak)
  /\ L[s].w <= StillLevel
  /\ \A i \in s .. n : L[i].w < ActiveLevel

(* The phase says what the frames were. *)
PhaseIsTheShape ==
  /\ fall.phase = "Active" => SeenMoving(log, Len(log), fall.since)
  /\ fall.phase = "Burst" =>
       \E b \in 1 .. Len(log) : log[b].at = fall.at /\ BurstAt(log, b, Len(log), fall.peak)
  /\ fall.phase = "Settling" =>
       \E b, s \in 1 .. Len(log) :
         /\ log[b].at = fall.burst /\ log[s].at = fall.still
         /\ StillAt(log, b, s, Len(log), fall.peak)

(* An event is of the newest frame, which ended the shape. *)
EventIsTheShape ==
  event # NoEvent =>
    /\ fall.phase = "Refractory"
    /\ \E b, s \in 1 .. Len(log) :
         /\ log[b].at = event.burst /\ log[s].at = event.still /\ log[Len(log)].at = event.at
         /\ StillAt(log, b, s, Len(log), event.peak)
         /\ log[Len(log)].at - log[s].at >= STILL_FOR

(* The refractory time runs from the event. *)
RefractoryRuns ==
  /\ fall.phase # "Refractory" => apart >= REFRACTORY
  /\ fall.phase = "Refractory" =>
       IF event # NoEvent THEN fall.until = Now + REFRACTORY /\ apart >= REFRACTORY
       ELSE fall.until > 0 /\ apart + fall.until >= REFRACTORY /\ Now = 0

(* Somebody moving since a, with pauses shorter than the grace. *)
Walks(L, a, n) ==
  /\ a \in 1 .. n
  /\ L[a].met = "Idle" /\ L[a].w >= ActiveLevel
  /\ \A i, j \in a .. n : (i <= j /\ \A k \in i .. j : L[k].w <= StillLevel)
                            => L[j].at - L[i].at < QUIET_GRACE
  /\ \A i \in a .. n : L[i].w < BurstLevel

(* ... and then the first burst, and no rest since. *)
Bursts(L, a, b, n) ==
  /\ b \in 1 .. n
  /\ Walks(L, a, b - 1)
  /\ L[b].w >= BurstLevel /\ L[b].at - L[a].at >= MIN_ACTIVE
  /\ \A i \in (b + 1) .. n : L[i].at - L[b].at <= SETTLE /\ L[i].w >= ActiveLevel

(* ... and then, in time, stillness. *)
Lies(L, a, b, s, n) ==
  /\ s \in 1 .. n
  /\ Bursts(L, a, b, s - 1)
  /\ L[s].at - L[b].at <= SETTLE
  /\ \A i \in s .. n : L[i].w <= StillLevel

(* Whoever is falling is watched, at every step of the fall. *)
Watched ==
  /\ \A a \in 1 .. Len(log) : Walks(log, a, Len(log)) =>
       /\ fall.phase = "Active" /\ fall.since = log[a].at
       /\ fall.quiet = NoTime \/ \E q \in a .. Len(log) : /\ fall.quiet = log[q].at
                                                         /\ \A k \in q .. Len(log) : log[k].w <= StillLevel
  /\ \A a, b \in 1 .. Len(log) : Bursts(log, a, b, Len(log)) =>
       fall.phase = "Burst" /\ fall.at = log[b].at
  /\ \A a, b, s \in 1 .. Len(log) : Lies(log, a, b, s, Len(log)) =>
       IF fall.phase = "Refractory"
       THEN event # NoEvent /\ event.burst = log[b].at
       ELSE /\ fall.phase = "Settling" /\ fall.burst = log[b].at /\ fall.still = log[s].at
            /\ s < Len(log) => log[Len(log)].at - log[s].at < STILL_FOR

FallInv ==
  /\ FallTyped /\ OneAfterAnother
  /\ PhaseIsTheShape /\ EventIsTheShape /\ RefractoryRuns /\ Watched

(* The four shapes are of the first n frames alone.                        *)
LEMMA ShapesOfThePrefix ==
  ASSUME NEW n \in Nat, NEW L, NEW M, \A i \in 1 .. n : L[i] = M[i]
  PROVE  /\ \A b, peak : BurstAt(L, b, n, peak) => BurstAt(M, b, n, peak)
         /\ \A b, s, peak : StillAt(L, b, s, n, peak) => StillAt(M, b, s, n, peak)
         /\ \A a : Walks(L, a, n) => Walks(M, a, n)
         /\ \A a, b : Bursts(L, a, b, n) => Bursts(M, a, b, n)
         /\ \A a, b, s : Lies(L, a, b, s, n) => Lies(M, a, b, s, n)
  <1>1. ASSUME NEW m \in 0 .. n, NEW b, NEW peak, BurstAt(L, b, m, peak)
        PROVE  BurstAt(M, b, m, peak)
    <2>1. b \in 1 .. m /\ \A i \in 1 .. m : L[i] = M[i]
      BY <1>1 DEF BurstAt
    <2>2. m \in 1 .. m /\ \A i \in 1 .. (b - 1) : i \in 1 .. m
      BY <2>1
    <2>3. \A i \in b .. m : i \in 1 .. m
      BY <2>1
    <2>4. \A i \in (b + 1) .. m : i \in 1 .. m
      BY <2>1
    <2>5. \E i \in b .. m : M[i].w = peak
      BY <1>1, <2>1, <2>3 DEF BurstAt
    <2>6. \E a \in 1 .. (b - 1) : M[a].w >= ActiveLevel /\ M[b].at - M[a].at >= MIN_ACTIVE
      BY <1>1, <2>1, <2>2 DEF BurstAt
    <2> QED BY <1>1, <2>1, <2>2, <2>3, <2>4, <2>5, <2>6 DEF BurstAt
  <1>2. ASSUME NEW b, NEW s, NEW peak, StillAt(L, b, s, n, peak)
        PROVE  StillAt(M, b, s, n, peak)
    <2>1. s \in 1 .. n /\ s - 1 \in 0 .. n /\ \A i \in s .. n : i \in 1 .. n
      BY <1>2 DEF StillAt
    <2> QED BY <1>1, <1>2, <2>1 DEF StillAt
  <1>3. ASSUME NEW m \in 0 .. n, NEW a, Walks(L, a, m)
        PROVE  Walks(M, a, m)
    <2>1. a \in 1 .. m /\ \A i \in a .. m : i \in 1 .. n /\ L[i] = M[i]
      BY <1>3 DEF Walks
    <2>2. a \in a .. m
      BY <2>1
    <2>3. ASSUME NEW i \in a .. m, NEW j \in a .. m, i <= j, \A k \in i .. j : M[k].w <= StillLevel
          PROVE  M[j].at - M[i].at < QUIET_GRACE
      <3>1. \A k \in i .. j : k \in a .. m
        BY <2>1
      <3>2. \A k \in i .. j : L[k].w <= StillLevel
        BY <2>1, <2>3, <3>1
      <3>3. L[j].at - L[i].at < QUIET_GRACE
        BY <1>3, <2>3, <3>2 DEF Walks
      <3> QED BY <2>1, <3>3
    <2> QED BY <1>3, <2>1, <2>2, <2>3 DEF Walks
  <1>4. ASSUME NEW m \in 0 .. n, NEW a, NEW b, Bursts(L, a, b, m)
        PROVE  Bursts(M, a, b, m)
    <2>1. b \in 1 .. m /\ b - 1 \in 0 .. n /\ (\A i \in (b + 1) .. m : i \in 1 .. n) /\ b \in 1 .. n
      BY <1>4 DEF Bursts
    <2>2. Walks(M, a, b - 1)
      BY <1>3, <1>4, <2>1 DEF Bursts
    <2>3. a \in 1 .. n
      BY <2>1, <2>2 DEF Walks
    <2> QED BY <1>4, <2>1, <2>2, <2>3 DEF Bursts
  <1>5. ASSUME NEW a, NEW b, NEW s, Lies(L, a, b, s, n)
        PROVE  Lies(M, a, b, s, n)
    <2>1. s \in 1 .. n /\ s - 1 \in 0 .. n /\ \A i \in s .. n : i \in 1 .. n
      BY <1>5 DEF Lies
    <2>2. Bursts(M, a, b, s - 1)
      BY <1>4, <1>5, <2>1 DEF Lies
    <2>3. b \in 1 .. n
      BY <2>1, <2>2 DEF Bursts
    <2> QED BY <1>5, <2>1, <2>2, <2>3 DEF Lies
  <1>6. n \in 0 .. n
    OBVIOUS
  <1> QED BY <1>1, <1>2, <1>3, <1>4, <1>5, <1>6

(* A frame of level w at time now, when the detector is not refractory. *)
FrameIn(L, n, w, now) ==
  /\ n \in Nat /\ n = Len(log) /\ L = log' /\ log \in Seq(LogFrames)
  /\ w \in Levels /\ w \in Nat /\ now \in Nat
  /\ L \in Seq(LogFrames) /\ Len(L) = n + 1
  /\ \A i \in 1 .. n : L[i] = log[i] /\ L[i].at < now
  /\ \A i \in 1 .. (n + 1) : L[i].w \in Nat /\ L[i].at \in Nat
  /\ L[n + 1].at = now /\ L[n + 1].w = w /\ L[n + 1].met = fall.phase
  /\ fall.phase # "Refractory" /\ apart' = apart
  /\ fall' = FallPushed(w, now)
  /\ event' = (IF FallCompletes(w, now)
               THEN [burst |-> fall.burst, peak |-> fall.peak, still |-> fall.still, at |-> now]
               ELSE NoEvent)

(* The levels are numbers in their order.                                  *)
LEMMA Levelled ==
  /\ StillLevel \in Nat /\ ActiveLevel \in Nat /\ BurstLevel \in Nat
  /\ StillLevel < ActiveLevel /\ ActiveLevel <= BurstLevel
  /\ MIN_ACTIVE \in Nat /\ QUIET_GRACE \in Nat /\ SETTLE \in Nat /\ STILL_FOR \in Nat
  /\ REFRACTORY \in Nat /\ Levels \subseteq Nat
  BY FallAssumption

(* One frame more.                                                         *)
LEMMA OneMore ==
  ASSUME NEW n \in Nat, NEW b \in 1 .. n
  PROVE  /\ b \in 1 .. (n + 1) /\ b \in b .. (n + 1) /\ n + 1 \in b .. (n + 1)
         /\ n + 1 \in 1 .. (n + 1)
         /\ \A i \in b .. (n + 1) : i = n + 1 \/ i \in b .. n
         /\ \A i \in (b + 1) .. (n + 1) : i = n + 1 \/ i \in (b + 1) .. n
         /\ \A i \in b .. n : i \in b .. (n + 1) /\ i \in 1 .. (n + 1)
  OBVIOUS

(* What a frame makes of each phase.                                       *)
LEMMA PhaseMoves ==
  ASSUME FallTyped, NEW L, NEW n, NEW w, NEW now, FrameIn(L, n, w, now)
  PROVE  /\ fall.phase \in {"Idle", "Active", "Burst", "Settling"}
         /\ fall.phase = "Idle" => fall' = (IF w >= ActiveLevel THEN Active(now, NoTime) ELSE FallIdle)
         /\ fall.phase = "Active" => fall' = PushActive(w, now)
         /\ fall.phase = "Burst" => fall' = PushBurst(w, now)
         /\ fall.phase = "Settling" => fall' = PushSettling(w, now)
  <1>1. fall.phase \in {"Idle", "Active", "Burst", "Settling"}
    BY DEF FallTyped, FallIdle, FrameIn
  <1>2. fall.phase = "Idle" => fall = FallIdle
    BY DEF FallTyped, FallIdle
  <1>3. fall.phase = "Idle" => fall' = PushIdle(w, now)
    BY DEF FrameIn, FallPushed
  <1>4. fall.phase = "Active" => fall' = PushActive(w, now)
    BY DEF FrameIn, FallPushed
  <1>5. fall.phase = "Burst" => fall' = PushBurst(w, now)
    BY DEF FrameIn, FallPushed
  <1>6. fall.phase = "Settling" => fall' = PushSettling(w, now)
    BY DEF FrameIn, FallPushed
  <1> QED BY <1>1, <1>2, <1>3, <1>4, <1>5, <1>6 DEF PushIdle

(* The detector's state stays of its type.                                 *)
LEMMA PhaseTyped ==
  ASSUME FallTyped, NEW L, NEW n, NEW w, NEW now, FrameIn(L, n, w, now)
  PROVE  /\ FallTyped'
         /\ fall'.phase = "Refractory" <=> FallCompletes(w, now)
         /\ FallCompletes(w, now) => fall'.until = now + REFRACTORY
  <1>1. w \in Levels /\ now \in Nat /\ L = log' /\ L \in Seq(LogFrames) /\ apart' = apart
        /\ REFRACTORY \in Nat /\ w \in Nat
    BY Levelled DEF FrameIn
  <1>2. CASE fall.phase = "Idle"
    BY <1>1, <1>2, PhaseMoves DEF FallTyped, Active, FallIdle, FallCompletes
  <1>3. CASE fall.phase = "Active"
    <2>1. fall.since \in Nat /\ fall.quiet \in Nat \cup {NoTime}
      BY <1>3 DEF FallTyped, FallIdle
    <2>2. PICK q \in Nat : q = IF fall.quiet = NoTime THEN now ELSE fall.quiet
      BY <1>1, <2>1 DEF NoTime
    <2>3. \/ fall' = [phase |-> "Burst", at |-> now, peak |-> w]
          \/ fall' = FallIdle
          \/ fall' = Active(fall.since, q)
          \/ fall' = Active(fall.since, NoTime)
      BY <1>3, <2>2, PhaseMoves DEF PushActive
    <2> QED BY <1>1, <1>3, <2>1, <2>3 DEF FallTyped, Active, FallIdle, FallCompletes
  <1>4. CASE fall.phase = "Burst"
    <2>1. /\ fall.at \in Nat /\ fall.peak \in Levels
          /\ fall \in [phase : {"Burst"}, at : Nat, peak : Levels]
      BY <1>4 DEF FallTyped, FallIdle
    <2>2. PICK p \in Levels : p = IF w > fall.peak THEN w ELSE fall.peak
      BY <1>1, <2>1
    <2>3. \/ fall' = [phase |-> "Settling", burst |-> fall.at, peak |-> fall.peak, still |-> now]
          \/ fall' = Active(now, NoTime)
          \/ fall' = [fall EXCEPT !.peak = p]
      BY <1>4, <2>1, <2>2, PhaseMoves DEF PushBurst
    <2> QED BY <1>1, <1>4, <2>1, <2>3 DEF FallTyped, Active, FallIdle, FallCompletes
  <1>5. CASE fall.phase = "Settling"
    <2>1. PICK u \in Nat : u = now + REFRACTORY
      BY <1>1
    <2>2. IF w >= ActiveLevel THEN fall' = Active(now, NoTime)
          ELSE IF FallCompletes(w, now) THEN fall' = [phase |-> "Refractory", until |-> u]
          ELSE fall' = fall
      BY <1>5, <2>1, PhaseMoves DEF PushSettling
    <2>3. FallCompletes(w, now) => ~(w >= ActiveLevel)
      BY <1>1, Levelled DEF FallCompletes
    <2> QED BY <1>1, <1>5, <2>1, <2>2, <2>3 DEF FallTyped, Active
  <1> QED BY <1>2, <1>3, <1>4, <1>5, PhaseMoves

(* The next phase is the shape of the frames with the new one.             *)
LEMMA ShapeMoves ==
  ASSUME FallTyped, PhaseIsTheShape, NEW L, NEW n, NEW w, NEW now, FrameIn(L, n, w, now)
  PROVE  PhaseIsTheShape'
  <1>1. /\ n \in Nat /\ n = Len(log) /\ L = log' /\ w \in Nat /\ now \in Nat /\ Len(L) = n + 1
        /\ \A i \in 1 .. n : L[i] = log[i] /\ L[i].at < now
        /\ \A i \in 1 .. (n + 1) : L[i].w \in Nat /\ L[i].at \in Nat
        /\ L[n + 1].at = now /\ L[n + 1].w = w /\ n + 1 \in 1 .. (n + 1)
    BY DEF FrameIn
  <1>2. /\ \A b, peak : BurstAt(log, b, n, peak) => BurstAt(L, b, n, peak)
        /\ \A b, s, peak : StillAt(log, b, s, n, peak) => StillAt(L, b, s, n, peak)
    <2>1. \A i \in 1 .. n : log[i] = L[i]
      BY <1>1
    <2> QED BY <1>1, <2>1, ShapesOfThePrefix
  <1>3. SUFFICES
          /\ fall'.phase = "Active" => SeenMoving(L, n + 1, fall'.since)
          /\ fall'.phase = "Burst" =>
               \E b \in 1 .. (n + 1) : L[b].at = fall'.at /\ BurstAt(L, b, n + 1, fall'.peak)
          /\ fall'.phase = "Settling" =>
               \E b, s \in 1 .. (n + 1) :
                 /\ L[b].at = fall'.burst /\ L[s].at = fall'.still
                 /\ StillAt(L, b, s, n + 1, fall'.peak)
    BY <1>1 DEF PhaseIsTheShape
  <1>4. w >= ActiveLevel => SeenMoving(L, n + 1, now)
    BY <1>1 DEF SeenMoving
  <1>5. CASE fall.phase = "Idle"
    BY <1>4, <1>5, PhaseMoves DEF Active, FallIdle
  <1>6. CASE fall.phase = "Active"
    <2>1. fall.since \in Nat
      BY <1>6 DEF FallTyped, FallIdle
    <2>2. PICK a \in 1 .. n : L[a].w >= ActiveLevel /\ L[a].at <= fall.since
      BY <1>1, <1>6 DEF PhaseIsTheShape, SeenMoving
    <2>3. CASE w >= BurstLevel /\ now - fall.since >= MIN_ACTIVE
      <3>1. fall'.phase = "Burst" /\ fall'.at = now /\ fall'.peak = w
        BY <1>6, <2>3, PhaseMoves DEF PushActive
      <3>2. BurstAt(L, n + 1, n + 1, w)
        <4>1. a \in 1 .. ((n + 1) - 1) /\ L[n + 1].at - L[a].at >= MIN_ACTIVE
          <5>1. a \in 1 .. (n + 1) /\ L[a].at \in Nat /\ L[n + 1].at = now /\ now \in Nat
            BY <1>1
          <5>2. MIN_ACTIVE \in Nat
            BY Levelled
          <5> QED BY <1>1, <2>1, <2>2, <2>3, <5>1, <5>2
        <4>2. L[n + 1].at - L[n + 1].at <= SETTLE
          BY <1>1, Levelled
        <4>3. \A i \in (n + 1) .. (n + 1) : i = n + 1
          BY <1>1
        <4>4. \A i \in ((n + 1) + 1) .. (n + 1) : FALSE
          BY <1>1
        <4>5. n + 1 \in (n + 1) .. (n + 1)
          BY <1>1
        <4> QED BY <1>1, <2>2, <2>3, <4>1, <4>2, <4>3, <4>4, <4>5 DEF BurstAt
      <3> QED BY <1>1, <3>1, <3>2
    <2>4. CASE ~(w >= BurstLevel /\ now - fall.since >= MIN_ACTIVE)
      <3>1. fall' = FallIdle \/ (fall'.phase = "Active" /\ fall'.since = fall.since)
        BY <1>6, <2>4, PhaseMoves DEF PushActive, Active
      <3>2. SeenMoving(L, n + 1, fall.since)
        BY <1>1, <2>2 DEF SeenMoving
      <3> QED BY <3>1, <3>2 DEF FallIdle
    <2> QED BY <2>3, <2>4
  <1>7. CASE fall.phase = "Burst"
    <2>1. fall.at \in Nat /\ fall.peak \in Nat
          /\ fall \in [phase : {"Burst"}, at : Nat, peak : Levels]
      <3>1. fall \in [phase : {"Burst"}, at : Nat, peak : Levels]
        BY <1>7 DEF FallTyped, FallIdle
      <3> QED BY <3>1, Levelled
    <2>2. PICK b \in 1 .. n : L[b].at = fall.at /\ BurstAt(L, b, n, fall.peak)
      <3>1. PICK b \in 1 .. n : log[b].at = fall.at /\ BurstAt(log, b, n, fall.peak)
        BY <1>1, <1>7 DEF PhaseIsTheShape
      <3> QED BY <1>1, <1>2, <3>1
    <2>3. CASE w <= StillLevel
      <3>1. /\ fall'.phase = "Settling" /\ fall'.burst = fall.at /\ fall'.still = now
            /\ fall'.peak = fall.peak
        BY <1>7, <2>3, PhaseMoves DEF PushBurst
      <3>2. \A i \in (n + 1) .. (n + 1) : i = n + 1
        BY <1>1
      <3>3. (n + 1) - 1 = n /\ w < ActiveLevel
        BY <1>1, <2>3, Levelled
      <3>4. StillAt(L, b, n + 1, n + 1, fall.peak)
        BY <1>1, <2>2, <2>3, <3>2, <3>3 DEF StillAt
      <3>5. b \in 1 .. (n + 1)
        BY <1>1
      <3> QED BY <1>1, <2>2, <3>1, <3>4, <3>5
    <2>4. CASE ~(w <= StillLevel) /\ now - fall.at > SETTLE
      <3>1. fall'.phase = "Active" /\ fall'.since = now
        BY <1>7, <2>4, PhaseMoves DEF PushBurst, Active
      <3>2. L[b].w >= ActiveLevel /\ L[b].at <= now /\ b \in 1 .. (n + 1)
        <4>1. L[b].w >= BurstLevel /\ b \in 1 .. (n + 1)
          BY <1>1, <2>2, OneMore DEF BurstAt
        <4>2. L[b].w \in Nat /\ L[b].at \in Nat
          BY <1>1, <4>1
        <4>3. L[b].at < now
          BY <1>1
        <4> QED BY <1>1, <4>1, <4>2, <4>3, Levelled
      <3>3. SeenMoving(L, n + 1, now)
        BY <3>2 DEF SeenMoving
      <3> QED BY <3>1, <3>3
    <2>5. CASE ~(w <= StillLevel) /\ ~(now - fall.at > SETTLE)
      <3>1. PICK p \in Nat : p = IF w > fall.peak THEN w ELSE fall.peak
        BY <1>1, <2>1
      <3>2. fall' = [fall EXCEPT !.peak = p]
        BY <1>7, <2>1, <2>5, <3>1, PhaseMoves DEF PushBurst
      <3>3. fall'.phase = "Burst" /\ fall'.at = fall.at /\ fall'.peak = p
        BY <1>7, <2>1, <3>2
      <3>4. /\ b \in 1 .. (n + 1) /\ b \in b .. (n + 1) /\ n + 1 \in b .. (n + 1)
            /\ \A i \in b .. (n + 1) : i = n + 1 \/ i \in b .. n
            /\ \A i \in (b + 1) .. (n + 1) : i = n + 1 \/ i \in (b + 1) .. n
            /\ \A i \in b .. n : i \in b .. (n + 1) /\ i \in 1 .. (n + 1)
        BY <1>1, OneMore
      <3>5. \E i \in b .. (n + 1) : L[i].w = p
        <4>1. PICK i \in b .. n : L[i].w = fall.peak
          BY <2>2 DEF BurstAt
        <4> QED BY <1>1, <3>1, <3>4, <4>1
      <3>6. \A i \in b .. (n + 1) : L[i].w <= p
        <4>1. \A i \in b .. n : L[i].w <= fall.peak /\ L[i].w \in Nat
          BY <1>1, <2>2, <3>4 DEF BurstAt
        <4>2. fall.peak <= p /\ w <= p
          BY <1>1, <2>1, <3>1
        <4>3. \A i \in b .. n : L[i].w <= p
          BY <2>1, <3>1, <4>1, <4>2
        <4> QED BY <1>1, <3>4, <4>2, <4>3
      <3>7. \A i \in (b + 1) .. (n + 1) : L[i].w > StillLevel
        <4>1. \A i \in (b + 1) .. n : L[i].w > StillLevel
          BY <2>2 DEF BurstAt
        <4>2. L[n + 1].w > StillLevel
          BY <1>1, <2>5, Levelled
        <4> QED BY <3>4, <4>1, <4>2
      <3>8. L[n + 1].at - L[b].at <= SETTLE
        <4>1. L[b].at = fall.at /\ L[n + 1].at = now
          BY <1>1, <2>2
        <4> QED BY <1>1, <2>1, <2>5, <4>1, Levelled
      <3>9. BurstAt(L, b, n + 1, p)
        BY <2>2, <3>4, <3>5, <3>6, <3>7, <3>8 DEF BurstAt
      <3> QED BY <2>2, <3>3, <3>4, <3>9
    <2> QED BY <2>3, <2>4, <2>5
  <1>8. CASE fall.phase = "Settling"
    <2>1. CASE w >= ActiveLevel
      BY <1>4, <1>8, <2>1, PhaseMoves DEF PushSettling, Active
    <2>2. CASE ~(w >= ActiveLevel) /\ FallCompletes(w, now)
      <3>1. fall'.phase = "Refractory"
        BY <1>8, <2>2, PhaseMoves DEF PushSettling
      <3> QED BY <3>1
    <2>3. CASE ~(w >= ActiveLevel) /\ ~FallCompletes(w, now)
      <3>1. fall' = fall
        BY <1>8, <2>3, PhaseMoves DEF PushSettling
      <3>2. PICK b \in 1 .. n, s \in 1 .. n :
              L[b].at = fall.burst /\ L[s].at = fall.still /\ StillAt(L, b, s, n, fall.peak)
        <4>1. PICK b \in 1 .. n, s \in 1 .. n :
                log[b].at = fall.burst /\ log[s].at = fall.still /\ StillAt(log, b, s, n, fall.peak)
          BY <1>1, <1>8 DEF PhaseIsTheShape
        <4> QED BY <1>1, <1>2, <4>1
      <3>3. b \in 1 .. (n + 1) /\ s \in 1 .. (n + 1)
            /\ \A i \in s .. (n + 1) : i = n + 1 \/ i \in s .. n
        BY <1>1, OneMore
      <3>4. w < ActiveLevel
        BY <1>1, <2>3, Levelled
      <3>5. StillAt(L, b, s, n + 1, fall.peak)
        BY <1>1, <3>2, <3>3, <3>4 DEF StillAt
      <3> QED BY <1>8, <3>1, <3>2, <3>3, <3>5
    <2> QED BY <2>1, <2>2, <2>3
  <1> QED BY <1>5, <1>6, <1>7, <1>8, PhaseMoves

(* An event is raised by the frame that completes the shape.               *)
LEMMA EventMoves ==
  ASSUME FallTyped, PhaseIsTheShape, NEW L, NEW n, NEW w, NEW now, FrameIn(L, n, w, now)
  PROVE  EventIsTheShape' /\ (event' # NoEvent <=> FallCompletes(w, now))
  <1>1. /\ n \in Nat /\ n = Len(log) /\ L = log' /\ w \in Nat /\ now \in Nat /\ Len(L) = n + 1
        /\ \A i \in 1 .. n : L[i] = log[i]
        /\ L[n + 1].at = now /\ L[n + 1].w = w
    BY DEF FrameIn
  <1>2. CASE ~FallCompletes(w, now)
    BY <1>2 DEF FrameIn, EventIsTheShape
  <1>3. CASE FallCompletes(w, now)
    <2>1. /\ fall.phase = "Settling" /\ w <= StillLevel /\ now - fall.still >= STILL_FOR
          /\ event' = [burst |-> fall.burst, peak |-> fall.peak, still |-> fall.still, at |-> now]
      BY <1>3 DEF FrameIn, FallCompletes
    <2>2. event' # NoEvent
      <3>1. event'.at = now /\ NoEvent.at = -1 /\ now # -1
        BY <1>1, <2>1 DEF NoEvent, NoTime
      <3> QED BY <3>1
    <2>3. PICK b \in 1 .. n, s \in 1 .. n :
            log[b].at = fall.burst /\ log[s].at = fall.still /\ StillAt(log, b, s, n, fall.peak)
      BY <1>1, <2>1 DEF PhaseIsTheShape
    <2>4. StillAt(L, b, s, n, fall.peak)
      <3>1. \A i \in 1 .. n : log[i] = L[i]
        BY <1>1
      <3> QED BY <1>1, <2>3, <3>1, ShapesOfThePrefix
    <2>5. b \in 1 .. (n + 1) /\ s \in 1 .. (n + 1)
          /\ \A i \in s .. (n + 1) : i = n + 1 \/ i \in s .. n
      BY <1>1
    <2>6. w < ActiveLevel
      BY <1>1, <2>1, Levelled
    <2>7. StillAt(L, b, s, n + 1, fall.peak)
      BY <1>1, <2>4, <2>5, <2>6 DEF StillAt
    <2>8. fall'.phase = "Refractory"
      BY <1>3, PhaseTyped
    <2> QED BY <1>1, <1>3, <2>1, <2>2, <2>3, <2>5, <2>7, <2>8 DEF EventIsTheShape
  <1> QED BY <1>2, <1>3 DEF FrameIn

(* A shape of one frame more is a shape already, or begins with the frame.  *)
LEMMA ShapesShrink ==
  ASSUME NEW n \in Nat, NEW L
  PROVE  /\ \A a : Walks(L, a, n + 1) => a = n + 1 \/ Walks(L, a, n)
         /\ \A a, b : Bursts(L, a, b, n + 1) => b = n + 1 \/ Bursts(L, a, b, n)
         /\ \A a, b, s : Lies(L, a, b, s, n + 1) => s = n + 1 \/ Lies(L, a, b, s, n)
  <1>1. ASSUME NEW a, Walks(L, a, n + 1), a # n + 1
        PROVE  Walks(L, a, n)
    <2>1. a \in 1 .. n /\ \A i \in a .. n : i \in a .. (n + 1)
      BY <1>1 DEF Walks
    <2> QED BY <1>1, <2>1 DEF Walks
  <1>2. ASSUME NEW a, NEW b, Bursts(L, a, b, n + 1), b # n + 1
        PROVE  Bursts(L, a, b, n)
    <2>1. b \in 1 .. n /\ \A i \in (b + 1) .. n : i \in (b + 1) .. (n + 1)
      BY <1>2 DEF Bursts
    <2> QED BY <1>2, <2>1 DEF Bursts
  <1>3. ASSUME NEW a, NEW b, NEW s, Lies(L, a, b, s, n + 1), s # n + 1
        PROVE  Lies(L, a, b, s, n)
    <2>1. s \in 1 .. n /\ \A i \in s .. n : i \in s .. (n + 1)
      BY <1>3 DEF Lies
    <2> QED BY <1>3, <2>1 DEF Lies
  <1> QED BY <1>1, <1>2, <1>3

(* Somebody walking is still watched after the frame.                      *)
LEMMA WalkWatched ==
  ASSUME FallTyped, Watched, NEW L, NEW n, NEW w, NEW now, FrameIn(L, n, w, now),
         NEW a \in 1 .. (n + 1), Walks(L, a, n + 1)
  PROVE  /\ fall'.phase = "Active" /\ fall'.since = L[a].at
         /\ fall'.quiet = NoTime \/ \E q \in a .. (n + 1) :
              fall'.quiet = L[q].at /\ \A k \in q .. (n + 1) : L[k].w <= StillLevel
  <1>1. /\ n \in Nat /\ n = Len(log) /\ w \in Nat /\ now \in Nat
        /\ \A i \in 1 .. n : L[i] = log[i]
        /\ L[n + 1].at = now /\ L[n + 1].w = w /\ L[n + 1].met = fall.phase
    BY DEF FrameIn
  <1>2. CASE a = n + 1
    <2>1. fall.phase = "Idle" /\ w >= ActiveLevel
      BY <1>1, <1>2 DEF Walks
    <2> QED BY <1>1, <1>2, <2>1, PhaseMoves DEF Active
  <1>3. CASE a # n + 1
    <2>1. Walks(log, a, n) /\ a \in 1 .. n
      <3>1. Walks(L, a, n)
        BY <1>1, <1>3, ShapesShrink
      <3>2. \A i \in 1 .. n : L[i] = log[i]
        BY <1>1
      <3>3. Walks(log, a, n)
        BY <1>1, <3>1, <3>2, ShapesOfThePrefix
      <3> QED BY <1>1, <1>3, <3>3
    <2>2. /\ fall.phase = "Active" /\ fall.since = L[a].at
          /\ fall.quiet = NoTime \/ \E q \in a .. n : /\ fall.quiet = L[q].at
                                                    /\ \A k \in q .. n : L[k].w <= StillLevel
      <3>1. /\ fall.phase = "Active" /\ fall.since = log[a].at
            /\ fall.quiet = NoTime \/ \E q \in a .. n : /\ fall.quiet = log[q].at
                                                      /\ \A k \in q .. n : log[k].w <= StillLevel
        BY <1>1, <2>1 DEF Watched
      <3>2. \A q \in a .. n : \A k \in q .. n : q \in 1 .. n /\ k \in 1 .. n
        BY <1>1, <2>1
      <3>3. ASSUME NEW q \in a .. n, fall.quiet = log[q].at, \A k \in q .. n : log[k].w <= StillLevel
            PROVE  fall.quiet = L[q].at /\ \A k \in q .. n : L[k].w <= StillLevel
        <4>1. q \in 1 .. n
          BY <1>1, <2>1
        <4> QED BY <1>1, <3>2, <3>3, <4>1
      <3> QED BY <1>1, <2>1, <3>1, <3>3
    <2>3. w < BurstLevel /\ ~(w >= BurstLevel)
      <3>1. n + 1 \in a .. (n + 1)
        BY <1>1, <2>1
      <3> QED BY <1>1, <3>1, Levelled DEF Walks
    <2>4. \A q \in a .. (n + 1) : (\A k \in q .. (n + 1) : L[k].w <= StillLevel)
                                    => now - L[q].at < QUIET_GRACE
      <3>1. n + 1 \in a .. (n + 1) /\ \A q \in a .. (n + 1) : q <= n + 1
        BY <1>1, <2>1
      <3> QED BY <1>1, <3>1 DEF Walks
    <2>5. CASE ~(w <= StillLevel)
      BY <2>2, <2>3, <2>5, PhaseMoves DEF PushActive, Active
    <2>6. CASE w <= StillLevel /\ fall.quiet = NoTime
      <3>1. \A k \in (n + 1) .. (n + 1) : k = n + 1
        BY <1>1
      <3>2. n + 1 \in a .. (n + 1)
        BY <1>1, <2>1
      <3>3. now - now < QUIET_GRACE
        BY <1>1, <2>4, <2>6, <3>1, <3>2
      <3>4. ~(now - now >= QUIET_GRACE)
        BY <1>1, <3>3, Levelled
      <3>5. fall' = Active(fall.since, now)
        BY <2>2, <2>3, <2>6, <3>4, PhaseMoves DEF PushActive
      <3>6. fall'.phase = "Active" /\ fall'.since = L[a].at /\ fall'.quiet = L[n + 1].at
        BY <1>1, <2>2, <3>5 DEF Active
      <3>7. \A k \in (n + 1) .. (n + 1) : L[k].w <= StillLevel
        BY <1>1, <2>6, <3>1
      <3> QED BY <3>2, <3>6, <3>7
    <2>7. CASE w <= StillLevel /\ fall.quiet # NoTime
      <3>1. PICK q \in a .. n : fall.quiet = L[q].at /\ \A k \in q .. n : L[k].w <= StillLevel
        BY <2>2, <2>7
      <3>2. q \in a .. (n + 1) /\ q \in 1 .. n /\ \A k \in q .. (n + 1) : k = n + 1 \/ k \in q .. n
        BY <1>1, <2>1
      <3>3. \A k \in q .. (n + 1) : L[k].w <= StillLevel
        BY <1>1, <2>7, <3>1, <3>2
      <3>4. L[q].at \in Nat
        BY <3>2, <1>1 DEF FrameIn
      <3>5. now - fall.quiet < QUIET_GRACE
        BY <2>4, <3>1, <3>2, <3>3
      <3>6. ~(now - fall.quiet >= QUIET_GRACE)
        BY <1>1, <3>1, <3>4, <3>5, Levelled
      <3>7. fall' = Active(fall.since, fall.quiet)
        BY <2>2, <2>3, <2>7, <3>6, PhaseMoves DEF PushActive
      <3>8. fall'.phase = "Active" /\ fall'.since = L[a].at /\ fall'.quiet = L[q].at
        BY <2>2, <3>1, <3>7 DEF Active
      <3> QED BY <3>2, <3>3, <3>8
    <2> QED BY <2>5, <2>6, <2>7
  <1> QED BY <1>2, <1>3

(* So is a burst.                                                          *)
LEMMA BurstWatched ==
  ASSUME FallTyped, Watched, NEW L, NEW n, NEW w, NEW now, FrameIn(L, n, w, now),
         NEW a, NEW b, Bursts(L, a, b, n + 1)
  PROVE  fall'.phase = "Burst" /\ fall'.at = L[b].at
  <1>1. /\ n \in Nat /\ n = Len(log) /\ w \in Nat /\ now \in Nat
        /\ \A i \in 1 .. n : L[i] = log[i]
        /\ L[n + 1].at = now /\ L[n + 1].w = w
    BY DEF FrameIn
  <1>a. \A i \in 1 .. n : L[i] = log[i]
    BY <1>1
  <1>2. CASE b = n + 1
    <2>1. Walks(L, a, n) /\ w >= BurstLevel /\ now - L[a].at >= MIN_ACTIVE
      <3>1. (n + 1) - 1 = n
        BY <1>1
      <3> QED BY <1>1, <1>2, <3>1 DEF Bursts
    <2>2. Walks(log, a, n)
      BY <1>1, <1>a, <2>1, ShapesOfThePrefix
    <2>3. a \in 1 .. n
      BY <2>2 DEF Walks
    <2>4. fall.phase = "Active" /\ fall.since = L[a].at
      BY <1>1, <2>2, <2>3 DEF Watched
    <2> QED BY <1>1, <1>2, <2>1, <2>4, PhaseMoves DEF PushActive
  <1>3. CASE b # n + 1
    <2>1. Bursts(L, a, b, n)
      BY <1>1, <1>3, ShapesShrink
    <2>2. Bursts(log, a, b, n)
      BY <1>1, <1>a, <2>1, ShapesOfThePrefix
    <2>3. b \in 1 .. n /\ a \in 1 .. n
      <3>1. b \in 1 .. n /\ a \in 1 .. (b - 1)
        BY <2>2 DEF Bursts, Walks
      <3> QED BY <1>1, <3>1
    <2>4. fall.phase = "Burst" /\ fall.at = L[b].at
      BY <1>1, <2>2, <2>3 DEF Watched
    <2>5. now - L[b].at <= SETTLE /\ w >= ActiveLevel
      <3>1. n + 1 \in (b + 1) .. (n + 1)
        BY <1>1, <2>3
      <3> QED BY <1>1, <3>1 DEF Bursts
    <2>6. L[b].at \in Nat
      BY <2>3, <1>1 DEF FrameIn
    <2>7. ~(w <= StillLevel) /\ ~(now - fall.at > SETTLE)
      BY <1>1, <2>4, <2>5, <2>6, Levelled
    <2>8. fall' = [fall EXCEPT !.peak = IF w > fall.peak THEN w ELSE fall.peak]
      BY <2>4, <2>7, PhaseMoves DEF PushBurst
    <2>9. fall \in [phase : {"Burst"}, at : Nat, peak : Levels]
      BY <2>4 DEF FallTyped, FallIdle
    <2> QED BY <2>4, <2>8, <2>9
  <1> QED BY <1>2, <1>3

(* And so is whoever lies still, until the event is raised.                *)
LEMMA LyingWatched ==
  ASSUME FallTyped, Watched, NEW L, NEW n, NEW w, NEW now, FrameIn(L, n, w, now),
         NEW a, NEW b, NEW s, Lies(L, a, b, s, n + 1)
  PROVE  IF fall'.phase = "Refractory"
         THEN event' # NoEvent /\ event'.burst = L[b].at
         ELSE /\ fall'.phase = "Settling" /\ fall'.burst = L[b].at /\ fall'.still = L[s].at
              /\ s < n + 1 => L[n + 1].at - L[s].at < STILL_FOR
  <1>1. /\ n \in Nat /\ n = Len(log) /\ w \in Nat /\ now \in Nat
        /\ \A i \in 1 .. n : L[i] = log[i]
        /\ L[n + 1].at = now /\ L[n + 1].w = w /\ fall.phase # "Refractory"
    BY DEF FrameIn
  <1>a. \A i \in 1 .. n : L[i] = log[i]
    BY <1>1
  <1>b. w <= StillLevel /\ ~(w >= ActiveLevel)
    <2>1. s \in 1 .. (n + 1)
      BY DEF Lies
    <2>2. n + 1 \in s .. (n + 1)
      BY <1>1, <2>1
    <2>3. w <= StillLevel
      BY <1>1, <2>2 DEF Lies
    <2> QED BY <1>1, <2>3, Levelled
  <1>2. CASE s = n + 1
    <2>1. Bursts(L, a, b, n)
      <3>1. (n + 1) - 1 = n
        BY <1>1
      <3> QED BY <1>1, <1>2, <3>1 DEF Lies
    <2>2. Bursts(log, a, b, n)
      BY <1>1, <1>a, <2>1, ShapesOfThePrefix
    <2>3. b \in 1 .. n /\ a \in 1 .. n
      <3>1. b \in 1 .. n /\ a \in 1 .. (b - 1)
        BY <2>2 DEF Bursts, Walks
      <3> QED BY <1>1, <3>1
    <2>4. fall.phase = "Burst" /\ fall.at = L[b].at
      BY <1>1, <2>2, <2>3 DEF Watched
    <2>5. fall'.phase = "Settling" /\ fall'.burst = L[b].at /\ fall'.still = now
      BY <1>b, <2>4, PhaseMoves DEF PushBurst
    <2> QED BY <1>1, <1>2, <2>5
  <1>3. CASE s # n + 1
    <2>1. Lies(L, a, b, s, n)
      BY <1>1, <1>3, ShapesShrink
    <2>2. Lies(log, a, b, s, n)
      BY <1>1, <1>a, <2>1, ShapesOfThePrefix
    <2>3. b \in 1 .. n /\ a \in 1 .. n /\ s \in 1 .. n
      <3>1. s \in 1 .. n /\ b \in 1 .. (s - 1) /\ a \in 1 .. (b - 1)
        BY <2>2 DEF Lies, Bursts, Walks
      <3>2. b \in 1 .. n
        BY <1>1, <3>1
      <3> QED BY <1>1, <3>1, <3>2
    <2>4. fall.phase = "Settling" /\ fall.burst = L[b].at /\ fall.still = L[s].at
      BY <1>1, <2>2, <2>3 DEF Watched
    <2>5. L[s].at \in Nat
      BY <2>3, <1>1 DEF FrameIn
    <2>6. CASE FallCompletes(w, now)
      <3>1. event' = [burst |-> fall.burst, peak |-> fall.peak, still |-> fall.still, at |-> now]
        BY <2>6 DEF FrameIn
      <3>2. event' # NoEvent
        <4>1. event'.at = now /\ NoEvent.at = -1 /\ now # -1
          BY <1>1, <3>1 DEF NoEvent, NoTime
        <4> QED BY <4>1
      <3>3. fall'.phase = "Refractory"
        BY <2>6, PhaseTyped
      <3> QED BY <2>4, <3>1, <3>2, <3>3
    <2>7. CASE ~FallCompletes(w, now)
      <3>1. fall' = fall
        BY <1>b, <2>4, <2>7, PhaseMoves DEF PushSettling
      <3>2. now - L[s].at < STILL_FOR
        BY <1>1, <1>b, <2>4, <2>5, <2>7, Levelled DEF FallCompletes
      <3> QED BY <1>1, <2>4, <3>1, <3>2
    <2> QED BY <2>6, <2>7
  <1> QED BY <1>2, <1>3

(* A frame outside the refractory time keeps the invariant.                *)
LEMMA FrameKeeps ==
  ASSUME FallInv, NEW L, NEW n, NEW w, NEW now, FrameIn(L, n, w, now)
  PROVE  FallInv'
  <1>1. /\ n \in Nat /\ n = Len(log) /\ L = log' /\ w \in Nat /\ now \in Nat /\ Len(L) = n + 1
        /\ \A i \in 1 .. n : L[i] = log[i] /\ L[i].at < now
        /\ L[n + 1].at = now /\ apart' = apart /\ fall.phase # "Refractory"
    BY DEF FrameIn
  <1>2. FallTyped' /\ PhaseIsTheShape' /\ EventIsTheShape'
    BY PhaseTyped, ShapeMoves, EventMoves DEF FallInv
  <1>3. OneAfterAnother'
    <2>1. ASSUME NEW i \in 1 .. (n + 1), NEW j \in 1 .. (n + 1), i < j
          PROVE  L[i].at < L[j].at
      <3>1. i \in 1 .. n /\ (j = n + 1 \/ j \in 1 .. n)
        BY <1>1, <2>1
      <3>2. CASE j = n + 1
        BY <1>1, <3>1, <3>2
      <3>3. CASE j \in 1 .. n
        <4>1. log[i].at < log[j].at
          BY <1>1, <2>1, <3>1, <3>3 DEF FallInv, OneAfterAnother
        <4> QED BY <1>1, <3>1, <3>3, <4>1
      <3> QED BY <3>1, <3>2, <3>3
    <2> QED BY <1>1, <2>1 DEF OneAfterAnother
  <1>4. RefractoryRuns'
    <2>1. apart >= REFRACTORY
      BY <1>1 DEF FallInv, RefractoryRuns
    <2>2. fall'.phase = "Refractory" => event' # NoEvent /\ fall'.until = now + REFRACTORY
      BY PhaseTyped, EventMoves DEF FallInv
    <2>3. Now' = now
      <3>1. log' # <<>>
        BY <1>1
      <3> QED BY <1>1, <3>1 DEF Now
    <2> QED BY <1>1, <2>1, <2>2, <2>3 DEF RefractoryRuns
  <1>5. Watched'
    <2>1. FallTyped /\ Watched
      BY DEF FallInv
    <2>2. \A a \in 1 .. (n + 1) : Walks(L, a, n + 1) =>
            /\ fall'.phase = "Active" /\ fall'.since = L[a].at
            /\ fall'.quiet = NoTime \/ \E q \in a .. (n + 1) :
                 fall'.quiet = L[q].at /\ \A k \in q .. (n + 1) : L[k].w <= StillLevel
      BY <2>1, WalkWatched
    <2>3. \A a, b \in 1 .. (n + 1) : Bursts(L, a, b, n + 1) => fall'.phase = "Burst" /\
          fall'.at = L[b].at
      BY <2>1, BurstWatched
    <2>4. \A a, b, s \in 1 .. (n + 1) : Lies(L, a, b, s, n + 1) =>
            IF fall'.phase = "Refractory"
            THEN event' # NoEvent /\ event'.burst = L[b].at
            ELSE /\ fall'.phase = "Settling" /\ fall'.burst = L[b].at /\ fall'.still = L[s].at
                 /\ s < n + 1 => L[n + 1].at - L[s].at < STILL_FOR
      BY <2>1, LyingWatched
    <2> QED BY <1>1, <2>2, <2>3, <2>4 DEF Watched
  <1> QED BY <1>2, <1>3, <1>4, <1>5 DEF FallInv

(* A frame met while refractory begins the log again.                      *)
LEMMA AnewKeeps ==
  ASSUME FallInv, NEW w \in Levels, NEW gap \in Gaps, NEW now, now = Now + gap,
         fall.phase = "Refractory",
         fall' = (IF now >= fall.until THEN FallIdle ELSE [phase |-> "Refractory", until |-> fall.until - now]),
         event' = NoEvent,
         log' = <<[at |-> 0, w |-> w, met |-> "Refractory"]>>,
         apart' = (IF event # NoEvent THEN gap ELSE Min({apart + now, REFRACTORY}))
  PROVE  FallInv'
  <1>1. log \in Seq(LogFrames) /\ apart \in Nat /\ fall.until \in Int /\ gap \in Nat /\ gap > 0
        /\ REFRACTORY \in Nat
    <2>1. log \in Seq(LogFrames) /\ apart \in Nat
      BY DEF FallInv, FallTyped
    <2>2. fall.until \in Int
      BY DEF FallInv, FallTyped, FallIdle
    <2> QED BY <2>1, <2>2, FallAssumption
  <1>2. Now \in Nat
    <2>1. CASE log = <<>>
      BY <2>1 DEF Now
    <2>2. CASE log # <<>>
      <3>1. Len(log) \in 1 .. Len(log)
        BY <1>1, <2>2
      <3>2. log[Len(log)] \in LogFrames
        BY <1>1, <3>1
      <3> QED BY <2>2, <3>2 DEF Now, LogFrames
    <2> QED BY <2>1, <2>2
  <1>3. now \in Nat /\ now > 0
    BY <1>1, <1>2
  <1>4. Min({apart + now, REFRACTORY}) = IF apart + now <= REFRACTORY THEN apart + now ELSE REFRACTORY
    <2>1. PICK x \in Nat : x = apart + now
      BY <1>1, <1>3
    <2>2. PICK m : m = Min({x, REFRACTORY})
      OBVIOUS
    <2>3. m = CHOOSE y \in {x, REFRACTORY} : \A z \in {x, REFRACTORY} : y <= z
      BY <2>2 DEF Min
    <2>4. \E y \in {x, REFRACTORY} : \A z \in {x, REFRACTORY} : y <= z
      BY <1>1, <2>1
    <2>5. m \in {x, REFRACTORY} /\ \A z \in {x, REFRACTORY} : m <= z
      BY <2>3, <2>4
    <2>6. m = IF x <= REFRACTORY THEN x ELSE REFRACTORY
      BY <1>1, <2>1, <2>5
    <2> QED BY <2>1, <2>2, <2>6
  <1>5. apart' \in Nat
    BY <1>1, <1>3, <1>4
  <1>6. PICK L : L = log'
    OBVIOUS
  <1>7. Len(L) = 1 /\ L[1] = [at |-> 0, w |-> w, met |-> "Refractory"] /\ L # <<>>
    BY <1>6
  <1>8. FallTyped'
    <2>1. [at |-> 0, w |-> w, met |-> "Refractory"] \in LogFrames
      BY DEF LogFrames, FallPhases
    <2>2. L \in Seq(LogFrames)
      BY <1>6, <2>1
    <2>3. fall.until - now \in Int
      BY <1>1, <1>3
    <2>4. fall' \in {FallIdle} \cup [phase : {"Refractory"}, until : Int]
      BY <2>3
    <2> QED BY <1>5, <1>6, <2>2, <2>4 DEF FallTyped
  <1>9. OneAfterAnother'
    <2>1. \A i, j \in 1 .. Len(L) : ~(i < j)
      BY <1>7
    <2> QED BY <1>6, <2>1 DEF OneAfterAnother
  <1>10. fall'.phase \in {"Idle", "Refractory"}
    BY DEF FallIdle
  <1>11. PhaseIsTheShape' /\ EventIsTheShape'
    BY <1>10 DEF PhaseIsTheShape, EventIsTheShape
  <1>12. RefractoryRuns'
    <2>1. Now' = 0
      BY <1>6, <1>7 DEF Now
    <2>2. IF event # NoEvent THEN fall.until = Now + REFRACTORY /\ apart >= REFRACTORY
          ELSE fall.until > 0 /\ apart + fall.until >= REFRACTORY /\ Now = 0
      BY DEF FallInv, RefractoryRuns
    <2>3. CASE now >= fall.until
      <3>1. fall'.phase = "Idle"
        BY <2>3 DEF FallIdle
      <3>2. apart' >= REFRACTORY
        BY <1>1, <1>2, <1>3, <1>4, <2>2, <2>3
      <3> QED BY <3>1, <3>2 DEF RefractoryRuns
    <2>4. CASE ~(now >= fall.until)
      <3>1. fall'.phase = "Refractory" /\ fall'.until = fall.until - now
        BY <2>4
      <3>2. fall.until - now > 0 /\ apart' + (fall.until - now) >= REFRACTORY
        BY <1>1, <1>2, <1>3, <1>4, <2>2, <2>4
      <3> QED BY <2>1, <3>1, <3>2 DEF RefractoryRuns
    <2> QED BY <2>3, <2>4
  <1>13. Watched'
    <2>1. \A a : ~Walks(L, a, 1) /\ ~Walks(L, a, 0)
      BY <1>7 DEF Walks
    <2>2. ASSUME NEW a, NEW b, NEW m \in 0 .. 1, Bursts(L, a, b, m)
          PROVE  FALSE
      <3>1. b \in 1 .. m /\ Walks(L, a, b - 1)
        BY <2>2 DEF Bursts
      <3>2. b - 1 = 0
        BY <3>1
      <3> QED BY <2>1, <3>1, <3>2
    <2>3. ASSUME NEW a, NEW b, NEW s, Lies(L, a, b, s, 1)
          PROVE  FALSE
      <3>1. s \in 1 .. 1 /\ Bursts(L, a, b, s - 1)
        BY <2>3 DEF Lies
      <3>2. s - 1 \in 0 .. 1
        BY <3>1
      <3> QED BY <2>2, <3>1, <3>2
    <2>4. \A a, b : ~Bursts(L, a, b, 1)
      <3>1. 1 \in 0 .. 1
        OBVIOUS
      <3> QED BY <2>2, <3>1
    <2>5. \A a, b, s : ~Lies(L, a, b, s, 1)
      BY <2>3
    <2> QED BY <1>6, <1>7, <2>1, <2>4, <2>5 DEF Watched
  <1> QED BY <1>8, <1>9, <1>11, <1>12, <1>13 DEF FallInv

(* A push is one or the other.                                             *)
LEMMA PushKeeps ==
  ASSUME FallInv, PushWander
  PROVE  FallInv'
  <1>1. PICK w, gap, now :
          /\ w \in Levels /\ gap \in Gaps
          /\ now = Now + gap
          /\ LET anew  == fall.phase = "Refractory"
                 seen  == IF anew THEN <<>> ELSE log
                 next  == FallPushed(w, now)
                 at(t) == IF anew THEN t - now ELSE t
             IN  /\ fall' = IF next.phase = "Refractory" THEN [next EXCEPT !.until = at(@)] ELSE next
                 /\ event' = IF FallCompletes(w, now)
                             THEN [burst |-> fall.burst, peak |-> fall.peak, still |-> fall.still, at |-> now]
                             ELSE NoEvent
                 /\ log' = Append(seen, [at |-> at(now), w |-> w, met |-> fall.phase])
                 /\ apart' = IF ~anew THEN apart
                             ELSE IF event # NoEvent THEN gap ELSE Min({apart + now, REFRACTORY})
    BY DEF PushWander
  <1>2. log \in Seq(LogFrames) /\ w \in Levels /\ w \in Nat /\ gap \in Nat /\ gap > 0
        /\ fall.phase \in FallPhases
    <2>1. log \in Seq(LogFrames)
      BY DEF FallInv, FallTyped
    <2>2. fall.phase \in FallPhases
      BY DEF FallInv, FallTyped, FallIdle, FallPhases
    <2> QED BY <1>1, <2>1, <2>2, FallAssumption
  <1>3. CASE fall.phase = "Refractory"
    <2>1. FallPushed(w, now) = PushRefractory(now)
      BY <1>3 DEF FallPushed
    <2>2. fall \in [phase : {"Refractory"}, until : Int]
      BY <1>3 DEF FallInv, FallTyped, FallIdle
    <2>3. ~FallCompletes(w, now)
      BY <1>3 DEF FallCompletes
    <2>4. event' = NoEvent
      BY <1>1, <2>3
    <2>5. log' = <<[at |-> now - now, w |-> w, met |-> "Refractory"]>>
      BY <1>1, <1>3
    <2>6. now - now = 0
      <3>1. Now \in Nat
        <4>1. CASE log = <<>>
          BY <4>1 DEF Now
        <4>2. CASE log # <<>>
          <5>1. Len(log) \in 1 .. Len(log)
            BY <1>2, <4>2
          <5>2. log[Len(log)] \in LogFrames
            BY <1>2, <5>1
          <5> QED BY <4>2, <5>2 DEF Now, LogFrames
        <4> QED BY <4>1, <4>2
      <3> QED BY <1>1, <1>2, <3>1
    <2>7. apart' = IF event # NoEvent THEN gap ELSE Min({apart + now, REFRACTORY})
      BY <1>1, <1>3
    <2>8. CASE now >= fall.until
      <3>1. fall' = FallIdle
        BY <1>1, <2>1, <2>8 DEF PushRefractory, FallIdle
      <3> QED BY <1>1, <1>3, <2>4, <2>5, <2>6, <2>7, <2>8, <3>1, AnewKeeps
    <2>9. CASE ~(now >= fall.until)
      <3>1. FallPushed(w, now) = fall
        BY <2>1, <2>9 DEF PushRefractory
      <3>2. fall' = [fall EXCEPT !.until = fall.until - now]
        BY <1>1, <1>3, <3>1
      <3>3. fall' = [phase |-> "Refractory", until |-> fall.until - now]
        BY <2>2, <3>2
      <3> QED BY <1>1, <1>3, <2>4, <2>5, <2>6, <2>7, <2>9, <3>3, AnewKeeps
    <2> QED BY <2>8, <2>9
  <1>4. CASE fall.phase # "Refractory"
    <2>1. PICK L : L = log'
      OBVIOUS
    <2>2. PICK n \in Nat : n = Len(log)
      BY <1>2
    <2>3. L = Append(log, [at |-> now, w |-> w, met |-> fall.phase])
      BY <1>1, <1>4, <2>1
    <2>4. now \in Nat /\ \A i \in 1 .. n : log[i].at \in Nat /\ log[i].at < now
      <3>1. \A i \in 1 .. n : log[i] \in LogFrames
        BY <1>2, <2>2
      <3>2. \A i \in 1 .. n : log[i].at \in Nat
        BY <3>1 DEF LogFrames
      <3>3. CASE log = <<>>
        <4>1. n = 0 /\ now = gap
          BY <1>1, <1>2, <2>2, <3>3 DEF Now
        <4> QED BY <1>2, <4>1
      <3>4. CASE log # <<>>
        <4>1. n \in 1 .. n /\ log # <<>>
          BY <1>2, <2>2, <3>4
        <4>2. now = log[n].at + gap
          BY <1>1, <2>2, <4>1 DEF Now
        <4>3. \A i \in 1 .. n : i < n => log[i].at < log[n].at
          BY <2>2, <4>1 DEF FallInv, OneAfterAnother
        <4>4. log[n].at < now /\ now \in Nat
          BY <1>2, <3>2, <4>1, <4>2
        <4>5. ASSUME NEW i \in 1 .. n
              PROVE  log[i].at < now
          <5>1. log[i].at \in Nat /\ log[n].at \in Nat
            BY <3>2, <4>1
          <5>2. i = n \/ log[i].at < log[n].at
            BY <4>3
          <5> QED BY <4>4, <5>1, <5>2
        <4> QED BY <3>2, <4>4, <4>5
      <3> QED BY <3>3, <3>4
    <2>5. [at |-> now, w |-> w, met |-> fall.phase] \in LogFrames
      BY <1>2, <2>4 DEF LogFrames
    <2>6. L \in Seq(LogFrames) /\ Len(L) = n + 1 /\ (\A i \in 1 .. n : L[i] = log[i])
          /\ L[n + 1] = [at |-> now, w |-> w, met |-> fall.phase]
      BY <1>2, <2>2, <2>3, <2>5
    <2>7. \A i \in 1 .. (n + 1) : L[i].w \in Nat /\ L[i].at \in Nat
      <3>1. \A i \in 1 .. (n + 1) : L[i] \in LogFrames
        BY <2>6
      <3> QED BY <3>1, Levelled DEF LogFrames
    <2>8. fall' = FallPushed(w, now)
      <3>1. PICK next : next = FallPushed(w, now)
        OBVIOUS
      <3>2. fall' = IF next.phase = "Refractory" THEN [next EXCEPT !.until = next.until] ELSE next
        BY <1>1, <1>4, <3>1
      <3>3. next.phase = "Refractory" => next = [phase |-> "Refractory", until |-> now + REFRACTORY]
        <4>1. fall.phase \in {"Idle", "Active", "Burst", "Settling"}
          BY <1>2, <1>4 DEF FallPhases
        <4>2. CASE fall.phase = "Idle"
          <5>1. next = PushIdle(w, now)
            BY <3>1, <4>2 DEF FallPushed
          <5> QED BY <1>4, <4>2, <5>1 DEF PushIdle, Active
        <4>3. CASE fall.phase = "Active"
          <5>1. next = PushActive(w, now)
            BY <3>1, <4>3 DEF FallPushed
          <5> QED BY <5>1 DEF PushActive, Active, FallIdle
        <4>4. CASE fall.phase = "Burst"
          <5>1. next = PushBurst(w, now)
            BY <3>1, <4>4 DEF FallPushed
          <5>2. fall \in [phase : {"Burst"}, at : Nat, peak : Levels]
            BY <4>4 DEF FallInv, FallTyped, FallIdle
          <5>3. \A p : [fall EXCEPT !.peak = p].phase = "Burst"
            BY <5>2
          <5>4. next.phase = "Settling" \/ next.phase = "Active" \/ next.phase = "Burst"
            BY <5>1, <5>3 DEF PushBurst, Active
          <5> QED BY <5>4
        <4>5. CASE fall.phase = "Settling"
          <5>1. next = PushSettling(w, now)
            BY <3>1, <4>5 DEF FallPushed
          <5> QED BY <4>5, <5>1 DEF PushSettling, Active
        <4> QED BY <4>1, <4>2, <4>3, <4>4, <4>5
      <3>4. next.phase = "Refractory" => [next EXCEPT !.until = next.until] = next
        BY <3>3
      <3> QED BY <3>1, <3>2, <3>4
    <2>9. apart' = apart
      BY <1>1, <1>4
    <2>10. event' = IF FallCompletes(w, now)
                    THEN [burst |-> fall.burst, peak |-> fall.peak, still |-> fall.still, at |-> now]
                    ELSE NoEvent
      BY <1>1
    <2>11. FrameIn(L, n, w, now)
      BY <1>2, <1>4, <2>1, <2>2, <2>4, <2>6, <2>7, <2>8, <2>9, <2>10 DEF FrameIn
    <2> QED BY <2>11, FrameKeeps
  <1> QED BY <1>3, <1>4

(* FallInit establishes the invariant, and a reset does again.             *)
LEMMA FallStarts ==
  /\ FallInit => FallInv
  /\ ResetFall => FallInv'
  <1>1. ASSUME FallInit PROVE FallInv
    <2>1. log = <<>> /\ fall = FallIdle /\ fall.phase = "Idle" /\ event = NoEvent /\
          apart = REFRACTORY
          /\ REFRACTORY \in Nat /\ Len(log) = 0 /\ log \in Seq(LogFrames)
      BY <1>1, Levelled DEF FallInit, FallIdle
    <2>2. FallTyped
      BY <2>1 DEF FallTyped
    <2>3. OneAfterAnother /\ PhaseIsTheShape /\ EventIsTheShape
      BY <2>1 DEF OneAfterAnother, PhaseIsTheShape, EventIsTheShape
    <2>4. RefractoryRuns
      BY <2>1 DEF RefractoryRuns
    <2>5. Watched
      BY <2>1 DEF Watched
    <2> QED BY <2>2, <2>3, <2>4, <2>5 DEF FallInv
  <1>2. ASSUME ResetFall PROVE FallInv'
    <2>1. log' = <<>> /\ fall' = FallIdle /\ fall'.phase = "Idle" /\ event' = NoEvent /\
          apart' = REFRACTORY
          /\ REFRACTORY \in Nat /\ Len(log') = 0 /\ log' \in Seq(LogFrames)
      BY <1>2, Levelled DEF ResetFall, FallIdle
    <2>2. FallTyped'
      BY <2>1 DEF FallTyped
    <2>3. OneAfterAnother' /\ PhaseIsTheShape' /\ EventIsTheShape'
      BY <2>1 DEF OneAfterAnother, PhaseIsTheShape, EventIsTheShape
    <2>4. RefractoryRuns'
      BY <2>1 DEF RefractoryRuns
    <2>5. Watched'
      BY <2>1 DEF Watched
    <2> QED BY <2>2, <2>3, <2>4, <2>5 DEF FallInv
  <1> QED BY <1>1, <1>2

(* Every frame has a time of its own, so the time finds it.                *)
LEMMA TimeFinds ==
  ASSUME FallTyped, OneAfterAnother, NEW i \in 1 .. Len(log), NEW t, t = log[i].at
  PROVE  At(t) = i
  <1>1. \A j \in 1 .. Len(log) : log[j].at = t => j = i
    <2>1. SUFFICES ASSUME NEW j \in 1 .. Len(log), log[j].at = t, j # i PROVE FALSE
      OBVIOUS
    <2>2. log[i] \in LogFrames
      BY DEF FallTyped
    <2>3. t \in Nat
      BY <2>2 DEF LogFrames
    <2>4. i < j \/ j < i
      BY <2>1
    <2>5. t < t
      BY <2>1, <2>4 DEF OneAfterAnother
    <2> QED BY <2>3, <2>5
  <1> QED BY <1>1 DEF At

(* The greatest level of a burst is its peak.                              *)
LEMMA PeakFound ==
  ASSUME NEW L, NEW b, NEW m, NEW peak, \A i \in b .. m : L[i].w \in Nat,
         \E i \in b .. m : L[i].w = peak, \A i \in b .. m : L[i].w <= peak
  PROVE  peak = L[CHOOSE i \in b .. m : \A j \in b .. m : L[i].w >= L[j].w].w
  <1>1. PICK i \in b .. m : L[i].w = peak
    OBVIOUS
  <1>2. \A j \in b .. m : L[i].w >= L[j].w
    BY <1>1
  <1>3. PICK k : k = CHOOSE i_1 \in b .. m : \A j \in b .. m : L[i_1].w >= L[j].w
    OBVIOUS
  <1>4. k \in b .. m /\ \A j \in b .. m : L[k].w >= L[j].w
    BY <1>1, <1>2, <1>3
  <1>5. L[k].w >= peak /\ L[k].w <= peak /\ L[k].w \in Nat /\ peak \in Nat
    BY <1>1, <1>4
  <1>6. L[k].w = peak
    BY <1>5
  <1> QED BY <1>3, <1>6

(* The shape of an event in the log.                                       *)
LEMMA EventsHaveTheShape == FallInv => EventHasTheShape
  <1>1. SUFFICES ASSUME FallInv, event # NoEvent PROVE EventHasTheShape
    BY DEF EventHasTheShape
  <1>2. PICK n \in Nat : n = Len(log)
    BY <1>1 DEF FallInv, FallTyped
  <1>3. PICK b \in 1 .. n, s \in 1 .. n :
          /\ log[b].at = event.burst /\ log[s].at = event.still /\ log[n].at = event.at
          /\ StillAt(log, b, s, n, event.peak)
          /\ log[n].at - log[s].at >= STILL_FOR
    BY <1>1, <1>2 DEF FallInv, EventIsTheShape
  <1>4. n \in 1 .. n
    BY <1>3
  <1>5. At(event.burst) = b /\ At(event.still) = s /\ At(event.at) = n
    <2>1. At(event.burst) = b
      BY <1>1, <1>2, <1>3, TimeFinds DEF FallInv
    <2>2. At(event.still) = s
      BY <1>1, <1>2, <1>3, TimeFinds DEF FallInv
    <2>3. At(event.at) = n
      BY <1>1, <1>2, <1>3, <1>4, TimeFinds DEF FallInv
    <2> QED BY <2>1, <2>2, <2>3
  <1>6. BurstAt(log, b, s - 1, event.peak) /\ b \in 1 .. (s - 1)
    BY <1>3 DEF StillAt, BurstAt
  <1>7. \A i \in b .. (s - 1) : log[i].w \in Nat
    <2>1. \A i \in b .. (s - 1) : i \in 1 .. n
      BY <1>2, <1>3
    <2>2. \A i \in 1 .. n : log[i] \in LogFrames
      BY <1>1, <1>2 DEF FallInv, FallTyped
    <2>3. \A i \in 1 .. n : log[i].w \in Nat
      BY <2>2, Levelled DEF LogFrames
    <2> QED BY <2>1, <2>3
  <1>8. event.peak = log[CHOOSE i \in b .. (s - 1) : \A j \in b .. (s - 1) : log[i].w >= log[j].w].w
    <2>1. (\E i \in b .. (s - 1) : log[i].w = event.peak) /\
          \A i \in b .. (s - 1) : log[i].w <= event.peak
      BY <1>6 DEF BurstAt
    <2> QED BY <1>7, <2>1, PeakFound
  <1>9. b < s
    BY <1>3, <1>6
  <1>10. /\ log[b].w >= BurstLevel
         /\ \E a \in 1 .. (b - 1) : log[a].w >= ActiveLevel /\ log[b].at - log[a].at >= MIN_ACTIVE
         /\ log[s - 1].at - log[b].at <= SETTLE
         /\ \A i \in (b + 1) .. (s - 1) : log[i].w > StillLevel
    BY <1>6 DEF BurstAt
  <1>11. log[s].w <= StillLevel /\ \A i \in s .. n : log[i].w < ActiveLevel
    BY <1>3 DEF StillAt
  <1> QED BY <1>3, <1>5, <1>8, <1>9, <1>10, <1>11 DEF EventHasTheShape

(* Whoever fell was watched to the end of it.                              *)
LEMMA FallsNotMissed == FallInv => FallNotMissed
  <1>1. SUFFICES
          ASSUME FallInv, NEW a \in 1 .. Len(log), NEW b \in 1 .. Len(log), NEW s \in 1 .. Len(log),
                 a < b, b < s, s < Len(log),
                 log[a].met = "Idle", log[a].w >= ActiveLevel,
                 \A i, j \in a .. b : (i <= j /\ \A k \in i .. j : log[k].w <= StillLevel)
                                        => log[j].at - log[i].at < QUIET_GRACE,
                 \A i \in a .. (b - 1) : log[i].w < BurstLevel,
                 log[b].w >= BurstLevel, log[b].at - log[a].at >= MIN_ACTIVE,
                 \A i \in (b + 1) .. s : log[i].at - log[b].at <= SETTLE,
                 \A i \in (b + 1) .. (s - 1) : log[i].w >= ActiveLevel,
                 \A i \in s .. Len(log) : log[i].w <= StillLevel,
                 log[Len(log)].at - log[s].at >= STILL_FOR
          PROVE  event # NoEvent /\ event.burst = log[b].at
    BY DEF FallNotMissed
  <1>2. PICK n \in Nat : n = Len(log)
    BY <1>1 DEF FallInv, FallTyped
  <1>3. Walks(log, a, b - 1)
    <2>1. a \in 1 .. (b - 1) /\ \A i \in a .. (b - 1) : i \in a .. b
      BY <1>1
    <2> QED BY <1>1, <2>1 DEF Walks
  <1>4. Bursts(log, a, b, s - 1)
    <2>1. b \in 1 .. (s - 1) /\ \A i \in (b + 1) .. (s - 1) : i \in (b + 1) .. s
      BY <1>1
    <2> QED BY <1>1, <1>3, <2>1 DEF Bursts
  <1>5. Lies(log, a, b, s, n)
    <2>1. s \in (b + 1) .. s
      BY <1>1
    <2> QED BY <1>1, <1>2, <1>4, <2>1 DEF Lies
  <1>6. IF fall.phase = "Refractory"
        THEN event # NoEvent /\ event.burst = log[b].at
        ELSE s < n => log[n].at - log[s].at < STILL_FOR
    BY <1>1, <1>2, <1>5 DEF FallInv, Watched
  <1>7. log[n].at - log[s].at \in Int
    <2>1. n \in 1 .. n
      BY <1>2
    <2>2. log[n] \in LogFrames /\ log[s] \in LogFrames
      BY <1>1, <1>2, <2>1 DEF FallInv, FallTyped
    <2> QED BY <2>2 DEF LogFrames
  <1> QED BY <1>1, <1>2, <1>6, <1>7, Levelled

(* The refractory time is between two events.                              *)
LEMMA EventsApart == FallInv => OneEventPerFall
  <1>1. SUFFICES ASSUME FallInv, event # NoEvent PROVE apart + event.at >= REFRACTORY
    BY DEF OneEventPerFall
  <1>2. fall.phase = "Refractory" /\ log[Len(log)].at = event.at /\ \E b \in 1 .. Len(log) : TRUE
    BY <1>1 DEF FallInv, EventIsTheShape
  <1>3. apart >= REFRACTORY /\ apart \in Nat
    BY <1>1, <1>2 DEF FallInv, RefractoryRuns, FallTyped
  <1>4. log \in Seq(LogFrames) /\ Len(log) \in 1 .. Len(log)
    BY <1>1, <1>2 DEF FallInv, FallTyped
  <1>5. log[Len(log)] \in LogFrames
    BY <1>4
  <1>6. event.at \in Nat
    BY <1>2, <1>5 DEF LogFrames
  <1> QED BY <1>3, <1>6, Levelled

(* Events are falls and falls are events (FallDetector::push), for all     *)
(* levels in their order, times between frames and lengths of log: every   *)
(* event has the shape in the frames, two are a refractory time apart, and *)
(* a watched fall raises one.                                              *)
THEOREM FallsRaiseEvents == FallSpec => []FallsAreEvents
  <1>1. FallInit => FallInv
    BY FallStarts
  <1>2. ASSUME FallInv, [FallNext]_fallVars PROVE FallInv'
    <2>1. CASE PushWander
      BY <1>2, <2>1, PushKeeps
    <2>2. CASE ResetFall
      BY <2>2, FallStarts
    <2>3. CASE UNCHANGED fallVars
      BY <1>2, <2>3 DEF fallVars, FallInv, FallTyped, OneAfterAnother, PhaseIsTheShape,
                        EventIsTheShape, RefractoryRuns, Watched, Now
    <2> QED BY <1>2, <2>1, <2>2, <2>3 DEF FallNext
  <1>3. FallInv => FallsAreEvents
    BY EventsHaveTheShape, EventsApart, FallsNotMissed DEF FallsAreEvents
  <1> QED BY <1>1, <1>2, <1>3, PTL DEF FallSpec

-----------------------------------------------------------------------------
(* Presence records *)

States == {"Unknown", "Absent", "Moving", "Stationary", "Both"}

(* A record is six fields, and its rate is from an accepted estimate or    *)
(* zero; a device from before the vitals leaves the last three at zero.    *)
Whole(r) ==
  /\ r.p = [state |-> r.p.state, moving |-> r.p.moving, stationary |-> r.p.stationary,
            rate |-> r.p.rate, confidence |-> r.p.confidence, fingerprint |-> r.p.fingerprint]
  /\ r.p.state \in States
  /\ r.p.rate # 0 => r.e.accepted
  /\ version = 1 => r.p.rate = 0 /\ r.p.confidence = 0 /\ r.p.fingerprint = 0

RecordInv ==
  /\ version \in {1, VERSION}
  /\ Whole(reading)
  /\ Whole(home.of)
  /\ home.shown = home.of.p

(* from_tag undoes tag.                                                    *)
LEMMA TagsBack ==
  ASSUME NEW s \in States
  PROVE  Tag(s) \in 0 .. 4 /\ Occupancy[Tag(s) + 1] = s
  <1>1. \E t \in 0 .. 4 : Occupancy[t + 1] = s
    <2>1. CASE s = "Unknown"
      <3>1. Occupancy[0 + 1] = s
        BY <2>1 DEF Occupancy
      <3> QED BY <3>1
    <2>2. CASE s = "Absent"
      <3>1. Occupancy[1 + 1] = s
        BY <2>2 DEF Occupancy
      <3> QED BY <3>1
    <2>3. CASE s = "Moving"
      <3>1. Occupancy[2 + 1] = s
        BY <2>3 DEF Occupancy
      <3> QED BY <3>1
    <2>4. CASE s = "Stationary"
      <3>1. Occupancy[3 + 1] = s
        BY <2>4 DEF Occupancy
      <3> QED BY <3>1
    <2>5. CASE s = "Both"
      <3>1. Occupancy[4 + 1] = s
        BY <2>5 DEF Occupancy
      <3> QED BY <3>1
    <2> QED BY <2>1, <2>2, <2>3, <2>4, <2>5 DEF States
  <1> QED BY <1>1 DEF Tag

(* What a sensor gives is six fields, the last three of them zero.         *)
LEMMA Sensed ==
  ASSUME NEW p \in FromLd2410 \cup FromCsi
  PROVE  \E state \in States : \E m, n :
           p = [state |-> state, moving |-> m, stationary |-> n,
                rate |-> 0, confidence |-> 0, fingerprint |-> 0]
  <1>1. CASE p \in FromLd2410
    <2>1. PICK t \in {"None", "Moving", "Stationary", "Both"}, m \in Energies, n \in Energies :
            p = Radar(t, m, n)
      BY <1>1 DEF FromLd2410
    <2>2. PICK state \in States : state = CASE t = "None" -> "Absent" [] t # "None" -> t
      <3>1. CASE t = "None"
        BY <3>1 DEF States
      <3>2. CASE t # "None"
        BY <3>2 DEF States
      <3> QED BY <3>1, <3>2
    <2> QED BY <2>1, <2>2 DEF Radar
  <1>2. CASE p \in FromCsi
    <2>1. PICK v \in {"Warming", "Absent", "Present"}, m \in Energies :
            p = [state |-> CASE v = "Warming" -> "Unknown" [] v = "Absent" -> "Absent"
                             [] v = "Present" -> "Moving",
                 moving |-> IF v = "Present" THEN m ELSE 0,
                 stationary |-> 0, rate |-> 0, confidence |-> 0, fingerprint |-> 0]
      BY <1>2 DEF FromCsi
    <2>2. PICK state \in States :
            state = CASE v = "Warming" -> "Unknown" [] v = "Absent" -> "Absent" [] v = "Present" -> "Moving"
      <3>1. CASE v = "Warming"
        BY <3>1 DEF States
      <3>2. CASE v = "Absent"
        BY <3>2 DEF States
      <3>3. CASE v = "Present"
        BY <3>3 DEF States
      <3> QED BY <3>1, <3>2, <3>3
    <2> QED BY <2>1, <2>2
  <1> QED BY <1>1, <1>2

(* A new reading is a record.                                              *)
LEMMA SenseKeeps == RecordInv /\ Sense => RecordInv'
  <1> SUFFICES ASSUME RecordInv, Sense PROVE RecordInv'
    OBVIOUS
  <1>1. PICK p \in FromLd2410 \cup FromCsi, e \in Estimates, fp \in Energies :
          reading' = [p |-> IF version = 1 THEN p ELSE WithFingerprint(WithVitals(p, e), fp), e |-> e]
    BY DEF Sense
  <1>2. PICK state, m, n :
          /\ state \in States
          /\ p = [state |-> state, moving |-> m, stationary |-> n,
                  rate |-> 0, confidence |-> 0, fingerprint |-> 0]
    BY Sensed
  <1>3. version' = version /\ home' = home
    BY DEF Sense
  <1>4. Whole(reading)'
    <2>1. CASE version = 1
      BY <1>1, <1>2, <1>3, <2>1 DEF Whole
    <2>2. CASE version # 1
      <3>1. PICK rate : rate = IF e.accepted THEN e.rate ELSE 0
        OBVIOUS
      <3>2. WithFingerprint(WithVitals(p, e), fp) =
              [state |-> state, moving |-> m, stationary |-> n,
               rate |-> rate, confidence |-> e.confidence, fingerprint |-> fp]
        <4>1. PICK c : c = e.confidence
          OBVIOUS
        <4>2. WithVitals(p, e) = [p EXCEPT !.rate = rate, !.confidence = c]
          BY <3>1, <4>1 DEF WithVitals
        <4>3. WithVitals(p, e) = [state |-> state, moving |-> m, stationary |-> n,
                                  rate |-> rate, confidence |-> c, fingerprint |-> 0]
          BY <1>2, <4>2
        <4> QED BY <4>1, <4>3 DEF WithFingerprint
      <3> QED BY <1>1, <1>2, <1>3, <2>2, <3>1, <3>2 DEF Whole
    <2> QED BY <2>1, <2>2
  <1> QED BY <1>3, <1>4 DEF RecordInv, Whole

(* What decodes of a reading's record is the reading.                      *)
LEMMA ArrivalKeepsRecord == RecordInv /\ RecordArrives => RecordInv'
  <1> SUFFICES ASSUME RecordInv, RecordArrives PROVE RecordInv'
    OBVIOUS
  <1>1. PICK len \in {V1_LEN - 1, V1_LEN, ENCODED_LEN} :
          /\ Decodable(Cut(Encoded(reading.p, version), len))
          /\ home' = [shown |-> Decoded(Cut(Encoded(reading.p, version), len)), of |-> reading]
    BY DEF RecordArrives
  <1>2. PICK b : b = Encoded(reading.p, version)
    OBVIOUS
  <1>3. version \in {1, VERSION} /\ Whole(reading) /\ version' = version /\ reading' = reading
    BY DEF RecordInv, RecordArrives
  <1>4. /\ b.version = version /\ b.tag = Tag(reading.p.state) /\ b.moving = reading.p.moving
        /\ b.stationary = reading.p.stationary /\ b.rate = reading.p.rate
        /\ b.confidence = reading.p.confidence /\ b.fingerprint = reading.p.fingerprint
        /\ b.len = RecordLen(version)
    BY <1>2, <1>3 DEF Encoded, RecordLen, VERSION
  <1>5. Cut(b, len) = b
    <2> SUFFICES ASSUME ~(len >= b.len) PROVE FALSE
      BY DEF Cut
    <2>1. PICK c : c = Cut(b, len)
      OBVIOUS
    <2>2. c.len = len /\ c.version = b.version
      BY <1>2, <2>1 DEF Cut, Encoded
    <2>3. c.len >= RecordLen(c.version)
      BY <1>1, <1>2, <2>1 DEF Decodable
    <2> QED BY <1>1, <1>3, <1>4, <2>2, <2>3 DEF RecordLen, V1_LEN, ENCODED_LEN, VERSION
  <1>6. Occupancy[b.tag + 1] = reading.p.state
    BY <1>3, <1>4, TagsBack DEF Whole
  <1>7. Decoded(b) = reading.p
    <2>1. CASE version = 1
      BY <1>3, <1>4, <1>6, <2>1 DEF Decoded, Whole, VERSION
    <2>2. CASE version = VERSION
      BY <1>3, <1>4, <1>6, <2>2 DEF Decoded, Whole
    <2> QED BY <1>3, <2>1, <2>2
  <1>8. home'.shown = reading.p /\ home'.of = reading
    BY <1>1, <1>2, <1>5, <1>7
  <1> QED BY <1>3, <1>8 DEF RecordInv, Whole

(* Whatever a device of either age sends, whole or cut short, the home     *)
(* shows one reading of it as it was, and no rate that was not accepted    *)
(* (Presence::encode and decode, with_vitals).                             *)
THEOREM RecordsFaithful == RecordSpec => []RecordFaithful
  <1>1. RecordInit => RecordInv
    BY DEF RecordInit, RecordInv, Whole, NoReading, States, VERSION
  <1>2. RecordInv /\ [RecordNext]_recordVars => RecordInv'
    <2>1. RecordInv /\ UNCHANGED recordVars => RecordInv'
      BY DEF RecordInv, Whole, recordVars
    <2> QED BY <2>1, SenseKeeps, ArrivalKeepsRecord DEF RecordNext
  <1>3. RecordInv => RecordFaithful
    BY DEF RecordInv, Whole, RecordFaithful, ShownIsSent, RateWasAccepted
  <1> QED BY <1>1, <1>2, <1>3, PTL DEF RecordSpec

-----------------------------------------------------------------------------
(* Sums of sequences *)

(* A set of naturals that is not empty has a least member.                 *)
LEMMA LeastOfNaturals ==
  ASSUME NEW T \in SUBSET Nat, T # {}
  PROVE  \E m \in T : \A n \in T : m <= n
  <1>1. IsWellFoundedOn({p \in Nat \X Nat : p[1] < p[2]}, Nat)
    BY NatLessThanWellFounded DEF OpToRel
  <1>2. PICK m \in T : \A n \in T : ~(<<n, m>> \in {p \in Nat \X Nat : p[1] < p[2]})
    BY <1>1, WFMin
  <1>3. ASSUME NEW n \in T PROVE m <= n
    <2>1. m \in Nat /\ n \in Nat /\ ~(<<n, m>> \in {p \in Nat \X Nat : p[1] < p[2]})
      BY <1>2
    <2> QED BY <2>1
  <1> QED BY <1>3

(* What holds of 0, and of every successor of a number it holds of, holds  *)
(* of every number up to m.                                                *)
LEMMA Climb ==
  ASSUME NEW m \in Nat, NEW S, 0 \in S,
         \A n \in 0 .. m : n \in S /\ n < m => n + 1 \in S
  PROVE  \A n \in 0 .. m : n \in S
  <1> SUFFICES ASSUME (0 .. m) \ S # {} PROVE FALSE
    OBVIOUS
  <1>1. PICK k \in (0 .. m) \ S : \A n \in (0 .. m) \ S : k <= n
    <2>1. (0 .. m) \ S \in SUBSET Nat
      OBVIOUS
    <2> QED BY <2>1, LeastOfNaturals
  <1>2. k \in 1 .. m
    BY <1>1
  <1>3. k - 1 \in 0 .. m /\ k - 1 < m /\ ~(k <= k - 1)
    BY <1>2
  <1>4. k - 1 \in S
    BY <1>1, <1>3
  <1>5. (k - 1) + 1 \in S
    BY <1>3, <1>4
  <1> QED BY <1>1, <1>2, <1>5

(* The sums of the first entries of s. *)
Runs(g, s, m) ==
  /\ g \in [0 .. m -> Int]
  /\ g[0] = 0
  /\ \A n \in 1 .. m : g[n] = g[n - 1] + s[n]

(* They exist. *)
LEMMA RunsExist ==
  ASSUME NEW m \in Nat, NEW s \in [1 .. m -> Int]
  PROVE  \E g : Runs(g, s, m)
  <1> DEFINE S == {n \in 0 .. m : \E g \in [0 .. n -> Int] :
                                    g[0] = 0 /\ \A k \in 1 .. n : g[k] = g[k - 1] + s[k]}
  <1>1. 0 \in S
    <2>1. PICK g : g = [n \in 0 .. 0 |-> 0]
      OBVIOUS
    <2>2. g \in [0 .. 0 -> Int] /\ g[0] = 0 /\ \A k \in 1 .. 0 : g[k] = g[k - 1] + s[k]
      BY <2>1
    <2>3. 0 \in 0 .. m
      OBVIOUS
    <2> QED BY <2>2, <2>3
  <1>2. ASSUME NEW n \in 0 .. m, n \in S, n < m PROVE n + 1 \in S
    <2>1. PICK g \in [0 .. n -> Int] : g[0] = 0 /\ \A k \in 1 .. n : g[k] = g[k - 1] + s[k]
      BY <1>2
    <2>2. n \in Nat /\ n + 1 \in 0 .. m /\ s[n + 1] \in Int /\ g[n] \in Int
      BY <1>2
    <2>3. PICK h : h = [k \in 0 .. (n + 1) |-> IF k = n + 1 THEN g[n] + s[n + 1] ELSE g[k]]
      OBVIOUS
    <2>4. h \in [0 .. (n + 1) -> Int]
      <3>1. \A k \in 0 .. (n + 1) : k # n + 1 => k \in 0 .. n
        BY <2>2
      <3> QED BY <2>2, <2>3, <3>1
    <2>5. h[0] = 0
      BY <2>1, <2>2, <2>3
    <2>6. ASSUME NEW k \in 1 .. (n + 1) PROVE h[k] = h[k - 1] + s[k]
      <3>1. CASE k = n + 1
        <4>1. k \in 0 .. (n + 1) /\ n \in 0 .. (n + 1) /\ n # n + 1 /\ k - 1 = n
          BY <2>2, <3>1
        <4>2. h[k] = g[n] + s[n + 1] /\ h[n] = g[n]
          BY <2>3, <3>1, <4>1
        <4> QED BY <3>1, <4>1, <4>2
      <3>2. CASE k # n + 1
        <4>1. k \in 1 .. n /\ k \in 0 .. (n + 1) /\ k - 1 \in 0 .. (n + 1) /\ k - 1 # n + 1
          BY <2>2, <3>2
        <4>2. h[k] = g[k] /\ h[k - 1] = g[k - 1]
          BY <2>3, <3>2, <4>1
        <4> QED BY <2>1, <4>1, <4>2
      <3> QED BY <3>1, <3>2
    <2> QED BY <2>2, <2>4, <2>5, <2>6
  <1>3. \A n \in 0 .. m : n \in S
    <2> HIDE DEF S
    <2> QED BY <1>1, <1>2, Climb
  <1>4. m \in S
    <2>1. m \in 0 .. m
      OBVIOUS
    <2> QED BY <1>3, <2>1
  <1> QED BY <1>4 DEF Runs

(* And SumOf is the last of them. *)
LEMMA SumIs ==
  ASSUME NEW m \in Nat, NEW s, Len(s) = m, NEW g, Runs(g, s, m)
  PROVE  SumOf(s) = g[m] /\ g[m] \in Int
  <1> DEFINE Upto(f) == f = [n \in 0 .. m |-> IF n = 0 THEN 0 ELSE f[n - 1] + s[n]]
  <1>1. Upto(g)
    <2>1. g = [n \in 0 .. m |-> g[n]]
      BY DEF Runs
    <2>2. \A n \in 0 .. m : g[n] = IF n = 0 THEN 0 ELSE g[n - 1] + s[n]
      <3>1. \A n \in 0 .. m : n # 0 => n \in 1 .. m
        OBVIOUS
      <3> QED BY <3>1 DEF Runs
    <2> QED BY <2>1, <2>2
  <1>2. PICK f : f = CHOOSE x : Upto(x)
    OBVIOUS
  <1>3. Upto(f)
    BY <1>1, <1>2
  <1>4. SumOf(s) = f[m]
    BY <1>2 DEF SumOf
  <1>5. \A n \in 0 .. m : f[n] = IF n = 0 THEN 0 ELSE f[n - 1] + s[n]
    BY <1>3
  <1> HIDE DEF Upto
  <1>6. ASSUME NEW n \in 0 .. m, n \in {k \in 0 .. m : f[k] = g[k]}, n < m
        PROVE  n + 1 \in {k \in 0 .. m : f[k] = g[k]}
    <2>1. n \in Nat /\ n + 1 \in 0 .. m /\ n + 1 \in 1 .. m /\ n + 1 # 0 /\ (n + 1) - 1 = n
      BY <1>6
    <2>2. f[n + 1] = f[n] + s[n + 1]
      BY <1>5, <2>1
    <2>3. g[n + 1] = g[n] + s[n + 1]
      BY <2>1 DEF Runs
    <2> QED BY <1>6, <2>1, <2>2, <2>3
  <1>7. 0 \in {k \in 0 .. m : f[k] = g[k]}
    BY <1>5 DEF Runs
  <1>8. \A n \in 0 .. m : n \in {k \in 0 .. m : f[k] = g[k]}
    BY <1>6, <1>7, Climb
  <1>9. m \in 0 .. m
    OBVIOUS
  <1> QED BY <1>4, <1>8, <1>9 DEF Runs

(* A function on 1..m is a sequence of m. *)
LEMMA AsSequence ==
  ASSUME NEW m \in Nat, NEW S, NEW s \in [1 .. m -> S]
  PROVE  s \in Seq(S) /\ Len(s) = m
  OBVIOUS

(* The sum of whole numbers is one, and how the first entries add up to it. *)
LEMMA SumRuns ==
  ASSUME NEW m \in Nat, NEW s \in [1 .. m -> Int]
  PROVE  \E g : Runs(g, s, m) /\ SumOf(s) = g[m] /\ SumOf(s) \in Int
  <1>1. PICK g : Runs(g, s, m)
    BY RunsExist
  <1>2. Len(s) = m
    BY AsSequence
  <1>3. SumOf(s) = g[m] /\ g[m] \in Int
    BY <1>1, <1>2, SumIs
  <1> QED BY <1>1, <1>3

(* A sequence as long, whose entries are the sums of two others', adds up  *)
(* to their sums.                                                          *)
LEMMA SumPlus ==
  ASSUME NEW m \in Nat, NEW s \in [1 .. m -> Int], NEW t \in [1 .. m -> Int],
         NEW u \in [1 .. m -> Int], \A n \in 1 .. m : u[n] = s[n] + t[n]
  PROVE  SumOf(u) = SumOf(s) + SumOf(t)
  <1>1. PICK g : Runs(g, s, m) /\ SumOf(s) = g[m]
    BY SumRuns
  <1>2. PICK h : Runs(h, t, m) /\ SumOf(t) = h[m]
    BY SumRuns
  <1>3. PICK f : f = [n \in 0 .. m |-> g[n] + h[n]]
    OBVIOUS
  <1>4. Runs(f, u, m)
    <2>1. f \in [0 .. m -> Int] /\ f[0] = 0
      BY <1>1, <1>2, <1>3 DEF Runs
    <2>2. ASSUME NEW n \in 1 .. m PROVE f[n] = f[n - 1] + u[n]
      <3>1. n \in 0 .. m /\ n - 1 \in 0 .. m
        OBVIOUS
      <3>2. g[n] = g[n - 1] + s[n] /\ h[n] = h[n - 1] + t[n] /\ u[n] = s[n] + t[n]
        BY <1>1, <1>2 DEF Runs
      <3>3. g[n - 1] \in Int /\ h[n - 1] \in Int /\ s[n] \in Int /\ t[n] \in Int
        BY <1>1, <1>2, <3>1 DEF Runs
      <3>4. f[n] = g[n] + h[n] /\ f[n - 1] = g[n - 1] + h[n - 1]
        BY <1>3, <3>1
      <3> QED BY <3>2, <3>3, <3>4
    <2> QED BY <2>1, <2>2 DEF Runs
  <1>5. SumOf(u) = f[m]
    BY <1>4, AsSequence, SumIs
  <1>6. m \in 0 .. m
    OBVIOUS
  <1> QED BY <1>1, <1>2, <1>3, <1>5, <1>6

(* A sum of nothing negative is at least any of its entries. *)
LEMMA SumAtLeast ==
  ASSUME NEW m \in Nat, NEW s \in [1 .. m -> Nat]
  PROVE  SumOf(s) >= 0 /\ \A j \in 1 .. m : SumOf(s) >= s[j]
  <1>1. PICK g : Runs(g, s, m) /\ SumOf(s) = g[m]
    BY SumRuns
  <1> DEFINE S == {n \in 0 .. m : g[n] >= 0 /\ \A j \in 1 .. n : g[n] >= s[j]}
  <1>2. 0 \in S
    BY <1>1 DEF Runs
  <1>3. ASSUME NEW n \in 0 .. m, n \in S, n < m PROVE n + 1 \in S
    <2>1. n \in Nat /\ n + 1 \in 1 .. m /\ n + 1 \in 0 .. m /\ (n + 1) - 1 = n
      BY <1>3
    <2>2. g[n + 1] = g[n] + s[n + 1] /\ g[n] \in Int /\ s[n + 1] \in Nat
      BY <1>1, <2>1 DEF Runs
    <2>3. g[n] >= 0 /\ \A j \in 1 .. n : g[n] >= s[j]
      BY <1>3
    <2>4. g[n + 1] >= 0 /\ g[n + 1] >= g[n] /\ g[n + 1] >= s[n + 1]
      BY <2>2, <2>3
    <2>5. ASSUME NEW j \in 1 .. (n + 1) PROVE g[n + 1] >= s[j]
      <3>1. CASE j = n + 1
        BY <2>4, <3>1
      <3>2. CASE j # n + 1
        <4>1. j \in 1 .. n /\ j \in 1 .. m
          BY <2>1, <3>2
        <4>2. s[j] \in Nat /\ g[n] >= s[j]
          BY <2>3, <4>1
        <4> QED BY <2>2, <2>4, <4>2
      <3> QED BY <3>1, <3>2
    <2> QED BY <2>1, <2>4, <2>5
  <1>4. \A n \in 0 .. m : n \in S
    <2> HIDE DEF S
    <2> QED BY <1>2, <1>3, Climb
  <1>5. m \in 0 .. m
    OBVIOUS
  <1>6. m \in S
    BY <1>4, <1>5
  <1> QED BY <1>1, <1>6

(* Entries no greater add up to no more. *)
LEMMA SumsCompare ==
  ASSUME NEW m \in Nat, NEW s \in [1 .. m -> Int], NEW t \in [1 .. m -> Int],
         \A n \in 1 .. m : s[n] <= t[n]
  PROVE  SumOf(s) <= SumOf(t)
  <1>1. PICK u : u = [n \in 1 .. m |-> t[n] - s[n]]
    OBVIOUS
  <1>2. u \in [1 .. m -> Nat] /\ u \in [1 .. m -> Int]
    <2>1. \A n \in 1 .. m : t[n] - s[n] \in Nat
      OBVIOUS
    <2> QED BY <1>1, <2>1
  <1>3. \A n \in 1 .. m : t[n] = s[n] + u[n]
    BY <1>1
  <1>4. SumOf(t) = SumOf(s) + SumOf(u)
    BY <1>2, <1>3, SumPlus
  <1>5. SumOf(u) >= 0
    BY <1>2, SumAtLeast
  <1>6. SumOf(s) \in Int /\ SumOf(u) \in Int
    BY <1>2, SumRuns
  <1> QED BY <1>4, <1>5, <1>6

(* Nothing adds up to nothing. *)
LEMMA SumNone ==
  ASSUME NEW m \in Nat, NEW s \in [1 .. m -> Int], \A n \in 1 .. m : s[n] = 0
  PROVE  SumOf(s) = 0
  <1>1. Runs([n \in 0 .. m |-> 0], s, m)
    BY DEF Runs
  <1>2. PICK g : g = [n \in 0 .. m |-> 0]
    OBVIOUS
  <1>3. SumOf(s) = g[m]
    BY <1>1, <1>2, AsSequence, SumIs
  <1>4. m \in 0 .. m
    OBVIOUS
  <1> QED BY <1>2, <1>3, <1>4

(* The sum of a first part and of the rest. *)
LEMMA SumParts ==
  ASSUME NEW m \in Nat, NEW k \in 0 .. m, NEW s \in [1 .. m -> Int],
         NEW t \in [1 .. k -> Int], \A n \in 1 .. k : t[n] = s[n],
         NEW u \in [1 .. (m - k) -> Int], \A n \in 1 .. (m - k) : u[n] = s[n + k]
  PROVE  SumOf(s) = SumOf(t) + SumOf(u)
  <1>1. PICK g : Runs(g, s, m) /\ SumOf(s) = g[m]
    BY SumRuns
  <1>2. PICK l \in Nat : l = m - k
    OBVIOUS
  <1>3. PICK f : f = [n \in 0 .. k |-> g[n]]
    OBVIOUS
  <1>4. PICK h : h = [n \in 0 .. l |-> g[n + k] - g[k]]
    OBVIOUS
  <1>5. k \in Nat /\ k \in 0 .. m /\ g[k] \in Int /\ l \in 0 .. l /\ l + k = m /\ k \in 0 .. k
    BY <1>1, <1>2 DEF Runs
  <1>6. Runs(f, t, k)
    <2>1. \A n \in 0 .. k : n \in 0 .. m
      BY <1>5
    <2>2. f \in [0 .. k -> Int] /\ f[0] = 0
      BY <1>1, <1>3, <1>5, <2>1 DEF Runs
    <2>3. ASSUME NEW n \in 1 .. k PROVE f[n] = f[n - 1] + t[n]
      <3>1. n \in 0 .. k /\ n - 1 \in 0 .. k /\ n \in 1 .. m
        BY <1>5
      <3> QED BY <1>1, <1>3, <3>1 DEF Runs
    <2> QED BY <2>2, <2>3 DEF Runs
  <1>7. Runs(h, u, l)
    <2>1. \A n \in 0 .. l : n + k \in 0 .. m /\ g[n + k] \in Int
      BY <1>1, <1>5 DEF Runs
    <2>2. h \in [0 .. l -> Int]
      <3>1. ASSUME NEW n \in 0 .. l PROVE g[n + k] - g[k] \in Int
        <4>1. g[n + k] \in Int /\ g[k] \in Int
          BY <1>5, <2>1
        <4>2. PICK a \in Int : a = g[n + k]
          BY <4>1
        <4>3. PICK b \in Int : b = g[k]
          BY <4>1
        <4> QED BY <4>2, <4>3
      <3> QED BY <1>4, <3>1
    <2>3. h[0] = 0
      <3>1. 0 \in 0 .. l /\ 0 + k = k
        BY <1>5
      <3> QED BY <1>4, <1>5, <3>1
    <2>4. ASSUME NEW n \in 1 .. l PROVE h[n] = h[n - 1] + u[n]
      <3>1. n \in 0 .. l /\ n - 1 \in 0 .. l /\ n + k \in 1 .. m /\ (n + k) - 1 = (n - 1) + k
        BY <1>5
      <3>2. g[n + k] = g[(n - 1) + k] + s[n + k]
        BY <1>1, <3>1 DEF Runs
      <3>3. g[n + k] \in Int /\ g[(n - 1) + k] \in Int /\ s[n + k] \in Int
        BY <2>1, <3>1
      <3>4. h[n] = g[n + k] - g[k] /\ h[n - 1] = g[(n - 1) + k] - g[k] /\ u[n] = s[n + k]
        BY <1>2, <1>4, <3>1
      <3>5. h[n - 1] + u[n] = (g[(n - 1) + k] - g[k]) + s[n + k]
        BY <3>4
      <3>6. g[n + k] - g[k] = (g[(n - 1) + k] - g[k]) + s[n + k]
        <4>1. PICK a \in Int : a = g[(n - 1) + k]
          BY <3>3
        <4>2. PICK b \in Int : b = s[n + k]
          BY <3>3
        <4>3. PICK c \in Int : c = g[k]
          BY <1>5
        <4>4. g[n + k] = a + b
          BY <3>2, <4>1, <4>2
        <4> QED BY <4>1, <4>2, <4>3, <4>4
      <3> QED BY <3>4, <3>5, <3>6
    <2> QED BY <2>2, <2>3, <2>4 DEF Runs
  <1>8. SumOf(t) = g[k]
    <2>1. SumOf(t) = f[k]
      BY <1>5, <1>6, AsSequence, SumIs
    <2> QED BY <1>3, <1>5, <2>1
  <1>9. SumOf(u) = g[m] - g[k]
    <2>1. u \in [1 .. l -> Int]
      BY <1>2
    <2>2. SumOf(u) = h[l]
      BY <1>7, <2>1, AsSequence, SumIs
    <2> QED BY <1>4, <1>5, <2>2
  <1>10. g[m] \in Int
    <2>1. m \in 0 .. m
      OBVIOUS
    <2> QED BY <1>1, <2>1 DEF Runs
  <1> QED BY <1>1, <1>5, <1>8, <1>9, <1>10

(* The sum of a sequence with one more entry. *)
LEMMA SumOneMore ==
  ASSUME NEW m \in Nat, NEW s \in [1 .. m -> Int], NEW t \in [1 .. (m + 1) -> Int],
         \A n \in 1 .. m : t[n] = s[n]
  PROVE  SumOf(t) = SumOf(s) + t[m + 1]
  <1>1. PICK g : Runs(g, s, m) /\ SumOf(s) = g[m]
    BY SumRuns
  <1>2. PICK l \in Nat : l = m + 1
    OBVIOUS
  <1>3. PICK h : h = [n \in 0 .. l |-> IF n = l THEN g[m] + t[l] ELSE g[n]]
    OBVIOUS
  <1>4. Runs(h, t, l)
    <2>1. g[m] \in Int /\ t[l] \in Int /\ \A n \in 0 .. l : n # l => n \in 0 .. m /\ g[n] \in Int
      <3>1. m \in 0 .. m /\ l \in 1 .. (m + 1) /\ \A n \in 0 .. l : n # l => n \in 0 .. m
        BY <1>2
      <3> QED BY <1>1, <3>1 DEF Runs
    <2>2. h \in [0 .. l -> Int]
      BY <1>3, <2>1
    <2>3. h[0] = 0
      BY <1>1, <1>2, <1>3 DEF Runs
    <2>4. ASSUME NEW n \in 1 .. l PROVE h[n] = h[n - 1] + t[n]
      <3>1. CASE n = l
        <4>1. l \in 0 .. l /\ m \in 0 .. l /\ m # l /\ l - 1 = m
          BY <1>2
        <4>2. h[l] = g[m] + t[l] /\ h[m] = g[m]
          BY <1>3, <4>1
        <4> QED BY <3>1, <4>1, <4>2
      <3>2. CASE n # l
        <4>1. n \in 1 .. m /\ n \in 0 .. l /\ n - 1 \in 0 .. l /\ n - 1 # l
          BY <1>2, <3>2
        <4>2. h[n] = g[n] /\ h[n - 1] = g[n - 1]
          BY <1>3, <3>2, <4>1
        <4>3. g[n] = g[n - 1] + s[n] /\ t[n] = s[n]
          BY <1>1, <4>1 DEF Runs
        <4> QED BY <4>2, <4>3
      <3> QED BY <3>1, <3>2
    <2> QED BY <2>2, <2>3, <2>4 DEF Runs
  <1>5. t \in [1 .. l -> Int]
    BY <1>2
  <1>6. SumOf(t) = h[l]
    BY <1>4, <1>5, AsSequence, SumIs
  <1>7. l \in 0 .. l
    OBVIOUS
  <1> QED BY <1>1, <1>2, <1>3, <1>6, <1>7

(* A single entry changed. *)
LEMMA SumChanged ==
  ASSUME NEW m \in Nat, NEW s \in [1 .. m -> Int], NEW t \in [1 .. m -> Int], NEW j \in 1 .. m,
         \A n \in 1 .. m : n # j => t[n] = s[n]
  PROVE  SumOf(t) = SumOf(s) - s[j] + t[j]
  <1>1. PICK g : Runs(g, s, m) /\ SumOf(s) = g[m]
    BY SumRuns
  <1>2. PICK d \in Int : d = t[j] - s[j]
    OBVIOUS
  <1>3. PICK h : h = [n \in 0 .. m |-> IF j <= n THEN g[n] + d ELSE g[n]]
    OBVIOUS
  <1>4. Runs(h, t, m)
    <2>1. \A n \in 0 .. m : g[n] \in Int
      BY <1>1 DEF Runs
    <2>2. h \in [0 .. m -> Int]
      BY <1>3, <2>1
    <2>3. h[0] = 0
      BY <1>1, <1>3 DEF Runs
    <2>4. ASSUME NEW n \in 1 .. m PROVE h[n] = h[n - 1] + t[n]
      <3>1. n \in 0 .. m /\ n - 1 \in 0 .. m /\ g[n] \in Int /\ g[n - 1] \in Int
        BY <2>1
      <3>2. g[n] = g[n - 1] + s[n] /\ s[n] \in Int /\ t[n] \in Int
        BY <1>1 DEF Runs
      <3>3. /\ h[n] = IF j <= n THEN g[n] + d ELSE g[n]
            /\ h[n - 1] = IF j <= n - 1 THEN g[n - 1] + d ELSE g[n - 1]
        BY <1>3, <3>1
      <3>4. CASE n = j
        BY <1>2, <3>1, <3>2, <3>3, <3>4
      <3>5. CASE n # j
        <4>1. t[n] = s[n]
          BY <3>5
        <4>2. j <= n <=> j <= n - 1
          BY <3>5
        <4> QED BY <3>1, <3>2, <3>3, <4>1, <4>2
      <3> QED BY <3>4, <3>5
    <2> QED BY <2>2, <2>3, <2>4 DEF Runs
  <1>5. SumOf(t) = h[m]
    BY <1>4, AsSequence, SumIs
  <1>6. m \in 0 .. m /\ j <= m /\ g[m] \in Int
    BY <1>1 DEF Runs
  <1>7. s[j] \in Int /\ t[j] \in Int
    OBVIOUS
  <1> QED BY <1>1, <1>2, <1>3, <1>5, <1>6, <1>7

-----------------------------------------------------------------------------
(* LoRa: time on air *)

(* The larger and the smaller of two numbers. *)
LEMMA MaxOfTwo ==
  ASSUME NEW a \in Int, NEW b \in Int
  PROVE  Max({a, b}) = IF a >= b THEN a ELSE b
  <1>1. PICK c : c = CHOOSE x \in {a, b} : \A y \in {a, b} : x >= y
    OBVIOUS
  <1>2. \E x \in {a, b} : \A y \in {a, b} : x >= y
    BY a >= b \/ b >= a
  <1>3. c \in {a, b} /\ \A y \in {a, b} : c >= y
    BY <1>1, <1>2
  <1> QED BY <1>1, <1>3 DEF Max

(* The least of a pair.                                                     *)
LEMMA MinOfTwo ==
  ASSUME NEW a \in Int, NEW b \in Int
  PROVE  Min({a, b}) = IF a <= b THEN a ELSE b
  <1>1. PICK c : c = CHOOSE x \in {a, b} : \A y \in {a, b} : x =< y
    OBVIOUS
  <1>2. \E x \in {a, b} : \A y \in {a, b} : x =< y
    BY a <= b \/ b <= a
  <1>3. c \in {a, b} /\ \A y \in {a, b} : c =< y
    BY <1>1, <1>2
  <1> QED BY <1>1, <1>3 DEF Min

(* The powers of two a spreading factor takes. *)
LEMMA Chips ==
  /\ 2^7 = 128 /\ 2^8 = 256 /\ 2^9 = 512
  /\ 2^10 = 1024 /\ 2^11 = 2048 /\ 2^12 = 4096
  <1>1. 2^7 = 128 OBVIOUS
  <1>2. 2^8 = 256 OBVIOUS
  <1>3. 2^9 = 512 OBVIOUS
  <1>4. 2^10 = 1024 OBVIOUS
  <1>5. 2^11 = 2048 OBVIOUS
  <1>6. 2^12 = 4096 OBVIOUS
  <1> QED BY <1>1, <1>2, <1>3, <1>4, <1>5, <1>6

ModemType == [sf : 7..12, bw : {1, 2, 4}, cr : 1..4, freq : Nat, power : Int,
              preamble : Nat, explicit : BOOLEAN, crc : BOOLEAN, ldro : {"On", "Off", "Auto"}]

(* Eighths of a spreading factor's chips, and the symbol times they give. *)
LEMMA SymbolTimes ==
  ASSUME NEW p \in ModemType
  PROVE  /\ Symbol(p) \in Nat
         /\ Symbol(p) * p.bw * 8 = 2^p.sf
         /\ \E q \in Nat : Symbol(p) = 4 * q
         /\ Symbol(p) >= LDRO_THRESHOLD <=> <<p.sf, p.bw>> \in {<<11, 1>>, <<12, 1>>, <<12, 2>>}
  <1>1. p.sf \in 7..12 /\ p.bw \in {1, 2, 4}
    BY DEF ModemType
  <1>2. ASSUME NEW f \in 7..12, NEW b \in {1, 2, 4}
        PROVE  /\ (2^f \div 8) \div b \in Nat
               /\ ((2^f \div 8) \div b) * b * 8 = 2^f
               /\ \E q \in Nat : (2^f \div 8) \div b = 4 * q
               /\ (2^f \div 8) \div b >= 256 <=> <<f, b>> \in {<<11, 1>>, <<12, 1>>, <<12, 2>>}
    <2>1. CASE f = 7
      <3>1. 2^f = 128 BY <2>1, Chips
      <3>2. 2^f \div 8 = 16 BY <3>1
      <3>3. 16 \div 1 = 16 /\ 16 \div 2 = 8 /\ 16 \div 4 = 4
        OBVIOUS
      <3>4. (2^f \div 8) \div b = IF b = 1 THEN 16 ELSE IF b = 2 THEN 8 ELSE 4
        BY <3>2, <3>3
      <3>5. 16 = 4 * 4 /\ 8 = 4 * 2 /\ 4 = 4 * 1
        OBVIOUS
      <3>6. \E q \in Nat : (2^f \div 8) \div b = 4 * q
        <4>1. CASE b = 1 BY <3>4, <3>5, <4>1
        <4>2. CASE b = 2 BY <3>4, <3>5, <4>2
        <4>3. CASE b = 4 BY <3>4, <3>5, <4>3
        <4> QED BY <4>1, <4>2, <4>3
      <3> QED BY <2>1, <3>1, <3>4, <3>6
    <2>2. CASE f = 8
      <3>1. 2^f = 256 BY <2>2, Chips
      <3>2. 2^f \div 8 = 32 BY <3>1
      <3>3. 32 \div 1 = 32 /\ 32 \div 2 = 16 /\ 32 \div 4 = 8
        OBVIOUS
      <3>4. (2^f \div 8) \div b = IF b = 1 THEN 32 ELSE IF b = 2 THEN 16 ELSE 8
        BY <3>2, <3>3
      <3>5. 32 = 4 * 8 /\ 16 = 4 * 4 /\ 8 = 4 * 2
        OBVIOUS
      <3>6. \E q \in Nat : (2^f \div 8) \div b = 4 * q
        <4>1. CASE b = 1 BY <3>4, <3>5, <4>1
        <4>2. CASE b = 2 BY <3>4, <3>5, <4>2
        <4>3. CASE b = 4 BY <3>4, <3>5, <4>3
        <4> QED BY <4>1, <4>2, <4>3
      <3> QED BY <2>2, <3>1, <3>4, <3>6
    <2>3. CASE f = 9
      <3>1. 2^f = 512 BY <2>3, Chips
      <3>2. 2^f \div 8 = 64 BY <3>1
      <3>3. 64 \div 1 = 64 /\ 64 \div 2 = 32 /\ 64 \div 4 = 16
        OBVIOUS
      <3>4. (2^f \div 8) \div b = IF b = 1 THEN 64 ELSE IF b = 2 THEN 32 ELSE 16
        BY <3>2, <3>3
      <3>5. 64 = 4 * 16 /\ 32 = 4 * 8 /\ 16 = 4 * 4
        OBVIOUS
      <3>6. \E q \in Nat : (2^f \div 8) \div b = 4 * q
        <4>1. CASE b = 1 BY <3>4, <3>5, <4>1
        <4>2. CASE b = 2 BY <3>4, <3>5, <4>2
        <4>3. CASE b = 4 BY <3>4, <3>5, <4>3
        <4> QED BY <4>1, <4>2, <4>3
      <3> QED BY <2>3, <3>1, <3>4, <3>6
    <2>4. CASE f = 10
      <3>1. 2^f = 1024 BY <2>4, Chips
      <3>2. 2^f \div 8 = 128 BY <3>1
      <3>3. 128 \div 1 = 128 /\ 128 \div 2 = 64 /\ 128 \div 4 = 32
        OBVIOUS
      <3>4. (2^f \div 8) \div b = IF b = 1 THEN 128 ELSE IF b = 2 THEN 64 ELSE 32
        BY <3>2, <3>3
      <3>5. 128 = 4 * 32 /\ 64 = 4 * 16 /\ 32 = 4 * 8
        OBVIOUS
      <3>6. \E q \in Nat : (2^f \div 8) \div b = 4 * q
        <4>1. CASE b = 1 BY <3>4, <3>5, <4>1
        <4>2. CASE b = 2 BY <3>4, <3>5, <4>2
        <4>3. CASE b = 4 BY <3>4, <3>5, <4>3
        <4> QED BY <4>1, <4>2, <4>3
      <3> QED BY <2>4, <3>1, <3>4, <3>6
    <2>5. CASE f = 11
      <3>1. 2^f = 2048 BY <2>5, Chips
      <3>2. 2^f \div 8 = 256 BY <3>1
      <3>3. 256 \div 1 = 256 /\ 256 \div 2 = 128 /\ 256 \div 4 = 64
        OBVIOUS
      <3>4. (2^f \div 8) \div b = IF b = 1 THEN 256 ELSE IF b = 2 THEN 128 ELSE 64
        BY <3>2, <3>3
      <3>5. 256 = 4 * 64 /\ 128 = 4 * 32 /\ 64 = 4 * 16
        OBVIOUS
      <3>6. \E q \in Nat : (2^f \div 8) \div b = 4 * q
        <4>1. CASE b = 1 BY <3>4, <3>5, <4>1
        <4>2. CASE b = 2 BY <3>4, <3>5, <4>2
        <4>3. CASE b = 4 BY <3>4, <3>5, <4>3
        <4> QED BY <4>1, <4>2, <4>3
      <3> QED BY <2>5, <3>1, <3>4, <3>6
    <2>6. CASE f = 12
      <3>1. 2^f = 4096 BY <2>6, Chips
      <3>2. 2^f \div 8 = 512 BY <3>1
      <3>3. 512 \div 1 = 512 /\ 512 \div 2 = 256 /\ 512 \div 4 = 128
        OBVIOUS
      <3>4. (2^f \div 8) \div b = IF b = 1 THEN 512 ELSE IF b = 2 THEN 256 ELSE 128
        BY <3>2, <3>3
      <3>5. 512 = 4 * 128 /\ 256 = 4 * 64 /\ 128 = 4 * 32
        OBVIOUS
      <3>6. \E q \in Nat : (2^f \div 8) \div b = 4 * q
        <4>1. CASE b = 1 BY <3>4, <3>5, <4>1
        <4>2. CASE b = 2 BY <3>4, <3>5, <4>2
        <4>3. CASE b = 4 BY <3>4, <3>5, <4>3
        <4> QED BY <4>1, <4>2, <4>3
      <3> QED BY <2>6, <3>1, <3>4, <3>6
    <2> QED BY <2>1, <2>2, <2>3, <2>4, <2>5, <2>6
  <1> QED BY <1>1, <1>2, Zenon DEF Symbol, LDRO_THRESHOLD

(* A product grows with its factors. *)
LEMMA Products ==
  ASSUME NEW a \in Nat, NEW b \in Nat, NEW c \in Nat
  PROVE  a * b \in Nat /\ (a <= c => a * b <= c * b)
  <1>1. a * b \in Nat
    OBVIOUS
  <1>2. ASSUME a <= c PROVE a * b <= c * b
    <2>1. PICK d \in Nat : c = a + d
      <3>1. c - a \in Nat /\ c = a + (c - a)
        BY <1>2
      <3> QED BY <3>1
    <2>2. d * b \in Nat
      OBVIOUS
    <2>3. c * b = a * b + d * b
      BY <2>1
    <2> QED BY <1>1, <2>2, <2>3
  <1> QED BY <1>1, <1>2

(* The division rounded up, by what a payload's symbols are divided by. *)
LEMMA CeilDivs ==
  ASSUME NEW d \in {20, 24, 28, 32, 36, 40, 44, 48}, NEW a \in Int, NEW b \in Int, a <= b
  PROVE  CeilDiv(a, d) <= CeilDiv(b, d)
  <1>1. CASE d = 20 BY <1>1 DEF CeilDiv
  <1>2. CASE d = 24 BY <1>2 DEF CeilDiv
  <1>3. CASE d = 28 BY <1>3 DEF CeilDiv
  <1>4. CASE d = 32 BY <1>4 DEF CeilDiv
  <1>5. CASE d = 36 BY <1>5 DEF CeilDiv
  <1>6. CASE d = 40 BY <1>6 DEF CeilDiv
  <1>7. CASE d = 44 BY <1>7 DEF CeilDiv
  <1>8. CASE d = 48 BY <1>8 DEF CeilDiv
  <1> QED BY <1>1, <1>2, <1>3, <1>4, <1>5, <1>6, <1>7, <1>8

(* It is a number. *)
LEMMA CeilDivTyped ==
  ASSUME NEW d \in {20, 24, 28, 32, 36, 40, 44, 48}, NEW b \in Int
  PROVE  b > 0 => CeilDiv(b, d) \in Nat
  <1>1. CASE d = 20 BY <1>1 DEF CeilDiv
  <1>2. CASE d = 24 BY <1>2 DEF CeilDiv
  <1>3. CASE d = 28 BY <1>3 DEF CeilDiv
  <1>4. CASE d = 32 BY <1>4 DEF CeilDiv
  <1>5. CASE d = 36 BY <1>5 DEF CeilDiv
  <1>6. CASE d = 40 BY <1>6 DEF CeilDiv
  <1>7. CASE d = 44 BY <1>7 DEF CeilDiv
  <1>8. CASE d = 48 BY <1>8 DEF CeilDiv
  <1> QED BY <1>1, <1>2, <1>3, <1>4, <1>5, <1>6, <1>7, <1>8

(* A longer payload takes no fewer symbols. *)
LEMMA PayloadGrows ==
  ASSUME NEW p \in ModemType, NEW len \in Nat
  PROVE  /\ PayloadSymbols(p, len) \in Nat
         /\ PayloadSymbols(p, len) <= PayloadSymbols(p, len + 1)
  <1>0. p.sf \in 7..12 /\ p.cr \in 1..4
    BY DEF ModemType
  <1>1. PICK n \in Int : n = 8 * len - 4 * p.sf + 28 + (IF p.crc THEN 16 ELSE 0)
                               - (IF p.explicit THEN 0 ELSE 20)
    BY <1>0
  <1>2. n + 8 = 8 * (len + 1) - 4 * p.sf + 28 + (IF p.crc THEN 16 ELSE 0)
                  - (IF p.explicit THEN 0 ELSE 20)
    BY <1>0, <1>1
  <1>3. PICK d : d = 4 * (p.sf - (IF LdroEnabled(p) THEN 2 ELSE 0))
    OBVIOUS
  <1>4. d \in {20, 24, 28, 32, 36, 40, 44, 48}
    <2>1. CASE LdroEnabled(p)
      BY <1>0, <1>3, <2>1
    <2>2. CASE ~LdroEnabled(p)
      BY <1>0, <1>3, <2>2
    <2> QED BY <2>1, <2>2
  <1>5. PICK k \in Nat : k = p.cr + 4
    BY <1>0
  <1>6. PayloadSymbols(p, len) = 8 + (IF n <= 0 THEN 0 ELSE CeilDiv(n, d)) * k
    BY <1>1, <1>3, <1>5 DEF PayloadSymbols
  <1>7. PayloadSymbols(p, len + 1) = 8 + (IF n + 8 <= 0 THEN 0 ELSE CeilDiv(n + 8, d)) * k
    BY <1>2, <1>3, <1>5 DEF PayloadSymbols
  <1>8. PICK a \in Nat : a = IF n <= 0 THEN 0 ELSE CeilDiv(n, d)
    <2>2. n > 0 => CeilDiv(n, d) \in Nat
      BY <1>4, CeilDivTyped, Zenon
    <2> QED BY <2>2
  <1>9. PICK b \in Nat : b = IF n + 8 <= 0 THEN 0 ELSE CeilDiv(n + 8, d)
    <2>1. n + 8 \in Int
      OBVIOUS
    <2>2. n + 8 > 0 => CeilDiv(n + 8, d) \in Nat
      BY <1>4, <2>1, CeilDivTyped, Zenon
    <2> QED BY <2>1, <2>2
  <1>10. a <= b
    <2>1. CASE n <= 0
      BY <1>8, <2>1
    <2>2. CASE n > 0
      <3>1. n + 8 \in Int /\ n <= n + 8 /\ n + 8 > 0 /\ ~(n <= 0) /\ ~(n + 8 <= 0)
        BY <2>2
      <3>2. CeilDiv(n, d) <= CeilDiv(n + 8, d)
        BY <1>4, <3>1, CeilDivs, SMTT(30)
      <3> QED BY <1>8, <1>9, <3>1, <3>2
    <2> QED BY <2>1, <2>2
  <1>11. a * k \in Nat /\ a * k <= b * k
    BY <1>10, Products
  <1>12. b * k \in Nat
    BY Products
  <1>13. PayloadSymbols(p, len) = 8 + a * k /\ PayloadSymbols(p, len + 1) = 8 + b * k
    BY <1>6, <1>7, <1>8, <1>9
  <1> QED BY <1>11, <1>12, <1>13

(* The preamble's four symbols and a quarter lose nothing. *)
LEMMA PreambleExact ==
  ASSUME NEW p \in ModemType
  PROVE  4 * Preamble(p) = (4 * p.preamble + 17) * Symbol(p) /\ Preamble(p) \in Nat
  <1>1. PICK q \in Nat : Symbol(p) = 4 * q
    BY SymbolTimes
  <1>2. PICK n \in Nat : n = 4 * p.preamble + 17
    BY DEF ModemType
  <1>3. n * (4 * q) = 4 * (n * q) /\ n * q \in Nat
    OBVIOUS
  <1>4. PICK r \in Nat : r = n * q
    BY <1>3
  <1>5. Preamble(p) = (4 * r) \div 4
    BY <1>1, <1>2, <1>3, <1>4 DEF Preamble
  <1>6. (4 * r) \div 4 = r
    OBVIOUS
  <1> QED BY <1>1, <1>2, <1>3, <1>4, <1>5, <1>6

(* Time on air is a whole number, and a longer payload takes no less. *)
LEMMA AirtimeGrows ==
  ASSUME NEW p \in ModemType, NEW len \in Nat
  PROVE  Airtime(p, len) \in Nat /\ Airtime(p, len) <= Airtime(p, len + 1)
  <1>1. PICK a \in Nat : a = PayloadSymbols(p, len)
    BY PayloadGrows
  <1>2. PICK b \in Nat : b = PayloadSymbols(p, len + 1)
    <2>1. len + 1 \in Nat
      OBVIOUS
    <2> QED BY <2>1, PayloadGrows
  <1>3. a <= b
    BY <1>1, <1>2, PayloadGrows
  <1>4. PICK s \in Nat : s = Symbol(p)
    BY SymbolTimes
  <1>5. PICK r \in Nat : r = Preamble(p)
    BY PreambleExact
  <1>6. a * s \in Nat /\ b * s \in Nat /\ a * s <= b * s
    BY <1>3, Products
  <1>7. Airtime(p, len) = r + a * s /\ Airtime(p, len + 1) = r + b * s
    BY <1>1, <1>2, <1>4, <1>5 DEF Airtime
  <1> QED BY <1>6, <1>7

-----------------------------------------------------------------------------
(* What the ring counts *)

(* Transmissions, as the ring and the history remember them. *)
Slots == [at : Int, airtime : Nat]

(* What of a slot is still in the window at t. *)
Share(slot, t) == IF t - slot.at < DUTY_WINDOW THEN slot.airtime ELSE 0

(* What each slot counts for at t. *)
Shares(d, t) == [i \in 1 .. Len(d) |-> Share(d[i], t)]

(* Slots in the order of their times. *)
InTime(d) == \A i, j \in 1 .. Len(d) : i < j => d[i].at <= d[j].at

(* What a sequence of slots counts for is a number.                         *)
LEMMA SharesTyped ==
  ASSUME NEW d \in Seq(Slots), NEW t \in Int
  PROVE  /\ Shares(d, t) \in [1 .. Len(d) -> Nat] /\ Shares(d, t) \in [1 .. Len(d) -> Int]
         /\ Used(d, t) = SumOf(Shares(d, t)) /\ Used(d, t) \in Int
         /\ \A i \in 1 .. Len(d) : Share(d[i], t) \in Nat /\ Shares(d, t)[i] = Share(d[i], t)
  <1>1. ASSUME NEW i \in 1 .. Len(d) PROVE Share(d[i], t) \in Nat
    <2>1. d[i] \in Slots
      OBVIOUS
    <2>2. d[i].airtime \in Nat
      BY <2>1 DEF Slots
    <2> QED BY <2>2 DEF Share
  <1>2. Shares(d, t) \in [1 .. Len(d) -> Nat] /\ Shares(d, t) \in [1 .. Len(d) -> Int]
    BY <1>1 DEF Shares
  <1>3. Used(d, t) = SumOf(Shares(d, t))
    BY DEF Used, Shares, Share
  <1>4. SumOf(Shares(d, t)) \in Int
    <2>1. Len(d) \in Nat
      OBVIOUS
    <2> QED BY <1>2, <2>1, SumRuns
  <1>5. \A i \in 1 .. Len(d) : Shares(d, t)[i] = Share(d[i], t)
    BY DEF Shares
  <1> QED BY <1>1, <1>2, <1>3, <1>4, <1>5

(* What slots count for, appended or taken from the front.                  *)
LEMMA SharesOf ==
  ASSUME NEW d \in Seq(Slots), NEW m \in Nat, Len(d) = m, NEW t \in Int
  PROVE  /\ Shares(d, t) \in [1 .. m -> Int]
         /\ \A i \in 1 .. m : Share(d[i], t) \in Int /\ Shares(d, t)[i] = Share(d[i], t)
         /\ Used(d, t) = SumOf(Shares(d, t)) /\ Used(d, t) \in Int
  <1>1. Shares(d, t) \in [1 .. Len(d) -> Int]
    BY SharesTyped
  <1>2. \A i \in 1 .. Len(d) : Share(d[i], t) \in Nat /\ Shares(d, t)[i] = Share(d[i], t)
    BY SharesTyped
  <1>3. Used(d, t) = SumOf(Shares(d, t)) /\ Used(d, t) \in Int
    BY SharesTyped
  <1>4. Shares(d, t) \in [1 .. m -> Int]
    BY <1>1
  <1>5. ASSUME NEW i \in 1 .. m PROVE Share(d[i], t) \in Int /\ Shares(d, t)[i] = Share(d[i], t)
    BY <1>2
  <1> QED BY <1>3, <1>4, <1>5

(* expire leaves a last part of the ring, and what it drops has left the   *)
(* window.                                                                 *)
LEMMA ExpiredIs ==
  ASSUME NEW d \in Seq(Slots), NEW now \in Int
  PROVE  \E k \in 0 .. Len(d) :
           /\ \A j \in 1 .. k : now - d[j].at >= DUTY_WINDOW
           /\ Expired(d, now) \in Seq(Slots) /\ Len(Expired(d, now)) = Len(d) - k
           /\ \A n \in 1 .. (Len(d) - k) : Expired(d, now)[n] = d[n + k]
  <1>0. PICK m \in Nat : m = Len(d)
    OBVIOUS
  <1> DEFINE Gone == {i \in 0 .. Len(d) : \A j \in 1 .. i : now - d[j].at >= DUTY_WINDOW}
             Kept == {n \in Nat : m - n \in Gone}
  <1>1. m \in Kept
    <2>1. m - m = 0 /\ 0 \in 0 .. Len(d)
      BY <1>0
    <2> QED BY <2>1
  <1>2. PICK l \in Kept : \A n \in Kept : l <= n
    <2>1. Kept \in SUBSET Nat /\ Kept # {}
      BY <1>1
    <2> QED BY <2>1, LeastOfNaturals
  <1>3. m - l \in Gone /\ l \in Nat
    BY <1>2
  <1>4. ASSUME NEW i \in Gone PROVE m - l >= i
    <2>1. i \in 0 .. m
      BY <1>0
    <2>2. m - i \in Nat /\ m - (m - i) = i
      BY <2>1
    <2>3. m - i \in Kept
      BY <2>2
    <2>4. l <= m - i
      BY <1>2, <2>3
    <2> QED BY <1>3, <2>1, <2>4
  <1>5. PICK k : k = Max(Gone)
    OBVIOUS
  <1>6. k \in Gone
    BY <1>3, <1>4, <1>5 DEF Max
  <1>7. k \in 0 .. m /\ \A j \in 1 .. k : now - d[j].at >= DUTY_WINDOW
    BY <1>0, <1>6
  <1>8. Expired(d, now) = SubSeq(d, k + 1, m)
    BY <1>0, <1>5 DEF Expired
  <1> HIDE DEF Gone, Kept
  <1>9. /\ SubSeq(d, k + 1, m) \in Seq(Slots) /\ Len(SubSeq(d, k + 1, m)) = m - k
        /\ \A n \in 1 .. (m - k) : SubSeq(d, k + 1, m)[n] = d[n + k]
    <2>1. PICK b \in 1 .. (m + 1) : b = k + 1
      BY <1>7
    <2>2. PICK f : f = SubSeq(d, b, m)
      OBVIOUS
    <2>3. Len(f) = m - k
      BY <1>0, <1>7, <2>1, <2>2
    <2>4. \A n \in 1 .. (m - k) : f[n] = d[n + k] /\ n + k \in 1 .. m
      BY <1>0, <1>7, <2>1, <2>2
    <2>5. f \in Seq(Slots)
      BY <1>0, <1>7, <2>1, <2>2
    <2> QED BY <2>1, <2>2, <2>3, <2>4, <2>5
  <1> QED BY <1>0, <1>7, <1>8, <1>9

(* At that moment and later the ring counts the same without them. *)
LEMMA UsedExpired ==
  ASSUME NEW d \in Seq(Slots), NEW now \in Int, NEW t \in Int, now <= t
  PROVE  Used(Expired(d, now), t) = Used(d, t)
  <1>0. DUTY_WINDOW \in Int
    BY LoraAssumption
  <1>1. PICK k \in 0 .. Len(d) :
           /\ \A j \in 1 .. k : now - d[j].at >= DUTY_WINDOW
           /\ Expired(d, now) \in Seq(Slots) /\ Len(Expired(d, now)) = Len(d) - k
           /\ \A n \in 1 .. (Len(d) - k) : Expired(d, now)[n] = d[n + k]
    BY ExpiredIs
  <1>2. PICK m \in Nat : m = Len(d)
    OBVIOUS
  <1>3. PICK e \in Seq(Slots) : e = Expired(d, now)
    BY <1>1
  <1>4. k \in 0 .. m /\ Len(e) = m - k
    BY <1>1, <1>2, <1>3
  <1>5. PICK z : z = [n \in 1 .. k |-> 0]
    OBVIOUS
  <1>6. Shares(d, t) \in [1 .. m -> Int] /\ Shares(e, t) \in [1 .. (m - k) -> Int]
        /\ z \in [1 .. k -> Int]
    <2>1. m - k \in Nat
      BY <1>4
    <2>2. Shares(d, t) \in [1 .. m -> Int]
      BY <1>2, SharesOf
    <2>3. Shares(e, t) \in [1 .. (m - k) -> Int]
      BY <1>4, <2>1, SharesOf
    <2> QED BY <1>5, <2>2, <2>3
  <1>7. ASSUME NEW n \in 1 .. k PROVE z[n] = Shares(d, t)[n]
    <2>1. n \in 1 .. m
      BY <1>4
    <2>2. d[n] \in Slots
      BY <1>2, <2>1
    <2>6. Shares(d, t)[n] = Share(d[n], t)
      <3>1. \A i \in 1 .. m : Shares(d, t)[i] = Share(d[i], t)
        BY <1>2, SharesTyped
      <3> QED BY <2>1, <3>1
    <2>3. d[n].at \in Int
      BY <2>2 DEF Slots
    <2>4. now - d[n].at >= DUTY_WINDOW
      BY <1>1
    <2>5. ~(t - d[n].at < DUTY_WINDOW)
      BY <1>0, <2>3, <2>4
    <2> QED BY <1>5, <2>5, <2>6 DEF Share
  <1>8. ASSUME NEW n \in 1 .. (m - k) PROVE Shares(e, t)[n] = Shares(d, t)[n + k]
    <2>1. n + k \in 1 .. m
      BY <1>4
    <2>2. e[n] = d[n + k]
      BY <1>1, <1>2, <1>3
    <2>3. Shares(e, t)[n] = Share(e[n], t)
      BY <1>4, SharesTyped
    <2>4. Shares(d, t)[n + k] = Share(d[n + k], t)
      BY <1>2, <2>1, SharesTyped
    <2> QED BY <2>2, <2>3, <2>4
  <1>9. SumOf(Shares(d, t)) = SumOf(z) + SumOf(Shares(e, t))
    BY <1>4, <1>6, <1>7, <1>8, SumParts
  <1>10. SumOf(z) = 0
    <2>1. k \in Nat /\ \A n \in 1 .. k : z[n] = 0
      BY <1>4, <1>5
    <2> QED BY <1>6, <2>1, SumNone
  <1>11. Used(d, t) = SumOf(Shares(d, t)) /\ Used(e, t) = SumOf(Shares(e, t)) /\ Used(e, t) \in Int
    BY SharesTyped
  <1> QED BY <1>3, <1>9, <1>10, <1>11

(* One slot more counts for what of it is in the window. *)
LEMMA UsedAppended ==
  ASSUME NEW d \in Seq(Slots), NEW x \in Slots, NEW t \in Int
  PROVE  Used(Append(d, x), t) = Used(d, t) + Share(x, t) /\ Append(d, x) \in Seq(Slots)
  <1>1. PICK m \in Nat : m = Len(d)
    OBVIOUS
  <1>2. PICK e : e = Append(d, x)
    OBVIOUS
  <1>3. e \in Seq(Slots) /\ Len(e) = m + 1 /\ e[m + 1] = x /\ \A n \in 1 .. m : e[n] = d[n]
    BY <1>1, <1>2
  <1>4. Shares(d, t) \in [1 .. m -> Int] /\ Shares(e, t) \in [1 .. (m + 1) -> Int]
    BY <1>1, <1>3, SharesTyped
  <1>5. \A n \in 1 .. m : Shares(e, t)[n] = Shares(d, t)[n]
    <2>1. \A n \in 1 .. m : n \in 1 .. (m + 1)
      OBVIOUS
    <2>2. \A n \in 1 .. m : Shares(d, t)[n] = Share(d[n], t)
      BY <1>1, SharesOf
    <2>3. \A n \in 1 .. (m + 1) : Shares(e, t)[n] = Share(e[n], t)
      <3>1. m + 1 \in Nat
        OBVIOUS
      <3> QED BY <1>3, <3>1, SharesOf
    <2> QED BY <1>3, <2>1, <2>2, <2>3
  <1>6. Shares(e, t)[m + 1] = Share(x, t)
    <2>1. m + 1 \in 1 .. (m + 1)
      OBVIOUS
    <2> QED BY <1>3, <2>1, SharesTyped
  <1>7. SumOf(Shares(e, t)) = SumOf(Shares(d, t)) + Shares(e, t)[m + 1]
    BY <1>4, <1>5, SumOneMore
  <1> QED BY <1>2, <1>3, <1>6, <1>7, SharesTyped

(* The full ring's merge: its oldest entry counted with the next. *)
Merged(d) == [Tail(d) EXCEPT ![1].airtime = @ + d[1].airtime]

(* It counts no less, because the next is not older. *)
LEMMA UsedMerged ==
  ASSUME NEW d \in Seq(Slots), Len(d) > 1, InTime(d), NEW t \in Int
  PROVE  /\ Merged(d) \in Seq(Slots) /\ Len(Merged(d)) = Len(d) - 1
         /\ \A n \in 1 .. (Len(d) - 1) : Merged(d)[n].at = d[n + 1].at
         /\ Used(Merged(d), t) >= Used(d, t)
  <1>0. DUTY_WINDOW \in Int
    BY LoraAssumption
  <1>1. PICK m \in Nat : m = Len(d) - 1
    OBVIOUS
  <1>2. PICK e : e = Tail(d)
    OBVIOUS
  <1>3. /\ e \in Seq(Slots) /\ Len(e) = m /\ m >= 1 /\ Len(d) = m + 1
        /\ \A n \in 1 .. m : e[n] = d[n + 1] /\ n + 1 \in 1 .. (m + 1)
    BY <1>1, <1>2
  <1>4. d[1] \in Slots /\ d[2] \in Slots /\ e[1] = d[2] /\ 1 \in 1 .. m /\ 1 \in 1 .. Len(d)
        /\ 2 \in 1 .. Len(d)
    <2>1. 1 \in 1 .. Len(d) /\ 2 \in 1 .. Len(d) /\ 1 \in 1 .. m /\ 1 + 1 = 2
      BY <1>3
    <2> QED BY <1>3, <2>1
  <1>5. d[1].at \in Int /\ d[1].airtime \in Nat /\ d[2].at \in Int /\ d[2].airtime \in Nat
    BY <1>4 DEF Slots
  <1>6. d[1].at <= d[2].at
    BY <1>4 DEF InTime
  <1>7. PICK y : y = [e[1] EXCEPT !.airtime = @ + d[1].airtime]
    OBVIOUS
  <1>8. y \in Slots /\ y.at = d[2].at /\ y.airtime = d[2].airtime + d[1].airtime
    BY <1>4, <1>5, <1>7 DEF Slots
  <1>9. PICK f : f = [e EXCEPT ![1] = y]
    OBVIOUS
  <1>10. Merged(d) = f
    BY <1>2, <1>7, <1>9 DEF Merged
  <1>11. f \in Seq(Slots) /\ Len(f) = m /\ f[1] = y /\ \A n \in 1 .. m : n # 1 => f[n] = e[n]
    BY <1>3, <1>4, <1>8, <1>9
  <1>12. ASSUME NEW n \in 1 .. m PROVE f[n].at = d[n + 1].at
    BY <1>3, <1>4, <1>8, <1>11
  <1>13. Used(f, t) = Used(e, t) - Share(e[1], t) + Share(y, t)
    <2>1. Shares(e, t) \in [1 .. m -> Int] /\ Shares(f, t) \in [1 .. m -> Int]
      BY <1>3, <1>11, SharesOf
    <2>5. \A n \in 1 .. m : Shares(e, t)[n] = Share(e[n], t)
      BY <1>3, SharesOf
    <2>6. \A n \in 1 .. m : Shares(f, t)[n] = Share(f[n], t)
      BY <1>11, SharesOf
    <2>2. \A n \in 1 .. m : n # 1 => Shares(f, t)[n] = Shares(e, t)[n]
      BY <1>11, <2>5, <2>6
    <2>3. Shares(e, t)[1] = Share(e[1], t) /\ Shares(f, t)[1] = Share(y, t)
      BY <1>4, <1>11, <2>5, <2>6
    <2>4. SumOf(Shares(f, t)) = SumOf(Shares(e, t)) - Shares(e, t)[1] + Shares(f, t)[1]
      BY <1>4, <2>1, <2>2, SumChanged
    <2> QED BY <1>3, <1>11, <2>3, <2>4, SharesTyped
  <1>14. Used(d, t) = Share(d[1], t) + Used(e, t)
    <2>1. PICK u : u = [n \in 1 .. 1 |-> Share(d[1], t)]
      OBVIOUS
    <2>2. Share(d[1], t) \in Int
      BY <1>4, SharesTyped
    <2>7. m + 1 \in Nat
      OBVIOUS
    <2>3. u \in [1 .. 1 -> Int] /\ 1 \in 0 .. (m + 1) /\ 1 \in Nat
      BY <1>3, <2>1, <2>2
    <2>4. Shares(d, t) \in [1 .. (m + 1) -> Int] /\ Shares(e, t) \in [1 .. m -> Int]
      <3>1. Shares(d, t) \in [1 .. (m + 1) -> Int]
        BY <1>3, <2>7, SharesOf
      <3>2. Shares(e, t) \in [1 .. m -> Int]
        BY <1>3, SharesOf
      <3> QED BY <3>1, <3>2
    <2>10. \A n \in 1 .. (m + 1) : Shares(d, t)[n] = Share(d[n], t)
      BY <1>3, <2>7, SharesOf
    <2>11. \A n \in 1 .. m : Shares(e, t)[n] = Share(e[n], t)
      BY <1>3, SharesOf
    <2>5. \A n \in 1 .. 1 : u[n] = Shares(d, t)[n]
      BY <1>3, <2>1, <2>10
    <2>6. \A n \in 1 .. m : Shares(e, t)[n] = Shares(d, t)[n + 1]
      BY <1>3, <2>10, <2>11
    <2>12. PICK l \in Nat : l = m + 1
      BY <2>7
    <2>13. /\ Shares(d, t) \in [1 .. l -> Int] /\ 1 \in 0 .. l
           /\ Shares(e, t) \in [1 .. (l - 1) -> Int]
           /\ \A n \in 1 .. (l - 1) : Shares(e, t)[n] = Shares(d, t)[n + 1]
      <3>1. l - 1 = m
        BY <2>12
      <3> QED BY <2>3, <2>4, <2>6, <2>12, <3>1
    <2>8. SumOf(Shares(d, t)) = SumOf(u) + SumOf(Shares(e, t))
      BY <2>3, <2>5, <2>13, SumParts
    <2>9. SumOf(u) = Share(d[1], t)
      <3>1. PICK z : z = [n \in 1 .. 0 |-> 0]
        OBVIOUS
      <3>2. z \in [1 .. 0 -> Int] /\ 0 \in Nat /\ 0 + 1 = 1 /\ \A n \in 1 .. 0 : z[n] = 0
        BY <3>1
      <3>3. SumOf(z) = 0
        BY <3>2, SumNone
      <3>4. \A n \in 1 .. 0 : u[n] = z[n]
        OBVIOUS
      <3>6. u \in [1 .. (0 + 1) -> Int]
        BY <2>3
      <3>7. SumOf(u) = SumOf(z) + u[0 + 1]
        BY <3>2, <3>4, <3>6, SumOneMore
      <3>5. SumOf(u) = SumOf(z) + u[1]
        BY <3>7
      <3> QED BY <2>1, <2>2, <3>3, <3>5
    <2> QED BY <1>3, <2>8, <2>9, SharesTyped
  <1>15. Share(y, t) >= Share(e[1], t) + Share(d[1], t)
    <2>1. PICK p \in Int, q \in Int, a \in Nat, b \in Nat, w \in Int :
            p = d[1].at /\ q = d[2].at /\ a = d[1].airtime /\ b = d[2].airtime /\ w = DUTY_WINDOW
      BY <1>0, <1>5
    <2>2. /\ Share(d[1], t) = IF t - p < w THEN a ELSE 0
          /\ Share(e[1], t) = IF t - q < w THEN b ELSE 0
          /\ Share(y, t) = IF t - q < w THEN b + a ELSE 0
      BY <1>4, <1>8, <2>1 DEF Share
    <2>3. p <= q
      BY <1>6, <2>1
    <2> QED BY <2>2, <2>3
  <1>16. Share(y, t) \in Int /\ Share(e[1], t) \in Int /\ Share(d[1], t) \in Int /\ Used(e, t) \in Int
    <2>1. Share(y, t) \in Int
      BY <1>8 DEF Share, Slots
    <2>2. Share(e[1], t) \in Int /\ Used(e, t) \in Int
      BY <1>3, <1>4, SharesOf
    <2>3. Share(d[1], t) \in Int
      BY <1>4, SharesTyped
    <2> QED BY <2>1, <2>2, <2>3
  <1>17. Used(f, t) >= Used(d, t)
    BY <1>13, <1>14, <1>15, <1>16
  <1> QED BY <1>1, <1>10, <1>11, <1>12, <1>17

-----------------------------------------------------------------------------
(* The ring over-counts *)

(* A ring as it may be at a moment: in order, nothing later than it. *)
RingAt(d, now) ==
  /\ d \in Seq(Slots) /\ Len(d) <= DUTY_RING_LEN
  /\ InTime(d)
  /\ \A i \in 1 .. Len(d) : d[i].at <= now

(* expire leaves a ring. *)
LEMMA ExpiredKeeps ==
  ASSUME NEW d, NEW before \in Int, NEW now \in Int, before <= now, RingAt(d, before)
  PROVE  RingAt(Expired(d, now), now)
  <1>0. d \in Seq(Slots) /\ DUTY_RING_LEN \in Int
    BY LoraAssumption DEF RingAt
  <1>1. PICK k \in 0 .. Len(d) :
           /\ Expired(d, now) \in Seq(Slots) /\ Len(Expired(d, now)) = Len(d) - k
           /\ \A n \in 1 .. (Len(d) - k) : Expired(d, now)[n] = d[n + k]
    BY <1>0, ExpiredIs
  <1>2. PICK m \in Nat : m = Len(d)
    BY <1>0
  <1>3. PICK e \in Seq(Slots) : e = Expired(d, now)
    BY <1>1
  <1>4. k \in 0 .. m /\ Len(e) = m - k /\ m <= DUTY_RING_LEN
    BY <1>1, <1>2, <1>3 DEF RingAt
  <1>5. ASSUME NEW n \in 1 .. (m - k) PROVE e[n] = d[n + k] /\ n + k \in 1 .. m
    BY <1>1, <1>2, <1>3, <1>4
  <1>6. Len(e) <= DUTY_RING_LEN
    BY <1>0, <1>4
  <1>7. InTime(e)
    <2> SUFFICES ASSUME NEW i \in 1 .. (m - k), NEW j \in 1 .. (m - k), i < j
                 PROVE  e[i].at <= e[j].at
      BY <1>4 DEF InTime
    <2>1. i + k < j + k
      BY <1>4
    <2>2. i + k \in 1 .. m /\ j + k \in 1 .. m
      BY <1>5
    <2>3. d[i + k].at <= d[j + k].at
      BY <1>2, <2>1, <2>2 DEF RingAt, InTime
    <2> QED BY <1>5, <2>3
  <1>8. ASSUME NEW n \in 1 .. (m - k) PROVE e[n].at <= now
    <2>1. n + k \in 1 .. m /\ e[n] = d[n + k]
      BY <1>5
    <2>2. d[n + k].at <= before /\ d[n + k] \in Slots
      BY <1>0, <1>2, <2>1 DEF RingAt
    <2>3. d[n + k].at \in Int
      BY <2>2 DEF Slots
    <2> QED BY <2>1, <2>2, <2>3
  <1> QED BY <1>3, <1>4, <1>6, <1>7, <1>8 DEF RingAt

(* push leaves a ring, which counts the new slot and no less of the others. *)
LEMMA RecordedKeeps ==
  ASSUME NEW d, NEW now \in Int, RingAt(d, now), NEW a \in Nat
  PROVE  /\ RingAt(Recorded(d, now, a), now)
         /\ \A t \in Int : Used(Recorded(d, now, a), t) >=
                             Used(d, t) + Share([at |-> now, airtime |-> a], t)
  <1>0. d \in Seq(Slots) /\ DUTY_RING_LEN \in Nat /\ DUTY_RING_LEN > 1 /\ Len(d) \in Nat
    BY LoraAssumption DEF RingAt
  <1>1. PICK x : x = [at |-> now, airtime |-> a]
    OBVIOUS
  <1>2. x \in Slots /\ x.at = now
    BY <1>1 DEF Slots
  <1>3. PICK f : f = IF Len(d) = DUTY_RING_LEN THEN Merged(d) ELSE d
    OBVIOUS
  <1>4. Recorded(d, now, a) = Append(f, x)
    BY <1>1, <1>3 DEF Recorded, Merged
  <1>5. RingAt(f, now) /\ Len(f) < DUTY_RING_LEN /\ \A t \in Int : Used(f, t) >= Used(d, t)
    <2>1. CASE Len(d) = DUTY_RING_LEN
      <3>0. Len(d) > 1 /\ InTime(d) /\ f = Merged(d)
        BY <1>0, <1>3, <2>1 DEF RingAt
      <3>1. PICK l \in Nat : l = Len(d) - 1
        BY <1>0, <3>0
      <3>2. \A t \in Int : Used(f, t) >= Used(d, t)
        BY <1>0, <3>0, UsedMerged
      <3>3. f \in Seq(Slots) /\ Len(f) = l /\ \A n \in 1 .. l : f[n].at = d[n + 1].at
        <4>1. 0 \in Int
          OBVIOUS
        <4> QED BY <1>0, <3>0, <3>1, <4>1, UsedMerged
      <3>4. \A n \in 1 .. l : n + 1 \in 1 .. Len(d)
        BY <1>0, <3>1
      <3>5. InTime(f)
        <4> SUFFICES ASSUME NEW i \in 1 .. l, NEW j \in 1 .. l, i < j
                     PROVE  f[i].at <= f[j].at
          BY <3>3 DEF InTime
        <4>1. i + 1 < j + 1
          OBVIOUS
        <4>2. d[i + 1].at <= d[j + 1].at
          BY <3>0, <3>4, <4>1 DEF InTime
        <4> QED BY <3>3, <4>2
      <3>6. \A n \in 1 .. l : f[n].at <= now
        BY <3>3, <3>4 DEF RingAt
      <3>7. l < DUTY_RING_LEN
        BY <1>0, <2>1, <3>1
      <3> QED BY <1>0, <3>2, <3>3, <3>5, <3>6, <3>7 DEF RingAt
    <2>2. CASE Len(d) # DUTY_RING_LEN
      <3>1. f = d
        BY <1>3, <2>2
      <3>2. Len(d) < DUTY_RING_LEN
        BY <1>0, <2>2 DEF RingAt
      <3>3. ASSUME NEW t \in Int PROVE Used(d, t) >= Used(d, t)
        BY <1>0, SharesTyped
      <3> QED BY <3>1, <3>2, <3>3
    <2> QED BY <2>1, <2>2
  <1>6. PICK m \in Nat : m = Len(f)
    BY <1>5 DEF RingAt
  <1>7. PICK e : e = Append(f, x)
    OBVIOUS
  <1>8. /\ f \in Seq(Slots) /\ e \in Seq(Slots) /\ Len(e) = m + 1 /\ e[m + 1] = x
        /\ \A n \in 1 .. m : e[n] = f[n]
    BY <1>2, <1>5, <1>6, <1>7 DEF RingAt
  <1>9. RingAt(e, now)
    <2>1. Len(e) <= DUTY_RING_LEN
      BY <1>0, <1>5, <1>6, <1>8
    <2>2. ASSUME NEW n \in 1 .. (m + 1) PROVE e[n].at <= now
      <3>1. CASE n = m + 1
        BY <1>2, <1>8, <3>1
      <3>2. CASE n # m + 1
        <4>1. n \in 1 .. m
          BY <3>2
        <4> QED BY <1>5, <1>6, <1>8, <4>1 DEF RingAt
      <3> QED BY <3>1, <3>2
    <2>3. InTime(e)
      <3> SUFFICES ASSUME NEW i \in 1 .. (m + 1), NEW j \in 1 .. (m + 1), i < j
                   PROVE  e[i].at <= e[j].at
        BY <1>8 DEF InTime
      <3>1. i \in 1 .. m
        OBVIOUS
      <3>2. CASE j = m + 1
        BY <1>2, <1>8, <2>2, <3>2
      <3>3. CASE j # m + 1
        <4>1. j \in 1 .. m
          BY <3>3
        <4> QED BY <1>5, <1>6, <1>8, <3>1, <4>1 DEF RingAt, InTime
      <3> QED BY <3>2, <3>3
    <2> QED BY <1>8, <2>1, <2>2, <2>3 DEF RingAt
  <1>10. ASSUME NEW t \in Int PROVE Used(e, t) >= Used(d, t) + Share(x, t)
    <2>1. Used(e, t) = Used(f, t) + Share(x, t)
      BY <1>2, <1>7, <1>8, UsedAppended
    <2>2. Used(f, t) >= Used(d, t)
      BY <1>5
    <2>3. Used(f, t) \in Int /\ Used(d, t) \in Int
      BY <1>0, <1>8, SharesTyped
    <2>4. Share(x, t) \in Int
      BY <1>2 DEF Share, Slots
    <2> QED BY <2>1, <2>2, <2>3, <2>4
  <1> QED BY <1>1, <1>4, <1>7, <1>9, <1>10

(* The types of the state. *)
LoraTyped ==
  /\ region \in Regions /\ params \in ModemType
  /\ duty \in Seq(Slots) /\ aired \in Seq(Slots)
  /\ time \in Nat

(* The ring is in order, and counts no less than what was sent, now and at *)
(* every later moment.                                                     *)
RingCounts ==
  /\ RingAt(duty, time)
  /\ \A t \in Int : t >= time => Used(duty, t) >= Used(aired, t)

(* What try_send makes of a ring. *)
LEMMA TrySendIs ==
  ASSUME LoraTyped, RingCounts, NEW now \in Int, time <= now, NEW a \in Nat
  PROVE  LET c == TrySend(duty, now, a)
         IN  \E e :
               /\ RingAt(e, now)
               /\ \A t \in Int : t >= now => Used(e, t) >= Used(aired, t)
               /\ \/ c.result # "Ok" /\ c.duty = e
                  \/ /\ c.result = "Ok" /\ c.duty = Recorded(e, now, a)
                     /\ region.permille # 0 => Used(e, now) + a <= Budget
  <1>0. time \in Int /\ duty \in Seq(Slots)
    BY DEF LoraTyped
  <1>1. RingAt(duty, now)
    <2>1. \A i \in 1 .. Len(duty) : duty[i].at <= time /\ duty[i] \in Slots
      BY <1>0 DEF RingCounts, RingAt
    <2>2. \A i \in 1 .. Len(duty) : duty[i].at <= now
      BY <1>0, <2>1 DEF Slots
    <2> QED BY <2>2 DEF RingCounts, RingAt
  <1>2. PICK e : e = Expired(duty, now)
    OBVIOUS
  <1>3. RingAt(e, now)
    BY <1>0, <1>2, ExpiredKeeps DEF RingCounts
  <1>4. ASSUME NEW t \in Int, t >= now PROVE Used(duty, t) >= Used(aired, t) /\ Used(e, t) >= Used(aired, t)
    <2>1. t >= time /\ now <= t
      BY <1>0, <1>4
    <2>2. Used(duty, t) >= Used(aired, t)
      BY <2>1 DEF RingCounts
    <2>3. Used(e, t) = Used(duty, t)
      BY <1>0, <1>2, <2>1, UsedExpired
    <2> QED BY <2>2, <2>3
  <1>5. CASE region.dwell # 0 /\ a > region.dwell
    <2>1. TrySend(duty, now, a) = [result |-> "Unsupported", duty |-> duty]
      BY <1>5 DEF TrySend
    <2> QED BY <1>1, <1>4, <2>1
  <1>6. CASE ~(region.dwell # 0 /\ a > region.dwell) /\ region.permille # 0 /\ Used(e, now) + a > Budget
    <2>1. TrySend(duty, now, a) = [result |-> "Busy", duty |-> e]
      BY <1>2, <1>6 DEF TrySend
    <2> QED BY <1>3, <1>4, <2>1
  <1>7. CASE ~(region.dwell # 0 /\ a > region.dwell) /\ ~(region.permille # 0 /\ Used(e, now) + a > Budget)
    <2>1. TrySend(duty, now, a) = [result |-> "Ok", duty |-> Recorded(e, now, a)]
      BY <1>2, <1>7 DEF TrySend
    <2>2. Used(e, now) \in Int
      BY <1>3, SharesTyped DEF RingAt
    <2>3. Budget \in Int
      <3>1. region.permille \in Nat /\ DUTY_WINDOW \in Nat
        BY LoraAssumption DEF LoraTyped
      <3> QED BY <3>1 DEF Budget
    <2>4. region.permille # 0 => Used(e, now) + a <= Budget
      BY <1>7, <2>2, <2>3
    <2> QED BY <1>3, <1>4, <2>1, <2>4
  <1> QED BY <1>5, <1>6, <1>7

(* Initially. *)
LEMMA LoraBegins ==
  ASSUME LoraInit
  PROVE  LoraTyped /\ RingCounts
  <1>1. LoraTyped
    BY LoraAssumption DEF LoraInit, LoraTyped, ModemType
  <1>2. duty = <<>> /\ aired = <<>> /\ Len(<<>>) = 0
    <2>1. Len(<<>>) = 0
      BY Zenon
    <2> QED BY <2>1 DEF LoraInit
  <1>3. RingAt(duty, time)
    BY <1>1, <1>2, LoraAssumption DEF RingAt, InTime, LoraTyped
  <1>4. ASSUME NEW t \in Int PROVE Used(duty, t) >= Used(aired, t)
    <2>1. Used(duty, t) \in Int
      BY <1>1, SharesTyped DEF LoraTyped
    <2> QED BY <1>2, <2>1
  <1> QED BY <1>1, <1>3, <1>4 DEF RingCounts

(* What Send does: it tries at some moment, and what is cleared is on the  *)
(* air from then for its airtime.                                          *)
LEMMA SendIs ==
  ASSUME LoraTyped, Send
  PROVE  \E now \in Nat, a \in Nat :
           /\ now >= time
           /\ duty' = TrySend(duty, now, a).duty
           /\ region' = region /\ params' = params
           /\ \/ /\ TrySend(duty, now, a).result = "Ok"
                 /\ aired' = Append(aired, [at |-> now, airtime |-> a])
                 /\ time' = now + a
              \/ /\ TrySend(duty, now, a).result # "Ok"
                 /\ aired' = aired /\ time' = now
  <1>1. PICK len \in Payloads, now \in Moments :
          LET frame   == len + OVERHEAD
              onAir   == Airtime(params, frame)
              cleared == TrySend(duty, now, onAir)
          IN  /\ duty' = cleared.duty
              /\ IF cleared.result = "Ok"
                 THEN /\ aired' = Append(aired, [at |-> now, airtime |-> onAir])
                      /\ time' = now + onAir
                 ELSE /\ time' = now
                      /\ UNCHANGED aired
    BY DEF Send
  <1>2. PICK a \in Nat : a = Airtime(params, len + OVERHEAD)
    <2>1. len + OVERHEAD \in Nat
      BY LoraAssumption
    <2> QED BY <2>1, AirtimeGrows DEF LoraTyped
  <1>3. now \in Nat /\ now >= time
    <2>1. time \in Nat
      BY DEF LoraTyped
    <2>2. now = time \/ now > time
      BY DEF Moments
    <2>3. now \in Int
      <3>1. now \in {time} \cup {time + d : d \in Pauses}
                      \cup {aired[i].at + DUTY_WINDOW - e : i \in 1..Len(aired), e \in {0, 1}}
        BY DEF Moments
      <3>2. CASE now \in {time} \cup {time + d : d \in Pauses}
        BY <2>1, <3>2, LoraAssumption
      <3>3. CASE now \in {aired[i].at + DUTY_WINDOW - e : i \in 1..Len(aired), e \in {0, 1}}
        <4>1. PICK i \in 1..Len(aired), e \in {0, 1} : now = aired[i].at + DUTY_WINDOW - e
          BY <3>3
        <4>2. aired[i] \in Slots
          BY DEF LoraTyped
        <4>3. aired[i].at \in Int
          BY <4>2 DEF Slots
        <4> QED BY <4>1, <4>3, LoraAssumption
      <3> QED BY <3>1, <3>2, <3>3
    <2> QED BY <2>1, <2>2, <2>3
  <1>4. region' = region /\ params' = params
    BY DEF Send
  <1> QED BY <1>1, <1>2, <1>3, <1>4

-----------------------------------------------------------------------------
(* Windows of the air *)

(* What of a transmission lies between two times. *)
Overlap(x, from, to) == Max({0, Min({to, x.at + x.airtime}) - Max({from, x.at})})

(* What of each transmission does, and their sum. *)
Overlaps(a, from, to) == [i \in 1 .. Len(a) |-> Overlap(a[i], from, to)]

Air(a, from, to) == SumOf(Overlaps(a, from, to))

(* Transmissions of one antenna: each ends before the next begins. *)
Disjoint(a) == \A i, j \in 1 .. Len(a) : i < j => a[i].at + a[i].airtime <= a[j].at

(* What of a transmission falls between two times.                          *)
LEMMA OverlapIs ==
  ASSUME NEW x \in Slots, NEW from \in Int, NEW to \in Int
  PROVE  /\ Overlap(x, from, to) =
              LET lo == IF from >= x.at THEN from ELSE x.at
                  hi == IF to <= x.at + x.airtime THEN to ELSE x.at + x.airtime
              IN  IF 0 >= hi - lo THEN 0 ELSE hi - lo
         /\ Overlap(x, from, to) \in Nat
         /\ x.at \in Int /\ x.airtime \in Nat
  <1>1. x.at \in Int /\ x.airtime \in Nat
    BY DEF Slots
  <1>2. PICK end \in Int : end = x.at + x.airtime
    BY <1>1
  <1>3. PICK lo \in Int : lo = IF from >= x.at THEN from ELSE x.at
    BY <1>1
  <1>4. PICK hi \in Int : hi = IF to <= end THEN to ELSE end
    OBVIOUS
  <1>5. Max({from, x.at}) = lo
    BY <1>1, <1>3, MaxOfTwo
  <1>6. Min({to, end}) = hi
    BY <1>4, MinOfTwo
  <1>7. Max({0, hi - lo}) = IF 0 >= hi - lo THEN 0 ELSE hi - lo
    <2>1. hi - lo \in Int /\ 0 \in Int
      OBVIOUS
    <2> QED BY <2>1, MaxOfTwo
  <1>8. Overlap(x, from, to) = IF 0 >= hi - lo THEN 0 ELSE hi - lo
    BY <1>2, <1>5, <1>6, <1>7 DEF Overlap
  <1> QED BY <1>1, <1>2, <1>3, <1>4, <1>8

(* What is on the air between two times is a number.                        *)
LEMMA AirTyped ==
  ASSUME NEW a \in Seq(Slots), NEW m \in Nat, Len(a) = m, NEW from \in Int, NEW to \in Int
  PROVE  /\ Overlaps(a, from, to) \in [1 .. m -> Nat] /\ Overlaps(a, from, to) \in [1 .. m -> Int]
         /\ \A i \in 1 .. m : /\ a[i] \in Slots /\ Overlap(a[i], from, to) \in Nat
                              /\ Overlaps(a, from, to)[i] = Overlap(a[i], from, to)
         /\ Air(a, from, to) \in Int
  <1>1. ASSUME NEW i \in 1 .. m PROVE a[i] \in Slots /\ Overlap(a[i], from, to) \in Nat
    <2>1. a[i] \in Slots
      OBVIOUS
    <2> QED BY <2>1, OverlapIs
  <1>2. Overlaps(a, from, to) = [i \in 1 .. m |-> Overlap(a[i], from, to)]
    BY DEF Overlaps
  <1>3. Overlaps(a, from, to) \in [1 .. m -> Nat] /\ Overlaps(a, from, to) \in [1 .. m -> Int]
    BY <1>1, <1>2
  <1>4. Air(a, from, to) \in Int
    BY <1>3, SumRuns DEF Air
  <1> QED BY <1>1, <1>2, <1>3, <1>4

(* The air between two times is that to a time between and from there. *)
LEMMA AirSplits ==
  ASSUME NEW a \in Seq(Slots), NEW from \in Int, NEW mid \in Int, NEW to \in Int,
         from <= mid, mid <= to
  PROVE  Air(a, from, to) = Air(a, from, mid) + Air(a, mid, to)
  <1>1. PICK m \in Nat : m = Len(a)
    OBVIOUS
  <1>2. /\ Overlaps(a, from, to) \in [1 .. m -> Int]
        /\ \A i \in 1 .. m : a[i] \in Slots /\ Overlaps(a, from, to)[i] = Overlap(a[i], from, to)
    BY <1>1, AirTyped
  <1>3. /\ Overlaps(a, from, mid) \in [1 .. m -> Int]
        /\ \A i \in 1 .. m : Overlaps(a, from, mid)[i] = Overlap(a[i], from, mid)
    BY <1>1, AirTyped
  <1>4. /\ Overlaps(a, mid, to) \in [1 .. m -> Int]
        /\ \A i \in 1 .. m : Overlaps(a, mid, to)[i] = Overlap(a[i], mid, to)
    BY <1>1, AirTyped
  <1>5. ASSUME NEW i \in 1 .. m
        PROVE  Overlaps(a, from, to)[i] = Overlaps(a, from, mid)[i] + Overlaps(a, mid, to)[i]
    <2>1. PICK x \in Slots : x = a[i]
      BY <1>2
    <2>2. Overlap(x, from, to) = Overlap(x, from, mid) + Overlap(x, mid, to)
      <3>1. x.at \in Int /\ x.airtime \in Nat
        BY DEF Slots
      <3>2. PICK b \in Int : b = x.at
        BY <3>1
      <3>3. PICK e \in Int : e = x.at + x.airtime /\ b <= e
        BY <3>1, <3>2
      <3>4. Overlap(x, from, to) =
              LET lo == IF from >= b THEN from ELSE b
                  hi == IF to <= e THEN to ELSE e
              IN  IF 0 >= hi - lo THEN 0 ELSE hi - lo
        BY <3>2, <3>3, OverlapIs
      <3>5. Overlap(x, from, mid) =
              LET lo == IF from >= b THEN from ELSE b
                  hi == IF mid <= e THEN mid ELSE e
              IN  IF 0 >= hi - lo THEN 0 ELSE hi - lo
        BY <3>2, <3>3, OverlapIs
      <3>6. Overlap(x, mid, to) =
              LET lo == IF mid >= b THEN mid ELSE b
                  hi == IF to <= e THEN to ELSE e
              IN  IF 0 >= hi - lo THEN 0 ELSE hi - lo
        BY <3>2, <3>3, OverlapIs
      <3>7. CASE e <= mid
        BY <3>3, <3>4, <3>5, <3>6, <3>7
      <3>8. CASE mid <= b
        BY <3>3, <3>4, <3>5, <3>6, <3>8
      <3>9. CASE b < mid /\ mid < e
        <4>1. Overlap(x, from, mid) = mid - (IF from >= b THEN from ELSE b)
          BY <3>3, <3>5, <3>9
        <4>2. Overlap(x, mid, to) = (IF to <= e THEN to ELSE e) - mid
          BY <3>3, <3>6, <3>9
        <4>3. Overlap(x, from, to) = (IF to <= e THEN to ELSE e) - (IF from >= b THEN from ELSE b)
          BY <3>3, <3>4, <3>9
        <4> QED BY <4>1, <4>2, <4>3
      <3> QED BY <3>3, <3>7, <3>8, <3>9
    <2> QED BY <1>2, <1>3, <1>4, <2>1, <2>2
  <1> QED BY <1>2, <1>3, <1>4, <1>5, SumPlus DEF Air

(* One antenna carries no more between two times than the time there is. *)
LEMMA AirFits ==
  ASSUME NEW a \in Seq(Slots), Disjoint(a), NEW from \in Int, NEW to \in Int, from <= to
  PROVE  Air(a, from, to) <= to - from
  <1>1. PICK m \in Nat : m = Len(a)
    OBVIOUS
  <1>2. PICK s : s = Overlaps(a, from, to)
    OBVIOUS
  <1>3. /\ s \in [1 .. m -> Int]
        /\ \A i \in 1 .. m : a[i] \in Slots /\ s[i] = Overlap(a[i], from, to)
    BY <1>1, <1>2, AirTyped
  <1>4. PICK g : Runs(g, s, m) /\ SumOf(s) = g[m]
    BY <1>3, SumRuns
  <1> DEFINE Over(n) == a[n].at + a[n].airtime
             Reach(n) == IF to <= Over(n) THEN to ELSE Over(n)
             S == {n \in 0 .. m : g[n] <= IF n = 0 \/ Reach(n) <= from THEN 0 ELSE Reach(n) - from}
  <1>5. 0 \in S
    BY <1>4 DEF Runs
  <1>6. ASSUME NEW n \in 0 .. m, n \in S, n < m PROVE n + 1 \in S
    <2>1. n \in Nat /\ n + 1 \in 1 .. m /\ n + 1 \in 0 .. m /\ n + 1 # 0 /\ (n + 1) - 1 = n
      BY <1>6
    <2>2. PICK x \in Slots : x = a[n + 1]
      BY <1>3, <2>1
    <2>3. PICK b \in Int : b = x.at
      BY DEF Slots
    <2>4. PICK e \in Int : e = x.at + x.airtime /\ b <= e
      BY <2>3 DEF Slots
    <2>5. PICK v \in Int : v = g[n]
      BY <1>4, <2>1 DEF Runs
    <2>6. PICK o \in Int : o = Overlap(x, from, to)
      BY OverlapIs
    <2>7. o = LET lo == IF from >= b THEN from ELSE b
                  hi == IF to <= e THEN to ELSE e
              IN  IF 0 >= hi - lo THEN 0 ELSE hi - lo
      BY <2>3, <2>4, <2>6, OverlapIs
    <2>8. g[n + 1] = v + o
      BY <1>3, <1>4, <2>1, <2>2, <2>5, <2>6 DEF Runs
    <2>9. Over(n + 1) = e
      BY <2>2, <2>4
    <2>10. v + o <= IF (IF to <= e THEN to ELSE e) <= from THEN 0 ELSE (IF to <= e THEN to ELSE e) - from
      <3>1. CASE n = 0
        <4>1. v <= 0
          BY <1>5, <2>5, <3>1
        <4> QED BY <2>4, <2>7, <4>1
      <3>2. CASE n # 0
        <4>1. n \in 1 .. m /\ n < n + 1
          BY <2>1, <3>2
        <4>2. a[n] \in Slots
          BY <1>3, <4>1
        <4>3. PICK f \in Int : f = Over(n)
          BY <4>2 DEF Slots
        <4>4. f <= b
          BY <1>1, <2>1, <2>2, <2>3, <4>1, <4>3 DEF Disjoint
        <4>5. v <= IF (IF to <= f THEN to ELSE f) <= from THEN 0 ELSE (IF to <= f THEN to ELSE f) - from
          BY <1>6, <2>5, <3>2, <4>3
        <4> QED BY <2>4, <2>7, <4>4, <4>5
      <3> QED BY <3>1, <3>2
    <2> QED BY <2>1, <2>8, <2>9, <2>10
  <1>7. \A n \in 0 .. m : n \in S
    <2> HIDE DEF S
    <2> QED BY <1>5, <1>6, Climb
  <1>8. m \in S /\ m \in 0 .. m
    <2>1. m \in 0 .. m
      OBVIOUS
    <2> QED BY <1>7, <2>1
  <1>9. PICK v \in Int : v = g[m]
    BY <1>4, <1>8 DEF Runs
  <1>10. v <= to - from
    <2>1. CASE m = 0
      BY <1>5, <1>9, <2>1
    <2>2. CASE m # 0
      <3>1. m \in 1 .. m
        BY <2>2
      <3>2. a[m] \in Slots
        BY <1>3, <3>1
      <3>3. PICK f \in Int : f = Over(m)
        BY <3>2 DEF Slots
      <3>4. v <= IF (IF to <= f THEN to ELSE f) <= from THEN 0 ELSE (IF to <= f THEN to ELSE f) - from
        BY <1>8, <1>9, <2>2, <3>3
      <3> QED BY <3>4
    <2> QED BY <2>1, <2>2
  <1> QED BY <1>2, <1>4, <1>9, <1>10 DEF Air

(* The air carries at least what one transmission puts there. *)
LEMMA AirAtLeast ==
  ASSUME NEW a \in Seq(Slots), NEW i \in 1 .. Len(a), NEW from \in Int, NEW to \in Int
  PROVE  Air(a, from, to) >= Overlap(a[i], from, to)
  <1>1. PICK m \in Nat : m = Len(a)
    OBVIOUS
  <1>2. Overlaps(a, from, to) \in [1 .. m -> Nat]
    BY <1>1, AirTyped
  <1>3. Overlaps(a, from, to)[i] = Overlap(a[i], from, to)
    BY <1>1, AirTyped
  <1> QED BY <1>1, <1>2, <1>3, SumAtLeast DEF Air

(* One transmission more. *)
LEMMA AirAppended ==
  ASSUME NEW a \in Seq(Slots), NEW x \in Slots, NEW from \in Int, NEW to \in Int
  PROVE  Air(Append(a, x), from, to) = Air(a, from, to) + Overlap(x, from, to)
  <1>1. PICK m \in Nat : m = Len(a)
    OBVIOUS
  <1>2. PICK e : e = Append(a, x)
    OBVIOUS
  <1>3. e \in Seq(Slots) /\ Len(e) = m + 1 /\ e[m + 1] = x /\ \A n \in 1 .. m : e[n] = a[n]
    BY <1>1, <1>2
  <1>4. m + 1 \in Nat /\ m + 1 \in 1 .. (m + 1) /\ \A n \in 1 .. m : n \in 1 .. (m + 1)
    OBVIOUS
  <1>5. /\ Overlaps(a, from, to) \in [1 .. m -> Int]
        /\ \A i \in 1 .. m : Overlaps(a, from, to)[i] = Overlap(a[i], from, to)
    BY <1>1, AirTyped
  <1>6. /\ Overlaps(e, from, to) \in [1 .. (m + 1) -> Int]
        /\ \A i \in 1 .. (m + 1) : Overlaps(e, from, to)[i] = Overlap(e[i], from, to)
    BY <1>3, <1>4, AirTyped
  <1>7. \A n \in 1 .. m : Overlaps(e, from, to)[n] = Overlaps(a, from, to)[n]
    BY <1>3, <1>4, <1>5, <1>6
  <1>8. SumOf(Overlaps(e, from, to)) = SumOf(Overlaps(a, from, to)) + Overlaps(e, from, to)[m + 1]
    BY <1>5, <1>6, <1>7, SumOneMore
  <1> QED BY <1>2, <1>3, <1>4, <1>6, <1>8 DEF Air

-----------------------------------------------------------------------------
(* The airtime budget *)

(* If the ring's window holds the budget with what is sent now, and every  *)
(* window did before, every window does.  A window that nothing older than *)
(* the ring's reaches into carries no more than is counted; one that begins *)
(* inside such a transmission carries no more than the window from that     *)
(* transmission's start, which ended before now.                            *)
LEMMA WindowsKept ==
  ASSUME NEW a \in Seq(Slots), Disjoint(a), NEW now \in Int,
         \A i \in 1 .. Len(a) : a[i].at + a[i].airtime <= now,
         NEW n \in Nat, NEW B \in Int, Used(a, now) + n <= B,
         \A from \in Int : Air(a, from, from + DUTY_WINDOW) <= B,
         Disjoint(Append(a, [at |-> now, airtime |-> n])),
         NEW from \in Int
  PROVE  Air(Append(a, [at |-> now, airtime |-> n]), from, from + DUTY_WINDOW) <= B
  <1>0. PICK w \in Nat : w = DUTY_WINDOW
    BY LoraAssumption
  <1>1. PICK m \in Nat : m = Len(a)
    OBVIOUS
  <1>2. PICK x \in Slots : x = [at |-> now, airtime |-> n]
    BY DEF Slots
  <1>3. PICK to \in Int : to = from + w
    OBVIOUS
  <1>4. PICK e : e = Append(a, x)
    OBVIOUS
  <1>5. e \in Seq(Slots) /\ Disjoint(e)
    BY <1>2, <1>4
  <1>6. ASSUME NEW f \in Int, NEW t \in Int
        PROVE  /\ Air(e, f, t) = Air(a, f, t) + Overlap(x, f, t)
               /\ Air(e, f, t) \in Int /\ Air(a, f, t) \in Int /\ Overlap(x, f, t) \in Nat
               /\ Overlap(x, f, t) <= n /\ (t <= now => Overlap(x, f, t) = 0)
    <2>1. Air(e, f, t) = Air(a, f, t) + Overlap(x, f, t)
      BY <1>4, AirAppended
    <2>2. Air(a, f, t) \in Int
      BY AirTyped
    <2>3. Air(e, f, t) \in Int
      BY <1>5, AirTyped
    <2>4. Overlap(x, f, t) =
            LET lo == IF f >= now THEN f ELSE now
                hi == IF t <= now + n THEN t ELSE now + n
            IN  IF 0 >= hi - lo THEN 0 ELSE hi - lo
      BY <1>2, OverlapIs
    <2>5. Overlap(x, f, t) \in Nat
      BY OverlapIs
    <2>6. Overlap(x, f, t) <= n /\ (t <= now => Overlap(x, f, t) = 0)
      BY <2>4
    <2> QED BY <2>1, <2>2, <2>3, <2>5, <2>6
  <1>7. CASE to <= now
    <2>1. Air(e, from, to) = Air(a, from, to)
      BY <1>6, <1>7
    <2>2. Air(a, from, to) <= B
      BY <1>0, <1>3
    <2> QED BY <1>0, <1>2, <1>3, <1>4, <2>1, <2>2
  <1>8. CASE to > now /\ \A i \in 1 .. m : a[i].at + a[i].airtime > from => now - a[i].at < w
    <2>1. ASSUME NEW i \in 1 .. m PROVE Overlaps(a, from, to)[i] <= Shares(a, now)[i]
      <3>1. PICK y \in Slots : y = a[i]
        BY <1>1
      <3>2. PICK b \in Int : b = y.at
        BY DEF Slots
      <3>3. PICK l \in Nat : l = y.airtime
        BY DEF Slots
      <3>4. Overlap(y, from, to) =
              LET lo == IF from >= b THEN from ELSE b
                  hi == IF to <= b + l THEN to ELSE b + l
              IN  IF 0 >= hi - lo THEN 0 ELSE hi - lo
        BY <3>2, <3>3, OverlapIs
      <3>5. Share(y, now) = IF now - b < w THEN l ELSE 0
        BY <1>0, <3>2, <3>3 DEF Share
      <3>6. b + l > from => now - b < w
        BY <1>8, <3>1, <3>2, <3>3
      <3>7. Overlap(y, from, to) <= l
        BY <3>4
      <3>8. b + l <= from => Overlap(y, from, to) = 0
        BY <3>4
      <3>9. Overlap(y, from, to) <= Share(y, now)
        <4>1. CASE b + l > from
          BY <3>5, <3>6, <3>7, <4>1
        <4>2. CASE b + l <= from
          BY <3>5, <3>8, <4>2
        <4> QED BY <4>1, <4>2
      <3>10. Overlaps(a, from, to)[i] = Overlap(y, from, to)
        BY <1>1, <3>1, AirTyped
      <3>11. Shares(a, now)[i] = Share(y, now)
        <4>1. \A j \in 1 .. m : Shares(a, now)[j] = Share(a[j], now)
          BY <1>1, SharesOf
        <4> QED BY <3>1, <4>1
      <3> QED BY <3>9, <3>10, <3>11
    <2>2. Overlaps(a, from, to) \in [1 .. m -> Int]
      BY <1>1, AirTyped
    <2>3. Shares(a, now) \in [1 .. m -> Int] /\ Used(a, now) = SumOf(Shares(a, now))
          /\ Used(a, now) \in Int
      BY <1>1, SharesOf
    <2>4. Air(a, from, to) <= Used(a, now)
      BY <2>1, <2>2, <2>3, SumsCompare DEF Air
    <2>5. /\ Air(e, from, to) = Air(a, from, to) + Overlap(x, from, to)
          /\ Air(a, from, to) \in Int /\ Overlap(x, from, to) \in Nat /\ Overlap(x, from, to) <= n
      BY <1>6
    <2>6. Air(e, from, to) <= B
      BY <2>3, <2>4, <2>5
    <2> QED BY <1>0, <1>2, <1>3, <1>4, <2>6
  <1>9. CASE to > now /\ \E i \in 1 .. m : a[i].at + a[i].airtime > from /\ ~(now - a[i].at < w)
    <2>1. PICK i \in 1 .. m : a[i].at + a[i].airtime > from /\ ~(now - a[i].at < w)
      BY <1>9
    <2>2. PICK y \in Slots : y = a[i]
      BY <1>1
    <2>3. PICK b \in Int : b = y.at
      BY DEF Slots
    <2>4. PICK l \in Nat : l = y.airtime
      BY DEF Slots
    <2>5. b + l > from /\ b + w <= now /\ b < from /\ b + w <= to /\ from - b \in Nat
      <3>1. b + l > from /\ ~(now - b < w)
        BY <2>1, <2>2, <2>3, <2>4
      <3>2. to = from + w /\ to > now
        BY <1>3, <1>9
      <3> QED BY <3>1, <3>2
    <2>6. PICK until \in Int : until = b + w
      OBVIOUS
    <2>7. Overlap(y, b, from) = from - b
      <3>1. Overlap(y, b, from) =
              LET lo == IF b >= b THEN b ELSE b
                  hi == IF from <= b + l THEN from ELSE b + l
              IN  IF 0 >= hi - lo THEN 0 ELSE hi - lo
        BY <2>3, <2>4, OverlapIs
      <3> QED BY <2>5, <3>1
    <2>8. i \in 1 .. Len(e) /\ e[i] = y
      BY <1>1, <1>2, <1>4, <2>2
    <2>9. Air(e, b, from) >= from - b
      BY <1>5, <2>7, <2>8, AirAtLeast
    <2>10. Air(e, b, to) = Air(e, b, from) + Air(e, from, to)
      BY <1>0, <1>3, <1>5, <2>5, AirSplits
    <2>11. Air(e, b, to) = Air(e, b, until) + Air(e, until, to)
      BY <1>0, <1>5, <2>5, <2>6, AirSplits
    <2>12. Air(e, until, to) <= to - until
      BY <1>5, <2>5, <2>6, AirFits
    <2>13. Air(e, b, until) = Air(a, b, until)
      BY <1>6, <2>5, <2>6
    <2>14. Air(a, b, until) <= B
      BY <1>0, <2>6
    <2>15. /\ Air(e, b, from) \in Int /\ Air(e, from, to) \in Int
           /\ Air(e, b, until) \in Int /\ Air(e, until, to) \in Int
      BY <1>6
    <2>16. to - until = from - b
      BY <1>3, <2>6
    <2>17. Air(e, from, to) <= B
      BY <2>9, <2>10, <2>11, <2>12, <2>13, <2>14, <2>15, <2>16
    <2> QED BY <1>0, <1>2, <1>3, <1>4, <2>17
  <1> QED BY <1>7, <1>8, <1>9

(* The air's own invariant: transmissions end before the next begins, and  *)
(* every window of time, wherever it begins, is within the budget.         *)
AirKept ==
  /\ Disjoint(aired)
  /\ \A i \in 1 .. Len(aired) : aired[i].at + aired[i].airtime <= time
  /\ region.permille # 0 => \A from \in Int : Air(aired, from, from + DUTY_WINDOW) <= Budget

LoraInv == LoraTyped /\ RingCounts /\ AirKept

(* Initially nothing is on the air. *)
LEMMA AirBegins ==
  ASSUME LoraInit
  PROVE  LoraInv
  <1>1. LoraTyped /\ RingCounts
    BY LoraBegins
  <1>2. aired = <<>> /\ Len(<<>>) = 0 /\ <<>> \in Seq(Slots)
    <2>1. Len(<<>>) = 0
      BY Zenon
    <2> QED BY <2>1, <1>1 DEF LoraInit, LoraTyped
  <1>3. ASSUME NEW from \in Int PROVE Air(aired, from, from + DUTY_WINDOW) <= Budget
    <2>1. from + DUTY_WINDOW \in Int /\ 0 \in Nat
      BY LoraAssumption
    <2>2. Overlaps(aired, from, from + DUTY_WINDOW) \in [1 .. 0 -> Int]
      BY <1>2, <2>1, AirTyped
    <2>3. \A i \in 1 .. 0 : Overlaps(aired, from, from + DUTY_WINDOW)[i] = 0
      OBVIOUS
    <2>4. Air(aired, from, from + DUTY_WINDOW) = 0
      BY <2>1, <2>2, <2>3, SumNone DEF Air
    <2>5. Budget \in Nat
      <3>1. region.permille \in Nat /\ DUTY_WINDOW \in Nat
        BY <1>1, LoraAssumption DEF LoraTyped
      <3>2. PICK q \in Nat : q = DUTY_WINDOW \div 1000
        BY <3>1
      <3>3. q * region.permille \in Nat
        BY <3>1, Products
      <3> QED BY <3>2, <3>3 DEF Budget
    <2> QED BY <2>4, <2>5
  <1>4. Disjoint(aired) /\ \A i \in 1 .. Len(aired) : aired[i].at + aired[i].airtime <= time
    BY <1>2 DEF Disjoint
  <1> QED BY <1>1, <1>3, <1>4 DEF LoraInv, AirKept

(* A transmission begun when the last has ended is disjoint from all. *)
LEMMA DisjointAppended ==
  ASSUME NEW a \in Seq(Slots), Disjoint(a), NEW x \in Slots, NEW before \in Int, before <= x.at,
         \A i \in 1 .. Len(a) : a[i].at + a[i].airtime <= before
  PROVE  /\ Disjoint(Append(a, x))
         /\ \A i \in 1 .. Len(Append(a, x)) : Append(a, x)[i].at + Append(a, x)[i].airtime
                                                <= x.at + x.airtime
  <1>1. PICK m \in Nat : m = Len(a)
    OBVIOUS
  <1>2. PICK e : e = Append(a, x)
    OBVIOUS
  <1>3. e \in Seq(Slots) /\ Len(e) = m + 1 /\ e[m + 1] = x /\ \A n \in 1 .. m : e[n] = a[n]
    BY <1>1, <1>2
  <1>4. x.at \in Int /\ x.airtime \in Nat
    BY DEF Slots
  <1>5. ASSUME NEW n \in 1 .. m PROVE e[n].at + e[n].airtime <= x.at /\ e[n].at + e[n].airtime \in Int
    <2>1. a[n] \in Slots /\ e[n] = a[n] /\ n \in 1 .. Len(a)
      BY <1>1, <1>3
    <2>2. a[n].at \in Int /\ a[n].airtime \in Int
      BY <2>1 DEF Slots
    <2>3. a[n].at + a[n].airtime <= before
      BY <2>1
    <2> QED BY <1>4, <2>1, <2>2, <2>3
  <1>6. ASSUME NEW n \in 1 .. (m + 1) PROVE e[n].at + e[n].airtime <= x.at + x.airtime
    <2>1. CASE n = m + 1
      BY <1>3, <1>4, <2>1
    <2>2. CASE n # m + 1
      <3>1. n \in 1 .. m
        BY <2>2
      <3> QED BY <1>4, <1>5, <3>1
    <2> QED BY <2>1, <2>2
  <1>7. Disjoint(e)
    <2> SUFFICES ASSUME NEW i \in 1 .. (m + 1), NEW j \in 1 .. (m + 1), i < j
                 PROVE  e[i].at + e[i].airtime <= e[j].at
      BY <1>3 DEF Disjoint
    <2>1. i \in 1 .. m
      OBVIOUS
    <2>2. CASE j = m + 1
      BY <1>3, <1>5, <2>1, <2>2
    <2>3. CASE j # m + 1
      <3>1. j \in 1 .. m
        BY <2>3
      <3> QED BY <1>1, <1>3, <2>1, <3>1 DEF Disjoint
    <2> QED BY <2>2, <2>3
  <1> QED BY <1>2, <1>3, <1>6, <1>7

(* Every step keeps the invariant. *)
LEMMA LoraKeeps ==
  ASSUME LoraInv, [LoraNext]_loraVars
  PROVE  LoraInv'
  <1>1. CASE UNCHANGED loraVars
    <2>1. /\ region' = region /\ params' = params /\ duty' = duty
          /\ aired' = aired /\ time' = time
      BY <1>1 DEF loraVars
    <2>2. LoraTyped'
      BY <2>1 DEF LoraInv, LoraTyped
    <2>3. RingCounts'
      BY <2>1 DEF LoraInv, RingCounts, RingAt, InTime, Used
    <2>4. Budget' = Budget
      BY <2>1 DEF Budget
    <2>5. AirKept'
      BY <2>1, <2>4 DEF LoraInv, AirKept, Disjoint, Air, Overlaps, Overlap
    <2> QED BY <2>2, <2>3, <2>5 DEF LoraInv
  <1>2. CASE Send
    <2>1. PICK now \in Nat, n \in Nat :
            /\ now >= time
            /\ duty' = TrySend(duty, now, n).duty
            /\ region' = region /\ params' = params
            /\ \/ /\ TrySend(duty, now, n).result = "Ok"
                  /\ aired' = Append(aired, [at |-> now, airtime |-> n])
                  /\ time' = now + n
               \/ /\ TrySend(duty, now, n).result # "Ok"
                  /\ aired' = aired /\ time' = now
      BY <1>2, SendIs DEF LoraInv
    <2>2. time \in Int /\ now \in Int /\ time <= now /\ aired \in Seq(Slots) /\ duty \in Seq(Slots)
      BY <2>1 DEF LoraInv, LoraTyped
    <2>3. PICK c : c = TrySend(duty, now, n)
      OBVIOUS
    <2>4. PICK e :
            /\ RingAt(e, now)
            /\ \A t \in Int : t >= now => Used(e, t) >= Used(aired, t)
            /\ \/ c.result # "Ok" /\ c.duty = e
               \/ /\ c.result = "Ok" /\ c.duty = Recorded(e, now, n)
                  /\ region.permille # 0 => Used(e, now) + n <= Budget
      BY <2>2, <2>3, TrySendIs DEF LoraInv
    <2>5. Budget' = Budget
      BY <2>1 DEF Budget
    <2>6. ASSUME NEW i \in 1 .. Len(aired) PROVE aired[i].at + aired[i].airtime <= now
      <3>1. aired[i] \in Slots
        BY <2>2
      <3>2. aired[i].at \in Int /\ aired[i].airtime \in Int
        BY <3>1 DEF Slots
      <3>3. aired[i].at + aired[i].airtime <= time
        BY DEF LoraInv, AirKept
      <3> QED BY <2>2, <3>2, <3>3
    <2>7. CASE c.result # "Ok"
      <3>1. duty' = e /\ aired' = aired /\ time' = now
        BY <2>1, <2>3, <2>4, <2>7
      <3>2. LoraTyped'
        BY <2>1, <2>4, <3>1 DEF LoraInv, LoraTyped, RingAt
      <3>3. RingCounts'
        BY <2>4, <3>1 DEF RingCounts, RingAt, InTime, Used
      <3>4. AirKept'
        BY <2>1, <2>5, <2>6, <3>1 DEF LoraInv, AirKept, Disjoint, Air, Overlaps, Overlap
      <3> QED BY <3>2, <3>3, <3>4 DEF LoraInv
    <2>8. CASE c.result = "Ok"
      <3>0. PICK x \in Slots : x = [at |-> now, airtime |-> n]
        BY <2>2 DEF Slots
      <3>1. duty' = Recorded(e, now, n) /\ aired' = Append(aired, x) /\ time' = now + n
        BY <2>1, <2>3, <2>4, <2>8, <3>0
      <3>2. /\ RingAt(Recorded(e, now, n), now)
            /\ \A t \in Int : Used(Recorded(e, now, n), t) >= Used(e, t) + Share(x, t)
        BY <2>2, <2>4, <3>0, RecordedKeeps
      <3>3. x.at = now /\ x.airtime = n
        BY <3>0
      <3>4. LoraTyped'
        <4>1. Append(aired, x) \in Seq(Slots)
          BY <2>2
        <4>2. now + n \in Nat
          OBVIOUS
        <4> QED BY <2>1, <3>1, <3>2, <4>1, <4>2 DEF LoraInv, LoraTyped, RingAt
      <3>5. RingCounts'
        <4>1. PICK d : d = Recorded(e, now, n)
          OBVIOUS
        <4>2. RingAt(d, now + n)
          <5>1. d \in Seq(Slots) /\ \A i \in 1 .. Len(d) : d[i].at <= now /\ d[i] \in Slots
            BY <3>2, <4>1 DEF RingAt
          <5>2. ASSUME NEW i \in 1 .. Len(d) PROVE d[i].at <= now + n
            <6>1. d[i].at \in Int /\ d[i].at <= now
              BY <5>1 DEF Slots
            <6> QED BY <2>2, <6>1
          <5> QED BY <3>2, <4>1, <5>1, <5>2 DEF RingAt
        <4>3. ASSUME NEW t \in Int, t >= now + n PROVE Used(d, t) >= Used(Append(aired, x), t)
          <5>1. t >= now
            BY <2>2, <4>3
          <5>2. Used(e, t) >= Used(aired, t)
            BY <2>4, <5>1
          <5>3. Used(d, t) >= Used(e, t) + Share(x, t)
            BY <3>2, <4>1
          <5>4. Used(Append(aired, x), t) = Used(aired, t) + Share(x, t)
            BY <2>2, UsedAppended
          <5>5. Used(d, t) \in Int /\ Used(e, t) \in Int /\ Used(aired, t) \in Int
            BY <2>2, <2>4, <4>2, SharesTyped DEF RingAt
          <5>6. Share(x, t) \in Int
            BY DEF Share, Slots
          <5> QED BY <5>2, <5>3, <5>4, <5>5, <5>6
        <4> QED BY <3>1, <4>1, <4>2, <4>3 DEF RingCounts, RingAt, InTime, Used
      <3>6. AirKept'
        <4>1. /\ Disjoint(Append(aired, x))
              /\ \A i \in 1 .. Len(Append(aired, x)) :
                   Append(aired, x)[i].at + Append(aired, x)[i].airtime <= now + n
          BY <2>2, <2>6, <3>3, DisjointAppended DEF LoraInv, AirKept
        <4>2. ASSUME region.permille # 0, NEW from \in Int
              PROVE  Air(Append(aired, x), from, from + DUTY_WINDOW) <= Budget
          <5>1. Used(e, now) + n <= Budget
            BY <2>4, <2>8, <4>2
          <5>2. Used(e, now) >= Used(aired, now)
            BY <2>2, <2>4
          <5>3. Used(e, now) \in Int /\ Used(aired, now) \in Int
            BY <2>2, <2>4, SharesTyped DEF RingAt
          <5>4. Budget \in Int
            <6>1. region.permille \in Nat /\ DUTY_WINDOW \in Nat
              BY LoraAssumption DEF LoraInv, LoraTyped
            <6> QED BY <6>1 DEF Budget
          <5>5. Used(aired, now) + n <= Budget
            BY <5>1, <5>2, <5>3, <5>4
          <5>6. Disjoint(aired) /\ \A f \in Int : Air(aired, f, f + DUTY_WINDOW) <= Budget
            BY <4>2 DEF LoraInv, AirKept
          <5> QED BY <2>2, <2>6, <3>0, <4>1, <5>4, <5>5, <5>6, WindowsKept
        <4> QED BY <2>1, <2>5, <3>1, <4>1, <4>2 DEF AirKept, Disjoint, Air, Overlaps, Overlap
      <3> QED BY <3>4, <3>5, <3>6 DEF LoraInv
    <2> QED BY <2>7, <2>8
  <1> QED BY <1>1, <1>2 DEF LoraNext

(* Airtime's own exactness. *)
LEMMA ExactAirtimes ==
  ASSUME LoraTyped
  PROVE  AirtimeExact
  <1>1. ASSUME NEW sf \in 7..12, NEW bw \in {1, 2, 4}
        PROVE  LET p == [params EXCEPT !.sf = sf, !.bw = bw, !.ldro = "Auto"]
               IN  /\ Symbol(p) * bw * 8 = 2^sf
                   /\ 4 * Preamble(p) = (4 * p.preamble + 17) * Symbol(p)
                   /\ LdroEnabled(p) <=> <<sf, bw>> \in {<<11, 1>>, <<12, 1>>, <<12, 2>>}
                   /\ \A len \in Payloads : Airtime(p, len) <= Airtime(p, len + 1)
    <2>0. PICK p : p = [params EXCEPT !.sf = sf, !.bw = bw, !.ldro = "Auto"]
      OBVIOUS
    <2>1. p \in ModemType /\ p.sf = sf /\ p.bw = bw /\ p.ldro = "Auto"
      BY <2>0 DEF LoraTyped, ModemType
    <2>2. /\ Symbol(p) * bw * 8 = 2^sf
          /\ Symbol(p) >= LDRO_THRESHOLD <=> <<sf, bw>> \in {<<11, 1>>, <<12, 1>>, <<12, 2>>}
      BY <2>1, SymbolTimes
    <2>3. LdroEnabled(p) <=> Symbol(p) >= LDRO_THRESHOLD
      BY <2>1 DEF LdroEnabled
    <2>4. 4 * Preamble(p) = (4 * p.preamble + 17) * Symbol(p)
      BY <2>1, PreambleExact
    <2>5. ASSUME NEW len \in Payloads PROVE Airtime(p, len) <= Airtime(p, len + 1)
      BY <2>1, AirtimeGrows, LoraAssumption
    <2> QED BY <2>0, <2>2, <2>3, <2>4, <2>5
  <1> QED BY <1>1 DEF AirtimeExact

(* What the invariant says of the properties. *)
LEMMA LoraProperties ==
  ASSUME LoraInv
  PROVE  AirtimeExact /\ RingOverCounts /\ DutyCycleKept
  <1>1. AirtimeExact
    BY ExactAirtimes DEF LoraInv
  <1>2. RingOverCounts
    <2>1. time \in Int /\ time >= time
      BY DEF LoraInv, LoraTyped
    <2>2. Used(duty, time) >= Used(aired, time)
      BY <2>1 DEF LoraInv, RingCounts
    <2> QED BY <2>2 DEF RingOverCounts, Used
  <1>3. DutyCycleKept
    <2> SUFFICES ASSUME region.permille # 0,
                        NEW from \in {aired[i].at : i \in 1..Len(aired)}
                          \cup {aired[i].at + aired[i].airtime - DUTY_WINDOW : i \in 1..Len(aired)}
                 PROVE  OnAir(from, from + DUTY_WINDOW) <= Budget
      BY DEF DutyCycleKept
    <2>1. from \in Int
      <3>1. \A i \in 1 .. Len(aired) : aired[i] \in Slots
        BY DEF LoraInv, LoraTyped
      <3> QED BY <3>1, LoraAssumption DEF Slots
    <2>2. Air(aired, from, from + DUTY_WINDOW) <= Budget
      BY <2>1 DEF LoraInv, AirKept
    <2> QED BY <2>2 DEF OnAir, Air, Overlaps, Overlap
  <1> QED BY <1>1, <1>2, <1>3

(* Time on air is exact, the ring's over-count holds, and no window of     *)
(* time, wherever it begins, carries more than the region's duty cycle.    *)
THEOREM AirtimesBudgeted == LoraSpec => [](AirtimeBudgeted /\ AirtimeExact)
  <1>1. LoraInit => LoraInv
    BY AirBegins
  <1>2. LoraInv /\ [LoraNext]_loraVars => LoraInv'
    BY LoraKeeps
  <1>3. LoraInv => AirtimeBudgeted /\ AirtimeExact
    BY LoraProperties DEF AirtimeBudgeted
  <1> QED BY <1>1, <1>2, <1>3, PTL DEF LoraSpec

-----------------------------------------------------------------------------
(* The whole-number root *)

(* The powers a digit's weight may be, and their squares. *)
LEMMA Powers ==
  ASSUME NEW n \in 0 .. 15, NEW m, m = n + 1
  PROVE  2^n \in Nat /\ 2^m = 2 * 2^n /\ 4^n = 2^n * 2^n
  <1>0. CASE n = 0
    <2>1. 2^0 = 1 /\ 2^1 = 2 /\ 4^0 = 1
      BY SMT
    <2>2. m = 1
      BY <1>0, SMT
    <2>3. 2^n = 1 /\ 2^m = 2 /\ 4^n = 1
      BY <1>0, <2>1, <2>2, SMT
    <2> QED BY <2>3, SMT
  <1>1. CASE n = 1
    <2>1. 2^1 = 2 /\ 2^2 = 4 /\ 4^1 = 4
      BY SMT
    <2>2. m = 2
      BY <1>1, SMT
    <2>3. 2^n = 2 /\ 2^m = 4 /\ 4^n = 4
      BY <1>1, <2>1, <2>2, SMT
    <2> QED BY <2>3, SMT
  <1>2. CASE n = 2
    <2>1. 2^2 = 4 /\ 2^3 = 8 /\ 4^2 = 16
      BY SMT
    <2>2. m = 3
      BY <1>2, SMT
    <2>3. 2^n = 4 /\ 2^m = 8 /\ 4^n = 16
      BY <1>2, <2>1, <2>2, SMT
    <2> QED BY <2>3, SMT
  <1>3. CASE n = 3
    <2>1. 2^3 = 8 /\ 2^4 = 16 /\ 4^3 = 64
      BY SMT
    <2>2. m = 4
      BY <1>3, SMT
    <2>3. 2^n = 8 /\ 2^m = 16 /\ 4^n = 64
      BY <1>3, <2>1, <2>2, SMT
    <2> QED BY <2>3, SMT
  <1>4. CASE n = 4
    <2>1. 2^4 = 16 /\ 2^5 = 32 /\ 4^4 = 256
      BY SMT
    <2>2. m = 5
      BY <1>4, SMT
    <2>3. 2^n = 16 /\ 2^m = 32 /\ 4^n = 256
      BY <1>4, <2>1, <2>2, SMT
    <2> QED BY <2>3, SMT
  <1>5. CASE n = 5
    <2>1. 2^5 = 32 /\ 2^6 = 64 /\ 4^5 = 1024
      BY SMT
    <2>2. m = 6
      BY <1>5, SMT
    <2>3. 2^n = 32 /\ 2^m = 64 /\ 4^n = 1024
      BY <1>5, <2>1, <2>2, SMT
    <2> QED BY <2>3, SMT
  <1>6. CASE n = 6
    <2>1. 2^6 = 64 /\ 2^7 = 128 /\ 4^6 = 4096
      BY SMT
    <2>2. m = 7
      BY <1>6, SMT
    <2>3. 2^n = 64 /\ 2^m = 128 /\ 4^n = 4096
      BY <1>6, <2>1, <2>2, SMT
    <2> QED BY <2>3, SMT
  <1>7. CASE n = 7
    <2>1. 2^7 = 128 /\ 2^8 = 256 /\ 4^7 = 16384
      BY SMT
    <2>2. m = 8
      BY <1>7, SMT
    <2>3. 2^n = 128 /\ 2^m = 256 /\ 4^n = 16384
      BY <1>7, <2>1, <2>2, SMT
    <2> QED BY <2>3, SMT
  <1>8. CASE n = 8
    <2>1. 2^8 = 256 /\ 2^9 = 512 /\ 4^8 = 65536
      BY SMT
    <2>2. m = 9
      BY <1>8, SMT
    <2>3. 2^n = 256 /\ 2^m = 512 /\ 4^n = 65536
      BY <1>8, <2>1, <2>2, SMT
    <2> QED BY <2>3, SMT
  <1>9. CASE n = 9
    <2>1. 2^9 = 512 /\ 2^10 = 1024 /\ 4^9 = 262144
      BY SMT
    <2>2. m = 10
      BY <1>9, SMT
    <2>3. 2^n = 512 /\ 2^m = 1024 /\ 4^n = 262144
      BY <1>9, <2>1, <2>2, SMT
    <2> QED BY <2>3, SMT
  <1>10. CASE n = 10
    <2>1. 2^10 = 1024 /\ 2^11 = 2048 /\ 4^10 = 1048576
      BY SMT
    <2>2. m = 11
      BY <1>10, SMT
    <2>3. 2^n = 1024 /\ 2^m = 2048 /\ 4^n = 1048576
      BY <1>10, <2>1, <2>2, SMT
    <2> QED BY <2>3, SMT
  <1>11. CASE n = 11
    <2>1. 2^11 = 2048 /\ 2^12 = 4096 /\ 4^11 = 4194304
      BY SMT
    <2>2. m = 12
      BY <1>11, SMT
    <2>3. 2^n = 2048 /\ 2^m = 4096 /\ 4^n = 4194304
      BY <1>11, <2>1, <2>2, SMT
    <2> QED BY <2>3, SMT
  <1>12. CASE n = 12
    <2>1. 2^12 = 4096 /\ 2^13 = 8192 /\ 4^12 = 16777216
      BY SMT
    <2>2. m = 13
      BY <1>12, SMT
    <2>3. 2^n = 4096 /\ 2^m = 8192 /\ 4^n = 16777216
      BY <1>12, <2>1, <2>2, SMT
    <2> QED BY <2>3, SMT
  <1>13. CASE n = 13
    <2>1. 2^13 = 8192 /\ 2^14 = 16384 /\ 4^13 = 67108864
      BY SMT
    <2>2. m = 14
      BY <1>13, SMT
    <2>3. 2^n = 8192 /\ 2^m = 16384 /\ 4^n = 67108864
      BY <1>13, <2>1, <2>2, SMT
    <2> QED BY <2>3, SMT
  <1>14. CASE n = 14
    <2>1. 2^14 = 16384 /\ 2^15 = 32768 /\ 4^14 = 268435456
      BY SMT
    <2>2. m = 15
      BY <1>14, SMT
    <2>3. 2^n = 16384 /\ 2^m = 32768 /\ 4^n = 268435456
      BY <1>14, <2>1, <2>2, SMT
    <2> QED BY <2>3, SMT
  <1>15. CASE n = 15
    <2>1. 2^15 = 32768 /\ 2^16 = 65536 /\ 4^15 = 1073741824
      BY SMT
    <2>2. m = 16
      BY <1>15, SMT
    <2>3. 2^n = 32768 /\ 2^m = 65536 /\ 4^n = 1073741824
      BY <1>15, <2>1, <2>2, SMT
    <2> QED BY <2>3, SMT
  <1> QED BY <1>0, <1>1, <1>2, <1>3, <1>4, <1>5, <1>6, <1>7, <1>8, <1>9, <1>10, <1>11, <1>12, <1>13, <1>14, <1>15, SMT

(* The digits' weights: what step k may add to the root, and its square.   *)
LEMMA Weights ==
  ASSUME NEW k \in 1 .. 16
  PROVE  /\ 2^(16 - k) \in Nat /\ 2^(16 - (k - 1)) = 2 * 2^(16 - k)
         /\ 4^(16 - k) = 2^(16 - k) * 2^(16 - k)
  <1>1. PICK n \in 0 .. 15 : n = 16 - k
    OBVIOUS
  <1>2. PICK m : m = 16 - (k - 1)
    OBVIOUS
  <1>3. m = n + 1
    BY <1>1, <1>2
  <1>4. 2^n \in Nat /\ 2^m = 2 * 2^n /\ 4^n = 2^n * 2^n
    BY <1>3, Powers
  <1> QED BY <1>1, <1>2, <1>4, Zenon

(* One digit: x is the root so far, b the next digit's weight. *)
LEMMA RootStep ==
  ASSUME NEW v \in Nat, NEW x \in Nat, NEW b \in Nat, x * x <= v,
         v < (x + 2 * b) * (x + 2 * b)
  PROVE  /\ v - x * x >= x * (2 * b) + b * b <=> (x + b) * (x + b) <= v
         /\ (x * (2 * b)) \div 2 = x * b
         /\ (x + b) * b = x * b + b * b
         /\ v - x * x - x * (2 * b) - b * b = v - (x + b) * (x + b)
         /\ v < ((x + b) + b) * ((x + b) + b)
  <1>1. PICK p \in Nat : p = x * b
    OBVIOUS
  <1>2. PICK q \in Nat : q = b * b
    OBVIOUS
  <1>3. PICK s \in Nat : s = x * x
    OBVIOUS
  <1>4. x * (2 * b) = 2 * p
    BY <1>1
  <1>5. (x + b) * (x + b) = s + 2 * p + q
    BY <1>1, <1>2, <1>3
  <1>6. (x + 2 * b) * (x + 2 * b) = ((x + b) + b) * ((x + b) + b)
    <2>1. x + 2 * b = (x + b) + b
      OBVIOUS
    <2> QED BY <2>1
  <1>7. (x + b) * b = p + q
    BY <1>1, <1>2
  <1>8. (2 * p) \div 2 = p
    OBVIOUS
  <1> QED BY <1>1, <1>2, <1>3, <1>4, <1>5, <1>6, <1>7, <1>8

Pairs == [rem : Nat, root : Nat]

(* One turn of isqrt64's loop. *)
Digit(k, at) ==
  IF at.rem >= at.root + 4^(16 - k)
  THEN [rem |-> at.rem - at.root - 4^(16 - k), root |-> (at.root \div 2) + 4^(16 - k)]
  ELSE [at EXCEPT !.root = @ \div 2]

(* A digit leaves what is left and a root. *)
LEMMA DigitTyped ==
  ASSUME NEW k \in 1 .. 16, NEW at \in Pairs
  PROVE  Digit(k, at) \in Pairs
  <1>1. PICK b \in Nat : b = 4^(16 - k)
    <2>1. PICK c \in Nat : c = 2^(16 - k)
      BY Weights
    <2>2. 4^(16 - k) = c * c
      BY <2>1, Weights
    <2> QED BY <2>2
  <1>2. PICK m \in Nat : m = at.rem
    BY DEF Pairs
  <1>3. PICK r \in Nat : r = at.root
    BY DEF Pairs
  <1>4. r \div 2 \in Nat
    OBVIOUS
  <1>5. at = [rem |-> m, root |-> r]
    BY <1>2, <1>3 DEF Pairs
  <1>6. CASE m >= r + b
    BY <1>1, <1>2, <1>3, <1>4, <1>6 DEF Digit, Pairs
  <1>7. CASE ~(m >= r + b)
    BY <1>1, <1>2, <1>3, <1>4, <1>5, <1>7 DEF Digit, Pairs
  <1> QED BY <1>6, <1>7

(* The digits one after the other. *)
LEMMA RootDigitsAre ==
  ASSUME NEW v \in Nat
  PROVE  /\ \A k \in 0 .. 16 : RootDigits(v)[k] \in Pairs
         /\ RootDigits(v)[0] = [rem |-> v, root |-> 0]
         /\ \A k \in 1 .. 16 : RootDigits(v)[k] = Digit(k, RootDigits(v)[k - 1])
  <1> DEFINE First == [rem |-> v, root |-> 0]
             After(f) == f = [k \in 0 .. 16 |-> IF k = 0 THEN First ELSE Digit(k, f[k - 1])]
             S == {n \in 0 .. 16 : \E g \in [0 .. n -> Pairs] :
                                     g[0] = First /\ \A k \in 1 .. n : g[k] = Digit(k, g[k - 1])}
  <1>1. 0 \in S
    <2>1. PICK g : g = [n \in 0 .. 0 |-> First]
      OBVIOUS
    <2>2. First \in Pairs
      BY DEF Pairs
    <2>3. g \in [0 .. 0 -> Pairs] /\ g[0] = First /\ \A k \in 1 .. 0 : g[k] = Digit(k, g[k - 1])
      BY <2>1, <2>2
    <2>4. 0 \in 0 .. 16
      OBVIOUS
    <2> QED BY <2>3, <2>4
  <1>2. ASSUME NEW n \in 0 .. 16, n \in S, n < 16 PROVE n + 1 \in S
    <2> HIDE DEF First
    <2>1. PICK g \in [0 .. n -> Pairs] : g[0] = First /\ \A k \in 1 .. n : g[k] = Digit(k, g[k - 1])
      BY <1>2
    <2>2. n \in Nat /\ n + 1 \in 0 .. 16 /\ n + 1 \in 1 .. 16 /\ g[n] \in Pairs
      BY <1>2
    <2>3. PICK y \in Pairs : y = Digit(n + 1, g[n])
      BY <2>2, DigitTyped
    <2>4. PICK h : h = [k \in 0 .. (n + 1) |-> IF k = n + 1 THEN y ELSE g[k]]
      OBVIOUS
    <2>5. h \in [0 .. (n + 1) -> Pairs]
      <3>1. \A k \in 0 .. (n + 1) : k # n + 1 => k \in 0 .. n
        BY <2>2
      <3> QED BY <2>4, <3>1
    <2>6. h[0] = First
      BY <2>1, <2>2, <2>4
    <2>7. ASSUME NEW k \in 1 .. (n + 1) PROVE h[k] = Digit(k, h[k - 1])
      <3>1. CASE k = n + 1
        <4>1. k \in 0 .. (n + 1) /\ n \in 0 .. (n + 1) /\ n # n + 1 /\ k - 1 = n
          BY <2>2, <3>1
        <4>2. h[k] = y /\ h[n] = g[n]
          BY <2>4, <3>1, <4>1
        <4> QED BY <2>3, <3>1, <4>1, <4>2
      <3>2. CASE k # n + 1
        <4>1. k \in 1 .. n /\ k \in 0 .. (n + 1) /\ k - 1 \in 0 .. (n + 1) /\ k - 1 # n + 1
          BY <2>2, <3>2
        <4>2. h[k] = g[k] /\ h[k - 1] = g[k - 1]
          BY <2>4, <3>2, <4>1
        <4> QED BY <2>1, <4>1, <4>2
      <3> QED BY <3>1, <3>2
    <2> QED BY <2>2, <2>5, <2>6, <2>7
  <1>3. 16 \in S
    <2> HIDE DEF S
    <2>1. \A n \in 0 .. 16 : n \in S
      BY <1>1, <1>2, Climb
    <2> QED BY <2>1
  <1>4. PICK g \in [0 .. 16 -> Pairs] : g[0] = First /\ \A k \in 1 .. 16 : g[k] = Digit(k, g[k - 1])
    BY <1>3
  <1>5. After(g)
    <2> HIDE DEF First
    <2>1. g = [k \in 0 .. 16 |-> g[k]]
      BY <1>4
    <2>2. ASSUME NEW k \in 0 .. 16 PROVE g[k] = IF k = 0 THEN First ELSE Digit(k, g[k - 1])
      BY <1>4
    <2> QED BY <2>1, <2>2, SMT
  <1>6. PICK f : f = CHOOSE x : After(x)
    OBVIOUS
  <1>7. After(f)
    BY <1>5, <1>6
  <1>8. RootDigits(v) = f
    BY <1>6 DEF RootDigits, Digit
  <1>9. f[0] = First /\ \A k \in 1 .. 16 : f[k] = Digit(k, f[k - 1])
    <2> HIDE DEF First
    <2>1. \A k \in 0 .. 16 : f[k] = IF k = 0 THEN First ELSE Digit(k, f[k - 1])
      BY <1>7
    <2>2. \A k \in 1 .. 16 : k \in 0 .. 16 /\ k # 0
      OBVIOUS
    <2>3. 0 \in 0 .. 16
      OBVIOUS
    <2> QED BY <2>1, <2>2, <2>3
  <1> HIDE DEF First, After, S
  <1>10. \A k \in 0 .. 16 : k \in {j \in 0 .. 16 : f[j] \in Pairs}
    <2>1. 0 \in {j \in 0 .. 16 : f[j] \in Pairs}
      BY <1>9 DEF First, Pairs
    <2>2. ASSUME NEW k \in 0 .. 16, k \in {j \in 0 .. 16 : f[j] \in Pairs}, k < 16
          PROVE  k + 1 \in {j \in 0 .. 16 : f[j] \in Pairs}
      <3>1. k + 1 \in 1 .. 16 /\ k + 1 \in 0 .. 16 /\ (k + 1) - 1 = k
        BY <2>2
      <3>2. f[k + 1] = Digit(k + 1, f[k]) /\ f[k] \in Pairs
        BY <1>9, <2>2, <3>1
      <3>3. f[k + 1] \in Pairs
        BY <3>1, <3>2, DigitTyped
      <3> QED BY <3>1, <3>3
    <2> QED BY <2>1, <2>2, Climb
  <1> QED BY <1>8, <1>9, <1>10 DEF First

(* The least number that sixteen digits do not hold. *)
Full == 65536 * 65536

(* isqrt64 is the floor of the square root, of anything of sixteen digits. *)
LEMMA IsqrtIs ==
  ASSUME NEW v \in Nat
  PROVE  /\ Isqrt(v) \in Nat
         /\ v < Full => Isqrt(v) * Isqrt(v) <= v /\ v < (Isqrt(v) + 1) * (Isqrt(v) + 1)
  <1> DEFINE f == RootDigits(v)
             Good(k, x) == /\ f[k].root = x * 2^(16 - k) /\ f[k].rem = v - x * x
                           /\ x * x <= v /\ v < (x + 2^(16 - k)) * (x + 2^(16 - k))
             S == {k \in 0 .. 16 : \E x \in Nat : Good(k, x)}
  <1>1. Isqrt(v) = f[16].root /\ Isqrt(v) \in Nat
    <2>1. 16 \in 0 .. 16
      OBVIOUS
    <2>3. \A k \in 0 .. 16 : RootDigits(v)[k] \in Pairs
      BY RootDigitsAre
    <2>2. f[16] \in Pairs
      BY <2>1, <2>3
    <2> QED BY <2>2 DEF Isqrt, Pairs
  <1>2. ASSUME v < Full PROVE 0 \in S
    <2>1. 2^(16 - 0) = 65536 /\ Full = 65536 * 65536
      BY SMT DEF Full
    <2>4. f[0] = [rem |-> v, root |-> 0]
      BY RootDigitsAre
    <2>2. f[0].root = 0 /\ f[0].rem = v
      BY <2>4
    <2>3. PICK w \in Nat : w = 65536
      BY SMT
    <2>5. 2^(16 - 0) = w /\ Full = w * w
      BY <2>1, <2>3, SMT
    <2>6. f[0].root = 0 * 2^(16 - 0) /\ f[0].rem = v - 0 * 0 /\ 0 * 0 <= v
      BY <2>2, <2>5
    <2>7. (0 + w) * (0 + w) = w * w
      BY <2>3
    <2>8. Good(0, 0)
      BY <1>2, <2>5, <2>6, <2>7
    <2> QED BY <2>8
  <1>3. ASSUME NEW n \in 0 .. 16, n \in S, n < 16 PROVE n + 1 \in S
    <2>1. PICK x \in Nat : Good(n, x)
      BY <1>3
    <2>2. PICK k \in 1 .. 16 : k = n + 1
      BY <1>3
    <2>3. n = k - 1 /\ k \in 0 .. 16
      BY <1>3, <2>2
    <2>4. PICK b \in Nat : b = 2^(16 - k)
      BY Weights
    <2>5. 2^(16 - n) = 2 * b /\ 4^(16 - k) = b * b
      BY <2>3, <2>4, Weights
    <2>6. f[k] = Digit(k, f[n])
      BY <2>3, RootDigitsAre
    <2>7. PICK at \in Pairs : at = f[n]
      BY RootDigitsAre
    <2>8. /\ at.root = x * (2 * b) /\ at.rem = v - x * x /\ x * x <= v
          /\ v < (x + 2 * b) * (x + 2 * b)
      BY <2>1, <2>5, <2>7
    <2>9. PICK y \in Nat : /\ f[k].root = y * b /\ f[k].rem = v - y * y
                           /\ y * y <= v /\ v < (y + b) * (y + b)
      <3>1. CASE at.rem >= at.root + b * b
        <4>1. PICK y \in Nat : y = x + b
          OBVIOUS
        <4>2. f[k] = [rem |-> at.rem - at.root - b * b, root |-> (at.root \div 2) + b * b]
          BY <2>5, <2>6, <2>7, <3>1 DEF Digit
        <4>3. y * y <= v /\ v < (y + b) * (y + b)
          BY <2>8, <3>1, <4>1, RootStep
        <4>4. f[k].rem = v - y * y
          BY <2>8, <4>1, <4>2, RootStep
        <4>5. f[k].root = y * b
          BY <2>8, <4>1, <4>2, RootStep
        <4> QED BY <4>3, <4>4, <4>5
      <3>2. CASE ~(at.rem >= at.root + b * b)
        <4>1. f[k] = [at EXCEPT !.root = @ \div 2]
          BY <2>5, <2>6, <2>7, <3>2 DEF Digit
        <4>2. f[k].root = at.root \div 2 /\ f[k].rem = at.rem
          BY <4>1 DEF Pairs
        <4>3. f[k].root = x * b /\ f[k].rem = v - x * x
          BY <2>8, <4>2, RootStep
        <4>4. ~((x + b) * (x + b) <= v)
          BY <2>8, <3>2, RootStep
        <4>5. v < (x + b) * (x + b)
          <5>1. PICK z \in Nat : z = (x + b) * (x + b)
            OBVIOUS
          <5> QED BY <4>4, <5>1
        <4> QED BY <2>8, <4>3, <4>5
      <3> QED BY <3>1, <3>2
    <2>10. Good(k, y)
      BY <2>4, <2>9
    <2> QED BY <2>2, <2>3, <2>10
  <1>4. ASSUME v < Full
        PROVE  Isqrt(v) * Isqrt(v) <= v /\ v < (Isqrt(v) + 1) * (Isqrt(v) + 1)
    <2>1. 16 \in S
      <3> HIDE DEF S
      <3>1. \A n \in 0 .. 16 : n \in S
        BY <1>2, <1>3, <1>4, Climb
      <3> QED BY <3>1
    <2>2. PICK x \in Nat : Good(16, x)
      BY <2>1
    <2>3. 2^(16 - 16) = 1
      OBVIOUS
    <2>4. f[16].root = x
      BY <2>2, <2>3
    <2>5. x * x <= v /\ v < (x + 1) * (x + 1)
      BY <2>2, <2>3
    <2> QED BY <1>1, <2>4, <2>5
  <1> QED BY <1>1, <1>4

(* A root is known by its squares. *)
LEMMA RootIs ==
  ASSUME NEW v \in Nat, v < Full, NEW x \in Nat, x * x <= v, v < (x + 1) * (x + 1)
  PROVE  Isqrt(v) = x
  <1>1. PICK y \in Nat : y = Isqrt(v)
    BY IsqrtIs
  <1>2. y * y <= v /\ v < (y + 1) * (y + 1)
    BY <1>1, IsqrtIs
  <1>3. ASSUME NEW a \in Nat, NEW c \in Nat, a < c PROVE (a + 1) * (a + 1) <= c * c
    <2>1. PICK d \in Nat : c = (a + 1) + d
      <3>1. c - (a + 1) \in Nat /\ c = (a + 1) + (c - (a + 1))
        BY <1>3
      <3> QED BY <3>1
    <2>2. PICK e \in Nat : e = a + 1
      OBVIOUS
    <2>3. c * c = e * e + 2 * (e * d) + d * d
      BY <2>1, <2>2
    <2>4. e * d \in Nat /\ d * d \in Nat /\ e * e \in Nat
      OBVIOUS
    <2> QED BY <2>2, <2>3, <2>4
  <1>4. ~(x < y)
    <2> SUFFICES ASSUME x < y PROVE FALSE
      OBVIOUS
    <2>1. (x + 1) * (x + 1) <= y * y
      BY <1>3
    <2>2. (x + 1) * (x + 1) \in Int /\ y * y \in Int
      OBVIOUS
    <2> QED BY <1>2, <2>1, <2>2
  <1>5. ~(y < x)
    <2> SUFFICES ASSUME y < x PROVE FALSE
      OBVIOUS
    <2>1. (y + 1) * (y + 1) <= x * x
      BY <1>3
    <2>2. (y + 1) * (y + 1) \in Int /\ x * x \in Int
      OBVIOUS
    <2> QED BY <1>2, <2>1, <2>2
  <1> QED BY <1>1, <1>4, <1>5

-----------------------------------------------------------------------------
(* More of sums *)

(* A common factor of the entries is one of the sum. *)
LEMMA SumTimes ==
  ASSUME NEW m \in Nat, NEW s \in [1 .. m -> Int], NEW c \in Int,
         NEW u \in [1 .. m -> Int], \A n \in 1 .. m : u[n] = c * s[n]
  PROVE  SumOf(u) = c * SumOf(s)
  <1>1. PICK g : Runs(g, s, m) /\ SumOf(s) = g[m]
    BY SumRuns
  <1>2. PICK f : f = [n \in 0 .. m |-> c * g[n]]
    OBVIOUS
  <1>3. Runs(f, u, m)
    <2>1. f \in [0 .. m -> Int] /\ f[0] = 0
      <3>1. \A n \in 0 .. m : c * g[n] \in Int
        BY <1>1 DEF Runs
      <3>2. c * g[0] = 0 /\ 0 \in 0 .. m
        BY <1>1 DEF Runs
      <3> QED BY <1>2, <3>1, <3>2
    <2>2. ASSUME NEW n \in 1 .. m PROVE f[n] = f[n - 1] + u[n]
      <3>1. n \in 0 .. m /\ n - 1 \in 0 .. m
        OBVIOUS
      <3>2. g[n] = g[n - 1] + s[n] /\ u[n] = c * s[n] /\ g[n - 1] \in Int /\ s[n] \in Int
        BY <1>1, <3>1 DEF Runs
      <3>3. c * (g[n - 1] + s[n]) = c * g[n - 1] + c * s[n]
        BY <3>2
      <3> QED BY <1>2, <3>1, <3>2, <3>3
    <2> QED BY <2>1, <2>2 DEF Runs
  <1>4. SumOf(u) = f[m]
    BY <1>3, AsSequence, SumIs
  <1>5. m \in 0 .. m
    OBVIOUS
  <1> QED BY <1>1, <1>2, <1>4, <1>5

(* The same, of the sequence that has the factor. *)
LEMMA SumScaled ==
  ASSUME NEW m \in Nat, NEW s \in [1 .. m -> Int], NEW c \in Int
  PROVE  SumOf([n \in 1 .. m |-> c * s[n]]) = c * SumOf(s)
  <1>1. PICK u : u = [n \in 1 .. m |-> c * s[n]]
    OBVIOUS
  <1>2. \A n \in 1 .. m : c * s[n] \in Int
    OBVIOUS
  <1>3. u \in [1 .. m -> Int] /\ \A n \in 1 .. m : u[n] = c * s[n]
    BY <1>1, <1>2
  <1> QED BY <1>1, <1>3, SumTimes

(* Equal entries. *)
LEMMA SumSame ==
  ASSUME NEW m \in Nat, NEW c \in Int, NEW s \in [1 .. m -> Int], \A n \in 1 .. m : s[n] = c
  PROVE  SumOf(s) = m * c
  <1>1. PICK f : f = [n \in 0 .. m |-> n * c]
    OBVIOUS
  <1>2. Runs(f, s, m)
    <2>1. f \in [0 .. m -> Int] /\ f[0] = 0
      BY <1>1
    <2>2. ASSUME NEW n \in 1 .. m PROVE f[n] = f[n - 1] + s[n]
      <3>1. n \in 0 .. m /\ n - 1 \in 0 .. m
        OBVIOUS
      <3>2. n * c = (n - 1) * c + c
        OBVIOUS
      <3> QED BY <1>1, <3>1, <3>2
    <2> QED BY <2>1, <2>2 DEF Runs
  <1>3. SumOf(s) = f[m]
    BY <1>2, AsSequence, SumIs
  <1>4. m \in 0 .. m
    OBVIOUS
  <1> QED BY <1>1, <1>3, <1>4

(* The same entries begun elsewhere in the circle. *)
Turned(t, s, k, m) == \A n \in 1 .. m : t[n] = s[IF k + n <= m THEN k + n ELSE k + n - m]

(* They have the same sum. *)
LEMMA SumTurned ==
  ASSUME NEW m \in Nat, NEW k \in 0 .. m, NEW s \in [1 .. m -> Int], NEW t \in [1 .. m -> Int],
         Turned(t, s, k, m)
  PROVE  SumOf(t) = SumOf(s)
  <1>1. PICK a : a = [n \in 1 .. k |-> s[n]]
    OBVIOUS
  <1>2. PICK b : b = [n \in 1 .. (m - k) |-> s[n + k]]
    OBVIOUS
  <1>3. /\ a \in [1 .. k -> Int] /\ \A n \in 1 .. k : a[n] = s[n]
        /\ b \in [1 .. (m - k) -> Int] /\ \A n \in 1 .. (m - k) : b[n] = s[n + k]
    BY <1>1, <1>2
  <1>4. SumOf(s) = SumOf(a) + SumOf(b)
    BY <1>3, SumParts
  <1>5. PICK l \in 0 .. m : l = m - k
    OBVIOUS
  <1>6. /\ b \in [1 .. l -> Int]
        /\ a \in [1 .. (m - l) -> Int]
    <2>1. m - l = k
      BY <1>5
    <2> QED BY <1>3, <1>5, <2>1
  <1>7. \A n \in 1 .. l : b[n] = t[n]
    <2> SUFFICES ASSUME NEW n \in 1 .. l PROVE b[n] = t[n]
      OBVIOUS
    <2>1. n \in 1 .. m /\ k + n <= m /\ n \in 1 .. (m - k) /\ k + n = n + k
      BY <1>5
    <2>2. t[n] = s[k + n]
      BY <2>1 DEF Turned
    <2> QED BY <1>3, <2>1, <2>2
  <1>8. \A n \in 1 .. (m - l) : a[n] = t[n + l]
    <2> SUFFICES ASSUME NEW n \in 1 .. (m - l) PROVE a[n] = t[n + l]
      OBVIOUS
    <2>1. n \in 1 .. k /\ n + l \in 1 .. m /\ ~(k + (n + l) <= m) /\ k + (n + l) - m = n
      BY <1>5
    <2>2. t[n + l] = s[n]
      BY <2>1 DEF Turned
    <2> QED BY <1>3, <2>1, <2>2
  <1>9. SumOf(t) = SumOf(b) + SumOf(a)
    BY <1>6, <1>7, <1>8, SumParts
  <1>10. SumOf(a) \in Int /\ SumOf(b) \in Int
    <2>1. k \in Nat /\ l \in Nat
      BY <1>5
    <2> QED BY <1>3, <1>6, <2>1, SumRuns
  <1> QED BY <1>4, <1>9, <1>10

(* A step of the lemma below. *)
LEMMA SquareStep ==
  ASSUME NEW n \in Nat, n > 0, NEW g \in Int, NEW h \in Int, NEW x \in Int, n * h >= g * g
  PROVE  (n + 1) * (h + x * x) >= (g + x) * (g + x)
  <1>1. PICK y \in Int : y = n * x
    OBVIOUS
  <1>2. (g - y) * (g - y) >= 0
    OBVIOUS
  <1>3. (g - y) * (g - y) = g * g - 2 * (g * y) + y * y
    OBVIOUS
  <1>4. PICK z \in Int : z = h + x * y - 2 * (g * x)
    OBVIOUS
  <1>5. n * z = n * h + y * y - 2 * (g * y)
    <2>1. n * (x * y) = y * y /\ n * (g * x) = g * y
      BY <1>1
    <2>2. n * z = n * h + n * (x * y) - 2 * (n * (g * x))
      <3>1. x * y \in Int /\ g * x \in Int
        BY <1>1
      <3>2. PICK p \in Int : p = x * y
        BY <3>1
      <3>3. PICK q \in Int : q = g * x
        BY <3>1
      <3>4. n * (h + p - 2 * q) = n * h + n * p - 2 * (n * q)
        OBVIOUS
      <3> QED BY <1>4, <3>2, <3>3, <3>4
    <2> QED BY <2>1, <2>2
  <1>6. n * z >= 0
    <2>1. g * g \in Int /\ n * h \in Int /\ y * y \in Int /\ g * y \in Int
      BY <1>1
    <2> QED BY <1>2, <1>3, <1>5, <2>1
  <1>7. z >= 0
    <2>1. z < 0 => n * z < 0
      OBVIOUS
    <2> QED BY <1>6, <2>1
  <1>8. (n + 1) * (h + x * x) - (g + x) * (g + x) = (n * h - g * g) + z
    <2>1. (n + 1) * (h + x * x) = n * h + n * (x * x) + h + x * x
      OBVIOUS
    <2>2. n * (x * x) = x * y
      BY <1>1
    <2>3. (g + x) * (g + x) = g * g + 2 * (g * x) + x * x
      OBVIOUS
    <2> QED BY <1>1, <1>4, <2>1, <2>2, <2>3
  <1> QED BY <1>7, <1>8

(* The square of a sum is no more than the squares' sum times their number. *)
LEMMA SquaresOutweigh ==
  ASSUME NEW m \in Nat, NEW s \in [1 .. m -> Int], NEW t \in [1 .. m -> Int],
         \A n \in 1 .. m : t[n] = s[n] * s[n]
  PROVE  m * SumOf(t) >= SumOf(s) * SumOf(s)
  <1>1. PICK g : Runs(g, s, m) /\ SumOf(s) = g[m]
    BY SumRuns
  <1>2. PICK h : Runs(h, t, m) /\ SumOf(t) = h[m]
    BY SumRuns
  <1> DEFINE S == {n \in 0 .. m : n * h[n] >= g[n] * g[n]}
  <1>3. g[0] = 0 /\ h[0] = 0 /\ \A n \in 0 .. m : g[n] \in Int /\ h[n] \in Int
    BY <1>1, <1>2 DEF Runs
  <1>4. 0 \in S
    <2>1. 0 \in 0 .. m /\ 0 * 0 >= 0 * 0
      OBVIOUS
    <2> QED BY <1>3, <2>1
  <1>5. ASSUME NEW n \in 0 .. m, n \in S, n < m PROVE n + 1 \in S
    <2>1. PICK x \in Int : x = s[n + 1]
      <3>1. n + 1 \in 1 .. m
        BY <1>5
      <3> QED BY <3>1
    <2>2. n + 1 \in 1 .. m /\ (n + 1) - 1 = n /\ n + 1 \in 0 .. m
      BY <1>5
    <2>3. g[n + 1] = g[n] + x /\ h[n + 1] = h[n] + x * x
      <3>1. g[n + 1] = g[n] + s[n + 1] /\ h[n + 1] = h[n] + t[n + 1]
        BY <1>1, <1>2, <2>2 DEF Runs
      <3>2. t[n + 1] = x * x
        BY <2>1, <2>2
      <3> QED BY <2>1, <3>1, <3>2
    <2>4. (n + 1) * (h[n] + x * x) >= (g[n] + x) * (g[n] + x)
      <3>1. CASE n = 0
        <4>1. g[n] = 0 /\ h[n] = 0
          BY <1>3, <3>1
        <4> QED BY <3>1, <4>1
      <3>2. CASE n # 0
        <4>1. n \in Nat /\ n > 0 /\ g[n] \in Int /\ h[n] \in Int /\ n * h[n] >= g[n] * g[n]
          BY <1>3, <1>5, <3>2
        <4> QED BY <4>1, SquareStep
      <3> QED BY <3>1, <3>2
    <2> QED BY <2>2, <2>3, <2>4
  <1>6. m \in S
    <2>1. \A n \in 0 .. m : n \in S
      <3> HIDE DEF S
      <3> QED BY <1>4, <1>5, Climb
    <2> QED BY <2>1
  <1> QED BY <1>1, <1>2, <1>6

-----------------------------------------------------------------------------
(* What the amplitude detector is fed *)

(* Features as a caller may feed them. *)
Counted == UNION {[1 .. n -> Nat] : n \in 1 .. MaxSc}
Feds == {Measured(a) : a \in Counted}

(* A longest layout there is, and the others are no longer. *)
LEMMA LongestLayout ==
  /\ MaxSc \in Nat \ {0}
  /\ \A l \in Layouts : Len(l) \in 1 .. MaxSc
  <1>1. PICK longest \in Layouts : \A l \in Layouts : Len(l) <= Len(longest)
    BY PresenceAssumption
  <1>2. PICK T : T = {Len(l) : l \in Layouts}
    OBVIOUS
  <1>3. Len(longest) \in T /\ \A y \in T : Len(longest) >= y
    BY <1>1, <1>2, PresenceAssumption
  <1>4. PICK c : c = CHOOSE x \in T : \A y \in T : x >= y
    OBVIOUS
  <1>5. c \in T /\ \A y \in T : c >= y
    BY <1>3, <1>4
  <1>6. MaxSc = c
    BY <1>2, <1>4 DEF MaxSc, Max
  <1>7. ASSUME NEW l \in Layouts PROVE Len(l) \in Nat \ {0} /\ Len(l) <= MaxSc
    <2>1. l \in Seq(1 .. Entries) /\ l # <<>>
      BY PresenceAssumption
    <2>2. Len(l) \in Nat \ {0}
      BY <2>1
    <2> QED BY <1>2, <1>5, <1>6, <2>2
  <1>8. MaxSc \in Nat \ {0}
    BY <1>2, <1>5, <1>6, <1>7
  <1> QED BY <1>7, <1>8

(* The features of amplitudes keep them. *)
LEMMA MeasuredKeeps ==
  ASSUME NEW n \in Nat, NEW a \in [1 .. n -> Nat]
  PROVE  Measured(a).amplitude = a /\ Len(a) = n /\ Len(Measured(a).amplitude) = n
  <1>1. Len(a) = n
    BY AsSequence
  <1>2. Measured(a).amplitude = a
    BY DEF Measured
  <1> QED BY <1>1, <1>2

(* What a fed frame is. *)
LEMMA FedIs ==
  ASSUME NEW f \in Feds
  PROVE  \E n \in 1 .. MaxSc : \E a \in [1 .. n -> Nat] :
           f = Measured(a) /\ f.amplitude = a /\ Len(f.amplitude) = n
  <1>1. PICK a \in Counted : f = Measured(a)
    BY DEF Feds
  <1>2. PICK n \in 1 .. MaxSc : a \in [1 .. n -> Nat]
    BY DEF Counted
  <1>3. n \in Nat
    BY LongestLayout
  <1> QED BY <1>1, <1>2, <1>3, MeasuredKeeps

(* A frame's features, at whatever gain. *)
LEMMA FeaturesAre ==
  ASSUME NEW entry \in [1 .. Entries -> Int \X Int], NEW lay \in Layouts
  PROVE  Features(entry, lay) \in Feds
  <1>1. PICK n \in 1 .. MaxSc : n = Len(lay)
    BY LongestLayout
  <1>2. lay \in Seq(1 .. Entries) /\ n \in Nat
    BY <1>1, PresenceAssumption, LongestLayout
  <1>3. PICK a : a = [k \in 1..Len(lay) |->
                        LET p == entry[lay[k]] IN Isqrt(16 * (p[1] * p[1] + p[2] * p[2]))]
    OBVIOUS
  <1>4. ASSUME NEW k \in 1 .. n PROVE a[k] \in Nat
    <2>1. lay[k] \in 1 .. Entries
      <3>1. ASSUME NEW S, NEW l \in Seq(S), NEW j \in 1 .. Len(l) PROVE l[j] \in S
        OBVIOUS
      <3> QED BY <1>1, <1>2, <3>1
    <2>2. PICK p \in Int \X Int : p = entry[lay[k]]
      BY <2>1
    <2>3. p[1] * p[1] \in Nat /\ p[2] * p[2] \in Nat
      <3>1. ASSUME NEW x \in Int PROVE x * x \in Nat
        OBVIOUS
      <3> QED BY <2>2, <3>1
    <2>4. 16 * (p[1] * p[1] + p[2] * p[2]) \in Nat
      BY <2>3
    <2>5. a[k] = Isqrt(16 * (p[1] * p[1] + p[2] * p[2]))
      BY <1>1, <1>3, <2>2
    <2> QED BY <2>4, <2>5, IsqrtIs
  <1>5. a \in [1 .. n -> Nat]
    BY <1>1, <1>3, <1>4
  <1>6. Features(entry, lay) = Measured(a)
    BY <1>3 DEF Features
  <1>7. a \in Counted
    BY <1>5 DEF Counted
  <1> QED BY <1>6, <1>7 DEF Feds

(* Normalised features are features. *)
LEMMA NormalisedAre ==
  ASSUME NEW f \in Feds
  PROVE  Normalised(f) \in Feds
  <1>0. PICK n \in 1 .. MaxSc : \E a \in [1 .. n -> Nat] :
          f = Measured(a) /\ f.amplitude = a /\ Len(f.amplitude) = n
    BY FedIs
  <1>1. PICK a \in [1 .. n -> Nat] : f = Measured(a) /\ f.amplitude = a /\ Len(f.amplitude) = n
    BY <1>0
  <1>2. n \in Nat \ {0} /\ a \in [1 .. n -> Int]
    BY LongestLayout
  <1>3. PICK total : total = SumOf(a)
    OBVIOUS
  <1>4. total \in Nat
    BY <1>2, <1>3, SumRuns, SumAtLeast
  <1>5. CASE total = 0
    BY <1>1, <1>3, <1>5 DEF Normalised
  <1>6. CASE total # 0
    <2>1. PICK b : b = [k \in 1 .. n |-> (a[k] * NORM * n) \div total]
      OBVIOUS
    <2>2. Normalised(f) = Measured(b)
      BY <1>1, <1>3, <1>6, <2>1 DEF Normalised
    <2>3. ASSUME NEW k \in 1 .. n PROVE (a[k] * NORM * n) \div total \in Nat
      <3>1. PICK x \in Nat : x = a[k] * NORM * n
        <4>1. NORM \in Nat /\ a[k] \in Nat
          BY PresenceAssumption
        <4>2. a[k] * NORM \in Nat
          BY <4>1
        <4> QED BY <1>2, <4>2
      <3>2. x \div total \in Nat
        BY <1>4, <1>6
      <3> QED BY <3>1, <3>2
    <2>4. b \in [1 .. n -> Nat]
      BY <2>1, <2>3
    <2> QED BY <2>2, <2>4 DEF Feds, Counted
  <1> QED BY <1>5, <1>6

(* Every frame a caller may feed. *)
LEMMA FramesAreFed ==
  ASSUME NEW entry \in [1 .. Entries -> Samples], NEW lay \in Layouts, NEW gain \in Gains
  PROVE  Frame(entry, lay, gain) \in Feds
  <1>1. PICK b : b = [k \in 1..Entries |-> <<gain * entry[k][1], gain * entry[k][2]>>]
    OBVIOUS
  <1>2. ASSUME NEW k \in 1 .. Entries
        PROVE  <<gain * entry[k][1], gain * entry[k][2]>> \in Int \X Int
    <2>1. gain \in Int
      BY PresenceAssumption
    <2>2. entry[k] \in Samples /\ Samples \subseteq Int \X Int
      BY PresenceAssumption
    <2>3. PICK x \in Int, y \in Int : entry[k] = <<x, y>>
      BY <2>2
    <2> QED BY <2>1, <2>3
  <1>3. b \in [1 .. Entries -> Int \X Int]
    BY <1>1, <1>2
  <1>4. Features(b, lay) \in Feds
    BY <1>3, FeaturesAre
  <1>5. Frame(entry, lay, gain) = IF normalise THEN Normalised(Features(b, lay)) ELSE Features(b, lay)
    BY <1>1 DEF Frame
  <1> QED BY <1>4, <1>5, NormalisedAre

(* A factor common to the amplitudes cancels. *)
LEMMA FactorCancels ==
  ASSUME NEW g \in Nat \ {0}, NEW x \in Nat, NEW y \in Nat \ {0}
  PROVE  (g * x) \div (g * y) = x \div y
  <1>1. PICK q \in Nat, r \in 0 .. (y - 1) : x = y * q + r
    <2>1. x = y * (x \div y) + (x % y) /\ x \div y \in Nat /\ x % y \in 0 .. (y - 1)
      OBVIOUS
    <2> QED BY <2>1
  <1>2. PICK z \in Nat : z = g * y
    OBVIOUS
  <1>3. PICK d \in Nat : d = g * r
    OBVIOUS
  <1>4. g * x = z * q + d
    <2>1. g * (y * q + r) = (g * y) * q + g * r
      OBVIOUS
    <2> QED BY <1>1, <1>2, <1>3, <2>1
  <1>5. z > 0 /\ d < z
    <2>1. g * (y - r) > 0
      <3>1. y - r \in Nat \ {0}
        OBVIOUS
      <3> QED BY <3>1
    <2>2. g * (y - r) = g * y - g * r
      OBVIOUS
    <2> QED BY <1>2, <1>3, <2>1, <2>2
  <1>6. (z * q + d) \div z = q
    BY <1>5
  <1>7. (y * q + r) \div y = q
    OBVIOUS
  <1> QED BY <1>1, <1>2, <1>4, <1>6, <1>7

(* Neither what normalised features are, nor their distance, has the gain. *)
LEMMA GainCancels ==
  ASSUME NEW f \in Feds, NEW g \in Nat \ {0}
  PROVE  Normalised(Measured([k \in 1..Len(f.amplitude) |-> g * f.amplitude[k]])) = Normalised(f)
  <1>0. PICK n \in 1 .. MaxSc : \E a \in [1 .. n -> Nat] :
          f = Measured(a) /\ f.amplitude = a /\ Len(f.amplitude) = n
    BY FedIs
  <1>1. PICK a \in [1 .. n -> Nat] : f = Measured(a) /\ f.amplitude = a /\ Len(f.amplitude) = n
    BY <1>0
  <1>2. n \in Nat \ {0} /\ a \in [1 .. n -> Int]
    BY LongestLayout
  <1>3. PICK b : b = [k \in 1 .. n |-> g * a[k]]
    OBVIOUS
  <1>4. b \in [1 .. n -> Nat] /\ b \in [1 .. n -> Int] /\ \A k \in 1 .. n : b[k] = g * a[k]
    <2>1. \A k \in 1 .. n : g * a[k] \in Nat
      OBVIOUS
    <2> QED BY <1>3, <2>1
  <1>5. PICK total : total = SumOf(a)
    OBVIOUS
  <1>6. total \in Nat /\ SumOf(b) = g * total /\ \A k \in 1 .. n : a[k] <= total
    <2>1. total \in Int /\ total >= 0 /\ \A k \in 1 .. n : a[k] <= total
      <3>1. SumOf(a) \in Int
        BY <1>2, SumRuns
      <3>2. SumOf(a) >= 0 /\ \A k \in 1 .. n : SumOf(a) >= a[k]
        BY <1>2, SumAtLeast
      <3> QED BY <1>5, <3>1, <3>2
    <2>2. SumOf(b) = g * SumOf(a)
      <3>1. n \in Nat /\ g \in Int /\ a \in [1 .. n -> Int]
        BY <1>2
      <3> QED BY <1>3, <3>1, SumScaled
    <2> QED BY <1>5, <2>1, <2>2
  <1>7. Measured(b).amplitude = b /\ Len(b) = n
    BY <1>2, <1>4, MeasuredKeeps
  <1>8. CASE total = 0
    <2>1. \A k \in 1 .. n : a[k] = 0
      BY <1>6, <1>8
    <2>2. b = a
      <3>1. \A k \in 1 .. n : b[k] = a[k]
        BY <1>4, <2>1
      <3> QED BY <1>4, <3>1
    <2> QED BY <1>1, <1>3, <2>2
  <1>9. CASE total # 0
    <2>1. g * total # 0
      BY <1>6, <1>9
    <2>2. PICK c : c = [k \in 1 .. n |-> (a[k] * NORM * n) \div total]
      OBVIOUS
    <2>3. PICK d : d = [k \in 1 .. n |-> (b[k] * NORM * n) \div (g * total)]
      OBVIOUS
    <2>4. Normalised(f) = Measured(c)
      BY <1>1, <1>5, <1>9, <2>2 DEF Normalised
    <2>5. Normalised(Measured(b)) = Measured(d)
      BY <1>6, <1>7, <2>1, <2>3 DEF Normalised
    <2>6. ASSUME NEW k \in 1 .. n
          PROVE  (b[k] * NORM * n) \div (g * total) = (a[k] * NORM * n) \div total
      <3>1. NORM \in Nat /\ a[k] \in Nat /\ b[k] = g * a[k]
        BY <1>4, PresenceAssumption
      <3>2. PICK x \in Nat : x = a[k] * NORM * n
        <4>1. a[k] * NORM \in Nat
          BY <3>1
        <4> QED BY <1>2, <4>1
      <3>3. b[k] * NORM * n = g * x
        <4>1. ASSUME NEW u \in Nat, NEW v \in Nat, NEW w \in Nat
              PROVE  (g * u) * v * w = g * (u * v * w)
          OBVIOUS
        <4> QED BY <1>2, <3>1, <3>2, <4>1
      <3>4. (g * x) \div (g * total) = x \div total
        BY <1>6, <1>9, FactorCancels
      <3> QED BY <3>2, <3>3, <3>4
    <2>7. c = d
      BY <2>2, <2>3, <2>6
    <2> QED BY <1>1, <1>3, <2>4, <2>5, <2>7
  <1> QED BY <1>6, <1>8, <1>9

-----------------------------------------------------------------------------
(* Its carried sums *)

(* The slots of the ring, what one holds, and what is carried of them. *)
Slots2 == 0 .. (W - 1)
Rows == [1 .. MaxSc -> Nat]
Tallies == [1 .. MaxSc -> Int]

(* The detector's state, whatever its wander is of. *)
Detectors ==
  [ring : [Slots2 -> Rows], sum : Tallies, sumsq : Tallies, count : 0 .. MaxSc, filled : 0 .. W,
   next : Slots2, wander : Nat, present : BOOLEAN, age : 0 .. Hold]

(* CarriedSums, of any detector. *)
CarriedBy(d) ==
  \A sc \in 1 .. MaxSc :
    /\ d.sum[sc] = SumOf([f \in 1 .. W |-> d.ring[f - 1][sc]])
    /\ d.sumsq[sc] = SumOf([f \in 1 .. W |-> d.ring[f - 1][sc] * d.ring[f - 1][sc]])

(* The numbers are what they are said to be. *)
LEMMA PresenceNumbers ==
  /\ W \in Nat \ {0} /\ Hold \in Nat \ {0} /\ MaxSc \in Nat \ {0}
  /\ 0 \in Slots2 /\ \A i \in Slots2 : i \in Int /\ i + 1 \in 1 .. W
  <1>1. W \in Nat \ {0} /\ Hold \in Nat \ {0}
    BY PresenceAssumption
  <1> QED BY <1>1, LongestLayout DEF Slots2

(* The slot after one. *)
LEMMA Around ==
  ASSUME NEW k \in Nat, k > 0, NEW p \in Nat, p < k
  PROVE  (p + 1) % k = IF p + 1 = k THEN 0 ELSE p + 1
  <1>1. CASE p + 1 = k
    <2>1. k % k = 0
      OBVIOUS
    <2> QED BY <1>1, <2>1
  <1>2. CASE p + 1 # k
    <2>1. PICK x \in Nat : x = p + 1 /\ x < k
      BY <1>2
    <2>2. x % k = x
      BY <2>1
    <2> QED BY <1>2, <2>1, <2>2
  <1> QED BY <1>1, <1>2

(* What replacing a slot's values does. *)
Replaced(d, n, a, e) ==
  /\ e \in Detectors
  /\ e.count = n /\ e.wander = d.wander /\ e.present = d.present /\ e.age = d.age
  /\ e.next = (IF d.next + 1 = W THEN 0 ELSE d.next + 1)
  /\ e.filled = (IF d.filled < W THEN d.filled + 1 ELSE d.filled)
  /\ \A f \in Slots2 : \A sc \in 1 .. MaxSc :
       e.ring[f][sc] = IF f = d.next /\ sc <= n THEN a[sc] ELSE d.ring[f][sc]
  /\ \A sc \in 1 .. MaxSc :
       /\ e.sum[sc] = IF sc <= n THEN d.sum[sc] - d.ring[d.next][sc] + a[sc] ELSE d.sum[sc]
       /\ e.sumsq[sc] = IF sc <= n
                        THEN d.sumsq[sc] - d.ring[d.next][sc] * d.ring[d.next][sc] + a[sc] * a[sc]
                        ELSE d.sumsq[sc]

(* Slid does. *)
LEMMA SlidIs ==
  ASSUME NEW d \in Detectors, NEW n \in 1 .. MaxSc, NEW a \in [1 .. n -> Nat]
  PROVE  Replaced(d, n, a, Slid(d, a))
  <1>0. PICK e : e = Slid(d, a)
    OBVIOUS
  <1>1. W \in Nat \ {0} /\ MaxSc \in Nat \ {0} /\ n \in Nat
    BY PresenceNumbers
  <1>2. Len(a) = n
    BY <1>1, AsSequence
  <1>3. PICK old : old = d.ring[d.next]
    OBVIOUS
  <1>4. d.next \in Slots2 /\ old \in Rows /\ d.ring \in [Slots2 -> Rows]
    BY <1>3 DEF Detectors
  <1>5. PICK row : row = [sc \in 1..MaxSc |-> IF sc <= n THEN a[sc] ELSE old[sc]]
    OBVIOUS
  <1>6. PICK sum : sum = [sc \in 1..MaxSc |-> IF sc <= n THEN d.sum[sc] - old[sc] + a[sc] ELSE d.sum[sc]]
    OBVIOUS
  <1>7. PICK sq : sq = [sc \in 1..MaxSc |->
                          IF sc <= n THEN d.sumsq[sc] - old[sc] * old[sc] + a[sc] * a[sc] ELSE d.sumsq[sc]]
    OBVIOUS
  <1>8. PICK slots : slots = [d.ring EXCEPT ![d.next] = row]
    OBVIOUS
  <1>9. PICK next : next = (d.next + 1) % W
    OBVIOUS
  <1>10. PICK filled : filled = IF d.filled < W THEN d.filled + 1 ELSE d.filled
    OBVIOUS
  <1>11. e = [d EXCEPT !.count = n, !.ring = slots, !.sum = sum, !.sumsq = sq, !.next = next,
                       !.filled = filled]
    BY <1>0, <1>2, <1>3, <1>5, <1>6, <1>7, <1>8, <1>9, <1>10 DEF Slid, Detectors
  <1>12. ASSUME NEW sc \in 1 .. MaxSc, sc <= n PROVE sc \in 1 .. n
    BY <1>1, <1>12
  <1>13. row \in Rows
    <2>1. ASSUME NEW sc \in 1 .. MaxSc PROVE (IF sc <= n THEN a[sc] ELSE old[sc]) \in Nat
      BY <1>4, <1>12 DEF Rows
    <2> QED BY <1>5, <2>1 DEF Rows
  <1>14. slots \in [Slots2 -> Rows]
         /\ \A f \in Slots2 : slots[f] = IF f = d.next THEN row ELSE d.ring[f]
    BY <1>4, <1>8, <1>13
  <1>15. sum \in Tallies /\ sq \in Tallies
    <2>1. ASSUME NEW sc \in 1 .. MaxSc
          PROVE  /\ (IF sc <= n THEN d.sum[sc] - old[sc] + a[sc] ELSE d.sum[sc]) \in Int
                 /\ (IF sc <= n THEN d.sumsq[sc] - old[sc] * old[sc] + a[sc] * a[sc] ELSE d.sumsq[sc]) \in Int
      <3>1. d.sum[sc] \in Int /\ d.sumsq[sc] \in Int /\ old[sc] \in Int
        <4>1. d.sum \in Tallies /\ d.sumsq \in Tallies /\ old \in Rows
          BY <1>4 DEF Detectors
        <4>2. ASSUME NEW g \in Tallies PROVE g[sc] \in Int
          BY DEF Tallies
        <4>3. ASSUME NEW g \in Rows PROVE g[sc] \in Int
          BY DEF Rows
        <4> QED BY <4>1, <4>2, <4>3
      <3>2. sc <= n => a[sc] \in Int
        BY <1>12
      <3> QED BY <3>1, <3>2
    <2> QED BY <1>6, <1>7, <2>1 DEF Tallies
  <1>16. next \in Slots2 /\ next = (IF d.next + 1 = W THEN 0 ELSE d.next + 1)
    <2>1. PICK k \in Nat, p \in Nat : k = W /\ k > 0 /\ p = d.next /\ p < k
      <3>1. W \in Nat /\ W > 0 /\ d.next \in Nat /\ d.next < W
        BY <1>1, <1>4 DEF Slots2
      <3> QED BY <3>1
    <2>2. (p + 1) % k = IF p + 1 = k THEN 0 ELSE p + 1
      BY <2>1, Around
    <2>3. next = IF p + 1 = k THEN 0 ELSE p + 1
      BY <1>9, <2>1, <2>2
    <2> QED BY <2>1, <2>3 DEF Slots2
  <1>17. filled \in 0 .. W
    BY <1>1, <1>10 DEF Detectors
  <1>18. e \in Detectors
    <2>1. d.wander \in Nat /\ d.present \in BOOLEAN /\ d.age \in 0 .. Hold
      BY DEF Detectors
    <2>2. e = [ring |-> slots, sum |-> sum, sumsq |-> sq, count |-> n, filled |-> filled,
               next |-> next, wander |-> d.wander, present |-> d.present, age |-> d.age]
      BY <1>11 DEF Detectors
    <2>3. n \in 0 .. MaxSc
      BY <1>1
    <2> QED BY <1>14, <1>15, <1>16, <1>17, <2>1, <2>2, <2>3 DEF Detectors
  <1>19. /\ e.count = n /\ e.wander = d.wander /\ e.present = d.present /\ e.age = d.age
         /\ e.next = next /\ e.filled = filled /\ e.ring = slots /\ e.sum = sum /\ e.sumsq = sq
    BY <1>11 DEF Detectors
  <1>20. ASSUME NEW f \in Slots2, NEW sc \in 1 .. MaxSc
         PROVE  slots[f][sc] = IF f = d.next /\ sc <= n THEN a[sc] ELSE d.ring[f][sc]
    <2>1. row[sc] = IF sc <= n THEN a[sc] ELSE d.ring[d.next][sc]
      BY <1>3, <1>5
    <2> QED BY <1>14, <2>1
  <1>21. ASSUME NEW sc \in 1 .. MaxSc
         PROVE  /\ sum[sc] = IF sc <= n THEN d.sum[sc] - d.ring[d.next][sc] + a[sc] ELSE d.sum[sc]
                /\ sq[sc] = IF sc <= n
                            THEN d.sumsq[sc] - d.ring[d.next][sc] * d.ring[d.next][sc] + a[sc] * a[sc]
                            ELSE d.sumsq[sc]
    BY <1>3, <1>6, <1>7
  <1> QED BY <1>0, <1>10, <1>16, <1>18, <1>19, <1>20, <1>21 DEF Replaced

(* The sums carried by the difference stay the ring's. *)
LEMMA SlidCarries ==
  ASSUME NEW d \in Detectors, CarriedBy(d), NEW n \in 1 .. MaxSc, NEW a \in [1 .. n -> Nat]
  PROVE  CarriedBy(Slid(d, a))
  <1>1. PICK e : e = Slid(d, a)
    OBVIOUS
  <1>2. /\ e \in Detectors
        /\ \A f \in Slots2 : \A sc \in 1 .. MaxSc :
              e.ring[f][sc] = IF f = d.next /\ sc <= n THEN a[sc] ELSE d.ring[f][sc]
        /\ \A sc \in 1 .. MaxSc :
              /\ e.sum[sc] = IF sc <= n THEN d.sum[sc] - d.ring[d.next][sc] + a[sc] ELSE d.sum[sc]
              /\ e.sumsq[sc] = IF sc <= n
                               THEN d.sumsq[sc] - d.ring[d.next][sc] * d.ring[d.next][sc] + a[sc] * a[sc]
                               ELSE d.sumsq[sc]
    <2>1. Replaced(d, n, a, e)
      BY <1>1, SlidIs
    <2> QED BY <2>1 DEF Replaced
  <1>3. W \in Nat /\ MaxSc \in Nat /\ n \in Nat /\ d.next \in Slots2
    BY PresenceNumbers DEF Detectors
  <1>4. ASSUME NEW sc \in 1 .. MaxSc
        PROVE  /\ e.sum[sc] = SumOf([f \in 1 .. W |-> e.ring[f - 1][sc]])
               /\ e.sumsq[sc] = SumOf([f \in 1 .. W |-> e.ring[f - 1][sc] * e.ring[f - 1][sc]])
    <2>1. PICK s : s = [f \in 1 .. W |-> d.ring[f - 1][sc]]
      OBVIOUS
    <2>2. PICK t : t = [f \in 1 .. W |-> e.ring[f - 1][sc]]
      OBVIOUS
    <2>3. PICK s2 : s2 = [f \in 1 .. W |-> d.ring[f - 1][sc] * d.ring[f - 1][sc]]
      OBVIOUS
    <2>4. PICK t2 : t2 = [f \in 1 .. W |-> e.ring[f - 1][sc] * e.ring[f - 1][sc]]
      OBVIOUS
    <2>5. ASSUME NEW f \in 1 .. W
          PROVE  /\ d.ring[f - 1][sc] \in Int /\ e.ring[f - 1][sc] \in Int
                 /\ d.ring[f - 1][sc] * d.ring[f - 1][sc] \in Int
                 /\ e.ring[f - 1][sc] * e.ring[f - 1][sc] \in Int
                 /\ f - 1 \in Slots2
      <3>1. f - 1 \in Slots2
        BY <1>3 DEF Slots2
      <3>2. d.ring[f - 1][sc] \in Int /\ e.ring[f - 1][sc] \in Int
        <4>1. d.ring[f - 1] \in Rows /\ e.ring[f - 1] \in Rows
          BY <1>2, <3>1 DEF Detectors
        <4>2. ASSUME NEW g \in Rows PROVE g[sc] \in Int
          BY DEF Rows
        <4> QED BY <4>1, <4>2
      <3>3. ASSUME NEW x \in Int PROVE x * x \in Int
        OBVIOUS
      <3>4. d.ring[f - 1][sc] * d.ring[f - 1][sc] \in Int /\ e.ring[f - 1][sc] * e.ring[f - 1][sc] \in Int
        BY <3>2, <3>3
      <3> QED BY <3>1, <3>2, <3>4
    <2>6. s \in [1 .. W -> Int] /\ t \in [1 .. W -> Int] /\ s2 \in [1 .. W -> Int] /\ t2 \in [1 .. W -> Int]
      BY <2>1, <2>2, <2>3, <2>4, <2>5
    <2>7. PICK j \in 1 .. W : j = d.next + 1 /\ j - 1 = d.next
      BY <1>3, PresenceNumbers
    <2>8. d.sum[sc] = SumOf(s) /\ d.sumsq[sc] = SumOf(s2)
      BY <2>1, <2>3 DEF CarriedBy
    <2>9. CASE sc <= n
      <3>1. ASSUME NEW f \in 1 .. W, f # j PROVE t[f] = s[f] /\ t2[f] = s2[f]
        <4>1. f - 1 # d.next
          BY <1>3, <2>7, <3>1
        <4>2. e.ring[f - 1][sc] = d.ring[f - 1][sc]
          BY <1>2, <2>5, <4>1
        <4> QED BY <2>1, <2>2, <2>3, <2>4, <4>2
      <3>2. /\ s[j] = d.ring[d.next][sc] /\ t[j] = a[sc]
            /\ s2[j] = d.ring[d.next][sc] * d.ring[d.next][sc] /\ t2[j] = a[sc] * a[sc]
        <4>1. e.ring[d.next][sc] = a[sc]
          BY <1>2, <1>3, <2>9
        <4> QED BY <2>1, <2>2, <2>3, <2>4, <2>7, <4>1
      <3>3. SumOf(t) = SumOf(s) - s[j] + t[j]
        BY <1>3, <2>6, <3>1, SumChanged
      <3>4. SumOf(t2) = SumOf(s2) - s2[j] + t2[j]
        BY <1>3, <2>6, <3>1, SumChanged
      <3> QED BY <1>2, <2>2, <2>4, <2>8, <2>9, <3>2, <3>3, <3>4
    <2>10. CASE ~(sc <= n)
      <3>1. ASSUME NEW f \in 1 .. W PROVE e.ring[f - 1][sc] = d.ring[f - 1][sc]
        BY <1>2, <2>5, <2>10
      <3>2. t = s /\ t2 = s2
        BY <2>1, <2>2, <2>3, <2>4, <3>1
      <3> QED BY <1>2, <2>2, <2>4, <2>8, <2>10, <3>2
    <2> QED BY <2>9, <2>10
  <1> QED BY <1>1, <1>4 DEF CarriedBy

(* No variance is below nothing. *)
LEMMA CarriedVariance ==
  ASSUME NEW d \in Detectors, CarriedBy(d), NEW sc \in 1 .. MaxSc
  PROVE  /\ d.sum[sc] \in Nat /\ d.sumsq[sc] \in Nat
         /\ W * d.sumsq[sc] - d.sum[sc] * d.sum[sc] \in Nat
  <1>1. PICK s : s = [f \in 1 .. W |-> d.ring[f - 1][sc]]
    OBVIOUS
  <1>2. PICK t : t = [f \in 1 .. W |-> d.ring[f - 1][sc] * d.ring[f - 1][sc]]
    OBVIOUS
  <1>3. W \in Nat
    BY PresenceNumbers
  <1>4. ASSUME NEW f \in 1 .. W
        PROVE  d.ring[f - 1][sc] \in Nat /\ d.ring[f - 1][sc] * d.ring[f - 1][sc] \in Nat
    <2>1. f - 1 \in Slots2
      BY <1>3 DEF Slots2
    <2>2. d.ring[f - 1][sc] \in Nat
      BY <2>1 DEF Detectors, Rows
    <2> QED BY <2>2
  <1>5. /\ s \in [1 .. W -> Nat] /\ t \in [1 .. W -> Nat]
        /\ s \in [1 .. W -> Int] /\ t \in [1 .. W -> Int]
        /\ \A f \in 1 .. W : t[f] = s[f] * s[f]
    BY <1>1, <1>2, <1>4
  <1>6. d.sum[sc] = SumOf(s) /\ d.sumsq[sc] = SumOf(t)
    BY <1>1, <1>2 DEF CarriedBy
  <1>7. SumOf(s) \in Int /\ SumOf(t) \in Int
    BY <1>3, <1>5, SumRuns
  <1>8. SumOf(s) >= 0 /\ SumOf(t) >= 0
    BY <1>3, <1>5, SumAtLeast
  <1>9. W * SumOf(t) >= SumOf(s) * SumOf(s)
    BY <1>3, <1>5, SquaresOutweigh
  <1> QED BY <1>3, <1>6, <1>7, <1>8, <1>9

(* The wander is a number. *)
LEMMA WanderTyped ==
  ASSUME NEW d \in Detectors, CarriedBy(d), d.count > 0
  PROVE  ComputeWander(d) \in Nat
  <1>1. PICK n \in Nat \ {0} : n = d.count
    BY PresenceNumbers DEF Detectors
  <1>2. W \in Nat \ {0} /\ n \in 1 .. MaxSc /\ MaxSc \in Nat
    BY <1>1, PresenceNumbers DEF Detectors
  <1>3. ASSUME NEW sc \in 1 .. n PROVE Term(d.sum[sc], d.sumsq[sc]) \in Nat
    <2>1. sc \in 1 .. MaxSc
      BY <1>2
    <2>2. /\ d.sum[sc] \in Nat /\ W * d.sumsq[sc] - d.sum[sc] * d.sum[sc] \in Nat
      BY <2>1, CarriedVariance
    <2>3. PICK mean \in Nat : mean = d.sum[sc] \div W
      BY <1>2, <2>2
    <2>4. PICK v \in Nat : v = W * d.sumsq[sc] - d.sum[sc] * d.sum[sc]
      BY <2>2
    <2>5. Isqrt(256 * v) \in Nat
      <3>1. 256 * v \in Nat
        OBVIOUS
      <3> QED BY <3>1, IsqrtIs
    <2>6. PICK std \in Nat : std = Isqrt(256 * v) \div W
      BY <1>2, <2>5
    <2>7. Term(d.sum[sc], d.sumsq[sc]) = IF mean = 0 THEN 0 ELSE (std * 1000) \div (mean * 16)
      BY <2>3, <2>4, <2>6 DEF Term
    <2>8. mean # 0 => (std * 1000) \div (mean * 16) \in Nat
      OBVIOUS
    <2> QED BY <2>7, <2>8
  <1>4. PICK t : t = [sc \in 1..n |-> Term(d.sum[sc], d.sumsq[sc])]
    OBVIOUS
  <1>5. t \in [1 .. n -> Nat] /\ t \in [1 .. n -> Int] /\ n \in Nat
    BY <1>3, <1>4
  <1>6. SumOf(t) \in Int /\ SumOf(t) >= 0
    BY <1>5, SumRuns, SumAtLeast
  <1>7. ComputeWander(d) = SumOf(t) \div n
    BY <1>1, <1>4 DEF ComputeWander
  <1>8. PICK z \in Nat : z = SumOf(t)
    BY <1>6
  <1> QED BY <1>7, <1>8

-----------------------------------------------------------------------------
(* Its window *)

(* Where the i-th frame of the window lies. *)
SlotOf(d, i) ==
  IF d.filled < W THEN i - 1
  ELSE IF d.next + i - 1 < W THEN d.next + i - 1 ELSE d.next + i - 1 - W

(* The ring holds the frames of p, and nothing else counts. *)
WindowAt(d, p) ==
  /\ d.filled = Len(p)
  /\ d.filled < W => d.next = d.filled
  /\ \A i \in 1 .. Len(p) : Len(p[i].amplitude) = d.count
  /\ \A i \in 1 .. Len(p) : \A sc \in 1 .. d.count :
       d.ring[SlotOf(d, i)][sc] = p[i].amplitude[sc]

(* The window after a frame. *)
Extended(p, f) == IF Len(p) < W THEN Append(p, f) ELSE Append(Tail(p), f)

(* The sequence after a frame. *)
ExtendsTo(p, f, q) ==
  /\ q \in Seq(Feds)
  /\ Len(p) < W => /\ Len(q) = Len(p) + 1 /\ q[Len(p) + 1] = f
                   /\ \A i \in 1 .. Len(p) : q[i] = p[i]
  /\ Len(p) = W => /\ Len(q) = W /\ q[W] = f
                   /\ \A i \in 1 .. (W - 1) : q[i] = p[i + 1]

(* It is extended so. *)
LEMMA ExtendedIs ==
  ASSUME NEW p \in Seq(Feds), Len(p) <= W, NEW f \in Feds
  PROVE  ExtendsTo(p, f, Extended(p, f))
  <1>0. PICK q : q = Extended(p, f)
    OBVIOUS
  <1>1. W \in Nat \ {0}
    BY PresenceNumbers
  <1>2. CASE Len(p) < W
    <2>1. q = Append(p, f)
      BY <1>0, <1>2 DEF Extended
    <2> QED BY <1>0, <1>2, <2>1 DEF ExtendsTo
  <1>3. CASE Len(p) = W
    <2>1. q = Append(Tail(p), f)
      BY <1>0, <1>1, <1>3 DEF Extended
    <2>2. PICK t : t = Tail(p)
      OBVIOUS
    <2>3. t \in Seq(Feds) /\ Len(t) = W - 1 /\ \A i \in 1 .. (W - 1) : t[i] = p[i + 1]
      BY <1>1, <1>3, <2>2
    <2>4. q \in Seq(Feds) /\ Len(q) = (W - 1) + 1 /\ q[(W - 1) + 1] = f
          /\ \A i \in 1 .. (W - 1) : q[i] = t[i]
      BY <1>1, <2>1, <2>2, <2>3
    <2> QED BY <1>0, <1>1, <1>3, <2>3, <2>4 DEF ExtendsTo
  <1> QED BY <1>1, <1>2, <1>3

(* Where a slot lies, some places past another. *)
Past(u, j, w) == IF u + j < w THEN u + j ELSE u + j - w

(* Counted from the next slot. *)
LEMMA PastNext ==
  ASSUME NEW w \in Nat \ {0}, NEW u \in Nat, u < w, NEW j \in 1 .. w,
         NEW v \in Nat, v = IF u + 1 = w THEN 0 ELSE u + 1
  PROVE  /\ Past(u, j, w) \in Nat /\ Past(u, j, w) < w
         /\ (IF v + j - 1 < w THEN v + j - 1 ELSE v + j - 1 - w) = Past(u, j, w)
  <1> USE DEF Past
  <1>1. CASE u + 1 = w
    <2>1. v = 0 /\ u = w - 1
      BY <1>1
    <2>2. CASE j = w
      BY <2>1, <2>2
    <2>3. CASE j # w
      BY <2>1, <2>3
    <2> QED BY <2>2, <2>3
  <1>2. CASE u + 1 # w
    <2>1. v = u + 1 /\ v + j - 1 = u + j
      BY <1>2
    <2>2. CASE u + j < w
      BY <2>1, <2>2
    <2>3. CASE ~(u + j < w)
      BY <2>1, <2>3
    <2> QED BY <2>2, <2>3
  <1> QED BY <1>1, <1>2

(* A slot's values replaced, the window is the last W frames. *)
LEMMA SlidWindow ==
  ASSUME NEW d \in Detectors, NEW p \in Seq(Feds), WindowAt(d, p),
         NEW n \in 1 .. MaxSc, NEW a \in [1 .. n -> Nat], NEW f \in Feds,
         f.amplitude = a, Len(f.amplitude) = n, p # <<>> => n = d.count
  PROVE  WindowAt(Slid(d, a), Extended(p, f)) /\ Extended(p, f) \in Seq(Feds)
  <1>1. PICK e : e = Slid(d, a)
    OBVIOUS
  <1>2. PICK q : q = Extended(p, f)
    OBVIOUS
  <1>3. Replaced(d, n, a, e)
    BY <1>1, SlidIs
  <1>4. PICK m \in Nat : m = Len(p) /\ m = d.filled /\ m <= W
    BY PresenceNumbers DEF WindowAt, Detectors
  <1>5. W \in Nat \ {0} /\ n \in Nat /\ MaxSc \in Nat
    BY PresenceNumbers
  <1>6. /\ q \in Seq(Feds)
        /\ m < W => Len(q) = m + 1 /\ q[m + 1] = f /\ \A i \in 1 .. m : q[i] = p[i]
        /\ m = W => Len(q) = W /\ q[W] = f /\ \A i \in 1 .. (W - 1) : q[i] = p[i + 1]
    <2>1. Len(p) <= W
      BY <1>4
    <2>2. ExtendsTo(p, f, q)
      BY <1>2, <2>1, ExtendedIs
    <2> QED BY <1>4, <2>2 DEF ExtendsTo
  <1>7. PICK x \in Nat : x = d.next /\ x < W
    BY <1>5 DEF Detectors, Slots2
  <1>8. /\ e.count = n /\ e.next = (IF x + 1 = W THEN 0 ELSE x + 1)
        /\ e.filled = (IF m < W THEN m + 1 ELSE m)
    BY <1>3, <1>4, <1>7 DEF Replaced
  <1>9. ASSUME NEW k \in Nat, k < W, NEW sc \in 1 .. n
        PROVE  e.ring[k][sc] = IF k = x THEN a[sc] ELSE d.ring[k][sc]
    <2>1. k \in Slots2 /\ sc \in 1 .. MaxSc /\ sc <= n
      BY <1>5, <1>9 DEF Slots2
    <2> QED BY <1>3, <1>7, <2>1 DEF Replaced
  <1>10. m < W => x = m
    BY <1>4, <1>7 DEF WindowAt
  <1>11. m > 0 => n = d.count
    <2>1. p = <<>> => Len(p) = 0
      OBVIOUS
    <2> QED BY <1>4, <2>1
  <1>12. e.filled = Len(q) /\ (e.filled < W => e.next = e.filled)
    BY <1>4, <1>5, <1>6, <1>8, <1>10
  <1>13. ASSUME NEW i \in 1 .. Len(q)
         PROVE  /\ Len(q[i].amplitude) = n
                /\ \A sc \in 1 .. n : e.ring[SlotOf(e, i)][sc] = q[i].amplitude[sc]
    <2>1. CASE m < W
      <3>1. SlotOf(e, i) = i - 1 /\ i - 1 \in Nat /\ i - 1 < W /\ i \in Int
        <4>1. i \in 1 .. (m + 1)
          BY <1>6, <2>1
        <4>2. e.filled < W => SlotOf(e, i) = i - 1
          BY DEF SlotOf
        <4>3. ~(e.filled < W) => e.next = 0
          BY <1>4, <1>5, <1>8, <1>10, <2>1
        <4>4. ~(e.filled < W) => SlotOf(e, i) = i - 1
          BY <1>4, <1>5, <2>1, <4>1, <4>3 DEF SlotOf
        <4> QED BY <1>4, <1>5, <2>1, <4>1, <4>2, <4>4
      <3>2. CASE i = m + 1
        BY <1>6, <1>9, <1>10, <2>1, <3>1, <3>2
      <3>3. CASE i # m + 1
        <4>1. i \in 1 .. m /\ q[i] = p[i] /\ i - 1 # x
          BY <1>6, <1>10, <2>1, <3>3
        <4>2. n = d.count /\ SlotOf(d, i) = i - 1
          BY <1>4, <1>11, <2>1, <4>1 DEF SlotOf
        <4>3. /\ Len(p[i].amplitude) = n
              /\ \A sc \in 1 .. n : d.ring[i - 1][sc] = p[i].amplitude[sc]
          BY <1>4, <4>1, <4>2 DEF WindowAt
        <4> QED BY <1>9, <3>1, <4>1, <4>3
      <3> QED BY <3>2, <3>3
    <2>2. CASE m = W
      <3>1. PICK k \in Nat : k = SlotOf(e, i) /\ k < W
                             /\ k = IF x + i < W THEN x + i ELSE x + i - W
        <4>1. Len(q) = W /\ e.filled = W
          BY <1>4, <1>5, <1>6, <1>8, <2>2
        <4>2. i \in 1 .. W
          BY <4>1
        <4>3. PICK y \in Nat : y = e.next /\ y = (IF x + 1 = W THEN 0 ELSE x + 1)
          BY <1>8
        <4>4. ~(W < W)
          BY <1>5
        <4>5. SlotOf(e, i) = IF y + i - 1 < W THEN y + i - 1 ELSE y + i - 1 - W
          BY <4>1, <4>3, <4>4 DEF SlotOf
        <4>6. /\ Past(x, i, W) \in Nat /\ Past(x, i, W) < W
              /\ (IF y + i - 1 < W THEN y + i - 1 ELSE y + i - 1 - W) = Past(x, i, W)
          BY <1>5, <1>7, <4>2, <4>3, PastNext
        <4> QED BY <4>5, <4>6 DEF Past
      <3>2. CASE i = W
        <4>1. k = x
          BY <1>5, <1>7, <3>1, <3>2
        <4>2. q[i] = f /\ f.amplitude = a /\ Len(f.amplitude) = n
          BY <1>6, <2>2, <3>2
        <4> QED BY <1>9, <3>1, <4>1, <4>2
      <3>3. CASE i # W
        <4>0. Len(q) = W
          BY <1>6, <2>2
        <4>1. i \in 1 .. (W - 1) /\ i + 1 \in 1 .. m
          BY <1>4, <1>5, <2>2, <3>3, <4>0
        <4>9. q[i] = p[i + 1]
          BY <1>6, <2>2, <4>1
        <4>2. k # x
          BY <1>5, <1>7, <3>1, <4>1
        <4>3. n = d.count /\ SlotOf(d, i + 1) = k
          <5>1. ~(d.filled < W) /\ m > 0
            BY <1>4, <1>5, <2>2
          <5>2. SlotOf(d, i + 1) = IF x + (i + 1) - 1 < W THEN x + (i + 1) - 1 ELSE x + (i + 1) - 1 - W
            BY <1>7, <5>1 DEF SlotOf
          <5>3. x + (i + 1) - 1 = x + i
            BY <4>1
          <5> QED BY <1>11, <3>1, <5>1, <5>2, <5>3
        <4>4. /\ Len(p[i + 1].amplitude) = n
              /\ \A sc \in 1 .. n : d.ring[k][sc] = p[i + 1].amplitude[sc]
          BY <1>4, <4>1, <4>3 DEF WindowAt
        <4> QED BY <1>9, <3>1, <4>9, <4>2, <4>4
      <3> QED BY <3>2, <3>3
    <2> QED BY <1>4, <1>5, <2>1, <2>2
  <1>14. WindowAt(e, q)
    BY <1>8, <1>12, <1>13 DEF WindowAt
  <1> QED BY <1>1, <1>2, <1>6, <1>14

(* A subcarrier's amplitudes over some frames, and their squares. *)
Of(p, sc) == [i \in 1..Len(p) |-> p[i].amplitude[sc]]
SquaresOf(p, sc) == [i \in 1..Len(p) |-> Of(p, sc)[i] * Of(p, sc)[i]]

(* What is computed from the carried sums is what the frames would give. *)
LEMMA WanderIs ==
  ASSUME NEW d \in Detectors, CarriedBy(d), NEW p \in Seq(Feds), WindowAt(d, p), d.filled = W
  PROVE  ComputeWander(d) = RefWander(p)
  <1>1. W \in Nat \ {0} /\ MaxSc \in Nat
    BY PresenceNumbers
  <1>2. PICK n \in Nat : n = d.count /\ n <= MaxSc
    BY <1>1 DEF Detectors
  <1>3. Len(p) = W /\ 1 \in 1 .. Len(p)
    BY <1>1 DEF WindowAt
  <1>4. Len(p[1].amplitude) = n
    BY <1>2, <1>3 DEF WindowAt
  <1>5. PICK k \in 0 .. W : k = d.next /\ k < W
    BY <1>1 DEF Detectors, Slots2
  <1>6. ASSUME NEW sc \in 1 .. n
        PROVE  SumOf(Of(p, sc)) = d.sum[sc] /\ SumOf(SquaresOf(p, sc)) = d.sumsq[sc]
    <2>1. PICK s : s = [f \in 1 .. W |-> d.ring[f - 1][sc]]
      OBVIOUS
    <2>2. PICK u : u = [f \in 1 .. W |-> d.ring[f - 1][sc] * d.ring[f - 1][sc]]
      OBVIOUS
    <2>3. sc \in 1 .. MaxSc
      BY <1>1, <1>2
    <2>4. ASSUME NEW f \in 1 .. W
          PROVE  d.ring[f - 1][sc] \in Int /\ d.ring[f - 1][sc] * d.ring[f - 1][sc] \in Int
      <3>1. f - 1 \in Slots2
        BY <1>1 DEF Slots2
      <3>2. d.ring[f - 1] \in Rows
        BY <3>1 DEF Detectors
      <3>3. ASSUME NEW g \in Rows PROVE g[sc] \in Int
        BY <2>3 DEF Rows
      <3>4. d.ring[f - 1][sc] \in Int
        BY <3>2, <3>3
      <3> QED BY <3>4
    <2>5. s \in [1 .. W -> Int] /\ u \in [1 .. W -> Int]
      BY <2>1, <2>2, <2>4
    <2>6. PICK t : t = Of(p, sc)
      OBVIOUS
    <2>7. PICK v : v = SquaresOf(p, sc)
      OBVIOUS
    <2>8. ASSUME NEW i \in 1 .. W
          PROVE  /\ t[i] = s[IF k + i <= W THEN k + i ELSE k + i - W]
                 /\ v[i] = u[IF k + i <= W THEN k + i ELSE k + i - W]
                 /\ (IF k + i <= W THEN k + i ELSE k + i - W) \in 1 .. W
      <3>1. PICK j \in 1 .. W : j = IF k + i <= W THEN k + i ELSE k + i - W
        BY <1>1, <1>5
      <3>2. SlotOf(d, i) = j - 1
        <4>1. ~(d.filled < W)
          BY <1>1
        <4>2. SlotOf(d, i) = IF k + i - 1 < W THEN k + i - 1 ELSE k + i - 1 - W
          BY <1>5, <4>1 DEF SlotOf
        <4>3. ASSUME NEW w \in Nat \ {0}, NEW y \in 0 .. w, NEW z \in 1 .. w
              PROVE  (IF y + z - 1 < w THEN y + z - 1 ELSE y + z - 1 - w)
                     = (IF y + z <= w THEN y + z ELSE y + z - w) - 1
          OBVIOUS
        <4> QED BY <1>1, <1>5, <3>1, <4>2, <4>3
      <3>3. t[i] = p[i].amplitude[sc] /\ v[i] = t[i] * t[i]
        BY <1>3, <2>6, <2>7 DEF Of, SquaresOf
      <3>4. d.ring[j - 1][sc] = p[i].amplitude[sc]
        BY <1>2, <1>3, <3>2 DEF WindowAt
      <3>5. s[j] = d.ring[j - 1][sc] /\ u[j] = d.ring[j - 1][sc] * d.ring[j - 1][sc]
        BY <2>1, <2>2
      <3> QED BY <3>1, <3>3, <3>4, <3>5
    <2>9. t \in [1 .. W -> Int] /\ v \in [1 .. W -> Int]
      <3>1. ASSUME NEW i \in 1 .. W PROVE t[i] \in Int /\ v[i] \in Int
        BY <2>5, <2>8
      <3>2. DOMAIN t = 1 .. W /\ DOMAIN v = 1 .. W /\ t = [i \in 1 .. W |-> t[i]] /\ v = [i \in 1 .. W |-> v[i]]
        BY <1>3, <2>6, <2>7 DEF Of, SquaresOf
      <3> QED BY <3>1, <3>2
    <2>10. SumOf(t) = SumOf(s)
      <3>1. Turned(t, s, k, W)
        BY <2>8 DEF Turned
      <3>2. W \in Nat /\ k \in 0 .. W
        BY <1>1, <1>5
      <3>3. s \in [1 .. W -> Int] /\ t \in [1 .. W -> Int]
        BY <2>5, <2>9
      <3> QED BY <3>1, <3>2, <3>3, SumTurned
    <2>11. SumOf(v) = SumOf(u)
      <3>1. Turned(v, u, k, W)
        BY <2>8 DEF Turned
      <3>2. W \in Nat /\ k \in 0 .. W
        BY <1>1, <1>5
      <3>3. u \in [1 .. W -> Int] /\ v \in [1 .. W -> Int]
        BY <2>5, <2>9
      <3> QED BY <3>1, <3>2, <3>3, SumTurned
    <2>12. d.sum[sc] = SumOf(s) /\ d.sumsq[sc] = SumOf(u)
      BY <2>1, <2>2, <2>3 DEF CarriedBy
    <2> QED BY <2>6, <2>7, <2>10, <2>11, <2>12
  <1>7. PICK x : x = [sc \in 1..n |-> Term(d.sum[sc], d.sumsq[sc])]
    OBVIOUS
  <1>8. PICK y : y = [sc \in 1..n |-> Term(SumOf(Of(p, sc)), SumOf(SquaresOf(p, sc)))]
    OBVIOUS
  <1>9. x = y
    BY <1>6, <1>7, <1>8
  <1>10. ComputeWander(d) = SumOf(x) \div n
    BY <1>2, <1>7 DEF ComputeWander
  <1>11. RefWander(p) = SumOf(y) \div n
    BY <1>4, <1>8 DEF RefWander, Of, SquaresOf
  <1> QED BY <1>9, <1>10, <1>11

-----------------------------------------------------------------------------
(* Its verdict *)

(* The window and its sums are the other's. *)
Kept(d, e) ==
  /\ e.ring = d.ring /\ e.sum = d.sum /\ e.sumsq = d.sumsq
  /\ e.count = d.count /\ e.filled = d.filled /\ e.next = d.next

(* What is said of a window is said of what keeps it. *)
LEMMA KeptHolds ==
  ASSUME NEW d, NEW e, Kept(d, e)
  PROVE  /\ CarriedBy(d) => CarriedBy(e)
         /\ \A p : WindowAt(d, p) => WindowAt(e, p)
  <1>1. CarriedBy(d) => CarriedBy(e)
    BY DEF Kept, CarriedBy
  <1>2. ASSUME NEW p, WindowAt(d, p) PROVE WindowAt(e, p)
    <2>1. ASSUME NEW i PROVE SlotOf(e, i) = SlotOf(d, i)
      BY DEF SlotOf, Kept
    <2>2. /\ e.filled = Len(p)
          /\ e.filled < W => e.next = e.filled
          /\ \A i \in 1 .. Len(p) : Len(p[i].amplitude) = e.count
      BY <1>2 DEF WindowAt, Kept
    <2>3. ASSUME NEW i \in 1 .. Len(p), NEW sc \in 1 .. e.count
          PROVE  e.ring[SlotOf(e, i)][sc] = p[i].amplitude[sc]
      BY <1>2, <2>1 DEF WindowAt, Kept
    <2> QED BY <2>2, <2>3 DEF WindowAt
  <1> QED BY <1>1, <1>2

(* The detector, a frame time or the hold later. *)
Later(d, dt, e) ==
  /\ e \in Detectors /\ Kept(d, e) /\ e.present = d.present
  /\ \A x \in 0 .. Hold : /\ Capped(x + dt) \in 0 .. Hold
                          /\ x >= d.age => Capped(x + dt) >= e.age
                          /\ x = Hold => Capped(x + dt) = Hold

(* It is still one. *)
LEMMA AgedIs ==
  ASSUME NEW d \in Detectors, NEW dt \in {1, Hold}
  PROVE  Later(d, dt, [d EXCEPT !.age = Capped(@ + dt)])
  <1>0. PICK e : e = [d EXCEPT !.age = Capped(@ + dt)]
    OBVIOUS
  <1>1. Hold \in Nat \ {0} /\ dt \in Nat
    BY PresenceNumbers
  <1>2. PICK a \in 0 .. Hold : a = d.age
    BY DEF Detectors
  <1>3. Capped(a + dt) \in 0 .. Hold
    BY <1>1 DEF Capped
  <1>4. e = [d EXCEPT !.age = Capped(a + dt)]
    BY <1>0, <1>2 DEF Detectors
  <1>5. e.age = Capped(a + dt) /\ Kept(d, e) /\ e.wander = d.wander /\ e.present = d.present
    BY <1>4 DEF Detectors, Kept
  <1>6. e \in Detectors
    BY <1>3, <1>4 DEF Detectors
  <1>7. \A x \in 0 .. Hold : /\ Capped(x + dt) \in 0 .. Hold
                             /\ x >= a => Capped(x + dt) >= Capped(a + dt)
                             /\ x = Hold => Capped(x + dt) = Hold
    BY <1>1 DEF Capped
  <1> QED BY <1>0, <1>2, <1>5, <1>6, <1>7 DEF Later

(* A detector begun again. *)
LEMMA ResetIs ==
  ASSUME NEW d \in Detectors, NEW e, e = Reset(d)
  PROVE  /\ e \in Detectors /\ e.filled = 0 /\ ~e.present /\ e.age = d.age
         /\ CarriedBy(d) => CarriedBy(e)
         /\ WindowAt(e, <<>>)
  <1>1. W \in Nat \ {0} /\ MaxSc \in Nat
    BY PresenceNumbers
  <1>2. /\ e.filled = 0 /\ e.next = 0 /\ e.present = FALSE /\ e.age = d.age
        /\ e.ring = d.ring /\ e.sum = d.sum /\ e.sumsq = d.sumsq
    BY DEF Reset, Detectors
  <1>3. e \in Detectors
    <2>1. 0 \in Slots2 /\ 0 \in 0 .. MaxSc /\ 0 \in 0 .. W /\ 0 \in Nat /\ FALSE \in BOOLEAN
      BY <1>1 DEF Slots2
    <2> QED BY <2>1 DEF Reset, Detectors
  <1>4. CarriedBy(d) => CarriedBy(e)
    BY <1>2 DEF CarriedBy
  <1>5. WindowAt(e, <<>>)
    <2>1. Len(<<>>) = 0 /\ \A i \in 1 .. 0 : FALSE
      OBVIOUS
    <2> QED BY <1>2, <2>1 DEF WindowAt
  <1> QED BY <1>2, <1>3, <1>4, <1>5

(* What the verdict on a full window is. *)
Sentenced(d, c, e) ==
  /\ e \in Detectors /\ Kept(d, e) /\ e.wander = ComputeWander(d)
  /\ ComputeWander(d) >= c.on => e.present /\ e.age = 0
  /\ ~(ComputeWander(d) >= c.on) =>
       /\ e.age = d.age
       /\ e.present => d.present
       /\ ~e.present => ~d.present \/ d.age >= Hold

(* Judged gives it. *)
LEMMA JudgedIs ==
  ASSUME NEW d \in Detectors, CarriedBy(d), d.count > 0, NEW c
  PROVE  Sentenced(d, c, Judged(d, c))
  <1>1. PICK w \in Nat : w = ComputeWander(d)
    BY WanderTyped
  <1>2. PICK e : e = Judged(d, c)
    OBVIOUS
  <1>3. Hold \in Nat /\ 0 \in 0 .. Hold
    BY PresenceNumbers
  <1>4. PICK d1 : d1 = [d EXCEPT !.wander = w]
    OBVIOUS
  <1>5. /\ d1 \in Detectors /\ Kept(d, d1) /\ d1.wander = w
        /\ d1.present = d.present /\ d1.age = d.age
    BY <1>4 DEF Detectors, Kept
  <1>6. e = IF w >= c.on THEN [d1 EXCEPT !.present = TRUE, !.age = 0]
            ELSE IF d.present /\ w <= c.off /\ d.age >= Hold THEN [d1 EXCEPT !.present = FALSE]
            ELSE d1
    BY <1>1, <1>2, <1>4 DEF Judged
  <1>7. CASE w >= c.on
    <2>1. e = [d1 EXCEPT !.present = TRUE, !.age = 0]
      BY <1>6, <1>7
    <2>2. e \in Detectors /\ Kept(d1, e) /\ e.wander = w /\ e.present = TRUE /\ e.age = 0
      BY <1>3, <1>5, <2>1 DEF Detectors, Kept
    <2>3. Kept(d, e)
      BY <1>5, <2>2 DEF Kept
    <2> QED BY <1>1, <1>2, <1>7, <2>2, <2>3 DEF Sentenced
  <1>8. CASE ~(w >= c.on) /\ d.present /\ w <= c.off /\ d.age >= Hold
    <2>1. e = [d1 EXCEPT !.present = FALSE]
      BY <1>6, <1>8
    <2>2. e \in Detectors /\ Kept(d1, e) /\ e.wander = w /\ e.present = FALSE /\ e.age = d.age
      BY <1>5, <2>1 DEF Detectors, Kept
    <2>3. Kept(d, e)
      BY <1>5, <2>2 DEF Kept
    <2> QED BY <1>1, <1>2, <1>8, <2>2, <2>3 DEF Sentenced
  <1>9. CASE ~(w >= c.on) /\ ~(d.present /\ w <= c.off /\ d.age >= Hold)
    <2>1. e = d1
      BY <1>6, <1>9
    <2> QED BY <1>1, <1>2, <1>5, <1>9, <2>1 DEF Sentenced
  <1> QED BY <1>7, <1>8, <1>9

(* What is always true of the detector, its history and its hold. *)
Follows(d, p, x) ==
  /\ d \in Detectors /\ p \in Seq(Feds) /\ x \in 0 .. Hold
  /\ CarriedBy(d) /\ WindowAt(d, p)
  /\ d.filled = W => d.wander = RefWander(p)
  /\ d.present => x >= d.age
  /\ ~d.present => x = Hold

(* What a frame makes of the detector, after the reset it may need. *)
LEMMA FrameFollows ==
  ASSUME NEW d \in Detectors, NEW p \in Seq(Feds), CarriedBy(d), WindowAt(d, p),
         NEW f \in Feds, p # <<>> => Len(f.amplitude) = d.count, NEW c,
         NEW x \in 0 .. Hold, d.present => x >= d.age, ~d.present => x = Hold,
         NEW e, e = (LET d1 == Slid(d, f.amplitude) IN IF d1.filled < W THEN d1 ELSE Judged(d1, c)),
         NEW q, q = Extended(p, f),
         NEW y \in 0 .. Hold, Len(q) = W /\ RefWander(q) >= c.on => y = 0,
         ~(Len(q) = W /\ RefWander(q) >= c.on) => y >= x
  PROVE  Follows(e, q, y)
  <1>0. PICK n \in 1 .. MaxSc : \E a \in [1 .. n -> Nat] :
          f = Measured(a) /\ f.amplitude = a /\ Len(f.amplitude) = n
    BY FedIs
  <1>1. PICK a \in [1 .. n -> Nat] : f = Measured(a) /\ f.amplitude = a /\ Len(f.amplitude) = n
    BY <1>0
  <1>2. PICK d1 : d1 = Slid(d, a)
    OBVIOUS
  <1>3. CarriedBy(d1) /\ Replaced(d, n, a, d1)
    BY <1>2, SlidCarries, SlidIs
  <1>4. /\ d1 \in Detectors /\ d1.count = n /\ d1.present = d.present /\ d1.age = d.age
    BY <1>3 DEF Replaced
  <1>5. WindowAt(d1, q) /\ q \in Seq(Feds)
    <2>1. p # <<>> => n = d.count
      BY <1>1
    <2> QED BY <1>1, <1>2, <2>1, SlidWindow
  <1>6. W \in Nat \ {0} /\ Hold \in Nat \ {0} /\ n \in Nat \ {0} /\ d.age \in 0 .. Hold
        /\ d.present \in BOOLEAN
    BY PresenceNumbers DEF Detectors
  <1>7. d1.filled = Len(q) /\ d1.filled \in 0 .. W
    BY <1>4, <1>5 DEF WindowAt, Detectors
  <1>8. e = IF d1.filled < W THEN d1 ELSE Judged(d1, c)
    BY <1>1, <1>2
  <1>9. CASE d1.filled < W
    <2>1. e = d1 /\ d1.filled # W /\ Len(q) # W
      BY <1>6, <1>7, <1>8, <1>9
    <2>2. y >= x
      BY <2>1
    <2>3. d.present => y >= d.age
      BY <1>6, <2>2
    <2>4. ~d.present => y = Hold
      BY <1>6, <2>2
    <2> QED BY <1>3, <1>4, <1>5, <2>1, <2>3, <2>4 DEF Follows
  <1>10. CASE ~(d1.filled < W)
    <2>1. d1.filled = W /\ Len(q) = W
      BY <1>6, <1>7, <1>10
    <2>2. ComputeWander(d1) = RefWander(q)
      BY <1>3, <1>4, <1>5, <2>1, WanderIs
    <2>3. e = Judged(d1, c) /\ d1.count > 0
      BY <1>4, <1>6, <1>8, <1>10
    <2>4. /\ e \in Detectors /\ Kept(d1, e) /\ e.wander = RefWander(q)
          /\ RefWander(q) >= c.on => e.present /\ e.age = 0
          /\ ~(RefWander(q) >= c.on) =>
               /\ e.age = d1.age
               /\ e.present => d1.present
               /\ ~e.present => ~d1.present \/ d1.age >= Hold
      <3>1. Sentenced(d1, c, Judged(d1, c))
        BY <1>3, <1>4, <2>3, JudgedIs
      <3> QED BY <2>2, <2>3, <3>1 DEF Sentenced
    <2>5. CarriedBy(e) /\ WindowAt(e, q)
      BY <1>3, <1>5, <2>4, KeptHolds
    <2>6. CASE RefWander(q) >= c.on
      <3>1. y = 0 /\ e.present /\ e.age = 0
        BY <2>1, <2>4, <2>6
      <3>2. y >= e.age
        BY <3>1
      <3> QED BY <1>5, <2>4, <2>5, <3>1, <3>2 DEF Follows
    <2>7. CASE ~(RefWander(q) >= c.on)
      <3>1. y >= x
        BY <2>7
      <3>2. e.present => y >= e.age
        BY <1>4, <1>6, <2>4, <2>7, <3>1
      <3>3. ~e.present => y = Hold
        BY <1>4, <1>6, <2>4, <2>7, <3>1
      <3> QED BY <1>5, <2>4, <2>5, <3>2, <3>3 DEF Follows
    <2> QED BY <2>6, <2>7
  <1> QED BY <1>9, <1>10

(* The inductive invariant. *)
PresenceInv == Follows(det, pushed, quiet) /\ normalise \in BOOLEAN

(* The first state. *)
LEMMA PresenceBegins == PresenceInit => PresenceInv
  <1> SUFFICES ASSUME PresenceInit PROVE PresenceInv
    OBVIOUS
  <1>1. W \in Nat \ {0} /\ Hold \in Nat \ {0} /\ MaxSc \in Nat \ {0}
    BY PresenceNumbers
  <1>2. PICK none : none = [sc \in 1..MaxSc |-> 0]
    OBVIOUS
  <1>3. none \in Rows /\ none \in Tallies /\ \A sc \in 1 .. MaxSc : none[sc] = 0
    BY <1>2 DEF Rows, Tallies
  <1>4. PICK slots : slots = [f \in Slots2 |-> none]
    OBVIOUS
  <1>5. slots \in [Slots2 -> Rows] /\ \A f \in Slots2 : slots[f] = none
    BY <1>3, <1>4
  <1>6. det = [ring |-> slots, sum |-> none, sumsq |-> none, count |-> 0, filled |-> 0, next |-> 0,
               wander |-> 0, present |-> FALSE, age |-> Hold]
    BY <1>2, <1>4 DEF PresenceInit, Slots2
  <1>7. det \in Detectors
    <2>1. 0 \in Slots2 /\ 0 \in 0 .. MaxSc /\ 0 \in 0 .. W /\ 0 \in Nat /\ FALSE \in BOOLEAN
          /\ Hold \in 0 .. Hold
      BY <1>1 DEF Slots2
    <2> QED BY <1>3, <1>5, <1>6, <2>1 DEF Detectors
  <1>8. CarriedBy(det)
    <2>1. ASSUME NEW sc \in 1 .. MaxSc
          PROVE  /\ det.sum[sc] = SumOf([f \in 1 .. W |-> det.ring[f - 1][sc]])
                 /\ det.sumsq[sc] = SumOf([f \in 1 .. W |-> det.ring[f - 1][sc] * det.ring[f - 1][sc]])
      <3>1. PICK s : s = [f \in 1 .. W |-> det.ring[f - 1][sc]]
        OBVIOUS
      <3>2. PICK t : t = [f \in 1 .. W |-> det.ring[f - 1][sc] * det.ring[f - 1][sc]]
        OBVIOUS
      <3>3. ASSUME NEW f \in 1 .. W PROVE det.ring[f - 1][sc] = 0 /\ det.ring[f - 1][sc] * det.ring[f - 1][sc] = 0
        <4>1. f - 1 \in Slots2
          BY <1>1 DEF Slots2
        <4>2. det.ring[f - 1][sc] = 0
          BY <1>3, <1>5, <1>6, <4>1
        <4> QED BY <4>2
      <3>4. /\ s \in [1 .. W -> Int] /\ t \in [1 .. W -> Int]
            /\ \A f \in 1 .. W : s[f] = 0 /\ t[f] = 0
        BY <3>1, <3>2, <3>3
      <3>5. SumOf(s) = 0 /\ SumOf(t) = 0
        BY <1>1, <3>4, SumNone
      <3> QED BY <1>3, <1>6, <3>1, <3>2, <3>5
    <2> QED BY <2>1 DEF CarriedBy
  <1>9. pushed = <<>> /\ <<>> \in Seq(Feds) /\ Len(<<>>) = 0
    BY DEF PresenceInit
  <1>10. WindowAt(det, pushed)
    <2>1. det.filled = 0 /\ det.next = 0
      BY <1>6
    <2>2. \A i \in 1 .. 0 : FALSE
      OBVIOUS
    <2> QED BY <1>9, <2>1, <2>2 DEF WindowAt
  <1>11. det.filled # W /\ ~det.present /\ quiet = Hold /\ Hold \in 0 .. Hold
    BY <1>1, <1>6 DEF PresenceInit
  <1> QED BY <1>7, <1>8, <1>9, <1>10, <1>11 DEF PresenceInit, PresenceInv, Follows

(* A frame. *)
LEMMA PushFollows ==
  ASSUME PresenceInv, Push
  PROVE  PresenceInv'
  <1>0. PICK entry \in [1..Entries -> Samples], lay \in Layouts, gain \in Gains, dt \in {1, Hold} :
          \E f \in {Frame(entry, lay, gain)} :
          \E d \in {Pushed([det EXCEPT !.age = Capped(@ + dt)], f, config)} :
            /\ det' = d
            /\ pushed' = IF pushed # <<>> /\ Len(pushed[1].amplitude) # Len(f.amplitude) THEN <<f>>
                         ELSE IF Len(pushed) < W THEN Append(pushed, f) ELSE Append(Tail(pushed), f)
            /\ quiet' = IF Len(pushed') = W /\ RefWander(pushed') >= config.on THEN 0
                        ELSE IF Len(pushed') = 1 THEN Hold
                        ELSE Capped(quiet + dt)
            /\ UNCHANGED <<normalise, config, base>>
    BY DEF Push
  <1>1. PICK f : f = Frame(entry, lay, gain)
    OBVIOUS
  <1>2. PICK d : d = [det EXCEPT !.age = Capped(@ + dt)]
    OBVIOUS
  <1>3. /\ det' = Pushed(d, f, config)
        /\ pushed' = IF pushed # <<>> /\ Len(pushed[1].amplitude) # Len(f.amplitude) THEN <<f>>
                     ELSE Extended(pushed, f)
        /\ quiet' = IF Len(pushed') = W /\ RefWander(pushed') >= config.on THEN 0
                    ELSE IF Len(pushed') = 1 THEN Hold
                    ELSE Capped(quiet + dt)
        /\ normalise' = normalise
    BY <1>0, <1>1, <1>2 DEF Extended
  <1>4. f \in Feds
    BY <1>1, FramesAreFed
  <1>5. W \in Nat \ {0} /\ Hold \in Nat \ {0}
    BY PresenceNumbers
  <1>6. /\ det \in Detectors /\ pushed \in Seq(Feds) /\ quiet \in 0 .. Hold
        /\ CarriedBy(det) /\ WindowAt(det, pushed)
        /\ det.present => quiet >= det.age
        /\ ~det.present => quiet = Hold
    BY DEF PresenceInv, Follows
  <1>7. /\ d \in Detectors /\ Kept(det, d) /\ d.present = det.present
        /\ \A x \in 0 .. Hold : /\ Capped(x + dt) \in 0 .. Hold
                                /\ x >= det.age => Capped(x + dt) >= d.age
                                /\ x = Hold => Capped(x + dt) = Hold
    <2>1. Later(det, dt, d)
      BY <1>2, <1>6, AgedIs
    <2> QED BY <2>1 DEF Later
  <1>8. CarriedBy(d) /\ WindowAt(d, pushed)
    BY <1>6, <1>7, KeptHolds
  <1>9. PICK x \in 0 .. Hold : x = Capped(quiet + dt)
    BY <1>6, <1>7
  <1>10. (d.present => x >= d.age) /\ (~d.present => x = Hold)
    BY <1>6, <1>7, <1>9
  <1>11. pushed # <<>> => d.filled > 0 /\ Len(pushed[1].amplitude) = d.count
    <2>1. pushed # <<>> => Len(pushed) > 0 /\ 1 \in 1 .. Len(pushed)
      BY <1>6
    <2> QED BY <1>8, <2>1 DEF WindowAt
  <1>12. pushed = <<>> => d.filled = 0 /\ ~(d.filled > 0)
    <2>1. Len(<<>>) = 0
      OBVIOUS
    <2> QED BY <1>8, <2>1 DEF WindowAt
  <1>13. PICK y : y = quiet'
    OBVIOUS
  <1>14. d.age \in 0 .. Hold
    BY <1>7 DEF Detectors
  <1>15. CASE pushed # <<>> /\ Len(pushed[1].amplitude) # Len(f.amplitude)
    <2>1. PICK d0 : d0 = Reset(d)
      OBVIOUS
    <2>2. /\ d0 \in Detectors /\ ~d0.present /\ CarriedBy(d0) /\ WindowAt(d0, <<>>)
      BY <1>7, <1>8, <2>1, ResetIs
    <2>3. det' = (LET d1 == Slid(d0, f.amplitude) IN IF d1.filled < W THEN d1 ELSE Judged(d1, config))
      BY <1>3, <1>11, <1>15, <2>1 DEF Pushed
    <2>4. pushed' = Extended(<<>>, f) /\ Len(pushed') = 1
      <3>1. Len(<<>>) = 0 /\ 0 < W /\ Append(<<>>, f) = <<f>> /\ Len(<<f>>) = 1
        BY <1>5
      <3> QED BY <1>3, <1>15, <3>1 DEF Extended
    <2>5. PICK z \in 0 .. Hold : z = Hold
      BY <1>5
    <2>6. /\ y \in 0 .. Hold
          /\ Len(pushed') = W /\ RefWander(pushed') >= config.on => y = 0
          /\ ~(Len(pushed') = W /\ RefWander(pushed') >= config.on) => y >= z
      BY <1>3, <1>5, <1>13, <2>4, <2>5
    <2>7. <<>> \in Seq(Feds)
      OBVIOUS
    <2>8. Follows(det', pushed', y)
      BY <1>4, <2>2, <2>3, <2>4, <2>5, <2>6, <2>7, FrameFollows
    <2> QED BY <1>3, <1>13, <2>8 DEF PresenceInv
  <1>16. CASE ~(pushed # <<>> /\ Len(pushed[1].amplitude) # Len(f.amplitude))
    <2>1. det' = (LET d1 == Slid(d, f.amplitude) IN IF d1.filled < W THEN d1 ELSE Judged(d1, config))
      BY <1>3, <1>11, <1>12, <1>16 DEF Pushed
    <2>2. pushed' = Extended(pushed, f)
      BY <1>3, <1>16
    <2>3. pushed # <<>> => Len(f.amplitude) = d.count
      BY <1>11, <1>16
    <2>4. /\ y \in 0 .. Hold
          /\ Len(pushed') = W /\ RefWander(pushed') >= config.on => y = 0
          /\ ~(Len(pushed') = W /\ RefWander(pushed') >= config.on) => y >= x
      BY <1>3, <1>5, <1>9, <1>13
    <2>5. Follows(det', pushed', y)
      BY <1>4, <1>6, <1>7, <1>8, <1>9, <1>10, <2>1, <2>2, <2>3, <2>4, FrameFollows
    <2> QED BY <1>3, <1>13, <2>5 DEF PresenceInv
  <1> QED BY <1>15, <1>16

(* Every step. *)
LEMMA PresenceStays == PresenceInv /\ [PresenceNext]_presenceVars => PresenceInv'
  <1> SUFFICES ASSUME PresenceInv, [PresenceNext]_presenceVars PROVE PresenceInv'
    OBVIOUS
  <1>1. CASE Push
    BY <1>1, PushFollows
  <1>2. CASE ForgetWindow
    <2>1. det' = Reset(det) /\ pushed' = <<>> /\ quiet' = Hold /\ normalise' = normalise
      BY <1>2 DEF ForgetWindow
    <2>2. det \in Detectors /\ CarriedBy(det) /\ normalise \in BOOLEAN
      BY DEF PresenceInv, Follows
    <2>3. /\ det' \in Detectors /\ det'.filled = 0 /\ ~det'.present /\ CarriedBy(det')
          /\ WindowAt(det', <<>>)
      BY <2>1, <2>2, ResetIs
    <2>4. W # 0 /\ Hold \in 0 .. Hold /\ <<>> \in Seq(Feds)
      BY PresenceNumbers
    <2>5. Follows(det', pushed', quiet')
      BY <2>1, <2>3, <2>4 DEF Follows
    <2> QED BY <2>1, <2>2, <2>5 DEF PresenceInv
  <1>3. CASE UNCHANGED <<det, pushed, quiet, normalise>>
    BY <1>3 DEF PresenceInv, Follows, CarriedBy, WindowAt, SlotOf, RefWander, Term
  <1>4. CASE SetConfig
    BY <1>3, <1>4 DEF SetConfig
  <1>5. CASE Calibrate
    BY <1>3, <1>5 DEF Calibrate
  <1>6. CASE UNCHANGED presenceVars
    BY <1>3, <1>6 DEF presenceVars
  <1> QED BY <1>1, <1>2, <1>4, <1>5, <1>6 DEF PresenceNext

(* What follows of it. *)
LEMMA PresenceInvExact == PresenceInv => PresenceExact
  <1> SUFFICES ASSUME PresenceInv PROVE PresenceExact
    OBVIOUS
  <1>1. /\ det \in Detectors /\ pushed \in Seq(Feds) /\ quiet \in 0 .. Hold
        /\ CarriedBy(det) /\ WindowAt(det, pushed)
        /\ det.filled = W => det.wander = RefWander(pushed)
        /\ ~det.present => quiet = Hold
    BY DEF PresenceInv, Follows
  <1>2. W \in Nat \ {0} /\ Hold \in Nat \ {0}
    BY PresenceNumbers
  <1>3. CarriedSums
    BY <1>1 DEF CarriedSums, CarriedBy
  <1>4. WanderOfTheWindow
    BY <1>1 DEF WanderOfTheWindow, WindowAt
  <1>5. RootExact
    <2>1. ASSUME NEW sc \in 1 .. MaxSc,
                 NEW v, v = 256 * (W * det.sumsq[sc] - det.sum[sc] * det.sum[sc])
          PROVE  v >= 0 /\ (v \div 65536 < 65536 =>
                              Isqrt(v) * Isqrt(v) <= v /\ v < (Isqrt(v) + 1) * (Isqrt(v) + 1))
      <3>1. W * det.sumsq[sc] - det.sum[sc] * det.sum[sc] \in Nat
        BY <1>1, CarriedVariance
      <3>2. v \in Nat
        <4>1. PICK z \in Nat : z = W * det.sumsq[sc] - det.sum[sc] * det.sum[sc]
          BY <3>1
        <4> QED BY <2>1, <4>1
      <3>3. v \div 65536 < 65536 => v < Full
        BY <3>2 DEF Full
      <3> QED BY <3>2, <3>3, IsqrtIs
    <2> QED BY <2>1 DEF RootExact
  <1>6. HeldAfterMotion
    <2>1. Verdict(det) = "Absent" => ~det.present
      BY DEF Verdict
    <2> QED BY <1>1, <1>2, <2>1 DEF HeldAfterMotion
  <1>7. GainIsNotMotion
    <2>1. ASSUME NEW f \in Range(pushed), NEW g \in Gains,
                 NEW s, s = Normalised(Measured([k \in 1..Len(f.amplitude) |-> g * f.amplitude[k]]))
          PROVE  s = Normalised(f) /\ Distance(s) = Distance(Normalised(f))
      <3>1. f \in Feds
        BY <1>1 DEF Range
      <3>2. g \in Nat \ {0}
        BY PresenceAssumption
      <3>3. s = Normalised(f)
        BY <2>1, <3>1, <3>2, GainCancels
      <3> QED BY <3>3
    <2> QED BY <2>1 DEF GainIsNotMotion
  <1> QED BY <1>3, <1>4, <1>5, <1>6, <1>7 DEF PresenceExact

(* The amplitude detector's verdict is about its window, and the window is *)
(* what was pushed; in the code, PresenceDetector::push.                   *)
THEOREM PresenceFindsWhatMoved == PresenceSpec => []PresenceExact
  <1>1. PresenceInit => PresenceInv
    BY PresenceBegins
  <1>2. PresenceInv /\ [PresenceNext]_presenceVars => PresenceInv'
    BY PresenceStays
  <1>3. PresenceInv => PresenceExact
    BY PresenceInvExact
  <1> QED BY <1>1, <1>2, <1>3, PTL DEF PresenceSpec

=============================================================================
