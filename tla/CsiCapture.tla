----------------------------- MODULE CsiCapture -----------------------------
(***************************************************************************)
(* Channel state on ESP-IDF: the callback on the Wi-Fi task parks frames   *)
(* in a ring (rusty_esp_signal-esp, csi_queue.rs and idf/csi.rs) that the  *)
(* sketch drains on its own thread and streams as encoded samples          *)
(* (rusty_esp_signal-core, radar/csi_stream.rs).  The callback shares four *)
(* atomics and one mutex with begin, end and poll.  ESP-IDF runs the       *)
(* callback and its own API calls on the Wi-Fi task, so turning capture    *)
(* off returns when no callback runs.                                      *)
(***************************************************************************)
EXTENDS Naturals, Sequences

CONSTANTS
  CAPACITY,     \* frames the ring holds
  MAX_IQ,       \* most I/Q bytes a sample carries
  Lengths,      \* how many bytes the chip's buffer may hold
  NeededEntries,      \* complex entries a layout needs
  MaxCallbacks, \* bound: buffers the radio delivers
  MaxBegins     \* bound: calls of begin

ASSUME CaptureAssumption ==
  /\ CAPACITY \in Nat \ {0}
  /\ MAX_IQ \in Nat /\ NeededEntries \in Nat
  /\ Lengths \subseteq Nat
  /\ MaxCallbacks \in Nat /\ MaxBegins \in Nat

VARIABLES
  layout,   \* LAYOUT: 0 none, 1 LLTF, 2 HT-LTF
  stats,    \* RECEIVED, DROPPED, SHORT
  ring,     \* the Ring: slots, head and len
  holder,   \* who holds the ring's mutex: "none" or "sketch"
  cb,       \* the callback in progress, or NoCallback
  sketch,   \* where the sketch's thread is
  radio,    \* ESP-IDF: which field it captures, and whether
  last,     \* history: when the last frame taken was delivered
  taken,    \* history: frames taken since begin
  heard,    \* history: samples a subscriber decoded, with the frames they came from
  clock,    \* callbacks so far, each one's time
  begins

captureVars == <<layout, stats, ring, holder, cb, sketch, radio, last, taken, heard, clock, begins>>

NoFrame == [at |-> 0, layout |-> 0, field |-> 0, len |-> 0]
NoCallback == [stage |-> "none"]
Idle == [at |-> "idle"]

EmptyRing == [frames |-> [i \in 0..(CAPACITY - 1) |-> NoFrame], head |-> 0, len |-> 0]

CaptureInit ==
  /\ layout = 0
  /\ stats = [received |-> 0, dropped |-> 0, short |-> 0]
  /\ ring = EmptyRing
  /\ holder = "none"
  /\ cb = NoCallback
  /\ sketch = Idle
  /\ radio = [on |-> FALSE, field |-> 0]
  /\ last = 0 /\ taken = 0 /\ clock = 0 /\ begins = 0
  /\ heard = {}

-----------------------------------------------------------------------------
(* The ring *)

(* Ring::push: when full, the oldest is overwritten. *)
RingPush(r, frame) ==
  [r EXCEPT !.frames[(r.head + r.len) % CAPACITY] = frame,
            !.head = IF r.len = CAPACITY THEN (@ + 1) % CAPACITY ELSE @,
            !.len = IF r.len = CAPACITY THEN @ ELSE @ + 1]

(* Ring::pop, of a ring that is not empty. *)
Popped(r) ==
  [r EXCEPT !.frames[r.head] = NoFrame, !.head = (@ + 1) % CAPACITY, !.len = @ - 1]

-----------------------------------------------------------------------------
(* The callback, on the Wi-Fi task *)

(* The radio has a buffer of the field it captures. *)
CsiArrives ==
  /\ radio.on
  /\ cb = NoCallback
  /\ clock < MaxCallbacks
  /\ clock' = clock + 1
  /\ \E len \in Lengths :
       cb' = [stage |-> "load", field |-> radio.field, at |-> clock + 1, len |-> len, layout |-> 0]
  /\ UNCHANGED <<layout, stats, ring, holder, sketch, radio, last, taken, heard, begins>>

(* on_csi reads LAYOUT; without one it returns. *)
OnCsiLoad ==
  /\ cb.stage = "load"
  /\ cb' = IF layout = 0 THEN NoCallback ELSE [cb EXCEPT !.stage = "ingest", !.layout = layout]
  /\ UNCHANGED <<layout, stats, ring, holder, sketch, radio, last, taken, heard, clock, begins>>

(* ingest: a buffer too short for the layout is counted; else the frame,   *)
(* cut to what a sample carries, is counted as received.                   *)
OnCsiIngest ==
  /\ cb.stage = "ingest"
  /\ IF cb.len < 2 * NeededEntries
     THEN /\ stats' = [stats EXCEPT !.short = @ + 1]
          /\ cb' = NoCallback
     ELSE /\ stats' = [stats EXCEPT !.received = @ + 1]
          /\ cb' = [stage |-> "park",
                    frame |-> [at |-> cb.at, layout |-> cb.layout, field |-> cb.field,
                               len |-> IF cb.len < MAX_IQ THEN cb.len ELSE MAX_IQ]]
  /\ UNCHANGED <<layout, ring, holder, sketch, radio, last, taken, heard, clock, begins>>

(* try_lock: a contended ring is a dropped frame, not a wait. *)
OnCsiPark ==
  /\ cb.stage = "park"
  /\ ring' = IF holder = "none" THEN RingPush(ring, cb.frame) ELSE ring
  /\ stats' = [stats EXCEPT !.dropped = IF holder # "none" \/ ring.len = CAPACITY THEN @ + 1 ELSE @]
  /\ cb' = NoCallback
  /\ UNCHANGED <<layout, holder, sketch, radio, last, taken, heard, clock, begins>>

OnCsi == OnCsiLoad \/ OnCsiIngest \/ OnCsiPark

-----------------------------------------------------------------------------
(* The sketch *)

BeginKeepsLayout ==   \* mutant
  /\ sketch = Idle
  /\ ~radio.on
  /\ begins < MaxBegins
  /\ \E field \in {1, 2} :
       /\ layout' = IF layout = 0 THEN field ELSE layout
       /\ sketch' = [at |-> "counters", field |-> field]
  /\ begins' = begins + 1
  /\ UNCHANGED <<stats, ring, holder, cb, radio, last, taken, heard, clock>>

(* begin: LAYOUT, the counters and the ring are reset one after another,   *)
(* then ESP-IDF is configured; a field combination the crate does not know *)
(* is refused before any of it.                                            *)
Begin ==
  /\ sketch = Idle
  /\ ~radio.on
  /\ begins < MaxBegins
  /\ \E field \in {1, 2} :
       /\ layout' = field
       /\ sketch' = [at |-> "counters", field |-> field]
  /\ begins' = begins + 1
  /\ UNCHANGED <<stats, ring, holder, cb, radio, last, taken, heard, clock>>

BeginCounters ==
  /\ sketch.at = "counters"
  /\ stats' = [received |-> 0, dropped |-> 0, short |-> 0]
  /\ sketch' = [sketch EXCEPT !.at = "clear"]
  /\ UNCHANGED <<layout, ring, holder, cb, radio, last, taken, heard, clock, begins>>

BeginClear ==
  /\ sketch.at = "clear"
  /\ ring' = EmptyRing
  /\ taken' = 0
  /\ sketch' = [sketch EXCEPT !.at = "enable"]
  /\ UNCHANGED <<layout, stats, holder, cb, radio, last, heard, clock, begins>>

(* The three calls of ESP-IDF; any may be refused, and begin returns. *)
BeginEnable ==
  /\ sketch.at = "enable"
  /\ \/ radio' = [on |-> TRUE, field |-> sketch.field]
     \/ UNCHANGED radio
  /\ sketch' = Idle
  /\ UNCHANGED <<layout, stats, ring, holder, cb, last, taken, heard, clock, begins>>

(* end: capture off and the callback unregistered, then LAYOUT, which      *)
(* stays when ESP-IDF refuses to unregister.                               *)
End ==
  /\ sketch = Idle
  /\ layout # 0
  /\ cb = NoCallback
  /\ layout' \in {0, layout}
  /\ radio' = [radio EXCEPT !.on = FALSE]
  /\ UNCHANGED <<stats, ring, holder, cb, sketch, last, taken, heard, clock, begins>>

PollLock ==
  /\ sketch = Idle
  /\ holder' = "sketch"
  /\ sketch' = [at |-> "polling"]
  /\ UNCHANGED <<layout, stats, ring, cb, radio, last, taken, heard, clock, begins>>

(* Sample::encode and Sample::decode: a version, the layout's tag, the     *)
(* time, the length, and that many bytes, no more and no fewer.            *)
HEADER_LEN == 13

EncodeSample(frame) == [version |-> 1, layout |-> frame.layout, at |-> frame.at, len |-> frame.len,
                  bytes |-> HEADER_LEN + frame.len]

Decodes(b) ==
  /\ b.bytes >= HEADER_LEN
  /\ b.version = 1
  /\ b.len <= MAX_IQ
  /\ b.bytes = HEADER_LEN + b.len

(* The wire delivers the encoding whole or cut short. *)
Delivered(frame) ==
  LET b == EncodeSample(frame)
  IN  {s \in {b, [b EXCEPT !.bytes = @ - 1], [b EXCEPT !.bytes = HEADER_LEN]} : Decodes(s)}

(* poll takes the oldest frame; the sketch streams it. *)
PollPop ==
  /\ sketch.at = "polling"
  /\ sketch' = Idle
  /\ holder' = "none"
  /\ IF ring.len = 0
     THEN UNCHANGED <<ring, last, taken, heard>>
     ELSE /\ ring' = Popped(ring)
          /\ last' = ring.frames[ring.head].at
          /\ taken' = taken + 1
          /\ heard' = {[frame |-> ring.frames[ring.head], sample |-> s] :
                         s \in Delivered(ring.frames[ring.head])}
  /\ UNCHANGED <<layout, stats, cb, radio, clock, begins>>

Sketch ==
  \/ Begin \/ BeginCounters \/ BeginClear \/ BeginEnable
  \/ End
  \/ PollLock \/ PollPop

CaptureNext == CsiArrives \/ OnCsi \/ Sketch

CaptureSpec == CaptureInit /\ [][CaptureNext]_captureVars

-----------------------------------------------------------------------------

(* Whether begin is between its resets and its return. *)
Beginning == sketch.at \in {"counters", "clear", "enable"}

(* No silent gap: outside begin, every frame received was taken, waits in  *)
(* the ring, is about to be parked, or is counted as dropped, whatever the *)
(* callback and the sketch were doing to the ring.                         *)
NoSilentGap ==
  ~Beginning =>
    stats.received = taken + ring.len + stats.dropped + (IF cb.stage = "park" THEN 1 ELSE 0)

(* The frames waiting are the latest: oldest first from head, none of a    *)
(* slot outside the window, and none taken before.                         *)
RingInOrder ==
  LET nth(i) == ring.frames[(ring.head + i) % CAPACITY].at
  IN  /\ \A i \in 0..(ring.len - 1) : nth(i) > (IF i = 0 THEN last ELSE nth(i - 1))
      /\ \A i \in ring.len..(CAPACITY - 1) : nth(i) = 0

(* A frame is read with the layout of the field it was captured from, in   *)
(* the ring and at a subscriber, across end and begin.                     *)
LayoutIsTheFields ==
  /\ \A i \in DOMAIN ring.frames : ring.frames[i].layout = ring.frames[i].field
  /\ \A h \in heard : h.sample.layout = h.frame.field

(* What a subscriber decodes is the whole frame: a sample cut on the way   *)
(* is refused.                                                             *)
HeardWhole == \A h \in heard : h.sample.bytes = HEADER_LEN + h.frame.len

(* What the capture promises a sketch and a subscriber, outside begin.     *)
CaptureHonest == NoSilentGap /\ RingInOrder /\ LayoutIsTheFields /\ HeardWhole
=============================================================================
