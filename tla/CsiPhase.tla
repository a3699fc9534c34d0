------------------------------ MODULE CsiPhase ------------------------------
(***************************************************************************)
(* Presence from the circular variance of the channel's phase              *)
(* (rusty_esp_signal-core, radar/phase.rs).  Angles are binary radians:    *)
(* 2^16 to the turn, wrapping.  The two tables are the source's, at the    *)
(* indices the entries and angles of the instance reach.                   *)
(***************************************************************************)
EXTENDS FixedPoint

CONSTANTS
  PW,          \* frames in the window
  Counts,      \* subcarrier counts the layouts in use have
  Angles,      \* phases a frame may carry, multiples of an eighth of a turn
  Iqs,         \* what an entry of a raw buffer may hold: <<imaginary, real>>
  Lines,       \* subcarriers of the raw frames the sanitiser is checked on
  PHold,       \* how long a verdict of presence stays, in frame times
  PConfigs     \* thresholds in ppm: [on, off]

ASSUME PhaseAssumption ==
  /\ {PW, Lines, PHold} \subseteq Nat \ {0}
  /\ Counts \subseteq Nat \ {0}
  /\ Angles \subseteq {8192 * k : k \in (-4)..3}

UNIT == 16384
TURN == 65536
Q == 16          \* fractional bits of the line, 2^16 in the source

MaxCount == Max(Counts)

(* `as i16`: onto the circle. *)
Wrapped(a) == ((a + 32768) % TURN) - 32768

DivRound(a, b) == IF a >= 0 THEN (a + (b \div 2)) \div b ELSE -((-a + (b \div 2)) \div b)

-----------------------------------------------------------------------------
(* Angles and unit vectors *)

ATAN_OCTANT(i) == CASE i = 0 -> 0 [] i = 128 -> 4836 [] i = 256 -> 8192
SIN_QUARTER(i) == CASE i = 0 -> 0 [] i = 128 -> 11585 [] i = 256 -> 16384

(* atan2_brad: one octant from the table, the rest by symmetry. *)
Atan2Brad(y, x) ==
  LET ax    == Abs(x)
      ay    == Abs(y)
      first == IF ay <= ax THEN ATAN_OCTANT((ay * 256) \div ax)
                           ELSE 16384 - ATAN_OCTANT((ax * 256) \div ay)
      half  == IF x < 0 THEN 32768 - first ELSE first
  IN  IF x = 0 /\ y = 0 THEN 0 ELSE Wrapped(IF y < 0 THEN -half ELSE half)

(* unit_vector: the quadrant and the quarter-wave table. *)
UnitVector(angle) ==
  LET a == (angle % TURN) \div 64
      q == a \div 256
      s == SIN_QUARTER(a % 256)
      c == SIN_QUARTER(256 - (a % 256))
  IN  CASE q = 0 -> [c |-> c,  s |-> s]
        [] q = 1 -> [c |-> -s, s |-> c]
        [] q = 2 -> [c |-> -c, s |-> -s]
        [] q = 3 -> [c |-> s,  s |-> -c]

-----------------------------------------------------------------------------
(* CsiFrame::phases *)

(* The shortest arc from one subcarrier to the next, accumulated. *)
Unwrapped(raw) ==
  LET u[k \in 1..Len(raw)] == IF k = 1 THEN raw[1] ELSE u[k - 1] + Wrapped(raw[k] - raw[k - 1])
  IN  [k \in 1..Len(raw) |-> u[k]]

WithoutSlope(u) ==   \* mutant
  LET n     == Len(u)
      icpt  == Trunc(Q * SumOf(u), n)
  IN  [k \in 1..n |-> Wrapped((Q * u[k] - icpt) \div Q)]

(* The least-squares line through the unwrapped angles, subtracted. *)
WithoutLine(u) ==
  LET n     == Len(u)
      sk    == (n * (n - 1)) \div 2
      skk   == ((n - 1) * n * (2 * n - 1)) \div 6
      su    == SumOf(u)
      sku   == SumOf([k \in 1..n |-> (k - 1) * u[k]])
      slope == Trunc(Q * (n * sku - sk * su), n * skk - sk * sk)
      icpt  == Trunc(Q * su - slope * sk, n)
  IN  [k \in 1..n |-> Wrapped((Q * u[k] - slope * (k - 1) - icpt) \div Q)]

Raw(iq) == [k \in 1..Len(iq) |-> Atan2Brad(iq[k][1], iq[k][2])]

PhasesOf(iq) == WithoutLine(Unwrapped(Raw(iq)))

-----------------------------------------------------------------------------
(* The detector *)

VARIABLES
  pdet,      \* the PhaseDetector
  pconfig,   \* its thresholds
  pwindow,   \* history: the phases pushed since the last reset, the last PW
  pquiet,    \* history: frame times since a wander at or above `on`, up to PHold
  iq         \* the raw frame being sanitised, if any

phaseVars == <<pdet, pconfig, pwindow, pquiet, iq>>

(* PhaseDetector::new: a zeroed ring is PW angles of nothing, each a unit  *)
(* vector along the axis.                                                  *)
NewDetector ==
  [ring |-> [f \in 0..(PW - 1) |-> [sc \in 1..MaxCount |-> 0]],
   cos |-> [sc \in 1..MaxCount |-> PW * UNIT], sin |-> [sc \in 1..MaxCount |-> 0],
   count |-> 0, filled |-> 0, next |-> 0, wander |-> 0, present |-> FALSE, age |-> PHold]

PhaseInit ==
  /\ pdet = NewDetector
  /\ pconfig \in PConfigs
  /\ pwindow = <<>>
  /\ pquiet = PHold
  /\ iq = <<>>

(* compute_wander's term: 10^6 (1 - |mean unit vector|), rounded on both   *)
(* the division and the root.                                              *)
Spread(cos, sin) ==
  LET mc == DivRound(cos, PW)
      ms == DivRound(sin, PW)
      r  == (Isqrt(4 * (mc * mc + ms * ms)) + 1) \div 2
  IN  ((UNIT - (IF r > UNIT THEN UNIT ELSE r)) * 15625) \div 256

PhaseWander(d) ==
  SumOf([sc \in 1..d.count |-> Spread(d.cos[sc], d.sin[sc])]) \div d.count

PhaseReset(d) == [d EXCEPT !.filled = 0, !.next = 0, !.count = 0, !.wander = 0, !.present = FALSE]

(* The slot's angles replaced, the sums carried by the difference. *)
SlidPhases(d, angles) ==
  LET n  == Len(angles)
      was(sc) == UnitVector(d.ring[d.next][sc])
      is(sc)  == UnitVector(angles[sc])
  IN  [d EXCEPT !.count = n,
                !.ring[d.next] = [sc \in 1..MaxCount |-> IF sc <= n THEN angles[sc] ELSE @[sc]],
                !.cos = [sc \in 1..MaxCount |-> IF sc <= n THEN @[sc] - was(sc).c + is(sc).c ELSE @[sc]],
                !.sin = [sc \in 1..MaxCount |-> IF sc <= n THEN @[sc] - was(sc).s + is(sc).s ELSE @[sc]],
                !.next = (@ + 1) % PW,
                !.filled = IF @ < PW THEN @ + 1 ELSE @]

JudgedPhase(d, c) ==
  LET d1 == [d EXCEPT !.wander = PhaseWander(d)]
  IN  IF d1.wander >= c.on THEN [d1 EXCEPT !.present = TRUE, !.age = 0]
      ELSE IF d.present /\ d1.wander <= c.off /\ d.age >= PHold THEN [d1 EXCEPT !.present = FALSE]
      ELSE d1

(* PhaseDetector::push *)
PushedPhases(d, angles, c) ==
  LET d0 == IF d.filled > 0 /\ Len(angles) # d.count THEN PhaseReset(d) ELSE d
      d1 == SlidPhases(d0, angles)
  IN  IF d1.filled < PW THEN d1 ELSE JudgedPhase(d1, c)

PhaseVerdict(d) == IF d.filled < PW THEN "Warming" ELSE IF d.present THEN "Present" ELSE "Absent"

(* verdict_now: the motion level is the wander in tens of ppm, a byte. *)
Motion(d) == Min({255, d.wander \div 10})

PCapped(t) == Min({t, PHold})

(* The circular variance of a window, from its angles. *)
RefPhaseWander(frames) ==
  LET n == Len(frames[1])
      sums(sc) == [c |-> SumOf([i \in 1..Len(frames) |-> UnitVector(frames[i][sc]).c]),
                   s |-> SumOf([i \in 1..Len(frames) |-> UnitVector(frames[i][sc]).s])]
  IN  SumOf([sc \in 1..n |-> Spread(sums(sc).c, sums(sc).s)]) \div n

PushPhases ==
  \E n \in Counts : \E angles \in [1..n -> Angles], dt \in {1, PHold} :
  \E d \in {PushedPhases([pdet EXCEPT !.age = PCapped(@ + dt)], angles, pconfig)} :
    /\ pdet' = d
    /\ pwindow' = IF pwindow # <<>> /\ Len(pwindow[1]) # n THEN <<angles>>
                  ELSE IF Len(pwindow) < PW THEN Append(pwindow, angles)
                  ELSE Append(Tail(pwindow), angles)
    /\ pquiet' = IF Len(pwindow') = PW /\ RefPhaseWander(pwindow') >= pconfig.on THEN 0
                 ELSE IF Len(pwindow') = 1 THEN PHold
                 ELSE PCapped(pquiet + dt)
    /\ iq' = <<>>
    /\ UNCHANGED pconfig

ForgetPhases ==
  /\ pdet.filled > 0
  /\ pdet' = PhaseReset(pdet)
  /\ pwindow' = <<>>
  /\ pquiet' = PHold
  /\ UNCHANGED <<pconfig, iq>>

SetPhaseConfig ==
  /\ \E c \in PConfigs \ {pconfig} : pconfig' = c
  /\ iq' = <<>>
  /\ UNCHANGED <<pdet, pwindow, pquiet>>

(* A raw frame is sanitised. *)
Sanitise ==
  /\ pdet = NewDetector
  /\ iq' \in [1..Lines -> Iqs]
  /\ UNCHANGED <<pdet, pconfig, pwindow, pquiet>>

PhaseNext == PushPhases \/ ForgetPhases \/ SetPhaseConfig \/ Sanitise

PhaseSpec == PhaseInit /\ [][PhaseNext]_phaseVars

-----------------------------------------------------------------------------

(* The sums carried are those of every slot of the ring, filled or not, in *)
(* every subcarrier: a phantom vector subtracted from a slot never filled  *)
(* would read a still room as a moving one.                                *)
CarriedVectors ==
  \A sc \in 1..MaxCount :
    /\ pdet.cos[sc] = SumOf([f \in 1..PW |-> UnitVector(pdet.ring[f - 1][sc]).c])
    /\ pdet.sin[sc] = SumOf([f \in 1..PW |-> UnitVector(pdet.ring[f - 1][sc]).s])

(* A full window's wander is that of the last PW frames and nothing older; *)
(* frames that are all alike have none, wherever on the circle they are.   *)
StillIsZero ==
  /\ pdet.filled = Len(pwindow)
  /\ pdet.filled = PW =>
       /\ pdet.wander = RefPhaseWander(pwindow)
       /\ pdet.wander \in 0..1000000
       /\ Cardinality(Range(pwindow)) = 1 => pdet.wander = 0 /\ Motion(pdet) = 0

(* Absence is never announced within the hold of a frame that moved. *)
PhaseHeld == PhaseVerdict(pdet) = "Absent" => pquiet >= PHold

(* What the sanitiser removes is the frame's own line: an offset common to *)
(* the subcarriers (here a quarter turn of every entry) moves no residual  *)
(* by more than the last bit, and a frame that is a line, of less than     *)
(* half a turn per subcarrier, leaves none.                                *)
OffsetCancels ==
  iq # <<>> =>
    LET turned == [k \in 1..Lines |-> <<iq[k][2], -iq[k][1]>>]
        steps  == {Wrapped(Raw(iq)[k + 1] - Raw(iq)[k]) : k \in 1..(Lines - 1)}
    IN  /\ \A k \in 1..Lines : Abs(Wrapped(PhasesOf(turned)[k] - PhasesOf(iq)[k])) <= 1
        /\ Cardinality(steps) = 1 => \A k \in 1..Lines : PhasesOf(iq)[k] \in {-1, 0}
=============================================================================
