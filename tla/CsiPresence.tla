---------------------------- MODULE CsiPresence ----------------------------
(***************************************************************************)
(* Presence from the wander of the channel's amplitude                     *)
(* (rusty_esp_signal-core, radar/csi.rs), and the room's fingerprint       *)
(* (radar/fingerprint.rs).  The detector carries the sums of its window    *)
(* from the one frame that changes; the window itself is kept here as a    *)
(* history, to compute from it what the detector should have found.        *)
(***************************************************************************)
EXTENDS FixedPoint

CONSTANTS
  W,         \* frames in the window
  Layouts,   \* layouts the collector uses: sequences of entry indices
  Samples,   \* what an entry of the buffer may hold: <<imaginary, real>>
  Entries,   \* entries of the buffer
  Gains,     \* gains the receiver may take
  Configs,   \* thresholds: [on, off]
  Hold,      \* how long a verdict of presence stays, in frame times
  NORM       \* where normalised features put the mean (1024)

ASSUME PresenceAssumption ==
  /\ {W, Entries, Hold, NORM} \subseteq Nat \ {0}
  /\ Gains \subseteq Nat \ {0}
  /\ \A l \in Layouts : l \in Seq(1..Entries) /\ l # <<>>
  /\ \E longest \in Layouts : \A l \in Layouts : Len(l) <= Len(longest)
  /\ Samples \subseteq Int \X Int

MaxSc == Max({Len(l) : l \in Layouts})

-----------------------------------------------------------------------------
(* Features *)

(* What a sequence of amplitudes makes a frame's features. *)
Measured(amps) ==
  LET n    == Len(amps)
      mean == SumOf(amps) \div n
  IN  [amplitude |-> amps, mean |-> mean,
       variance |-> SumOf([k \in 1..n |-> (amps[k] - mean) * (amps[k] - mean)]) \div n]

(* CsiFrame::features, of a buffer long enough for the layout. *)
Features(iq, layout) ==
  Measured([k \in 1..Len(layout) |->
              LET p == iq[layout[k]] IN Isqrt(16 * (p[1] * p[1] + p[2] * p[2]))])

(* Features::normalised: by the exact sum, so that a common gain cancels. *)
Normalised(f) ==
  LET n     == Len(f.amplitude)
      total == SumOf(f.amplitude)
  IN  IF total = 0 THEN f
      ELSE Measured([k \in 1..n |-> (f.amplitude[k] * NORM * n) \div total])

-----------------------------------------------------------------------------
(* The detector *)

VARIABLES
  det,       \* the PresenceDetector
  normalise, \* whether the caller feeds normalised features; fixed
  config,    \* its thresholds
  pushed,    \* history: the features pushed since the last reset, the last W
  quiet,     \* history: frame times since a wander at or above `on`, up to Hold
  base       \* the fingerprint's Baseline

presenceVars == <<det, normalise, config, pushed, quiet, base>>

PresenceInit ==
  /\ det = [ring |-> [f \in 0..(W - 1) |-> [sc \in 1..MaxSc |-> 0]],
            sum |-> [sc \in 1..MaxSc |-> 0], sumsq |-> [sc \in 1..MaxSc |-> 0],
            count |-> 0, filled |-> 0, next |-> 0, wander |-> 0, present |-> FALSE, age |-> Hold]
  /\ normalise \in BOOLEAN
  /\ config \in Configs
  /\ pushed = <<>>
  /\ quiet = Hold
  /\ base = [sum |-> 0, frames |-> 0, mean |-> 0]

ResetClears(d) ==   \* mutant
  [d EXCEPT !.filled = 0, !.next = 0, !.count = 0, !.wander = 0, !.present = FALSE,
            !.sum = [sc \in 1..MaxSc |-> 0], !.sumsq = [sc \in 1..MaxSc |-> 0]]

(* PresenceDetector::reset: the ring and its sums stay. *)
Reset(d) == [d EXCEPT !.filled = 0, !.next = 0, !.count = 0, !.wander = 0, !.present = FALSE]

(* compute_wander's term for one subcarrier, from its sums over the window. *)
Term(sum, sumsq) ==
  LET mean  == sum \div W
      varW2 == W * sumsq - sum * sum
      std16 == Isqrt(256 * varW2) \div W
  IN  IF mean = 0 THEN 0 ELSE (std16 * 1000) \div (mean * 16)

ComputeWander(d) == SumOf([sc \in 1..d.count |-> Term(d.sum[sc], d.sumsq[sc])]) \div d.count

(* The slot's values replaced, the sums carried by the difference. *)
Slid(d, amps) ==
  LET old == d.ring[d.next]
      n   == Len(amps)
  IN  [d EXCEPT !.count = n,
                !.ring[d.next] = [sc \in 1..MaxSc |-> IF sc <= n THEN amps[sc] ELSE @[sc]],
                !.sum = [sc \in 1..MaxSc |-> IF sc <= n THEN @[sc] - old[sc] + amps[sc] ELSE @[sc]],
                !.sumsq = [sc \in 1..MaxSc |->
                             IF sc <= n THEN @[sc] - old[sc] * old[sc] + amps[sc] * amps[sc] ELSE @[sc]],
                !.next = (@ + 1) % W,
                !.filled = IF @ < W THEN @ + 1 ELSE @]

(* Hysteresis and hold, once the window is full. *)
Judged(d, c) ==
  LET wander == ComputeWander(d)
      d1     == [d EXCEPT !.wander = wander]
  IN  IF wander >= c.on THEN [d1 EXCEPT !.present = TRUE, !.age = 0]
      ELSE IF d.present /\ wander <= c.off /\ d.age >= Hold THEN [d1 EXCEPT !.present = FALSE]
      ELSE d1

(* PresenceDetector::push; a frame of another subcarrier count resets. *)
Pushed(d, f, c) ==
  LET d0 == IF d.filled > 0 /\ Len(f.amplitude) # d.count THEN Reset(d) ELSE d
      d1 == Slid(d0, f.amplitude)
  IN  IF d1.filled < W THEN d1 ELSE Judged(d1, c)

Verdict(d) == IF d.filled < W THEN "Warming" ELSE IF d.present THEN "Present" ELSE "Absent"

Capped(t) == IF t < Hold THEN t ELSE Hold

-----------------------------------------------------------------------------

(* The standard deviation over the mean, computed from the frames.  *)
RefWander(frames) ==
  LET n       == Len(frames[1].amplitude)
      of(sc)  == [i \in 1..Len(frames) |-> frames[i].amplitude[sc]]
      sq(sc)  == [i \in 1..Len(frames) |-> of(sc)[i] * of(sc)[i]]
  IN  SumOf([sc \in 1..n |-> Term(SumOf(of(sc)), SumOf(sq(sc)))]) \div n

(* One frame, at whatever gain: its features into the detector. *)
Frame(iq, layout, gain) ==
  LET f == Features([k \in 1..Entries |-> <<gain * iq[k][1], gain * iq[k][2]>>], layout)
  IN  IF normalise THEN Normalised(f) ELSE f

Push ==
  \E iq \in [1..Entries -> Samples], layout \in Layouts, gain \in Gains, dt \in {1, Hold} :
  \E f \in {Frame(iq, layout, gain)} :
  \E d \in {Pushed([det EXCEPT !.age = Capped(@ + dt)], f, config)} :
    /\ det' = d
    /\ pushed' = IF pushed # <<>> /\ Len(pushed[1].amplitude) # Len(f.amplitude) THEN <<f>>
                 ELSE IF Len(pushed) < W THEN Append(pushed, f) ELSE Append(Tail(pushed), f)
    /\ quiet' = IF Len(pushed') = W /\ RefWander(pushed') >= config.on THEN 0
                ELSE IF Len(pushed') = 1 THEN Hold     \* a reset forgets the motion too
                ELSE Capped(quiet + dt)
    /\ UNCHANGED <<normalise, config, base>>

(* PresenceDetector::reset called by its owner, after a channel change. *)
ForgetWindow ==
  /\ det.filled > 0
  /\ det' = Reset(det)
  /\ pushed' = <<>>
  /\ quiet' = Hold
  /\ UNCHANGED <<normalise, config, base>>

(* set_config: the thresholds change, the window stays. *)
SetConfig ==
  /\ \E c \in Configs \ {config} : config' = c
  /\ UNCHANGED <<det, normalise, pushed, quiet, base>>

(* Baseline::calibrate, with the newest frame. *)
Calibrate ==
  /\ pushed # <<>>
  /\ base.frames < 1
  /\ base' = [sum |-> base.sum + Last(pushed).variance, frames |-> base.frames + 1,
              mean |-> (base.sum + Last(pushed).variance) \div (base.frames + 1)]
  /\ UNCHANGED <<det, normalise, config, pushed, quiet>>

(* Baseline::distance *)
Distance(f) ==
  IF base.mean = 0 THEN 0
  ELSE LET apart == IF f.variance > base.mean THEN f.variance - base.mean ELSE base.mean - f.variance
       IN  (apart * 1000) \div base.mean

PresenceNext == Push \/ ForgetWindow \/ SetConfig \/ Calibrate

PresenceSpec == PresenceInit /\ [][PresenceNext]_presenceVars

-----------------------------------------------------------------------------

(* The sums carried from frame to frame are the sums of the ring, for      *)
(* every subcarrier, also those the current layout does not use, across    *)
(* resets that leave old values in the ring.                               *)
CarriedSums ==
  \A sc \in 1..MaxSc :
    /\ det.sum[sc] = SumOf([f \in 1..W |-> det.ring[f - 1][sc]])
    /\ det.sumsq[sc] = SumOf([f \in 1..W |-> det.ring[f - 1][sc] * det.ring[f - 1][sc]])

(* A verdict other than Warming is about the last W frames since the       *)
(* reset and nothing older: the wander is the one computed from them.      *)
WanderOfTheWindow ==
  /\ det.filled = Len(pushed)
  /\ det.filled = W => det.wander = RefWander(pushed)

(* Absence is never announced within Hold of a frame that moved: a person  *)
(* who stands still for a moment is still there.                           *)
HeldAfterMotion == Verdict(det) = "Absent" => quiet >= Hold

(* With normalised features the receiver's gain is not the room: a factor  *)
(* common to a frame's amplitudes changes neither what the detector is fed *)
(* nor the fingerprint's distance.                                         *)
GainIsNotMotion ==
  normalise =>
    \A f \in Range(pushed), g \in Gains :
      LET scaled == Normalised(Measured([k \in 1..Len(f.amplitude) |-> g * f.amplitude[k]]))
      IN  /\ scaled = Normalised(f)
          /\ Distance(scaled) = Distance(Normalised(f))

(* No variance is below nothing, and isqrt64 is the floor of the square    *)
(* root, for every root the wander takes that has no more than the sixteen *)
(* digits of the model's loop.                                             *)
RootExact ==
  \A sc \in 1..MaxSc :
    LET v == 256 * (W * det.sumsq[sc] - det.sum[sc] * det.sum[sc])
        r == Isqrt(v)
    IN  v >= 0 /\ (v \div 65536 < 65536 => r * r <= v /\ v < (r + 1) * (r + 1))

(* The amplitude detector: its carried sums, its window, its root, its     *)
(* hold and its indifference to the receiver's gain.                       *)
PresenceExact ==
  CarriedSums /\ WanderOfTheWindow /\ RootExact /\ HeldAfterMotion /\ GainIsNotMotion
=============================================================================
