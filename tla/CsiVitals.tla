----------------------------- MODULE CsiVitals ------------------------------
(***************************************************************************)
(* Breathing from the rhythm of the channel's amplitude                    *)
(* (rusty_esp_signal-core, radar/vitals.rs): frames averaged in blocks, a  *)
(* ring of block means, and the first peak of their autocorrelation.       *)
(* The room is a rhythm of some period, or none; the collector may change  *)
(* its layout at any frame.                                                *)
(***************************************************************************)
EXTENDS FixedPoint

CONSTANTS
  VN,            \* samples in the window
  DECIM,         \* frames averaged into one sample
  RATE,          \* samples per second
  BandLo,        \* the band, millihertz
  BandHi,
  UPDATE_EVERY,  \* samples between estimates
  ACCEPT,        \* permille of confidence an accepted estimate has
  Highpasses,    \* moving averages subtracted before analysis, 0 for none
  Periods,       \* periods a room's rhythm may have, in samples; 0 for a still room
  MaxSamples,    \* samples a run feeds
  MaxChanges     \* layout changes

ASSUME VitalsAssumption ==
  /\ {VN, DECIM, RATE, BandLo, BandHi, UPDATE_EVERY} \subseteq Nat \ {0}
  /\ BandLo < BandHi /\ VN > 3

VARIABLES
  est,       \* the VitalsEstimator
  room,      \* [period, highpass]: fixed
  fedFrames,       \* frames fed so far
  block,     \* history: this block's frames since the reset
  means,     \* history: [mean, first] of the blocks in the window; first after a reset inside a block
  torn,      \* history: the block under way began after a reset inside a block
  changes    \* layout changes so far

vitalsVars == <<est, room, fedFrames, block, means, torn, changes>>

NewEstimator ==
  [ring |-> [f \in 0..(VN - 1) |-> <<0, 0>>], acc |-> <<0, 0>>, accN |-> 0, count |-> 0,
   filled |-> 0, next |-> 0, since |-> 0, last |-> [made |-> FALSE]]

VitalsInit ==
  /\ est = NewEstimator
  /\ room \in [period : Periods, highpass : Highpasses]
  /\ fedFrames = 0
  /\ block = <<>>
  /\ means = <<>>
  /\ torn = FALSE
  /\ changes = 0

-----------------------------------------------------------------------------
(* The estimate *)

(* Band::lags: the shortest period rounded in, the longest rounded out. *)
LagLo == Max({2, (RATE * 1000) \div BandHi})
LagHi == Min({(RATE * 1000 + BandLo - 1) \div BandLo, VN - 2})

(* highpass: a centred moving average, over what is inside the series. *)
Highpass(x, m) ==
  LET half == Max({1, Min({m, VN}) \div 2})
  IN  [i \in 1..VN |->
         LET lo == Max({1, i - half})
             hi == Min({VN, i + half})
         IN  x[i] - Trunc(SumOf([j \in 1..(hi - lo + 1) |-> x[lo + j - 1]]), hi - lo + 1)]

(* A subcarrier's series in time order, mean removed. *)
Series(e, sc, m) ==
  LET raw  == [f \in 1..VN |-> e.ring[(e.next + f - 1) % VN][sc]]
      mean == SumOf(raw) \div VN
      x    == [f \in 1..VN |-> raw[f] - mean]
  IN  IF m > 1 THEN Highpass(x, m) ELSE x

Energy(x) == SumOf([f \in 1..VN |-> x[f] * x[f]])

(* The autocorrelation at a lag, permille, corrected for the overlap. *)
Rho(x, lag, energy) ==
  LET r == SumOf([f \in 1..(VN - lag) |-> x[f] * x[f + lag]])
  IN  Clamp(Trunc(r * 1000 * VN, (VN - lag) * energy), -2000, 2000)

(* Summed over the subcarriers that have any energy, for lags 1..LagHi + 1. *)
Summed(series) ==
  LET live == {sc \in DOMAIN series : Energy(series[sc]) > 0}
  IN  [lag \in 1..(LagHi + 1) |->
         FoldSet(LAMBDA sc, s : s + Rho(series[sc], lag, Energy(series[sc])), 0, live)]

(* The first local maximum within 15% of the highest, scanning from lag 2; *)
(* without one, the first of the highest.                                  *)
FirstPeak(s) ==
  LET global == Max({s[lag] : lag \in 2..LagHi})
      floor  == IF global > 0 THEN global - ((global * 15) \div 100) ELSE global
      peaks  == {lag \in 2..LagHi : s[lag] >= floor /\ s[lag] >= s[lag - 1] /\ s[lag] >= s[lag + 1]}
  IN  IF peaks # {} THEN Min(peaks) ELSE Min({lag \in 2..LagHi : s[lag] = global})

(* The vertex of the parabola through the peak and its neighbours, in      *)
(* sixteenths of a sample.                                                 *)
LagX16(s, best) ==
  LET denom == s[best - 1] - 2 * s[best] + s[best + 1]
      delta == IF denom < 0 THEN Clamp(Trunc((s[best + 1] - s[best - 1]) * 8, -denom), -8, 8) ELSE 0
  IN  Max({16, best * 16 + delta})

EmptyEstimate == [made |-> TRUE, bpm |-> 0, confidence |-> 0, lag |-> 0, accepted |-> FALSE]

Estimate(e, m) ==
  LET series == [sc \in 1..e.count |-> Series(e, sc, m)]
      used   == Cardinality({sc \in 1..e.count : Energy(series[sc]) > 0})
      s      == Summed(series)
      best   == FirstPeak(s)
      conf   == Clamp(Trunc(s[best], used), 0, 1000)
      lag    == LagX16(s, best)
  IN  IF LagLo >= LagHi \/ used = 0 THEN EmptyEstimate
      ELSE [made |-> TRUE, bpm |-> (9600 * RATE + (lag \div 2)) \div lag, confidence |-> conf,
            lag |-> lag, accepted |-> best > LagLo /\ best < LagHi /\ conf >= ACCEPT]

-----------------------------------------------------------------------------
(* The window *)

(* VitalsEstimator::reset; what the block has accumulated stays. *)
ResetVitals(e) ==
  [e EXCEPT !.filled = 0, !.next = 0, !.accN = 0, !.count = 0, !.since = 0, !.last = [made |-> FALSE]]

(* A frame into the block. *)
Accumulated(e, amps) ==
  [e EXCEPT !.count = Len(amps),
            !.acc = [sc \in 1..2 |-> IF sc <= Len(amps) THEN @[sc] + amps[sc] ELSE @[sc]],
            !.accN = @ + 1]

SampledDirty(e) ==   \* mutant
  [e EXCEPT !.ring[e.next] = [sc \in 1..2 |-> IF sc <= e.count THEN e.acc[sc] \div e.accN ELSE @[sc]],
            !.accN = 0, !.next = (@ + 1) % VN,
            !.filled = Min({@ + 1, VN}), !.since = @ + 1]

(* A whole block: its mean is the next sample. *)
Sampled(e) ==
  [e EXCEPT !.ring[e.next] = [sc \in 1..2 |-> IF sc <= e.count THEN e.acc[sc] \div e.accN ELSE @[sc]],
            !.acc = [sc \in 1..2 |-> IF sc <= e.count THEN 0 ELSE @[sc]],
            !.accN = 0, !.next = (@ + 1) % VN,
            !.filled = Min({@ + 1, VN}), !.since = @ + 1]

(* VitalsEstimator::push *)
PushedVitals(e, amps, m) ==
  LET e0 == IF e.count # 0 /\ Len(amps) # e.count THEN ResetVitals(e) ELSE e
      e1 == Accumulated(e0, amps)
      e2 == Sampled(e1)
  IN  IF e1.accN < DECIM THEN e1
      ELSE IF e2.filled < VN \/ e2.since < UPDATE_EVERY THEN e2
      ELSE [e2 EXCEPT !.since = 0, !.last = Estimate(e2, m)]

(* The amplitudes of frame k: the rhythm moves the subcarriers apart. *)
Swing(k) ==
  LET sample == k \div DECIM
      p      == room.period
  IN  IF p = 0 THEN 0 ELSE IF 2 * (sample % p) < p THEN 8 ELSE -8

Amplitudes(k, n) == [sc \in 1..n |-> 40 + (IF sc = 1 THEN Swing(k) ELSE -Swing(k)) + (k % DECIM)]

(* One frame, with or without a change of layout. *)
PushFrame ==
  /\ fedFrames < MaxSamples * DECIM
  /\ \E n \in {1, 2} :
       LET amps  == Amplitudes(fedFrames, n)
           anew  == est.count \notin {0, n}
           inner == anew /\ block # <<>>
           b     == IF anew THEN <<amps>> ELSE Append(block, amps)
           kept  == IF anew THEN <<>> ELSE means
           tear  == inner \/ (~anew /\ torn)
       IN  /\ est.count = 0 \/ n = est.count \/ changes < MaxChanges
           /\ est' = PushedVitals(est, amps, room.highpass)
           /\ changes' = IF anew THEN changes + 1 ELSE changes
           /\ fedFrames' = fedFrames + 1
           /\ IF Len(b) < DECIM
              THEN block' = b /\ means' = kept /\ torn' = tear
              ELSE LET mean == [sc \in 1..n |-> SumOf([i \in 1..DECIM |-> b[i][sc]]) \div DECIM]
                       all  == Append(kept, [mean |-> mean, torn |-> tear])
                   IN  /\ block' = <<>>
                       /\ torn' = FALSE
                       /\ means' = IF Len(all) > VN THEN Tail(all) ELSE all
  /\ UNCHANGED room

VitalsNext == PushFrame

VitalsSpec == VitalsInit /\ [][VitalsNext]_vitalsVars

-----------------------------------------------------------------------------

(* Sample i of the window, oldest first, as the estimator holds it. *)
Held(i) == SubSeq(est.ring[(est.next - est.filled + i - 1 + VN) % VN], 1, est.count)

(* The window holds the means of the last blocks since the reset, each its *)
(* own, but for the one that follows a reset inside a block: reset leaves  *)
(* what the block had summed.                                              *)
WindowOfMeans ==
  /\ est.filled = Len(means)
  /\ \A i \in 1..Len(means) : ~means[i].torn => Held(i) = means[i].mean

Whole == est.last.made /\ est.since = 0 /\ \A i \in 1..Len(means) : ~means[i].torn

(* A rhythm whose period the scan reaches is read with that period, to     *)
(* half a sample, and accepted when it is inside the band and only then: a *)
(* faster one, whose multiples all peak inside, is not read as a slower    *)
(* one, and an empty room grows no breathing rate.                         *)
RhythmFound ==
  Whole =>
    /\ room.period > 0 => Abs(est.last.lag - 16 * room.period) <= 8
    /\ est.last.accepted <=> (room.period > LagLo /\ room.period < LagHi)
=============================================================================
