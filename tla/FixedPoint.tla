----------------------------- MODULE FixedPoint -----------------------------
(***************************************************************************)
(* The integer arithmetic the detectors share: sums, division as the       *)
(* processor does it, and the whole-number square root.                    *)
(***************************************************************************)
EXTENDS Integers, Sequences, SequencesExt, FiniteSetsExt

SumOf(s) ==
  LET upTo[n \in 0..Len(s)] == IF n = 0 THEN 0 ELSE upTo[n - 1] + s[n]
  IN  upTo[Len(s)]

Abs(x) == IF x < 0 THEN -x ELSE x

(* Division toward zero. *)
Trunc(a, b) == IF a < 0 THEN -((-a) \div b) ELSE a \div b

Clamp(x, lo, hi) == Max({lo, Min({x, hi})})

(* isqrt64: digit by digit from a power of four, 4^15; what is left of v   *)
(* and the root so far, after k of the 16 digits.                          *)
RootDigits(v) ==
  LET after[k \in 0..16] ==
        IF k = 0 THEN [rem |-> v, root |-> 0]
        ELSE LET at  == after[k - 1]
                 bit == 4^(16 - k)
             IN  IF at.rem >= at.root + bit
                 THEN [rem |-> at.rem - at.root - bit, root |-> (at.root \div 2) + bit]
                 ELSE [at EXCEPT !.root = @ \div 2]
  IN  after

Isqrt(v) == RootDigits(v)[16].root
=============================================================================
