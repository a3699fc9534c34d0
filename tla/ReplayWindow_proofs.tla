------------------------- MODULE ReplayWindow_proofs -------------------------
(***************************************************************************)
(* What accept does to a window, for every width and every sequence space. *)
(***************************************************************************)
EXTENDS ReplayWindow, TLAPS

(* A shift by less than the width moves every bit up and drops the rest:   *)
(* the modulo in the machine's shift never bites under accept's guard.     *)
LEMMA ShlInside ==
  ASSUME NEW bits \in SUBSET Bits, NEW n \in Nat, n < WINDOW
  PROVE  /\ Shl(bits, n) \in SUBSET Bits
         /\ \A b \in Bits : b \in Shl(bits, n) <=> (b >= n /\ (b - n) \in bits)
  <1>1. n % WINDOW = n
    BY WindowAssumption
  <1>2. Shl(bits, n) = {b + n : b \in {c \in bits : c + n < WINDOW}}
    BY <1>1 DEF Shl
  <1>3. Shl(bits, n) \in SUBSET Bits
    BY <1>2, WindowAssumption DEF Bits
  <1>4. ASSUME NEW b \in Bits
        PROVE  b \in Shl(bits, n) <=> (b >= n /\ (b - n) \in bits)
    <2>1. CASE b \in Shl(bits, n)
      <3>1. PICK c \in bits : c + n < WINDOW /\ b = c + n
        BY <1>2, <2>1
      <3>2. c \in Nat
        BY WindowAssumption DEF Bits
      <3> QED BY <2>1, <3>1, <3>2
    <2>2. CASE b >= n /\ (b - n) \in bits
      <3>1. (b - n) + n = b /\ b < WINDOW
        BY WindowAssumption DEF Bits
      <3> QED BY <1>2, <2>2, <3>1
    <2> QED BY <2>1, <2>2
  <1> QED BY <1>3, <1>4

(* accept returns a window again, and a Boolean verdict. *)
LEMMA AcceptType ==
  ASSUME NEW w \in Windows, NEW seq \in SeqNums
  PROVE  /\ Accept(w, seq).window \in Windows
         /\ Accept(w, seq).ok \in BOOLEAN
  <1> DEFINE back == w.highest - seq
  <1>0. 0 \in Bits /\ {0} \in SUBSET Bits
    BY WindowAssumption DEF Bits
  <1>1. CASE ~w.primed
    BY <1>0, <1>1 DEF Accept, Advanced, Windows
  <1>2. CASE w.primed /\ seq > w.highest
    <2>1. seq - w.highest \in Nat
      BY <1>2, MaxSeqAssumption DEF Windows, SeqNums
    <2>2. Advance(w.bitmap, seq - w.highest) \in SUBSET Bits
      <3>1. CASE seq - w.highest >= WINDOW
        BY <1>0, <3>1 DEF Advance
      <3>2. CASE ~(seq - w.highest >= WINDOW)
        <4>1. w.bitmap \in SUBSET Bits
          BY DEF Windows
        <4>2. seq - w.highest < WINDOW
          BY <2>1, <3>2, WindowAssumption
        <4>3. Shl(w.bitmap, seq - w.highest) \in SUBSET Bits
          BY <2>1, <4>1, <4>2, ShlInside
        <4> QED BY <1>0, <3>2, <4>3 DEF Advance
      <3> QED BY <3>1, <3>2
    <2> QED BY <1>2, <2>2 DEF Accept, Advanced, Windows
  <1>3. CASE w.primed /\ ~(seq > w.highest) /\ (back >= WINDOW \/ back \in w.bitmap)
    BY <1>3 DEF Accept, Advanced, Windows
  <1>4. CASE w.primed /\ ~(seq > w.highest) /\ ~(back >= WINDOW \/ back \in w.bitmap)
    <2>1. back \in Bits
      BY <1>4, WindowAssumption, MaxSeqAssumption DEF Windows, SeqNums, Bits
    <2>2. [w EXCEPT !.bitmap = @ \cup {back}] \in Windows
      BY <2>1 DEF Windows
    <2> QED BY <1>4, <2>2 DEF Accept, Advanced
  <1> QED BY <1>1, <1>2, <1>3, <1>4 DEF Windows

-----------------------------------------------------------------------------
(* The window's memory *)

(* A window refuses a number it has seen or that lies behind it, and goes  *)
(* on refusing it whatever is accepted afterwards.                         *)
LEMMA RefusedForGood ==
  ASSUME NEW w \in Windows, NEW s \in SeqNums, NEW seq \in SeqNums,
         ~Accept(w, s).ok
  PROVE  ~Accept(Accept(w, seq).window, s).ok
  <1> DEFINE v == Accept(w, seq).window
             back == w.highest - s
  <1>0. /\ w.highest \in Int /\ s \in Int /\ seq \in Int /\ w.primed \in BOOLEAN
        /\ w.bitmap \in SUBSET Bits
        /\ WINDOW \in Int /\ WINDOW > 0
    BY WindowAssumption, MaxSeqAssumption DEF Windows, SeqNums
  <1>1. /\ w.primed /\ ~(s > w.highest)
        /\ back >= WINDOW \/ back \in w.bitmap
    BY <1>0 DEF Accept
  <1>2. CASE seq > w.highest
    <2> DEFINE shift == seq - w.highest
    <2>1. v = [primed |-> TRUE, highest |-> seq, bitmap |-> Advance(w.bitmap, shift)]
      BY <1>1, <1>2 DEF Accept, Advanced
    <2>2. /\ ~(s > seq) /\ seq - s = back + shift /\ shift > 0 /\ shift \in Nat
          /\ back >= 0
      BY <1>0, <1>1, <1>2
    <2>3. seq - s >= WINDOW \/ (seq - s) \in Advance(w.bitmap, shift)
      <3>1. CASE seq - s >= WINDOW
        BY <3>1
      <3>2. CASE ~(seq - s >= WINDOW)
        <4>1. shift < WINDOW /\ ~(shift >= WINDOW) /\ back \in w.bitmap
          BY <1>0, <1>1, <2>2, <3>2
        <4>2. (seq - s) \in Bits /\ seq - s >= shift /\ (seq - s) - shift = back
          BY <1>0, <1>1, <2>2, <3>2 DEF Bits
        <4>3. (seq - s) \in Shl(w.bitmap, shift)
          BY <1>0, <2>2, <4>1, <4>2, ShlInside
        <4> QED BY <4>1, <4>3 DEF Advance
      <3> QED BY <3>1, <3>2
    <2> QED BY <2>1, <2>2, <2>3 DEF Accept
  <1>3. CASE ~(seq > w.highest)
    <2>1. v = w \/ v = [w EXCEPT !.bitmap = @ \cup {w.highest - seq}]
      BY <1>1, <1>3 DEF Accept
    <2>2. v.primed = w.primed /\ v.highest = w.highest /\ w.bitmap \subseteq v.bitmap
      BY <2>1 DEF Windows
    <2> QED BY <1>1, <2>2 DEF Accept
  <1> QED BY <1>2, <1>3

(* What accept has taken it refuses from then on. *)
LEMMA TakenIsRefused ==
  ASSUME NEW w \in Windows, NEW seq \in SeqNums, Accept(w, seq).ok
  PROVE  ~Accept(Accept(w, seq).window, seq).ok
  <1> DEFINE v == Accept(w, seq).window
  <1>0. /\ w.highest \in Int /\ seq \in Int /\ w.primed \in BOOLEAN
        /\ WINDOW \in Int /\ WINDOW > 0
    BY WindowAssumption, MaxSeqAssumption DEF Windows, SeqNums
  <1>1. /\ v.primed /\ ~(seq > v.highest) /\ (v.highest - seq) \in v.bitmap
    <2>1. CASE ~w.primed
      BY <1>0, <2>1 DEF Accept
    <2>2. CASE w.primed /\ seq > w.highest
      <3>1. v = Advanced(w, seq)
        BY <2>2 DEF Accept
      <3> QED BY <1>0, <3>1 DEF Advanced, Advance
    <2>3. CASE w.primed /\ ~(seq > w.highest)
      <3>1. v = [w EXCEPT !.bitmap = @ \cup {w.highest - seq}]
        BY <2>3 DEF Accept
      <3> QED BY <2>3, <3>1 DEF Windows
    <2> QED BY <1>0, <2>1, <2>2, <2>3
  <1> QED BY <1>1 DEF Accept
=============================================================================
