---------------------------- MODULE ReplayWindow ----------------------------
(***************************************************************************)
(* The sliding anti-replay window of the authenticated link                *)
(* (rusty_esp_signal-core, link.rs, struct ReplayWindow): pure operators   *)
(* on a window value.  The u64 bitmap is the set of its one bits; bit 0    *)
(* stands for the highest sequence number seen.                            *)
(***************************************************************************)
EXTENDS Integers

CONSTANTS WINDOW,  \* frames the window reaches back: 64 in the code
          MaxSeq   \* the largest sequence number: u32::MAX in the code

ASSUME WindowAssumption == WINDOW \in Nat \ {0}
ASSUME MaxSeqAssumption == MaxSeq \in Nat

SeqNums == 0 .. MaxSeq

Bits == 0 .. (WINDOW - 1)

Windows == [primed : BOOLEAN, highest : SeqNums, bitmap : SUBSET Bits]

NewWindow == [primed |-> FALSE, highest |-> 0, bitmap |-> {}]

(* `bitmap << n` on a WINDOW-bit word: the bits pushed over the top are    *)
(* lost, and the shift count itself is taken modulo the word's width.      *)
Shl(bits, n) == {b + (n % WINDOW) : b \in {c \in bits : c + (n % WINDOW) < WINDOW}}

AdvanceUnguarded(bits, shift) == Shl(bits, shift) \cup {0}   \* mutant

(* The bitmap after the highest number moves forward by shift. *)
Advance(bits, shift) ==
  (IF shift >= WINDOW THEN {} ELSE Shl(bits, shift)) \cup {0}

(* ReplayWindow::would_accept. *)
WouldAccept(w, seq) ==
  \/ ~w.primed
  \/ seq > w.highest
  \/ /\ w.highest - seq < WINDOW
     /\ (w.highest - seq) \notin w.bitmap

(* The window after a frame beyond the highest. *)
Advanced(w, seq) ==
  [primed  |-> TRUE,
   highest |-> seq,
   bitmap  |-> Advance(w.bitmap, seq - w.highest)]

AcceptUnmarked(w, seq) ==   \* mutant
  [ok |-> WouldAccept(w, seq),
   window |-> IF ~w.primed
              THEN [primed |-> TRUE, highest |-> seq, bitmap |-> {0}]
              ELSE IF seq > w.highest THEN Advanced(w, seq) ELSE w]

AcceptStale(w, seq) ==   \* mutant
  [ok |-> seq > w.highest \/ (w.highest - seq) \notin w.bitmap,
   window |-> IF seq > w.highest THEN Advanced(w, seq) ELSE w]

(* ReplayWindow::accept: the verdict, and the window it leaves behind. *)
Accept(w, seq) ==
  LET back == w.highest - seq
  IN  IF ~w.primed
      THEN [ok |-> TRUE,
            window |-> [primed |-> TRUE, highest |-> seq, bitmap |-> {0}]]
      ELSE IF seq > w.highest
      THEN [ok |-> TRUE,
            window |-> Advanced(w, seq)]
      ELSE IF back >= WINDOW \/ back \in w.bitmap
      THEN [ok |-> FALSE, window |-> w]
      ELSE [ok |-> TRUE,
            window |-> [w EXCEPT !.bitmap = @ \cup {back}]]
=============================================================================
