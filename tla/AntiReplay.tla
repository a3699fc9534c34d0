----------------------------- MODULE AntiReplay -----------------------------
(***************************************************************************)
(* What an anti-replay window promises: a frame is delivered at most once, *)
(* and never a frame that lies Reach or more behind one already delivered. *)
(***************************************************************************)
EXTENDS Integers

CONSTANTS Frames, Reach

VARIABLE got

Init == got = {}

Deliver(f) ==
  /\ f \notin got
  /\ \A g \in got : g - f < Reach
  /\ got' = got \cup {f}

Next == \E f \in Frames : Deliver(f)

Spec == Init /\ [][Next]_got
=============================================================================
