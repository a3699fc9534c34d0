------------------------------- MODULE MCLink -------------------------------
(***************************************************************************)
(* Two initiators and two responders with rosters, a named address and     *)
(* learned ones.  `crowd` says which of two ways a behaviour goes: all     *)
(* four handshake, their links learning, with sessions of one frame each   *)
(* (the instance `Brief`); or b and r alone, which learn nothing, go       *)
(* through sessions of several frames.                                     *)
(***************************************************************************)
EXTENDS Link

CONSTANTS a, b, r, q

VARIABLE crowd

(* r refuses a, and a refuses q; b and q accept everyone. *)
Rosters == [n \in Nodes |-> IF n = r THEN {b} ELSE IF n = a THEN {a, b, r} ELSE {a, b, r, q}]

(* b's firmware names r; everyone else starts on broadcast. *)
NamesOne == [n \in Nodes |-> IF n = b THEN r ELSE BROADCAST]

Brief == INSTANCE Link WITH WINDOW <- 1, MaxSeq <- 0

LinkInit ==
  /\ crowd \in BOOLEAN
  /\ learners = IF crowd THEN Nodes ELSE {}
  /\ Init

LinkNext ==
  /\ UNCHANGED <<crowd, learners>>
  /\ \E n \in IF crowd THEN Nodes ELSE {b, r} : IF crowd THEN Brief!Step(n) ELSE Step(n)

LinkSpec == LinkInit /\ [][LinkNext]_<<vars, crowd>>
=============================================================================
