--------------------------- MODULE MCOpenStation ---------------------------
(***************************************************************************)
(* The station on a ladder of three rates: links that allow all of them,   *)
(* or all but the fastest, on which frames get through at each rate as     *)
(* Quality says, slowest first.                                            *)
(***************************************************************************)
EXTENDS OpenStation

MCAirtimes == (0 :> 524) @@ (1 :> 272) @@ (2 :> 244)
MCLinks == {-1, 2}
Quality(slow, mid, fast) == (0 :> slow) @@ (1 :> mid) @@ (2 :> fast)
MCQualities ==
  {Quality(1000, 950, 0), Quality(1000, 500, 250), Quality(250, 250, 250), Quality(1000, 1000, 1000)}
=============================================================================
