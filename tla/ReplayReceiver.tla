--------------------------- MODULE ReplayReceiver ---------------------------
(***************************************************************************)
(* One receive direction of a session: authentic frames arrive in any      *)
(* order, any number of times, with any gaps (the radio loses, repeats and *)
(* reorders), and each is put to the window.  delivered counts, for each   *)
(* sequence number, how many of its copies were handed to the application. *)
(***************************************************************************)
EXTENDS ReplayWindow

VARIABLES window, delivered

vars == <<window, delivered>>

Init ==
  /\ window = NewWindow
  /\ delivered = [s \in SeqNums |-> 0]

(* The tail of Session::open_with: the window decides on an authentic      *)
(* frame, and a refused one is not delivered.                              *)
Receive(seq) ==
  LET verdict == Accept(window, seq)
  IN  /\ window' = verdict.window
      /\ delivered' = IF verdict.ok
                      THEN [delivered EXCEPT ![seq] = @ + 1]
                      ELSE delivered

Next == \E seq \in SeqNums : Receive(seq)

Spec == Init /\ [][Next]_vars

-----------------------------------------------------------------------------

(* Every variable has its type. *)
TypeOK ==
  /\ window \in Windows
  /\ delivered \in [SeqNums -> Nat]

(* "Accepts each sequence number at most once": however often and in       *)
(* whatever order copies of a frame arrive, ReplayWindow::accept lets at   *)
(* most one of them through.                                               *)
AtMostOnce == \A s \in SeqNums : delivered[s] <= 1

(* The bitmap is exact: nothing above highest was delivered, and each bit  *)
(* inside the window says whether its frame was.  This is the strengthening*)
(* that makes AtMostOnce inductive; it fails if a shift of accept keeps,   *)
(* loses or misplaces a bit.                                               *)
WindowExact ==
  /\ ~window.primed => /\ window = NewWindow
                       /\ \A s \in SeqNums : delivered[s] = 0
  /\ window.primed =>
       /\ delivered[window.highest] = 1
       /\ \A s \in SeqNums : s > window.highest => delivered[s] = 0
       /\ \A s \in SeqNums :
            /\ s <= window.highest
            /\ window.highest - s < WINDOW
            => ((window.highest - s) \in window.bitmap <=> delivered[s] # 0)

(* "Tolerates reordering inside the window": a late frame that was never   *)
(* delivered and is less than WINDOW behind is not refused by accept.      *)
LateFrameAccepted ==
  \A s \in SeqNums :
    /\ delivered[s] = 0
    /\ window.highest - s < WINDOW
    => Accept(window, s).ok

(* would_accept predicts what accept then answers, for every number. *)
WouldAcceptAgrees ==
  \A s \in SeqNums : WouldAccept(window, s) = Accept(window, s).ok

(* The window implements the abstract promise: only fresh frames, and none *)
(* from behind the window, whatever the bitmap does.                       *)
Promise == INSTANCE AntiReplay WITH
             Frames <- SeqNums,
             Reach  <- WINDOW,
             got    <- {s \in SeqNums : delivered[s] > 0}

PromiseSpec == Promise!Spec
=============================================================================
