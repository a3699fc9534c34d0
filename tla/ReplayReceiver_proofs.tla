------------------------ MODULE ReplayReceiver_proofs ------------------------
(***************************************************************************)
(* The anti-replay window, for every width and every sequence space: type  *)
(* correctness, the exactness of the bitmap, at-most-once delivery, and    *)
(* the refinement of the abstract promise.                                 *)
(***************************************************************************)
EXTENDS ReplayReceiver, ReplayWindow_proofs

-----------------------------------------------------------------------------
(* Type correctness *)

(* The window and the delivery counts keep their types. *)
THEOREM TypeCorrect == Spec => []TypeOK
  <1>1. Init => TypeOK
    BY WindowAssumption, MaxSeqAssumption DEF Init, TypeOK, NewWindow, Windows, SeqNums, Bits
  <1>2. TypeOK /\ [Next]_vars => TypeOK'
    <2> SUFFICES ASSUME TypeOK, [Next]_vars PROVE TypeOK'
      OBVIOUS
    <2>1. ASSUME NEW seq \in SeqNums, Receive(seq) PROVE TypeOK'
      <3>1. window' \in Windows
        BY <2>1, AcceptType DEF TypeOK, Receive
      <3>2. delivered' \in [SeqNums -> Nat]
        BY <2>1 DEF TypeOK, Receive
      <3> QED BY <3>1, <3>2 DEF TypeOK
    <2>2. CASE UNCHANGED vars
      BY <2>2 DEF TypeOK, vars
    <2> QED BY <2>1, <2>2 DEF Next
  <1> QED BY <1>1, <1>2, PTL DEF Spec

-----------------------------------------------------------------------------
(* The inductive invariant *)

IInv == TypeOK /\ WindowExact /\ AtMostOnce

(* What accept's verdict means while the bitmap is exact: the frame is     *)
(* fresh.                                                                  *)
LEMMA AcceptedIsFresh ==
  ASSUME IInv, NEW seq \in SeqNums, Accept(window, seq).ok
  PROVE  delivered[seq] = 0
  <1>1. CASE ~window.primed
    BY <1>1 DEF IInv, WindowExact
  <1>2. CASE window.primed /\ seq > window.highest
    BY <1>2 DEF IInv, WindowExact
  <1>3. CASE window.primed /\ ~(seq > window.highest)
    <2>1. window.highest \in Int /\ seq \in Int
      BY MaxSeqAssumption DEF IInv, TypeOK, Windows, SeqNums
    <2>2. ~(window.highest - seq >= WINDOW) /\ (window.highest - seq) \notin window.bitmap
      BY <1>3 DEF Accept, Advanced
    <2>3. seq <= window.highest /\ window.highest - seq < WINDOW
      BY <1>3, <2>1, <2>2, WindowAssumption
    <2> QED BY <1>3, <2>2, <2>3 DEF IInv, WindowExact
  <1> QED BY <1>1, <1>2, <1>3

(* accept keeps the window exact, whatever number arrives.                 *)
LEMMA InvReceive ==
  ASSUME IInv, TypeOK', NEW seq \in SeqNums, Receive(seq)
  PROVE  WindowExact' /\ AtMostOnce'
  <1> DEFINE back == window.highest - seq
  <1>0. /\ window \in Windows /\ delivered \in [SeqNums -> Nat]
        /\ window.highest \in Int /\ seq \in Int /\ seq \in SeqNums
        /\ window.primed \in BOOLEAN
        /\ \A s \in SeqNums : s \in Int /\ 0 <= s
        /\ WINDOW \in Int /\ WINDOW > 0
    BY WindowAssumption, MaxSeqAssumption DEF IInv, TypeOK, Windows, SeqNums
  <1>1. CASE ~window.primed
    <2>1. window' = [primed |-> TRUE, highest |-> seq, bitmap |-> {0}]
      BY <1>1 DEF Receive, Accept, Advanced
    <2>2. delivered' = [delivered EXCEPT ![seq] = @ + 1]
      BY <1>1 DEF Receive, Accept, Advanced
    <2>3. \A s \in SeqNums : delivered[s] = 0
      BY <1>1 DEF IInv, WindowExact
    <2>4. \A s \in SeqNums : delivered'[s] = IF s = seq THEN 1 ELSE 0
      BY <2>2, <2>3, <1>0
    <2>5. AtMostOnce'
      BY <2>4 DEF AtMostOnce
    <2>6. WindowExact'
      BY <1>0, <2>1, <2>4 DEF WindowExact
    <2> QED BY <2>5, <2>6
  <1>2. CASE window.primed /\ seq > window.highest
    <2> DEFINE shift == seq - window.highest
    <2>1. window' = [primed |-> TRUE, highest |-> seq,
                     bitmap |-> Advance(window.bitmap, shift)]
      BY <1>2 DEF Receive, Accept, Advanced
    <2>2. delivered' = [delivered EXCEPT ![seq] = @ + 1]
      BY <1>2 DEF Receive, Accept, Advanced
    <2>3. \A s \in SeqNums : s > window.highest => delivered[s] = 0
      BY <1>2 DEF IInv, WindowExact
    <2>4. delivered'[seq] = 1 /\ \A s \in SeqNums : s # seq => delivered'[s] = delivered[s]
      BY <1>0, <1>2, <2>2, <2>3
    <2>5. AtMostOnce'
      BY <2>4 DEF AtMostOnce, IInv
    <2>6. \A s \in SeqNums : s > seq => delivered'[s] = 0
      BY <1>0, <1>2, <2>3, <2>4
    <2>7. ASSUME NEW s \in SeqNums, s <= seq, seq - s < WINDOW
          PROVE  (seq - s) \in Advance(window.bitmap, shift) <=> delivered'[s] # 0
      <3>0. shift \in Nat /\ shift > 0 /\ (seq - s) \in Bits
        BY <1>0, <1>2, <2>7 DEF Bits
      <3>1. CASE s = seq
        BY <1>0, <2>4, <3>1 DEF Advance
      <3>2. CASE s > window.highest /\ s # seq
        <4>1. delivered'[s] = 0
          BY <2>3, <2>4, <3>2
        <4>2. seq - s # 0 /\ seq - s < shift
          BY <1>0, <3>2
        <4>3. (seq - s) \notin Advance(window.bitmap, shift)
          <5>1. CASE shift >= WINDOW
            BY <4>2, <5>1 DEF Advance
          <5>2. CASE ~(shift >= WINDOW)
            <6>1. window.bitmap \in SUBSET Bits
              BY <1>0 DEF Windows
            <6>2. shift < WINDOW /\ ~(seq - s >= shift)
              BY <1>0, <3>0, <4>2, <5>2
            <6>3. (seq - s) \notin Shl(window.bitmap, shift)
              BY <3>0, <6>1, <6>2, ShlInside
            <6> QED BY <4>2, <5>2, <6>3 DEF Advance
          <5> QED BY <5>1, <5>2
        <4> QED BY <4>1, <4>3
      <3>3. CASE s <= window.highest
        <4>1. shift < WINDOW /\ window.highest - s < WINDOW
          BY <1>0, <1>2, <2>7, <3>3
        <4>2. (window.highest - s) \in window.bitmap <=> delivered[s] # 0
          BY <1>2, <3>3, <4>1 DEF IInv, WindowExact
        <4>3. seq - s # 0 /\ seq - s >= shift /\ (seq - s) - shift = window.highest - s /\ s # seq
          BY <1>0, <1>2, <3>3
        <4>4. (seq - s) \in Shl(window.bitmap, shift) <=> (window.highest - s) \in window.bitmap
          BY <1>0, <3>0, <4>1, <4>3, ShlInside DEF Windows
        <4>5. (seq - s) \in Advance(window.bitmap, shift) <=> (seq - s) \in Shl(window.bitmap, shift)
          BY <1>0, <3>0, <4>1, <4>3 DEF Advance
        <4> QED BY <2>4, <4>2, <4>3, <4>4, <4>5
      <3> QED BY <1>0, <3>1, <3>2, <3>3
    <2>8. WindowExact'
      BY <2>1, <2>4, <2>6, <2>7 DEF WindowExact
    <2> QED BY <2>5, <2>8
  <1>3. CASE window.primed /\ ~(seq > window.highest) /\ ~Accept(window, seq).ok
    <2>1. window' = window /\ delivered' = delivered
      BY <1>3 DEF Receive, Accept, Advanced
    <2> QED BY <2>1 DEF IInv, WindowExact, AtMostOnce
  <1>4. CASE window.primed /\ ~(seq > window.highest) /\ Accept(window, seq).ok
    <2>1. ~(back >= WINDOW) /\ back \notin window.bitmap
      BY <1>4 DEF Accept, Advanced
    <2>2. window' = [window EXCEPT !.bitmap = @ \cup {back}]
      BY <1>4, <2>1 DEF Receive, Accept, Advanced
    <2>3. /\ window'.primed /\ window'.highest = window.highest
          /\ window'.bitmap = window.bitmap \cup {back}
      BY <1>0, <1>4, <2>2 DEF Windows
    <2>4. delivered' = [delivered EXCEPT ![seq] = @ + 1]
      BY <1>4 DEF Receive
    <2>5. delivered[seq] = 0
      BY <1>4, AcceptedIsFresh
    <2>6. delivered'[seq] = 1 /\ \A s \in SeqNums : s # seq => delivered'[s] = delivered[s]
      BY <1>0, <2>4, <2>5
    <2>7. AtMostOnce'
      BY <2>6 DEF AtMostOnce, IInv
    <2>8. delivered[window.highest] = 1 /\ window.highest \in SeqNums
      BY <1>0, <1>4 DEF IInv, WindowExact, Windows
    <2>9. delivered'[window.highest] = 1
      BY <2>6, <2>8
    <2>10. \A s \in SeqNums : s > window.highest => delivered'[s] = 0
      BY <1>0, <1>4, <2>6 DEF IInv, WindowExact
    <2>11. ASSUME NEW s \in SeqNums, s <= window.highest, window.highest - s < WINDOW
           PROVE  (window.highest - s) \in window'.bitmap <=> delivered'[s] # 0
      <3>1. (window.highest - s) \in window.bitmap <=> delivered[s] # 0
        BY <1>4, <2>11 DEF IInv, WindowExact
      <3>2. (window.highest - s = back) <=> (s = seq)
        BY <1>0
      <3> QED BY <2>3, <2>6, <3>1, <3>2
    <2>12. WindowExact'
      BY <2>3, <2>9, <2>10, <2>11 DEF WindowExact
    <2> QED BY <2>7, <2>12
  <1> QED BY <1>0, <1>1, <1>2, <1>3, <1>4

(* The bitmap is exact in every reachable state, for every window width    *)
(* and every sequence space, with the types and at-most-once delivery.     *)
THEOREM Invariance == Spec => []IInv
  <1>1. Init => WindowExact /\ AtMostOnce
    BY DEF Init, NewWindow, WindowExact, AtMostOnce
  <1>2. IInv /\ TypeOK' /\ [Next]_vars => IInv'
    <2> SUFFICES ASSUME IInv, TypeOK', [Next]_vars PROVE IInv'
      OBVIOUS
    <2>1. ASSUME NEW seq \in SeqNums, Receive(seq) PROVE IInv'
      BY <2>1, InvReceive DEF IInv
    <2>2. CASE UNCHANGED vars
      BY <2>2 DEF vars, IInv, TypeOK, WindowExact, AtMostOnce
    <2> QED BY <2>1, <2>2 DEF Next
  <1>3. TypeOK /\ WindowExact /\ AtMostOnce => IInv
    BY DEF IInv
  <1> QED BY <1>1, <1>2, <1>3, TypeCorrect, PTL DEF Spec

(* No sequence number is ever delivered twice. *)
THEOREM NeverTwice == Spec => []AtMostOnce
  <1>1. IInv => AtMostOnce
    BY DEF IInv
  <1> QED BY <1>1, Invariance, PTL

(* A late frame that is still inside the window is accepted. *)
THEOREM NeverRefusedInside == Spec => []LateFrameAccepted
  <1>1. IInv => LateFrameAccepted
    <2> SUFFICES ASSUME IInv, NEW s \in SeqNums, delivered[s] = 0, window.highest - s < WINDOW
                 PROVE  Accept(window, s).ok
      BY DEF LateFrameAccepted
    <2>1. CASE ~window.primed \/ s > window.highest
      BY <2>1 DEF Accept, Advanced
    <2>2. CASE window.primed /\ ~(s > window.highest)
      <3>1. s <= window.highest /\ ~(window.highest - s >= WINDOW)
        BY <2>2, WindowAssumption, MaxSeqAssumption DEF IInv, TypeOK, Windows, SeqNums
      <3>2. (window.highest - s) \notin window.bitmap
        BY <2>2, <3>1 DEF IInv, WindowExact
      <3> QED BY <2>2, <3>1, <3>2 DEF Accept, Advanced
    <2> QED BY <2>1, <2>2
  <1> QED BY <1>1, Invariance, PTL

(* The window implements the abstract anti-replay promise. *)
THEOREM Refinement == Spec => PromiseSpec
  <1> DEFINE got == {s \in SeqNums : delivered[s] > 0}
  <1>1. Init => Promise!Init
    BY DEF Init, Promise!Init
  <1>2. IInv /\ [Next]_vars => [Promise!Next]_got
    <2> SUFFICES ASSUME IInv, [Next]_vars PROVE [Promise!Next]_got
      OBVIOUS
    <2>0. delivered \in [SeqNums -> Nat] /\ window.highest \in Int
          /\ \A s \in SeqNums : s \in Int
      BY MaxSeqAssumption DEF IInv, TypeOK, Windows, SeqNums
    <2>1. ASSUME NEW seq \in SeqNums, Receive(seq) PROVE [Promise!Next]_got
      <3>1. CASE ~Accept(window, seq).ok
        <4>1. delivered' = delivered
          BY <2>1, <3>1 DEF Receive
        <4> QED BY <4>1
      <3>2. CASE Accept(window, seq).ok
        <4>1. delivered[seq] = 0
          BY <3>2, AcceptedIsFresh
        <4>2. delivered' = [delivered EXCEPT ![seq] = 1]
          BY <2>0, <2>1, <3>2, <4>1 DEF Receive
        <4>3. seq \notin got /\ got' = got \cup {seq}
          BY <2>0, <4>1, <4>2
        <4>4. ASSUME NEW g \in got PROVE g - seq < WINDOW
          <5>1. window.primed /\ g <= window.highest
            BY <2>0, <4>4 DEF IInv, WindowExact, TypeOK, Windows
          <5>2. seq > window.highest \/ window.highest - seq < WINDOW
            BY <2>0, <3>2, <5>1, WindowAssumption DEF Accept, Advanced
          <5> QED BY <2>0, <5>1, <5>2, WindowAssumption
        <4>5. Promise!Deliver(seq)
          BY <4>3, <4>4 DEF Promise!Deliver
        <4> QED BY <4>5 DEF Promise!Next
      <3> QED BY <3>1, <3>2
    <2>2. CASE UNCHANGED vars
      BY <2>2 DEF vars
    <2> QED BY <2>1, <2>2 DEF Next
  <1>3. Promise!Init /\ [][Promise!Next]_got => PromiseSpec
    BY DEF PromiseSpec, Promise!Spec
  <1> QED BY <1>1, <1>2, <1>3, Invariance, PTL DEF Spec
=============================================================================
