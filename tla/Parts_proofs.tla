---------------------------- MODULE Parts_proofs ----------------------------
(***************************************************************************)
(* Theorems about the parts that MCParts puts through their state spaces,  *)
(* for every value of their constants: the splices between the radios and  *)
(* the stacks, the GATT service on Bluedroid, the boards on esp-hal, the   *)
(* link firmwares' run, the station on the open MAC and the relay.         *)
(***************************************************************************)
EXTENDS Splice, IdfGatt, HalBoard, LinkRun, OpenStation, Relay,
        FiniteSetTheorems, WellFoundedInduction, TLAPS


-----------------------------------------------------------------------------
(* Splices *)

(* What a splice waits to transmit: what `decide` sends back, or the frame *)
(* it took from the stack or from across.                                  *)
Queueing == Seq({"Here"}) \cup {<<"stack">>, <<"across">>}

SpliceTyped ==
  /\ dev \in [Sides -> [rx : Nat, tx : Nat, link : {"Up", "Down"}]]
  /\ net \in [Sides -> [up : Nat, down : Nat, link : {"Up", "Down"}]]
  /\ crossing \in [Sides -> 0 .. CROSSING]
  /\ todo \in [Sides -> Queueing]
  /\ first \in [Sides -> {"none", "Stack", "Across"}]
  /\ acrossWentLast \in [Sides -> BOOLEAN]
  /\ full \in [Sides -> [stack : Nat, across : Nat]]
  /\ owed \in [Sides -> [stack : Int, across : Int]]
  /\ passed \in [Sides -> [relayed : Nat, own : Nat]]

(* A select runs only with nothing left to transmit, and the stack keeps   *)
(* its frame until it is transmitted.                                      *)
OneAtATime ==
  \A s \in Sides : /\ first[s] # "none" => todo[s] = <<>>
                   /\ todo[s] = <<"stack">> => net[s].down > 0

(* Whoever was passed once goes next: the turn of the other is over, and   *)
(* no select that runs has it first.                                       *)
NextInTurn ==
  \A s \in Sides :
    /\ passed[s].own > 0 => passed[s].own = 1 /\ acrossWentLast[s] /\ first[s] # "Across"
    /\ ~relayBehind /\ passed[s].relayed > 0 =>
         passed[s].relayed = 1 /\ ~acrossWentLast[s] /\ first[s] # "Stack"

SpliceInv == SpliceTyped /\ OneAtATime /\ FramesAccounted /\ NextInTurn

(* There are two radios, each the other's other.                           *)
LEMMA OtherSide ==
  ASSUME NEW s \in Sides
  PROVE  Other(s) \in Sides /\ Other(s) # s /\ Other(Other(s)) = s
         /\ \A t \in Sides : t = s \/ t = Other(s)
  BY DEF Sides, Other

(* Both splices start in the invariant.                                    *)
LEMMA SpliceStarts == SpliceInit => SpliceInv
  <1> SUFFICES ASSUME SpliceInit PROVE SpliceInv
    OBVIOUS
  <1>1. SpliceTyped
    <2>1. PICK no \in BOOLEAN : no = FALSE
      OBVIOUS
    <2>2. acrossWentLast = [s \in Sides |-> no]
      BY <2>1 DEF SpliceInit
    <2> QED BY <2>2, SpliceAssumption DEF SpliceInit, SpliceTyped, Queueing, NonePassed
  <1>2. OneAtATime /\ NextInTurn
    BY DEF SpliceInit, OneAtATime, NextInTurn, NonePassed
  <1>3. FramesAccounted
    <2>1. \A s \in Sides : /\ todo[Other(s)] = <<>> /\ crossing[s] = 0
                           /\ owed[s].stack = 0 /\ owed[s].across = 0 /\ net[s].up = 0
                           /\ full[s].stack = 0 /\ full[s].across = 0
      BY OtherSide DEF SpliceInit
    <2> QED BY <2>1 DEF FramesAccounted
  <1> QED BY <1>1, <1>2, <1>3 DEF SpliceInv

(* What is neither the splices' nor their ends'. *)
LEMMA EndsMove ==
  ASSUME SpliceInv, NEW s \in Sides,
         \/ LinkComesUp(s) \/ RadioReceives(s) \/ RadioSends(s)
         \/ StackSends(s) \/ StackReads(s)
  PROVE  SpliceInv'
  <1>1. SpliceTyped /\ OneAtATime /\ FramesAccounted /\ NextInTurn
    BY DEF SpliceInv
  <1>2. CASE LinkComesUp(s) \/ RadioReceives(s) \/ RadioSends(s)
    <2>1. SpliceTyped'
      <3>1. PICK r \in [rx : Nat, tx : Nat, link : {"Up", "Down"}] : dev' = [dev EXCEPT ![s] = r]
        <4>1. dev \in [Sides -> [rx : Nat, tx : Nat, link : {"Up", "Down"}]]
          BY <1>1 DEF SpliceTyped
        <4>2. CASE LinkComesUp(s)
          <5>1. dev' = [dev EXCEPT ![s] = [dev[s] EXCEPT !.link = "Up"]]
            BY <4>2 DEF LinkComesUp
          <5>2. [dev[s] EXCEPT !.link = "Up"] \in [rx : Nat, tx : Nat, link : {"Up", "Down"}]
            BY <4>1
          <5> QED BY <5>1, <5>2
        <4>3. CASE RadioReceives(s)
          <5>1. dev' = [dev EXCEPT ![s] = [dev[s] EXCEPT !.rx = dev[s].rx + 1]]
            BY <4>3 DEF RadioReceives
          <5>2. [dev[s] EXCEPT !.rx = dev[s].rx + 1] \in [rx : Nat, tx : Nat, link : {"Up", "Down"}]
            BY <4>1
          <5> QED BY <5>1, <5>2
        <4>4. CASE RadioSends(s)
          <5>1. dev' = [dev EXCEPT ![s] = [dev[s] EXCEPT !.tx = dev[s].tx - 1]] /\ dev[s].tx > 0
            BY <4>4 DEF RadioSends
          <5>2. [dev[s] EXCEPT !.tx = dev[s].tx - 1] \in [rx : Nat, tx : Nat, link : {"Up", "Down"}]
            BY <4>1, <5>1
          <5> QED BY <5>1, <5>2
        <4> QED BY <1>2, <4>2, <4>3, <4>4
      <3> QED BY <1>1, <1>2, <3>1 DEF SpliceTyped, LinkComesUp, RadioReceives, RadioSends
    <2>2. UNCHANGED <<net, crossing, todo, first, acrossWentLast, relayBehind, full, owed, passed>>
      BY <1>2 DEF LinkComesUp, RadioReceives, RadioSends
    <2> QED BY <1>1, <2>1, <2>2 DEF SpliceInv, OneAtATime, FramesAccounted, NextInTurn
  <1>3. CASE StackSends(s)
    <2>1. SpliceTyped'
      <3>1. net \in [Sides -> [up : Nat, down : Nat, link : {"Up", "Down"}]]
        BY <1>1 DEF SpliceTyped
      <3>2. net' = [net EXCEPT ![s] = [net[s] EXCEPT !.down = net[s].down + 1]]
        BY <1>3 DEF StackSends
      <3>3. net' \in [Sides -> [up : Nat, down : Nat, link : {"Up", "Down"}]]
        BY <3>1, <3>2
      <3> QED BY <1>1, <1>3, <3>3 DEF SpliceTyped, StackSends
    <2>2. \A t \in Sides : net'[t].up = net[t].up /\ (net[t].down > 0 => net'[t].down > 0)
      BY <1>1, <1>3 DEF SpliceTyped, StackSends
    <2>3. UNCHANGED <<crossing, todo, first, acrossWentLast, relayBehind, full, owed, passed>>
      BY <1>3 DEF StackSends
    <2> QED BY <1>1, <2>1, <2>2, <2>3 DEF SpliceInv, OneAtATime, FramesAccounted, NextInTurn
  <1>4. CASE StackReads(s)
    <2>1. SpliceTyped'
      <3>1. /\ net \in [Sides -> [up : Nat, down : Nat, link : {"Up", "Down"}]]
            /\ owed \in [Sides -> [stack : Int, across : Int]]
        BY <1>1 DEF SpliceTyped
      <3>2. /\ net' = [net EXCEPT ![s] = [net[s] EXCEPT !.up = net[s].up - 1]] /\ net[s].up > 0
            /\ owed' = [owed EXCEPT ![s] = [owed[s] EXCEPT !.stack = owed[s].stack - 1]]
        BY <1>4 DEF StackReads
      <3>3. net' \in [Sides -> [up : Nat, down : Nat, link : {"Up", "Down"}]]
        BY <3>1, <3>2
      <3>4. owed' \in [Sides -> [stack : Int, across : Int]]
        BY <3>1, <3>2
      <3> QED BY <1>1, <1>4, <3>3, <3>4 DEF SpliceTyped, StackReads
    <2>2. \A t \in Sides : /\ net'[t].down = net[t].down
                           /\ owed'[t].across = owed[t].across
                           /\ owed'[t].stack - net'[t].up = owed[t].stack - net[t].up
      BY <1>1, <1>4 DEF SpliceTyped, StackReads
    <2>3. UNCHANGED <<crossing, todo, first, acrossWentLast, relayBehind, full, passed>>
      BY <1>4 DEF StackReads
    <2>4. FramesAccounted'
      BY <1>1, <2>1, <2>2, <2>3 DEF SpliceTyped, FramesAccounted
    <2> QED BY <1>1, <2>1, <2>2, <2>3, <2>4 DEF SpliceInv, OneAtATime, NextInTurn
  <1> QED BY <1>2, <1>3, <1>4

(* Relaying put behind, or again not, keeps it.                            *)
LEMMA SheddingKeeps == SpliceInv /\ Shed => SpliceInv'
  <1> SUFFICES ASSUME SpliceInv, Shed PROVE SpliceInv'
    OBVIOUS
  <1>1. SpliceTyped /\ OneAtATime /\ FramesAccounted
    BY DEF SpliceInv
  <1>2. UNCHANGED <<dev, net, crossing, todo, first, acrossWentLast, full, owed>>
        /\ passed' = NonePassed
    BY DEF Shed
  <1>3. SpliceTyped' /\ NextInTurn'
    BY <1>1, <1>2 DEF SpliceTyped, NextInTurn, NonePassed
  <1>4. OneAtATime' /\ FramesAccounted'
    BY <1>1, <1>2 DEF OneAtATime, FramesAccounted
  <1> QED BY <1>3, <1>4 DEF SpliceInv

(* A look at what is ready, and a link's change passed on, keep it.        *)
LEMMA SelectKeeps ==
  ASSUME SpliceInv, NEW s \in Sides, Select(s) \/ TellLink(s)
  PROVE  SpliceInv'
  <1>1. SpliceTyped /\ OneAtATime /\ FramesAccounted /\ NextInTurn
    BY DEF SpliceInv
  <1>2. UNCHANGED <<crossing, todo, acrossWentLast, relayBehind, full, owed, passed>>
    BY DEF Select, TellLink
  <1>3. SpliceTyped'
    <2>1. /\ dev \in [Sides -> [rx : Nat, tx : Nat, link : {"Up", "Down"}]]
          /\ net \in [Sides -> [up : Nat, down : Nat, link : {"Up", "Down"}]]
          /\ first \in [Sides -> {"none", "Stack", "Across"}]
      BY <1>1 DEF SpliceTyped
    <2>2. first' \in [Sides -> {"none", "Stack", "Across"}]
      BY <2>1 DEF Select, TellLink, First
    <2>3. net' = net \/ net' = [net EXCEPT ![s] = [net[s] EXCEPT !.link = dev[s].link]]
      BY DEF Select, TellLink
    <2>4. net' \in [Sides -> [up : Nat, down : Nat, link : {"Up", "Down"}]]
      BY <2>1, <2>3
    <2>5. dev' = dev
      BY DEF Select, TellLink
    <2> QED BY <1>1, <1>2, <2>1, <2>2, <2>4, <2>5 DEF SpliceTyped
  <1>4. \A t \in Sides : net'[t].up = net[t].up /\ net'[t].down = net[t].down
    <2>1. net \in [Sides -> [up : Nat, down : Nat, link : {"Up", "Down"}]]
      BY <1>1 DEF SpliceTyped
    <2>2. net' = net \/ net' = [net EXCEPT ![s] = [net[s] EXCEPT !.link = dev[s].link]]
      BY DEF Select, TellLink
    <2> QED BY <2>1, <2>2
  <1>5. OneAtATime' /\ FramesAccounted'
    BY <1>1, <1>2, <1>4 DEF OneAtATime, FramesAccounted, Select, TellLink, SpliceTyped
  <1>6. NextInTurn'
    BY <1>1, <1>2 DEF SpliceTyped, NextInTurn, Select, TellLink, First
  <1> QED BY <1>3, <1>5, <1>6 DEF SpliceInv

(* A frame from the radio is routed, and what has no room is counted. *)
LEMMA RadioFrameKeeps ==
  ASSUME SpliceInv, NEW s \in Sides, RadioFrame(s)
  PROVE  SpliceInv'
  <1>1. SpliceTyped /\ OneAtATime /\ FramesAccounted /\ NextInTurn
    BY DEF SpliceInv
  <1>2. todo[s] = <<>>
    BY <1>1 DEF RadioFrame, Selecting, OneAtATime
  <1>3. PICK route \in Routes, extra \in {"None", "Here", "Across"} :
          LET frames == CountIf(route = "Across") + CountIf(extra = "Across")
              upward == CountIf(route = "Stack")
              room   == net[s].up < STACK_RX
          IN  /\ todo' = [todo EXCEPT ![s] = HereIf(route = "Here") \o HereIf(extra = "Here")]
              /\ Across(s, frames)
              /\ net' = [net EXCEPT ![s].up = IF room THEN @ + upward ELSE @]
              /\ full' = [full EXCEPT ![s] =
                   [stack |-> IF room THEN @.stack ELSE @.stack + upward,
                    across |-> @.across + AcrossFull(s, frames)]]
              /\ owed' = [owed EXCEPT ![s] =
                   [stack |-> @.stack + upward, across |-> @.across + frames]]
    BY DEF RadioFrame
  <1>4. PICK frames \in Nat : frames = CountIf(route = "Across") + CountIf(extra = "Across")
    BY DEF CountIf
  <1>5. PICK upward \in Nat : upward = CountIf(route = "Stack")
    BY DEF CountIf
  <1>6. PICK up \in Nat : up = IF net[s].up < STACK_RX THEN net[s].up + upward ELSE net[s].up
    BY <1>1 DEF SpliceTyped
  <1>7. PICK q : q = HereIf(route = "Here") \o HereIf(extra = "Here")
    OBVIOUS
  <1>8. q \in Seq({"Here"}) /\ q # <<"stack">> /\ q # <<"across">>
    <2>1. HereIf(route = "Here") \in Seq({"Here"}) /\ HereIf(extra = "Here") \in Seq({"Here"})
      <3>1. <<"Here">> \in Seq({"Here"}) /\ <<>> \in Seq({"Here"})
        OBVIOUS
      <3> QED BY <3>1 DEF HereIf
    <2>2. q \in Seq({"Here"})
      BY <1>7, <2>1
    <2> QED BY <2>2
  <1>9. PICK c \in 0 .. CROSSING :
          c = IF crossing[s] + frames > CROSSING THEN CROSSING ELSE crossing[s] + frames
    BY <1>1, SpliceAssumption, SMTT(60) DEF SpliceTyped
  <1>10. PICK fs \in Nat : fs = IF net[s].up < STACK_RX THEN full[s].stack ELSE full[s].stack + upward
    BY <1>1, SMTT(60) DEF SpliceTyped
  <1>11. PICK fa \in Nat : fa = full[s].across + AcrossFull(s, frames)
    <2>1. AcrossFull(s, frames) \in Nat
      BY <1>1, SpliceAssumption DEF SpliceTyped, AcrossFull
    <2>2. full[s].across \in Nat
      BY <1>1 DEF SpliceTyped
    <2> QED BY <2>1, <2>2
  <1>12. /\ todo' = [todo EXCEPT ![s] = q] /\ crossing' = [crossing EXCEPT ![s] = c]
         /\ first' = [first EXCEPT ![s] = "none"]
         /\ UNCHANGED <<acrossWentLast, relayBehind, passed>>
    BY <1>3, <1>4, <1>7, <1>9 DEF Across, RadioFrame
  <1>13. net' = [net EXCEPT ![s].up = up]
    BY <1>3, <1>5, <1>6
  <1>14. full' = [full EXCEPT ![s] = [stack |-> fs, across |-> fa]]
    BY <1>3, <1>4, <1>5, <1>10, <1>11
  <1>15. owed' = [owed EXCEPT ![s] = [stack |-> owed[s].stack + upward,
                                      across |-> owed[s].across + frames]]
    BY <1>3, <1>4, <1>5
  <1>16. SpliceTyped'
    <2>1. dev' \in [Sides -> [rx : Nat, tx : Nat, link : {"Up", "Down"}]]
      <3>1. dev \in [Sides -> [rx : Nat, tx : Nat, link : {"Up", "Down"}]]
        BY <1>1 DEF SpliceTyped
      <3>2. dev' = [dev EXCEPT ![s] = [dev[s] EXCEPT !.rx = dev[s].rx - 1]] /\ dev[s].rx > 0
        BY DEF RadioFrame, RadioReady
      <3> QED BY <3>1, <3>2
    <2>2. net' \in [Sides -> [up : Nat, down : Nat, link : {"Up", "Down"}]]
      <3>1. net \in [Sides -> [up : Nat, down : Nat, link : {"Up", "Down"}]]
        BY <1>1 DEF SpliceTyped
      <3>2. net' = [net EXCEPT ![s] = [net[s] EXCEPT !.up = up]]
        BY <1>13
      <3>3. [net[s] EXCEPT !.up = up] \in [up : Nat, down : Nat, link : {"Up", "Down"}]
        BY <3>1
      <3> QED BY <3>1, <3>2, <3>3
    <2>3. /\ full' \in [Sides -> [stack : Nat, across : Nat]]
          /\ owed' \in [Sides -> [stack : Int, across : Int]]
      BY <1>1, <1>14, <1>15 DEF SpliceTyped
    <2>4. /\ crossing' \in [Sides -> 0 .. CROSSING] /\ todo' \in [Sides -> Queueing]
          /\ first' \in [Sides -> {"none", "Stack", "Across"}]
      BY <1>1, <1>8, <1>12 DEF SpliceTyped, Queueing
    <2> QED BY <1>1, <1>12, <2>1, <2>2, <2>3, <2>4 DEF SpliceTyped
  <1>17. OneAtATime' /\ NextInTurn'
    <2>1. \A t \in Sides : /\ net'[t].down = net[t].down
                           /\ first'[t] = IF t = s THEN "none" ELSE first[t]
                           /\ todo'[t] = IF t = s THEN q ELSE todo[t]
      BY <1>1, <1>12, <1>13 DEF SpliceTyped
    <2>2. OneAtATime'
      BY <1>1, <1>8, <2>1 DEF OneAtATime
    <2>3. NextInTurn'
      BY <1>1, <1>12, <2>1 DEF NextInTurn
    <2> QED BY <2>2, <2>3
  <1>18. FramesAccounted'
    <2> SUFFICES ASSUME NEW t \in Sides
                 PROVE  /\ owed'[t].stack = net'[t].up + full'[t].stack
                        /\ owed'[t].across = crossing'[t] + full'[t].across
                             + (IF todo'[Other(t)] = <<"across">> THEN 1 ELSE 0)
      BY <1>16 DEF FramesAccounted, SpliceTyped
    <2>1. todo'[Other(t)] = <<"across">> <=> todo[Other(t)] = <<"across">>
      <3>1. Other(t) \in Sides
        BY OtherSide
      <3>2. todo'[Other(t)] = IF Other(t) = s THEN q ELSE todo[Other(t)]
        BY <1>1, <1>12, <3>1 DEF SpliceTyped
      <3>3. <<>> # <<"across">>
        OBVIOUS
      <3> QED BY <1>2, <1>8, <3>2, <3>3
    <2>2. /\ owed[t].stack = net[t].up + full[t].stack
          /\ owed[t].across = crossing[t] + full[t].across
                               + (IF todo[Other(t)] = <<"across">> THEN 1 ELSE 0)
      BY <1>1 DEF FramesAccounted, SpliceTyped
    <2>3. CASE t = s
      <3>1. /\ owed'[t].stack = owed[t].stack + upward /\ owed'[t].across = owed[t].across + frames
            /\ full'[t].stack = fs /\ full'[t].across = fa /\ crossing'[t] = c
            /\ net'[t].up = up
        BY <1>1, <1>12, <1>13, <1>14, <1>15, <2>3 DEF SpliceTyped
      <3>2. up + fs = net[t].up + full[t].stack + upward
        BY <1>1, <1>6, <1>10, <2>3 DEF SpliceTyped
      <3>3. c + fa = crossing[t] + full[t].across + frames
        BY <1>1, <1>9, <1>11, <2>3, SpliceAssumption DEF SpliceTyped, AcrossFull
      <3>4. /\ owed[t].stack \in Int /\ owed[t].across \in Int /\ crossing[t] \in Int
            /\ full[t].across \in Int /\ full[t].stack \in Int /\ net[t].up \in Int
        BY <1>1 DEF SpliceTyped
      <3> QED BY <2>1, <2>2, <3>1, <3>2, <3>3, <3>4
    <2>4. CASE t # s
      <3>1. /\ owed'[t] = owed[t] /\ full'[t] = full[t] /\ crossing'[t] = crossing[t]
            /\ net'[t] = net[t]
        BY <1>1, <1>12, <1>13, <1>14, <1>15, <2>4 DEF SpliceTyped
      <3> QED BY <2>1, <2>2, <3>1
    <2> QED BY <2>3, <2>4
  <1> QED BY <1>16, <1>17, <1>18 DEF SpliceInv

(* The stack's frame goes first unless the other side's was to. *)
LEMMA StackFrameKeeps ==
  ASSUME SpliceInv, NEW s \in Sides, StackFrame(s)
  PROVE  SpliceInv'
  <1>1. SpliceTyped /\ OneAtATime /\ FramesAccounted /\ NextInTurn
    BY DEF SpliceInv
  <1>2. todo[s] = <<>> /\ <<>> # <<"across">> /\ <<"stack">> # <<"across">>
    <2>1. todo[s] = <<>>
      BY <1>1 DEF StackFrame, Selecting, OneAtATime
    <2>2. <<>> # <<"across">> /\ <<"stack">> # <<"across">>
      OBVIOUS
    <2> QED BY <2>1, <2>2
  <1>3. PICK o : o = Other(s)
    OBVIOUS
  <1>4. o \in Sides /\ crossing[o] \in Nat
    BY <1>1, <1>3, OtherSide, SpliceAssumption DEF SpliceTyped
  <1>5. PICK n \in Nat : n = IF crossing[o] > 0 THEN passed[s].relayed + 1 ELSE 0
    BY <1>1 DEF SpliceTyped
  <1>6. /\ todo' = [todo EXCEPT ![s] = <<"stack">>] /\ first' = [first EXCEPT ![s] = "none"]
        /\ passed' = [passed EXCEPT ![s] = [relayed |-> n, own |-> 0]]
        /\ UNCHANGED <<dev, net, crossing, relayBehind, full, owed>>
    BY <1>3, <1>5 DEF StackFrame
  <1>7. PICK no \in BOOLEAN : no = FALSE
    OBVIOUS
  <1>8. acrossWentLast' = [acrossWentLast EXCEPT ![s] = no]
    BY <1>7 DEF StackFrame
  <1>9. SpliceTyped'
    <2>1. /\ todo' \in [Sides -> Queueing] /\ first' \in [Sides -> {"none", "Stack", "Across"}]
      BY <1>1, <1>6 DEF SpliceTyped, Queueing
    <2>2. acrossWentLast' \in [Sides -> BOOLEAN]
      BY <1>1, <1>8 DEF SpliceTyped
    <2>3. passed' \in [Sides -> [relayed : Nat, own : Nat]]
      BY <1>1, <1>6 DEF SpliceTyped
    <2> QED BY <1>1, <1>6, <2>1, <2>2, <2>3 DEF SpliceTyped
  <1>10. \A t \in Sides : /\ first'[t] = IF t = s THEN "none" ELSE first[t]
                          /\ todo'[t] = IF t = s THEN <<"stack">> ELSE todo[t]
                          /\ t # s => acrossWentLast'[t] = acrossWentLast[t]
                          /\ t # s => passed'[t] = passed[t]
    BY <1>1, <1>6, <1>8 DEF SpliceTyped
  <1>11. OneAtATime'
    <2>1. net[s].down > 0
      BY DEF StackFrame
    <2> QED BY <1>1, <1>6, <1>10, <2>1 DEF OneAtATime
  <1>12. FramesAccounted'
    <2>1. \A t \in Sides : todo'[Other(t)] = <<"across">> <=> todo[Other(t)] = <<"across">>
      BY <1>2, <1>10, OtherSide
    <2> QED BY <1>1, <1>6, <2>1 DEF FramesAccounted
  <1>13. NextInTurn'
    <2>1. passed'[s].own = 0 /\ passed'[s].relayed = n /\ acrossWentLast'[s] = no /\
          first'[s] = "none"
      BY <1>1, <1>6, <1>8 DEF SpliceTyped
    <2>2. ~relayBehind /\ n > 0 => n = 1
      <3>1. crossing[o] > 0 => first[s] = "Stack"
        BY <1>3, <1>4 DEF StackFrame
      <3>2. passed[s].relayed \in Nat
        BY <1>1 DEF SpliceTyped
      <3>3. ~relayBehind /\ first[s] = "Stack" => passed[s].relayed = 0
        BY <1>1, <3>2 DEF NextInTurn
      <3> QED BY <1>5, <3>1, <3>2, <3>3
    <2> QED BY <1>1, <1>6, <1>7, <1>10, <2>1, <2>2 DEF NextInTurn
  <1> QED BY <1>9, <1>11, <1>12, <1>13 DEF SpliceInv

(* A frame from the other radio keeps it.                                  *)
LEMMA AcrossFrameKeeps ==
  ASSUME SpliceInv, NEW s \in Sides, AcrossFrame(s)
  PROVE  SpliceInv'
  <1>1. SpliceTyped /\ OneAtATime /\ FramesAccounted /\ NextInTurn
    BY DEF SpliceInv
  <1>2. todo[s] = <<>> /\ <<>> # <<"across">> /\ <<"across">> # <<"stack">>
    <2>1. todo[s] = <<>>
      BY <1>1 DEF AcrossFrame, Selecting, OneAtATime
    <2>2. <<>> # <<"across">> /\ <<"across">> # <<"stack">>
      OBVIOUS
    <2> QED BY <2>1, <2>2
  <1>3. PICK o : o = Other(s)
    OBVIOUS
  <1>4. /\ o \in Sides /\ o # s /\ Other(o) = s /\ crossing[o] \in 0 .. CROSSING /\ CROSSING \in Nat
        /\ \A t \in Sides : t = s \/ t = o
    BY <1>1, <1>3, OtherSide, SpliceAssumption DEF SpliceTyped
  <1>5. PICK n \in Nat : n = IF net[s].down > 0 THEN passed[s].own + 1 ELSE 0
    BY <1>1 DEF SpliceTyped
  <1>6. /\ todo' = [todo EXCEPT ![s] = <<"across">>] /\ first' = [first EXCEPT ![s] = "none"]
        /\ passed' = [passed EXCEPT ![s] = [own |-> n, relayed |-> 0]]
        /\ crossing[o] > 0 /\ crossing' = [crossing EXCEPT ![o] = crossing[o] - 1]
        /\ UNCHANGED <<dev, net, relayBehind, full, owed>>
    BY <1>3, <1>5 DEF AcrossFrame
  <1>7. PICK yes \in BOOLEAN : yes = TRUE
    OBVIOUS
  <1>8. acrossWentLast' = [acrossWentLast EXCEPT ![s] = yes]
    BY <1>7 DEF AcrossFrame
  <1>9. SpliceTyped'
    <2>1. /\ todo' \in [Sides -> Queueing] /\ first' \in [Sides -> {"none", "Stack", "Across"}]
      BY <1>1, <1>6 DEF SpliceTyped, Queueing
    <2>2. acrossWentLast' \in [Sides -> BOOLEAN]
      BY <1>1, <1>8 DEF SpliceTyped
    <2>3. passed' \in [Sides -> [relayed : Nat, own : Nat]]
      BY <1>1, <1>6 DEF SpliceTyped
    <2>4. crossing' \in [Sides -> 0 .. CROSSING]
      BY <1>1, <1>4, <1>6 DEF SpliceTyped
    <2> QED BY <1>1, <1>6, <2>1, <2>2, <2>3, <2>4 DEF SpliceTyped
  <1>10. \A t \in Sides : /\ first'[t] = IF t = s THEN "none" ELSE first[t]
                          /\ todo'[t] = IF t = s THEN <<"across">> ELSE todo[t]
                          /\ t # s => acrossWentLast'[t] = acrossWentLast[t]
                          /\ t # s => passed'[t] = passed[t]
    BY <1>1, <1>6, <1>8 DEF SpliceTyped
  <1>11. OneAtATime'
    BY <1>1, <1>2, <1>6, <1>10 DEF OneAtATime
  <1>12. FramesAccounted'
    <2>1. crossing'[o] = crossing[o] - 1 /\ crossing'[s] = crossing[s]
      BY <1>1, <1>4, <1>6 DEF SpliceTyped
    <2>2. /\ todo'[s] = <<"across">> /\ todo[s] # <<"across">> /\ todo'[o] = todo[o]
      BY <1>2, <1>4, <1>10
    <2>3. /\ owed[s].stack = net[s].up + full[s].stack
          /\ owed[s].across = crossing[s] + (IF todo[o] = <<"across">> THEN 1 ELSE 0) + full[s].across
      BY <1>1, <1>3 DEF FramesAccounted
    <2>4. /\ owed[o].stack = net[o].up + full[o].stack
          /\ owed[o].across = crossing[o] + 0 + full[o].across
      BY <1>1, <1>4, <2>2 DEF FramesAccounted
    <2>5. crossing[o] - 1 + 1 + full[o].across = crossing[o] + 0 + full[o].across
      BY <1>1, <1>4 DEF SpliceTyped
    <2>6. /\ owed'[s].stack = net'[s].up + full'[s].stack
          /\ owed'[s].across = crossing'[s] + (IF todo'[o] = <<"across">> THEN 1 ELSE 0)
                                + full'[s].across
      BY <1>6, <2>1, <2>2, <2>3
    <2>7. /\ owed'[o].stack = net'[o].up + full'[o].stack
          /\ owed'[o].across = crossing'[o] + (IF todo'[s] = <<"across">> THEN 1 ELSE 0)
                                + full'[o].across
      BY <1>6, <2>1, <2>2, <2>4, <2>5
    <2> QED BY <1>3, <1>4, <2>6, <2>7 DEF FramesAccounted
  <1>13. NextInTurn'
    <2>1. passed'[s].relayed = 0 /\ passed'[s].own = n /\ acrossWentLast'[s] = yes /\
          first'[s] = "none"
      BY <1>1, <1>6, <1>8 DEF SpliceTyped
    <2>2. n > 0 => n = 1
      <3>1. net[s].down > 0 => first[s] = "Across"
        <4>1. net[s].down \in Nat
          BY <1>1 DEF SpliceTyped
        <4> QED BY <4>1 DEF AcrossFrame
      <3>2. passed[s].own \in Nat
        BY <1>1 DEF SpliceTyped
      <3>3. first[s] = "Across" => passed[s].own = 0
        BY <1>1, <3>2 DEF NextInTurn
      <3> QED BY <1>5, <3>1, <3>2, <3>3
    <2>3. acrossWentLast'[s]
      BY <1>7, <2>1
    <2>4. passed'[s].own > 0 => passed'[s].own = 1 /\ acrossWentLast'[s] /\ first'[s] # "Across"
      BY <2>1, <2>2, <2>3
    <2>5. ~(passed'[s].relayed > 0)
      BY <2>1
    <2> QED BY <1>1, <1>6, <1>10, <2>4, <2>5 DEF NextInTurn
  <1> QED BY <1>9, <1>11, <1>12, <1>13 DEF SpliceInv

(* transmit keeps it.                                                      *)
LEMMA TransmitsKeeps ==
  ASSUME SpliceInv, NEW s \in Sides, SpliceTransmits(s)
  PROVE  SpliceInv'
  <1>1. SpliceTyped /\ OneAtATime /\ FramesAccounted /\ NextInTurn
    BY DEF SpliceInv
  <1>2. PICK o : o = Other(s)
    OBVIOUS
  <1>3. o \in Sides /\ o # s /\ Other(o) = s /\ \A t \in Sides : t = s \/ t = o
    BY <1>2, OtherSide
  <1>4. todo[s] \in Queueing /\ todo[s] # <<>>
    BY <1>1 DEF SpliceTransmits, SpliceTyped
  <1>5. PICK q : q = Tail(todo[s])
    OBVIOUS
  <1>6. /\ q \in Seq({"Here"})
        /\ Head(todo[s]) = "stack" <=> todo[s] = <<"stack">>
        /\ Head(todo[s]) = "across" <=> todo[s] = <<"across">>
    <2>1. CASE todo[s] \in Seq({"Here"})
      <3>1. PICK w \in Seq({"Here"}) : w = todo[s]
        BY <2>1
      <3>2. w # <<>>
        BY <1>4, <3>1
      <3>3. Tail(w) \in Seq({"Here"}) /\ Head(w) = "Here"
        BY <3>2
      <3>4. w # <<"stack">> /\ w # <<"across">>
        OBVIOUS
      <3> QED BY <1>5, <3>1, <3>3, <3>4
    <2>2. CASE todo[s] \in {<<"stack">>, <<"across">>}
      <3>1. /\ Tail(<<"stack">>) = <<>> /\ Tail(<<"across">>) = <<>>
            /\ Head(<<"stack">>) = "stack" /\ Head(<<"across">>) = "across"
            /\ <<>> \in Seq({"Here"}) /\ <<"stack">> # <<"across">>
        OBVIOUS
      <3> QED BY <1>5, <2>2, <3>1
    <2> QED BY <1>4, <2>1, <2>2 DEF Queueing
  <1>7. q # <<"stack">> /\ q # <<"across">> /\ q \in Queueing
    <2>1. \A w \in Seq({"Here"}) : w # <<"stack">> /\ w # <<"across">>
      OBVIOUS
    <2> QED BY <1>6, <2>1 DEF Queueing
  <1>8. PICK n \in Nat : n = IF Head(todo[s]) = "stack" THEN net[s].down - 1 ELSE net[s].down
    <2>1. net[s].down \in Nat /\ (Head(todo[s]) = "stack" => net[s].down > 0)
      BY <1>1, <1>6 DEF SpliceTyped, OneAtATime
    <2> QED BY <2>1
  <1>9. PICK a \in Int : a = IF Head(todo[s]) = "across" THEN owed[o].across - 1 ELSE owed[o].across
    <2>1. owed[o].across \in Int
      BY <1>1, <1>3 DEF SpliceTyped
    <2> QED BY <2>1
  <1>10. /\ todo' = [todo EXCEPT ![s] = q]
         /\ net' = [net EXCEPT ![s] = [net[s] EXCEPT !.down = n]]
         /\ owed' = [owed EXCEPT ![o] = [owed[o] EXCEPT !.across = a]]
         /\ dev' = [dev EXCEPT ![s] = [dev[s] EXCEPT !.tx = dev[s].tx + 1]]
         /\ UNCHANGED <<crossing, first, acrossWentLast, relayBehind, full, passed>>
    BY <1>2, <1>5, <1>8, <1>9 DEF SpliceTransmits
  <1>11. SpliceTyped'
    <2>1. dev \in [Sides -> [rx : Nat, tx : Nat, link : {"Up", "Down"}]]
      BY <1>1 DEF SpliceTyped
    <2>2. dev' \in [Sides -> [rx : Nat, tx : Nat, link : {"Up", "Down"}]]
      BY <1>10, <2>1
    <2>3. net' \in [Sides -> [up : Nat, down : Nat, link : {"Up", "Down"}]]
      BY <1>1, <1>10, ZenonT(60) DEF SpliceTyped
    <2>4. owed' \in [Sides -> [stack : Int, across : Int]]
      BY <1>1, <1>3, <1>10 DEF SpliceTyped
    <2>5. todo' \in [Sides -> Queueing]
      BY <1>1, <1>7, <1>10 DEF SpliceTyped
    <2> QED BY <1>1, <1>10, <2>2, <2>3, <2>4, <2>5 DEF SpliceTyped
  <1>12. first[s] = "none"
    BY <1>1, <1>4 DEF OneAtATime
  <1>13. /\ todo'[s] = q /\ todo'[o] = todo[o]
         /\ net'[s].up = net[s].up /\ net'[o] = net[o] /\ net'[s].down = n
         /\ owed'[s] = owed[s] /\ owed'[o].stack = owed[o].stack /\ owed'[o].across = a
    BY <1>1, <1>3, <1>10 DEF SpliceTyped
  <1>14. OneAtATime'
    BY <1>1, <1>3, <1>7, <1>10, <1>12, <1>13 DEF OneAtATime
  <1>15. FramesAccounted'
    <2>1. /\ owed[s].stack = net[s].up + full[s].stack
          /\ owed[s].across = crossing[s] + (IF todo[o] = <<"across">> THEN 1 ELSE 0) + full[s].across
      BY <1>1, <1>2 DEF FramesAccounted
    <2>2. /\ owed[o].stack = net[o].up + full[o].stack
          /\ owed[o].across = crossing[o] + (IF todo[s] = <<"across">> THEN 1 ELSE 0) + full[o].across
      BY <1>1, <1>3 DEF FramesAccounted
    <2>3. a = crossing[o] + 0 + full[o].across
      <3>1. crossing[o] \in Int /\ full[o].across \in Int
        BY <1>1, <1>3, SpliceAssumption DEF SpliceTyped
      <3> QED BY <1>6, <1>9, <2>2, <3>1
    <2>4. /\ owed'[s].stack = net'[s].up + full'[s].stack
          /\ owed'[s].across = crossing'[s] + (IF todo'[o] = <<"across">> THEN 1 ELSE 0)
                                + full'[s].across
      BY <1>10, <1>13, <2>1
    <2>5. /\ owed'[o].stack = net'[o].up + full'[o].stack
          /\ owed'[o].across = crossing'[o] + (IF todo'[s] = <<"across">> THEN 1 ELSE 0)
                                + full'[o].across
      BY <1>7, <1>10, <1>13, <2>2, <2>3
    <2> QED BY <1>2, <1>3, <2>4, <2>5 DEF FramesAccounted
  <1>16. NextInTurn'
    BY <1>1, <1>10 DEF NextInTurn
  <1> QED BY <1>11, <1>14, <1>15, <1>16 DEF SpliceInv

(* Every step of the splices and around them keeps it.                     *)
LEMMA SpliceKept == SpliceInv /\ [SpliceNext]_spliceVars => SpliceInv'
  <1> SUFFICES ASSUME SpliceInv, [SpliceNext]_spliceVars PROVE SpliceInv'
    OBVIOUS
  <1>1. CASE Shed
    BY <1>1, SheddingKeeps
  <1>2. ASSUME NEW s \in Sides,
               \/ LinkComesUp(s) \/ RadioReceives(s) \/ RadioSends(s)
               \/ StackSends(s) \/ StackReads(s)
        PROVE  SpliceInv'
    BY <1>2, EndsMove
  <1>3. ASSUME NEW s \in Sides, SpliceStep(s)
        PROVE  SpliceInv'
    BY <1>3, SelectKeeps, RadioFrameKeeps, StackFrameKeeps, AcrossFrameKeeps, TransmitsKeeps
       DEF SpliceStep
  <1>4. CASE UNCHANGED spliceVars
    BY <1>4 DEF spliceVars, SpliceInv, SpliceTyped, OneAtATime, FramesAccounted, NextInTurn
  <1> QED BY <1>1, <1>2, <1>3, <1>4 DEF SpliceNext

(* No frame that was routed to a stack or across is lost without being     *)
(* counted, and neither kind waits for more than one of the other: with    *)
(* queues of any length and traffic without end.                           *)
THEOREM SplicesFair == SpliceSpec => []SpliceFair
  <1>1. SpliceInv => SpliceFair
    <2> SUFFICES ASSUME SpliceInv PROVE SpliceFair
      OBVIOUS
    <2>1. \A s \in Sides : passed[s].own \in Nat /\ passed[s].relayed \in Nat
      BY DEF SpliceInv, SpliceTyped
    <2>2. TakesTurns
      BY <2>1 DEF SpliceInv, NextInTurn, TakesTurns
    <2> QED BY <2>2 DEF SpliceInv, SpliceFair
  <1> QED BY <1>1, SpliceStarts, SpliceKept, PTL DEF SpliceSpec

-----------------------------------------------------------------------------
(* The GATT service on Bluedroid *)

Connection == [peer : Peers, prepared : Seq(Peers \X Nat)]
News == [kind : {"advertisement", "response"}, peer : {NoPeer}]
          \cup [kind : {"connected", "disconnected"}, peer : Peers]

GattTyped ==
  /\ conn \in Connection \cup {NoPeer}
  /\ confs \in Seq({"advertisement", "response"})
  /\ news \in Seq(News)
  /\ linked \subseteq Peers
  /\ sending \in [Peers -> Nat]

(* What is prepared is the carrier's, from its first part on. *)
PreparedIsTheCarriers ==
  conn # NoPeer => \A i \in 1 .. Len(conn.prepared) : conn.prepared[i] = <<conn.peer, i - 1>>

(* A connected peer in the middle of its message is the carrier, has every *)
(* part it counts prepared, and its leaving is not news on the way.        *)
UnderWay(p) == p \in linked /\ sending[p] \in 1 .. PartsOf(p)

WritersInStep ==
  \A p \in Peers : UnderWay(p) =>
    /\ conn # NoPeer /\ conn.peer = p /\ Len(conn.prepared) = sending[p]
    /\ \A j \in 1 .. Len(news) : ~(news[j].kind = "disconnected" /\ news[j].peer = p)

GattInv == GattTyped /\ PreparedIsTheCarriers /\ WritersInStep /\ CarrierSound

(* A message has at least one part, and the mark of a canceled one is      *)
(* none.                                                                   *)
LEMMA PartsPositive == \A p : PartsOf(p) \in 1 .. SETUP_MAX + 1 /\ Cancel > SETUP_MAX + 1
  BY GattAssumption DEF PartsOf, Cancel

(* The service starts in the invariant.                                    *)
LEMMA GattStarts == GattInit => GattInv
  <1> SUFFICES ASSUME GattInit PROVE GattInv
    OBVIOUS
  <1>1. GattTyped /\ PreparedIsTheCarriers
    BY DEF GattInit, GattTyped, PreparedIsTheCarriers
  <1>2. WritersInStep
    BY DEF GattInit, WritersInStep, UnderWay
  <1>3. CarrierSound
    BY DEF GattInit, CarrierSound, MessagesWhole, SessionOfTheCarrier
  <1> QED BY <1>1, <1>2, <1>3 DEF GattInv

(* Steps that leave the connection, the writes and the links alone. *)
LEMMA ElsewhereKeeps ==
  ASSUME GattInv, UNCHANGED <<conn, linked, sending, session, received>>,
         confs' \in Seq({"advertisement", "response"}), news' \in Seq(News),
         \A p \in Peers, j \in 1 .. Len(news') :
           news'[j].kind = "disconnected" /\ news'[j].peer = p =>
             \E k \in 1 .. Len(news) : news[k].kind = "disconnected" /\ news[k].peer = p
  PROVE  GattInv'
  <1>1. GattTyped /\ PreparedIsTheCarriers /\ WritersInStep /\ CarrierSound
    BY DEF GattInv
  <1>2. GattTyped' /\ PreparedIsTheCarriers'
    BY <1>1 DEF GattTyped, PreparedIsTheCarriers
  <1>3. WritersInStep'
    BY <1>1 DEF WritersInStep, UnderWay
  <1>4. CarrierSound'
    BY <1>1 DEF CarrierSound, MessagesWhole, SessionOfTheCarrier
  <1> QED BY <1>2, <1>3, <1>4 DEF GattInv

(* Ticks, and the table and radio they drive, keep it.                     *)
LEMMA RadioKeeps ==
  ASSUME GattInv,
         \/ MainTick \/ WindowMoves \/ ServiceCreated \/ AttributeAdded
         \/ AdvertisingConfigured \/ ScanResponseConfigured \/ ControllerConfigures
         \/ \E t \in {"main", "bt"} : TickActs(t)
  PROVE  GattInv'
  <1>1. confs \in Seq({"advertisement", "response"}) /\ news \in Seq(News)
    BY DEF GattInv, GattTyped
  <1>2. CASE \/ MainTick \/ WindowMoves \/ ServiceCreated \/ AttributeAdded
             \/ \E t \in {"main", "bt"} : TickStops(t) \/ RadioStops(t)
    <2>1. UNCHANGED <<conn, linked, sending, session, received, confs, news>>
      BY <1>2 DEF MainTick, WindowMoves, ServiceCreated, AttributeAdded, TickStops, RadioStops,
                  links, writes
    <2> QED BY <1>1, <2>1, ElsewhereKeeps
  <1>3. CASE \E t \in {"main", "bt"} : TickStarts(t)
    <2>1. /\ UNCHANGED <<conn, linked, sending, session, received, news>>
          /\ confs' = Append(confs, "advertisement")
      BY <1>3 DEF TickStarts, links, writes
    <2>2. confs' \in Seq({"advertisement", "response"})
      BY <1>1, <2>1
    <2> QED BY <1>1, <2>1, <2>2, ElsewhereKeeps
  <1>4. CASE AdvertisingConfigured \/ ScanResponseConfigured
    <2>1. /\ UNCHANGED <<conn, linked, sending, session, received>>
          /\ news # <<>> /\ news' = Tail(news)
          /\ confs' = confs \/ confs' = Append(confs, "response")
      BY <1>4 DEF AdvertisingConfigured, ScanResponseConfigured, ReportedAs
    <2>2. confs' \in Seq({"advertisement", "response"}) /\ news' \in Seq(News)
      BY <1>1, <2>1, SMTT(60)
    <2>3. \A j \in 1 .. Len(news') : j + 1 \in 1 .. Len(news) /\ news'[j] = news[j + 1]
      BY <1>1, <2>1
    <2> QED BY <2>1, <2>2, <2>3, ElsewhereKeeps
  <1>5. CASE ControllerConfigures
    <2>1. PICK n : n = [kind |-> Head(confs), peer |-> NoPeer]
      OBVIOUS
    <2>2. /\ UNCHANGED <<conn, linked, sending, session, received>>
          /\ confs # <<>> /\ confs' = Tail(confs) /\ news' = Append(news, n)
      BY <1>5, <2>1 DEF ControllerConfigures, writes
    <2>3. Head(confs) \in {"advertisement", "response"} /\
          Tail(confs) \in Seq({"advertisement", "response"})
      BY <1>1, <2>2
    <2>4. n \in News /\ n.kind # "disconnected"
      BY <2>1, <2>3 DEF News
    <2>5. news' \in Seq(News)
      BY <1>1, <2>2, <2>4
    <2>6. \A j \in 1 .. Len(news') : news'[j] = n \/ (j \in 1 .. Len(news) /\ news'[j] = news[j])
      BY <1>1, <2>2, <2>4
    <2> QED BY <2>2, <2>3, <2>4, <2>5, <2>6, ElsewhereKeeps
  <1> QED BY <1>2, <1>3, <1>4, <1>5 DEF TickActs

(* A peer that connects or leaves, before the callback tells of it, keeps  *)
(* it.                                                                     *)
LEMMA LinksKeep ==
  ASSUME GattInv, NEW p \in Peers, PeerConnects(p) \/ PeerLeaves(p)
  PROVE  GattInv'
  <1>1. GattTyped /\ PreparedIsTheCarriers /\ WritersInStep /\ CarrierSound
    BY DEF GattInv
  <1>2. PICK kind \in {"connected", "disconnected"} :
          /\ kind = "connected" => /\ linked' = linked \cup {p}
                                   /\ sending' = [sending EXCEPT ![p] = 0]
          /\ kind = "disconnected" => linked' = linked \ {p} /\ sending' = sending
          /\ news' = Append(news, [kind |-> kind, peer |-> p])
          /\ UNCHANGED <<conn, confs, session, received>>
    BY DEF PeerConnects, PeerLeaves, writes
  <1>3. PICK n \in News : n = [kind |-> kind, peer |-> p]
    BY DEF News
  <1>4. /\ news' \in Seq(News)
        /\ \A j \in 1 .. Len(news') : news'[j] = n \/ (j \in 1 .. Len(news) /\ news'[j] = news[j])
    BY <1>1, <1>2, <1>3 DEF GattTyped
  <1>5. \A q \in Peers : UnderWay(q)' => q # p /\ UnderWay(q) /\ sending'[q] = sending[q]
    BY <1>1, <1>2 DEF GattTyped, UnderWay
  <1>6. GattTyped'
    BY <1>1, <1>2, <1>4 DEF GattTyped
  <1>7. WritersInStep'
    BY <1>1, <1>2, <1>3, <1>4, <1>5 DEF WritersInStep
  <1>8. PreparedIsTheCarriers' /\ CarrierSound'
    BY <1>1, <1>2 DEF PreparedIsTheCarriers, CarrierSound, MessagesWhole, SessionOfTheCarrier
  <1> QED BY <1>6, <1>7, <1>8 DEF GattInv

(* What the session has stays the carrier's when a peer comes or goes. *)
LEMMA ReportsKeep ==
  ASSUME GattInv, PeerReported
  PROVE  GattInv'
  <1>1. GattTyped /\ PreparedIsTheCarriers /\ WritersInStep /\ CarrierSound
    BY DEF GattInv
  <1>2. /\ news # <<>> /\ news' = Tail(news)
        /\ UNCHANGED <<linked, sending, received, confs>>
    BY DEF PeerReported, ReportedAs
  <1>3. PICK n : n = Head(news)
    OBVIOUS
  <1>4. n \in News /\ news' \in Seq(News) /\ n = news[1] /\ 1 \in 1 .. Len(news)
    BY <1>1, <1>2, <1>3 DEF GattTyped
  <1>5. \A j \in 1 .. Len(news') : j + 1 \in 1 .. Len(news) /\ news'[j] = news[j + 1]
    BY <1>1, <1>2 DEF GattTyped
  <1>6. CASE ReportedAs("connected") /\ Connected(n.peer)
    <2>1. CASE conn # NoPeer
      <3>1. UNCHANGED <<conn, session>>
        BY <1>6, <2>1 DEF Connected
      <3> QED BY <1>1, <1>2, <1>4, <1>5, <3>1, ElsewhereKeeps DEF GattTyped
    <2>2. CASE conn = NoPeer
      <3>1. PICK c : c = [peer |-> n.peer, prepared |-> <<>>]
        OBVIOUS
      <3>2. conn' = c /\ session' = session /\ session = NoPeer
        BY <1>1, <1>6, <2>2, <3>1 DEF Connected, CarrierSound, SessionOfTheCarrier
      <3>3. n.peer \in Peers
        BY <1>3, <1>4, <1>6 DEF ReportedAs, News
      <3>4. c \in Connection /\ c.prepared = <<>>
        BY <3>1, <3>3 DEF Connection
      <3>5. \A p \in Peers : ~UnderWay(p)
        BY <1>1, <2>2 DEF WritersInStep
      <3>6. GattTyped' /\ PreparedIsTheCarriers'
        BY <1>1, <1>2, <1>4, <3>2, <3>4 DEF GattTyped, PreparedIsTheCarriers
      <3>7. WritersInStep'
        BY <1>2, <3>5 DEF WritersInStep, UnderWay
      <3>8. CarrierSound'
        BY <1>1, <1>2, <3>2 DEF CarrierSound, MessagesWhole, SessionOfTheCarrier
      <3> QED BY <3>6, <3>7, <3>8 DEF GattInv
    <2> QED BY <2>1, <2>2
  <1>7. CASE ReportedAs("disconnected") /\ Disconnected(n.peer)
    <2>1. n.kind = "disconnected"
      BY <1>3, <1>7 DEF ReportedAs
    <2>2. CASE conn # NoPeer /\ conn.peer = n.peer
      <3>1. conn' = NoPeer /\ session' = NoPeer
        BY <1>7, <2>2 DEF Disconnected
      <3>2. \A p \in Peers : ~UnderWay(p)
        BY <1>1, <1>4, <2>1, <2>2 DEF WritersInStep
      <3>3. GattTyped' /\ PreparedIsTheCarriers'
        BY <1>1, <1>2, <1>4, <3>1 DEF GattTyped, PreparedIsTheCarriers
      <3>4. WritersInStep'
        BY <1>2, <3>2 DEF WritersInStep, UnderWay
      <3>5. CarrierSound'
        BY <1>1, <1>2, <3>1 DEF CarrierSound, MessagesWhole, SessionOfTheCarrier
      <3> QED BY <3>3, <3>4, <3>5 DEF GattInv
    <2>3. CASE ~(conn # NoPeer /\ conn.peer = n.peer)
      <3>1. UNCHANGED <<conn, session>>
        BY <1>7, <2>3 DEF Disconnected
      <3> QED BY <1>1, <1>2, <1>4, <1>5, <3>1, ElsewhereKeeps DEF GattTyped
    <2> QED BY <2>2, <2>3
  <1> QED BY <1>3, <1>6, <1>7 DEF PeerReported

(* Emptying the buffer of a connection leaves a connection of the same peer. *)
LEMMA Emptied ==
  ASSUME NEW c \in Connection
  PROVE  /\ [c EXCEPT !.prepared = <<>>] \in Connection
         /\ [c EXCEPT !.prepared = <<>>].peer = c.peer
         /\ [c EXCEPT !.prepared = <<>>].prepared = <<>>
  <1>1. PICK none : none \in Seq(Peers \X Nat) /\ none = <<>>
    <2>1. PICK S : S = Peers \X Nat
      OBVIOUS
    <2>2. <<>> \in Seq(S)
      OBVIOUS
    <2> QED BY <2>1, <2>2
  <1>2. /\ [c EXCEPT !.prepared = none] \in Connection
        /\ [c EXCEPT !.prepared = none].peer = c.peer
        /\ [c EXCEPT !.prepared = none].prepared = none
    BY <1>1 DEF Connection
  <1> QED BY <1>1, <1>2

(* A part is taken where the last one ended, or the write is canceled. *)
LEMMA PartKeeps ==
  ASSUME GattInv, NEW p \in Peers, PreparedPart(p)
  PROVE  GattInv'
  <1>1. GattTyped /\ PreparedIsTheCarriers /\ WritersInStep /\ CarrierSound
    BY DEF GattInv
  <1>2. /\ UNCHANGED <<linked, news, confs, session, received>> /\ news = <<>>
        /\ sending[p] \in 0 .. PartsOf(p) - 1 /\ p \in linked
    BY DEF PreparedPart, CanWrite, links
  <1>3. sending[p] \in Nat /\ PartsOf(p) \in 1 .. SETUP_MAX + 1 /\ Cancel \in Nat
        /\ SETUP_MAX \in Nat /\ Cancel > SETUP_MAX + 1
    BY <1>1, PartsPositive, GattAssumption DEF GattTyped, Cancel
  <1>4. ASSUME sending' = [sending EXCEPT ![p] = Cancel],
               conn' = conn \/ (IsCarrier(p) /\ conn' = [conn EXCEPT !.prepared = <<>>])
        PROVE  GattInv'
    <2>1. sending'[p] = Cancel /\ \A q \in Peers \ {p} : sending'[q] = sending[q]
      BY <1>1, <1>4 DEF GattTyped
    <2>2. ~UnderWay(p)'
      BY <1>3, <2>1 DEF UnderWay
    <2>3. conn' # conn => /\ conn \in Connection /\ conn.peer = p
                          /\ conn' \in Connection /\ conn'.peer = p /\ conn'.prepared = <<>>
      <3> SUFFICES ASSUME conn' # conn
                   PROVE  /\ conn \in Connection /\ conn.peer = p
                          /\ conn' \in Connection /\ conn'.peer = p /\ conn'.prepared = <<>>
        OBVIOUS
      <3>1. conn \in Connection /\ conn.peer = p
        BY <1>1, <1>4 DEF IsCarrier, GattTyped
      <3> QED BY <1>4, <3>1, Emptied
    <2>4. GattTyped'
      <3>1. sending' \in [Peers -> Nat]
        BY <1>1, <1>3, <1>4 DEF GattTyped
      <3> QED BY <1>1, <1>2, <2>3, <3>1 DEF GattTyped
    <2>5. NoPeer \notin Connection
      BY GattAssumption DEF Connection
    <2>6. PreparedIsTheCarriers'
      BY <1>1, <2>3 DEF PreparedIsTheCarriers
    <2>7. WritersInStep'
      <3> SUFFICES ASSUME NEW q \in Peers, UnderWay(q)'
                   PROVE  /\ conn' # NoPeer /\ conn'.peer = q /\ Len(conn'.prepared) = sending'[q]
                          /\ \A j \in 1 .. Len(news') :
                               ~(news'[j].kind = "disconnected" /\ news'[j].peer = q)
        BY DEF WritersInStep
      <3>1. q # p /\ sending'[q] = sending[q]
        BY <2>1, <2>2
      <3>2. UnderWay(q)
        BY <1>2, <3>1 DEF UnderWay
      <3>3. conn # NoPeer /\ conn.peer = q /\ Len(conn.prepared) = sending[q]
        BY <1>1, <3>2 DEF WritersInStep
      <3>4. conn' = conn
        BY <2>3, <3>1, <3>3
      <3> QED BY <1>1, <1>2, <3>1, <3>2, <3>3, <3>4 DEF WritersInStep
    <2>8. CarrierSound'
      BY <1>1, <1>2, <2>3, <2>5 DEF CarrierSound, MessagesWhole, SessionOfTheCarrier
    <2> QED BY <2>4, <2>6, <2>7, <2>8 DEF GattInv
  <1>5. ASSUME IsCarrier(p), Contiguous(sending[p]),
               conn' = [conn EXCEPT !.prepared = Append(@, <<p, sending[p]>>)],
               sending' = [sending EXCEPT ![p] = @ + 1]
        PROVE  GattInv'
    <2>1. conn \in Connection /\ conn.peer = p /\ sending[p] = Len(conn.prepared)
      BY <1>1, <1>5 DEF IsCarrier, Contiguous, GattTyped
    <2>2. PICK w \in Seq(Peers \X Nat) : w = conn.prepared
      BY <2>1 DEF Connection
    <2>3. PICK e \in Peers \X Nat : e = <<p, sending[p]>>
      BY <1>3
    <2>4. PICK v : v = Append(w, e)
      OBVIOUS
    <2>5. /\ v \in Seq(Peers \X Nat) /\ Len(v) = Len(w) + 1 /\ v[Len(w) + 1] = e
          /\ \A i \in 1 .. Len(w) : v[i] = w[i]
      BY <2>4
    <2>6. conn' \in Connection /\ conn'.peer = p /\ conn'.prepared = v
      BY <1>5, <2>1, <2>2, <2>3, <2>4, <2>5 DEF Connection
    <2>7. conn' # NoPeer
      BY <2>6, GattAssumption DEF Connection
    <2>8. /\ sending' \in [Peers -> Nat] /\ sending'[p] = sending[p] + 1
          /\ \A q \in Peers \ {p} : sending'[q] = sending[q]
      BY <1>1, <1>3, <1>5 DEF GattTyped
    <2>9. GattTyped'
      BY <1>1, <1>2, <2>6, <2>8 DEF GattTyped
    <2>10. PreparedIsTheCarriers'
      <3> SUFFICES ASSUME NEW i \in 1 .. Len(v) PROVE v[i] = <<p, i - 1>>
        BY <2>6 DEF PreparedIsTheCarriers
      <3>1. Len(w) \in Nat /\ sending[p] = Len(w)
        BY <2>1, <2>2
      <3>2. CASE i \in 1 .. Len(w)
        <4>1. conn # NoPeer
          BY <1>5 DEF IsCarrier
        <4>2. w[i] = <<p, i - 1>>
          BY <1>1, <2>1, <2>2, <3>2, <4>1 DEF PreparedIsTheCarriers
        <4> QED BY <2>5, <3>2, <4>2
      <3>3. CASE i = Len(w) + 1
        BY <2>3, <2>5, <3>1, <3>3
      <3> QED BY <2>5, <3>1, <3>2, <3>3
    <2>11. WritersInStep'
      <3> SUFFICES ASSUME NEW q \in Peers, UnderWay(q)'
                   PROVE  /\ conn' # NoPeer /\ conn'.peer = q /\ Len(conn'.prepared) = sending'[q]
                          /\ \A j \in 1 .. Len(news') :
                               ~(news'[j].kind = "disconnected" /\ news'[j].peer = q)
        BY DEF WritersInStep
      <3>1. q = p
        <4>1. q # p => UnderWay(q)
          BY <1>2, <2>8 DEF UnderWay
        <4> QED BY <1>1, <2>1, <4>1 DEF WritersInStep
      <3>2. Len(news') = 0
        BY <1>2
      <3> QED BY <2>1, <2>2, <2>5, <2>6, <2>7, <2>8, <3>1, <3>2
    <2>12. CarrierSound'
      BY <1>1, <1>2, <2>1, <2>6, <2>7 DEF CarrierSound, MessagesWhole, SessionOfTheCarrier
    <2> QED BY <2>9, <2>10, <2>11, <2>12 DEF GattInv
  <1> QED BY <1>4, <1>5 DEF PreparedPart

(* What is executed is the carrier's whole message: it counts no part that *)
(* is not prepared, and prepared is nothing else.                          *)
LEMMA ExecuteKeeps ==
  ASSUME GattInv, NEW p \in Peers, Executed(p)
  PROVE  GattInv'
  <1>1. GattTyped /\ PreparedIsTheCarriers /\ WritersInStep /\ CarrierSound
    BY DEF GattInv
  <1>2. /\ UNCHANGED <<linked, news, confs>> /\ p \in linked
        /\ sending' = [sending EXCEPT ![p] = 0]
        /\ sending[p] \in {PartsOf(p), Cancel}
        /\ conn' = IF IsCarrier(p) THEN [conn EXCEPT !.prepared = <<>>] ELSE conn
    BY DEF Executed, CanWrite, links
  <1>3. sending' \in [Peers -> Nat] /\ sending'[p] = 0
        /\ \A q \in Peers \ {p} : sending'[q] = sending[q]
    BY <1>1, <1>2 DEF GattTyped
  <1>4. NoPeer \notin Connection
    BY GattAssumption DEF Connection
  <1>5. IsCarrier(p) => /\ conn \in Connection /\ conn.peer = p
                        /\ conn' \in Connection /\ conn'.peer = p /\ conn'.prepared = <<>>
    <2> SUFFICES ASSUME IsCarrier(p)
                 PROVE  /\ conn \in Connection /\ conn.peer = p
                        /\ conn' \in Connection /\ conn'.peer = p /\ conn'.prepared = <<>>
      OBVIOUS
    <2>1. conn \in Connection /\ conn.peer = p
      BY <1>1 DEF IsCarrier, GattTyped
    <2> QED BY <1>2, <2>1, Emptied
  <1>6. GattTyped' /\ PreparedIsTheCarriers'
    BY <1>1, <1>2, <1>3, <1>5 DEF GattTyped, PreparedIsTheCarriers
  <1>7. WritersInStep'
    <2> SUFFICES ASSUME NEW q \in Peers, UnderWay(q)'
                 PROVE  /\ conn' # NoPeer /\ conn'.peer = q /\ Len(conn'.prepared) = sending'[q]
                        /\ \A j \in 1 .. Len(news') :
                             ~(news'[j].kind = "disconnected" /\ news'[j].peer = q)
      BY DEF WritersInStep
    <2>1. q # p
      BY <1>3 DEF UnderWay
    <2>2. UnderWay(q) /\ sending'[q] = sending[q]
      BY <1>2, <1>3, <2>1 DEF UnderWay
    <2>3. /\ conn # NoPeer /\ conn.peer = q /\ Len(conn.prepared) = sending[q]
          /\ \A j \in 1 .. Len(news) : ~(news[j].kind = "disconnected" /\ news[j].peer = q)
      BY <1>1, <2>2 DEF WritersInStep
    <2>4. conn' = conn
      BY <1>2, <2>1, <2>3 DEF IsCarrier
    <2> QED BY <1>2, <2>2, <2>3, <2>4
  <1>8. CASE UNCHANGED <<session, received>>
    <2>1. SessionOfTheCarrier'
      BY <1>1, <1>2, <1>4, <1>5, <1>8 DEF CarrierSound, SessionOfTheCarrier
    <2>2. MessagesWhole'
      BY <1>1, <1>8 DEF CarrierSound, MessagesWhole
    <2> QED BY <1>6, <1>7, <2>1, <2>2 DEF GattInv, CarrierSound
  <1>9. CASE ~UNCHANGED <<session, received>>
    <2>1. IsCarrier(p) /\ sending[p] # Cancel /\ session' = p /\ received' = conn.prepared
      BY <1>9 DEF Executed
    <2>2. sending[p] = PartsOf(p) /\ PartsOf(p) \in Nat /\ PartsOf(p) > 0
      BY <1>2, <2>1, PartsPositive, GattAssumption
    <2>3. UnderWay(p)
      BY <1>2, <2>2 DEF UnderWay
    <2>4. PICK w \in Seq(Peers \X Nat) : w = conn.prepared
      BY <1>5, <2>1 DEF Connection
    <2>5. Len(w) = PartsOf(p) /\ \A i \in 1 .. Len(w) : w[i] = <<p, i - 1>>
      BY <1>1, <1>5, <2>1, <2>2, <2>3, <2>4 DEF WritersInStep, PreparedIsTheCarriers
    <2>6. w = [i \in 1 .. PartsOf(p) |-> <<p, i - 1>>]
      <3>1. w = [i \in 1 .. Len(w) |-> w[i]]
        BY <2>4
      <3>2. [i \in 1 .. Len(w) |-> w[i]] = [i \in 1 .. Len(w) |-> <<p, i - 1>>]
        BY <2>5, Zenon
      <3> QED BY <2>5, <3>1, <3>2, Zenon
    <2>7. MessagesWhole'
      BY <2>1, <2>4, <2>6 DEF MessagesWhole, PartsOf
    <2>8. SessionOfTheCarrier'
      BY <1>4, <1>5, <2>1 DEF SessionOfTheCarrier
    <2> QED BY <1>6, <1>7, <2>7, <2>8 DEF GattInv, CarrierSound
  <1> QED BY <1>8, <1>9

(* A peer that gives its message up keeps it.                              *)
LEMMA GivingUpKeeps ==
  ASSUME GattInv, NEW p \in Peers, PeerGivesUp(p)
  PROVE  GattInv'
  <1>1. GattTyped /\ PreparedIsTheCarriers /\ WritersInStep /\ CarrierSound
    BY DEF GattInv
  <1>2. PICK next \in {0, Cancel} : sending' = [sending EXCEPT ![p] = next]
    BY DEF PeerGivesUp
  <1>3. UNCHANGED <<conn, linked, news, confs, session, received>>
    BY DEF PeerGivesUp, links
  <1>4. /\ sending' \in [Peers -> Nat] /\ sending'[p] = next
        /\ \A q \in Peers \ {p} : sending'[q] = sending[q]
    BY <1>1, <1>2, GattAssumption DEF GattTyped, Cancel
  <1>5. \A q \in Peers : UnderWay(q)' => UnderWay(q) /\ sending'[q] = sending[q]
    <2>1. next \notin 1 .. PartsOf(p)
      BY PartsPositive, GattAssumption
    <2>2. PartsOf(p)' = PartsOf(p)
      BY DEF PartsOf
    <2> QED BY <1>3, <1>4, <2>1 DEF UnderWay
  <1>6. GattTyped' /\ PreparedIsTheCarriers'
    BY <1>1, <1>3, <1>4 DEF GattTyped, PreparedIsTheCarriers
  <1>7. WritersInStep'
    BY <1>1, <1>3, <1>5 DEF WritersInStep
  <1>8. CarrierSound'
    BY <1>1, <1>3 DEF CarrierSound, MessagesWhole, SessionOfTheCarrier
  <1> QED BY <1>6, <1>7, <1>8 DEF GattInv

(* Every callback, tick and write keeps it.                                *)
LEMMA GattKept == GattInv /\ [GattNext]_gattVars => GattInv'
  <1> SUFFICES ASSUME GattInv, [GattNext]_gattVars PROVE GattInv'
    OBVIOUS
  <1>1. CASE \/ MainTick \/ WindowMoves \/ ServiceCreated \/ AttributeAdded
             \/ AdvertisingConfigured \/ ScanResponseConfigured \/ ControllerConfigures
             \/ \E t \in {"main", "bt"} : TickActs(t)
    BY <1>1, RadioKeeps
  <1>2. CASE PeerReported
    BY <1>2, ReportsKeep
  <1>3. ASSUME NEW p \in Peers,
               PeerConnects(p) \/ PeerLeaves(p) \/ PreparedPart(p) \/ Executed(p) \/ PeerGivesUp(p)
        PROVE  GattInv'
    BY <1>3, LinksKeep, PartKeeps, ExecuteKeeps, GivingUpKeeps
  <1>4. CASE UNCHANGED gattVars
    BY <1>4 DEF gattVars, GattInv, GattTyped, PreparedIsTheCarriers, WritersInStep, UnderWay,
                CarrierSound, MessagesWhole, SessionOfTheCarrier
  <1> QED BY <1>1, <1>2, <1>3, <1>4 DEF GattNext, Bluedroid

(* What the setup session takes is one peer's whole message, and the       *)
(* session is the carrier's: with any number of peers, connections and     *)
(* parts, and `tick` anywhere between the callbacks.                       *)
THEOREM CarriersSound == GattSpec => []CarrierSound
  <1>1. GattInv => CarrierSound
    BY DEF GattInv
  <1> QED BY <1>1, GattStarts, GattKept, PTL DEF GattSpec

-----------------------------------------------------------------------------
(* Boards on esp-hal *)

(* The records the loop updates field by field. *)
HalTyped ==
  /\ flash \in [ssid : Networks \cup {NoNetwork}, psk : Networks \cup {NoNetwork}, fail : Int]
  /\ station = [net |-> station.net, trial |-> station.trial, policy |-> station.policy]
  /\ gatt = [setup |-> gatt.setup, status |-> gatt.status]

(* A phone is connected only while the loop serves or attends it. *)
Attending == {"serve", "join", "grace", "joined"}

PhoneOnlyAttended == phone # NoPhone => at \in Attending

(* Whoever connects to an advertised service finds `setup` empty and       *)
(* `status` current.                                                       *)
AdvertisedClean ==
  at = "advertising" => gatt.setup = Empty /\ gatt.status = station.policy.phase

(* The settings hold what is being joined, or has been. *)
JoinsTheStored == at \in {"join", "joined"} => Stored(flash) = station.net

HalInv ==
  HalTyped /\ PhoneOnlyAttended /\ AdvertisedClean /\ JoinsTheStored /\ SetupIsItsOwn /\
  StatusIsCurrent

(* A board starts in the invariant.                                        *)
LEMMA HalStarts == HalInit => HalInv
  <1> SUFFICES ASSUME HalInit PROVE HalInv
    OBVIOUS
  <1>1. HalTyped
    BY DEF HalInit, HalTyped, FreshStation
  <1>2. PhoneOnlyAttended /\ AdvertisedClean /\ JoinsTheStored /\ SetupIsItsOwn /\ StatusIsCurrent
    BY DEF HalInit, PhoneOnlyAttended, AdvertisedClean, JoinsTheStored, SetupIsItsOwn,
           StatusIsCurrent
  <1> QED BY <1>1, <1>2 DEF HalInv

(* With nobody connected and nothing being joined, the promises are kept.  *)
LEMMA NobodyThere ==
  ASSUME HalTyped', phone' = NoPhone, at' \notin {"advertising", "join", "joined"}
  PROVE  HalInv'
  BY DEF HalInv, PhoneOnlyAttended, AdvertisedClean, JoinsTheStored, SetupIsItsOwn,
         StatusIsCurrent

(* Boots and restarts keep it.                                             *)
LEMMA BootsKeep ==
  ASSUME HalInv, BootS3 \/ BootC6
  PROVE  HalInv'
  <1>1. HalTyped /\ PhoneOnlyAttended
    BY DEF HalInv
  <1>2. Booted /\ at = "down" /\ at' \in {"station", "accept"}
    BY DEF BootS3, BootC6, Booted
  <1>3. HalTyped'
    <2>1. flash' \in [ssid : Networks \cup {NoNetwork}, psk : Networks \cup {NoNetwork}, fail : Int]
      BY <1>1, <1>2, HalAssumption DEF Booted, HalTyped
    <2>2. station' = [net |-> station'.net, trial |-> station'.trial, policy |-> station'.policy]
      BY <1>2 DEF Booted, FreshStation
    <2>3. gatt' = [setup |-> gatt'.setup, status |-> gatt'.status]
      BY <1>2 DEF Booted
    <2> QED BY <2>1, <2>2, <2>3 DEF HalTyped
  <1>4. phone' = NoPhone
    BY <1>1, <1>2 DEF Booted, PhoneOnlyAttended, Attending
  <1> QED BY <1>2, <1>3, <1>4, NobodyThere

(* The loop goes back to where nobody is connected. *)
LEMMA EndsKeep ==
  ASSUME HalInv,
         \/ \E reason \in {"PowerOn", "Other"} : Outage(reason)
         \/ AcceptClosed \/ AdvertisingEnds \/ ServeEnds \/ AttendEnds \/ GraceEnds \/ Restarts
  PROVE  HalInv'
  <1>1. HalTyped /\ PhoneOnlyAttended
    BY DEF HalInv
  <1>2. UNCHANGED <<flash, station>>
    BY DEF Outage, AcceptClosed, AdvertisingEnds, ServeEnds, AttendEnds, GraceEnds, Restarts
  <1>3. gatt' \in {gatt, [gatt EXCEPT !.setup = Empty]}
    BY DEF Outage, AcceptClosed, AdvertisingEnds, ServeEnds, AttendEnds, GraceEnds, Restarts
  <1>4. HalTyped'
    <2>1. gatt' = [setup |-> gatt'.setup, status |-> gatt'.status]
      BY <1>1, <1>3 DEF HalTyped
    <2> QED BY <1>1, <1>2, <2>1 DEF HalTyped
  <1>5. phone' = NoPhone /\ at' \in {"down", "accept", "closed"}
    <2>1. CASE AcceptClosed \/ AdvertisingEnds
      <3>1. phone = NoPhone
        BY <1>1, <2>1 DEF AcceptClosed, AdvertisingEnds, PhoneOnlyAttended, Attending
      <3> QED BY <2>1, <3>1 DEF AcceptClosed, AdvertisingEnds, WindowClosed, WindowClosedS3,
                                WindowClosedC6, SoftwareReset
    <2>2. CASE \/ \E reason \in {"PowerOn", "Other"} : Outage(reason)
               \/ ServeEnds \/ AttendEnds \/ GraceEnds \/ Restarts
      BY <2>2 DEF Outage, ServeEnds, AttendEnds, GraceEnds, Restarts, SoftwareReset
    <2> QED BY <2>1, <2>2
  <1> QED BY <1>4, <1>5, NobodyThere

(* Advertising and a phone that connects keep it.                          *)
LEMMA MeetsKeep ==
  ASSUME HalInv, AcceptOpen \/ WindowRunsOut \/ \E p \in Phones : PhoneConnects(p)
  PROVE  HalInv'
  <1>1. /\ HalTyped /\ PhoneOnlyAttended /\ AdvertisedClean /\ JoinsTheStored
        /\ SetupIsItsOwn /\ StatusIsCurrent
    BY DEF HalInv
  <1>2. CASE AcceptOpen
    <2>1. phone' = NoPhone
      BY <1>1, <1>2 DEF AcceptOpen, PhoneOnlyAttended, Attending
    <2>2. HalTyped'
      BY <1>1, <1>2 DEF AcceptOpen, HalTyped
    <2>3. AdvertisedClean'
      BY <1>2 DEF AcceptOpen, AdvertisedClean, Empty
    <2>4. PhoneOnlyAttended' /\ SetupIsItsOwn' /\ StatusIsCurrent'
      BY <2>1 DEF PhoneOnlyAttended, SetupIsItsOwn, StatusIsCurrent
    <2>5. JoinsTheStored'
      BY <1>2 DEF AcceptOpen, JoinsTheStored
    <2> QED BY <2>2, <2>3, <2>4, <2>5 DEF HalInv
  <1>3. CASE WindowRunsOut
    <2>1. UNCHANGED <<at, flash, station, phone, gatt>>
      BY <1>3 DEF WindowRunsOut
    <2> QED BY <1>1, <2>1 DEF HalInv, HalTyped, PhoneOnlyAttended, AdvertisedClean,
                              JoinsTheStored, SetupIsItsOwn, StatusIsCurrent, Stored, Empty
  <1>4. ASSUME NEW p \in Phones, PhoneConnects(p) PROVE HalInv'
    <2>1. UNCHANGED <<flash, station, gatt>> /\ at = "advertising" /\ at' = "serve" /\ phone' = p
      BY <1>4 DEF PhoneConnects
    <2>2. gatt'.setup.of = NoPhone /\ gatt'.status = station'.policy.phase
      BY <1>1, <2>1 DEF AdvertisedClean, Empty
    <2>3. HalTyped' /\ PhoneOnlyAttended' /\ AdvertisedClean' /\ JoinsTheStored'
      BY <1>1, <2>1 DEF HalTyped, PhoneOnlyAttended, Attending, AdvertisedClean, JoinsTheStored
    <2>4. SetupIsItsOwn' /\ StatusIsCurrent'
      BY <2>2 DEF SetupIsItsOwn, StatusIsCurrent
    <2> QED BY <2>3, <2>4 DEF HalInv
  <1> QED BY <1>2, <1>3, <1>4

(* Every answer is the connected phone's, and brings `status` up to date.  *)
LEMMA AnswersKeep ==
  ASSUME HalInv, at = "serve", NEW next \in {"serve", "join", "grace"}, AnswerThen(next),
         HalTyped', next = "join" => (Stored(flash) = station.net)'
  PROVE  HalInv'
  <1>1. /\ at' = next /\ phone' = phone
        /\ gatt' = [setup |-> [of |-> phone, is |-> "answer"], status |-> station'.policy.phase]
    BY DEF AnswerThen
  <1>2. gatt'.setup.of = phone /\ gatt'.status = station'.policy.phase
    BY <1>1
  <1>3. PhoneOnlyAttended' /\ AdvertisedClean' /\ JoinsTheStored'
    BY <1>1 DEF PhoneOnlyAttended, Attending, AdvertisedClean, JoinsTheStored
  <1>4. SetupIsItsOwn' /\ StatusIsCurrent'
    BY <1>1, <1>2 DEF SetupIsItsOwn, StatusIsCurrent
  <1> QED BY <1>3, <1>4 DEF HalInv

(* A message served keeps it.                                              *)
LEMMA ServeKeeps ==
  ASSUME HalInv,
         ServeMessage \/ \E given \in Networks : ServeSettings(given) \/ ServeTorn(given)
  PROVE  HalInv'
  <1>1. HalTyped
    BY DEF HalInv
  <1>2. CASE ServeMessage
    <2>1. at = "serve" /\ AnswerThen("serve") /\ UNCHANGED station
      BY <1>2 DEF ServeMessage
    <2>2. flash' \in [ssid : Networks \cup {NoNetwork}, psk : Networks \cup {NoNetwork}, fail : Int]
      BY <1>1, <1>2 DEF ServeMessage, HalTyped
    <2>3. gatt' = [setup |-> gatt'.setup, status |-> gatt'.status]
      BY <2>1 DEF AnswerThen
    <2>4. HalTyped'
      BY <1>1, <2>1, <2>2, <2>3 DEF HalTyped
    <2> QED BY <2>1, <2>4, AnswersKeep
  <1>3. ASSUME NEW given \in Networks, ServeSettings(given) PROVE HalInv'
    <2>1. /\ at = "serve" /\ flash' = [flash EXCEPT !.ssid = given, !.psk = given]
          /\ station'.net = <<given, given>>
      BY <1>3 DEF ServeSettings
    <2>2. PICK next \in {"join", "grace"} : AnswerThen(next)
      BY <1>3 DEF ServeSettings
    <2>3. /\ flash' \in [ssid : Networks \cup {NoNetwork}, psk : Networks \cup {NoNetwork}, fail : Int]
          /\ flash'.ssid = given /\ flash'.psk = given
      BY <1>1, <2>1 DEF HalTyped
    <2>4. station' = [net |-> station'.net, trial |-> station'.trial, policy |-> station'.policy]
      BY <1>3 DEF ServeSettings
    <2>5. gatt' = [setup |-> gatt'.setup, status |-> gatt'.status]
      BY <2>2 DEF AnswerThen
    <2>6. HalTyped'
      BY <2>3, <2>4, <2>5 DEF HalTyped
    <2>7. (Stored(flash) = station.net)'
      BY <2>1, <2>3, HalAssumption DEF Stored
    <2> QED BY <2>1, <2>2, <2>6, <2>7, AnswersKeep
  <1>4. ASSUME NEW given \in Networks, ServeTorn(given) PROVE HalInv'
    <2>1. /\ at = "serve" /\ flash' = [flash EXCEPT !.ssid = given] /\ UNCHANGED station
          /\ AnswerThen("serve")
      BY <1>4 DEF ServeTorn
    <2>2. flash' \in [ssid : Networks \cup {NoNetwork}, psk : Networks \cup {NoNetwork}, fail : Int]
      BY <1>1, <2>1 DEF HalTyped
    <2>3. gatt' = [setup |-> gatt'.setup, status |-> gatt'.status]
      BY <2>1 DEF AnswerThen
    <2>4. HalTyped'
      BY <1>1, <2>1, <2>2, <2>3 DEF HalTyped
    <2> QED BY <2>1, <2>4, AnswersKeep
  <1> QED BY <1>2, <1>3, <1>4

(* While it attends, the loop takes no message: nothing comes between what *)
(* is joined and what is stored.                                           *)
LEMMA AttendKeeps ==
  ASSUME HalInv, AttendWrite \/ Joined \/ JoinFailed
  PROVE  HalInv'
  <1>1. HalTyped /\ JoinsTheStored /\ SetupIsItsOwn /\ StatusIsCurrent
    BY DEF HalInv
  <1>2. CASE AttendWrite
    <2>1. UNCHANGED <<at, flash, station, phone>> /\ at \in {"join", "grace"}
      BY <1>2 DEF AttendWrite
    <2>2. gatt' = [gatt EXCEPT !.setup = [of |-> phone, is |-> "message"]]
      BY <1>2 DEF AttendWrite
    <2>3. /\ gatt' = [setup |-> gatt'.setup, status |-> gatt'.status]
          /\ gatt'.setup.of = phone /\ gatt'.status = gatt.status
      BY <1>1, <2>2 DEF HalTyped
    <2>4. HalTyped' /\ SetupIsItsOwn' /\ StatusIsCurrent'
      BY <1>1, <2>1, <2>3 DEF HalTyped, SetupIsItsOwn, StatusIsCurrent
    <2>5. PhoneOnlyAttended' /\ AdvertisedClean'
      BY <2>1 DEF PhoneOnlyAttended, Attending, AdvertisedClean
    <2>6. JoinsTheStored'
      BY <1>1, <2>1 DEF JoinsTheStored, Stored
    <2> QED BY <2>4, <2>5, <2>6 DEF HalInv
  <1>3. CASE Joined \/ JoinFailed
    <2>1. /\ UNCHANGED <<flash, phone>> /\ at = "join" /\ at' \in {"serve", "joined"}
          /\ gatt' = [gatt EXCEPT !.status = station'.policy.phase]
      BY <1>3 DEF Joined, JoinFailed
    <2>2. PICK moved, no :
            station' = [station EXCEPT !.policy = moved, !.trial = no]
      BY <1>3 DEF Joined, JoinFailed
    <2>3. /\ station' = [net |-> station'.net, trial |-> station'.trial, policy |-> station'.policy]
          /\ station'.net = station.net
      BY <1>1, <2>2 DEF HalTyped
    <2>4. /\ gatt' = [setup |-> gatt'.setup, status |-> gatt'.status]
          /\ gatt'.setup = gatt.setup /\ gatt'.status = station'.policy.phase
      BY <1>1, <2>1 DEF HalTyped
    <2>5. HalTyped' /\ SetupIsItsOwn' /\ StatusIsCurrent'
      BY <1>1, <2>1, <2>3, <2>4 DEF HalTyped, SetupIsItsOwn, StatusIsCurrent
    <2>6. PhoneOnlyAttended' /\ AdvertisedClean'
      BY <2>1 DEF PhoneOnlyAttended, Attending, AdvertisedClean
    <2>7. JoinsTheStored'
      BY <1>1, <2>1, <2>3 DEF JoinsTheStored, Stored
    <2> QED BY <2>5, <2>6, <2>7 DEF HalInv
  <1> QED BY <1>2, <1>3

(* Every step of either firmware keeps it.                                 *)
LEMMA HalKept == HalInv /\ [HalNext]_halVars => HalInv'
  <1> SUFFICES ASSUME HalInv, [HalNext]_halVars PROVE HalInv'
    OBVIOUS
  <1>1. CASE HalNext
    BY <1>1, BootsKeep, EndsKeep, MeetsKeep, ServeKeeps, AttendKeeps DEF HalNext
  <1>2. CASE UNCHANGED halVars
    BY <1>2 DEF halVars, HalInv, HalTyped, PhoneOnlyAttended, AdvertisedClean, JoinsTheStored,
                SetupIsItsOwn, StatusIsCurrent, Stored
  <1> QED BY <1>1, <1>2

(* What a phone reads is its own and current, and the network it was told  *)
(* is joined is the one the next boot reads: for any number of phones,     *)
(* networks, visits and outages, with writes to the settings cut short.    *)
THEOREM PhonesToldTrue == HalSpec => []PhoneToldTrue
  <1>1. HalInv => PhoneToldTrue
    BY DEF HalInv, PhoneToldTrue, JoinsTheStored, RestartsIntoTheJoined
  <1> QED BY <1>1, HalStarts, HalKept, PTL DEF HalSpec

-----------------------------------------------------------------------------
(* The link firmwares' run *)

IniPcs == {"hello", "accept", "send", "echo", "rogue", "rogueAccept", "done"}
ResPcs == {"hello", "confirm", "echo", "refuse", "admit", "done"}
Verdicts == {"none", "PASS", "FAIL"}

(* What may be on its way to the responder. *)
MyHellos == {Hello(n, "me") : n \in 1 .. ATTEMPTS}
RogueHello == Hello(ROGUE_ATTEMPT, "rogue")
ForR(pc) ==
  MyHellos \cup {Confirm(n) : n \in 1 .. ATTEMPTS}
  \cup (IF pc \in {"hello", "accept"} THEN {} ELSE {DataFrame(n) : n \in 1 .. FRAMES})
  \cup (IF pc \in {"rogueAccept", "done"} THEN {RogueHello} ELSE {})

(* What may be on its way to the initiator: accepts, the rogue's only once *)
(* the rogue was adopted, and echoes of frames in E.                       *)
ForI(E, adopted) ==
  {AcceptOf(n) : n \in 1 .. ATTEMPTS}
  \cup (IF adopted = "rogue" THEN {AcceptOf(ROGUE_ATTEMPT)} ELSE {})
  \cup {DataFrame(n) : n \in E}

(* The initiator's counters; the steps below read them throughout. *)
IniFields == [pc : IniPcs, attempt : 1 .. ATTEMPTS, frame : 1 .. (FRAMES + 1), ok : Nat,
              lost : Nat, verdict : Verdicts]
USE DEF IniFields

RunTyped ==
  /\ ini \in IniFields
  /\ res \in [pc : ResPcs, pending : Nat, session : Nat, adopted : {"", "me", "rogue"},
              echoed : Nat, timeouts : Nat, foreign : Nat, refused : BOOLEAN, verdict : Verdicts]
  /\ airR \in Seq(ForR(ini.pc)) /\ inR \in Seq(ForR(ini.pc))
  /\ seenR \in SUBSET (1 .. FRAMES)

(* No hello of the adopted comes after a frame, and nothing after the rogue's. *)
Follows(x, y) == (x.kind = "frame" => y \notin MyHellos) /\ x # RogueHello
Orderly(p, q) ==
  /\ \A i, j \in 1 .. Len(p) : i < j => Follows(p[i], p[j])
  /\ \A i, j \in 1 .. Len(q) : i < j => Follows(q[i], q[j])
  /\ \A i \in 1 .. Len(p), j \in 1 .. Len(q) : Follows(p[i], q[j])

NoMyHello(q) == \A i \in 1 .. Len(q) : q[i] \notin MyHellos

(* The responder's queue is in order, whatever part of it was read. *)
HeardInOrder ==
  /\ Orderly(inR, airR)
  /\ seenR # {} => NoMyHello(inR) /\ NoMyHello(airR) /\ ini.pc \notin {"hello", "accept"}
  /\ res.adopted = "rogue" => inR = <<>> /\ airR = <<>> /\ ini.pc \in {"rogueAccept", "done"}

(* The frames echoed are the ones counted, and the only ones that come back. *)
EchoesCounted ==
  \E E \in SUBSET seenR :
    /\ Cardinality(E) = res.echoed
    /\ seenI \subseteq E
    /\ airI \in Seq(ForI(E, res.adopted)) /\ inI \in Seq(ForI(E, res.adopted))

(* The echoes counted are the frames seen. *)
OkIsSeen ==
  /\ ini.pc \in {"hello", "accept", "send", "echo"} => ini.frame <= FRAMES
  /\ ini.ok < ini.frame
  /\ ini.ok = ini.frame - 1 => 1 .. (ini.frame - 1) \subseteq seenI
  /\ ini.verdict \in {"PASS", "FAIL"} => ini.pc = "done"
  /\ ini.verdict = "PASS" => ini.ok >= FRAMES

(* The responder fails only a run that is short of echoes. *)
FailsShort ==
  /\ res.pc \in {"hello", "confirm", "admit"} => seenR = {}
  /\ res.pc = "confirm" => res.adopted # ""
  /\ res.pc \in {"echo", "refuse", "admit"} => res.adopted = "me"
  /\ res.verdict = "FAIL" => res.pc = "done" /\ res.echoed < FRAMES

RunInv == RunTyped /\ HeardInOrder /\ EchoesCounted /\ OkIsSeen /\ FailsShort

(* The queue of a clean attempt on a carrier that drains. *)
CleanTryWaits ==
  cleanTry /\ carrier # "espnow" /\ ini.pc = "accept" =>
    \/ /\ res.pc = "hello" /\ airI = <<>> /\ inI = <<>>
       /\ \/ airR = <<Hello(ini.attempt, "me")>> /\ inR = <<>>
          \/ airR = <<>> /\ inR = <<Hello(ini.attempt, "me")>>
    \/ /\ res.pc = "confirm" /\ airR = <<>> /\ inR = <<>>
       /\ \/ airI = <<AcceptOf(ini.attempt)>> /\ inI = <<>>
          \/ airI = <<>> /\ inI = <<AcceptOf(ini.attempt)>>

-----------------------------------------------------------------------------
(* A queue and what is taken from it or put into it.                       *)
LEMMA QueueMoves ==
  ASSUME NEW S, NEW q \in Seq(S)
  PROVE  /\ q # <<>> => /\ Head(q) = q[1] /\ Head(q) \in S /\ Tail(q) \in Seq(S)
                        /\ Len(q) \in Nat /\ Len(q) >= 1 /\ Len(Tail(q)) = Len(q) - 1
                        /\ \A i \in 1 .. (Len(q) - 1) : Tail(q)[i] = q[i + 1]
         /\ \A d \in S : Append(q, d) \in Seq(S)
         /\ \A d : /\ Len(Append(q, d)) = Len(q) + 1
                   /\ Append(q, d)[Len(q) + 1] = d
                   /\ \A i \in 1 .. Len(q) : Append(q, d)[i] = q[i]
  OBVIOUS

(* A queue of these is a queue of those.                                   *)
LEMMA QueueOfMore ==
  ASSUME NEW S, NEW T, NEW q \in Seq(S), S \subseteq T
  PROVE  q \in Seq(T)
  <1>1. \A i \in 1 .. Len(q) : q[i] \in T
    OBVIOUS
  <1> QED BY <1>1

(* Delivery, loss, reading and sending keep the order of the queues.       *)
LEMMA OrderKept ==
  ASSUME NEW S, NEW p \in Seq(S), NEW q \in Seq(S), Orderly(p, q)
  PROVE  /\ q # <<>> => Orderly(Append(p, Head(q)), Tail(q)) /\ Orderly(p, Tail(q))
         /\ p # <<>> => Orderly(Tail(p), q)
  <1>1. ASSUME q # <<>> PROVE Orderly(p, Tail(q))
    <2>1. \A i \in 1 .. Len(Tail(q)) : Tail(q)[i] = q[i + 1] /\ i + 1 \in 1 .. Len(q)
      BY <1>1, QueueMoves
    <2>2. \A i, j \in 1 .. Len(Tail(q)) : i < j => i + 1 < j + 1
      OBVIOUS
    <2> QED BY <2>1, <2>2 DEF Orderly
  <1>2. ASSUME p # <<>> PROVE Orderly(Tail(p), q)
    <2>1. \A i \in 1 .. Len(Tail(p)) : Tail(p)[i] = p[i + 1] /\ i + 1 \in 1 .. Len(p)
      BY <1>2, QueueMoves
    <2>2. \A i, j \in 1 .. Len(Tail(p)) : i < j => i + 1 < j + 1
      OBVIOUS
    <2> QED BY <2>1, <2>2 DEF Orderly
  <1>3. ASSUME q # <<>> PROVE Orderly(Append(p, Head(q)), Tail(q))
    <2>1. Orderly(p, Tail(q))
      BY <1>1, <1>3
    <2>a. PICK h : h = Head(q)
      OBVIOUS
    <2>b. PICK n \in Nat : n = Len(p)
      OBVIOUS
    <2>2. PICK P : P = Append(p, h) /\ h = Head(q) /\ n = Len(p)
      BY <2>a, <2>b
    <2>3. /\ h = q[1] /\ Len(q) \in Nat /\ Len(q) >= 1 /\ Len(P) = n + 1 /\ P[n + 1] = h
          /\ \A i \in 1 .. n : P[i] = p[i]
      BY <1>3, <2>2, QueueMoves
    <2>4. \A i \in 1 .. Len(Tail(q)) : Tail(q)[i] = q[i + 1] /\ i + 1 \in 1 .. Len(q) /\ 1 < i + 1
      BY <1>3, QueueMoves
    <2>5. 1 \in 1 .. Len(q)
      BY <2>3
    <2>6. \A i \in 1 .. n : Follows(p[i], h)
      BY <2>2, <2>3, <2>5 DEF Orderly
    <2>7. \A j \in 1 .. Len(Tail(q)) : Follows(h, Tail(q)[j])
      BY <2>3, <2>4, <2>5 DEF Orderly
    <2>8. \A i \in 1 .. Len(P) : i = n + 1 \/ i \in 1 .. n
      BY <2>2, <2>3
    <2>9. \A i, j \in 1 .. Len(P) : i < j => i \in 1 .. n
      BY <2>2, <2>3
    <2>10. \A i, j \in 1 .. Len(P) : i < j => Follows(P[i], P[j])
      BY <2>2, <2>3, <2>6, <2>8, <2>9 DEF Orderly
    <2>11. \A i \in 1 .. Len(P), j \in 1 .. Len(Tail(q)) : Follows(P[i], Tail(q)[j])
      BY <2>1, <2>2, <2>3, <2>7, <2>8 DEF Orderly
    <2>12. \A i, j \in 1 .. Len(Tail(q)) : i < j => Follows(Tail(q)[i], Tail(q)[j])
      BY <2>1 DEF Orderly
    <2>13. Orderly(P, Tail(q))
      BY <2>10, <2>11, <2>12 DEF Orderly
    <2> QED BY <2>2, <2>13
  <1> QED BY <1>1, <1>2, <1>3

(* Sending what may follow all that is queued keeps the order.             *)
LEMMA SendInOrder ==
  ASSUME NEW S, NEW p \in Seq(S), NEW q \in Seq(S), Orderly(p, q), NEW d,
         \A x \in S : Follows(x, d)
  PROVE  Orderly(p, Append(q, d))
  <1>a. PICK n \in Nat : n = Len(q)
    OBVIOUS
  <1>1. PICK Q : Q = Append(q, d) /\ n = Len(q)
    BY <1>a
  <1>2. Len(Q) = n + 1 /\ Q[n + 1] = d /\ \A i \in 1 .. n : Q[i] = q[i] /\ q[i] \in S
    BY <1>1, QueueMoves
  <1>3. \A i \in 1 .. Len(p) : p[i] \in S
    OBVIOUS
  <1>4. \A i \in 1 .. Len(Q) : i = n + 1 \/ i \in 1 .. n
    BY <1>1, <1>2
  <1>5. \A i, j \in 1 .. Len(Q) : i < j => i \in 1 .. n
    BY <1>1, <1>2
  <1>6. \A i, j \in 1 .. Len(Q) : i < j => Follows(Q[i], Q[j])
    BY <1>1, <1>2, <1>4, <1>5 DEF Orderly
  <1>7. \A i \in 1 .. Len(p), j \in 1 .. Len(Q) : Follows(p[i], Q[j])
    BY <1>1, <1>2, <1>3, <1>4 DEF Orderly
  <1>8. Orderly(p, Q)
    BY <1>6, <1>7 DEF Orderly
  <1> QED BY <1>1, <1>8

(* What follows the datagram read first.                                   *)
LEMMA AfterTheHead ==
  ASSUME NEW S, NEW p \in Seq(S), NEW q \in Seq(S), Orderly(p, q), p # <<>>
  PROVE  /\ Head(p) = RogueHello => Tail(p) = <<>> /\ q = <<>>
         /\ Head(p).kind = "frame" => NoMyHello(Tail(p)) /\ NoMyHello(q)
  <1>1. /\ Head(p) = p[1] /\ Len(p) \in Nat /\ Len(p) >= 1 /\ Len(q) \in Nat
        /\ Len(Tail(p)) = Len(p) - 1 /\ Tail(p) \in Seq(S)
        /\ \A i \in 1 .. Len(Tail(p)) : Tail(p)[i] = p[i + 1]
    BY QueueMoves
  <1>2. \A i \in 1 .. Len(Tail(p)) : Follows(p[1], Tail(p)[i])
    <2>1. \A i \in 1 .. Len(Tail(p)) : 1 < i + 1 /\ i + 1 \in 1 .. Len(p) /\ 1 \in 1 .. Len(p)
      BY <1>1
    <2> QED BY <1>1, <2>1 DEF Orderly
  <1>3. \A i \in 1 .. Len(q) : Follows(p[1], q[i])
    BY <1>1 DEF Orderly
  <1>4. ASSUME p[1] = RogueHello PROVE Tail(p) = <<>> /\ q = <<>>
    <2>1. \A i \in 1 .. Len(Tail(p)) : FALSE
      BY <1>2, <1>4 DEF Follows
    <2>2. \A i \in 1 .. Len(q) : FALSE
      BY <1>3, <1>4 DEF Follows
    <2>3. Tail(p) # <<>> => 1 \in 1 .. Len(Tail(p))
      BY <1>1
    <2>4. q # <<>> => 1 \in 1 .. Len(q)
      OBVIOUS
    <2> QED BY <2>1, <2>2, <2>3, <2>4
  <1> QED BY <1>1, <1>2, <1>3, <1>4 DEF Follows, NoMyHello

(* No hello of ours appears by moving what is queued.                      *)
LEMMA NoHelloKept ==
  ASSUME NEW S, NEW p \in Seq(S), NEW q \in Seq(S), NoMyHello(p), NoMyHello(q)
  PROVE  /\ q # <<>> => NoMyHello(Append(p, Head(q))) /\ NoMyHello(Tail(q))
         /\ \A d : d \notin MyHellos => NoMyHello(Append(p, d))
  <1>1. ASSUME NEW d, d \notin MyHellos PROVE NoMyHello(Append(p, d))
    <2>a. PICK n \in Nat : n = Len(p)
      OBVIOUS
    <2>1. PICK Q : Q = Append(p, d) /\ n = Len(p)
      BY <2>a
    <2>2. Len(Q) = n + 1 /\ Q[n + 1] = d /\ \A i \in 1 .. n : Q[i] = p[i]
      BY <2>1, QueueMoves
    <2>3. \A i \in 1 .. Len(Q) : i = n + 1 \/ i \in 1 .. n
      BY <2>1, <2>2
    <2>4. NoMyHello(Q)
      BY <1>1, <2>1, <2>2, <2>3 DEF NoMyHello
    <2> QED BY <2>1, <2>4
  <1>2. ASSUME q # <<>> PROVE NoMyHello(Tail(q)) /\ Head(q) \notin MyHellos
    <2>1. /\ Head(q) = q[1] /\ 1 \in 1 .. Len(q)
          /\ \A i \in 1 .. Len(Tail(q)) : Tail(q)[i] = q[i + 1] /\ i + 1 \in 1 .. Len(q)
      BY <1>2, QueueMoves
    <2> QED BY <2>1 DEF NoMyHello
  <1> QED BY <1>1, <1>2

-----------------------------------------------------------------------------
(* What a datagram to the responder can be.                                *)
LEMMA DatagramsForR ==
  ASSUME NEW pc, NEW x \in ForR(pc)
  PROVE  /\ x.kind = "hello" => x.n \in Nat /\ (x \in MyHellos \/ (x = RogueHello /\
            pc \in {"rogueAccept", "done"}))
         /\ x \in MyHellos => x.kind = "hello" /\ x.did = "me"
         /\ x = RogueHello => x.kind = "hello" /\ x.did = "rogue" /\ pc \in {"rogueAccept", "done"}
         /\ x.kind = "frame" => x.n \in 1 .. FRAMES /\ pc \notin {"hello", "accept"}
  <1>1. ATTEMPTS \in Nat /\ ROGUE_ATTEMPT \in Nat
    BY RunAssumption DEF ROGUE_ATTEMPT
  <1>2. CASE x \in MyHellos
    <2>1. PICK n \in 1 .. ATTEMPTS : x = [kind |-> "hello", n |-> n, did |-> "me"]
      BY <1>2 DEF MyHellos, Hello
    <2>2. x.kind = "hello" /\ x.did = "me" /\ x.n \in Nat /\ RogueHello.did = "rogue"
      BY <1>1, <2>1 DEF RogueHello, Hello
    <2> QED BY <1>2, <2>2
  <1>3. CASE x = RogueHello /\ pc \in {"rogueAccept", "done"}
    <2>1. x.kind = "hello" /\ x.did = "rogue" /\ x.n \in Nat
      BY <1>1, <1>3 DEF RogueHello, Hello
    <2>2. x \notin MyHellos
      BY <2>1 DEF MyHellos, Hello
    <2> QED BY <1>3, <2>1, <2>2
  <1>4. CASE x \in {Confirm(n) : n \in 1 .. ATTEMPTS}
    <2>a. PICK n \in 1 .. ATTEMPTS : x = [kind |-> "confirm", n |-> n, did |-> ""]
      BY <1>4 DEF Confirm
    <2>1. x.kind = "confirm"
      BY <2>a
    <2>2. x \notin MyHellos /\ x # RogueHello
      BY <2>1 DEF MyHellos, RogueHello, Hello
    <2> QED BY <2>1, <2>2
  <1>5. CASE x \in {DataFrame(n) : n \in 1 .. FRAMES} /\ pc \notin {"hello", "accept"}
    <2>a. PICK n \in 1 .. FRAMES : x = [kind |-> "frame", n |-> n, did |-> ""]
      BY <1>5 DEF DataFrame
    <2>1. x.kind = "frame" /\ x.n \in 1 .. FRAMES
      BY <2>a
    <2>2. x \notin MyHellos /\ x # RogueHello
      BY <2>1 DEF MyHellos, RogueHello, Hello
    <2> QED BY <1>5, <2>1, <2>2
  <1> QED BY <1>2, <1>3, <1>4, <1>5 DEF ForR

(* What a datagram to the initiator can be.                                *)
LEMMA DatagramsForI ==
  ASSUME NEW E, NEW a
  PROVE  /\ \A x \in ForI(E, a) : x.kind = "frame" => x.n \in E
         /\ a # "rogue" => AcceptOf(ROGUE_ATTEMPT) \notin ForI(E, a)
         /\ \A n \in E : DataFrame(n) \in ForI(E, a)
         /\ \A n \in 1 .. ATTEMPTS : AcceptOf(n) \in ForI(E, a)
         /\ a = "rogue" => AcceptOf(ROGUE_ATTEMPT) \in ForI(E, a)
  <1>1. \A n : AcceptOf(n).kind = "accept" /\ AcceptOf(n).n = n
    BY DEF AcceptOf
  <1>2. \A n : DataFrame(n).kind = "frame" /\ DataFrame(n).n = n
    BY DEF DataFrame
  <1>3. ASSUME NEW x \in ForI(E, a), x.kind = "frame" PROVE x.n \in E
    <2>1. (\E n : x = AcceptOf(n)) \/ (\E n \in E : x = DataFrame(n))
      BY DEF ForI
    <2> QED BY <1>1, <1>2, <1>3, <2>1
  <1>4. ASSUME a # "rogue", AcceptOf(ROGUE_ATTEMPT) \in ForI(E, a) PROVE FALSE
    <2>1. (\E n \in 1 .. ATTEMPTS : AcceptOf(ROGUE_ATTEMPT) = AcceptOf(n))
          \/ (\E n \in E : AcceptOf(ROGUE_ATTEMPT) = DataFrame(n))
      BY <1>4 DEF ForI
    <2>2. \E n \in 1 .. ATTEMPTS : n = ROGUE_ATTEMPT
      BY <1>1, <1>2, <2>1
    <2> QED BY <2>2, RunAssumption DEF ROGUE_ATTEMPT
  <1>5. \A n \in E : DataFrame(n) \in ForI(E, a)
    BY DEF ForI
  <1>6. \A n \in 1 .. ATTEMPTS : AcceptOf(n) \in ForI(E, a)
    BY DEF ForI
  <1>7. a = "rogue" => AcceptOf(ROGUE_ATTEMPT) \in ForI(E, a)
    BY DEF ForI
  <1> QED BY <1>3, <1>4, <1>5, <1>6, <1>7

(* What may be on its way only grows as the initiator goes on.             *)
LEMMA ForRGrows ==
  ASSUME NEW pc, NEW to, to \in {"hello", "accept"} => pc \in {"hello", "accept"},
         pc \in {"rogueAccept", "done"} => to \in {"rogueAccept", "done"}
  PROVE  ForR(pc) \subseteq ForR(to)
  BY DEF ForR

(* What the initiator may be sent only grows with the echoes and with the  *)
(* responder's place.                                                      *)
LEMMA ForIGrows ==
  ASSUME NEW E, NEW a, NEW F, NEW b, E \subseteq F, a = "rogue" => b = "rogue"
  PROVE  ForI(E, a) \subseteq ForI(F, b)
  BY DEF ForI

(* A step of the initiator: it may read one datagram or drain, and send    *)
(* one.                                                                    *)
LEMMA InitiatorMoves ==
  ASSUME RunInv, NEW to, to = ini'.pc,
         ini' \in IniFields,
         UNCHANGED <<res, airI, inR, seenR>>,
         to \in {"hello", "accept"} => ini.pc \in {"hello", "accept"},
         ini.pc \notin {"rogueAccept", "done"} \/ (airR' = airR /\ to \in {"rogueAccept", "done"}),
         \/ inI' = inI /\ seenI' = seenI
         \/ inI' = <<>> /\ seenI' = seenI
         \/ /\ inI # <<>> /\ inI' = Tail(inI)
            /\ seenI' = seenI \/ (Head(inI).kind = "frame" /\ seenI' = seenI \cup {Head(inI).n}),
         airR' = airR \/ \E d \in ForR(to) : /\ airR' = Append(airR, d)
                                             /\ d \in MyHellos => ini.pc \in {"hello", "accept"}
  PROVE  RunTyped' /\ HeardInOrder' /\ EchoesCounted' /\ FailsShort'
  <1>1. ForR(ini.pc) \subseteq ForR(to)
    BY ForRGrows
  <1>2. airR \in Seq(ForR(ini.pc)) /\ inR \in Seq(ForR(ini.pc)) /\ seenR \in SUBSET (1 .. FRAMES)
    BY DEF RunInv, RunTyped
  <1>3. airR \in Seq(ForR(to)) /\ inR \in Seq(ForR(to))
    BY <1>1, <1>2, QueueOfMore
  <1>4. airR' \in Seq(ForR(to))
    <2>1. \A d \in ForR(to) : Append(airR, d) \in Seq(ForR(to))
      BY <1>3, QueueMoves
    <2> QED BY <1>3, <2>1
  <1>5. RunTyped'
    <2>1. res' \in [pc : ResPcs, pending : Nat, session : Nat, adopted : {"", "me", "rogue"},
                    echoed : Nat, timeouts : Nat, foreign : Nat, refused : BOOLEAN, verdict : Verdicts]
      BY DEF RunInv, RunTyped
    <2> QED BY <1>2, <1>3, <1>4, <2>1 DEF RunTyped
  <1>6. HeardInOrder'
    <2>1. /\ Orderly(inR, airR)
          /\ seenR # {} => NoMyHello(inR) /\ NoMyHello(airR) /\ ini.pc \notin {"hello", "accept"}
          /\ res.adopted = "rogue" => inR = <<>> /\ airR = <<>> /\
             ini.pc \in {"rogueAccept", "done"}
      BY DEF RunInv, HeardInOrder
    <2>2. CASE airR' = airR
      BY <2>1, <2>2 DEF HeardInOrder
    <2>3. CASE airR' # airR
      <3>1. PICK d \in ForR(to) : airR' = Append(airR, d) /\
                 (d \in MyHellos => ini.pc \in {"hello", "accept"})
        BY <2>3
      <3>2. \A x \in ForR(ini.pc) : Follows(x, d)
        <4>1. SUFFICES ASSUME NEW x \in ForR(ini.pc) PROVE Follows(x, d)
          OBVIOUS
        <4>2. x.kind = "frame" => ini.pc \notin {"hello", "accept"}
          BY DatagramsForR
        <4>3. x = RogueHello => ini.pc \in {"rogueAccept", "done"}
          BY DatagramsForR
        <4> QED BY <2>3, <3>1, <4>2, <4>3 DEF Follows
      <3>3. Orderly(inR, airR')
        BY <1>2, <2>1, <3>1, <3>2, SendInOrder
      <3>4. seenR # {} => NoMyHello(airR') /\ NoMyHello(inR) /\ to \notin {"hello", "accept"}
        BY <1>2, <2>1, <3>1, NoHelloKept
      <3>5. res.adopted # "rogue"
        BY <2>1, <2>3
      <3> QED BY <3>3, <3>4, <3>5 DEF HeardInOrder
    <2> QED BY <2>2, <2>3
  <1>7. EchoesCounted'
    <2>1. PICK E \in SUBSET seenR :
            /\ Cardinality(E) = res.echoed /\ seenI \subseteq E
            /\ airI \in Seq(ForI(E, res.adopted)) /\ inI \in Seq(ForI(E, res.adopted))
      BY DEF RunInv, EchoesCounted
    <2>2. inI' \in Seq(ForI(E, res.adopted))
      <3>1. inI # <<>> => Tail(inI) \in Seq(ForI(E, res.adopted))
        BY <2>1, QueueMoves
      <3>2. <<>> \in Seq(ForI(E, res.adopted))
        OBVIOUS
      <3> QED BY <2>1, <3>1, <3>2
    <2>3. seenI' \subseteq E
      <3>1. inI # <<>> => Head(inI) \in ForI(E, res.adopted)
        BY <2>1, QueueMoves
      <3>2. inI # <<>> /\ Head(inI).kind = "frame" => Head(inI).n \in E
        BY <3>1, DatagramsForI
      <3> QED BY <2>1, <3>2
    <2> QED BY <2>1, <2>2, <2>3 DEF EchoesCounted
  <1>8. FailsShort'
    BY DEF RunInv, FailsShort
  <1> QED BY <1>5, <1>6, <1>7, <1>8

(* The initiator's own fields, and what it may send.                       *)
LEMMA InitiatorFields ==
  ASSUME RunInv
  PROVE  /\ ini \in IniFields
         /\ FRAMES \in Nat /\ FRAMES > 0 /\ ATTEMPTS \in Nat
         /\ ini.attempt \in 1 .. ATTEMPTS /\ ini.frame \in 1 .. (FRAMES + 1) /\
            ini.ok \in Nat /\ ini.lost \in Nat
         /\ Hello(ini.attempt, "me") \in MyHellos
         /\ \A pc : Hello(ini.attempt, "me") \in ForR(pc) /\ Confirm(ini.attempt) \in ForR(pc)
         /\ ini.pc \in {"send", "echo"} => DataFrame(ini.frame) \in ForR("echo")
         /\ RogueHello \in ForR("rogueAccept")
         /\ \A n : Confirm(n) \notin MyHellos /\ DataFrame(n) \notin MyHellos
         /\ RogueHello \notin MyHellos
  <1>1. /\ ini \in IniFields
        /\ FRAMES \in Nat /\ FRAMES > 0 /\ ATTEMPTS \in Nat
    <2>1. FRAMES \in Nat /\ FRAMES > 0 /\ ATTEMPTS \in Nat
      BY RunAssumption
    <2> QED BY <2>1 DEF RunInv, RunTyped
  <1>2. ini.attempt \in 1 .. ATTEMPTS /\ ini.frame \in 1 .. (FRAMES + 1) /\ ini.ok \in Nat /\
        ini.lost \in Nat
    BY <1>1
  <1>3. Hello(ini.attempt, "me") \in MyHellos
    BY <1>2 DEF MyHellos
  <1>4. \A pc : Hello(ini.attempt, "me") \in ForR(pc) /\ Confirm(ini.attempt) \in ForR(pc)
    BY <1>2, <1>3 DEF ForR
  <1>5. ini.pc \in {"send", "echo"} => ini.frame \in 1 .. FRAMES
    BY <1>1, <1>2 DEF RunInv, OkIsSeen
  <1>6. ini.pc \in {"send", "echo"} => DataFrame(ini.frame) \in ForR("echo")
    BY <1>5 DEF ForR
  <1>7. RogueHello \in ForR("rogueAccept")
    BY DEF ForR
  <1>8. \A x \in MyHellos : x.kind = "hello" /\ x.did = "me"
    BY DEF MyHellos, Hello
  <1>9. \A n : Confirm(n).kind = "confirm" /\ DataFrame(n).kind = "frame" /\
        RogueHello.did = "rogue"
    BY DEF Confirm, DataFrame, RogueHello, Hello
  <1> QED BY <1>1, <1>2, <1>3, <1>4, <1>6, <1>7, <1>8, <1>9

(* The hello, the frame and the rogue hello are sent.                      *)
LEMMA SendsKeep ==
  ASSUME RunInv, SendHello \/ SendFrame \/ SendRogueHello
  PROVE  RunInv'
  <1>1. /\ ini \in IniFields
        /\ FRAMES \in Nat /\ FRAMES > 0 /\ ATTEMPTS \in Nat
        /\ ini.attempt \in 1 .. ATTEMPTS /\ ini.frame \in 1 .. (FRAMES + 1) /\ ini.ok \in Nat /\
           ini.lost \in Nat
    BY InitiatorFields
  <1>o. OkIsSeen
    BY DEF RunInv
  <1>2. CASE SendHello
    <2>1. ini.pc = "hello" /\ ini' = [ini EXCEPT !.pc = "accept"]
      BY <1>2 DEF SendHello
    <2>2. /\ ini'.pc = "accept" /\ ini'.frame = ini.frame /\ ini'.ok = ini.ok /\
             ini'.verdict = ini.verdict
          /\ ini' \in IniFields
      BY <1>1, <2>1 DEF IniPcs
    <2>3. /\ UNCHANGED <<res, airI, inR, seenR, seenI>> /\ (inI' = inI \/ inI' = <<>>)
          /\ airR' = Append(airR, Hello(ini.attempt, "me"))
      BY <1>2 DEF SendHello, Drained
    <2>4. RunTyped' /\ HeardInOrder' /\ EchoesCounted' /\ FailsShort'
      BY <2>1, <2>2, <2>3, InitiatorFields, InitiatorMoves
    <2>5. OkIsSeen'
      BY <1>o, <2>1, <2>2, <2>3 DEF OkIsSeen
    <2> QED BY <2>4, <2>5 DEF RunInv
  <1>3. CASE SendRogueHello
    <2>1. ini.pc = "rogue" /\ ini' = [ini EXCEPT !.pc = "rogueAccept"]
      BY <1>3 DEF SendRogueHello
    <2>2. /\ ini'.pc = "rogueAccept" /\ ini'.frame = ini.frame /\ ini'.ok = ini.ok /\
             ini'.verdict = ini.verdict
          /\ ini' \in IniFields
      BY <1>1, <2>1 DEF IniPcs
    <2>3. /\ UNCHANGED <<res, airI, inR, seenR, seenI>> /\ (inI' = inI \/ inI' = <<>>)
          /\ airR' = Append(airR, RogueHello)
      BY <1>3 DEF SendRogueHello, Drained, RogueHello, history
    <2>4. RunTyped' /\ HeardInOrder' /\ EchoesCounted' /\ FailsShort'
      BY <2>1, <2>2, <2>3, InitiatorFields, InitiatorMoves
    <2>5. OkIsSeen'
      BY <1>o, <2>1, <2>2, <2>3 DEF OkIsSeen
    <2> QED BY <2>4, <2>5 DEF RunInv
  <1>4. CASE SendFrame
    <2>1. ini.pc = "send" /\ UNCHANGED <<res, airI, inI, inR, seenR, seenI>>
      BY <1>4 DEF SendFrame, history
    <2>2. CASE airR' = Append(airR, DataFrame(ini.frame)) /\ ini' = [ini EXCEPT !.pc = "echo"]
      <3>1. /\ ini'.pc = "echo" /\ ini'.frame = ini.frame /\ ini'.ok = ini.ok /\
               ini'.verdict = ini.verdict
            /\ ini' \in IniFields
        BY <1>1, <2>2 DEF IniPcs
      <3>2. RunTyped' /\ HeardInOrder' /\ EchoesCounted' /\ FailsShort'
        BY <2>1, <2>2, <3>1, InitiatorFields, InitiatorMoves
      <3>3. OkIsSeen'
        BY <1>o, <2>1, <3>1 DEF OkIsSeen
      <3> QED BY <3>2, <3>3 DEF RunInv
    <2>3. CASE airR' = airR /\ ini' = [NextFrame(ini) EXCEPT !.lost = @ + 1]
      <3>1. ini.frame <= FRAMES /\ ini.verdict \notin {"PASS", "FAIL"} /\ ini.ok < ini.frame
        BY <1>o, <2>1 DEF OkIsSeen
      <3>2. ini' = [ini EXCEPT !.frame = ini.frame + 1, !.pc = (IF ini.frame = FRAMES THEN "rogue" ELSE "send"),
                               !.lost = ini.lost + 1]
        BY <1>1, <2>3 DEF NextFrame
      <3>3. /\ ini'.pc = (IF ini.frame = FRAMES THEN "rogue" ELSE "send") /\
               ini'.frame = ini.frame + 1
            /\ ini'.ok = ini.ok /\ ini'.verdict = ini.verdict
        BY <1>1, <3>2
      <3>4. ini.frame + 1 \in 1 .. (FRAMES + 1) /\ ini.lost + 1 \in Nat
            /\ (IF ini.frame = FRAMES THEN "rogue" ELSE "send") \in IniPcs
        BY <1>1, <3>1 DEF IniPcs
      <3>5. ini' \in IniFields
        BY <1>1, <3>2, <3>4
      <3>6. RunTyped' /\ HeardInOrder' /\ EchoesCounted' /\ FailsShort'
        BY <2>1, <2>3, <3>3, <3>5, InitiatorMoves
      <3>7. OkIsSeen'
        BY <1>1, <2>1, <3>1, <3>3 DEF OkIsSeen
      <3> QED BY <3>6, <3>7 DEF RunInv
    <2> QED BY <1>4, <2>2, <2>3 DEF SendFrame
  <1> QED BY <1>2, <1>3, <1>4

(* An attempt that fails goes back to the hello, or ends the run.          *)
LEMMA AttemptFailedKeeps ==
  ASSUME RunInv, ini.pc = "accept", ini' = AttemptFailed,
         UNCHANGED <<res, airI, airR, inR, seenR, seenI>>,
         inI' = inI \/ (inI # <<>> /\ inI' = Tail(inI))
  PROVE  RunInv'
  <1>1. /\ ini \in IniFields
        /\ ATTEMPTS \in Nat /\ ini.attempt \in 1 .. ATTEMPTS
    BY InitiatorFields
  <1>2. /\ ini'.pc \in {"hello", "done"} /\ ini'.frame = ini.frame /\ ini'.ok = ini.ok
        /\ ini'.verdict \in {ini.verdict, "FAIL"} /\
           (ini'.verdict = "FAIL" => ini.verdict = "FAIL" \/ ini'.pc = "done")
    BY <1>1 DEF AttemptFailed
  <1>3. ini' \in IniFields
    <2>1. CASE ini.attempt < ATTEMPTS
      <3>1. ini' = [ini EXCEPT !.pc = "hello", !.attempt = ini.attempt + 1]
        BY <1>1, <2>1 DEF AttemptFailed
      <3>2. ini.attempt + 1 \in 1 .. ATTEMPTS
        BY <1>1, <2>1
      <3> QED BY <1>1, <3>1, <3>2 DEF IniPcs
    <2>2. CASE ~(ini.attempt < ATTEMPTS)
      <3>1. ini' = [ini EXCEPT !.pc = "done", !.verdict = "FAIL"]
        BY <2>2 DEF AttemptFailed
      <3> QED BY <1>1, <3>1 DEF IniPcs, Verdicts
    <2> QED BY <2>1, <2>2
  <1>4. RunTyped' /\ HeardInOrder' /\ EchoesCounted' /\ FailsShort'
    BY <1>2, <1>3, InitiatorMoves
  <1>5. OkIsSeen'
    BY <1>2 DEF RunInv, OkIsSeen
  <1> QED BY <1>4, <1>5 DEF RunInv

(* The initiator waits for an accept.                                      *)
LEMMA AcceptsKeep ==
  ASSUME RunInv, ReadAccept \/ AcceptTimeout
  PROVE  RunInv'
  <1>1. /\ ini \in IniFields
        /\ ini.frame \in 1 .. (FRAMES + 1) /\ FRAMES \in Nat /\ FRAMES > 0
    BY InitiatorFields
  <1>2. CASE AcceptTimeout
    BY <1>2, AttemptFailedKeeps DEF AcceptTimeout, air
  <1>3. CASE ReadAccept /\ Head(inI) # AcceptOf(ini.attempt)
    BY <1>3, AttemptFailedKeeps DEF ReadAccept, history
  <1>4. CASE ReadAccept /\ Head(inI) = AcceptOf(ini.attempt)
    <2>1. /\ ini.pc = "accept" /\ inI # <<>> /\ inI' = Tail(inI)
          /\ ini' = [ini EXCEPT !.pc = IF carrier = "udp" THEN "done" ELSE "send"]
          /\ airR' = Append(airR, Confirm(ini.attempt))
          /\ UNCHANGED <<res, airI, inR, seenR, seenI>>
      BY <1>4 DEF ReadAccept, history
    <2>2. PICK to \in {"done", "send"} : to = IF carrier = "udp" THEN "done" ELSE "send"
      OBVIOUS
    <2>3. ini' = [ini EXCEPT !.pc = to]
      BY <2>1, <2>2
    <2>4. /\ ini'.pc = to /\ ini'.frame = ini.frame /\ ini'.ok = ini.ok /\
             ini'.verdict = ini.verdict
          /\ ini' \in IniFields
      BY <1>1, <2>2, <2>3 DEF IniPcs
    <2>5. Confirm(ini.attempt) \in ForR(to) /\ Confirm(ini.attempt) \notin MyHellos
      BY InitiatorFields
    <2>6. RunTyped' /\ HeardInOrder' /\ EchoesCounted' /\ FailsShort'
      BY <2>1, <2>2, <2>4, <2>5, InitiatorMoves
    <2>7. ini.frame <= FRAMES
      BY <2>1 DEF RunInv, OkIsSeen
    <2>8. OkIsSeen'
      BY <2>1, <2>2, <2>4, <2>7 DEF RunInv, OkIsSeen
    <2> QED BY <2>6, <2>8 DEF RunInv
  <1> QED BY <1>2, <1>3, <1>4

(* The initiator waits for an echo.                                        *)
LEMMA EchoesKeep ==
  ASSUME RunInv, ReadEcho \/ EchoTimeout
  PROVE  RunInv'
  <1>1. /\ ini \in IniFields
        /\ FRAMES \in Nat /\ ini.frame \in 1 .. (FRAMES + 1) /\ ini.ok \in Nat /\ ini.lost \in Nat
    BY InitiatorFields
  <1>2. ini.pc = "echo" /\ UNCHANGED <<res, airI, airR, inR, seenR>>
    BY DEF ReadEcho, EchoTimeout, air, history
  <1>3. /\ ini.frame <= FRAMES /\ ini.verdict \notin {"PASS", "FAIL"} /\ ini.ok < ini.frame
        /\ ini.ok = ini.frame - 1 => 1 .. (ini.frame - 1) \subseteq seenI
    BY <1>2 DEF RunInv, OkIsSeen
  <1>4. /\ \/ inI' = inI /\ seenI' = seenI
           \/ /\ inI # <<>> /\ inI' = Tail(inI)
              /\ seenI' = seenI \/ (Head(inI).kind = "frame" /\ seenI' = seenI \cup {Head(inI).n})
        /\ \/ ini' = NextFrame(ini)
           \/ ini' = [NextFrame(ini) EXCEPT !.lost = @ + 1]
           \/ ini' = [NextFrame(ini) EXCEPT !.ok = @ + 1] /\ seenI' = seenI \cup {ini.frame}
        /\ seenI \subseteq seenI'
    <2>1. CASE EchoTimeout
      BY <2>1 DEF EchoTimeout, air, history
    <2>2. CASE ReadEcho /\ Head(inI).kind = "frame" /\ Head(inI).n \notin seenI /\
               Head(inI).n = ini.frame
      BY <2>2 DEF ReadEcho
    <2>3. CASE ReadEcho /\ Head(inI).kind = "frame" /\ Head(inI).n \notin seenI /\
               Head(inI).n # ini.frame
      BY <2>3 DEF ReadEcho
    <2>4. CASE ReadEcho /\ ~(Head(inI).kind = "frame" /\ Head(inI).n \notin seenI)
      BY <2>4 DEF ReadEcho
    <2> QED BY <2>1, <2>2, <2>3, <2>4
  <1>5. PICK to \in {"rogue", "send"} : to = (IF ini.frame = FRAMES THEN "rogue" ELSE "send")
    OBVIOUS
  <1>6. PICK N : N = NextFrame(ini)
    OBVIOUS
  <1>7. /\ N \in IniFields
        /\ N.pc = to /\ N.frame = ini.frame + 1 /\ N.ok = ini.ok /\ N.verdict = ini.verdict /\
           N.lost = ini.lost
    <2>1. N = [ini EXCEPT !.frame = ini.frame + 1, !.pc = to]
      BY <1>1, <1>5, <1>6 DEF NextFrame
    <2>2. ini.frame + 1 \in 1 .. (FRAMES + 1) /\ to \in IniPcs
      BY <1>1, <1>3, <1>5 DEF IniPcs
    <2> QED BY <1>1, <2>1, <2>2
  <1>8. /\ ini' \in IniFields
        /\ ini'.pc = to /\ ini'.frame = ini.frame + 1 /\ ini'.verdict = ini.verdict
        /\ ini'.ok = ini.ok \/ (ini'.ok = ini.ok + 1 /\ seenI' = seenI \cup {ini.frame})
    <2>1. ini.ok + 1 \in Nat /\ ini.lost + 1 \in Nat
      BY <1>1
    <2>2. CASE ini' = N
      BY <1>7, <2>2
    <2>3. CASE ini' = [N EXCEPT !.lost = @ + 1]
      BY <1>7, <2>1, <2>3
    <2>4. CASE ini' = [N EXCEPT !.ok = @ + 1] /\ seenI' = seenI \cup {ini.frame}
      BY <1>7, <2>1, <2>4
    <2> QED BY <1>4, <1>6, <2>2, <2>3, <2>4
  <1>9. RunTyped' /\ HeardInOrder' /\ EchoesCounted' /\ FailsShort'
    BY <1>2, <1>4, <1>5, <1>8, InitiatorMoves
  <1>10. OkIsSeen'
    <2>1. ini'.pc \in {"hello", "accept", "send", "echo"} => ini'.frame <= FRAMES
      BY <1>1, <1>3, <1>5, <1>8
    <2>2. ini'.ok < ini'.frame
      BY <1>1, <1>3, <1>8
    <2>3. ini'.ok = ini'.frame - 1 => 1 .. (ini'.frame - 1) \subseteq seenI'
      <3>1. SUFFICES ASSUME ini'.ok = ini'.frame - 1 PROVE 1 .. (ini'.frame - 1) \subseteq seenI'
        OBVIOUS
      <3>2. ini.ok = ini.frame - 1 /\ seenI' = seenI \cup {ini.frame} /\ ini'.frame - 1 = ini.frame
        BY <1>1, <1>3, <1>8, <3>1
      <3>3. \A i \in 1 .. ini.frame : i = ini.frame \/ i \in 1 .. (ini.frame - 1)
        BY <1>1
      <3> QED BY <1>3, <3>2, <3>3
    <2>4. ini'.verdict \notin {"PASS", "FAIL"}
      BY <1>3, <1>8
    <2> QED BY <2>1, <2>2, <2>3, <2>4 DEF OkIsSeen
  <1> QED BY <1>9, <1>10 DEF RunInv

(* The initiator's verdict.                                                *)
LEMMA RogueAnswerKeeps ==
  ASSUME RunInv, ReadRogueAnswer
  PROVE  RunInv'
  <1>1. ini \in IniFields
    BY InitiatorFields
  <1>2. /\ ini.pc = "rogueAccept" /\ UNCHANGED <<res, airI, airR, inR, seenR, seenI>>
        /\ inI' = inI \/ (inI # <<>> /\ inI' = Tail(inI))
        /\ ini' = RunVerdict(TRUE) \/ ini' = RunVerdict(FALSE)
    <2>1. RunVerdict(Head(inI) = AcceptOf(ROGUE_ATTEMPT)) \in {RunVerdict(TRUE), RunVerdict(FALSE)}
      BY DEF RunVerdict
    <2> QED BY <2>1 DEF ReadRogueAnswer, history
  <1>3. /\ ini'.pc = "done" /\ ini'.frame = ini.frame /\ ini'.ok = ini.ok
        /\ ini'.verdict \in {"PASS", "FAIL"} /\ (ini'.verdict = "PASS" => ini.ok >= FRAMES)
        /\ ini' \in IniFields
    <2>1. PICK v \in {"PASS", "FAIL"} :
            ini' = [ini EXCEPT !.pc = "done", !.verdict = v] /\ (v = "PASS" => ini.ok >= FRAMES)
      BY <1>2 DEF RunVerdict
    <2> QED BY <1>1, <2>1 DEF IniPcs, Verdicts
  <1>4. RunTyped' /\ HeardInOrder' /\ EchoesCounted' /\ FailsShort'
    BY <1>2, <1>3, InitiatorMoves
  <1>5. OkIsSeen'
    BY <1>2, <1>3 DEF RunInv, OkIsSeen
  <1> QED BY <1>4, <1>5 DEF RunInv

-----------------------------------------------------------------------------
(* What the responder reads, and what is left.                             *)
LEMMA Reading ==
  ASSUME RunInv, inR # <<>>, NEW h, h = Head(inR)
  PROVE  /\ h \in ForR(ini.pc) /\ Tail(inR) \in Seq(ForR(ini.pc))
         /\ Orderly(Tail(inR), airR)
         /\ seenR # {} => NoMyHello(Tail(inR)) /\ h \notin MyHellos
         /\ h.kind = "frame" => NoMyHello(Tail(inR)) /\ NoMyHello(airR)
         /\ h = RogueHello => Tail(inR) = <<>> /\ airR = <<>>
         /\ res.adopted # "rogue"
  <1>1. inR \in Seq(ForR(ini.pc)) /\ airR \in Seq(ForR(ini.pc))
    BY DEF RunInv, RunTyped
  <1>2. Orderly(inR, airR) /\ (seenR # {} => NoMyHello(inR)) /\ res.adopted # "rogue"
    BY DEF RunInv, HeardInOrder
  <1>3. h \in ForR(ini.pc) /\ Tail(inR) \in Seq(ForR(ini.pc)) /\ h = inR[1] /\ 1 \in 1 .. Len(inR)
    BY <1>1, QueueMoves
  <1>4. Orderly(Tail(inR), airR)
    BY <1>1, <1>2, OrderKept
  <1>5. seenR # {} => NoMyHello(Tail(inR)) /\ h \notin MyHellos
    <2>1. seenR # {} => NoMyHello(Tail(inR))
      BY <1>1, <1>2, NoHelloKept
    <2> QED BY <1>2, <1>3, <2>1 DEF NoMyHello
  <1>6. /\ h.kind = "frame" => NoMyHello(Tail(inR)) /\ NoMyHello(airR)
        /\ h = RogueHello => Tail(inR) = <<>> /\ airR = <<>>
    BY <1>1, <1>2, AfterTheHead
  <1> QED BY <1>2, <1>3, <1>4, <1>5, <1>6

ResFields == [pc : ResPcs, pending : Nat, session : Nat, adopted : {"", "me", "rogue"},
              echoed : Nat, timeouts : Nat, foreign : Nat, refused : BOOLEAN, verdict : Verdicts]

(* A step of the responder that opens no frame.                            *)
LEMMA ResponderMoves ==
  ASSUME RunInv, res' \in ResFields, res'.echoed = res.echoed,
         UNCHANGED <<ini, airR, inI, seenI, seenR>>,
         inR' = inR \/ (inR # <<>> /\ inR' = Tail(inR)),
         airI' = airI \/ \E n : /\ airI' = Append(airI, AcceptOf(n))
                                /\ n \in 1 .. ATTEMPTS \/ (n = ROGUE_ATTEMPT /\
                                   res'.adopted = "rogue"),
         \/ res'.adopted = res.adopted
         \/ inR # <<>> /\ inR' = Tail(inR) /\ Head(inR).kind = "hello" /\
            res'.adopted = Head(inR).did,
         FailsShort'
  PROVE  RunInv'
  <1>1. /\ RunTyped /\ HeardInOrder /\ EchoesCounted /\ OkIsSeen
    BY DEF RunInv
  <1>2. RunTyped'
    <2>1. inR # <<>> => Tail(inR) \in Seq(ForR(ini.pc))
      BY Reading
    <2>2. inR' \in Seq(ForR(ini.pc))
      BY <1>1, <2>1 DEF RunTyped
    <2> QED BY <1>1, <2>2 DEF RunTyped, ResFields
  <1>3. OkIsSeen'
    BY <1>1 DEF OkIsSeen
  <1>4. CASE res'.adopted = res.adopted
    <2>1. HeardInOrder'
      <3>1. inR # <<>> => Orderly(Tail(inR), airR) /\ (seenR # {} => NoMyHello(Tail(inR))) /\
            res.adopted # "rogue"
        BY Reading
      <3> QED BY <1>1, <1>4, <3>1 DEF HeardInOrder
    <2>2. EchoesCounted'
      <3>1. PICK E \in SUBSET seenR :
              /\ Cardinality(E) = res.echoed /\ seenI \subseteq E
              /\ airI \in Seq(ForI(E, res.adopted)) /\ inI \in Seq(ForI(E, res.adopted))
        BY <1>1 DEF EchoesCounted
      <3>2. airI' \in Seq(ForI(E, res.adopted))
        <4>1. \A d \in ForI(E, res.adopted) : Append(airI, d) \in Seq(ForI(E, res.adopted))
          BY <3>1, QueueMoves
        <4>2. \A n : n \in 1 .. ATTEMPTS \/ (n = ROGUE_ATTEMPT /\ res.adopted = "rogue")
                       => AcceptOf(n) \in ForI(E, res.adopted)
          BY DatagramsForI
        <4> QED BY <1>4, <3>1, <4>1, <4>2
      <3> QED BY <1>4, <3>1, <3>2 DEF EchoesCounted
    <2> QED BY <1>2, <1>3, <2>1, <2>2 DEF RunInv
  <1>5. CASE res'.adopted # res.adopted
    <2>1. PICK h : h = Head(inR)
      OBVIOUS
    <2>2. inR # <<>> /\ inR' = Tail(inR) /\ h.kind = "hello" /\ res'.adopted = h.did
      BY <1>5, <2>1
    <2>3. /\ h \in ForR(ini.pc) /\ Orderly(Tail(inR), airR)
          /\ seenR # {} => NoMyHello(Tail(inR)) /\ h \notin MyHellos
          /\ h = RogueHello => Tail(inR) = <<>> /\ airR = <<>>
          /\ res.adopted # "rogue"
      BY <2>1, <2>2, Reading
    <2>4. /\ h \in MyHellos \/ (h = RogueHello /\ ini.pc \in {"rogueAccept", "done"})
          /\ h \in MyHellos => h.did = "me"
      BY <2>2, <2>3, DatagramsForR
    <2>5. HeardInOrder'
      <3>1. res'.adopted = "rogue" => h = RogueHello /\ ini.pc \in {"rogueAccept", "done"}
        BY <2>2, <2>4
      <3> QED BY <1>1, <2>2, <2>3, <3>1 DEF HeardInOrder
    <2>6. EchoesCounted'
      <3>1. PICK E \in SUBSET seenR :
              /\ Cardinality(E) = res.echoed /\ seenI \subseteq E
              /\ airI \in Seq(ForI(E, res.adopted)) /\ inI \in Seq(ForI(E, res.adopted))
        BY <1>1 DEF EchoesCounted
      <3>2. ForI(E, res.adopted) \subseteq ForI(E, res'.adopted)
        BY <2>3, ForIGrows
      <3>3. airI \in Seq(ForI(E, res'.adopted)) /\ inI \in Seq(ForI(E, res'.adopted))
        BY <3>1, <3>2, QueueOfMore
      <3>4. airI' \in Seq(ForI(E, res'.adopted))
        <4>1. \A d \in ForI(E, res'.adopted) : Append(airI, d) \in Seq(ForI(E, res'.adopted))
          BY <3>3, QueueMoves
        <4>2. \A n : n \in 1 .. ATTEMPTS \/ (n = ROGUE_ATTEMPT /\ res'.adopted = "rogue")
                       => AcceptOf(n) \in ForI(E, res'.adopted)
          BY DatagramsForI
        <4> QED BY <3>3, <4>1, <4>2
      <3> QED BY <3>1, <3>3, <3>4 DEF EchoesCounted
    <2> QED BY <1>2, <1>3, <2>5, <2>6 DEF RunInv
  <1> QED BY <1>4, <1>5

(* A session that was never opened has echoed nothing.                     *)
LEMMA NothingEchoed ==
  ASSUME RunInv
  PROVE  /\ seenR = {} => res.echoed = 0
         /\ res.echoed \in Nat /\ FRAMES \in Nat /\ FRAMES > 0 /\ res \in ResFields
  <1>1. /\ res \in ResFields /\ FRAMES \in Nat /\ FRAMES > 0
    <2>1. FRAMES \in Nat /\ FRAMES > 0
      BY RunAssumption
    <2> QED BY <2>1 DEF RunInv, RunTyped, ResFields
  <1>2. PICK E \in SUBSET seenR : Cardinality(E) = res.echoed
    BY DEF RunInv, EchoesCounted
  <1>3. seenR = {} => E = {}
    OBVIOUS
  <1>4. seenR = {} => res.echoed = 0
    BY <1>2, <1>3, FS_EmptySet
  <1> QED BY <1>1, <1>4 DEF ResFields

(* A handshake of the responder that fails.                                *)
LEMMA HandshakeFailedKeeps ==
  ASSUME RunInv, res.pc \in {"hello", "confirm"}, res' = HandshakeFailed,
         UNCHANGED <<ini, airI, airR, inI, seenI, seenR>>,
         inR # <<>> /\ inR' = Tail(inR)
  PROVE  RunInv'
  <1>1. seenR = {} /\ res.echoed = 0 /\ FRAMES > 0 /\ FRAMES \in Nat /\ res \in ResFields /\
        res.verdict # "FAIL"
    BY NothingEchoed DEF RunInv, FailsShort
  <1>2. /\ res' \in ResFields /\ res'.echoed = res.echoed /\ res'.adopted = res.adopted
        /\ \/ res'.pc = "hello" /\ res'.verdict = res.verdict
           \/ res'.pc = "done" /\ res'.verdict = "FAIL"
    <2>1. CASE carrier = "espnow" /\ res.foreign < MAX_FOREIGN
      <3>a. res.foreign \in Nat
        BY <1>1 DEF ResFields
      <3>1. res.foreign + 1 \in Nat
        BY <3>a
      <3>2. res' = [res EXCEPT !.pc = "hello", !.foreign = res.foreign + 1]
        BY <1>1, <2>1 DEF HandshakeFailed, ResFields
      <3> QED BY <1>1, <3>1, <3>2 DEF ResFields, ResPcs
    <2>2. CASE ~(carrier = "espnow" /\ res.foreign < MAX_FOREIGN)
      <3>1. res' = [res EXCEPT !.pc = "done", !.verdict = "FAIL"]
        BY <2>2 DEF HandshakeFailed
      <3> QED BY <1>1, <3>1 DEF ResFields, ResPcs, Verdicts
    <2> QED BY <2>1, <2>2
  <1>3. FailsShort'
    BY <1>1, <1>2 DEF FailsShort
  <1> QED BY <1>2, <1>3, ResponderMoves

(* The responder's first handshake.                                        *)
LEMMA HandshakesKeep ==
  ASSUME RunInv, ReadHello \/ ReadConfirm \/ HandshakeTimeout
  PROVE  RunInv'
  <1>1. /\ res.pc \in {"hello", "confirm"} /\ UNCHANGED <<ini, airR, inI, seenI, seenR>>
    BY DEF ReadHello, ReadConfirm, HandshakeTimeout, air, history
  <1>2. seenR = {} /\ res.echoed = 0 /\ FRAMES > 0 /\ FRAMES \in Nat /\ res \in ResFields /\
        res.verdict # "FAIL"
    BY <1>1, NothingEchoed DEF RunInv, FailsShort
  <1>3. CASE ReadHello
    <2>1. inR # <<>> /\ inR' = Tail(inR)
      BY <1>3 DEF ReadHello
    <2>2. PICK h : h = Head(inR)
      OBVIOUS
    <2>3. CASE h.kind = "hello"
      <3>1. /\ res' = [res EXCEPT !.pc = "confirm", !.pending = h.n, !.adopted = h.did]
            /\ airI' = Append(airI, AcceptOf(h.n))
        BY <1>3, <2>2, <2>3 DEF ReadHello
      <3>2. h \in ForR(ini.pc)
        BY <2>1, <2>2, Reading
      <3>3. /\ h.n \in Nat
            /\ (h.n \in 1 .. ATTEMPTS /\ h.did = "me") \/ (h.n = ROGUE_ATTEMPT /\ h.did = "rogue")
        <4>1. h.n \in Nat /\ (h \in MyHellos \/ h = RogueHello)
          BY <2>3, <3>2, DatagramsForR
        <4> QED BY <4>1 DEF MyHellos, RogueHello, Hello
      <3>4. /\ res' \in ResFields /\ res'.pc = "confirm" /\ res'.adopted = h.did /\
               res'.echoed = res.echoed
            /\ res'.verdict = res.verdict
        BY <1>2, <3>1, <3>3 DEF ResFields, ResPcs
      <3>5. FailsShort'
        BY <1>1, <1>2, <3>3, <3>4 DEF FailsShort
      <3>6. \E n : /\ airI' = Append(airI, AcceptOf(n))
                   /\ n \in 1 .. ATTEMPTS \/ (n = ROGUE_ATTEMPT /\ res'.adopted = "rogue")
        BY <3>1, <3>3, <3>4
      <3> QED BY <1>1, <2>1, <2>2, <2>3, <3>4, <3>5, <3>6, ResponderMoves
    <2>4. CASE h.kind # "hello" /\ carrier = "udp"
      <3>1. res' = res /\ airI' = airI
        BY <1>3, <2>2, <2>4 DEF ReadHello
      <3>2. FailsShort'
        BY <1>1, <3>1 DEF RunInv, FailsShort
      <3> QED BY <1>1, <1>2, <2>1, <3>1, <3>2, ResponderMoves
    <2>5. CASE h.kind # "hello" /\ carrier # "udp"
      <3>1. res' = HandshakeFailed /\ airI' = airI
        BY <1>3, <2>2, <2>5 DEF ReadHello
      <3> QED BY <1>1, <2>1, <3>1, HandshakeFailedKeeps
    <2> QED BY <2>3, <2>4, <2>5
  <1>4. CASE ReadConfirm
    <2>1. inR # <<>> /\ inR' = Tail(inR) /\ res.pc = "confirm" /\ airI' = airI
      BY <1>4 DEF ReadConfirm
    <2>2. CASE Head(inR) = Confirm(res.pending)
      <3>1. PICK to \in {"done", "echo"} : to = IF carrier = "udp" THEN "done" ELSE "echo"
        OBVIOUS
      <3>2. res' = [res EXCEPT !.pc = to, !.session = res.pending]
        BY <1>4, <2>2, <3>1 DEF ReadConfirm
      <3>3. /\ res' \in ResFields /\ res'.pc = to /\ res'.adopted = res.adopted /\
               res'.echoed = res.echoed
            /\ res'.verdict = res.verdict
        BY <1>2, <3>1, <3>2 DEF ResFields, ResPcs
      <3>4. res.adopted = "me"
        <4>1. res.adopted # "rogue"
          BY <2>1, Reading
        <4>2. res.adopted # ""
          BY <2>1 DEF RunInv, FailsShort
        <4> QED BY <1>2, <4>1, <4>2 DEF ResFields
      <3>5. FailsShort'
        BY <1>1, <1>2, <3>1, <3>3, <3>4 DEF FailsShort
      <3> QED BY <1>1, <2>1, <3>3, <3>5, ResponderMoves
    <2>3. CASE Head(inR) # Confirm(res.pending) /\ carrier = "udp"
      <3>1. res' = res
        BY <1>4, <2>3 DEF ReadConfirm
      <3>2. FailsShort'
        BY <1>1, <3>1 DEF RunInv, FailsShort
      <3> QED BY <1>1, <1>2, <2>1, <3>1, <3>2, ResponderMoves
    <2>4. CASE Head(inR) # Confirm(res.pending) /\ carrier # "udp"
      <3>1. res' = HandshakeFailed
        BY <1>4, <2>4 DEF ReadConfirm
      <3> QED BY <1>1, <2>1, <3>1, HandshakeFailedKeeps
    <2> QED BY <2>2, <2>3, <2>4
  <1>5. CASE HandshakeTimeout
    <2>1. res' = [res EXCEPT !.pc = "hello"] /\ inR' = inR /\ airI' = airI
      BY <1>5 DEF HandshakeTimeout, air
    <2>2. /\ res' \in ResFields /\ res'.pc = "hello" /\ res'.adopted = res.adopted /\
             res'.echoed = res.echoed
          /\ res'.verdict = res.verdict
      BY <1>2, <2>1 DEF ResFields, ResPcs
    <2>3. FailsShort'
      BY <1>1, <1>2, <2>2 DEF FailsShort
    <2> QED BY <1>1, <2>1, <2>2, <2>3, ResponderMoves
  <1> QED BY <1>3, <1>4, <1>5

(* The responder's counters are numbers.                                   *)
LEMMA ResTyped ==
  \A r \in ResFields : r.timeouts \in Nat /\ r.echoed \in Nat /\ r.foreign \in Nat
  BY DEF ResFields

(* The echo loop goes on, or ends.                                         *)
LEMMA EchoLoopEnds ==
  ASSUME NEW r \in ResFields
  PROVE  /\ EchoLoop(r) \in ResFields
         /\ EchoLoop(r).pc \in {r.pc, "refuse"} /\ EchoLoop(r).adopted = r.adopted
         /\ EchoLoop(r).echoed = r.echoed /\ EchoLoop(r).verdict = r.verdict
  <1>1. CASE r.echoed < FRAMES /\ r.timeouts < MAX_TIMEOUTS
    BY <1>1 DEF EchoLoop
  <1>2. CASE ~(r.echoed < FRAMES /\ r.timeouts < MAX_TIMEOUTS)
    <2>1. EchoLoop(r) = [r EXCEPT !.pc = "refuse"]
      BY <1>2 DEF EchoLoop
    <2> QED BY <2>1 DEF ResFields, ResPcs
  <1> QED BY <1>1, <1>2

(* The responder opens a frame and echoes it, or loses it.                 *)
LEMMA EchoFrameKeeps ==
  ASSUME RunInv, EchoFrame
  PROVE  RunInv'
  <1>1. /\ res.pc = "echo" /\ inR # <<>> /\ inR' = Tail(inR) /\ UNCHANGED <<ini, airR, inI, seenI>>
    BY DEF EchoFrame
  <1>2. /\ res \in ResFields /\ res.adopted = "me" /\ res.verdict # "FAIL" /\ res.echoed \in Nat
    BY <1>1, NothingEchoed DEF RunInv, FailsShort
  <1>3. PICK h : h = Head(inR)
    OBVIOUS
  <1>4. CASE ~(h.kind = "frame" /\ h.n \notin seenR)
    <2>1. UNCHANGED <<airI, res, seenR>>
      BY <1>3, <1>4 DEF EchoFrame
    <2>2. FailsShort'
      BY <2>1 DEF RunInv, FailsShort
    <2> QED BY <1>1, <1>2, <2>1, <2>2, ResponderMoves
  <1>5. CASE h.kind = "frame" /\ h.n \notin seenR
    <2>1. PICK n : n = h.n
      OBVIOUS
    <2>2. /\ seenR' = seenR \cup {n}
          /\ \/ airI' = Append(airI, DataFrame(n)) /\
                res' = EchoLoop([res EXCEPT !.echoed = @ + 1, !.timeouts = 0])
             \/ airI' = airI /\ res' = EchoLoop([res EXCEPT !.timeouts = 0])
      BY <1>3, <1>5, <2>1 DEF EchoFrame
    <2>3. /\ h \in ForR(ini.pc) /\ Tail(inR) \in Seq(ForR(ini.pc)) /\ Orderly(Tail(inR), airR)
          /\ NoMyHello(Tail(inR)) /\ NoMyHello(airR)
      BY <1>1, <1>3, <1>5, Reading
    <2>4. n \in 1 .. FRAMES /\ ini.pc \notin {"hello", "accept"}
      BY <1>5, <2>1, <2>3, DatagramsForR
    <2>5. PICK k \in {0, 1} :
            /\ k = 1 => /\ airI' = Append(airI, DataFrame(n))
                       /\ res' = EchoLoop([res EXCEPT !.echoed = res.echoed + 1, !.timeouts = 0])
            /\ k = 0 => airI' = airI /\ res' = EchoLoop([res EXCEPT !.timeouts = 0])
      <3>1. CASE airI' = Append(airI, DataFrame(n)) /\
                 res' = EchoLoop([res EXCEPT !.echoed = @ + 1, !.timeouts = 0])
        BY <3>1
      <3>2. CASE airI' = airI /\ res' = EchoLoop([res EXCEPT !.timeouts = 0])
        BY <3>2
      <3> QED BY <2>2, <3>1, <3>2
    <2>6. PICK r : r = IF k = 1 THEN [res EXCEPT !.echoed = res.echoed + 1, !.timeouts = 0]
                       ELSE [res EXCEPT !.timeouts = 0]
      OBVIOUS
    <2>7. r \in ResFields /\ r.pc = "echo" /\ r.adopted = res.adopted /\ r.echoed = res.echoed + k
          /\ r.verdict = res.verdict
      <3>1. res.echoed + 1 \in Nat /\ res.echoed + 0 = res.echoed
        BY <1>2
      <3>2. CASE k = 1
        <4>1. r = [res EXCEPT !.echoed = res.echoed + 1, !.timeouts = 0]
          BY <2>6, <3>2
        <4> QED BY <1>1, <1>2, <3>1, <3>2, <4>1 DEF ResFields
      <3>3. CASE k = 0
        <4>1. r = [res EXCEPT !.timeouts = 0]
          BY <2>6, <3>3
        <4> QED BY <1>1, <1>2, <3>1, <3>3, <4>1 DEF ResFields
      <3> QED BY <3>2, <3>3
    <2>8. /\ res' \in ResFields /\ res'.pc \in {"echo", "refuse"} /\ res'.adopted = "me"
          /\ res'.echoed = res.echoed + k /\ res'.verdict = res.verdict
      <3>1. res' = EchoLoop(r)
        BY <2>5, <2>6
      <3> QED BY <1>2, <2>7, <3>1, EchoLoopEnds
    <2>9. RunTyped'
      BY <1>1, <2>2, <2>3, <2>4, <2>8 DEF RunInv, RunTyped, ResFields
    <2>10. HeardInOrder'
      BY <1>1, <2>2, <2>3, <2>4, <2>8 DEF HeardInOrder
    <2>11. EchoesCounted'
      <3>1. PICK E \in SUBSET seenR :
              /\ Cardinality(E) = res.echoed /\ seenI \subseteq E
              /\ airI \in Seq(ForI(E, res.adopted)) /\ inI \in Seq(ForI(E, res.adopted))
        BY DEF RunInv, EchoesCounted
      <3>2. CASE k = 0
        BY <1>1, <1>2, <2>2, <2>5, <2>8, <3>1, <3>2 DEF EchoesCounted
      <3>3. CASE k = 1
        <4>1. PICK F : F = E \cup {n}
          OBVIOUS
        <4>2. F \in SUBSET (seenR') /\ E \subseteq F
          BY <2>2, <3>1, <4>1
        <4>3. Cardinality(F) = res.echoed + 1
          <5>1. IsFiniteSet(E)
            <6>1. E \subseteq 1 .. FRAMES /\ FRAMES \in Nat
              BY <3>1, NothingEchoed DEF RunInv, RunTyped
            <6>2. IsFiniteSet(1 .. FRAMES)
              BY <6>1, FS_Interval
            <6> QED BY <6>1, <6>2, FS_Subset
          <5>2. n \notin E
            BY <1>5, <2>1, <3>1
          <5> QED BY <3>1, <4>1, <5>1, <5>2, FS_AddElement
        <4>4. airI \in Seq(ForI(F, res.adopted)) /\ inI \in Seq(ForI(F, res.adopted))
          <5>1. ForI(E, res.adopted) \subseteq ForI(F, res.adopted)
            BY <4>2, ForIGrows
          <5> QED BY <3>1, <5>1, QueueOfMore
        <4>5. airI' \in Seq(ForI(F, res.adopted))
          <5>1. DataFrame(n) \in ForI(F, res.adopted)
            BY <4>1, DatagramsForI
          <5> QED BY <2>5, <3>3, <4>4, <5>1, QueueMoves
        <4>6. seenI' \subseteq F /\ inI' = inI /\ res'.adopted = res.adopted /\
              Cardinality(F) = res'.echoed
          BY <1>1, <1>2, <2>8, <3>1, <3>3, <4>2, <4>3
        <4> QED BY <4>2, <4>4, <4>5, <4>6 DEF EchoesCounted
      <3> QED BY <3>2, <3>3
    <2>12. FailsShort'
      BY <1>2, <2>8 DEF FailsShort
    <2>13. OkIsSeen'
      BY <1>1 DEF RunInv, OkIsSeen
    <2> QED BY <2>9, <2>10, <2>11, <2>12, <2>13 DEF RunInv
  <1> QED BY <1>4, <1>5

(* The responder's verdict: a refusal.                                     *)
LEMMA RefusalKeeps ==
  ASSUME RunInv, NEW refused \in BOOLEAN, res' = Refusal(refused),
         refused \/ res.pc = "admit", res.pc \in {"refuse", "admit"},
         UNCHANGED <<ini, airI, airR, inI, seenI, seenR>>,
         inR' = inR \/ (inR # <<>> /\ inR' = Tail(inR))
  PROVE  RunInv'
  <1>1. /\ res \in ResFields /\ res.echoed \in Nat /\ FRAMES \in Nat /\ FRAMES > 0
        /\ res.pc = "admit" => res.echoed = 0
    BY NothingEchoed DEF RunInv, FailsShort
  <1>2. PICK v \in {"PASS", "FAIL"} : v = IF res.echoed >= FRAMES /\ refused THEN "PASS" ELSE "FAIL"
    OBVIOUS
  <1>3. res' = [res EXCEPT !.pc = "done", !.refused = refused, !.verdict = v]
    BY <1>2 DEF Refusal
  <1>4. /\ res' \in ResFields /\ res'.pc = "done" /\ res'.adopted = res.adopted /\
           res'.echoed = res.echoed
        /\ res'.verdict = v
    BY <1>1, <1>2, <1>3 DEF ResFields, ResPcs, Verdicts
  <1>5. v = "FAIL" => res.echoed < FRAMES
    BY <1>1, <1>2
  <1>6. FailsShort'
    BY <1>4, <1>5 DEF FailsShort
  <1> QED BY <1>4, <1>6, ResponderMoves

(* The responder's waits after the first handshake.                        *)
LEMMA RefusesKeep ==
  ASSUME RunInv, ResponderTimeout \/ Refuse \/ Admit \/ RefuseTimeout
  PROVE  RunInv'
  <1>1. UNCHANGED <<ini, airR, inI, seenI, seenR>>
    BY DEF ResponderTimeout, Refuse, Admit, RefuseTimeout, air, history
  <1>2. res \in ResFields
    BY NothingEchoed
  <1>3. CASE ResponderTimeout
    <2>1. /\ res.pc = "echo" /\ inR' = inR /\ airI' = airI
          /\ res' = EchoLoop([res EXCEPT !.timeouts = @ + 1])
      BY <1>3 DEF ResponderTimeout, air
    <2>2. PICK r : r = [res EXCEPT !.timeouts = res.timeouts + 1]
      OBVIOUS
    <2>3. r \in ResFields /\ r.pc = "echo" /\ r.adopted = res.adopted /\
          r.echoed = res.echoed /\ r.verdict = res.verdict
      <3>1. res.timeouts \in Nat
        BY <1>2, ResTyped
      <3>2. res.timeouts + 1 \in Nat
        BY <3>1
      <3> QED BY <1>2, <2>1, <2>2, <3>2 DEF ResFields
    <2>4. res' = EchoLoop(r)
      BY <1>2, <2>1, <2>2 DEF ResFields
    <2>5. /\ res' \in ResFields /\ res'.pc \in {"echo", "refuse"} /\ res'.adopted = res.adopted
          /\ res'.echoed = res.echoed /\ res'.verdict = res.verdict
      BY <2>3, <2>4, EchoLoopEnds
    <2>6. FailsShort'
      BY <1>1, <2>1, <2>5 DEF RunInv, FailsShort
    <2> QED BY <1>1, <2>1, <2>5, <2>6, ResponderMoves
  <1>4. CASE Refuse
    <2>1. res.pc = "refuse" /\ inR # <<>> /\ inR' = Tail(inR)
      BY <1>4 DEF Refuse
    <2>2. PICK h : h = Head(inR)
      OBVIOUS
    <2>3. CASE h.kind = "hello" /\ h.did = res.adopted
      <3>1. /\ res' = [res EXCEPT !.pc = "admit", !.pending = h.n]
            /\ airI' = Append(airI, AcceptOf(h.n))
        BY <1>4, <2>2, <2>3 DEF Refuse
      <3>2. h \in ForR(ini.pc) /\ (seenR # {} => h \notin MyHellos)
        BY <2>1, <2>2, Reading
      <3>3. res.adopted = "me" /\ res.verdict # "FAIL"
        BY <2>1 DEF RunInv, FailsShort
      <3>4. h.n \in Nat /\ h \in MyHellos
        <4>1. h.n \in Nat /\ (h \in MyHellos \/ h = RogueHello) /\
              (h = RogueHello => h.did = "rogue")
          BY <2>3, <3>2, DatagramsForR
        <4> QED BY <2>3, <3>3, <4>1
      <3>5. h.n \in 1 .. ATTEMPTS
        BY <3>4 DEF MyHellos, Hello
      <3>6. seenR = {}
        BY <3>2, <3>4
      <3>7. /\ res' \in ResFields /\ res'.pc = "admit" /\ res'.adopted = res.adopted /\
               res'.echoed = res.echoed
            /\ res'.verdict = res.verdict
        BY <1>2, <3>1, <3>4 DEF ResFields, ResPcs
      <3>8. FailsShort'
        BY <1>1, <3>3, <3>6, <3>7 DEF FailsShort
      <3> QED BY <1>1, <2>1, <3>1, <3>5, <3>7, <3>8, ResponderMoves
    <2>4. CASE ~(h.kind = "hello" /\ h.did = res.adopted)
      <3>1. res' = Refusal(TRUE) /\ airI' = airI
        BY <1>4, <2>2, <2>4 DEF Refuse
      <3> QED BY <1>1, <2>1, <3>1, RefusalKeeps
    <2> QED BY <2>3, <2>4
  <1>5. CASE Admit
    <2>1. /\ res.pc = "admit" /\ inR # <<>> /\ inR' = Tail(inR) /\ airI' = airI
          /\ res' = Refusal(Head(inR) # Confirm(res.pending))
      BY <1>5 DEF Admit
    <2>2. PICK b \in BOOLEAN : b = (Head(inR) # Confirm(res.pending))
      OBVIOUS
    <2>3. res' = Refusal(b)
      BY <2>1, <2>2
    <2> QED BY <1>1, <2>1, <2>3, RefusalKeeps
  <1>6. CASE RefuseTimeout
    <2>1. res.pc \in {"refuse", "admit"} /\ res' = Refusal(TRUE) /\ UNCHANGED <<airI, inR>>
      BY <1>6 DEF RefuseTimeout, air
    <2> QED BY <1>1, <2>1, RefusalKeeps
  <1> QED BY <1>3, <1>4, <1>5, <1>6

(* The radio delivers, or loses, the first on its way.                     *)
LEMMA AirKeeps ==
  ASSUME RunInv, Deliver \/ Lose
  PROVE  RunInv'
  <1>1. UNCHANGED <<ini, res, seenI, seenR>>
    BY DEF Deliver, Lose, history
  <1>2. airR \in Seq(ForR(ini.pc)) /\ inR \in Seq(ForR(ini.pc))
    BY DEF RunInv, RunTyped
  <1>3. PICK E \in SUBSET seenR :
          /\ Cardinality(E) = res.echoed /\ seenI \subseteq E
          /\ airI \in Seq(ForI(E, res.adopted)) /\ inI \in Seq(ForI(E, res.adopted))
    BY DEF RunInv, EchoesCounted
  <1>4. OkIsSeen' /\ FailsShort'
    BY <1>1 DEF RunInv, OkIsSeen, FailsShort
  <1>5. CASE airI # <<>> /\ airI' = Tail(airI) /\ (inI' = inI \/
             inI' = Append(inI, Head(airI))) /\ UNCHANGED <<airR, inR>>
    <2>1. airI' \in Seq(ForI(E, res.adopted)) /\ Head(airI) \in ForI(E, res.adopted)
      BY <1>3, <1>5, QueueMoves
    <2>2. inI' \in Seq(ForI(E, res.adopted))
      <3>1. \A d \in ForI(E, res.adopted) : Append(inI, d) \in Seq(ForI(E, res.adopted))
        BY <1>3, QueueMoves
      <3>2. Append(inI, Head(airI)) \in Seq(ForI(E, res.adopted))
        BY <2>1, <3>1
      <3> QED BY <1>3, <1>5, <3>2
    <2>3. EchoesCounted'
      BY <1>1, <1>3, <2>1, <2>2 DEF EchoesCounted
    <2>4. RunTyped' /\ HeardInOrder'
      BY <1>1, <1>5 DEF RunInv, RunTyped, HeardInOrder
    <2> QED BY <1>4, <2>3, <2>4 DEF RunInv
  <1>6. CASE airR # <<>> /\ airR' = Tail(airR) /\ (inR' = inR \/
             inR' = Append(inR, Head(airR))) /\ UNCHANGED <<airI, inI>>
    <2>1. airR' \in Seq(ForR(ini.pc)) /\ Head(airR) \in ForR(ini.pc)
      BY <1>2, <1>6, QueueMoves
    <2>2. inR' \in Seq(ForR(ini.pc))
      <3>1. Append(inR, Head(airR)) \in Seq(ForR(ini.pc))
        BY <1>2, <2>1, QueueMoves
      <3> QED BY <1>2, <1>6, <3>1
    <2>3. RunTyped'
      BY <1>1, <2>1, <2>2 DEF RunInv, RunTyped
    <2>4. EchoesCounted'
      BY <1>1, <1>3, <1>6 DEF EchoesCounted
    <2>5. HeardInOrder'
      <3>1. /\ Orderly(inR, airR)
            /\ seenR # {} => NoMyHello(inR) /\ NoMyHello(airR) /\ ini.pc \notin {"hello", "accept"}
            /\ res.adopted # "rogue"
        BY <1>6 DEF RunInv, HeardInOrder
      <3>2. Orderly(inR, Tail(airR)) /\ Orderly(Append(inR, Head(airR)), Tail(airR))
        BY <1>2, <1>6, <3>1, OrderKept
      <3>3. seenR # {} => NoMyHello(Tail(airR)) /\ NoMyHello(Append(inR, Head(airR)))
        BY <1>2, <1>6, <3>1, NoHelloKept
      <3> QED BY <1>1, <1>6, <3>1, <3>2, <3>3 DEF HeardInOrder
    <2> QED BY <1>4, <2>3, <2>4, <2>5 DEF RunInv
  <1>7. CASE Deliver
    BY <1>5, <1>6, <1>7 DEF Deliver
  <1>8. CASE Lose
    BY <1>5, <1>6, <1>8 DEF Lose
  <1> QED BY <1>7, <1>8

(* The beginning of a run.                                                 *)
LEMMA RunStarts == RunInit => RunInv
  <1> SUFFICES ASSUME RunInit PROVE RunInv
    OBVIOUS
  <1>1. /\ ini = [pc |-> "hello", attempt |-> 1, frame |-> 1, ok |-> 0, lost |-> 0, verdict |-> "none"]
        /\ res = [pc |-> "hello", pending |-> 0, session |-> 0, adopted |-> "", echoed |-> 0,
                  timeouts |-> 0, foreign |-> 0, refused |-> FALSE, verdict |-> "none"]
        /\ airI = <<>> /\ airR = <<>> /\ inI = <<>> /\ inR = <<>> /\ seenI = {} /\ seenR = {}
    BY DEF RunInit
  <1>2. 1 \in 1 .. ATTEMPTS /\ 1 \in 1 .. (FRAMES + 1) /\ 1 <= FRAMES
    BY RunAssumption
  <1>3. RunTyped
    <2>1. ini \in IniFields
      BY <1>1, <1>2 DEF IniPcs, Verdicts
    <2>2. res \in ResFields
      BY <1>1 DEF ResFields, ResPcs, Verdicts
    <2>3. airR \in Seq(ForR(ini.pc)) /\ inR \in Seq(ForR(ini.pc)) /\ seenR \in SUBSET (1 .. FRAMES)
      <3>1. \A S : <<>> \in Seq(S)
        OBVIOUS
      <3>2. seenR \in SUBSET (1 .. FRAMES)
        BY <1>1
      <3> QED BY <1>1, <3>1, <3>2
    <2> QED BY <2>1, <2>2, <2>3 DEF RunTyped, ResFields
  <1>4. HeardInOrder
    <2>1. Len(inR) = 0 /\ Len(airR) = 0
      BY <1>1
    <2>2. Orderly(inR, airR)
      BY <2>1 DEF Orderly
    <2>3. res.adopted = "" /\ seenR = {}
      BY <1>1
    <2> QED BY <2>2, <2>3 DEF HeardInOrder
  <1>5. EchoesCounted
    <2>1. Cardinality({}) = 0
      BY FS_EmptySet
    <2>2. \A S : <<>> \in Seq(S)
      OBVIOUS
    <2>3. {} \in SUBSET seenR /\ Cardinality({}) = res.echoed /\ seenI \subseteq {}
          /\ airI \in Seq(ForI({}, res.adopted)) /\ inI \in Seq(ForI({}, res.adopted))
      BY <1>1, <2>1, <2>2
    <2> QED BY <2>3 DEF EchoesCounted
  <1>6. OkIsSeen
    <2>1. ini.pc = "hello" /\ ini.frame = 1 /\ ini.ok = 0 /\ ini.verdict = "none"
      BY <1>1
    <2>2. \A i \in 1 .. (1 - 1) : FALSE
      OBVIOUS
    <2> QED BY <1>2, <2>1, <2>2 DEF OkIsSeen
  <1>7. FailsShort
    <2>1. res.pc = "hello" /\ res.verdict = "none" /\ seenR = {}
      BY <1>1
    <2> QED BY <2>1 DEF FailsShort
  <1> QED BY <1>3, <1>4, <1>5, <1>6, <1>7 DEF RunInv

(* Every step of a run keeps the invariant.                                *)
LEMMA RunKept == RunInv /\ [RunNext]_runVars => RunInv'
  <1> SUFFICES ASSUME RunInv, [RunNext]_runVars PROVE RunInv'
    OBVIOUS
  <1>1. CASE Deliver \/ Lose
    BY <1>1, AirKeeps
  <1>2. CASE Initiator
    BY <1>2, SendsKeep, AcceptsKeep, EchoesKeep, RogueAnswerKeeps DEF Initiator
  <1>3. CASE Responder
    BY <1>3, HandshakesKeep, EchoFrameKeeps, RefusesKeep DEF Responder
  <1>4. CASE UNCHANGED runVars
    <2>1. UNCHANGED <<ini, res, airI, airR, inI, inR, seenI, seenR>>
      BY <1>4 DEF runVars
    <2>2. RunTyped' /\ HeardInOrder'
      BY <2>1 DEF RunInv, RunTyped, HeardInOrder
    <2>3. EchoesCounted' /\ OkIsSeen' /\ FailsShort'
      BY <2>1 DEF RunInv, EchoesCounted, OkIsSeen, FailsShort
    <2> QED BY <2>2, <2>3 DEF RunInv
  <1> QED BY <1>1, <1>2, <1>3, <1>4 DEF RunNext

(* The invariant is what the verdicts say.                                 *)
LEMMA VerdictsFollow == RunInv => VerdictsTrue
  <1> SUFFICES ASSUME RunInv PROVE VerdictsTrue
    OBVIOUS
  <1>1. PICK E \in SUBSET seenR :
          /\ Cardinality(E) = res.echoed /\ seenI \subseteq E
          /\ airI \in Seq(ForI(E, res.adopted))
    BY DEF RunInv, EchoesCounted
  <1>2. seenR \subseteq 1 .. FRAMES
    BY DEF RunInv, RunTyped
  <1>3. FRAMES \in Nat /\ FRAMES > 0 /\ ini.frame \in 1 .. (FRAMES + 1) /\ ini.ok \in Nat
    BY InitiatorFields
  <1>4. PassIsMutual
    <2>1. SUFFICES ASSUME ini.verdict = "PASS"
                   PROVE  seenR = 1 .. FRAMES /\ seenI = 1 .. FRAMES /\ res.echoed = FRAMES /\
                          res.verdict # "FAIL"
      BY DEF PassIsMutual
    <2>2. ini.ok >= FRAMES /\ ini.ok < ini.frame
      BY <2>1 DEF RunInv, OkIsSeen
    <2>3. ini.ok = ini.frame - 1 /\ ini.frame - 1 = FRAMES
      BY <1>3, <2>2
    <2>4. 1 .. FRAMES \subseteq seenI
      BY <2>3 DEF RunInv, OkIsSeen
    <2>5. E = 1 .. FRAMES /\ seenI = 1 .. FRAMES /\ seenR = 1 .. FRAMES
      BY <1>1, <1>2, <2>4
    <2>6. Cardinality(1 .. FRAMES) = FRAMES
      BY <1>3, FS_Interval
    <2>7. res.echoed = FRAMES
      BY <1>1, <2>5, <2>6
    <2>8. res.verdict # "FAIL"
      <3>1. res.verdict = "FAIL" => res.echoed < FRAMES
        BY DEF RunInv, FailsShort
      <3> QED BY <1>3, <2>7, <3>1
    <2> QED BY <2>5, <2>7, <2>8
  <1>5. AdoptedOnly
    <2>1. res.pc = "admit" => res.adopted # "rogue"
      BY DEF RunInv, FailsShort
    <2>2. res.adopted = "me" => \A k \in 1 .. Len(airI) : airI[k] # AcceptOf(ROGUE_ATTEMPT)
      <3>1. \A k \in 1 .. Len(airI) : airI[k] \in ForI(E, res.adopted)
        BY <1>1
      <3>2. res.adopted = "me" => AcceptOf(ROGUE_ATTEMPT) \notin ForI(E, res.adopted)
        BY DatagramsForI
      <3> QED BY <3>1, <3>2
    <2> QED BY <2>1, <2>2 DEF AdoptedOnly
  <1> QED BY <1>4, <1>5 DEF VerdictsTrue

(* What the bench run's verdicts say is so (c6-s1-link, xiao-s3-open-link  *)
(* over EspNowLink, RawLink, UdpLink), for all numbers of frames, attempts *)
(* and faults: a PASS of the initiator means that the responder opened and *)
(* echoed every frame once and does not fail the run; and no identity but  *)
(* the adopted is admitted.                                                *)
THEOREM RunVerdictsTrue == RunSpec => []VerdictsTrue
  BY RunStarts, RunKept, VerdictsFollow, PTL DEF RunSpec

-----------------------------------------------------------------------------
(* A queue of one.                                                         *)
LEMMA OneQueued ==
  ASSUME NEW d
  PROVE  <<d>> # <<>> /\ Head(<<d>>) = d /\ Tail(<<d>>) = <<>> /\ Append(<<>>, d) = <<d>>
  OBVIOUS

(* How a step of the initiator leaves the wait for an accept.              *)
LEMMA LeavesAccept ==
  ASSUME RunInv, Initiator
  PROVE  /\ ini'.pc = "accept" => SendHello
         /\ ini.pc = "accept" => ReadAccept \/ AcceptTimeout
         /\ SendHello => ini.pc = "hello" /\ ini'.attempt = ini.attempt
  <1>1. ini \in IniFields
    BY InitiatorFields
  <1>2. \A i : i \in IniFields
              => NextFrame(i).pc \in {"rogue", "send"}
                 /\ [NextFrame(i) EXCEPT !.lost = @ + 1].pc \in {"rogue", "send"}
                 /\ [NextFrame(i) EXCEPT !.ok = @ + 1].pc \in {"rogue", "send"}
    BY DEF NextFrame
  <1>3. CASE SendHello
    BY <1>1, <1>3 DEF SendHello
  <1>4. CASE ReadAccept \/ AcceptTimeout
    <2>1. ini' = AttemptFailed \/ ini' = [ini EXCEPT !.pc = IF carrier = "udp" THEN "done" ELSE "send"]
      BY <1>4 DEF ReadAccept, AcceptTimeout
    <2>2. ini'.pc # "accept"
      BY <1>1, <2>1 DEF AttemptFailed
    <2>3. ini.pc = "accept"
      BY <1>4 DEF ReadAccept, AcceptTimeout
    <2> QED BY <1>4, <2>2, <2>3 DEF SendHello
  <1>5. CASE SendFrame
    <2>1. ini.pc = "send" /\ (ini' = [ini EXCEPT !.pc = "echo"] \/
          ini' = [NextFrame(ini) EXCEPT !.lost = @ + 1])
      BY <1>5 DEF SendFrame
    <2>2. ini'.pc # "accept"
      BY <1>1, <1>2, <2>1
    <2> QED BY <2>1, <2>2 DEF SendHello
  <1>6. CASE ReadEcho \/ EchoTimeout
    <2>1. ini.pc = "echo" /\ (\/ ini' = NextFrame(ini)
                              \/ ini' = [NextFrame(ini) EXCEPT !.lost = @ + 1]
                              \/ ini' = [NextFrame(ini) EXCEPT !.ok = @ + 1])
      BY <1>6 DEF ReadEcho, EchoTimeout
    <2>2. ini'.pc # "accept"
      BY <1>1, <1>2, <2>1
    <2> QED BY <2>1, <2>2 DEF SendHello
  <1>7. CASE SendRogueHello \/ ReadRogueAnswer
    <2>1. ini.pc \in {"rogue", "rogueAccept"}
      BY <1>7 DEF SendRogueHello, ReadRogueAnswer
    <2>2. ini'.pc # "accept"
      BY <1>1, <1>7 DEF SendRogueHello, ReadRogueAnswer, RunVerdict
    <2> QED BY <2>1, <2>2 DEF SendHello
  <1> QED BY <1>3, <1>4, <1>5, <1>6, <1>7 DEF Initiator

(* The queue of a clean attempt after a step.                              *)
LEMMA CleanTryKept ==
  ASSUME RunInv, CleanTryWaits, [RunNext]_runVars
  PROVE  CleanTryWaits'
  <1>1. SUFFICES ASSUME cleanTry', carrier' # "espnow", ini'.pc = "accept"
                 PROVE  \/ /\ res'.pc = "hello" /\ airI' = <<>> /\ inI' = <<>>
                           /\ \/ airR' = <<Hello(ini'.attempt, "me")>> /\ inR' = <<>>
                              \/ airR' = <<>> /\ inR' = <<Hello(ini'.attempt, "me")>>
                        \/ /\ res'.pc = "confirm" /\ airR' = <<>> /\ inR' = <<>>
                           /\ \/ airI' = <<AcceptOf(ini'.attempt)>> /\ inI' = <<>>
                              \/ airI' = <<>> /\ inI' = <<AcceptOf(ini'.attempt)>>
    BY DEF CleanTryWaits
  <1>2. carrier' = carrier
    BY DEF RunNext, Deliver, Lose, Initiator, Responder, SendHello, ReadAccept, AcceptTimeout,
       SendFrame,
           ReadEcho, EchoTimeout, SendRogueHello, ReadRogueAnswer, ReadHello, ReadConfirm,
           HandshakeTimeout, EchoFrame, ResponderTimeout, Refuse, Admit, RefuseTimeout, runVars
  <1>3. CASE Initiator
    <2>1. SendHello /\ ini'.attempt = ini.attempt
      BY <1>1, <1>3, LeavesAccept
    <2>2. /\ airI = <<>> /\ airR = <<>> /\ inR = <<>> /\ res.pc = "hello" /\ inI' = <<>>
          /\ airR' = Append(airR, Hello(ini.attempt, "me")) /\ UNCHANGED <<res, airI, inR>>
      BY <1>1, <1>2, <2>1 DEF SendHello, Drained
    <2> QED BY <2>1, <2>2, OneQueued
  <1>4. PICK a : a = ini.attempt
    OBVIOUS
  <1>5. ASSUME ini' = ini, cleanTry
        PROVE  \/ /\ res.pc = "hello" /\ airI = <<>> /\ inI = <<>>
                  /\ \/ airR = <<Hello(a, "me")>> /\ inR = <<>>
                     \/ airR = <<>> /\ inR = <<Hello(a, "me")>>
               \/ /\ res.pc = "confirm" /\ airR = <<>> /\ inR = <<>>
                  /\ \/ airI = <<AcceptOf(a)>> /\ inI = <<>>
                     \/ airI = <<>> /\ inI = <<AcceptOf(a)>>
    BY <1>1, <1>2, <1>4, <1>5 DEF CleanTryWaits
  <1>6. CASE Deliver
    <2>1. ini' = ini /\ cleanTry /\ res' = res
      BY <1>1, <1>6 DEF Deliver, history
    <2>2. \/ airI # <<>> /\ inI' = Append(inI, Head(airI)) /\ airI' = Tail(airI) /\
             UNCHANGED <<airR, inR>>
          \/ airR # <<>> /\ inR' = Append(inR, Head(airR)) /\ airR' = Tail(airR) /\
             UNCHANGED <<airI, inI>>
      BY <1>6 DEF Deliver
    <2>3. CASE res.pc = "hello"
      <3>1. airR = <<Hello(a, "me")>> /\ inR = <<>> /\ airI = <<>> /\ inI = <<>>
        BY <1>5, <2>1, <2>2, <2>3
      <3>2. airR' = <<>> /\ inR' = <<Hello(a, "me")>> /\ airI' = <<>> /\ inI' = <<>>
        BY <2>2, <3>1, OneQueued
      <3> QED BY <1>4, <2>1, <2>3, <3>2
    <2>4. CASE res.pc # "hello"
      <3>1. airI = <<AcceptOf(a)>> /\ inI = <<>> /\ airR = <<>> /\ inR = <<>> /\ res.pc = "confirm"
        BY <1>5, <2>1, <2>2, <2>4
      <3>2. airI' = <<>> /\ inI' = <<AcceptOf(a)>> /\ airR' = <<>> /\ inR' = <<>>
        BY <2>2, <3>1, OneQueued
      <3> QED BY <1>4, <2>1, <3>1, <3>2
    <2> QED BY <2>3, <2>4
  <1>7. CASE Lose
    BY <1>1, <1>7 DEF Lose
  <1>8. CASE ReadHello
    <2>1. ini' = ini /\ cleanTry /\ inR # <<>> /\ inR' = Tail(inR) /\ UNCHANGED <<airR, inI>>
      BY <1>1, <1>8 DEF ReadHello, history
    <2>2. res.pc = "hello" /\ airI = <<>> /\ inI = <<>> /\ airR = <<>> /\ inR = <<Hello(a, "me")>>
      BY <1>5, <2>1
    <2>3. Head(inR).kind = "hello" /\ Head(inR).n = a /\ inR' = <<>>
      BY <2>1, <2>2, OneQueued DEF Hello
    <2>4. airI' = Append(airI, AcceptOf(a)) /\
          res' = [res EXCEPT !.pc = "confirm", !.pending = a, !.adopted = Head(inR).did]
      BY <1>8, <2>3 DEF ReadHello
    <2>5. res'.pc = "confirm"
      BY <2>4, NothingEchoed DEF ResFields
    <2> QED BY <1>4, <2>1, <2>2, <2>3, <2>4, <2>5, OneQueued
  <1>9. CASE ReadConfirm
    <2>1. ini' = ini /\ cleanTry /\ inR # <<>> /\ res.pc = "confirm"
      BY <1>1, <1>9 DEF ReadConfirm, history
    <2> QED BY <1>5, <2>1
  <1>10. CASE HandshakeTimeout
    <2>1. ini' = ini /\ cleanTry /\ res.pc = "confirm" /\ Quiet
      BY <1>1, <1>10 DEF HandshakeTimeout
    <2>2. airI = <<AcceptOf(a)>> \/ inI = <<AcceptOf(a)>>
      BY <1>5, <2>1
    <2>3. airI # <<>> \/ inI # <<>>
      BY <2>2, OneQueued
    <2> QED BY <1>1, <2>1, <2>3 DEF Quiet
  <1>11. CASE EchoFrame \/ ResponderTimeout \/ Refuse \/ Admit \/ RefuseTimeout
    <2>1. ini' = ini /\ cleanTry /\ res.pc \in {"echo", "refuse", "admit"}
      BY <1>1, <1>11 DEF EchoFrame, ResponderTimeout, Refuse, Admit, RefuseTimeout, history
    <2> QED BY <1>5, <2>1
  <1>12. CASE UNCHANGED runVars
    <2>1. UNCHANGED <<ini, res, airI, airR, inI, inR, cleanTry>>
      BY <1>12 DEF runVars
    <2> QED BY <1>1, <1>4, <1>5, <2>1
  <1> QED BY <1>3, <1>6, <1>7, <1>8, <1>9, <1>10, <1>11, <1>12 DEF RunNext, Responder

(* A late accept costs the attempt that timed out, not the ones after it   *)
(* (UdpLink and RawLink drain before a hello), for all numbers of frames,  *)
(* attempts and faults.                                                    *)
THEOREM CleanAttemptsSucceed == RunSpec => CleanAttemptSucceeds
  <1>1. RunInit => CleanTryWaits
    BY DEF RunInit, CleanTryWaits
  <1>2. RunInv /\ CleanTryWaits /\ [RunNext]_runVars => CleanTryWaits'
    BY CleanTryKept
  <1>3. ASSUME RunInv, CleanTryWaits, [RunNext]_runVars,
               carrier # "espnow", ini.pc = "accept", ini'.pc \in {"hello", "done"}, cleanTry, cleanTry'
        PROVE  ini'.verdict # "FAIL" /\ ini'.attempt = ini.attempt
    <2>1. ini \in IniFields
      BY <1>3, InitiatorFields
    <2>2. ini' # ini
      BY <1>3
    <2>3. Initiator
      BY <1>3, <2>2 DEF RunNext, Deliver, Lose, Responder, ReadHello, ReadConfirm,
         HandshakeTimeout, EchoFrame,
                  ResponderTimeout, Refuse, Admit, RefuseTimeout, runVars
    <2>4. ReadAccept \/ AcceptTimeout
      BY <1>3, <2>3, LeavesAccept
    <2>5. PICK a : a = ini.attempt
      OBVIOUS
    <2>6. CASE AcceptTimeout
      <3>1. Quiet /\ inI = <<>>
        BY <1>3, <2>6 DEF AcceptTimeout
      <3>2. airI = <<>> /\ airR = <<>> /\ (inR = <<>> \/ res.pc = "done")
        BY <3>1 DEF Quiet
      <3>3. \/ res.pc = "hello" /\ (airR = <<Hello(a, "me")>> \/ inR = <<Hello(a, "me")>>)
            \/ res.pc = "confirm" /\ (airI = <<AcceptOf(a)>> \/ inI = <<AcceptOf(a)>>)
        BY <1>3, <2>5 DEF CleanTryWaits
      <3> QED BY <3>1, <3>2, <3>3, OneQueued
    <2>7. CASE ReadAccept
      <3>1. inI # <<>>
        BY <2>7 DEF ReadAccept
      <3>2. inI = <<AcceptOf(a)>>
        BY <1>3, <2>5, <3>1 DEF CleanTryWaits
      <3>3. Head(inI) = AcceptOf(ini.attempt)
        BY <2>5, <3>2, OneQueued
      <3>4. ini' = [ini EXCEPT !.pc = IF carrier = "udp" THEN "done" ELSE "send"]
        BY <2>7, <3>3 DEF ReadAccept
      <3>5. ini.verdict # "FAIL"
        BY <1>3 DEF RunInv, OkIsSeen
      <3> QED BY <2>1, <3>4, <3>5
    <2> QED BY <2>4, <2>6, <2>7
  <1> QED BY <1>1, <1>2, <1>3, RunStarts, RunKept, PTL DEF RunSpec, CleanAttemptSucceeds

HIDE DEF IniFields

-----------------------------------------------------------------------------
(* The station on the open MAC *)

(* A set of naturals with a member has a least one. *)
LEMMA LeastOfNaturals ==
  ASSUME NEW T \in SUBSET Nat, T # {}
  PROVE  \E m \in T : \A n \in T : m <= n
  <1>1. IsWellFoundedOn({p \in Nat \X Nat : p[1] < p[2]}, Nat)
    BY NatLessThanWellFounded DEF OpToRel
  <1>2. PICK m \in T : \A n \in T : ~(<<n, m>> \in {p \in Nat \X Nat : p[1] < p[2]})
    BY <1>1, WFMin
  <1>3. ASSUME NEW n \in T PROVE m <= n
    <2>1. m \in Nat /\ n \in Nat /\ ~(<<n, m>> \in {p \in Nat \X Nat : p[1] < p[2]})
      BY <1>2
    <2> QED BY <2>1
  <1> QED BY <1>3

(* Among the first rungs there is a best one, the last of the equals. *)
LEMMA BestAmong ==
  ASSUME NEW K \in [Rungs -> Int], NEW n \in Rungs
  PROVE  \E r \in 0..n : \A s \in 0..n : K[r] > K[s] \/ (K[r] = K[s] /\ r >= s)
  <1> DEFINE Good(m, r) == \A s \in 0..m : K[r] > K[s] \/ (K[r] = K[s] /\ r >= s)
             Bad == {m \in Rungs : ~\E r \in 0..m : Good(m, r)}
  <1> SUFFICES ASSUME Bad # {} PROVE FALSE
    OBVIOUS
  <1>1. Bad \in SUBSET Nat
    BY StationAssumption DEF Rungs
  <1>2. PICK m \in Bad : \A k \in Bad : m <= k
    BY <1>1, LeastOfNaturals
  <1>3. m \in Rungs /\ ~\E r \in 0..m : Good(m, r)
    OBVIOUS
  <1> HIDE DEF Bad
  <1>4. m \in Nat /\ m <= RUNGS - 1
    BY <1>3, StationAssumption DEF Rungs
  <1>5. CASE m = 0
    <2>1. K[0] \in Int
      BY <1>3, <1>5
    <2>2. Good(m, 0)
      BY <2>1, <1>5
    <2> QED BY <1>3, <1>4, <1>5, <2>2
  <1>6. CASE m # 0
    <2>1. m - 1 \in Rungs
      BY <1>4, <1>6, StationAssumption DEF Rungs
    <2>2. m - 1 \notin Bad
      BY <1>2, <1>4
    <2>3. PICK r \in 0..(m - 1) : Good(m - 1, r)
      BY <2>1, <2>2 DEF Bad
    <2>4. r \in 0..m /\ m \in 0..m
      BY <1>4
    <2>5. \A s \in 0..m : s \in Rungs /\ K[s] \in Int /\ (s \in 0..(m - 1) \/ s = m)
      BY <1>4, StationAssumption DEF Rungs
    <2>6. CASE K[r] > K[m]
      <3>1. Good(m, r)
        BY <2>3, <2>4, <2>5, <2>6
      <3> QED BY <1>3, <2>4, <3>1
    <2>7. CASE ~(K[r] > K[m])
      <3>1. ASSUME NEW s \in 0..m PROVE K[m] > K[s] \/ (K[m] = K[s] /\ m >= s)
        <4>1. CASE s = m
          BY <4>1, <2>5, <2>4
        <4>2. CASE s \in 0..(m - 1)
          <5>1. K[r] > K[s] \/ (K[r] = K[s] /\ r >= s)
            BY <2>3, <4>2
          <5>2. K[r] \in Int /\ K[s] \in Int /\ K[m] \in Int /\ s \in Nat /\ r \in Nat
            BY <2>4, <2>5
          <5> QED BY <5>1, <5>2, <2>7, <1>4
        <4> QED BY <4>1, <4>2, <2>5
      <3>2. Good(m, m)
        BY <3>1
      <3> QED BY <1>3, <2>4, <3>2
    <2> QED BY <2>6, <2>7
  <1> QED BY <1>5, <1>6

(* The links an association may allow, and the rates of a ladder.          *)
LinkRange == -1..(RUNGS - 1)
LadderRates == [ht : BOOLEAN, speed : Rungs]

Thresholds == [index : Rungs, goodRun : Nat]
Sampleds == [index : Rungs, probing : Rungs \cup {NoRung}, since : Nat, up : BOOLEAN,
             goodput : [Rungs -> Int]]
Expecteds == [index : Rungs, prob : [Rungs -> Int], pending : [Rungs -> Nat \X Nat],
              overhead : Nat, step : 0..3]

(* The greater and the smaller of two numbers. *)
LEMMA PairMax == ASSUME NEW a \in Int, NEW b \in Int
                 PROVE  /\ Max({a, b}) \in {a, b} /\ Max({a, b}) >= a /\ Max({a, b}) >= b
                        /\ Min({a, b}) \in {a, b} /\ Min({a, b}) <= a /\ Min({a, b}) <= b
  <1>1. Max({a, b}) \in {a, b} /\ Max({a, b}) >= a /\ Max({a, b}) >= b
    <2>1. \E x \in {a, b} : \A y \in {a, b} : x >= y
      <3>1. CASE a >= b
        BY <3>1
      <3>2. CASE ~(a >= b)
        BY <3>2
      <3> QED BY <3>1, <3>2
    <2> QED BY <2>1 DEF Max
  <1>2. Min({a, b}) \in {a, b} /\ Min({a, b}) <= a /\ Min({a, b}) <= b
    <2>1. \E x \in {a, b} : \A y \in {a, b} : x <= y
      <3>1. CASE a <= b
        BY <3>1
      <3>2. CASE ~(a <= b)
        BY <3>2
      <3> QED BY <3>1, <3>2
    <2> QED BY <2>1 DEF Min
  <1> QED BY <1>1, <1>2

(* A rung's rate is one of the ladder's, never NoRate. *)
LEMMA LadderType ==
  ASSUME NEW link \in LinkRange, NEW rung \in Rungs
  PROVE  /\ LadderRate(link, rung) \in LadderRates
         /\ LadderRate(link, rung) # NoRate
         /\ LadderRate(link, rung).ht <=> link >= 0
         /\ LadderRate(link, rung).speed \in Rungs
  <1>1. link \in Int /\ rung \in Int /\ rung >= 0 /\ rung <= RUNGS - 1 /\ link <= RUNGS - 1
    BY StationAssumption DEF LinkRange, Rungs
  <1>2. CASE link < 0
    <2>1. LadderRate(link, rung) = [ht |-> FALSE, speed |-> RUNGS - 1 - rung]
      BY <1>2 DEF LadderRate
    <2>2. RUNGS - 1 - rung \in Rungs /\ RUNGS - 1 - rung # -1
      BY <1>1, StationAssumption DEF Rungs
    <2> QED BY <1>1, <1>2, <2>1, <2>2 DEF LadderRates, NoRate
  <1>3. CASE ~(link < 0)
    <2>1. LadderRate(link, rung) = [ht |-> TRUE, speed |-> Max({link - rung, 0})]
      BY <1>3 DEF LadderRate
    <2>2. Max({link - rung, 0}) \in Rungs
      <3>1. link - rung \in Int
        BY <1>1
      <3>2. Max({link - rung, 0}) \in {link - rung, 0} /\ Max({link - rung, 0}) >= 0
        BY <3>1, PairMax
      <3> QED BY <1>1, <1>3, <3>2, StationAssumption DEF Rungs
    <2> QED BY <1>1, <1>3, <2>1, <2>2 DEF LadderRates, NoRate
  <1> QED BY <1>2, <1>3

(* Any two links below zero are 802.11g's. *)
LEMMA LadderG ==
  ASSUME NEW link \in LinkRange, NEW rung, link < 0
  PROVE  LadderRate(link, rung) = LadderRate(-1, rung)
  BY DEF LadderRate

GoodShare(frames, ok) == (ok * 1000) \div frames > RATE_UP_ABOVE_PERMILLE

(* RateControl::tick with too few frames to judge by. *)
LEMMA ThresholdIdle ==
  ASSUME NEW c, NEW frames, frames < RATE_MIN_FRAMES, NEW ok
  PROVE  ThresholdTick(c, frames, ok) = Stay(c)
  BY DEF ThresholdTick

(* RateControl::tick otherwise: down, a good second counted, up, nothing,  *)
(* or the run broken.                                                      *)
LEMMA ThresholdBusy ==
  ASSUME NEW c \in Thresholds, NEW frames \in Nat, NEW ok \in Nat, frames >= RATE_MIN_FRAMES,
         NEW t, t = ThresholdTick(c, frames, ok)
  PROVE  \/ /\ c.index + 1 \in Rungs
            /\ t = Ask([index |-> c.index + 1, goodRun |-> 0], c.index + 1)
         \/ /\ GoodShare(frames, ok) /\ c.goodRun + 1 < RATE_UP_AFTER
            /\ t = Stay([c EXCEPT !.goodRun = c.goodRun + 1])
         \/ /\ c.goodRun + 1 >= RATE_UP_AFTER /\ c.index - 1 \in Rungs
            /\ t = Ask([index |-> c.index - 1, goodRun |-> 0], c.index - 1)
         \/ GoodShare(frames, ok) /\ t = Stay(c)
         \/ t = Stay([c EXCEPT !.goodRun = 0])
  <1>0. c.goodRun \in Nat /\ c.index \in Nat /\ c.index <= RUNGS - 1
    BY StationAssumption DEF Thresholds, Rungs
  <1>1. PICK permille \in Int : permille = (ok * 1000) \div frames
    BY DEF RATE_MIN_FRAMES
  <1>2. PICK good \in BOOLEAN : good <=> permille > RATE_UP_ABOVE_PERMILLE
    OBVIOUS
  <1>3. good <=> GoodShare(frames, ok)
    BY <1>1, <1>2 DEF GoodShare
  <1>4. t = IF permille < RATE_DOWN_BELOW_PERMILLE /\ c.index + 1 < RUNGS
            THEN Ask([index |-> c.index + 1, goodRun |-> 0], c.index + 1)
            ELSE IF good /\ c.index > 0 /\ c.goodRun + 1 < RATE_UP_AFTER
            THEN Stay([c EXCEPT !.goodRun = @ + 1])
            ELSE IF good /\ c.index > 0
            THEN Ask([index |-> c.index - 1, goodRun |-> 0], c.index - 1)
            ELSE Stay(IF good THEN c ELSE [c EXCEPT !.goodRun = 0])
    BY <1>1, <1>2 DEF ThresholdTick, RATE_MIN_FRAMES
  <1>5. /\ c.index + 1 < RUNGS => c.index + 1 \in Rungs
        /\ c.index > 0 => c.index - 1 \in Rungs
        /\ ~(c.goodRun + 1 < RATE_UP_AFTER) => c.goodRun + 1 >= RATE_UP_AFTER
    <2>1. PICK i, g \in Nat : i = c.index /\ g = c.goodRun
      BY <1>0
    <2>2. i <= RUNGS - 1 /\ RUNGS \in Nat /\ RATE_UP_AFTER \in Nat
      BY <1>0, <2>1, StationAssumption
    <2>3. i + 1 < RUNGS => i + 1 \in Rungs
      BY <2>2 DEF Rungs
    <2>4. i > 0 => i - 1 \in Rungs
      BY <2>2 DEF Rungs
    <2> QED BY <2>1, <2>2, <2>3, <2>4
  <1> QED BY <1>3, <1>4, <1>5

(* What a control that asks for a rung hands to its caller. *)
LEMMA AskFields ==
  ASSUME NEW c, NEW rung
  PROVE  Ask(c, rung).control = c /\ Ask(c, rung).rate = LadderRate(-1, rung)
  BY DEF Ask

(* What a control that asks for nothing hands to its caller. *)
LEMMA StayFields ==
  ASSUME NEW c
  PROVE  Stay(c).control = c /\ Stay(c).rate = NoRate
  BY DEF Stay

(* The control stays on the ladder, and the driver's rate follows it. *)
LEMMA ThresholdType ==
  ASSUME NEW c \in Thresholds, NEW frames \in Nat, NEW ok \in Nat,
         NEW t, t = ThresholdTick(c, frames, ok)
  PROVE  /\ t.control \in Thresholds
         /\ \/ t.rate = NoRate /\ t.control.index = c.index
            \/ t.rate = LadderRate(-1, t.control.index)
  <1>0. c.goodRun \in Nat
    BY DEF Thresholds
  <1>1. ASSUME NEW d, t = Stay(d), d \in Thresholds, d.index = c.index
        PROVE  t.control \in Thresholds /\ t.rate = NoRate /\ t.control.index = c.index
    BY <1>1, StayFields
  <1>2. ASSUME NEW rung \in Rungs, t = Ask([index |-> rung, goodRun |-> 0], rung)
        PROVE  t.control \in Thresholds /\ t.rate = LadderRate(-1, t.control.index)
    <2>1. t.control = [index |-> rung, goodRun |-> 0] /\ t.rate = LadderRate(-1, rung)
      BY <1>2, AskFields
    <2>2. t.control \in Thresholds /\ t.control.index = rung
      BY <2>1 DEF Thresholds
    <2> QED BY <2>1, <2>2
  <1>3. \A n \in Nat : [c EXCEPT !.goodRun = n] \in Thresholds /\
        [c EXCEPT !.goodRun = n].index = c.index
    BY DEF Thresholds
  <1>4. CASE frames < RATE_MIN_FRAMES
    BY <1>1, <1>4, ThresholdIdle
  <1>5. CASE frames >= RATE_MIN_FRAMES
    <2>1. CASE \E rung \in Rungs : t = Ask([index |-> rung, goodRun |-> 0], rung)
      BY <1>2, <2>1
    <2>2. CASE \E n \in Nat : t = Stay([c EXCEPT !.goodRun = n])
      BY <1>1, <1>3, <2>2
    <2>3. CASE t = Stay(c)
      BY <1>1, <2>3
    <2>4. c.goodRun + 1 \in Nat
      BY <1>0
    <2>5. CASE c.index + 1 \in Rungs /\ t = Ask([index |-> c.index + 1, goodRun |-> 0], c.index + 1)
      BY <2>1, <2>5
    <2>6. CASE t = Stay([c EXCEPT !.goodRun = c.goodRun + 1])
      BY <2>2, <2>4, <2>6
    <2>7. CASE c.index - 1 \in Rungs /\ t = Ask([index |-> c.index - 1, goodRun |-> 0], c.index - 1)
      BY <2>1, <2>7
    <2>8. CASE t = Stay([c EXCEPT !.goodRun = 0])
      BY <2>2, <2>8
    <2> QED BY <1>5, <2>3, <2>5, <2>6, <2>7, <2>8, ThresholdBusy
  <1> QED BY <1>4, <1>5 DEF RATE_MIN_FRAMES

(* Its run of good seconds grows by one with a good second, and it goes    *)
(* faster only at the end of one.                                          *)
LEMMA ThresholdRun ==
  ASSUME NEW c \in Thresholds, NEW frames \in Nat, NEW ok \in Nat, frames >= RATE_MIN_FRAMES,
         NEW t, t = ThresholdTick(c, frames, ok)
  PROVE  /\ \/ t.control.goodRun = 0
            \/ /\ GoodShare(frames, ok) /\ t.rate = NoRate
               /\ \/ t.control.goodRun = c.goodRun
                  \/ t.control.goodRun = c.goodRun + 1 /\ c.goodRun + 1 < RATE_UP_AFTER
         /\ t.control.index < c.index => c.goodRun + 1 >= RATE_UP_AFTER
  <1>0. c.goodRun \in Nat /\ c.index \in Int
    BY StationAssumption DEF Thresholds, Rungs
  <1>1. ASSUME NEW rung, t = Ask([index |-> rung, goodRun |-> 0], rung)
        PROVE  t.control.goodRun = 0 /\ t.control.index = rung
    BY <1>1, AskFields
  <1>2. ASSUME NEW n, t = Stay([c EXCEPT !.goodRun = n])
        PROVE  t.control.goodRun = n /\ t.rate = NoRate /\ t.control.index = c.index
    <2>1. [c EXCEPT !.goodRun = n].goodRun = n /\ [c EXCEPT !.goodRun = n].index = c.index
      BY DEF Thresholds
    <2> QED BY <1>2, <2>1, StayFields
  <1>3. CASE t = Ask([index |-> c.index + 1, goodRun |-> 0], c.index + 1)
    BY <1>0, <1>1, <1>3
  <1>4. CASE /\ GoodShare(frames, ok) /\ c.goodRun + 1 < RATE_UP_AFTER
             /\ t = Stay([c EXCEPT !.goodRun = c.goodRun + 1])
    BY <1>0, <1>2, <1>4
  <1>5. CASE /\ c.goodRun + 1 >= RATE_UP_AFTER
             /\ t = Ask([index |-> c.index - 1, goodRun |-> 0], c.index - 1)
    BY <1>0, <1>1, <1>5
  <1>6. CASE GoodShare(frames, ok) /\ t = Stay(c)
    BY <1>0, <1>6, StayFields
  <1>7. CASE t = Stay([c EXCEPT !.goodRun = 0])
    <2>1. t.control.goodRun = 0 /\ t.control.index = c.index
      BY <1>2, <1>7, Zenon
    <2> QED BY <1>0, <2>1
  <1> QED BY <1>3, <1>4, <1>5, <1>6, <1>7, ThresholdBusy

(* The neighbour a probe tries is on the ladder. *)
LEMMA NeighbourType ==
  ASSUME NEW c \in Sampleds
  PROVE  Neighbour(c) \in Rungs
  <1>1. c.index \in Int /\ c.index >= 0 /\ c.index <= RUNGS - 1
    BY StationAssumption DEF Sampleds, Rungs
  <1> QED BY <1>1, StationAssumption DEF Neighbour, Rungs

(* The rung a sampled control has the driver at. *)
Active(c) == IF c.probing # NoRung THEN c.probing ELSE c.index

(* SampledRate::tick stays on the ladder, and asks the driver for the rung *)
(* it then believes in, or for nothing and believes what it did.           *)
LEMMA SampledStep ==
  ASSUME NEW c \in Sampleds, NEW frames \in Nat, NEW ok \in Nat, NEW kbps \in Int
  PROVE  LET t == SampledTick(c, frames, ok, kbps)
         IN  /\ t.control \in Sampleds
             /\ \/ t.rate = NoRate /\ t.control.index = c.index /\ t.control.probing = c.probing
                \/ t.rate = LadderRate(-1, Active(t.control))
  <1>0. /\ c.index \in Rungs /\ c.probing \in Rungs \cup {NoRung} /\ c.since \in Nat
        /\ c.up \in BOOLEAN /\ c.goodput \in [Rungs -> Int]
        /\ c.index \in Nat /\ c.index <= RUNGS - 1 /\ NoRung \notin Rungs
    BY StationAssumption DEF Sampleds, Rungs, NoRung
  <1>1. CASE ~(frames >= RATE_MIN_FRAMES)
    BY <1>1 DEF SampledTick, Stay
  <1>2. CASE frames >= RATE_MIN_FRAMES
    <2>1. PICK active : active = IF c.probing = NoRung THEN c.index ELSE c.probing
      OBVIOUS
    <2>2. active \in Rungs /\ c.goodput[active] \in Int
      BY <1>0, <2>1
    <2>3. PICK blended : blended = IF c.probing # NoRung \/ c.goodput[active] = 0
                                   THEN kbps ELSE (c.goodput[active] * 3 + kbps) \div 4
      OBVIOUS
    <2>4. blended \in Int
      BY <2>2, <2>3
    <2>5. PICK seen : seen = [c EXCEPT !.goodput[active] = blended]
      OBVIOUS
    <2>6. /\ seen \in Sampleds /\ seen.index = c.index /\ seen.probing = c.probing
          /\ seen.since = c.since
      BY <1>0, <2>2, <2>4, <2>5 DEF Sampleds
    <2>7. PICK probe : probe = Neighbour(c)
      OBVIOUS
    <2>8. probe \in Rungs
      BY <2>7, NeighbourType
    <2>9. SampledTick(c, frames, ok, kbps) =
            IF c.probing # NoRung
            THEN Settle([seen EXCEPT !.probing = NoRung],
                        IF seen.goodput[c.probing] * 1000 > seen.goodput[c.index] * PROBE_WIN_PERMILLE
                        THEN c.probing ELSE c.index)
            ELSE IF (ok * 1000) \div frames < RATE_COLLAPSE_BELOW_PERMILLE /\ c.index + 1 < RUNGS
            THEN Settle(seen, c.index + 1)
            ELSE IF c.since + 1 < PROBE_EVERY THEN Stay([seen EXCEPT !.since = @ + 1])
            ELSE Ask([seen EXCEPT !.since = 0, !.up = ~@, !.probing = probe], probe)
      BY <1>2, <2>1, <2>3, <2>5, <2>7 DEF SampledTick
    <2>10. ASSUME NEW d \in Sampleds, NEW rung \in Rungs, d.probing = NoRung,
                  SampledTick(c, frames, ok, kbps) = Settle(d, rung)
           PROVE  LET t == SampledTick(c, frames, ok, kbps)
                  IN  t.control \in Sampleds /\ t.rate = LadderRate(-1, Active(t.control))
      <3>1. PICK e : e = [d EXCEPT !.index = rung, !.since = 0]
        OBVIOUS
      <3>2. e \in Sampleds /\ e.index = rung /\ e.probing = NoRung
        BY <2>10, <3>1 DEF Sampleds
      <3>3. SampledTick(c, frames, ok, kbps) = [control |-> e, rate |-> LadderRate(-1, rung)]
        BY <2>10, <3>1 DEF Settle, Ask
      <3>4. Active(e) = rung
        BY <3>2 DEF Active
      <3> QED BY <3>2, <3>3, <3>4
    <2>11. CASE c.probing # NoRung
      <3>1. PICK rung : rung = IF seen.goodput[c.probing] * 1000 > seen.goodput[c.index] * PROBE_WIN_PERMILLE
                               THEN c.probing ELSE c.index
        OBVIOUS
      <3>2. rung \in Rungs
        BY <1>0, <2>11, <3>1
      <3>3. PICK d : d = [seen EXCEPT !.probing = NoRung]
        OBVIOUS
      <3>4. d \in Sampleds /\ d.probing = NoRung
        BY <2>6, <3>3 DEF Sampleds
      <3>5. SampledTick(c, frames, ok, kbps) = Settle(d, rung)
        BY <2>9, <2>11, <3>1, <3>3
      <3> QED BY <2>10, <3>2, <3>4, <3>5
    <2>12. CASE c.probing = NoRung /\ (ok * 1000) \div frames < RATE_COLLAPSE_BELOW_PERMILLE
                /\ c.index + 1 < RUNGS
      <3>1. c.index + 1 \in Rungs
        <4>1. c.index + 1 \in Nat /\ c.index + 1 <= RUNGS - 1 /\ RUNGS \in Nat
          BY <1>0, <2>12, StationAssumption
        <4> QED BY <4>1 DEF Rungs
      <3>2. SampledTick(c, frames, ok, kbps) = Settle(seen, c.index + 1)
        BY <2>9, <2>12
      <3> QED BY <2>6, <2>10, <2>12, <3>1, <3>2
    <2>13. CASE /\ c.probing = NoRung
                /\ ~((ok * 1000) \div frames < RATE_COLLAPSE_BELOW_PERMILLE /\ c.index + 1 < RUNGS)
                /\ c.since + 1 < PROBE_EVERY
      <3>1. PICK d : d = [seen EXCEPT !.since = seen.since + 1]
        OBVIOUS
      <3>2. d \in Sampleds /\ d.probing = c.probing /\ d.index = c.index
        BY <2>6, <3>1 DEF Sampleds
      <3>3. SampledTick(c, frames, ok, kbps) = Stay(d)
        BY <2>9, <2>13, <3>1
      <3> QED BY <3>2, <3>3 DEF Stay
    <2>14. CASE /\ c.probing = NoRung
                /\ ~((ok * 1000) \div frames < RATE_COLLAPSE_BELOW_PERMILLE /\ c.index + 1 < RUNGS)
                /\ ~(c.since + 1 < PROBE_EVERY)
      <3>1. PICK d : d = [seen EXCEPT !.since = 0, !.up = ~seen.up, !.probing = probe]
        OBVIOUS
      <3>2. d \in Sampleds /\ d.probing = probe
        BY <2>6, <2>8, <3>1 DEF Sampleds
      <3>3. SampledTick(c, frames, ok, kbps) = Ask(d, probe)
        BY <2>9, <2>14, <3>1
      <3> QED BY <1>0, <2>8, <3>2, <3>3 DEF Ask, Active
    <2> QED BY <2>11, <2>12, <2>13, <2>14
  <1> QED BY <1>1, <1>2

(* Expected throughput is a number at every rung. *)
LEMMA ThroughputType ==
  ASSUME NEW c \in Expecteds, NEW link \in LinkRange, NEW rung \in Rungs
  PROVE  ExpectedKbps(c, link, rung) \in Int
  <1>1. c.prob[rung] \in Int /\ c.overhead \in Nat
    BY DEF Expecteds
  <1>2. PICK speed : speed = LadderRate(link, rung).speed
    OBVIOUS
  <1>3. AirtimeOf[speed] \in Nat \ {0}
    BY <1>2, LadderType, StationAssumption DEF Rungs
  <1>4. PICK a \in Nat : a = AirtimeOf[speed] + c.overhead /\ a > 0
    BY <1>1, <1>3
  <1>5. (c.prob[rung] * 12000) \div a \in Int
    BY <1>1, <1>4
  <1> QED BY <1>2, <1>4, <1>5 DEF ExpectedKbps, Throughput

(* The rung ExpectedRate likes best is on the ladder. *)
LEMMA BestType ==
  ASSUME NEW c \in Expecteds, NEW link \in LinkRange
  PROVE  Best(c, link) \in Rungs
  <1>0. c.index \in Nat /\ c.index <= RUNGS - 1
    BY StationAssumption DEF Expecteds, Rungs
  <1>1. PICK K : K = [r \in Rungs |-> ExpectedKbps(c, link, r)]
    OBVIOUS
  <1>2. K \in [Rungs -> Int]
    BY <1>1, ThroughputType
  <1>3. RUNGS - 1 \in Rungs /\ 0..(RUNGS - 1) = Rungs
    BY StationAssumption DEF Rungs
  <1>4. \E r \in Rungs : \A s \in Rungs : K[r] > K[s] \/ (K[r] = K[s] /\ r >= s)
    BY <1>2, <1>3, BestAmong
  <1>5. \E r \in Rungs : \A s \in Rungs : ExpectedKbps(c, link, r) > ExpectedKbps(c, link, s)
                            \/ (ExpectedKbps(c, link, r) = ExpectedKbps(c, link, s) /\ r >= s)
    BY <1>1, <1>4
  <1>6. PICK best : best = CHOOSE r \in Rungs : \A s \in Rungs :
                              ExpectedKbps(c, link, r) > ExpectedKbps(c, link, s)
                                \/ (ExpectedKbps(c, link, r) = ExpectedKbps(c, link, s) /\ r >= s)
    OBVIOUS
  <1>7. best \in Rungs
    BY <1>5, <1>6
  <1>8. Best(c, link) = IF /\ c.prob[c.index] \in 0..(RATE_COLLAPSE_BELOW_PERMILLE - 1)
                           /\ c.index + 1 < RUNGS
                           /\ ExpectedKbps(c, link, best) <= ExpectedKbps(c, link, c.index)
                        THEN c.index + 1 ELSE best
    BY <1>6 DEF Best
  <1>9. c.index + 1 < RUNGS => c.index + 1 \in Rungs
    BY <1>0, StationAssumption DEF Rungs
  <1> QED BY <1>7, <1>8, <1>9

(* The next sample is on the ladder: of four offsets one always is. *)
LEMMA NextSampleType ==
  ASSUME NEW c \in Expecteds
  PROVE  NextSample(c).rung \in Rungs /\ NextSample(c).step \in 0..3
  <1> DEFINE offset(k) == c.index + OFFSETS[((c.step + k) % 4) + 1]
  <1>0. /\ c.index \in Nat /\ c.index <= RUNGS - 1 /\ RUNGS \in Nat /\ RUNGS > 1
        /\ c.step \in {0, 1, 2, 3}
    BY StationAssumption DEF Expecteds, Rungs
  <1>1. \A k \in 0..3 : (c.step + k) % 4 \in {0, 1, 2, 3}
    BY <1>0
  <1>2. /\ OFFSETS[1] = -1 /\ OFFSETS[2] = 1 /\ OFFSETS[3] = -2 /\ OFFSETS[4] = 2
    BY DEF OFFSETS
  <1>3. \E k \in 0..3 : offset(k) \in Rungs
    <2>1. c.index - 1 \in Rungs \/ c.index + 1 \in Rungs
      BY <1>0 DEF Rungs
    <2>2. \E k \in 0..3 : (c.step + k) % 4 = 0
      BY <1>0
    <2>3. \E k \in 0..3 : (c.step + k) % 4 = 1
      BY <1>0
    <2>4. c.index + -1 = c.index - 1
      BY <1>0
    <2> QED BY <1>2, <2>1, <2>2, <2>3, <2>4
  <1>4. \E k \in 0..3 : offset(k) \in Rungs /\ \A j \in 0..(k - 1) : offset(j) \notin Rungs
    <2> DEFINE T == {k \in 0..3 : offset(k) \in Rungs}
    <2>1. PICK k \in T : \A j \in T : k <= j
      BY <1>3, LeastOfNaturals
    <2>2. \A j \in 0..(k - 1) : j \in 0..3 /\ ~(k <= j)
      OBVIOUS
    <2> QED BY <2>1, <2>2
  <1>5. PICK k : k = CHOOSE i \in 0..3 :
                       offset(i) \in Rungs /\ \A j \in 0..(i - 1) : offset(j) \notin Rungs
    OBVIOUS
  <1>6. k \in 0..3 /\ offset(k) \in Rungs
    BY <1>4, <1>5
  <1>7. NextSample(c) = [rung |-> offset(k), step |-> (c.step + k + 1) % 4]
    BY <1>5 DEF NextSample
  <1>8. (c.step + k + 1) % 4 \in 0..3
    BY <1>0, <1>6
  <1> QED BY <1>6, <1>7, <1>8

(* ExpectedRate::tick, second half: the driver is asked for the rung moved *)
(* to, the sample is of this link's ladder, and what was measured stays.   *)
LEMMA ChosenStep ==
  ASSUME NEW c \in Expecteds, NEW link \in LinkRange
  PROVE  LET t == Chosen(c, link)
         IN  /\ t.control \in Expecteds
             /\ t.control.prob = c.prob /\ t.control.pending = c.pending
             /\ \/ t.rate = NoRate /\ t.control.index = c.index
                \/ t.rate = LadderRate(link, t.control.index)
             /\ t.sample \in LadderRates /\ (t.sample.ht <=> link >= 0)
  <1>1. PICK best : best = Best(c, link)
    OBVIOUS
  <1>2. best \in Rungs
    BY <1>1, BestType
  <1>3. PICK moved \in BOOLEAN : moved =
          (/\ best # c.index
           /\ \/ /\ c.prob[c.index] \in 0..(RATE_COLLAPSE_BELOW_PERMILLE - 1)
                 /\ c.index + 1 < RUNGS
              \/ ExpectedKbps(c, link, best) * 1000
                   > ExpectedKbps(c, link, c.index) * EXPECT_WIN_PERMILLE)
    OBVIOUS
  <1>4. PICK placed : placed = IF moved THEN [c EXCEPT !.index = best] ELSE c
    OBVIOUS
  <1>5. /\ placed \in Expecteds /\ placed.prob = c.prob /\ placed.pending = c.pending
        /\ placed.index = IF moved THEN best ELSE c.index
    BY <1>2, <1>4 DEF Expecteds
  <1>6. PICK next : next = NextSample(placed)
    OBVIOUS
  <1>7. next.rung \in Rungs /\ next.step \in 0..3
    BY <1>5, <1>6, NextSampleType
  <1>8. Chosen(c, link) = [control |-> [placed EXCEPT !.step = next.step],
                           rate    |-> IF moved THEN LadderRate(link, best) ELSE NoRate,
                           sample  |-> LadderRate(link, next.rung)]
    BY <1>1, <1>3, <1>4, <1>6 DEF Chosen
  <1>9. PICK d : d = [placed EXCEPT !.step = next.step]
    OBVIOUS
  <1>10. /\ d \in Expecteds /\ d.prob = c.prob /\ d.pending = c.pending
         /\ d.index = placed.index
    BY <1>5, <1>7, <1>9 DEF Expecteds
  <1>11. /\ LadderRate(link, next.rung) \in LadderRates
         /\ LadderRate(link, next.rung).ht <=> link >= 0
    BY <1>7, LadderType
  <1>12. PICK t : t = Chosen(c, link)
    OBVIOUS
  <1>13. t.control = d /\ t.sample = LadderRate(link, next.rung)
         /\ t.rate = IF moved THEN LadderRate(link, best) ELSE NoRate
    BY <1>8, <1>9, <1>12
  <1>14. \/ t.rate = NoRate /\ t.control.index = c.index
         \/ t.rate = LadderRate(link, t.control.index)
    BY <1>5, <1>10, <1>13
  <1> QED BY <1>10, <1>11, <1>12, <1>13, <1>14

(* A rung is known, or counted towards, only if it was before the second or*)
(* the second counted an attempt at it.                                    *)
LEMMA FoldedStep ==
  ASSUME NEW c \in Expecteds, NEW counted \in [Rungs -> Nat \X Nat]
  PROVE  /\ Folded(c, counted) \in Expecteds
         /\ Folded(c, counted).index = c.index
         /\ Folded(c, counted).overhead = c.overhead
         /\ \A r \in Rungs :
              /\ Folded(c, counted).prob[r] # PROB_UNKNOWN =>
                   c.prob[r] # PROB_UNKNOWN \/ c.pending[r][1] > 0 \/ counted[r][1] > 0
              /\ Folded(c, counted).pending[r][1] > 0 =>
                   c.pending[r][1] > 0 \/ counted[r][1] > 0
  <1>0. c.pending \in [Rungs -> Nat \X Nat] /\ c.prob \in [Rungs -> Int]
    BY DEF Expecteds
  <1>1. PICK p : p = [r \in Rungs |-> <<c.pending[r][1] + counted[r][1], c.pending[r][2] + counted[r][2]>>]
    OBVIOUS
  <1>2. \A r \in Rungs : /\ p[r] \in Nat \X Nat /\ p[r][1] = c.pending[r][1] + counted[r][1]
                         /\ c.pending[r][1] \in Nat /\ counted[r][1] \in Nat
    <2>1. ASSUME NEW r \in Rungs
          PROVE  /\ p[r] \in Nat \X Nat /\ p[r][1] = c.pending[r][1] + counted[r][1]
                 /\ c.pending[r][1] \in Nat /\ counted[r][1] \in Nat
      <3>1. c.pending[r] \in Nat \X Nat /\ counted[r] \in Nat \X Nat
        BY <1>0
      <3> QED BY <1>1, <3>1
    <2> QED BY <2>1
  <1>3. PICK pend, prob :
          /\ pend = [r \in Rungs |-> IF p[r][1] >= PROB_MIN_ATTEMPTS THEN <<0, 0>> ELSE p[r]]
          /\ prob = [r \in Rungs |->
                       IF ~(p[r][1] >= PROB_MIN_ATTEMPTS) THEN c.prob[r]
                       ELSE IF c.prob[r] = PROB_UNKNOWN THEN (p[r][2] * 1000) \div p[r][1]
                       ELSE (c.prob[r] * 3 + ((p[r][2] * 1000) \div p[r][1])) \div 4]
    OBVIOUS
  <1>4. Folded(c, counted) = [c EXCEPT !.pending = pend, !.prob = prob]
    BY <1>1, <1>3 DEF Folded
  <1>5. ASSUME NEW r \in Rungs
        PROVE  /\ pend[r] \in Nat \X Nat /\ prob[r] \in Int
               /\ prob[r] # PROB_UNKNOWN =>
                    c.prob[r] # PROB_UNKNOWN \/ c.pending[r][1] > 0 \/ counted[r][1] > 0
               /\ pend[r][1] > 0 => c.pending[r][1] > 0 \/ counted[r][1] > 0
    <2>1. PICK a, b \in Nat : p[r] = <<a, b>> /\ a = p[r][1] /\ b = p[r][2]
      BY <1>2
    <2>2. c.prob[r] \in Int
      BY <1>0
    <2>3. CASE a >= PROB_MIN_ATTEMPTS
      <3>1. pend[r] = <<0, 0>>
        BY <1>3, <2>1, <2>3
      <3>2. PICK q \in Int : q = (b * 1000) \div a
        BY <2>3 DEF PROB_MIN_ATTEMPTS
      <3>3. prob[r] = IF c.prob[r] = PROB_UNKNOWN THEN q ELSE (c.prob[r] * 3 + q) \div 4
        BY <1>3, <2>1, <2>3, <3>2
      <3>4. prob[r] \in Int
        BY <2>2, <3>2, <3>3
      <3>5. c.pending[r][1] > 0 \/ counted[r][1] > 0
        BY <1>2, <2>1, <2>3 DEF PROB_MIN_ATTEMPTS
      <3>6. pend[r] \in Nat \X Nat /\ pend[r][1] = 0
        BY <3>1
      <3> QED BY <3>4, <3>5, <3>6
    <2>4. CASE ~(a >= PROB_MIN_ATTEMPTS)
      <3>1. pend[r] = p[r] /\ prob[r] = c.prob[r]
        BY <1>3, <2>1, <2>4
      <3>2. pend[r][1] > 0 => c.pending[r][1] > 0 \/ counted[r][1] > 0
        BY <1>2, <3>1
      <3> QED BY <1>2, <2>2, <3>1, <3>2
    <2> QED BY <2>3, <2>4
  <1>6. pend \in [Rungs -> Nat \X Nat] /\ prob \in [Rungs -> Int]
    <2>1. pend \in [Rungs -> Nat \X Nat]
      BY <1>3, <1>5, Zenon
    <2>2. prob \in [Rungs -> Int]
      <3>1. \A r \in Rungs : prob[r] \in Int
        BY <1>5
      <3>2. prob = [r \in Rungs |-> prob[r]]
        BY <1>3
      <3> QED BY <3>1, <3>2
    <2> QED BY <2>1, <2>2
  <1>7. PICK d : d = [c EXCEPT !.pending = pend, !.prob = prob]
    OBVIOUS
  <1>8. d \in Expecteds /\ d.index = c.index /\ d.overhead = c.overhead /\ d.prob = prob /\
        d.pending = pend
    BY <1>6, <1>7 DEF Expecteds
  <1> QED BY <1>4, <1>5, <1>7, <1>8

(* ExpectedRate::tick, first half: beside the probabilities only the       *)
(* overhead changes.                                                       *)
LEMMA SeenStep ==
  ASSUME NEW c \in Expecteds, NEW link \in LinkRange, NEW counted \in [Rungs -> Nat \X Nat],
         NEW timed \in Nat, NEW perAttempt \in Int,
         NEW seen, seen = Seen(c, link, counted, timed, perAttempt)
  PROVE  /\ seen \in Expecteds
         /\ seen.index = c.index
         /\ seen.prob = Folded(c, counted).prob
         /\ seen.pending = Folded(c, counted).pending
  <1>1. PICK f : f = Folded(c, counted)
    OBVIOUS
  <1>2. f \in Expecteds /\ f.index = c.index /\ f.overhead \in Nat
    BY <1>1, FoldedStep DEF Expecteds
  <1>3. PICK x \in Int : x = perAttempt - AirtimeOf[LadderRate(link, c.index).speed]
    <2>1. c.index \in Rungs
      BY DEF Expecteds
    <2>2. PICK rung : rung = LadderRate(link, c.index).speed
      OBVIOUS
    <2>3. LadderRate(link, c.index) \in LadderRates
      BY <2>1, LadderType
    <2>4. rung \in Rungs
      BY <2>2, <2>3 DEF LadderRates
    <2>5. AirtimeOf[rung] \in Nat
      BY <2>4, StationAssumption DEF Rungs
    <2> QED BY <2>2, <2>5
  <1>4. Clamp(x, OVERHEAD_MIN_US, OVERHEAD_MAX_US) \in Nat
    <2>1. PICK lo, hi \in Int : lo = OVERHEAD_MIN_US /\ hi = OVERHEAD_MAX_US /\ lo = 100
      BY DEF OVERHEAD_MIN_US, OVERHEAD_MAX_US
    <2>2. PICK y \in Int : y = Min({x, hi})
      BY PairMax, Zenon
    <2>3. Max({lo, y}) \in {lo, y} /\ Max({lo, y}) >= lo
      BY PairMax
    <2>4. Max({lo, y}) \in Nat
      BY <2>1, <2>3
    <2> QED BY <2>1, <2>2, <2>4 DEF Clamp
  <1>5. PICK o \in Nat : o = (f.overhead * 3 + Clamp(x, OVERHEAD_MIN_US, OVERHEAD_MAX_US)) \div 4
    BY <1>2, <1>4
  <1>6. Seen(c, link, counted, timed, perAttempt) =
          IF timed >= RATE_MIN_FRAMES THEN [f EXCEPT !.overhead = o] ELSE f
    BY <1>1, <1>3, <1>5 DEF Seen
  <1>7. PICK g : g = [f EXCEPT !.overhead = o]
    OBVIOUS
  <1>8. g \in Expecteds /\ g.index = f.index /\ g.prob = f.prob /\ g.pending = f.pending
    BY <1>2, <1>7 DEF Expecteds
  <1> QED BY <1>1, <1>2, <1>6, <1>7, <1>8

StaActions == [kind : {"Connect", "None", "Wait", "StartProvisioning"}, us : Int]

(* What an action waits for is what the policy is in. *)
Suits(a, p) ==
  /\ a.kind = "Connect" => p.phase = "Connecting"
  /\ a.kind = "Wait" => p.phase = "Backoff"
  /\ a.kind = "None" => p.phase = "Connected"

(* A backoff is a number. *)
LEMMA StaBackoffType ==
  ASSUME NEW failures \in Nat PROVE BackoffFor(failures) \in Int
  BY PolicyAssumption DEF BackoffFor

(* A join reported: the policy is Connected, with nothing to do. *)
LEMMA HeardConnected ==
  ASSUME NEW p \in Policies
  PROVE  LET h == On(p, "Connected")
         IN  h.policy \in Policies /\ h.action \in StaActions /\ Suits(h.action, h.policy)
             /\ h.action.kind = "None"
  <1>1. PICK q : q = [p EXCEPT !.phase = "Connected", !.failures = 0]
    OBVIOUS
  <1>2. q \in Policies /\ q.phase = "Connected"
    BY <1>1 DEF Policies, Phases
  <1>3. On(p, "Connected") = [policy |-> q, action |-> Act("None")]
    BY <1>1 DEF On
  <1> QED BY <1>2, <1>3 DEF Act, StaActions, Suits

(* A join that failed or a link lost: the policy waits or gives up. *)
LEMMA HeardDisconnected ==
  ASSUME NEW p \in Policies, p.phase \in {"Connecting", "Connected"}
  PROVE  LET h == On(p, "Disconnected")
         IN  h.policy \in Policies /\ h.action \in StaActions /\ Suits(h.action, h.policy)
             /\ h.action.kind # "None"
  <1>0. p.failures \in Nat
    BY DEF Policies
  <1>1. PICK failures \in Nat : failures = p.failures + 1
    BY <1>0
  <1>2. PICK wait \in Int : wait = BackoffFor(failures)
    BY StaBackoffType
  <1>3. On(p, "Disconnected") = OnDisconnected(p)
    BY DEF On
  <1>4. CASE failures >= MAX_JOIN_FAILURES
    <2>1. PICK q : q = [p EXCEPT !.phase = "Fallback", !.failures = failures]
      OBVIOUS
    <2>2. q \in Policies
      BY <2>1 DEF Policies, Phases
    <2>3. On(p, "Disconnected") = [policy |-> q, action |-> Act("StartProvisioning")]
      BY <1>1, <1>3, <1>4, <2>1 DEF OnDisconnected
    <2> QED BY <2>2, <2>3 DEF Act, StaActions, Suits
  <1>5. CASE ~(failures >= MAX_JOIN_FAILURES)
    <2>1. On(p, "Disconnected") =
            [policy |-> [phase |-> "Backoff", failures |-> failures, waitLeft |-> wait],
             action |-> WaitFor(wait)]
      BY <1>1, <1>2, <1>3, <1>5 DEF OnDisconnected
    <2> QED BY <2>1 DEF WaitFor, StaActions, Suits, Policies, Phases
  <1> QED BY <1>4, <1>5

(* A wait over, or cut short: the policy joins, or waits for the rest. *)
LEMMA HeardTick ==
  ASSUME NEW p \in Policies, p.phase = "Backoff", NEW left \in Int
  PROVE  LET h == On([p EXCEPT !.waitLeft = left], "Tick")
         IN  h.policy \in Policies /\ h.action \in StaActions /\ Suits(h.action, h.policy)
             /\ h.action.kind # "None"
  <1>1. PICK q : q = [p EXCEPT !.waitLeft = left]
    OBVIOUS
  <1>2. q \in Policies /\ q.phase = "Backoff" /\ q.waitLeft = left
    BY <1>1 DEF Policies, Phases
  <1>3. On(q, "Tick") = OnTick(q)
    BY <1>2 DEF On
  <1>4. CASE left = 0
    <2>1. PICK o : o = [q EXCEPT !.phase = "Connecting"]
      OBVIOUS
    <2>2. o \in Policies /\ o.phase = "Connecting"
      BY <1>2, <2>1 DEF Policies, Phases
    <2>3. On(q, "Tick") = [policy |-> o, action |-> Act("Connect")]
      BY <1>2, <1>3, <1>4, <2>1 DEF OnTick
    <2> QED BY <1>1, <2>2, <2>3 DEF Act, StaActions, Suits
  <1>5. CASE left # 0
    <2>1. On(q, "Tick") = [policy |-> q, action |-> WaitFor(left)]
      BY <1>2, <1>3, <1>5 DEF OnTick
    <2>2. On(q, "Tick").policy = q /\ On(q, "Tick").action = [kind |-> "Wait", us |-> left]
      BY <2>1 DEF WaitFor
    <2>3. PICK h : h = On(q, "Tick")
      OBVIOUS
    <2>4. h.policy \in Policies /\ h.policy.phase = "Backoff" /\ h.action.kind = "Wait"
      BY <1>2, <2>2, <2>3
    <2>5. h.action \in StaActions
      BY <2>2, <2>3 DEF StaActions
    <2>6. Suits(h.action, h.policy)
      BY <2>4 DEF Suits
    <2> QED BY <1>1, <2>3, <2>4, <2>5, <2>6, Zenon
  <1> QED BY <1>4, <1>5

(* A new policy begins with a join. *)
LEMMA KickType ==
  /\ Kick.policy \in Policies /\ Kick.action \in StaActions
  /\ Suits(Kick.action, Kick.policy) /\ Kick.action.kind = "Connect"
  <1>1. PICK p : p = [NewPolicy EXCEPT !.phase = "Connecting", !.failures = 0]
    OBVIOUS
  <1>2. p \in Policies /\ p.phase = "Connecting"
    <2>1. NewPolicy \in Policies
      BY DEF NewPolicy, Policies, Phases
    <2> QED BY <1>1, <2>1 DEF Policies, Phases
  <1>3. Kick = [policy |-> p, action |-> Act("Connect")]
    BY <1>1 DEF Kick, On
  <1>4. Kick.policy = p /\ Kick.action = [kind |-> "Connect", us |-> 0]
    BY <1>3 DEF Act
  <1> QED BY <1>2, <1>4 DEF StaActions, Suits

StationTyped ==
  /\ arm \in Arms
  /\ policy \in Policies /\ action \in StaActions
  /\ resting \in BOOLEAN /\ connected \in BOOLEAN /\ joinedChannel \in BOOLEAN
  /\ watching \in BOOLEAN
  /\ assoc \in Links \cup {-1}
  /\ phyRate \in LadderRates \cup {NoRate} /\ sample \in LadderRates \cup {NoRate}
  /\ quality \in [Rungs -> 0..1000]
  /\ goodSeconds \in Nat

ControlTyped ==
  /\ arm = "threshold" => control \in Thresholds
  /\ arm = "probe" => control \in Sampleds
  /\ arm = "expected" => control \in Expecteds

(* Where run_station is: joined only with nothing to do, and what it waits *)
(* for is what the policy waits for.                                       *)
PolicyFollowed ==
  /\ Suits(action, policy)
  /\ resting => action.kind = "StartProvisioning"
  /\ watching => action.kind = "None"
  /\ connected => action.kind = "None"
  /\ arm # "hal" => (joinedChannel <=> action.kind = "None")

(* Between two links nothing of the last one's rates is left but the       *)
(* data rate, which the join overrides; on a link the rates are its own.   *)
RatesKept ==
  /\ ~watching => sample = NoRate
  /\ sample.ht => assoc >= 0
  /\ action.kind = "None" /\ ~watching => phyRate = DATA_RATE
  /\ action.kind = "None" => phyRate \in LadderRates /\ (phyRate.ht => assoc >= 0)

(* The driver's rate is the one the control believes in. *)
OnTheLadder ==
  watching =>
    /\ arm = "threshold" /\ assoc < 0 => phyRate = LadderRate(-1, control.index)
    /\ arm = "probe" /\ assoc < 0 => phyRate = LadderRate(-1, Active(control))
    /\ arm = "expected" => phyRate = LadderRate(assoc, control.index)

(* The threshold control's run of good seconds happened at this rate. *)
RunCounted ==
  arm = "threshold" =>
    /\ control.goodRun <= goodSeconds /\ control.goodRun <= RATE_UP_AFTER
    /\ BUSY_FRAMES < RATE_MIN_FRAMES => control.goodRun = 0

StationInv == /\ StationTyped /\ ControlTyped /\ PolicyFollowed /\ RatesKept /\ OnTheLadder
              /\ RunCounted

(* A new control is at the top of its ladder and has measured nothing. *)
LEMMA NewControlType ==
  /\ NewControl("threshold") \in Thresholds /\ NewControl("threshold").goodRun = 0
  /\ NewControl("probe") \in Sampleds /\ Active(NewControl("probe")) = 0
  /\ NewControl("expected") \in Expecteds
  /\ \A r \in Rungs : NewControl("expected").prob[r] = PROB_UNKNOWN /\
     NewControl("expected").pending[r] = <<0, 0>>
  /\ \A a \in {"threshold", "probe", "expected"} : NewControl(a).index = 0
  <1>0. 0 \in Rungs
    BY StationAssumption DEF Rungs
  <1>1. NewControl("threshold") = [index |-> 0, goodRun |-> 0]
    BY DEF NewControl, NewThreshold
  <1>2. NewControl("probe") = NewSampled
    BY DEF NewControl
  <1>3. NewControl("expected") = NewExpected
    BY DEF NewControl
  <1>4. NewControl("threshold") \in Thresholds /\ NewControl("threshold").goodRun = 0
        /\ NewControl("threshold").index = 0
    BY <1>0, <1>1 DEF Thresholds
  <1>5. NewSampled \in Sampleds /\ NewSampled.index = 0 /\ NewSampled.probing = NoRung
    BY <1>0 DEF NewSampled, Sampleds
  <1>6. /\ NewExpected \in Expecteds /\ NewExpected.index = 0
        /\ \A r \in Rungs : NewExpected.prob[r] = PROB_UNKNOWN /\ NewExpected.pending[r] = <<0, 0>>
    <2>1. [r \in Rungs |-> <<0, 0>>] \in [Rungs -> Nat \X Nat] /\
          [r \in Rungs |-> PROB_UNKNOWN] \in [Rungs -> Int]
      BY DEF PROB_UNKNOWN
    <2>2. PICK pe, pr : pe = [r \in Rungs |-> <<0, 0>>] /\ pr = [r \in Rungs |-> PROB_UNKNOWN]
      OBVIOUS
    <2>3. NewExpected = [index |-> 0, prob |-> pr, pending |-> pe, overhead |-> 150, step |-> 0]
      BY <2>2 DEF NewExpected
    <2>4. NewExpected \in Expecteds
      BY <1>0, <2>1, <2>2, <2>3 DEF Expecteds
    <2>5. NewExpected.prob = pr /\ NewExpected.pending = pe /\ NewExpected.index = 0
      BY <2>3
    <2> QED BY <2>2, <2>4, <2>5
  <1>7. Active(NewSampled) = 0
    BY <1>5 DEF Active
  <1> QED BY <1>2, <1>3, <1>4, <1>5, <1>6, <1>7

(* The rate a join leaves in the driver is 802.11g's fastest. *)
LEMMA DataRateType ==
  /\ DATA_RATE \in LadderRates /\ DATA_RATE # NoRate /\ ~DATA_RATE.ht
  <1>1. -1 \in LinkRange /\ 0 \in Rungs
    BY StationAssumption DEF LinkRange, Rungs
  <1>2. PICK rate : rate = LadderRate(-1, 0)
    OBVIOUS
  <1>3. rate \in LadderRates /\ rate # NoRate /\ ~rate.ht
    BY <1>1, <1>2, LadderType
  <1> QED BY <1>2, <1>3 DEF DATA_RATE

(* A boot starts in the invariant. *)
LEMMA StationInvInit == StationInit => StationInv
  <1> SUFFICES ASSUME StationInit PROVE StationInv
    OBVIOUS
  <1>1. StationTyped
    BY KickType, StationAssumption DEF StationInit, StationTyped, Rungs
  <1>2. ControlTyped
    BY NewControlType DEF StationInit, ControlTyped
  <1>3. PolicyFollowed
    BY KickType DEF StationInit, PolicyFollowed
  <1>4. RatesKept
    BY KickType DEF StationInit, RatesKept, NoRate
  <1>5. OnTheLadder
    BY DEF StationInit, OnTheLadder
  <1>6. RunCounted
    BY NewControlType, StationAssumption DEF StationInit, RunCounted
  <1> QED BY <1>1, <1>2, <1>3, <1>4, <1>5, <1>6 DEF StationInv

(* What an association allows is a link of the ladder. *)
LEMMA AssocType ==
  ASSUME StationTyped PROVE assoc \in LinkRange
  BY StationAssumption DEF StationTyped, LinkRange

(* The share of acknowledged frames never reads above the link's quality. *)
LEMMA PermilleBelow ==
  ASSUME NEW frames \in Nat, frames > 0, NEW q \in Nat, NEW ok \in Nat,
         ok = (frames * q) \div 1000
  PROVE  (ok * 1000) \div frames <= q
  <1>1. PICK x \in Nat : x = frames * q
    OBVIOUS
  <1>2. ok * 1000 <= x
    BY <1>1
  <1>3. PICK p \in Nat : p = (ok * 1000) \div frames /\ p * frames <= ok * 1000
    OBVIOUS
  <1>4. p * frames <= frames * q
    BY <1>1, <1>2, <1>3
  <1>5. p <= q
    <2> SUFFICES ASSUME p >= q + 1 PROVE FALSE
      OBVIOUS
    <2>1. p * frames >= (q + 1) * frames
      OBVIOUS
    <2>2. (q + 1) * frames = frames * q + frames
      OBVIOUS
    <2>3. PICK y \in Nat : y = p * frames
      OBVIOUS
    <2> QED BY <1>1, <1>4, <2>1, <2>2, <2>3
  <1> QED BY <1>1, <1>2, <1>3, <1>5

(* What a second delivers, at the driver's rate. *)
LEMMA SecondType ==
  ASSUME StationTyped, phyRate \in LadderRates, NEW frames \in Nat
  PROVE  /\ quality[phyRate.speed] \in 0..1000
         /\ (frames * quality[phyRate.speed]) \div 1000 \in Nat
         /\ (quality[phyRate.speed] * 12000) \div (AirtimeOf[phyRate.speed] + 150) \in Int
         /\ AirtimeOf[phyRate.speed] + 150 \in Int
  <1>1. PICK speed \in Rungs : speed = phyRate.speed
    BY DEF LadderRates
  <1>2. PICK q \in 0..1000 : q = quality[speed]
    BY DEF StationTyped
  <1>3. PICK a \in Nat : a = AirtimeOf[speed] + 150 /\ a > 0
    BY StationAssumption DEF Rungs
  <1>4. (frames * q) \div 1000 \in Nat
    <2>1. PICK x \in Nat : x = frames * q
      OBVIOUS
    <2> QED BY <2>1
  <1>5. (q * 12000) \div a \in Int
    BY <1>3
  <1> QED BY <1>1, <1>2, <1>3, <1>4, <1>5

(* The rate at a place in the driver's snapshot. *)
RateAt(r) == [ht |-> assoc >= 0, speed |-> RUNGS - 1 - r]

(* The counters of a second: numbers, and nothing at a rate no frame       *)
(* started at.                                                             *)
LEMMA CountedStep ==
  ASSUME StationTyped, NEW frames \in {0, BUSY_FRAMES}
  PROVE  /\ Counted(frames) \in [Rungs -> Nat \X Nat]
         /\ \A r \in Rungs : Counted(frames)[r][1] > 0 =>
              frames # 0 /\ RateAt(r) \in {sample, phyRate}
  <1> DEFINE sent(rate) == IF frames = 0 THEN 0
                         ELSE IF rate = sample THEN SampledFrames
                         ELSE IF rate = phyRate THEN frames - SampledFrames
                         ELSE 0
  <1>1. SampledFrames \in Nat /\ SampledFrames <= BUSY_FRAMES /\ BUSY_FRAMES \in Nat
    BY StationAssumption DEF SampledFrames, SAMPLE_EVERY
  <1>2. \A rate : sent(rate) \in Nat /\ (sent(rate) > 0 => frames # 0 /\ rate \in {sample, phyRate})
    BY <1>1
  <1> HIDE DEF sent
  <1>3. \A r \in Rungs : RateAt(r).speed \in Rungs
    BY StationAssumption DEF RateAt, Rungs
  <1>4. Counted(frames) = [r \in Rungs |-> <<sent(RateAt(r)), (sent(RateAt(r)) * quality[RateAt(r).speed]) \div 1000>>]
    BY DEF Counted, RateAt, sent
  <1>5. ASSUME NEW r \in Rungs
        PROVE  /\ Counted(frames)[r] \in Nat \X Nat
               /\ Counted(frames)[r][1] > 0 => frames # 0 /\ RateAt(r) \in {sample, phyRate}
    <2>1. PICK n \in Nat : n = sent(RateAt(r)) /\ (n > 0 => frames # 0 /\
               RateAt(r) \in {sample, phyRate})
      BY <1>2
    <2>2. PICK q \in Nat : q = quality[RateAt(r).speed]
      <3>1. quality \in [Rungs -> 0..1000]
        BY DEF StationTyped
      <3>2. RateAt(r).speed \in Rungs
        BY <1>3
      <3>3. PICK q : q = quality[RateAt(r).speed]
        OBVIOUS
      <3>4. q \in 0..1000
        BY <3>1, <3>2, <3>3
      <3>5. q \in Nat
        BY <3>4
      <3> QED BY <3>3, <3>5
    <2>3. PICK m \in Nat : m = (n * q) \div 1000
      <3>1. PICK x \in Nat : x = n * q
        OBVIOUS
      <3> QED BY <3>1
    <2>4. Counted(frames)[r] = <<n, m>>
      BY <1>4, <2>1, <2>2, <2>3
    <2> QED BY <2>1, <2>4
  <1>6. Counted(frames) = [r \in Rungs |-> Counted(frames)[r]]
    BY <1>4
  <1> QED BY <1>5, <1>6

(* A second of the watch. *)
LEMMA TickKeeps ==
  ASSUME StationInv, watching, arm # "hal", NEW frames \in {0, BUSY_FRAMES},
         LinkTick(frames),
         UNCHANGED <<arm, policy, action, resting, radioVars, joinedChannel, watching>>,
         quality' = quality
  PROVE  /\ StationInv'
         /\ arm = "threshold" /\ control'.index < control.index => goodSeconds + 1 >= RATE_UP_AFTER
  <1>0. /\ StationTyped /\ ControlTyped /\ PolicyFollowed /\ RatesKept /\ OnTheLadder /\ RunCounted
        /\ assoc \in LinkRange /\ frames \in Nat
    BY AssocType, StationAssumption DEF StationInv
  <1>1. /\ action.kind = "None" /\ phyRate \in LadderRates /\ (phyRate.ht => assoc >= 0)
        /\ action' = action /\ watching' = watching /\ assoc' = assoc /\ arm' = arm /\ watching
    BY <1>0 DEF PolicyFollowed, RatesKept, radioVars
  <1>2. PICK seen : seen = MeasuredSecond(frames)
    OBVIOUS
  <1>3. PICK t : t = Tick(seen, frames)
    OBVIOUS
  <1>4. /\ control' = t.control
        /\ phyRate' = IF t.rate = NoRate THEN phyRate ELSE t.rate
        /\ sample' = IF arm = "expected" THEN t.sample ELSE sample
        /\ goodSeconds' = IF t.rate # NoRate \/ (frames > 0 /\ ~GoodSecond(frames)) THEN 0
                          ELSE IF GoodSecond(frames) THEN Min({goodSeconds + 1, RATE_UP_AFTER})
                          ELSE goodSeconds
    BY <1>2, <1>3 DEF LinkTick
  <1>5. PICK q, ok, kbps :
          /\ q = quality[phyRate.speed] /\ ok = (frames * q) \div 1000
          /\ kbps = (q * 12000) \div (AirtimeOf[phyRate.speed] + 150)
    OBVIOUS
  <1>a. q \in 0..1000 /\ q \in Nat /\ ok \in Nat /\ kbps \in Int
    <2>1. /\ quality[phyRate.speed] \in 0..1000
          /\ (frames * quality[phyRate.speed]) \div 1000 \in Nat
          /\ (quality[phyRate.speed] * 12000) \div (AirtimeOf[phyRate.speed] + 150) \in Int
      <3>1. StationTyped /\ phyRate \in LadderRates /\ frames \in Nat
        BY <1>0, <1>1
      <3> QED BY <3>1, SecondType
    <2> QED BY <1>5, <2>1, SMTT(60)
  <1>c. assoc \in LinkRange
    BY <1>0
  <1>b. frames \in Nat /\ ok \in Nat
    BY <1>0, <1>a
  <1>6. goodSeconds \in Nat /\ goodSeconds' \in Nat
        /\ (~(t.rate # NoRate \/ (frames > 0 /\ ~GoodSecond(frames))) =>
              goodSeconds' >= goodSeconds \/ (goodSeconds' = RATE_UP_AFTER))
        /\ (~(t.rate # NoRate) /\ GoodSecond(frames) =>
              goodSeconds' = goodSeconds + 1 \/ goodSeconds' = RATE_UP_AFTER)
    <2>1. goodSeconds + 1 \in Int /\ RATE_UP_AFTER \in Nat /\ goodSeconds \in Nat
      BY <1>0, StationAssumption DEF StationTyped
    <2>2. PICK m : m = Min({goodSeconds + 1, RATE_UP_AFTER})
      OBVIOUS
    <2>3. m \in {goodSeconds + 1, RATE_UP_AFTER}
      <3>1. RATE_UP_AFTER \in Int
        BY <2>1
      <3> QED BY <2>1, <2>2, <3>1, PairMax, Zenon
    <2> QED BY <1>4, <2>1, <2>2, <2>3
  <1>7. /\ policy' = policy /\ resting' = resting /\ connected' = connected
        /\ joinedChannel' = joinedChannel
    BY DEF radioVars
  <1>8. PolicyFollowed'
    BY <1>0, <1>1, <1>7 DEF PolicyFollowed, Suits
  <1>9. CASE arm = "threshold"
    <2>1. seen = control /\ control \in Thresholds
      BY <1>0, <1>2, <1>9 DEF MeasuredSecond, ControlTyped
    <2>2. t = ThresholdTick(control, frames, ok)
      BY <1>3, <1>5, <1>9, <2>1 DEF Tick
    <2>3. /\ t.control \in Thresholds
          /\ \/ t.rate = NoRate /\ t.control.index = control.index
             \/ t.rate = LadderRate(-1, t.control.index)
      BY <1>b, <2>1, <2>2, ThresholdType
    <2>4. t.control.index \in Rungs /\ -1 \in LinkRange
      BY <2>3, StationAssumption DEF Thresholds, LinkRange
    <2>5. PICK rate : rate = LadderRate(-1, t.control.index)
      OBVIOUS
    <2>6. rate \in LadderRates /\ rate # NoRate /\ ~rate.ht
      BY <2>4, <2>5, LadderType
    <2>7. /\ phyRate' \in LadderRates /\ (phyRate'.ht => assoc >= 0)
          /\ \/ phyRate' = phyRate /\ t.rate = NoRate /\ t.control.index = control.index
             \/ phyRate' = rate /\ t.rate = rate
      BY <1>1, <1>4, <2>3, <2>5, <2>6
    <2>8. StationTyped'
      BY <1>0, <1>1, <1>4, <1>6, <1>7, <1>9, <2>7 DEF StationTyped
    <2>9. ControlTyped'
      BY <1>1, <1>4, <1>9, <2>3 DEF ControlTyped
    <2>10. RatesKept'
      BY <1>0, <1>1, <1>4, <1>9, <2>7 DEF RatesKept
    <2>11. OnTheLadder'
      BY <1>0, <1>1, <1>4, <1>9, <2>5, <2>7 DEF OnTheLadder
    <2>12. /\ control.goodRun \in Nat /\ control.goodRun <= goodSeconds
           /\ control.goodRun <= RATE_UP_AFTER /\ RATE_UP_AFTER \in Nat
           /\ (BUSY_FRAMES < RATE_MIN_FRAMES => control.goodRun = 0)
           /\ control = [index |-> control.index, goodRun |-> control.goodRun]
      BY <1>0, <1>9, <2>1, StationAssumption DEF RunCounted, Thresholds
    <2>13. RunCounted' /\ (control'.index < control.index => goodSeconds + 1 >= RATE_UP_AFTER)
      <3>1. CASE frames < RATE_MIN_FRAMES
        <4>1. t = Stay(control)
          BY <2>2, <3>1, ThresholdIdle
        <4>2. t.control = control /\ t.rate = NoRate
          BY <4>1 DEF Stay
        <4>3. ~GoodSecond(frames)
          BY <1>0, <3>1 DEF GoodSecond, RATE_MIN_FRAMES
        <4>4. CASE frames > 0
          <5>1. control.goodRun = 0
            BY <2>12, <3>1, <4>4
          <5> QED BY <1>1, <1>4, <1>6, <2>4, <2>12, <4>2, <5>1, StationAssumption
                  DEF RunCounted, Rungs
        <4>5. CASE ~(frames > 0)
          <5>1. goodSeconds' = goodSeconds
            BY <1>4, <4>2, <4>3, <4>5
          <5> QED BY <1>1, <1>4, <2>4, <2>12, <4>2, <5>1, StationAssumption DEF RunCounted, Rungs
        <4> QED BY <4>4, <4>5
      <3>2. CASE frames >= RATE_MIN_FRAMES
        <4>1. /\ \/ t.control.goodRun = 0
                 \/ /\ GoodShare(frames, ok) /\ t.rate = NoRate
                    /\ \/ t.control.goodRun = control.goodRun
                       \/ t.control.goodRun = control.goodRun + 1 /\
                          control.goodRun + 1 < RATE_UP_AFTER
              /\ t.control.index < control.index => control.goodRun + 1 >= RATE_UP_AFTER
          BY <1>b, <2>1, <2>2, <3>2, ThresholdRun
        <4>2. ~(BUSY_FRAMES < RATE_MIN_FRAMES) /\ frames > 0
          BY <3>2, StationAssumption DEF RATE_MIN_FRAMES
        <4>3. control'.index < control.index => goodSeconds + 1 >= RATE_UP_AFTER
          BY <1>4, <1>6, <2>12, <4>1
        <4>4. CASE t.control.goodRun = 0
          <5>1. RunCounted'
            BY <1>1, <1>4, <1>6, <2>12, <4>4 DEF RunCounted
          <5> QED BY <4>3, <5>1
        <4>5. CASE t.control.goodRun # 0
          <5>1. /\ GoodShare(frames, ok) /\ t.rate = NoRate
                /\ \/ t.control.goodRun = control.goodRun
                   \/ t.control.goodRun = control.goodRun + 1 /\ control.goodRun + 1 < RATE_UP_AFTER
            BY <4>1, <4>5
          <5>2. (ok * 1000) \div frames <= q
            <6>1. ok = (frames * q) \div 1000 /\ frames \in Nat /\ frames > 0 /\ q \in Nat /\
                  ok \in Nat
              BY <1>b, <1>5, <1>a, <4>2
            <6> QED BY <6>1, PermilleBelow
          <5>3. GoodSecond(frames)
            <6>1. PICK p \in Int : p = (ok * 1000) \div frames
              BY <1>b, <4>2
            <6>2. p > RATE_UP_ABOVE_PERMILLE
              BY <5>1, <6>1 DEF GoodShare
            <6> QED BY <1>5, <1>a, <3>2, <5>2, <6>1, <6>2 DEF GoodSecond, RATE_UP_ABOVE_PERMILLE
          <5>4. goodSeconds' = goodSeconds + 1 \/ goodSeconds' = RATE_UP_AFTER
            BY <1>6, <5>1, <5>3
          <5>5. RunCounted'
            BY <1>1, <1>4, <1>6, <2>12, <4>2, <5>1, <5>4 DEF RunCounted
          <5> QED BY <4>3, <5>5
        <4> QED BY <4>4, <4>5
      <3> QED BY <1>0, <3>1, <3>2 DEF RATE_MIN_FRAMES
    <2> QED BY <1>8, <2>8, <2>9, <2>10, <2>11, <2>13 DEF StationInv
  <1>10. CASE arm = "probe"
    <2>1. seen = control /\ control \in Sampleds
      BY <1>0, <1>2, <1>10 DEF MeasuredSecond, ControlTyped
    <2>2. t = SampledTick(control, frames, ok, kbps)
      BY <1>3, <1>5, <1>10, <2>1 DEF Tick
    <2>3. /\ t.control \in Sampleds
          /\ \/ t.rate = NoRate /\ t.control.index = control.index /\
                t.control.probing = control.probing
             \/ t.rate = LadderRate(-1, Active(t.control))
      BY <1>0, <1>a, <2>1, <2>2, SampledStep, Zenon
    <2>4. Active(t.control) \in Rungs /\ -1 \in LinkRange
      BY <2>3, StationAssumption DEF Sampleds, LinkRange, Active
    <2>5. PICK rate : rate = LadderRate(-1, Active(t.control))
      OBVIOUS
    <2>6. rate \in LadderRates /\ rate # NoRate /\ ~rate.ht
      BY <2>4, <2>5, LadderType
    <2>7. /\ phyRate' \in LadderRates /\ (phyRate'.ht => assoc >= 0)
          /\ \/ phyRate' = phyRate /\ Active(t.control) = Active(control)
             \/ phyRate' = rate
      <3>1. CASE t.rate = NoRate /\ t.control.index = control.index /\
                 t.control.probing = control.probing
        BY <1>1, <1>4, <3>1 DEF Active
      <3>2. CASE t.rate = rate
        BY <1>4, <3>2, <2>6
      <3> QED BY <2>3, <2>5, <3>1, <3>2
    <2>8. StationTyped'
      BY <1>0, <1>1, <1>4, <1>6, <1>7, <1>10, <2>7 DEF StationTyped
    <2>9. ControlTyped'
      BY <1>1, <1>4, <1>10, <2>3 DEF ControlTyped
    <2>10. RatesKept'
      BY <1>0, <1>1, <1>4, <1>10, <2>7 DEF RatesKept
    <2>11. OnTheLadder'
      BY <1>0, <1>1, <1>4, <1>10, <2>5, <2>7 DEF OnTheLadder
    <2>12. RunCounted'
      BY <1>1, <1>10 DEF RunCounted
    <2> QED BY <1>8, <1>10, <2>8, <2>9, <2>10, <2>11, <2>12 DEF StationInv
  <1>11. CASE arm = "expected"
    <2>1. control \in Expecteds /\ Counted(frames) \in [Rungs -> Nat \X Nat]
          /\ AirtimeOf[phyRate.speed] + 150 \in Int
      BY <1>0, <1>1, <1>11, CountedStep, SecondType DEF ControlTyped
    <2>2. seen = Seen(control, assoc, Counted(frames), frames, AirtimeOf[phyRate.speed] + 150)
      BY <1>2, <1>11 DEF MeasuredSecond
    <2>3. seen \in Expecteds /\ seen.index = control.index
      <3>1. PICK counted \in [Rungs -> Nat \X Nat], each \in Int :
              counted = Counted(frames) /\ each = AirtimeOf[phyRate.speed] + 150
        BY <2>1
      <3>2. seen = Seen(control, assoc, counted, frames, each)
        BY <2>2, <3>1
      <3>3. control \in Expecteds /\ assoc \in LinkRange /\ frames \in Nat
        BY <1>b, <1>c, <2>1
      <3> QED BY <3>2, <3>3, SeenStep
    <2>4. t = Chosen(seen, assoc)
      BY <1>3, <1>11 DEF Tick
    <2>5. /\ t.control \in Expecteds
          /\ \/ t.rate = NoRate /\ t.control.index = seen.index
             \/ t.rate = LadderRate(assoc, t.control.index)
          /\ t.sample \in LadderRates /\ (t.sample.ht <=> assoc >= 0)
      BY <1>0, <2>3, <2>4, ChosenStep
    <2>6. PICK rate : rate = LadderRate(assoc, t.control.index)
      OBVIOUS
    <2>7. rate \in LadderRates /\ rate # NoRate /\ (rate.ht => assoc >= 0)
      <3>1. t.control.index \in Rungs
        BY <2>5 DEF Expecteds
      <3> QED BY <1>0, <2>6, <3>1, LadderType
    <2>8. phyRate = LadderRate(assoc, control.index)
      BY <1>0, <1>1, <1>11 DEF OnTheLadder
    <2>9. phyRate' = rate /\ control' = t.control /\ sample' = t.sample
      BY <1>4, <1>11, <2>3, <2>5, <2>6, <2>7, <2>8
    <2>10. StationTyped'
      BY <1>0, <1>1, <1>6, <1>7, <2>5, <2>7, <2>9 DEF StationTyped
    <2>11. ControlTyped'
      BY <1>1, <1>11, <2>5, <2>9 DEF ControlTyped
    <2>12. RatesKept'
      BY <1>0, <1>1, <2>5, <2>7, <2>9 DEF RatesKept
    <2>13. OnTheLadder'
      BY <1>1, <1>11, <2>6, <2>9 DEF OnTheLadder
    <2>14. RunCounted'
      BY <1>1, <1>11 DEF RunCounted
    <2> QED BY <1>8, <1>11, <2>10, <2>11, <2>12, <2>13, <2>14 DEF StationInv
  <1>12. CASE arm \notin {"threshold", "probe", "expected"}
    <2>1. t.control = seen /\ t.rate = NoRate /\ seen = control
      BY <1>2, <1>3, <1>12 DEF Tick, Stay, MeasuredSecond
    <2>2. phyRate' = phyRate /\ sample' = sample
      BY <1>4, <1>12, <2>1
    <2>3. StationTyped'
      BY <1>0, <1>1, <1>6, <1>7, <2>2 DEF StationTyped
    <2>4. RatesKept'
      BY <1>0, <1>1, <2>2 DEF RatesKept
    <2>5. ControlTyped' /\ OnTheLadder' /\ RunCounted'
      BY <1>1, <1>12 DEF ControlTyped, OnTheLadder, RunCounted
    <2> QED BY <1>8, <1>12, <2>3, <2>4, <2>5 DEF StationInv
  <1> QED BY <1>9, <1>10, <1>11, <1>12

(* The parts of the invariant. *)
LEMMA InvFacts ==
  ASSUME StationInv
  PROVE  StationTyped /\ ControlTyped /\ PolicyFollowed /\ RatesKept /\ OnTheLadder /\ RunCounted
  BY DEF StationInv

(* A step that leaves the rates, the watch and the association alone, and  *)
(* is not joined before or after it.                                       *)
LEMMA AwayKeeps ==
  ASSUME StationInv,
         UNCHANGED <<arm, radioVars, joinedChannel, rateVars, watching, quality>>,
         action.kind # "None", action'.kind # "None", resting' \in BOOLEAN,
         resting' => action'.kind = "StartProvisioning",
         policy' \in Policies, action' \in StaActions, Suits(action', policy')
  PROVE  StationInv'
  <1>0. StationTyped /\ ControlTyped /\ PolicyFollowed /\ RatesKept /\ OnTheLadder /\ RunCounted
    BY InvFacts
  <1>1. /\ arm' = arm /\ network' = network /\ connected' = connected /\ assoc' = assoc
        /\ joinedChannel' = joinedChannel /\ phyRate' = phyRate /\ sample' = sample
        /\ control' = control /\ goodSeconds' = goodSeconds /\ watching' = watching
        /\ quality' = quality
    BY DEF radioVars, rateVars
  <1>2. ~watching
    BY <1>0 DEF PolicyFollowed
  <1>3. StationTyped'
    BY <1>0, <1>1 DEF StationTyped
  <1>4. ControlTyped' /\ RunCounted'
    BY <1>0, <1>1 DEF ControlTyped, RunCounted
  <1>5. PolicyFollowed'
    BY <1>0, <1>1, <1>2 DEF PolicyFollowed
  <1>6. RatesKept'
    BY <1>0, <1>1 DEF RatesKept
  <1>7. OnTheLadder'
    BY <1>1, <1>2 DEF OnTheLadder
  <1> QED BY <1>3, <1>4, <1>5, <1>6, <1>7 DEF StationInv

(* A join keeps the invariant: nothing of an earlier link is left. *)
LEMMA JoinKeeps == ASSUME StationInv, JoinOk PROVE StationInv'
  <1>0. StationTyped /\ ControlTyped /\ PolicyFollowed /\ RatesKept /\ OnTheLadder /\ RunCounted
    BY InvFacts
  <1>1. /\ action.kind = "Connect" /\ connected' = TRUE /\ assoc' \in Links
        /\ joinedChannel' = (arm # "hal") /\ phyRate' = DATA_RATE
        /\ arm' = arm /\ sample' = sample /\ control' = control /\ watching' = watching
        /\ quality' = quality /\ goodSeconds' = goodSeconds /\ resting' = resting /\ ~resting
    BY DEF JoinOk
  <1>2. PICK h : h = On(policy, "Connected")
    OBVIOUS
  <1>3. policy' = h.policy /\ action' = h.action
    BY <1>2 DEF JoinOk, Hear
  <1>4. /\ h.policy \in Policies /\ h.action \in StaActions /\ Suits(h.action, h.policy)
        /\ h.action.kind = "None"
    <2>1. policy \in Policies
      BY <1>0 DEF StationTyped
    <2> QED BY <1>2, <2>1, HeardConnected
  <1>5. ~watching /\ sample = NoRate
    BY <1>0, <1>1 DEF PolicyFollowed, RatesKept
  <1>6. StationTyped'
    BY <1>0, <1>1, <1>3, <1>4, DataRateType DEF StationTyped
  <1>7. ControlTyped' /\ RunCounted'
    BY <1>0, <1>1 DEF ControlTyped, RunCounted
  <1>8. PolicyFollowed'
    BY <1>1, <1>3, <1>4, <1>5 DEF PolicyFollowed
  <1>9. RatesKept'
    BY <1>1, <1>3, <1>4, <1>5, DataRateType DEF RatesKept, NoRate
  <1>10. OnTheLadder'
    BY <1>1, <1>5 DEF OnTheLadder
  <1> QED BY <1>6, <1>7, <1>8, <1>9, <1>10 DEF StationInv

(* A join that failed keeps the invariant. *)
LEMMA JoinFailsKeeps == ASSUME StationInv, JoinFails PROVE StationInv'
  <1>1. policy \in Policies /\ policy.phase = "Connecting" /\ resting \in BOOLEAN /\
        action.kind = "Connect"
    BY InvFacts DEF StationTyped, PolicyFollowed, Suits, JoinFails
  <1>2. PICK h : h = On(policy, "Disconnected")
    OBVIOUS
  <1>3. policy' = h.policy /\ action' = h.action
    BY <1>2 DEF JoinFails, Hear
  <1>4. h.policy \in Policies /\ h.action \in StaActions /\ Suits(h.action, h.policy) /\
        h.action.kind # "None"
    BY <1>1, <1>2, HeardDisconnected
  <1>5. UNCHANGED <<arm, radioVars, joinedChannel, rateVars, watching, quality>> /\
        resting' = resting /\ ~resting
    BY DEF JoinFails
  <1> QED BY <1>1, <1>3, <1>4, <1>5, AwayKeeps

(* A wait keeps the invariant. *)
LEMMA WaitingKeeps == ASSUME StationInv, Waiting PROVE StationInv'
  <1>1. /\ policy \in Policies /\ policy.phase = "Backoff" /\ resting \in BOOLEAN
        /\ action.kind = "Wait" /\ action.us \in Int
    BY InvFacts DEF StationTyped, PolicyFollowed, Suits, Waiting, StaActions
  <1>2. PICK left \in Int : /\ policy' = On([policy EXCEPT !.waitLeft = left], "Tick").policy
                            /\ action' = On([policy EXCEPT !.waitLeft = left], "Tick").action
    <2>1. PICK left \in {0, action.us - 1} :
            /\ policy' = On([policy EXCEPT !.waitLeft = left], "Tick").policy
            /\ action' = On([policy EXCEPT !.waitLeft = left], "Tick").action
      BY DEF Waiting
    <2>2. left \in Int
      BY <1>1
    <2> QED BY <2>1, <2>2
  <1>3. PICK h : h = On([policy EXCEPT !.waitLeft = left], "Tick")
    OBVIOUS
  <1>4. h.policy \in Policies /\ h.action \in StaActions /\ Suits(h.action, h.policy) /\
        h.action.kind # "None"
    BY <1>1, <1>3, HeardTick
  <1>5. UNCHANGED <<arm, radioVars, joinedChannel, rateVars, watching, quality>> /\
        resting' = resting /\ ~resting
    BY DEF Waiting
  <1>6. policy' = h.policy /\ action' = h.action
    BY <1>2, <1>3
  <1> QED BY <1>1, <1>4, <1>5, <1>6, AwayKeeps

(* Giving up keeps the invariant. *)
LEMMA GiveUpKeeps == ASSUME StationInv, GiveUp PROVE StationInv'
  <1>1. /\ policy \in Policies /\ action \in StaActions /\ Suits(action, policy)
        /\ action.kind = "StartProvisioning" /\ policy' = policy /\ action' = action
        /\ resting' = TRUE
    BY InvFacts DEF StationTyped, PolicyFollowed, GiveUp
  <1>2. UNCHANGED <<arm, radioVars, joinedChannel, rateVars, watching, quality>>
    BY DEF GiveUp
  <1>3. /\ policy' \in Policies /\ action' \in StaActions /\ Suits(action', policy')
        /\ action.kind # "None" /\ action'.kind # "None" /\ resting' \in BOOLEAN
        /\ (resting' => action'.kind = "StartProvisioning")
    BY <1>1
  <1> QED BY <1>2, <1>3, AwayKeeps

(* A new policy after the rest keeps the invariant. *)
LEMMA RestOverKeeps == ASSUME StationInv, RestOver PROVE StationInv'
  <1>1. action.kind = "StartProvisioning" /\ resting' = FALSE
    BY InvFacts DEF PolicyFollowed, RestOver
  <1>2. UNCHANGED <<arm, radioVars, joinedChannel, rateVars, watching, quality>>
    BY DEF RestOver
  <1>3. policy' = Kick.policy /\ action' = Kick.action
    BY DEF RestOver
  <1>4. /\ policy' \in Policies /\ action' \in StaActions /\ Suits(action', policy')
        /\ action.kind # "None" /\ action'.kind # "None" /\ resting' \in BOOLEAN /\ ~resting'
    BY <1>1, <1>3, KickType
  <1> QED BY <1>2, <1>4, AwayKeeps

(* The start of the watch keeps the invariant: control and driver both     *)
(* begin at the top.                                                       *)
LEMMA StartWatchKeeps == ASSUME StationInv, StartWatch PROVE StationInv'
  <1>0. StationTyped /\ ControlTyped /\ PolicyFollowed /\ RatesKept /\ OnTheLadder /\ RunCounted
    BY InvFacts
  <1>1. /\ action.kind = "None" /\ ~watching /\ watching' = TRUE
        /\ control' = NewControl(arm)
        /\ phyRate' = IF arm # "hal" /\ assoc >= 0 THEN LadderRate(assoc, 0) ELSE phyRate
        /\ goodSeconds' = 0
        /\ arm' = arm /\ policy' = policy /\ action' = action /\ resting' = resting
        /\ connected' = connected /\ assoc' = assoc /\ joinedChannel' = joinedChannel
        /\ sample' = sample /\ quality' = quality
    BY DEF StartWatch, radioVars
  <1>2. phyRate = DATA_RATE /\ sample = NoRate
    BY <1>0, <1>1 DEF RatesKept
  <1>3. assoc \in LinkRange /\ 0 \in Rungs
    BY <1>0, AssocType, StationAssumption DEF Rungs
  <1>4. LadderRate(assoc, 0) \in LadderRates /\ (LadderRate(assoc, 0).ht => assoc >= 0)
    BY <1>3, LadderType
  <1>5. phyRate' \in LadderRates /\ (phyRate'.ht => assoc >= 0)
    BY <1>1, <1>2, <1>4, DataRateType
  <1>6. StationTyped'
    BY <1>0, <1>1, <1>5 DEF StationTyped
  <1>7. ControlTyped'
    BY <1>1, NewControlType DEF ControlTyped
  <1>8. PolicyFollowed'
    BY <1>0, <1>1 DEF PolicyFollowed
  <1>9. RatesKept'
    BY <1>0, <1>1, <1>5 DEF RatesKept
  <1>10. OnTheLadder'
    <2>1. assoc < 0 => phyRate' = LadderRate(-1, 0) /\ phyRate' = LadderRate(assoc, 0)
      <3>1. assoc < 0 => LadderRate(assoc, 0) = LadderRate(-1, 0)
        BY <1>3, LadderG
      <3>2. assoc < 0 => ~(assoc >= 0)
        BY <1>3, StationAssumption DEF LinkRange
      <3> QED BY <1>1, <1>2, <3>1, <3>2 DEF DATA_RATE
    <2>2. arm = "expected" => phyRate' = LadderRate(assoc, 0)
      <3>1. assoc < 0 \/ assoc >= 0
        BY <1>3, StationAssumption DEF LinkRange
      <3> QED BY <1>1, <2>1, <3>1
    <2> QED BY <1>1, <2>1, <2>2, NewControlType DEF OnTheLadder
  <1>11. RunCounted'
    BY <1>1, NewControlType, StationAssumption DEF RunCounted
  <1> QED BY <1>6, <1>7, <1>8, <1>9, <1>10, <1>11 DEF StationInv

(* The end of the watch keeps the invariant: the sample rate is cleared and*)
(* the channel forgotten.                                                  *)
LEMMA LinkLostKeeps == ASSUME StationInv, LinkLost PROVE StationInv'
  <1>0. StationTyped /\ ControlTyped /\ PolicyFollowed /\ RatesKept /\ OnTheLadder /\ RunCounted
    BY InvFacts
  <1>1. /\ watching /\ ~connected /\ watching' = FALSE /\ sample' = NoRate
        /\ joinedChannel' = FALSE
        /\ arm' = arm /\ resting' = resting /\ connected' = connected /\ assoc' = assoc
        /\ phyRate' = phyRate /\ control' = control /\ goodSeconds' = goodSeconds
        /\ quality' = quality
    BY DEF LinkLost, radioVars
  <1>2. policy \in Policies /\ policy.phase = "Connected" /\ action.kind = "None" /\ ~resting
    BY <1>0, <1>1 DEF StationTyped, PolicyFollowed, Suits
  <1>3. PICK h : h = On(policy, "Disconnected")
    OBVIOUS
  <1>4. policy' = h.policy /\ action' = h.action
    BY <1>3 DEF LinkLost, Hear
  <1>5. h.policy \in Policies /\ h.action \in StaActions /\ Suits(h.action, h.policy) /\
        h.action.kind # "None"
    BY <1>2, <1>3, HeardDisconnected
  <1>6. StationTyped'
    BY <1>0, <1>1, <1>4, <1>5 DEF StationTyped
  <1>7. ControlTyped' /\ RunCounted'
    BY <1>0, <1>1 DEF ControlTyped, RunCounted
  <1>8. PolicyFollowed'
    BY <1>1, <1>2, <1>4, <1>5 DEF PolicyFollowed
  <1>9. RatesKept'
    BY <1>1, <1>4, <1>5 DEF RatesKept, NoRate
  <1>10. OnTheLadder'
    BY <1>1 DEF OnTheLadder
  <1> QED BY <1>6, <1>7, <1>8, <1>9, <1>10 DEF StationInv

(* A second of the watch keeps the invariant, and the threshold control    *)
(* goes faster in it only at the end of a run.                             *)
LEMMA PollKeeps ==
  ASSUME StationInv, NEW frames \in {0, BUSY_FRAMES}, LinkPoll(frames)
  PROVE  /\ StationInv'
         /\ arm = "threshold" /\ control'.index < control.index => goodSeconds + 1 >= RATE_UP_AFTER
  <1>1. PICK f \in {0, BUSY_FRAMES} : LinkTick(f)
    BY DEF LinkPoll
  <1>2. /\ UNCHANGED <<arm, policy, action, resting, radioVars, joinedChannel, watching>>
        /\ quality' = quality /\ watching /\ arm # "hal"
    BY DEF LinkPoll
  <1> QED BY <1>1, <1>2, TickKeeps

(* The network and the quality of the link change, the station does not. *)
LEMMA EnvKeeps ==
  ASSUME StationInv, NetworkGoes \/ NetworkComes \/ LinkChanges \/ UNCHANGED staVars
  PROVE  StationInv' /\ control' = control
  <1>0. StationTyped /\ ControlTyped /\ PolicyFollowed /\ RatesKept /\ OnTheLadder /\ RunCounted
    BY InvFacts
  <1>1. /\ arm' = arm /\ policy' = policy /\ action' = action /\ resting' = resting /\
           assoc' = assoc
        /\ joinedChannel' = joinedChannel /\ phyRate' = phyRate /\ sample' = sample
        /\ control' = control /\ goodSeconds' = goodSeconds /\ watching' = watching
    BY DEF NetworkGoes, NetworkComes, LinkChanges, staVars, rateVars, radioVars
  <1>2. connected' = connected \/ connected' = FALSE
    BY DEF NetworkGoes, NetworkComes, LinkChanges, staVars, rateVars, radioVars
  <1>3. quality' \in [Rungs -> 0..1000]
    <2>1. quality' = quality \/ quality' \in Qualities
      BY DEF NetworkGoes, NetworkComes, LinkChanges, staVars, rateVars, radioVars
    <2>2. Qualities \subseteq [Rungs -> 0..1000]
      BY StationAssumption DEF Rungs
    <2>3. quality \in [Rungs -> 0..1000]
      BY <1>0 DEF StationTyped
    <2>4. CASE quality' = quality
      BY <2>3, <2>4
    <2>5. CASE quality' \in Qualities
      BY <2>2, <2>5
    <2> QED BY <2>1, <2>4, <2>5
  <1>4. StationTyped'
    <2>1. connected' \in BOOLEAN
      BY <1>0, <1>2 DEF StationTyped
    <2> QED BY <1>0, <1>1, <1>3, <2>1 DEF StationTyped
  <1>5. ControlTyped' /\ RunCounted' /\ RatesKept' /\ OnTheLadder'
    BY <1>0, <1>1 DEF ControlTyped, RunCounted, RatesKept, OnTheLadder
  <1>6. PolicyFollowed'
    BY <1>0, <1>1, <1>2 DEF PolicyFollowed
  <1> QED BY <1>1, <1>4, <1>5, <1>6 DEF StationInv

(* Every step keeps the invariant. *)
LEMMA StationInvNext == StationInv /\ [StationNext]_staVars => StationInv'
  <1> SUFFICES ASSUME StationInv, [StationNext]_staVars PROVE StationInv'
    OBVIOUS
  <1>1. CASE JoinOk
    BY <1>1, JoinKeeps
  <1>2. CASE StationStep
    BY <1>2, JoinFailsKeeps, WaitingKeeps, GiveUpKeeps, RestOverKeeps, StartWatchKeeps,
       LinkLostKeeps
       DEF StationStep
  <1>3. CASE BusySecond \/ IdleSecond
    BY <1>3, PollKeeps DEF BusySecond, IdleSecond
  <1>4. CASE NetworkGoes \/ NetworkComes \/ LinkChanges \/ UNCHANGED staVars
    BY <1>4, EnvKeeps
  <1> QED BY <1>1, <1>2, <1>3, <1>4 DEF StationNext

(* The invariant holds throughout. *)
LEMMA StationInvAlways == StationSpec => []StationInv
  BY StationInvInit, StationInvNext, PTL DEF StationSpec

(* The invariant is what the rates and the channel need. *)
LEMMA InvFits == StationInv => ChannelHonest /\ RatesFitTheLink
  <1> SUFFICES ASSUME StationInv PROVE ChannelHonest /\ RatesFitTheLink
    OBVIOUS
  <1>0. StationTyped /\ ControlTyped /\ PolicyFollowed /\ RatesKept /\ OnTheLadder /\ RunCounted
    BY InvFacts
  <1>1. ChannelHonest
    BY <1>0 DEF ChannelHonest, PolicyFollowed
  <1>2. RatesFitTheLink
    BY <1>0 DEF RatesFitTheLink, PolicyFollowed, RatesKept, OnTheLadder, Active
  <1> QED BY <1>1, <1>2

(* Whatever the links allow, joined_channel() is honest and the driver's   *)
(* rate and sample rate are ones the association takes, those of the       *)
(* control's rung: nothing of the link before survives the join, and       *)
(* override_phy_rate and the control never part (802.11g ladders for the   *)
(* threshold and probing controls, every ladder for the expected-throughput*)
(* one).                                                                   *)
THEOREM RatesFollowTheLink == StationSpec => [](ChannelHonest /\ RatesFitTheLink)
  BY StationInvAlways, InvFits, PTL

(* The threshold control goes to a faster rate only after RATE_UP_AFTER    *)
(* good seconds running at one rate, as the history variable counts them.  *)
THEOREM FasterOnlyAfterARun == StationSpec => FasterAfterARun
  <1>1. StationInv /\ [StationNext]_staVars =>
          [arm = "threshold" /\ watching /\ watching' /\ control'.index < control.index =>
             goodSeconds + 1 >= RATE_UP_AFTER]_staVars
    <2> SUFFICES ASSUME StationInv, [StationNext]_staVars, arm = "threshold", watching, watching',
                        control'.index < control.index
                 PROVE  goodSeconds + 1 >= RATE_UP_AFTER
      OBVIOUS
    <2>0. action.kind = "None" /\ ~resting /\ control.index \in Int
      BY InvFacts, StationAssumption DEF PolicyFollowed, ControlTyped, Thresholds, Rungs
    <2>1. CASE BusySecond \/ IdleSecond
      BY <2>1, PollKeeps DEF BusySecond, IdleSecond
    <2>2. CASE NetworkGoes \/ NetworkComes \/ LinkChanges \/ UNCHANGED staVars
      <3>1. control' = control
        BY <2>2, EnvKeeps
      <3> QED BY <2>0, <3>1
    <2>3. CASE JoinOk \/ StationStep
      BY <2>0, <2>3 DEF JoinOk, StationStep, JoinFails, Waiting, GiveUp, RestOver, StartWatch,
         LinkLost
    <2> QED BY <2>1, <2>2, <2>3 DEF StationNext
  <1> QED BY <1>1, StationInvAlways, PTL DEF StationSpec, FasterAfterARun

(* A rung with something measured, or counted towards it, is at a rate     *)
(* frames were sent at.                                                    *)
CountedWasTried ==
  watching /\ arm = "expected" =>
    \A r \in Rungs : control.prob[r] # PROB_UNKNOWN \/ control.pending[r][1] > 0 =>
                       LadderRate(assoc, r) \in tried

(* On a whole ladder a place in the driver's snapshot is the rung's rate.  *)
LEMMA PlaceIsRung ==
  ASSUME Links \subseteq {-1, RUNGS - 1}, StationTyped, NEW r \in Rungs
  PROVE  LadderRate(assoc, r) = RateAt(r) /\ RateAt(r) # NoRate
  <1>0. assoc \in {-1, RUNGS - 1} /\ RUNGS \in Nat /\ RUNGS > 1 /\ r \in Int /\ r >= 0 /\
        r <= RUNGS - 1
    BY StationAssumption DEF StationTyped, Rungs
  <1>1. RUNGS - 1 - r # -1
    BY <1>0
  <1>2. RateAt(r) # NoRate
    BY <1>1 DEF RateAt, NoRate
  <1>3. CASE assoc = -1
    <2>1. assoc < 0 /\ ((assoc >= 0) = FALSE)
      BY <1>3
    <2>2. LadderRate(assoc, r) = [ht |-> FALSE, speed |-> RUNGS - 1 - r]
      BY <2>1 DEF LadderRate
    <2>3. RateAt(r) = [ht |-> FALSE, speed |-> RUNGS - 1 - r]
      BY <2>1 DEF RateAt
    <2> QED BY <1>2, <2>2, <2>3
  <1>4. CASE assoc = RUNGS - 1
    <2>1. RUNGS - 1 - r \in Int /\ RUNGS - 1 - r >= 0
      BY <1>0
    <2>2. PICK x \in Int : x = RUNGS - 1 - r /\ x >= 0
      BY <2>1
    <2>3. Max({x, 0}) = x
      <3>1. PICK z \in Int : z = 0
        OBVIOUS
      <3>2. Max({x, z}) \in {x, z} /\ Max({x, z}) >= x
        BY PairMax
      <3> QED BY <2>2, <3>1, <3>2
    <2>4. ((assoc >= 0) = TRUE) /\ ~(assoc < 0) /\ assoc - r = x
      BY <1>0, <1>4, <2>2
    <2>5. LadderRate(assoc, r) = [ht |-> TRUE, speed |-> x]
      BY <2>3, <2>4 DEF LadderRate
    <2>6. RateAt(r) = [ht |-> TRUE, speed |-> x]
      BY <2>2, <2>4 DEF RateAt
    <2> QED BY <1>2, <2>5, <2>6
  <1> QED BY <1>0, <1>3, <1>4

(* A second counts only at rates its frames started at. *)
LEMMA PollCounts ==
  ASSUME Links \subseteq {-1, RUNGS - 1}, StationInv, CountedWasTried,
         NEW frames \in {0, BUSY_FRAMES}, LinkPoll(frames)
  PROVE  CountedWasTried'
  <1> SUFFICES ASSUME arm' = "expected" PROVE CountedWasTried'
    BY DEF CountedWasTried
  <1>0. StationTyped /\ ControlTyped /\ PolicyFollowed /\ RatesKept /\ assoc \in LinkRange
    BY InvFacts, AssocType
  <1>1. PICK f \in {0, BUSY_FRAMES} : LinkTick(f)
    BY DEF LinkPoll
  <1>2. watching /\ arm = "expected" /\ assoc' = assoc /\ f \in Nat
    BY StationAssumption DEF LinkPoll, radioVars
  <1>3. PICK seen, t : seen = MeasuredSecond(f) /\ t = Tick(seen, f)
    OBVIOUS
  <1>4. /\ control' = t.control
        /\ tried' = IF f = 0 THEN tried ELSE tried \cup ({phyRate, sample} \ {NoRate})
    BY <1>1, <1>3 DEF LinkTick
  <1>5. control \in Expecteds /\ phyRate \in LadderRates
    BY <1>0, <1>2 DEF ControlTyped, RatesKept, PolicyFollowed
  <1>6. PICK counted : counted = Counted(f)
    OBVIOUS
  <1>7. /\ counted \in [Rungs -> Nat \X Nat]
        /\ \A r \in Rungs : counted[r][1] > 0 => f # 0 /\ RateAt(r) \in {sample, phyRate}
    BY <1>0, <1>6, CountedStep
  <1>8. AirtimeOf[phyRate.speed] + 150 \in Int
    BY <1>0, <1>2, <1>5, SecondType
  <1>9. seen = Seen(control, assoc, counted, f, AirtimeOf[phyRate.speed] + 150) /\
        t = Chosen(seen, assoc)
    BY <1>2, <1>3, <1>6 DEF MeasuredSecond, Tick
  <1>10. /\ seen \in Expecteds /\ seen.prob = Folded(control, counted).prob
         /\ seen.pending = Folded(control, counted).pending
    BY <1>0, <1>2, <1>5, <1>7, <1>8, <1>9, SeenStep
  <1>11. t.control.prob = seen.prob /\ t.control.pending = seen.pending
    BY <1>0, <1>9, <1>10, ChosenStep
  <1>12. ASSUME NEW r \in Rungs, control'.prob[r] # PROB_UNKNOWN \/ control'.pending[r][1] > 0
         PROVE  LadderRate(assoc, r) \in tried'
    <2>1. control.prob[r] # PROB_UNKNOWN \/ control.pending[r][1] > 0 \/ counted[r][1] > 0
      <3>1. \/ Folded(control, counted).prob[r] # PROB_UNKNOWN
            \/ Folded(control, counted).pending[r][1] > 0
        BY <1>4, <1>10, <1>11, <1>12
      <3> QED BY <1>5, <1>7, <3>1, FoldedStep
    <2>2. CASE control.prob[r] # PROB_UNKNOWN \/ control.pending[r][1] > 0
      <3>1. LadderRate(assoc, r) \in tried
        BY <1>2, <2>2 DEF CountedWasTried
      <3> QED BY <1>4, <3>1
    <2>3. CASE counted[r][1] > 0
      <3>1. f # 0 /\ RateAt(r) \in {sample, phyRate}
        BY <1>7, <2>3
      <3>2. LadderRate(assoc, r) = RateAt(r) /\ RateAt(r) # NoRate
        BY <1>0, PlaceIsRung
      <3> QED BY <1>4, <3>1, <3>2
    <2> QED BY <2>1, <2>2, <2>3
  <1> QED BY <1>2, <1>12 DEF CountedWasTried

(* On whole ladders every step keeps what was counted honest. *)
LEMMA CountedNext ==
  ASSUME Links \subseteq {-1, RUNGS - 1}
  PROVE  StationInv /\ CountedWasTried /\ [StationNext]_staVars => CountedWasTried'
  <1> SUFFICES ASSUME StationInv, CountedWasTried, [StationNext]_staVars PROVE CountedWasTried'
    OBVIOUS
  <1>0. PolicyFollowed
    BY InvFacts
  <1>1. CASE JoinOk \/ JoinFails \/ Waiting \/ GiveUp \/ RestOver \/ LinkLost
    <2>1. ~watching'
      BY <1>0, <1>1 DEF PolicyFollowed, JoinOk, JoinFails, Waiting, GiveUp, RestOver, LinkLost
    <2> QED BY <2>1 DEF CountedWasTried
  <1>2. CASE StartWatch
    <2>1. control' = NewControl(arm) /\ arm' = arm
      BY <1>2 DEF StartWatch
    <2>2. ASSUME arm = "expected", NEW r \in Rungs
          PROVE  ~(control'.prob[r] # PROB_UNKNOWN \/ control'.pending[r][1] > 0)
      <3>1. control'.prob[r] = PROB_UNKNOWN /\ control'.pending[r] = <<0, 0>>
        BY <2>1, <2>2, NewControlType
      <3>2. control'.pending[r][1] = 0
        BY <3>1
      <3> QED BY <3>1, <3>2
    <2> QED BY <2>1, <2>2 DEF CountedWasTried
  <1>3. CASE BusySecond \/ IdleSecond
    BY <1>3, PollCounts DEF BusySecond, IdleSecond
  <1>4. CASE NetworkGoes \/ NetworkComes \/ LinkChanges \/ UNCHANGED staVars
    <2>1. /\ watching' = watching /\ arm' = arm /\ control' = control /\ assoc' = assoc /\
             tried' = tried
      BY <1>4 DEF NetworkGoes, NetworkComes, LinkChanges, staVars, rateVars, radioVars
    <2> QED BY <2>1 DEF CountedWasTried
  <1> QED BY <1>1, <1>2, <1>3, <1>4 DEF StationNext, StationStep

(* Where an access point takes the whole ladder, or is 802.11g, what the   *)
(* station tells is true of the link it is on: a probability is known only *)
(* for a rate frames were sent at. (On a shorter HT ladder it is not: the  *)
(* counters are read at places of the full one.)                           *)
THEOREM StationsAreHonest ==
  ASSUME Links \subseteq {-1, RUNGS - 1}
  PROVE  StationSpec => []StationHonest
  <1>1. StationInit => CountedWasTried
    BY DEF StationInit, CountedWasTried
  <1>2. CountedWasTried => MeasuredWasTried
    BY DEF CountedWasTried, MeasuredWasTried
  <1>3. StationInv /\ CountedWasTried => StationHonest
    BY <1>2, InvFits DEF StationHonest
  <1>4. StationInv /\ CountedWasTried /\ [StationNext]_staVars => CountedWasTried'
    BY CountedNext
  <1> QED BY <1>1, <1>3, <1>4, StationInvAlways, PTL DEF StationSpec

-----------------------------------------------------------------------------
(* The relay *)

(* A piece of the host's text; noise is of no line. *)
RelayPieces == [of : Nat, part : {"head", "text", "newline", "noise"}]

Broken == [of |-> 0, part |-> "noise"]

(* A line of the host goes on from one piece to the other. *)
GoesOn(lines, p, q) ==
  /\ q.of = p.of
  /\ \/ p.part = "head" /\ q.part = IF lines[p.of].verb = "T" THEN "text" ELSE "newline"
     \/ p.part = "text" /\ q.part = "newline"

(* What may follow a piece: its line's next one, or the head of another    *)
(* line, or noise.                                                         *)
Fits(lines, p, q) == p.part \in {"head", "text"} => q.part \in {"head", "noise"} \/
GoesOn(lines, p, q)

(* What the relay has of the host's text and has not obeyed.  A line that  *)
(* is overrun is noise, whatever is kept of it.                            *)
Coming == chunk \o rxRing
Kept   == IF overrun THEN <<Broken>> ELSE textLine
Heard  == Kept \o Coming

(* The end of one sequence is the other, but for noise in the first place. *)
Trails(t, s) ==
  /\ Len(t) <= Len(s)
  /\ \A i \in 1 .. Len(t) : t[i] = s[i + (Len(s) - Len(t))] \/ (i = 1 /\ t[i] = Broken)

-----------------------------------------------------------------------------
(* The invariant *)

RelayTyped ==
  /\ hostLines \in Seq(HostCommands)
  /\ typing \in Seq(RelayPieces) /\ rxRing \in Seq(RelayPieces)
  /\ chunk \in Seq(RelayPieces) /\ textLine \in Seq(RelayPieces)
  /\ overrun \in BOOLEAN /\ trial \in Int
  /\ radioed \in Seq(Seq(RelayPieces)) /\ verdicts \in Seq(Nat)

(* What is still to be sent is the end of the host's last line. *)
LineUnderWay ==
  /\ \A i \in 1 .. Len(typing) : typing[i].of = Len(hostLines) /\ typing[i].part # "noise"
  /\ \A i \in 1 .. Len(typing) : i > 1 => GoesOn(hostLines, typing[i - 1], typing[i])
  /\ typing # <<>> => typing[Len(typing)].part = "newline" /\ Len(hostLines) >= 1

(* What was heard is of lines the host wrote, each piece where it may be. *)
Framed ==
  /\ \A i \in 1 .. Len(Heard) : Heard[i].part # "noise" => Heard[i].of \in 1 .. Len(hostLines)
  /\ \A i \in 1 .. Len(Heard) : i > 1 => Fits(hostLines, Heard[i - 1], Heard[i])

(* At the line's speed, what comes next fits too. *)
JoinsUp ==
  typing # <<>> /\ hostBaud = baud /\ Heard # <<>> => Fits(hostLines, Heard[Len(Heard)], typing[1])

(* While a speed is on trial no line is left in its middle, so that the    *)
(* way back to the boot's speed joins no two lines.                        *)
CleanOnTrial ==
  trial # NoTrial /\ Heard # <<>> /\ Heard[Len(Heard)].part \in {"head", "text"} =>
    hostBaud = baud /\ typing # <<>> /\ GoesOn(hostLines, Heard[Len(Heard)], typing[1])

(* A speed is set with nothing else under way. *)
SwitchAlone ==
  doing.verb = "U" => /\ typing = <<>> /\ chunk = <<>> /\ rxRing = <<>> /\ textLine = <<>>
                      /\ ~overrun
                      /\ hostLines # <<>> /\ Last(hostLines).verb # "T"

(* What is not a datagram is the last line there is. *)
AnswerAwaited ==
  \A i \in 1 .. Len(Coming) :
    Coming[i].part = "newline" /\ hostLines[Coming[i].of].verb # "T" =>
      Coming[i].of = Len(hostLines) /\ i = Len(Coming) /\ typing = <<>>

(* Lines are heard in their order, and after those obeyed. *)
InOrder ==
  /\ \A i, j \in 1 .. Len(Heard) :
       i < j /\ Heard[i].part = "head" /\ Heard[j].part = "head" => Heard[i].of < Heard[j].of
  /\ typing # <<>> /\ typing[1].part = "head" =>
       \A i \in 1 .. Len(Heard) : Heard[i].part = "head" => Heard[i].of < Len(hostLines)

AfterTheObeyed ==
  /\ \A j \in 1 .. Len(radioed) :
       /\ Head(radioed[j]).of \in 1 .. Len(hostLines)
       /\ \A i \in 1 .. Len(Heard) : Heard[i].part = "head" => Head(radioed[j]).of < Heard[i].of
  /\ typing # <<>> /\ typing[1].part = "head" =>
       \A j \in 1 .. Len(radioed) : Head(radioed[j]).of < Len(hostLines)

Obeyed(k) == \E j \in 1 .. Len(radioed) : Head(radioed[j]).of = k

VerdictsOfObeyed ==
  /\ \A i \in 1 .. Len(verdicts) : Obeyed(verdicts[i])
  /\ doing.verb = "T" => radioed # <<>>

(* After a line's newline come no more than three pieces for each later    *)
(* line.                                                                   *)
ThreeALine ==
  \A i \in 1 .. Len(Coming) :
    Coming[i].part = "newline" =>
      (Len(Coming) - i) + Len(typing) <= 3 * (Len(hostLines) - Coming[i].of)

(* What waits in the ring is of datagrams that are owed a verdict, no more *)
(* of them than the host keeps outstanding, or of one other line.          *)
OwedFrom(a) ==
  /\ Len(Coming) + Len(typing) <= 3 * (Len(hostLines) - a)
  /\ Len(hostLines) - a <= OUTSTANDING
  /\ \A k \in (a + 1) .. Len(hostLines) : hostLines[k].verb = "T" /\ ~Obeyed(k)

OneOther ==
  /\ Len(Coming) + Len(typing) <= 2
  /\ hostLines # <<>> /\ Last(hostLines).verb # "T"

Owed == (\E a \in 0 .. Len(hostLines) : OwedFrom(a)) \/ OneOther

RelayInv ==
  /\ RelayTyped /\ LineUnderWay /\ Framed /\ JoinsUp /\ CleanOnTrial
  /\ SwitchAlone /\ AnswerAwaited /\ InOrder /\ AfterTheObeyed /\ VerdictsOfObeyed
  /\ ThreeALine /\ Owed /\ RelayFaithful

-----------------------------------------------------------------------------
(* Lemmas on sequences *)

(* Two sequences on end. *)
LEMMA OnEnd ==
  ASSUME NEW S, NEW s \in Seq(S), NEW t \in Seq(S)
  PROVE  /\ s \o t \in Seq(S)
         /\ Len(s) \in Nat /\ Len(t) \in Nat
         /\ Len(s \o t) = Len(s) + Len(t)
         /\ \A i \in 1 .. Len(s) : (s \o t)[i] = s[i]
         /\ \A i \in 1 .. Len(t) : (s \o t)[Len(s) + i] = t[i]
  OBVIOUS

(* One more on the end. *)
LEMMA OneMore ==
  ASSUME NEW S, NEW s \in Seq(S), NEW x \in S
  PROVE  /\ Append(s, x) \in Seq(S)
         /\ Len(s) \in Nat
         /\ Len(Append(s, x)) = Len(s) + 1
         /\ Append(s, x)[Len(s) + 1] = x
         /\ \A i \in 1 .. Len(s) : Append(s, x)[i] = s[i]
  OBVIOUS

(* A part of a sequence. *)
LEMMA PartOf ==
  ASSUME NEW S, NEW s \in Seq(S), NEW m \in 1 .. (Len(s) + 1), NEW n \in 0 .. Len(s)
  PROVE  /\ SubSeq(s, m, n) \in Seq(S)
         /\ Len(SubSeq(s, m, n)) = IF m <= n THEN (n - m) + 1 ELSE 0
         /\ \A i \in 1 .. Len(SubSeq(s, m, n)) : SubSeq(s, m, n)[i] = s[(m + i) - 1]
  OBVIOUS

(* What is left without the first. *)
LEMMA TheRest ==
  ASSUME NEW S, NEW s \in Seq(S), s # <<>>
  PROVE  /\ Tail(s) \in Seq(S) /\ Head(s) \in S /\ Head(s) = s[1]
         /\ Len(s) \in Nat /\ Len(s) >= 1
         /\ Len(Tail(s)) = Len(s) - 1
         /\ \A i \in 1 .. Len(Tail(s)) : Tail(s)[i] = s[i + 1]
  OBVIOUS

(* A sequence's members.                                                   *)
LEMMA EachOf ==
  ASSUME NEW S, NEW s \in Seq(S)
  PROVE  \A i \in 1 .. Len(s) : s[i] \in S
  OBVIOUS

(* What was heard is what is kept and what is coming, on end.              *)
OnEnds ==
  /\ Kept \in Seq(RelayPieces) /\ Coming \in Seq(RelayPieces) /\ Heard \in Seq(RelayPieces)
  /\ Len(Kept) \in Nat /\ Len(Coming) \in Nat
  /\ Len(Heard) = Len(Kept) + Len(Coming)
  /\ \A i \in 1 .. Len(Kept) : Heard[i] = Kept[i]
  /\ \A i \in 1 .. Len(Coming) : Heard[Len(Kept) + i] = Coming[i]

LEMMA HeardTyped == RelayTyped => OnEnds
  <1> SUFFICES ASSUME RelayTyped PROVE OnEnds
    OBVIOUS
  <1>1. Broken \in RelayPieces
    BY DEF Broken, RelayPieces
  <1>2. <<Broken>> \in Seq(RelayPieces)
    BY <1>1
  <1>3. Kept \in Seq(RelayPieces)
    BY <1>2 DEF Kept, RelayTyped
  <1>4. Coming \in Seq(RelayPieces)
    BY OnEnd DEF Coming, RelayTyped
  <1> QED BY <1>3, <1>4, OnEnd DEF Heard, OnEnds

(* The same after a step. *)
LEMMA HeardTypedNext == RelayTyped' => OnEnds'
  <1>1. (RelayTyped => OnEnds)'
    BY HeardTyped, PTL
  <1> QED BY <1>1

(* Each piece of a trailing sequence is the other's, as far from the end.  *)
LEMMA TrailingPiece ==
  ASSUME NEW s \in Seq(RelayPieces), NEW t \in Seq(RelayPieces), Trails(t, s)
  PROVE  /\ Len(t) \in Nat /\ Len(s) \in Nat /\ Len(t) <= Len(s)
         /\ \A i \in 1 .. Len(t) :
              /\ i + (Len(s) - Len(t)) \in 1 .. Len(s)
              /\ i + (Len(s) - Len(t)) = Len(s) <=> i = Len(t)
              /\ t[i].part # "noise" => t[i] = s[i + (Len(s) - Len(t))]
              /\ i > 1 => t[i] = s[i + (Len(s) - Len(t))]
         /\ t # <<>> => /\ s # <<>>
                        /\ t[Len(t)] = s[Len(s)] \/ t[Len(t)].part = "noise"
  <1>1. Len(t) \in Nat /\ Len(s) \in Nat /\ Len(t) <= Len(s)
    BY DEF Trails
  <1>2. ASSUME NEW i \in 1 .. Len(t)
        PROVE  /\ i + (Len(s) - Len(t)) \in 1 .. Len(s)
               /\ i + (Len(s) - Len(t)) = Len(s) <=> i = Len(t)
               /\ t[i].part # "noise" => t[i] = s[i + (Len(s) - Len(t))]
               /\ i > 1 => t[i] = s[i + (Len(s) - Len(t))]
    <2>1. t[i] = s[i + (Len(s) - Len(t))] \/ (i = 1 /\ t[i] = Broken)
      BY DEF Trails
    <2>2. Broken.part = "noise"
      BY DEF Broken
    <2> QED BY <1>1, <2>1, <2>2
  <1>3. ASSUME t # <<>>
        PROVE  s # <<>> /\ (t[Len(t)] = s[Len(s)] \/ t[Len(t)].part = "noise")
    <2>1. Len(t) \in 1 .. Len(t)
      BY <1>1, <1>3
    <2>2. t[Len(t)].part # "noise" => t[Len(t)] = s[Len(t) + (Len(s) - Len(t))]
      BY <1>2, <2>1
    <2>3. Len(t) + (Len(s) - Len(t)) = Len(s) /\ Len(s) >= 1
      BY <1>1, <2>1
    <2> QED BY <2>2, <2>3
  <1> QED BY <1>1, <1>2, <1>3

(* What trails fits, and is in order, as the whole did and was.            *)
LEMMA TrailsFit ==
  ASSUME NEW s \in Seq(RelayPieces), NEW t \in Seq(RelayPieces), Trails(t, s), NEW lines,
         NEW N, \A i \in 1 .. Len(s) : s[i].part # "noise" => s[i].of \in N,
         \A i \in 1 .. Len(s) : i > 1 => Fits(lines, s[i - 1], s[i]),
         \A i, j \in 1 .. Len(s) : i < j /\ s[i].part = "head" /\
         s[j].part = "head" => s[i].of < s[j].of
  PROVE  /\ \A i \in 1 .. Len(t) : t[i].part # "noise" => t[i].of \in N
         /\ \A i \in 1 .. Len(t) : i > 1 => Fits(lines, t[i - 1], t[i])
         /\ \A i, j \in 1 .. Len(t) : i < j /\ t[i].part = "head" /\
            t[j].part = "head" => t[i].of < t[j].of
         /\ \A i \in 1 .. Len(t) : t[i].part = "head" => \E j \in 1 .. Len(s) : t[i] = s[j]
  <1>1. PICK d : d = Len(s) - Len(t)
    OBVIOUS
  <1>2. /\ Len(t) \in Nat /\ Len(s) \in Nat /\ d \in Nat
        /\ \A i \in 1 .. Len(t) : /\ i + d \in 1 .. Len(s)
                                  /\ t[i].part # "noise" => t[i] = s[i + d]
                                  /\ i > 1 => t[i] = s[i + d]
    <2>1. /\ Len(t) \in Nat /\ Len(s) \in Nat /\ Len(t) <= Len(s)
          /\ \A i \in 1 .. Len(t) : /\ i + (Len(s) - Len(t)) \in 1 .. Len(s)
                                    /\ t[i].part # "noise" => t[i] = s[i + (Len(s) - Len(t))]
                                    /\ i > 1 => t[i] = s[i + (Len(s) - Len(t))]
      BY TrailingPiece
    <2>2. Len(s) - Len(t) \in Nat
      BY <2>1
    <2> QED BY <1>1, <2>1, <2>2
  <1>3. ASSUME NEW i \in 1 .. Len(t), i > 1
        PROVE  Fits(lines, t[i - 1], t[i])
    <2>1. i - 1 \in 1 .. Len(t) /\ i + d \in 1 .. Len(s) /\ i + d > 1 /\ (i - 1) + d = (i + d) - 1
      BY <1>2, <1>3
    <2>2. t[i] = s[i + d]
      BY <1>2, <1>3
    <2>3. CASE t[i - 1].part = "noise"
      BY <2>3 DEF Fits
    <2>4. CASE t[i - 1].part # "noise"
      <3>1. t[i - 1] = s[(i + d) - 1]
        BY <1>2, <2>1, <2>4
      <3>2. Fits(lines, s[(i + d) - 1], s[i + d])
        BY <2>1
      <3> QED BY <2>2, <3>1, <3>2
    <2> QED BY <2>3, <2>4
  <1>4. ASSUME NEW i \in 1 .. Len(t), NEW j \in 1 .. Len(t), i < j, t[i].part = "head", t[j].part = "head"
        PROVE  t[i].of < t[j].of
    <2>1. i + d \in 1 .. Len(s) /\ j + d \in 1 .. Len(s) /\ i + d < j + d
      BY <1>2, <1>4
    <2>2. t[i] = s[i + d] /\ t[j] = s[j + d]
      BY <1>2, <1>4
    <2>3. s[i + d].of < s[j + d].of
      BY <1>4, <2>1, <2>2
    <2> QED BY <2>2, <2>3
  <1>5. ASSUME NEW i \in 1 .. Len(t)
        PROVE  /\ t[i].part # "noise" => t[i].of \in N
               /\ t[i].part = "head" => \E j \in 1 .. Len(s) : t[i] = s[j]
    <2>1. CASE t[i].part = "noise"
      BY <2>1
    <2>2. CASE t[i].part # "noise"
      BY <1>2, <2>2
    <2> QED BY <2>1, <2>2
  <1> QED BY <1>3, <1>4, <1>5

(* What trails a well framed text leaves the next piece where it was.      *)
LEMMA TrailsKeep ==
  ASSUME RelayInv, RelayTyped', Trails(Heard', Heard), Trails(Coming', Coming),
         UNCHANGED <<hostLines, typing, hostBaud, baud>>, trial' \in {trial, NoTrial}
  PROVE  LineUnderWay' /\ Framed' /\ JoinsUp' /\ CleanOnTrial' /\ AnswerAwaited' /\ InOrder' /\
         ThreeALine'
  <1>0. /\ RelayTyped /\ LineUnderWay /\ Framed /\ JoinsUp /\ CleanOnTrial /\ AnswerAwaited
        /\ InOrder /\ ThreeALine
    BY DEF RelayInv
  <1>1. /\ Heard \in Seq(RelayPieces) /\ Coming \in Seq(RelayPieces)
        /\ Heard' \in Seq(RelayPieces) /\ Coming' \in Seq(RelayPieces)
    <2>1. OnEnds /\ OnEnds'
      BY <1>0, HeardTyped, HeardTypedNext
    <2> QED BY <2>1 DEF OnEnds
  <1>2. LineUnderWay'
    BY <1>0 DEF LineUnderWay
  <1>3. /\ \A i \in 1 .. Len(Heard') : Heard'[i].part # "noise" =>
           Heard'[i].of \in 1 .. Len(hostLines)
        /\ \A i \in 1 .. Len(Heard') : i > 1 => Fits(hostLines, Heard'[i - 1], Heard'[i])
        /\ \A i, j \in 1 .. Len(Heard') :
             i < j /\ Heard'[i].part = "head" /\
             Heard'[j].part = "head" => Heard'[i].of < Heard'[j].of
        /\ \A i \in 1 .. Len(Heard') : Heard'[i].part = "head" =>
           \E j \in 1 .. Len(Heard) : Heard'[i] = Heard[j]
    <2>1. /\ \A i \in 1 .. Len(Heard) : Heard[i].part # "noise" =>
             Heard[i].of \in 1 .. Len(hostLines)
          /\ \A i \in 1 .. Len(Heard) : i > 1 => Fits(hostLines, Heard[i - 1], Heard[i])
      BY <1>0 DEF Framed
    <2>2. \A i, j \in 1 .. Len(Heard) :
             i < j /\ Heard[i].part = "head" /\ Heard[j].part = "head" => Heard[i].of < Heard[j].of
      BY <1>0 DEF InOrder
    <2>3. PICK t \in Seq(RelayPieces) : t = Heard'
      BY <1>1
    <2> QED BY <1>1, <2>1, <2>2, <2>3, TrailsFit
  <1>4. Framed' /\ InOrder'
    <2>1. Framed'
      BY <1>3 DEF Framed
    <2>2. ASSUME typing # <<>>, typing[1].part = "head", NEW i \in 1 .. Len(Heard'), Heard'[i].part = "head"
          PROVE  Heard'[i].of < Len(hostLines)
      <3>1. PICK j \in 1 .. Len(Heard) : Heard'[i] = Heard[j]
        BY <1>3, <2>2
      <3> QED BY <1>0, <2>2, <3>1 DEF InOrder
    <2> QED BY <1>3, <2>1, <2>2 DEF InOrder
  <1>5. Heard' # <<>> => /\ Heard # <<>>
                         /\ Heard'[Len(Heard')] = Heard[Len(Heard)] \/
                            Heard'[Len(Heard')].part = "noise"
    BY <1>1, TrailingPiece
  <1>6. JoinsUp'
    BY <1>0, <1>5 DEF JoinsUp, Fits
  <1>7. CleanOnTrial'
    BY <1>0, <1>5 DEF CleanOnTrial
  <1>8. /\ Len(Coming') \in Nat /\ Len(Coming) \in Nat
        /\ \A i \in 1 .. Len(Coming') :
             /\ i + (Len(Coming) - Len(Coming')) \in 1 .. Len(Coming)
             /\ i + (Len(Coming) - Len(Coming')) = Len(Coming) <=> i = Len(Coming')
             /\ Coming'[i].part # "noise" => Coming'[i] = Coming[i + (Len(Coming) - Len(Coming'))]
    BY <1>1, TrailingPiece
  <1>9. AnswerAwaited'
    <2> SUFFICES ASSUME NEW i \in 1 .. Len(Coming'), Coming'[i].part = "newline",
                        hostLines[Coming'[i].of].verb # "T"
                 PROVE  Coming'[i].of = Len(hostLines) /\ i = Len(Coming') /\ typing = <<>>
      BY DEF AnswerAwaited
    <2>1. PICK j : j = i + (Len(Coming) - Len(Coming'))
      OBVIOUS
    <2>2. j \in 1 .. Len(Coming) /\ Coming'[i] = Coming[j] /\ (j = Len(Coming) <=> i = Len(Coming'))
      BY <1>8, <2>1
    <2>3. Coming[j].part = "newline" /\ hostLines[Coming[j].of].verb # "T"
      BY <2>2
    <2> QED BY <1>0, <2>2, <2>3 DEF AnswerAwaited
  <1>10. ThreeALine'
    <2> SUFFICES ASSUME NEW i \in 1 .. Len(Coming'), Coming'[i].part = "newline"
                 PROVE  (Len(Coming') - i) + Len(typing) <= 3 * (Len(hostLines) - Coming'[i].of)
      BY DEF ThreeALine
    <2>1. PICK j : j = i + (Len(Coming) - Len(Coming'))
      OBVIOUS
    <2>2. j \in 1 .. Len(Coming) /\ Coming'[i] = Coming[j] /\ Len(Coming) - j = Len(Coming') - i
      BY <1>8, <2>1
    <2>3. Coming[j].part = "newline"
      BY <2>2
    <2>4. (Len(Coming) - j) + Len(typing) <= 3 * (Len(hostLines) - Coming[j].of)
      BY <1>0, <2>2, <2>3 DEF ThreeALine
    <2> QED BY <2>2, <2>4
  <1> QED BY <1>2, <1>4, <1>6, <1>7, <1>9, <1>10

-----------------------------------------------------------------------------
(* The steps by which the loop takes the text *)

(* From the ring to the chunk nothing is lost or moved.                    *)
LEMMA PopTrails ==
  ASSUME RelayTyped, Pop
  PROVE  /\ RelayTyped' /\ Trails(Heard', Heard) /\ Trails(Coming', Coming)
         /\ Len(Coming') <= Len(Coming)
  <1>1. PICK n \in {IF Len(rxRing) < CHUNK THEN Len(rxRing) ELSE CHUNK} :
          chunk' = SubSeq(rxRing, 1, n) /\ rxRing' = SubSeq(rxRing, n + 1, Len(rxRing))
    BY DEF Pop
  <1>2. /\ chunk = <<>> /\ rxRing \in Seq(RelayPieces) /\ Kept' = Kept
        /\ UNCHANGED <<hostLines, typing, textLine, overrun, trial, radioed, verdicts>>
    BY DEF Pop, RelayTyped, hostVars, airVars, Kept
  <1>3. n \in 0 .. Len(rxRing) /\ Len(rxRing) \in Nat
    BY <1>2, RelayAssumption
  <1>4. /\ chunk' \in Seq(RelayPieces) /\ rxRing' \in Seq(RelayPieces)
        /\ Len(chunk') = n /\ Len(rxRing') = Len(rxRing) - n
        /\ \A i \in 1 .. n : chunk'[i] = rxRing[i]
        /\ \A i \in 1 .. (Len(rxRing) - n) : rxRing'[i] = rxRing[n + i]
    <2>1. PICK a : a = SubSeq(rxRing, 1, n)
      OBVIOUS
    <2>2. 1 \in 1 .. (Len(rxRing) + 1) /\ n + 1 \in 1 .. (Len(rxRing) + 1) /\
          Len(rxRing) \in 0 .. Len(rxRing)
      BY <1>3
    <2>3. a \in Seq(RelayPieces) /\ Len(a) = n /\ \A i \in 1 .. n : a[i] = rxRing[i]
      BY <1>2, <1>3, <2>1, <2>2, PartOf
    <2>4. PICK b : b = SubSeq(rxRing, n + 1, Len(rxRing))
      OBVIOUS
    <2>5. /\ b \in Seq(RelayPieces)
          /\ Len(b) = IF n + 1 <= Len(rxRing) THEN (Len(rxRing) - (n + 1)) + 1 ELSE 0
          /\ \A i \in 1 .. Len(b) : b[i] = rxRing[((n + 1) + i) - 1]
      BY <1>2, <2>2, <2>4, PartOf
    <2>6. Len(b) = Len(rxRing) - n
      BY <1>3, <2>5
    <2>7. \A i \in 1 .. (Len(rxRing) - n) : b[i] = rxRing[n + i]
      BY <1>3, <2>5, <2>6
    <2> QED BY <1>1, <2>1, <2>3, <2>4, <2>5, <2>6, <2>7
  <1>5. RelayTyped'
    BY <1>2, <1>4 DEF RelayTyped
  <1>6. /\ Len(Coming) = Len(rxRing) /\ Len(Coming') = Len(rxRing)
        /\ \A i \in 1 .. Len(rxRing) : Coming'[i] = Coming[i]
    <2>1. Coming = rxRing
      BY <1>2 DEF Coming
    <2>2. /\ Len(chunk' \o rxRing') = n + (Len(rxRing) - n)
          /\ \A i \in 1 .. n : (chunk' \o rxRing')[i] = chunk'[i]
          /\ \A i \in 1 .. (Len(rxRing) - n) : (chunk' \o rxRing')[n + i] = rxRing'[i]
      <3>1. PICK a \in Seq(RelayPieces), b \in Seq(RelayPieces) : a = chunk' /\ b = rxRing'
        BY <1>4
      <3>2. /\ Len(a \o b) = Len(a) + Len(b)
            /\ \A i \in 1 .. Len(a) : (a \o b)[i] = a[i]
            /\ \A i \in 1 .. Len(b) : (a \o b)[Len(a) + i] = b[i]
        BY OnEnd
      <3>3. Len(a) = n /\ Len(b) = Len(rxRing) - n
        BY <1>4, <3>1
      <3> QED BY <3>1, <3>2, <3>3
    <2>3. ASSUME NEW i \in 1 .. Len(rxRing)
          PROVE  (chunk' \o rxRing')[i] = rxRing[i]
      <3>0. n \in Nat /\ i \in Nat /\ (i <= n \/ i > n)
        BY <1>3
      <3>1. CASE i <= n
        BY <1>3, <1>4, <2>2, <3>1
      <3>2. CASE i > n
        <4>1. PICK k \in 1 .. (Len(rxRing) - n) : n + k = i
          <5>1. i - n \in 1 .. (Len(rxRing) - n) /\ n + (i - n) = i
            BY <1>3, <3>2
          <5> QED BY <5>1
        <4>2. (chunk' \o rxRing')[n + k] = rxRing'[k]
          BY <2>2, <4>1
        <4>3. rxRing'[k] = rxRing[n + k]
          BY <1>4, <4>1
        <4> QED BY <4>1, <4>2, <4>3
      <3> QED BY <3>0, <3>1, <3>2
    <2>4. Coming' = chunk' \o rxRing'
      BY DEF Coming
    <2>5. n + (Len(rxRing) - n) = Len(rxRing)
      BY <1>3
    <2> QED BY <2>1, <2>2, <2>3, <2>4, <2>5
  <1>7. Trails(Coming', Coming)
    BY <1>3, <1>6 DEF Trails
  <1>8. /\ Len(Heard) = Len(Kept) + Len(Coming) /\ Len(Kept) \in Nat
        /\ \A i \in 1 .. Len(Kept) : Heard[i] = Kept[i]
        /\ \A i \in 1 .. Len(Coming) : Heard[Len(Kept) + i] = Coming[i]
    BY HeardTyped DEF OnEnds
  <1>9. /\ Len(Heard') = Len(Kept') + Len(Coming')
        /\ \A i \in 1 .. Len(Kept') : Heard'[i] = Kept'[i]
        /\ \A i \in 1 .. Len(Coming') : Heard'[Len(Kept') + i] = Coming'[i]
    BY <1>5, HeardTypedNext DEF OnEnds
  <1>10. ASSUME NEW i \in 1 .. Len(Heard')
         PROVE  Heard'[i] = Heard[i]
    <2>1. CASE i <= Len(Kept)
      BY <1>2, <1>8, <1>9, <2>1
    <2>2. CASE i > Len(Kept)
      <3>1. PICK k : k = i - Len(Kept)
        OBVIOUS
      <3>2. k \in 1 .. Len(rxRing) /\ i = Len(Kept) + k
        BY <1>2, <1>3, <1>6, <1>8, <1>9, <2>2, <3>1
      <3> QED BY <1>2, <1>6, <1>8, <1>9, <3>2
    <2> QED BY <1>8, <2>1, <2>2
  <1>11. Trails(Heard', Heard)
    <2>1. Len(Heard') = Len(Heard) /\ Len(Heard) \in Nat
      BY <1>2, <1>3, <1>6, <1>8, <1>9
    <2> QED BY <1>10, <2>1 DEF Trails
  <1> QED BY <1>3, <1>5, <1>6, <1>7, <1>11

(* What is coming is the chunk and the ring, on end.                       *)
LEMMA ComingParts ==
  ASSUME RelayTyped
  PROVE  /\ Len(chunk) \in Nat /\ Len(rxRing) \in Nat
         /\ Len(Coming) = Len(chunk) + Len(rxRing)
         /\ \A i \in 1 .. Len(chunk) : Coming[i] = chunk[i]
         /\ \A i \in 1 .. Len(rxRing) : Coming[Len(chunk) + i] = rxRing[i]
  <1>1. chunk \in Seq(RelayPieces) /\ rxRing \in Seq(RelayPieces)
    BY DEF RelayTyped
  <1> QED BY <1>1, OnEnd DEF Coming

(* With the chunk taken whole, the ring is what is coming.                 *)
LEMMA ChunkTaken ==
  ASSUME RelayTyped, chunk' = <<>>, rxRing' = rxRing
  PROVE  /\ Coming' = rxRing /\ Trails(Coming', Coming)
         /\ Len(Coming) = Len(chunk) + Len(Coming')
         /\ Len(Coming') \in Nat
  <1>1. Coming' = rxRing
    BY DEF Coming, RelayTyped
  <1>2. /\ Len(chunk) \in Nat /\ Len(rxRing) \in Nat
        /\ Len(Coming) = Len(chunk) + Len(rxRing)
        /\ \A i \in 1 .. Len(rxRing) : Coming[Len(chunk) + i] = rxRing[i]
    BY ComingParts
  <1>3. ASSUME NEW i \in 1 .. Len(rxRing)
        PROVE  rxRing[i] = Coming[i + (Len(Coming) - Len(rxRing))]
    <2>1. i + (Len(Coming) - Len(rxRing)) = Len(chunk) + i
      BY <1>2
    <2> QED BY <1>2, <2>1
  <1> QED BY <1>1, <1>2, <1>3 DEF Trails

(* A part of a line is kept, or the line is overrun.                       *)
LEMMA PartTrails ==
  ASSUME RelayTyped, TakePart
  PROVE  /\ RelayTyped' /\ Trails(Heard', Heard) /\ Trails(Coming', Coming)
         /\ Len(Coming') <= Len(Coming)
  <1>1. PICK whole : whole = textLine \o chunk
    OBVIOUS
  <1>2. PICK n : n = IF Len(whole) < LINE_PIECES THEN Len(whole) ELSE LINE_PIECES
    OBVIOUS
  <1>3. /\ chunk # <<>> /\ chunk' = <<>> /\ rxRing' = rxRing
        /\ textLine' = SubSeq(whole, 1, n)
        /\ overrun' = (overrun \/ Len(whole) > LINE_PIECES)
        /\ UNCHANGED <<hostLines, typing, trial, radioed, verdicts>>
    BY <1>1, <1>2 DEF TakePart, Take, hostVars, airVars
  <1>4. /\ chunk \in Seq(RelayPieces) /\ textLine \in Seq(RelayPieces) /\ overrun \in BOOLEAN
        /\ Len(chunk) \in Nat /\ Len(chunk) >= 1
    BY <1>3 DEF RelayTyped
  <1>5. /\ whole \in Seq(RelayPieces) /\ Len(textLine) \in Nat
        /\ Len(whole) = Len(textLine) + Len(chunk)
        /\ \A i \in 1 .. Len(textLine) : whole[i] = textLine[i]
        /\ \A i \in 1 .. Len(chunk) : whole[Len(textLine) + i] = chunk[i]
    BY <1>1, <1>4, OnEnd
  <1>6. n \in 0 .. Len(whole) /\ Len(whole) \in Nat /\ 1 \in 1 .. (Len(whole) + 1)
    BY <1>2, <1>4, <1>5, RelayAssumption
  <1>7. /\ textLine' \in Seq(RelayPieces) /\ Len(textLine') = n
        /\ \A i \in 1 .. n : textLine'[i] = whole[i]
    <2>1. PICK t : t = SubSeq(whole, 1, n)
      OBVIOUS
    <2>2. t \in Seq(RelayPieces) /\ Len(t) = n /\ \A i \in 1 .. n : t[i] = whole[i]
      BY <1>5, <1>6, <2>1, PartOf
    <2> QED BY <1>3, <2>1, <2>2
  <1>8. RelayTyped'
    <2>1. <<>> \in Seq(RelayPieces)
      OBVIOUS
    <2>2. overrun' \in BOOLEAN
      BY <1>3, <1>4
    <2> QED BY <1>3, <1>7, <2>1, <2>2 DEF RelayTyped
  <1>9. /\ Coming' = rxRing /\ Trails(Coming', Coming)
        /\ Len(Coming) = Len(chunk) + Len(Coming') /\ Len(Coming') \in Nat
    BY <1>3, ChunkTaken
  <1>10. /\ Len(Heard) = Len(Kept) + Len(Coming) /\ Len(Kept) \in Nat
         /\ \A i \in 1 .. Len(Kept) : Heard[i] = Kept[i]
         /\ \A i \in 1 .. Len(Coming) : Heard[Len(Kept) + i] = Coming[i]
    BY HeardTyped DEF OnEnds
  <1>11. /\ Len(Heard') = Len(Kept') + Len(Coming') /\ Len(Kept') \in Nat
         /\ \A i \in 1 .. Len(Kept') : Heard'[i] = Kept'[i]
         /\ \A i \in 1 .. Len(Coming') : Heard'[Len(Kept') + i] = Coming'[i]
    BY <1>8, HeardTypedNext DEF OnEnds
  <1>12. /\ \A i \in 1 .. Len(chunk) : Coming[i] = chunk[i]
         /\ \A i \in 1 .. Len(Coming') : Coming[Len(chunk) + i] = Coming'[i]
    BY <1>9, ComingParts
  <1>13. CASE overrun'
    <2>1. Kept' = <<Broken>>
      BY <1>13 DEF Kept
    <2>2. Len(Heard') = 1 + Len(Coming') /\ Heard'[1] = Broken
          /\ \A i \in 1 .. Len(Coming') : Heard'[1 + i] = Coming'[i]
      BY <1>11, <2>1
    <2>3. Len(Heard') <= Len(Heard) /\ Len(Heard) \in Nat
      BY <1>4, <1>9, <1>10, <2>2
    <2>4. ASSUME NEW i \in 1 .. Len(Heard'), i > 1
          PROVE  Heard'[i] = Heard[i + (Len(Heard) - Len(Heard'))]
      <3>1. PICK k : k = i - 1
        OBVIOUS
      <3>2. k \in 1 .. Len(Coming') /\ i = 1 + k
        BY <1>9, <2>2, <2>4, <3>1
      <3>3. Len(chunk) + k \in 1 .. Len(Coming)
        BY <1>4, <1>9, <3>2
      <3>4. i + (Len(Heard) - Len(Heard')) = Len(Kept) + (Len(chunk) + k)
        BY <1>4, <1>9, <1>10, <2>2, <3>2
      <3>5. Heard[Len(Kept) + (Len(chunk) + k)] = Coming'[k]
        BY <1>10, <1>12, <3>2, <3>3
      <3> QED BY <2>2, <3>2, <3>4, <3>5
    <2>5. ASSUME NEW i \in 1 .. Len(Heard')
          PROVE  Heard'[i] = Heard[i + (Len(Heard) - Len(Heard'))] \/ (i = 1 /\ Heard'[i] = Broken)
      <3>1. i = 1 \/ i > 1
        BY <1>9, <2>2
      <3> QED BY <2>2, <2>4, <3>1
    <2>6. Trails(Heard', Heard)
      BY <2>3, <2>5 DEF Trails
    <2> QED BY <1>4, <1>8, <1>9, <2>6
  <1>14. CASE ~overrun'
    <2>1. ~overrun /\ ~(Len(whole) > LINE_PIECES)
      BY <1>3, <1>4, <1>14
    <2>2. n = Len(whole)
      BY <1>2, <1>6, <2>1, RelayAssumption
    <2>3. Kept = textLine /\ Kept' = textLine'
      BY <1>14, <2>1 DEF Kept
    <2>4. Len(Kept') = Len(Kept) + Len(chunk) /\ Len(Heard') = Len(Heard) /\ Len(Heard) \in Nat
      <3>1. Len(Kept') = n /\ Len(Kept) = Len(textLine)
        BY <1>7, <2>3
      <3>2. Len(Kept') = Len(Kept) + Len(chunk)
        BY <1>5, <2>2, <3>1
      <3>3. Len(Coming) = Len(chunk) + Len(Coming') /\ Len(Heard) = Len(Kept) + Len(Coming)
            /\ Len(Heard') = Len(Kept') + Len(Coming')
        BY <1>9, <1>10, <1>11
      <3> QED BY <1>4, <1>9, <1>10, <3>2, <3>3
    <2>5. ASSUME NEW i \in 1 .. Len(Heard')
          PROVE  Heard'[i] = Heard[i]
      <3>1. CASE i <= Len(Kept)
        BY <1>5, <1>6, <1>7, <1>10, <1>11, <2>2, <2>3, <2>4, <3>1
      <3>2. CASE i > Len(Kept) /\ i <= Len(Kept')
        <4>1. PICK k : k = i - Len(Kept)
          OBVIOUS
        <4>2. k \in 1 .. Len(chunk) /\ i = Len(Kept) + k /\ k \in 1 .. Len(Coming) /\
              i \in 1 .. Len(Kept')
          BY <1>4, <1>9, <1>10, <2>4, <3>2, <4>1
        <4>3. Heard'[i] = chunk[k]
          BY <1>5, <1>7, <1>11, <2>2, <2>3, <4>2
        <4>4. Heard[Len(Kept) + k] = chunk[k]
          BY <1>10, <1>12, <4>2
        <4> QED BY <4>2, <4>3, <4>4
      <3>3. CASE i > Len(Kept')
        <4>1. PICK k : k = i - Len(Kept')
          OBVIOUS
        <4>2. k \in 1 .. Len(Coming') /\ i = Len(Kept') + k /\ i = Len(Kept) + (Len(chunk) + k)
              /\ Len(chunk) + k \in 1 .. Len(Coming)
          BY <1>4, <1>9, <1>10, <1>11, <2>4, <3>3, <4>1
        <4>3. Heard'[i] = Coming'[k]
          BY <1>11, <4>2
        <4>4. Heard[Len(Kept) + (Len(chunk) + k)] = Coming'[k]
          BY <1>10, <1>12, <4>2
        <4> QED BY <4>2, <4>3, <4>4
      <3>4. i <= Len(Kept) \/ (i > Len(Kept) /\ i <= Len(Kept')) \/ i > Len(Kept')
        BY <1>10, <1>11, <2>4
      <3> QED BY <3>1, <3>2, <3>3, <3>4
    <2>6. Trails(Heard', Heard)
      BY <2>4, <2>5 DEF Trails
    <2> QED BY <1>4, <1>8, <1>9, <2>6
  <1> QED BY <1>13, <1>14

(* The newline looked for is one, and is in the chunk.                     *)
LEMMA NewlineFound ==
  ASSUME RelayTyped, Nextline # 0
  PROVE  Nextline \in 1 .. Len(chunk) /\ chunk[Nextline].part = "newline"
  <1>1. PICK I : I = {i \in 1 .. Len(chunk) : Newline(chunk[i])}
    OBVIOUS
  <1>2. Nextline = IF I # {} THEN Min(I) ELSE 0
    BY <1>1 DEF Nextline, SelectInSeq
  <1>3. I # {} /\ Nextline = Min(I)
    BY <1>2
  <1>4. I \in SUBSET Nat
    BY <1>1
  <1>5. \E m \in I : \A n \in I : m <= n
    BY <1>3, <1>4, LeastOfNaturals
  <1>6. Min(I) \in I
    BY <1>5 DEF Min
  <1> QED BY <1>1, <1>3, <1>6 DEF Newline

(* The line obeyed is what was kept and the chunk up to its newline; an    *)
(* overrun one is obeyed as nothing.                                       *)
LEMMA TheLine ==
  ASSUME RelayTyped, TakeLine
  PROVE  \E text, c :
           /\ text \in Seq(RelayPieces)
           /\ Obey(text, c)
           /\ c # Nothing => /\ ~overrun /\ c = Parsed(text)
                             /\ text = textLine \o SubSeq(chunk, 1, Nextline - 1)
  <1>1. PICK segment : segment = SubSeq(chunk, 1, Nextline - 1)
    OBVIOUS
  <1>2. PICK whole : whole = textLine \o segment
    OBVIOUS
  <1>3. PICK n : n = IF Len(whole) < LINE_PIECES THEN Len(whole) ELSE LINE_PIECES
    OBVIOUS
  <1>4. PICK t \in {Take(SubSeq(chunk, 1, Nextline - 1))} :
          Obey(t.textLine, IF t.overrun THEN Nothing ELSE Parsed(t.textLine))
    BY DEF TakeLine
  <1>5. t = [textLine |-> SubSeq(whole, 1, n), overrun |-> (overrun \/ Len(whole) > LINE_PIECES)]
    BY <1>1, <1>2, <1>3, <1>4 DEF Take
  <1>6. PICK text, c : text = t.textLine /\ c = IF t.overrun THEN Nothing ELSE Parsed(text)
    OBVIOUS
  <1>7. Nextline \in 1 .. Len(chunk) /\ chunk \in Seq(RelayPieces) /\ textLine \in Seq(RelayPieces)
        /\ Len(chunk) \in Nat
    BY NewlineFound DEF TakeLine, RelayTyped
  <1>8. segment \in Seq(RelayPieces)
    <2>1. 1 \in 1 .. (Len(chunk) + 1) /\ Nextline - 1 \in 0 .. Len(chunk)
      BY <1>7
    <2> QED BY <1>1, <1>7, <2>1, PartOf
  <1>9. whole \in Seq(RelayPieces)
    BY <1>2, <1>7, <1>8, OnEnd
  <1>10. n \in 0 .. Len(whole) /\ 1 \in 1 .. (Len(whole) + 1) /\ Len(whole) \in Nat
    BY <1>3, <1>9, RelayAssumption
  <1>11. text \in Seq(RelayPieces)
    BY <1>5, <1>6, <1>9, <1>10, PartOf
  <1>12. ASSUME c # Nothing
         PROVE  ~overrun /\ c = Parsed(text) /\ text = whole
    <2>1. ~t.overrun
      BY <1>6, <1>12
    <2>2. ~overrun /\ ~(Len(whole) > LINE_PIECES)
      BY <1>5, <2>1
    <2>3. n = Len(whole)
      BY <1>3, <1>10, <2>2, RelayAssumption
    <2>4. text = SubSeq(whole, 1, Len(whole))
      BY <1>5, <1>6, <2>3
    <2>5. text = whole
      BY <1>9, <2>4
    <2> QED BY <1>6, <2>1, <2>2, <2>5
  <1>13. Obey(text, c)
    BY <1>4, <1>6
  <1> QED BY <1>1, <1>2, <1>11, <1>12, <1>13

(* A whole line leaves what came after it.                                 *)
LEMMA LineTrails ==
  ASSUME RelayTyped, TakeLine
  PROVE  /\ RelayTyped' /\ Trails(Heard', Heard) /\ Trails(Coming', Coming)
         /\ Kept' = <<>> /\ Heard' = Coming'
         /\ Len(Coming') = Len(Coming) - Nextline
  <1>1. /\ chunk' = SubSeq(chunk, Nextline + 1, Len(chunk)) /\ rxRing' = rxRing
        /\ textLine' = <<>> /\ overrun' = FALSE
        /\ UNCHANGED <<hostLines, typing, verdicts>>
    BY DEF TakeLine, hostVars
  <1>2. /\ Nextline \in 1 .. Len(chunk) /\ Len(chunk) \in Nat /\ chunk \in Seq(RelayPieces)
        /\ rxRing \in Seq(RelayPieces) /\ Len(rxRing) \in Nat
    BY NewlineFound DEF TakeLine, RelayTyped
  <1>3. /\ chunk' \in Seq(RelayPieces) /\ Len(chunk') = Len(chunk) - Nextline
        /\ \A i \in 1 .. Len(chunk') : chunk'[i] = chunk[Nextline + i]
    <2>1. PICK b : b = SubSeq(chunk, Nextline + 1, Len(chunk))
      OBVIOUS
    <2>2. Nextline + 1 \in 1 .. (Len(chunk) + 1) /\ Len(chunk) \in 0 .. Len(chunk)
      BY <1>2
    <2>3. /\ b \in Seq(RelayPieces)
          /\ Len(b) = IF Nextline + 1 <= Len(chunk) THEN (Len(chunk) - (Nextline + 1)) + 1 ELSE 0
          /\ \A i \in 1 .. Len(b) : b[i] = chunk[((Nextline + 1) + i) - 1]
      BY <1>2, <2>1, <2>2, PartOf
    <2>4. Len(b) = Len(chunk) - Nextline
      <3>1. PICK l \in Nat, k \in Nat : l = Len(chunk) /\ k = Nextline /\ k \in 1 .. l
        BY <1>2
      <3>2. Len(b) = IF k + 1 <= l THEN (l - (k + 1)) + 1 ELSE 0
        BY <2>3, <3>1
      <3>3. l - (k + 1) + 1 = l - k /\ (~(k + 1 <= l) => l - k = 0)
        BY <3>1
      <3>4. Len(b) = l - k
        BY <3>2, <3>3
      <3> QED BY <3>1, <3>4
    <2>5. \A i \in 1 .. Len(b) : b[i] = chunk[Nextline + i]
      BY <1>2, <2>3, <2>4
    <2> QED BY <1>1, <2>1, <2>3, <2>4, <2>5
  <1>4. radioed' \in Seq(Seq(RelayPieces)) /\ trial' \in Int
    <2>1. PICK text, c : text \in Seq(RelayPieces) /\ Obey(text, c)
      BY TheLine
    <2>2. radioed \in Seq(Seq(RelayPieces)) /\ trial \in Int
      BY DEF RelayTyped
    <2>3. Append(radioed, text) \in Seq(Seq(RelayPieces))
      BY <2>1, <2>2, OneMore
    <2> QED BY <2>1, <2>2, <2>3 DEF Obey, NoTrial
  <1>5. RelayTyped'
    <2>1. textLine' \in Seq(RelayPieces) /\ overrun' \in BOOLEAN
      <3>1. <<>> \in Seq(RelayPieces) /\ FALSE \in BOOLEAN
        OBVIOUS
      <3> QED BY <1>1, <3>1
    <2>2. hostLines' = hostLines /\ typing' = typing /\ verdicts' = verdicts /\ rxRing' = rxRing
      BY <1>1
    <2> QED BY <1>3, <1>4, <2>1, <2>2 DEF RelayTyped
  <1>6. Kept' = <<>> /\ Coming' \in Seq(RelayPieces) /\ Len(Coming') \in Nat
    BY <1>1, <1>5, HeardTypedNext DEF Kept, OnEnds
  <1>7. Heard' = Coming'
    BY <1>6 DEF Heard
  <1>8. /\ Len(Coming) = Len(chunk) + Len(rxRing)
        /\ \A i \in 1 .. Len(chunk) : Coming[i] = chunk[i]
        /\ \A i \in 1 .. Len(rxRing) : Coming[Len(chunk) + i] = rxRing[i]
    BY ComingParts
  <1>9. /\ Len(Coming') = Len(chunk') + Len(rxRing)
        /\ \A i \in 1 .. Len(chunk') : Coming'[i] = chunk'[i]
        /\ \A i \in 1 .. Len(rxRing) : Coming'[Len(chunk') + i] = rxRing[i]
    <2>1. PICK a \in Seq(RelayPieces) : a = chunk'
      BY <1>3
    <2>2. Coming' = a \o rxRing
      BY <1>1, <2>1 DEF Coming
    <2>3. /\ Len(a \o rxRing) = Len(a) + Len(rxRing)
          /\ \A i \in 1 .. Len(a) : (a \o rxRing)[i] = a[i]
          /\ \A i \in 1 .. Len(rxRing) : (a \o rxRing)[Len(a) + i] = rxRing[i]
      BY <1>2, OnEnd
    <2> QED BY <2>1, <2>2, <2>3
  <1>10. Len(Coming') = Len(Coming) - Nextline /\ Len(Coming) \in Nat
    BY <1>2, <1>3, <1>8, <1>9
  <1>11. ASSUME NEW i \in 1 .. Len(Coming')
         PROVE  /\ Nextline + i \in 1 .. Len(Coming)
                /\ Coming'[i] = Coming[Nextline + i]
    <2>1. Nextline + i \in 1 .. Len(Coming)
      BY <1>2, <1>10
    <2>2. CASE i <= Len(chunk')
      <3>1. i \in 1 .. Len(chunk') /\ Nextline + i \in 1 .. Len(chunk)
        BY <1>2, <1>3, <2>2
      <3> QED BY <1>3, <1>8, <1>9, <2>1, <3>1
    <2>3. CASE i > Len(chunk')
      <3>1. PICK k : k = i - Len(chunk')
        OBVIOUS
      <3>2. k \in 1 .. Len(rxRing) /\ i = Len(chunk') + k /\ Nextline + i = Len(chunk) + k
        BY <1>2, <1>3, <1>9, <2>3, <3>1
      <3> QED BY <1>8, <1>9, <2>1, <3>2
    <2>4. i <= Len(chunk') \/ i > Len(chunk')
      BY <1>2, <1>3
    <2> QED BY <2>2, <2>3, <2>4
  <1>12. Trails(Coming', Coming)
    <2>1. \A i \in 1 .. Len(Coming') : i + (Len(Coming) - Len(Coming')) = Nextline + i
      BY <1>2, <1>6, <1>10
    <2>2. Len(Coming') <= Len(Coming)
      BY <1>2, <1>10
    <2> QED BY <1>11, <2>1, <2>2 DEF Trails
  <1>13. Trails(Heard', Heard)
    <2>1. /\ Len(Heard) = Len(Kept) + Len(Coming) /\ Len(Kept) \in Nat
          /\ \A i \in 1 .. Len(Coming) : Heard[Len(Kept) + i] = Coming[i]
      BY HeardTyped DEF OnEnds
    <2>2. Len(Heard') <= Len(Heard)
      BY <1>2, <1>7, <1>10, <2>1
    <2>3. ASSUME NEW i \in 1 .. Len(Heard')
          PROVE  Heard'[i] = Heard[i + (Len(Heard) - Len(Heard'))]
      <3>1. i + (Len(Heard) - Len(Heard')) = Len(Kept) + (Nextline + i)
        BY <1>2, <1>6, <1>7, <1>10, <2>1
      <3>2. Nextline + i \in 1 .. Len(Coming) /\ Coming'[i] = Coming[Nextline + i]
        BY <1>7, <1>11
      <3> QED BY <1>7, <2>1, <3>1, <3>2
    <2> QED BY <2>2, <2>3 DEF Trails
  <1> QED BY <1>5, <1>6, <1>7, <1>10, <1>12, <1>13

(* Where the pieces of the line obeyed were heard.                         *)
LEMMA LineHeard ==
  ASSUME RelayTyped, Nextline # 0, ~overrun,
         NEW text, text = textLine \o SubSeq(chunk, 1, Nextline - 1)
  PROVE  /\ text \in Seq(RelayPieces)
         /\ Len(text) \in Nat /\ Len(text) + 1 \in 1 .. Len(Heard)
         /\ \A i \in 1 .. Len(text) : Heard[i] = text[i]
         /\ Nextline \in 1 .. Len(Coming)
         /\ Heard[Len(text) + 1] = Coming[Nextline]
         /\ Coming[Nextline].part = "newline"
  <1>1. /\ Nextline \in 1 .. Len(chunk) /\ chunk[Nextline].part = "newline"
        /\ Len(chunk) \in Nat /\ chunk \in Seq(RelayPieces)
        /\ textLine \in Seq(RelayPieces) /\ Len(textLine) \in Nat
    BY NewlineFound DEF RelayTyped
  <1>2. PICK segment : segment = SubSeq(chunk, 1, Nextline - 1)
    OBVIOUS
  <1>3. /\ segment \in Seq(RelayPieces) /\ Len(segment) = Nextline - 1
        /\ \A i \in 1 .. (Nextline - 1) : segment[i] = chunk[i]
    <2>1. 1 \in 1 .. (Len(chunk) + 1) /\ Nextline - 1 \in 0 .. Len(chunk)
      BY <1>1
    <2>2. /\ segment \in Seq(RelayPieces)
          /\ Len(segment) = IF 1 <= Nextline - 1 THEN ((Nextline - 1) - 1) + 1 ELSE 0
          /\ \A i \in 1 .. Len(segment) : segment[i] = chunk[(1 + i) - 1]
      BY <1>1, <1>2, <2>1, PartOf
    <2>3. Len(segment) = Nextline - 1
      BY <1>1, <2>2
    <2>4. \A i \in 1 .. (Nextline - 1) : (1 + i) - 1 = i
      BY <1>1
    <2> QED BY <2>2, <2>3, <2>4
  <1>4. /\ text \in Seq(RelayPieces) /\ Len(text) = Len(textLine) + (Nextline - 1)
        /\ \A i \in 1 .. Len(textLine) : text[i] = textLine[i]
        /\ \A i \in 1 .. (Nextline - 1) : text[Len(textLine) + i] = segment[i]
    BY <1>1, <1>2, <1>3, OnEnd
  <1>5. /\ Kept = textLine
        /\ Len(Heard) = Len(Kept) + Len(Coming)
        /\ \A i \in 1 .. Len(Kept) : Heard[i] = Kept[i]
        /\ \A i \in 1 .. Len(Coming) : Heard[Len(Kept) + i] = Coming[i]
    BY HeardTyped DEF OnEnds, Kept
  <1>6. /\ Len(Coming) \in Nat /\ Len(chunk) <= Len(Coming)
        /\ \A i \in 1 .. Len(chunk) : Coming[i] = chunk[i]
    BY ComingParts
  <1>7. Nextline \in 1 .. Len(Coming) /\ Coming[Nextline] = chunk[Nextline]
    BY <1>1, <1>6
  <1>8. Len(text) + 1 = Len(Kept) + Nextline
    BY <1>1, <1>4, <1>5
  <1>9. ASSUME NEW i \in 1 .. Len(text)
        PROVE  Heard[i] = text[i]
    <2>1. CASE i <= Len(textLine)
      BY <1>1, <1>4, <1>5, <2>1
    <2>2. CASE i > Len(textLine)
      <3>1. PICK k : k = i - Len(textLine)
        OBVIOUS
      <3>2. k \in 1 .. (Nextline - 1) /\ i = Len(textLine) + k /\ k \in 1 .. Len(chunk)
            /\ k \in 1 .. Len(Coming)
        BY <1>1, <1>4, <1>6, <2>2, <3>1
      <3>3. Heard[Len(Kept) + k] = Coming[k]
        BY <1>5, <3>2
      <3>4. Coming[k] = chunk[k]
        BY <1>6, <3>2
      <3> QED BY <1>3, <1>4, <1>5, <3>2, <3>3, <3>4
    <2> QED BY <1>1, <2>1, <2>2
  <1>10. Len(text) \in Nat /\ Len(text) + 1 \in 1 .. Len(Heard)
    BY <1>1, <1>4, <1>5, <1>6
  <1> QED BY <1>1, <1>4, <1>5, <1>7, <1>8, <1>9, <1>10

(* A datagram obeyed is its line's head and text, before its newline; and  *)
(* whatever is obeyed is a line the host wrote, later than any datagram    *)
(* obeyed before.                                                          *)
LEMMA ObeyedIsWhole ==
  ASSUME RelayInv, NEW text \in Seq(RelayPieces),
         Len(text) \in Nat, Len(text) + 1 \in 1 .. Len(Heard),
         \A i \in 1 .. Len(text) : Heard[i] = text[i],
         NEW end \in 1 .. Len(Coming),
         Heard[Len(text) + 1] = Coming[end], Coming[end].part = "newline",
         NEW c, c # Nothing, c = Parsed(text)
  PROVE  \E k \in 1 .. Len(hostLines) :
           /\ c = hostLines[k]
           /\ Coming[end].of = k
           /\ c.verb = "T" => text = <<[of |-> k, part |-> "head"], [of |-> k, part |-> "text"]>>
           /\ Heard # <<>> /\ Heard[1].part = "head" /\ Heard[1].of = k
  <1>0. RelayTyped /\ Framed
    BY DEF RelayInv
  <1>1. /\ text \in Seq(RelayPieces)
        /\ Len(text) \in Nat /\ Len(text) + 1 \in 1 .. Len(Heard)
        /\ \A i \in 1 .. Len(text) : Heard[i] = text[i]
        /\ Heard[Len(text) + 1] = Coming[end]
        /\ Coming[end].part = "newline"
    OBVIOUS
  <1>2. /\ text # <<>> /\ Head(text).part = "head"
        /\ \A i \in 2 .. Len(text) : text[i].part = "text"
        /\ c = hostLines[Head(text).of]
    BY DEF Parsed
  <1>3. Head(text) = text[1] /\ Len(text) >= 1
    BY <1>1, <1>2, TheRest
  <1>a. /\ Len(text) > 1 \/ Len(text) = 1
        /\ Len(text) > 1 => Len(text) > 2 \/ Len(text) = 2
    <2>1. PICK n \in Nat : n = Len(text)
      BY <1>1
    <2>2. n >= 1
      BY <1>3, <2>1
    <2>3. /\ n > 1 \/ n = 1
          /\ n > 1 => n > 2 \/ n = 2
      BY <2>2
    <2> QED BY <2>1, <2>3
  <1>4. PICK k : k = text[1].of
    OBVIOUS
  <1>5. Heard[1] = text[1] /\ Heard[1].part = "head" /\ 1 \in 1 .. Len(Heard)
    BY <1>1, <1>2, <1>3
  <1>6. k \in 1 .. Len(hostLines)
    BY <1>0, <1>4, <1>5 DEF Framed
  <1>7. \A i \in 1 .. Len(Heard) : i > 1 => Fits(hostLines, Heard[i - 1], Heard[i])
    BY <1>0 DEF Framed
  <1>8. 2 \in 1 .. Len(Heard) /\ Fits(hostLines, Heard[1], Heard[2])
    <2>1. 2 \in 1 .. Len(Heard) /\ 2 > 1 /\ 2 - 1 = 1
      BY <1>1, <1>3
    <2> QED BY <1>7, <2>1
  <1>9. Heard[2].part \in {"text", "newline"}
    <2>1. CASE Len(text) = 1
      BY <1>1, <2>1
    <2>2. CASE Len(text) > 1
      <3>1. 2 \in 1 .. Len(text) /\ 2 \in 2 .. Len(text)
        BY <1>1, <2>2
      <3> QED BY <1>1, <1>2, <3>1
    <2> QED BY <1>1, <1>3, <2>1, <2>2
  <1>10. GoesOn(hostLines, Heard[1], Heard[2])
    BY <1>5, <1>8, <1>9 DEF Fits
  <1>11. Heard[2].of = k /\ Heard[2].part = IF c.verb = "T" THEN "text" ELSE "newline"
    BY <1>2, <1>3, <1>4, <1>5, <1>10 DEF GoesOn
  <1>12. CASE c.verb # "T"
    <2>1. Len(text) = 1
      <3>1. ~(Len(text) > 1)
        <4>1. Len(text) > 1 => 2 \in 1 .. Len(text) /\ 2 \in 2 .. Len(text)
          BY <1>1
        <4> QED BY <1>1, <1>2, <1>11, <1>12, <4>1
      <3> QED BY <1>a, <3>1
    <2>2. Coming[end].of = k
      BY <1>1, <1>11, <2>1
    <2> QED BY <1>1, <1>2, <1>3, <1>4, <1>5, <1>6, <1>12, <2>1, <2>2
  <1>13. CASE c.verb = "T"
    <2>1. Len(text) # 1
      <3>1. Len(text) = 1 => Heard[2] = Coming[end]
        BY <1>1
      <3> QED BY <1>1, <1>11, <1>13, <3>1
    <2>2. Len(text) >= 2 /\ 2 \in 1 .. Len(text) /\ 2 \in 2 .. Len(text)
      <3>1. Len(text) > 1
        BY <1>a, <2>1
      <3> QED BY <1>1, <3>1
    <2>3. text[2] = Heard[2] /\ Heard[2].part = "text"
      BY <1>1, <1>2, <2>2
    <2>4. 3 \in 1 .. Len(Heard) /\ Fits(hostLines, Heard[2], Heard[3])
      <3>1. 3 \in 1 .. Len(Heard) /\ 3 > 1 /\ 3 - 1 = 2
        BY <1>1, <2>2
      <3> QED BY <1>7, <3>1
    <2>5. Heard[3].part \in {"text", "newline"}
      <3>1. CASE Len(text) = 2
        BY <1>1, <3>1
      <3>2. CASE Len(text) > 2
        <4>1. 3 \in 1 .. Len(text) /\ 3 \in 2 .. Len(text)
          BY <1>1, <3>2
        <4> QED BY <1>1, <1>2, <4>1
      <3> QED BY <1>1, <2>2, <3>1, <3>2
    <2>6. Heard[3].of = k /\ Heard[3].part = "newline"
      BY <1>11, <2>3, <2>4, <2>5 DEF Fits, GoesOn
    <2>7. Len(text) = 2
      <3>1. Len(text) > 2 => 3 \in 1 .. Len(text) /\ 3 \in 2 .. Len(text)
        BY <1>1
      <3>2. ~(Len(text) > 2)
        BY <1>1, <1>2, <2>6, <3>1
      <3>3. Len(text) > 1
        BY <1>a, <2>1
      <3> QED BY <1>a, <3>2, <3>3
    <2>8. Coming[end].of = k
      BY <1>1, <2>6, <2>7
    <2>9. text[1] = [of |-> k, part |-> "head"] /\ text[2] = [of |-> k, part |-> "text"]
      <3>1. text[1] \in RelayPieces /\ text[2] \in RelayPieces
        <4>1. 1 \in 1 .. Len(text) /\ 2 \in 1 .. Len(text)
          BY <2>7
        <4> QED BY <1>1, <4>1, EachOf
      <3>2. text[1].part = "head" /\ text[2].of = k
        BY <1>2, <1>3, <1>11, <2>3
      <3> QED BY <1>4, <2>3, <3>1, <3>2 DEF RelayPieces
    <2>10. text = <<[of |-> k, part |-> "head"], [of |-> k, part |-> "text"]>>
      BY <1>1, <2>7, <2>9
    <2> QED BY <1>1, <1>2, <1>3, <1>4, <1>5, <1>6, <2>7, <2>8, <2>10
  <1> QED BY <1>12, <1>13

(* The peers stay at the rate set, those met before and the one met now.   *)
LEMMA PeersKept ==
  ASSUME PeersAtTheRate, NEW text, NEW c, Obey(text, c)
  PROVE  PeersAtTheRate'
  <1>1. CASE c.verb = "T"
    <2>1. peers' = Know(c.to) /\ rates' = rates
      BY <1>1 DEF Obey
    <2>2. CASE c.to \in DOMAIN peers
      BY <2>1, <2>2 DEF Know, PeersAtTheRate
    <2>3. CASE c.to \notin DOMAIN peers
      <3>1. PICK D : D = DOMAIN peers \cup {c.to}
        OBVIOUS
      <3>2. peers' = [s \in D |-> IF s = c.to THEN rates ELSE peers[s]]
        BY <2>1, <2>3, <3>1 DEF Know
      <3>3. ASSUME NEW s \in D
            PROVE  peers'[s] = rates
        BY <3>1, <3>2 DEF PeersAtTheRate
      <3>4. DOMAIN peers' = D
        BY <3>2
      <3> QED BY <2>1, <3>3, <3>4 DEF PeersAtTheRate
    <2> QED BY <2>2, <2>3
  <1>2. CASE c.verb = "P"
    <2>1. peers' = [s \in DOMAIN peers |-> c.rate] /\ rates' = c.rate
      BY <1>2 DEF Obey
    <2> QED BY <2>1 DEF PeersAtTheRate
  <1>3. CASE c.verb # "T" /\ c.verb # "P"
    <2>1. peers' = peers /\ rates' = rates
      BY <1>3 DEF Obey
    <2> QED BY <2>1 DEF PeersAtTheRate
  <1> QED BY <1>1, <1>2, <1>3

(* A line obeyed that is no datagram leaves the radio alone.               *)
LEMMA OtherKeeps ==
  ASSUME RelayInv, RelayTyped', Trails(Heard', Heard), Len(Coming') <= Len(Coming),
         UNCHANGED <<hostLines, typing, radioed, verdicts>>, doing'.verb # "T"
  PROVE  AfterTheObeyed' /\ VerdictsOfObeyed' /\ Owed' /\ DatagramsWhole'
  <1>0. /\ RelayTyped /\ Framed /\ InOrder /\ AfterTheObeyed /\ VerdictsOfObeyed /\ Owed
        /\ DatagramsWhole
    BY DEF RelayInv, RelayFaithful
  <1>1. /\ Heard \in Seq(RelayPieces) /\ Heard' \in Seq(RelayPieces)
        /\ Len(Coming) \in Nat /\ Len(Coming') \in Nat
    BY <1>0, HeardTyped, HeardTypedNext DEF OnEnds
  <1>2. \A i \in 1 .. Len(Heard') : Heard'[i].part = "head" =>
        \E j \in 1 .. Len(Heard) : Heard'[i] = Heard[j]
    <2>1. ASSUME NEW i \in 1 .. Len(Heard'), Heard'[i].part = "head"
          PROVE  \E j \in 1 .. Len(Heard) : Heard'[i] = Heard[j]
      <3>1. PICK j : j = i + (Len(Heard) - Len(Heard'))
        OBVIOUS
      <3>2. j \in 1 .. Len(Heard) /\ Heard'[i] = Heard[j]
        BY <1>1, <2>1, <3>1, TrailingPiece
      <3> QED BY <3>2
    <2> QED BY <2>1
  <1>3. AfterTheObeyed'
    <2>1. ASSUME NEW j \in 1 .. Len(radioed), NEW i \in 1 .. Len(Heard'), Heard'[i].part = "head"
          PROVE  Head(radioed[j]).of < Heard'[i].of
      BY <1>0, <1>2, <2>1 DEF AfterTheObeyed
    <2> QED BY <1>0, <2>1 DEF AfterTheObeyed
  <1>4. VerdictsOfObeyed'
    BY <1>0 DEF VerdictsOfObeyed, Obeyed
  <1>5. DatagramsWhole'
    BY <1>0 DEF DatagramsWhole
  <1>6. Owed'
    <2>0. Len(typing) \in Nat /\ Len(hostLines) \in Nat
      <3>1. typing \in Seq(RelayPieces) /\ hostLines \in Seq(HostCommands)
        BY <1>0 DEF RelayTyped
      <3> QED BY <3>1
    <2>1. CASE OneOther
      BY <1>1, <2>0, <2>1 DEF Owed, OneOther
    <2>2. ASSUME NEW a \in 0 .. Len(hostLines), OwedFrom(a)
          PROVE  Owed'
      <3>1. Len(Coming') + Len(typing) <= 3 * (Len(hostLines) - a)
        BY <1>1, <2>0, <2>2 DEF OwedFrom
      <3>2. OwedFrom(a)'
        BY <2>2, <3>1 DEF OwedFrom, Obeyed
      <3> QED BY <3>2 DEF Owed
    <2> QED BY <1>0, <2>1, <2>2 DEF Owed
  <1> QED BY <1>3, <1>4, <1>5, <1>6

(* A datagram on the air: its line's head and text.                        *)
IsDatagram(text, k) == text = <<[of |-> k, part |-> "head"], [of |-> k, part |-> "text"]>>

(* One number more.                                                        *)
LEMMA OrTheNext ==
  ASSUME NEW n \in Nat, NEW j \in 1 .. (n + 1)
  PROVE  j = n + 1 \/ j \in 1 .. n
  OBVIOUS

(* A datagram obeyed is the next in the order of the lines, and what comes *)
(* after it is of later lines, still owed.                                 *)
LEMMA DatagramKeeps ==
  ASSUME RelayInv, RelayTyped', Trails(Heard', Heard), UNCHANGED <<hostLines, typing, verdicts>>,
         NEW k \in 1 .. Len(hostLines), NEW text \in Seq(RelayPieces),
         IsDatagram(text, k),
         radioed' = Append(radioed, text),
         Heard # <<>>, Heard[1].part = "head", Heard[1].of = k,
         NEW end \in 1 .. Len(Coming), Coming[end].part = "newline", Coming[end].of = k,
         Len(Heard') = Len(Coming) - end, Len(Coming') = Len(Coming) - end
  PROVE  AfterTheObeyed' /\ VerdictsOfObeyed' /\ Owed' /\ DatagramsWhole'
  <1>0. /\ RelayTyped /\ Framed /\ InOrder /\ AfterTheObeyed /\ VerdictsOfObeyed /\ Owed
        /\ ThreeALine /\ DatagramsWhole
    BY DEF RelayInv, RelayFaithful
  <1>1. /\ Heard \in Seq(RelayPieces) /\ Heard' \in Seq(RelayPieces)
        /\ Len(Coming) \in Nat /\ Len(Coming') \in Nat
        /\ Len(Heard) \in Nat /\ Len(Heard) >= Len(Coming)
    <2>1. OnEnds /\ OnEnds'
      BY <1>0, HeardTyped, HeardTypedNext
    <2>2. /\ Heard \in Seq(RelayPieces) /\ Heard' \in Seq(RelayPieces)
          /\ Len(Coming) \in Nat /\ Len(Coming') \in Nat /\ Len(Kept) \in Nat
          /\ Len(Heard) = Len(Kept) + Len(Coming)
      BY <2>1 DEF OnEnds
    <2> QED BY <2>2
  <1>2. PICK n \in Nat : n = Len(radioed)
    BY <1>0 DEF RelayTyped
  <1>3. /\ Len(radioed') = n + 1 /\ radioed'[n + 1] = text
        /\ \A j \in 1 .. n : radioed'[j] = radioed[j]
    <2>1. radioed \in Seq(Seq(RelayPieces))
      BY <1>0 DEF RelayTyped
    <2> QED BY <1>2, <2>1, OneMore
  <1>4. Head(text).of = k /\ Head(text) = [of |-> k, part |-> "head"]
    BY DEF IsDatagram
  <1>5. PICK d \in Nat : d = Len(Heard) - Len(Heard') /\ d > 0
    <2>1. PICK h \in Nat, c \in Nat : h = Len(Heard) /\ c = Len(Coming) /\ h >= c
      BY <1>1
    <2>2. end \in 1 .. c /\ Len(Heard') = c - end
      BY <2>1
    <2>3. h - (c - end) \in Nat /\ h - (c - end) > 0
      BY <2>1, <2>2
    <2> QED BY <2>1, <2>2, <2>3
  <1>6. ASSUME NEW i \in 1 .. Len(Heard'), Heard'[i].part = "head"
        PROVE  i + d \in 1 .. Len(Heard) /\ Heard'[i] = Heard[i + d] /\ k < Heard'[i].of
    <2>1. i + d \in 1 .. Len(Heard) /\ Heard'[i] = Heard[i + d]
      BY <1>1, <1>5, <1>6, TrailingPiece
    <2>2. 1 \in 1 .. Len(Heard) /\ 1 < i + d
      <3>1. PICK h \in Nat, m \in Nat : h = Len(Heard) /\ m = Len(Heard')
        BY <1>1
      <3>2. i \in 1 .. m /\ i + d \in 1 .. h
        BY <2>1, <3>1
      <3>3. 1 \in 1 .. h /\ 1 < i + d
        BY <1>5, <3>2
      <3> QED BY <3>1, <3>3
    <2> QED BY <1>0, <1>6, <2>1, <2>2 DEF InOrder
  <1>7. \A j \in 1 .. n : Head(radioed[j]).of \in 1 .. Len(hostLines) /\ Head(radioed[j]).of < k
    <2>1. 1 \in 1 .. Len(Heard)
      BY <1>1, <1>5
    <2> QED BY <1>0, <1>2, <2>1 DEF AfterTheObeyed
  <1>8. AfterTheObeyed'
    <2>1. ASSUME NEW j \in 1 .. (n + 1)
          PROVE  /\ Head(radioed'[j]).of \in 1 .. Len(hostLines)
                 /\ \A i \in 1 .. Len(Heard') : Heard'[i].part = "head" =>
                    Head(radioed'[j]).of < Heard'[i].of
      <3>1. CASE j = n + 1
        BY <1>3, <1>4, <1>6, <3>1
      <3>2. CASE j \in 1 .. n
        <4>1. radioed'[j] = radioed[j] /\ Head(radioed[j]).of \in 1 .. Len(hostLines)
          BY <1>3, <1>7, <3>2
        <4>2. ASSUME NEW i \in 1 .. Len(Heard'), Heard'[i].part = "head"
              PROVE  Head(radioed[j]).of < Heard'[i].of
          <5>1. i + d \in 1 .. Len(Heard) /\ Heard'[i] = Heard[i + d]
            BY <1>6, <4>2
          <5> QED BY <1>0, <1>2, <3>2, <4>2, <5>1 DEF AfterTheObeyed
        <4> QED BY <4>1, <4>2
      <3> QED BY <3>1, <3>2, OrTheNext
    <2>2. ASSUME typing # <<>>, typing[1].part = "head", NEW j \in 1 .. (n + 1)
          PROVE  Head(radioed'[j]).of < Len(hostLines)
      <3>1. CASE j = n + 1
        <4>1. 1 \in 1 .. Len(Heard)
          BY <1>1, <1>5
        <4>2. k < Len(hostLines)
          BY <1>0, <2>2, <4>1 DEF InOrder
        <4> QED BY <1>3, <1>4, <3>1, <4>2
      <3>2. CASE j \in 1 .. n
        BY <1>0, <1>2, <1>3, <2>2, <3>2 DEF AfterTheObeyed
      <3> QED BY <3>1, <3>2, OrTheNext
    <2> QED BY <1>3, <2>1, <2>2 DEF AfterTheObeyed
  <1>9. \A m : Obeyed(m)' <=> Obeyed(m) \/ m = k
    <2>1. ASSUME NEW m, Obeyed(m)' PROVE Obeyed(m) \/ m = k
      <3>1. PICK j \in 1 .. (n + 1) : Head(radioed'[j]).of = m
        BY <1>3, <2>1 DEF Obeyed
      <3>2. CASE j = n + 1
        BY <1>3, <1>4, <3>1, <3>2
      <3>3. CASE j \in 1 .. n
        BY <1>2, <1>3, <3>1, <3>3 DEF Obeyed
      <3> QED BY <3>2, <3>3, OrTheNext
    <2>2. ASSUME NEW m, Obeyed(m) PROVE Obeyed(m)'
      <3>1. PICK j \in 1 .. n : Head(radioed[j]).of = m
        BY <1>2, <2>2 DEF Obeyed
      <3>2. j \in 1 .. (n + 1)
        BY <1>2
      <3> QED BY <1>3, <3>1, <3>2 DEF Obeyed
    <2>3. Obeyed(k)'
      <3>1. n + 1 \in 1 .. (n + 1)
        BY <1>2
      <3> QED BY <1>3, <1>4, <3>1 DEF Obeyed
    <2> QED BY <2>1, <2>2, <2>3
  <1>10. VerdictsOfObeyed'
    <2>1. \A i \in 1 .. Len(verdicts) : Obeyed(verdicts[i])'
      <3>1. ASSUME NEW i \in 1 .. Len(verdicts) PROVE Obeyed(verdicts[i])'
        <4>1. PICK m : m = verdicts[i]
          OBVIOUS
        <4>2. Obeyed(m)
          BY <1>0, <4>1 DEF VerdictsOfObeyed
        <4>3. Obeyed(m)'
          BY <1>9, <4>2
        <4> QED BY <4>1, <4>3 DEF Obeyed
      <3> QED BY <3>1
    <2>2. radioed' # <<>>
      BY <1>2, <1>3
    <2> QED BY <2>1, <2>2 DEF VerdictsOfObeyed, Obeyed
  <1>11. Owed'
    <2>0. Len(typing) \in Nat /\ Len(hostLines) \in Nat
      <3>1. typing \in Seq(RelayPieces) /\ hostLines \in Seq(HostCommands)
        BY <1>0 DEF RelayTyped
      <3> QED BY <3>1
    <2>1. CASE OneOther
      BY <1>1, <2>0, <2>1 DEF Owed, OneOther
    <2>2. ASSUME NEW a \in 0 .. Len(hostLines), OwedFrom(a)
          PROVE  Owed'
      <3>1. CASE k <= a
        <4>1. \A m \in (a + 1) .. Len(hostLines) : m # k
          BY <2>0, <3>1
        <4>2. Len(Coming') + Len(typing) <= 3 * (Len(hostLines) - a)
          BY <1>1, <2>0, <2>2 DEF OwedFrom
        <4>3. OwedFrom(a)'
          BY <1>9, <2>2, <4>1, <4>2 DEF OwedFrom
        <4> QED BY <4>3 DEF Owed
      <3>2. CASE k > a
        <4>1. (Len(Coming) - end) + Len(typing) <= 3 * (Len(hostLines) - k)
          BY <1>0 DEF ThreeALine
        <4>2. Len(hostLines) - k <= OUTSTANDING
          BY <2>0, <2>2, <3>2, RelayAssumption DEF OwedFrom
        <4>3. \A m \in (k + 1) .. Len(hostLines) : m \in (a + 1) .. Len(hostLines) /\ m # k
          BY <2>0, <3>2
        <4>4. \A m \in (k + 1) .. Len(hostLines) : hostLines[m].verb = "T" /\ ~Obeyed(m)
          BY <2>2, <4>3 DEF OwedFrom
        <4>5. \A m \in (k + 1) .. Len(hostLines) : hostLines[m].verb = "T" /\ ~Obeyed(m)'
          BY <1>9, <4>3, <4>4
        <4>6. OwedFrom(k)'
          BY <4>1, <4>2, <4>5 DEF OwedFrom
        <4>7. k \in 0 .. Len(hostLines)
          BY <2>0
        <4> QED BY <4>6, <4>7 DEF Owed
      <3> QED BY <2>0, <3>1, <3>2
    <2> QED BY <1>0, <2>1, <2>2 DEF Owed
  <1>12. DatagramsWhole'
    <2>1. ASSUME NEW i \in 1 .. (n + 1)
          PROVE  radioed'[i] = <<[of |-> Head(radioed'[i]).of, part |-> "head"],
                                 [of |-> Head(radioed'[i]).of, part |-> "text"]>>
      <3>1. CASE i = n + 1
        BY <1>3, <1>4, <3>1 DEF IsDatagram
      <3>2. CASE i \in 1 .. n
        <4>1. DOMAIN radioed = 1 .. n
          BY <1>0, <1>2 DEF RelayTyped
        <4> QED BY <1>0, <1>3, <3>2, <4>1 DEF DatagramsWhole
      <3> QED BY <3>1, <3>2, OrTheNext
    <2>2. ASSUME NEW i \in 1 .. (n + 1), NEW j \in 1 .. (n + 1), i < j
          PROVE  Head(radioed'[i]).of < Head(radioed'[j]).of
      <3>1. i \in 1 .. n
        BY <1>2, <2>2
      <3>2. CASE j = n + 1
        BY <1>3, <1>4, <1>7, <3>1, <3>2
      <3>3. CASE j \in 1 .. n
        <4>1. DOMAIN radioed = 1 .. n
          BY <1>0, <1>2 DEF RelayTyped
        <4> QED BY <1>0, <1>3, <2>2, <3>1, <3>3, <4>1 DEF DatagramsWhole
      <3> QED BY <3>2, <3>3, OrTheNext
    <2>3. DOMAIN radioed' = 1 .. (n + 1)
      <3>1. radioed' \in Seq(Seq(RelayPieces))
        BY DEF RelayTyped
      <3> QED BY <1>3, <3>1
    <2> QED BY <2>1, <2>2, <2>3 DEF DatagramsWhole
  <1> QED BY <1>8, <1>10, <1>11, <1>12

-----------------------------------------------------------------------------
(* The invariant is kept *)

(* What the loop takes and does not obey.                                  *)
LEMMA TakenKeeps ==
  ASSUME RelayInv, Pop \/ TakePart
  PROVE  RelayInv'
  <1>0. RelayTyped /\ RelayFaithful
    BY DEF RelayInv
  <1>1. /\ RelayTyped' /\ Trails(Heard', Heard) /\ Trails(Coming', Coming)
        /\ Len(Coming') <= Len(Coming)
    BY <1>0, PopTrails, PartTrails
  <1>2. /\ UNCHANGED <<hostLines, typing, hostBaud, baud, trial, lost, noise, doing>>
        /\ UNCHANGED <<radioed, verdicts, peers, rates>>
        /\ doing = Nothing
    BY DEF Pop, TakePart, hostVars, airVars
  <1>3. LineUnderWay' /\ Framed' /\ JoinsUp' /\ CleanOnTrial' /\ AnswerAwaited' /\ InOrder' /\
        ThreeALine'
    BY <1>1, <1>2, TrailsKeep
  <1>4. doing.verb = "none"
    BY <1>2 DEF Nothing
  <1>5. AfterTheObeyed' /\ VerdictsOfObeyed' /\ Owed' /\ DatagramsWhole'
    BY <1>1, <1>2, <1>4, OtherKeeps
  <1>6. SwitchAlone'
    BY <1>2, <1>4 DEF SwitchAlone
  <1>7. RelayFaithful'
    BY <1>0, <1>2, <1>5 DEF RelayFaithful, NeverOverruns, PeersAtTheRate
  <1> QED BY <1>1, <1>3, <1>5, <1>6, <1>7 DEF RelayInv

(* A whole line obeyed.                                                    *)
LEMMA LineKeeps ==
  ASSUME RelayInv, TakeLine
  PROVE  RelayInv'
  <1>0. RelayTyped /\ RelayFaithful /\ AnswerAwaited
    BY DEF RelayInv
  <1>1. /\ RelayTyped' /\ Trails(Heard', Heard) /\ Trails(Coming', Coming)
        /\ Heard' = Coming' /\ Len(Coming') = Len(Coming) - Nextline
    BY <1>0, LineTrails
  <1>2. /\ UNCHANGED <<hostLines, typing, hostBaud, baud, lost, noise, verdicts>>
        /\ chunk' = SubSeq(chunk, Nextline + 1, Len(chunk)) /\ rxRing' = rxRing
        /\ textLine' = <<>> /\ overrun' = FALSE
        /\ Nextline # 0
    BY DEF TakeLine, hostVars
  <1>3. PICK text, c :
          /\ text \in Seq(RelayPieces)
          /\ Obey(text, c)
          /\ c # Nothing => /\ ~overrun /\ c = Parsed(text)
                            /\ text = textLine \o SubSeq(chunk, 1, Nextline - 1)
    BY <1>0, TheLine
  <1>4. trial' \in {trial, NoTrial}
    BY <1>3 DEF Obey
  <1>5. LineUnderWay' /\ Framed' /\ JoinsUp' /\ CleanOnTrial' /\ AnswerAwaited' /\ InOrder' /\
        ThreeALine'
    BY <1>1, <1>2, <1>4, TrailsKeep
  <1>6. PeersAtTheRate'
    BY <1>0, <1>3, PeersKept DEF RelayFaithful
  <1>7. NeverOverruns'
    BY <1>0, <1>2 DEF RelayFaithful, NeverOverruns
  <1>8. Nextline \in 1 .. Len(Coming) /\ Len(Coming) \in Nat /\ Len(Coming') \in Nat
        /\ Len(Coming') <= Len(Coming)
    <2>1. Nextline \in 1 .. Len(chunk)
      BY <1>0, <1>2, NewlineFound
    <2>2. Len(chunk) \in Nat /\ Len(rxRing) \in Nat /\ Len(Coming) = Len(chunk) + Len(rxRing)
      BY <1>0, ComingParts
    <2> QED BY <1>1, <2>1, <2>2
  <1>9. SUFFICES SwitchAlone' /\ AfterTheObeyed' /\ VerdictsOfObeyed' /\ Owed' /\ DatagramsWhole'
    BY <1>1, <1>5, <1>6, <1>7 DEF RelayInv, RelayFaithful
  <1>10. CASE c = Nothing
    <2>1. doing' = Nothing /\ radioed' = radioed
      BY <1>3, <1>10 DEF Obey, Nothing
    <2>2. doing'.verb # "T" /\ doing'.verb # "U"
      BY <2>1 DEF Nothing
    <2>3. AfterTheObeyed' /\ VerdictsOfObeyed' /\ Owed' /\ DatagramsWhole'
      BY <1>1, <1>2, <1>8, <2>1, <2>2, OtherKeeps
    <2> QED BY <2>2, <2>3 DEF SwitchAlone
  <1>11. CASE c # Nothing
    <2>1. ~overrun /\ c = Parsed(text) /\ text = textLine \o SubSeq(chunk, 1, Nextline - 1)
      BY <1>3, <1>11
    <2>2. /\ Len(text) \in Nat /\ Len(text) + 1 \in 1 .. Len(Heard)
          /\ \A i \in 1 .. Len(text) : Heard[i] = text[i]
          /\ Heard[Len(text) + 1] = Coming[Nextline]
          /\ Coming[Nextline].part = "newline"
      BY <1>0, <1>2, <2>1, LineHeard
    <2>3. PICK k \in 1 .. Len(hostLines) :
            /\ c = hostLines[k]
            /\ Coming[Nextline].of = k
            /\ c.verb = "T" => text = <<[of |-> k, part |-> "head"], [of |-> k, part |-> "text"]>>
            /\ Heard # <<>> /\ Heard[1].part = "head" /\ Heard[1].of = k
      <3>1. PICK end \in 1 .. Len(Coming) : end = Nextline
        BY <1>8
      <3>2. Heard[Len(text) + 1] = Coming[end] /\ Coming[end].part = "newline"
        BY <2>2, <3>1
      <3>3. c # Nothing /\ c = Parsed(text) /\ text \in Seq(RelayPieces)
        BY <1>3, <1>11, <2>1
      <3>4. /\ Len(text) \in Nat /\ Len(text) + 1 \in 1 .. Len(Heard)
            /\ \A i \in 1 .. Len(text) : Heard[i] = text[i]
        BY <2>2
      <3>5. PICK k \in 1 .. Len(hostLines) :
              /\ c = hostLines[k]
              /\ Coming[end].of = k
              /\ c.verb = "T" => text = <<[of |-> k, part |-> "head"], [of |-> k, part |-> "text"]>>
              /\ Heard # <<>> /\ Heard[1].part = "head" /\ Heard[1].of = k
        BY <3>2, <3>3, <3>4, ObeyedIsWhole, SMTT(60)
      <3> QED BY <3>1, <3>5
    <2>4. CASE c.verb = "T"
      <3>1. IsDatagram(text, k)
        BY <2>3, <2>4 DEF IsDatagram
      <3>2. radioed' = Append(radioed, text) /\ doing' = c
        BY <1>3, <2>4 DEF Obey
      <3>3. AfterTheObeyed' /\ VerdictsOfObeyed' /\ Owed' /\ DatagramsWhole'
        <4>1. Len(Heard') = Len(Coming) - Nextline
          BY <1>1
        <4> QED BY <1>1, <1>2, <1>3, <1>8, <2>2, <2>3, <3>1, <3>2, <4>1, DatagramKeeps
      <3> QED BY <2>4, <3>2, <3>3 DEF SwitchAlone
    <2>5. CASE c.verb # "T"
      <3>1. radioed' = radioed /\ (doing' = c \/ doing' = Nothing)
        BY <1>3, <2>5 DEF Obey
      <3>2. doing'.verb # "T"
        BY <2>5, <3>1 DEF Nothing
      <3>3. AfterTheObeyed' /\ VerdictsOfObeyed' /\ Owed' /\ DatagramsWhole'
        BY <1>1, <1>2, <1>8, <3>1, <3>2, OtherKeeps
      <3>4. k = Len(hostLines) /\ Nextline = Len(Coming) /\ typing = <<>>
        BY <1>0, <1>8, <2>2, <2>3, <2>5 DEF AnswerAwaited
      <3>5. chunk' = <<>> /\ rxRing' = <<>>
        <4>1. /\ Len(chunk') \in Nat /\ Len(rxRing') \in Nat
              /\ Len(Coming') = Len(chunk') + Len(rxRing')
          <5>1. /\ chunk' \in Seq(RelayPieces) /\ rxRing' \in Seq(RelayPieces)
            BY <1>1 DEF RelayTyped
          <5>2. PICK a \in Seq(RelayPieces), b \in Seq(RelayPieces) : a = chunk' /\ b = rxRing'
            BY <5>1
          <5>3. Len(a) \in Nat /\ Len(b) \in Nat /\ Len(a \o b) = Len(a) + Len(b)
            BY OnEnd
          <5> QED BY <5>2, <5>3 DEF Coming
        <4>2. Len(Coming') = 0
          BY <1>1, <1>8, <3>4
        <4>3. Len(chunk') = 0 /\ Len(rxRing') = 0
          <5>1. PICK a \in Nat, b \in Nat : a = Len(chunk') /\ b = Len(rxRing')
            BY <4>1
          <5>2. a + b = 0
            BY <4>1, <4>2, <5>1
          <5>3. a = 0 /\ b = 0
            BY <5>2
          <5> QED BY <5>1, <5>3
        <4> QED BY <1>1, <4>3 DEF RelayTyped
      <3>6. hostLines # <<>> /\ Last(hostLines) = c
        BY <1>0, <2>3, <3>4 DEF RelayTyped, Last
      <3>7. SwitchAlone'
        BY <1>2, <2>5, <3>4, <3>5, <3>6 DEF SwitchAlone
      <3> QED BY <3>3, <3>7
    <2> QED BY <2>4, <2>5
  <1> QED BY <1>10, <1>11

(* What is still to be sent, without its first piece.                      *)
LEMMA TypingGoesOn ==
  ASSUME RelayTyped, LineUnderWay, typing # <<>>, typing' = Tail(typing), hostLines' = hostLines
  PROVE  /\ typing' \in Seq(RelayPieces) /\ typing[1] \in RelayPieces
         /\ Head(typing) = typing[1]
         /\ typing[1].part # "noise" /\ typing[1].of = Len(hostLines) /\ Len(hostLines) \in Nat
         /\ Len(hostLines) >= 1
         /\ Len(typing) \in Nat /\ Len(typing) >= 1 /\ Len(typing') = Len(typing) - 1
         /\ typing' # <<>> => GoesOn(hostLines, typing[1], typing'[1])
         /\ typing' = <<>> => typing[1].part = "newline"
         /\ LineUnderWay'
  <1>1. /\ Tail(typing) \in Seq(RelayPieces) /\ Head(typing) = typing[1] /\
           typing[1] \in RelayPieces
        /\ Len(typing) \in Nat /\ Len(typing) >= 1
        /\ Len(Tail(typing)) = Len(typing) - 1
        /\ \A i \in 1 .. Len(Tail(typing)) : Tail(typing)[i] = typing[i + 1]
    BY TheRest DEF RelayTyped
  <1>2. /\ typing' \in Seq(RelayPieces) /\ Len(typing') = Len(typing) - 1
        /\ \A i \in 1 .. Len(typing') : typing'[i] = typing[i + 1] /\ i + 1 \in 1 .. Len(typing)
    BY <1>1
  <1>3. 1 \in 1 .. Len(typing) /\ Len(hostLines) \in Nat
    BY <1>1 DEF RelayTyped
  <1>4. typing[1].part # "noise" /\ typing[1].of = Len(hostLines) /\ Len(hostLines) >= 1
    BY <1>3 DEF LineUnderWay
  <1>5. ASSUME typing' # <<>>
        PROVE  /\ Len(typing') >= 1 /\ typing'[1] = typing[2] /\ 2 \in 1 .. Len(typing)
               /\ typing'[Len(typing')] = typing[Len(typing)]
    <2>1. Len(typing') >= 1
      BY <1>2, <1>5
    <2>2. 1 \in 1 .. Len(typing') /\ Len(typing') \in 1 .. Len(typing') /\
          Len(typing') + 1 = Len(typing)
      BY <1>1, <1>2, <2>1
    <2> QED BY <1>2, <2>1, <2>2
  <1>6. typing' # <<>> => GoesOn(hostLines, typing[1], typing'[1])
    <2>1. ASSUME typing' # <<>> PROVE GoesOn(hostLines, typing[1], typing'[1])
      <3>1. 2 \in 1 .. Len(typing) /\ typing'[1] = typing[2] /\ 2 > 1 /\ 2 - 1 = 1
        BY <1>5, <2>1
      <3> QED BY <3>1 DEF LineUnderWay
    <2> QED BY <2>1
  <1>7. typing' = <<>> => typing[1].part = "newline"
    <2>1. ASSUME typing' = <<>> PROVE typing[1].part = "newline"
      <3>0. Len(typing') = 0
        <4>1. Len(<<>>) = 0
          OBVIOUS
        <4> QED BY <2>1, <4>1, Zenon
      <3>1. Len(typing) = 1
        BY <1>1, <1>2, <3>0
      <3> QED BY <3>1 DEF LineUnderWay
    <2> QED BY <2>1
  <1>8. LineUnderWay'
    <2>1. ASSUME NEW i \in 1 .. Len(typing')
          PROVE  /\ typing'[i].of = Len(hostLines) /\ typing'[i].part # "noise"
                 /\ i > 1 => GoesOn(hostLines, typing'[i - 1], typing'[i])
      <3>1. typing'[i] = typing[i + 1] /\ i + 1 \in 1 .. Len(typing)
        BY <1>2
      <3>2. ASSUME i > 1 PROVE GoesOn(hostLines, typing'[i - 1], typing'[i])
        <4>1. i - 1 \in 1 .. Len(typing') /\ (i - 1) + 1 = i /\ i + 1 > 1 /\ (i + 1) - 1 = i
          BY <1>2, <3>2
        <4>2. typing'[i - 1] = typing[i]
          BY <1>2, <4>1
        <4>3. GoesOn(hostLines, typing[i], typing[i + 1])
          BY <3>1, <4>1 DEF LineUnderWay
        <4> QED BY <3>1, <4>2, <4>3
      <3> QED BY <3>1, <3>2 DEF LineUnderWay
    <2>2. typing' # <<>> => typing'[Len(typing')].part = "newline" /\ Len(hostLines) >= 1
      BY <1>3, <1>5 DEF LineUnderWay
    <2> QED BY <2>1, <2>2 DEF LineUnderWay
  <1> QED BY <1>1, <1>2, <1>3, <1>4, <1>6, <1>7, <1>8

(* There is room in the ring for whatever the host still sends.            *)
LEMMA RoomForMore ==
  ASSUME RelayTyped, Owed, typing # <<>>
  PROVE  Len(rxRing) < RING
  <1>1. Len(typing) \in Nat /\ Len(typing) >= 1 /\ Len(hostLines) \in Nat
    BY DEF RelayTyped
  <1>2. Len(Coming) \in Nat /\ Len(rxRing) \in Nat /\ Len(rxRing) <= Len(Coming)
    BY ComingParts
  <1>3. Len(Coming) + Len(typing) <= 3 * OUTSTANDING
    <2>1. CASE OneOther
      BY <1>1, <1>2, <2>1, RelayAssumption DEF OneOther
    <2>2. ASSUME NEW a \in 0 .. Len(hostLines), OwedFrom(a)
          PROVE  Len(Coming) + Len(typing) <= 3 * OUTSTANDING
      <3>0. PICK n \in Nat : n = Len(hostLines) /\ a \in 0 .. n
        BY <1>1
      <3>1. PICK m \in Nat : m = Len(hostLines) - a
        <4>1. n - a \in Nat
          BY <3>0
        <4> QED BY <3>0, <4>1
      <3>2. m <= OUTSTANDING /\ Len(Coming) + Len(typing) <= 3 * m
        BY <2>2, <3>1 DEF OwedFrom
      <3> QED BY <1>1, <1>2, <3>2, RelayAssumption
    <2> QED BY <2>1, <2>2 DEF Owed
  <1> QED BY <1>1, <1>2, <1>3, RelayAssumption

(* A piece into the ring is heard last.                                    *)
LEMMA PushedLast ==
  ASSUME RelayTyped, RelayTyped', NEW p \in RelayPieces, rxRing' = Append(rxRing, p),
         UNCHANGED <<chunk, textLine, overrun>>
  PROVE  /\ Len(Coming) \in Nat /\ Len(Heard) \in Nat
         /\ Len(Coming') = Len(Coming) + 1 /\ Coming'[Len(Coming) + 1] = p
         /\ \A i \in 1 .. Len(Coming) : Coming'[i] = Coming[i]
         /\ Len(Heard') = Len(Heard) + 1 /\ Heard'[Len(Heard) + 1] = p
         /\ \A i \in 1 .. Len(Heard) : Heard'[i] = Heard[i]
         /\ Len(Coming) > 0 => Heard # <<>>
  <1>1. rxRing \in Seq(RelayPieces) /\ chunk \in Seq(RelayPieces) /\ Kept' = Kept
    BY DEF RelayTyped, Kept
  <1>2. Coming' = Append(Coming, p)
    BY <1>1 DEF Coming
  <1>3. Coming \in Seq(RelayPieces) /\ Kept \in Seq(RelayPieces) /\ Heard \in Seq(RelayPieces)
        /\ Len(Kept) \in Nat /\ Len(Heard) = Len(Kept) + Len(Coming)
    BY HeardTyped DEF OnEnds
  <1>4. Heard' = Append(Heard, p)
    BY <1>1, <1>2, <1>3 DEF Heard
  <1>5. /\ Len(Coming) \in Nat
        /\ Len(Coming') = Len(Coming) + 1 /\ Coming'[Len(Coming) + 1] = p
        /\ \A i \in 1 .. Len(Coming) : Coming'[i] = Coming[i]
    BY <1>2, <1>3, OneMore
  <1>6. /\ Len(Heard) \in Nat
        /\ Len(Heard') = Len(Heard) + 1 /\ Heard'[Len(Heard) + 1] = p
        /\ \A i \in 1 .. Len(Heard) : Heard'[i] = Heard[i]
    BY <1>3, <1>4, OneMore
  <1>7. Len(Coming) > 0 => Heard # <<>>
    BY <1>3, <1>5
  <1> QED BY <1>5, <1>6, <1>7

(* What the interrupt leaves alone.                                        *)
LEMMA SerialLeaves ==
  ASSUME RelayInv, OnSerial
  PROVE  /\ UNCHANGED <<hostLines, hostBaud, chunk, textLine, overrun, doing, baud, trial>>
         /\ UNCHANGED <<rates, peers, radioed, verdicts>>
         /\ typing # <<>> /\ typing' = Tail(typing)
         /\ doing.verb # "U"
         /\ \/ hostBaud = baud /\ rxRing' = Append(rxRing, typing[1]) /\ lost' = lost /\
               noise' = noise
            \/ hostBaud # baud /\ rxRing' = Append(rxRing, Broken) /\ noise' = TRUE
            \/ hostBaud # baud /\ rxRing' = rxRing /\ noise' = TRUE
  <1>0. RelayTyped /\ LineUnderWay /\ SwitchAlone /\ Owed
    BY DEF RelayInv
  <1>1. /\ UNCHANGED <<hostLines, hostBaud, chunk, textLine, overrun, doing, baud, trial>>
        /\ UNCHANGED <<rates, peers, radioed, verdicts>>
        /\ typing # <<>> /\ typing' = Tail(typing)
    BY DEF OnSerial, airVars
  <1>2. Len(rxRing) < RING
    BY <1>0, <1>1, RoomForMore
  <1>3. Head(typing) = typing[1]
    BY <1>0, <1>1, TypingGoesOn
  <1>4. doing.verb # "U"
    BY <1>0, <1>1 DEF SwitchAlone
  <1>5. CASE hostBaud = baud
    <2>1. RelayPush(Head(typing)) /\ noise' = noise
      BY <1>5 DEF OnSerial
    <2>2. rxRing' = Append(rxRing, Head(typing)) /\ lost' = lost
      BY <1>2, <2>1 DEF RelayPush
    <2> QED BY <1>1, <1>3, <1>4, <1>5, <2>1, <2>2
  <1>6. CASE hostBaud # baud
    <2>1. noise' = TRUE /\ (RelayPush(Broken) \/ rxRing' = rxRing)
      BY <1>6 DEF OnSerial, Broken
    <2>2. RelayPush(Broken) => rxRing' = Append(rxRing, Broken)
      BY <1>2 DEF RelayPush
    <2> QED BY <1>1, <1>4, <1>6, <2>1, <2>2
  <1> QED BY <1>5, <1>6

(* What the interrupt adds is a piece of the last line, or noise.          *)
LEMMA PushKeeps ==
  ASSUME RelayInv, RelayTyped', NEW p \in RelayPieces, rxRing' = Append(rxRing, p),
         typing # <<>>, typing' = Tail(typing),
         UNCHANGED <<hostLines, hostBaud, chunk, textLine, overrun, doing, baud, trial>>,
         UNCHANGED <<radioed, verdicts>>,
         (hostBaud = baud /\ p = typing[1]) \/ (hostBaud # baud /\ p = Broken)
  PROVE  /\ Framed' /\ JoinsUp' /\ CleanOnTrial' /\ AnswerAwaited' /\ InOrder' /\ AfterTheObeyed'
         /\ ThreeALine' /\ Owed'
  <1>0. /\ RelayTyped /\ LineUnderWay /\ Framed /\ JoinsUp /\ CleanOnTrial /\ AnswerAwaited
        /\ InOrder /\ AfterTheObeyed /\ ThreeALine /\ Owed
    BY DEF RelayInv
  <1>1. /\ typing[1].part # "noise" /\ typing[1].of = Len(hostLines) /\ Len(hostLines) \in Nat
        /\ Len(hostLines) >= 1
        /\ Len(typing) \in Nat /\ Len(typing) >= 1 /\ Len(typing') = Len(typing) - 1
        /\ typing' # <<>> => GoesOn(hostLines, typing[1], typing'[1])
        /\ typing' = <<>> => typing[1].part = "newline"
    BY <1>0, TypingGoesOn
  <1>2. PICK c \in Nat, h \in Nat : c = Len(Coming) /\ h = Len(Heard)
    BY <1>0, PushedLast
  <1>3. /\ Len(Coming') = c + 1 /\ Coming'[c + 1] = p
        /\ \A i \in 1 .. c : Coming'[i] = Coming[i]
        /\ Len(Heard') = h + 1 /\ Heard'[h + 1] = p
        /\ \A i \in 1 .. h : Heard'[i] = Heard[i]
    BY <1>0, <1>2, PushedLast
  <1>4. h > 0 <=> Heard # <<>>
    <2>1. Heard \in Seq(RelayPieces)
      BY <1>0, HeardTyped DEF OnEnds
    <2> QED BY <1>2, <2>1
  <1>5. h + 1 \in 1 .. (h + 1) /\ c + 1 \in 1 .. (c + 1)
        /\ (\A i \in 1 .. (h + 1) : i = h + 1 \/ i \in 1 .. h)
        /\ (\A i \in 1 .. (c + 1) : i = c + 1 \/ i \in 1 .. c)
    <2>1. h + 1 \in 1 .. (h + 1) /\ \A i \in 1 .. (h + 1) : i = h + 1 \/ i \in 1 .. h
      BY OrTheNext
    <2>2. c + 1 \in 1 .. (c + 1) /\ \A i \in 1 .. (c + 1) : i = c + 1 \/ i \in 1 .. c
      BY OrTheNext
    <2> QED BY <2>1, <2>2
  <1>6. Broken.part = "noise" /\ (p.part # "noise" => p = typing[1] /\ hostBaud = baud)
    BY DEF Broken
  <1>7. /\ p.part = "newline" => typing' = <<>>
        /\ typing' # <<>> => typing'[1].part # "head"
    BY <1>1, <1>6 DEF GoesOn
  <1>8. Framed'
    <2>1. ASSUME NEW i \in 1 .. (h + 1)
          PROVE  /\ Heard'[i].part # "noise" => Heard'[i].of \in 1 .. Len(hostLines)
                 /\ i > 1 => Fits(hostLines, Heard'[i - 1], Heard'[i])
      <3>1. CASE i \in 1 .. h
        <4>1. Heard'[i] = Heard[i] /\ (i > 1 => i - 1 \in 1 .. h /\ Heard'[i - 1] = Heard[i - 1])
          BY <1>3, <3>1
        <4> QED BY <1>0, <1>2, <3>1, <4>1 DEF Framed
      <3>2. CASE i = h + 1
        <4>1. p.part # "noise" => p.of \in 1 .. Len(hostLines)
          BY <1>1, <1>6
        <4>2. ASSUME i > 1 PROVE Fits(hostLines, Heard'[i - 1], p)
          <5>1. i - 1 = h /\ h \in 1 .. h /\ Heard # <<>>
            BY <1>2, <1>4, <3>2, <4>2
          <5>2. Heard'[i - 1] = Heard[Len(Heard)]
            BY <1>2, <1>3, <5>1
          <5>3. CASE p.part = "noise"
            BY <5>3 DEF Fits
          <5>4. CASE p.part # "noise"
            BY <1>0, <1>6, <5>1, <5>2, <5>4 DEF JoinsUp
          <5> QED BY <5>3, <5>4
        <4> QED BY <1>3, <3>2, <4>1, <4>2
      <3> QED BY <1>5, <3>1, <3>2
    <2> QED BY <1>3, <2>1 DEF Framed
  <1>9. JoinsUp'
    <2>1. ASSUME typing' # <<>>, hostBaud = baud
          PROVE  Fits(hostLines, Heard'[Len(Heard')], typing'[1])
      <3>1. Heard'[Len(Heard')] = typing[1]
        BY <1>3, <2>1
      <3> QED BY <1>1, <2>1, <3>1 DEF Fits
    <2> QED BY <2>1 DEF JoinsUp
  <1>10. CleanOnTrial'
    <2>1. ASSUME Heard'[Len(Heard')].part \in {"head", "text"}
          PROVE  hostBaud = baud /\ typing' # <<>> /\
                 GoesOn(hostLines, Heard'[Len(Heard')], typing'[1])
      <3>1. Heard'[Len(Heard')] = p /\ p.part \in {"head", "text"}
        BY <1>3, <2>1
      <3>2. p = typing[1] /\ hostBaud = baud
        BY <1>6, <3>1
      <3>3. typing' # <<>>
        BY <1>1, <3>1, <3>2
      <3> QED BY <1>1, <3>1, <3>2, <3>3
    <2> QED BY <2>1 DEF CleanOnTrial
  <1>11. AnswerAwaited'
    <2> SUFFICES ASSUME NEW i \in 1 .. (c + 1), Coming'[i].part = "newline",
                        hostLines[Coming'[i].of].verb # "T"
                 PROVE  Coming'[i].of = Len(hostLines) /\ i = c + 1 /\ typing' = <<>>
      BY <1>3 DEF AnswerAwaited
    <2>1. CASE i \in 1 .. c
      <3>1. Coming'[i] = Coming[i]
        BY <1>3, <2>1
      <3> QED BY <1>0, <1>2, <2>1, <3>1 DEF AnswerAwaited
    <2>2. CASE i = c + 1
      BY <1>1, <1>3, <1>6, <1>7, <2>2
    <2> QED BY <1>5, <2>1, <2>2
  <1>12. \A i \in 1 .. h : p.part = "head" /\ Heard[i].part = "head" => Heard[i].of < p.of
    BY <1>0, <1>1, <1>2, <1>6 DEF InOrder
  <1>13. InOrder'
    <2>1. ASSUME NEW i \in 1 .. (h + 1), NEW j \in 1 .. (h + 1), i < j,
                 Heard'[i].part = "head", Heard'[j].part = "head"
          PROVE  Heard'[i].of < Heard'[j].of
      <3>1. i \in 1 .. h /\ Heard'[i] = Heard[i]
        BY <1>2, <1>3, <2>1
      <3>2. CASE j \in 1 .. h
        BY <1>0, <1>2, <1>3, <2>1, <3>1, <3>2 DEF InOrder
      <3>3. CASE j = h + 1
        BY <1>3, <1>12, <2>1, <3>1, <3>3
      <3> QED BY <1>5, <3>2, <3>3
    <2> QED BY <1>3, <1>7, <2>1 DEF InOrder
  <1>14. AfterTheObeyed'
    <2>1. ASSUME NEW j \in 1 .. Len(radioed), NEW i \in 1 .. (h + 1), Heard'[i].part = "head"
          PROVE  Head(radioed[j]).of < Heard'[i].of
      <3>1. CASE i \in 1 .. h
        BY <1>0, <1>2, <1>3, <2>1, <3>1 DEF AfterTheObeyed
      <3>2. CASE i = h + 1
        BY <1>0, <1>1, <1>3, <1>6, <2>1, <3>2 DEF AfterTheObeyed
      <3> QED BY <1>5, <3>1, <3>2
    <2> QED BY <1>0, <1>3, <1>7, <2>1 DEF AfterTheObeyed
  <1>15. ThreeALine'
    <2> SUFFICES ASSUME NEW i \in 1 .. (c + 1), Coming'[i].part = "newline"
                 PROVE  ((c + 1) - i) + Len(typing') <= 3 * (Len(hostLines) - Coming'[i].of)
      BY <1>3 DEF ThreeALine
    <2>1. CASE i \in 1 .. c
      <3>1. Coming'[i] = Coming[i]
        BY <1>3, <2>1
      <3>2. (c - i) + Len(typing) <= 3 * (Len(hostLines) - Coming[i].of)
        BY <1>0, <1>2, <2>1, <3>1 DEF ThreeALine
      <3>3. ((c + 1) - i) + Len(typing') = (c - i) + Len(typing)
        BY <1>1, <1>2
      <3> QED BY <3>1, <3>2, <3>3
    <2>2. CASE i = c + 1
      <3>1. p.part = "newline" /\ Coming'[i] = p
        BY <1>3, <2>2
      <3>2. p.of = Len(hostLines) /\ typing' = <<>>
        BY <1>1, <1>6, <1>7, <3>1
      <3>3. Len(typing') = 0
        <4>1. Len(<<>>) = 0
          OBVIOUS
        <4> QED BY <3>2, <4>1, Zenon
      <3> QED BY <1>1, <1>2, <2>2, <3>1, <3>2, <3>3
    <2> QED BY <1>5, <2>1, <2>2
  <1>16. Owed'
    <2>1. Len(Coming') + Len(typing') = Len(Coming) + Len(typing)
      BY <1>1, <1>2, <1>3
    <2>2. CASE OneOther
      BY <2>1, <2>2 DEF Owed, OneOther
    <2>3. ASSUME NEW a \in 0 .. Len(hostLines), OwedFrom(a)
          PROVE  Owed'
      <3>1. OwedFrom(a)'
        BY <2>1, <2>3 DEF OwedFrom, Obeyed
      <3> QED BY <3>1 DEF Owed
    <2> QED BY <1>0, <2>2, <2>3 DEF Owed
  <1> QED BY <1>8, <1>9, <1>10, <1>11, <1>13, <1>14, <1>15, <1>16

(* A piece that is lost leaves the rest of its line to come as noise.      *)
LEMMA DropKeeps ==
  ASSUME RelayInv, RelayTyped',
         typing # <<>>, typing' = Tail(typing), hostBaud # baud,
         UNCHANGED <<hostLines, hostBaud, rxRing, chunk, textLine, overrun, doing, baud, trial>>,
         UNCHANGED <<radioed, verdicts>>
  PROVE  /\ Framed' /\ JoinsUp' /\ CleanOnTrial' /\ AnswerAwaited' /\ InOrder' /\ AfterTheObeyed'
         /\ ThreeALine' /\ Owed'
  <1>0. /\ RelayTyped /\ LineUnderWay /\ Framed /\ CleanOnTrial /\ AnswerAwaited
        /\ InOrder /\ AfterTheObeyed /\ ThreeALine /\ Owed
    BY DEF RelayInv
  <1>1. /\ Len(typing) \in Nat /\ Len(typing) >= 1 /\ Len(typing') = Len(typing) - 1
        /\ typing' # <<>> => GoesOn(hostLines, typing[1], typing'[1])
    BY <1>0, TypingGoesOn
  <1>2. typing' # <<>> => typing'[1].part # "head"
    BY <1>1 DEF GoesOn
  <1>3. Coming' = Coming /\ Heard' = Heard
    BY DEF Coming, Heard, Kept
  <1>4. Framed' /\ JoinsUp' /\ CleanOnTrial' /\ AnswerAwaited'
    BY <1>0, <1>3 DEF Framed, JoinsUp, CleanOnTrial, AnswerAwaited
  <1>5. InOrder' /\ AfterTheObeyed'
    BY <1>0, <1>2, <1>3 DEF InOrder, AfterTheObeyed
  <1>6. PICK c \in Nat : c = Len(Coming)
    BY <1>0, HeardTyped DEF OnEnds
  <1>7. ThreeALine'
    <2> SUFFICES ASSUME NEW i \in 1 .. Len(Coming), Coming[i].part = "newline"
                 PROVE  (Len(Coming) - i) + Len(typing') <= 3 * (Len(hostLines) - Coming[i].of)
      BY <1>3 DEF ThreeALine
    <2>1. (Len(Coming) - i) + Len(typing) <= 3 * (Len(hostLines) - Coming[i].of)
      BY <1>0 DEF ThreeALine
    <2>2. PICK d \in Int : d = Len(Coming) - i
      <3>1. c - i \in Int
        BY <1>6
      <3> QED BY <1>6, <3>1
    <2>3. PICK e : e = 3 * (Len(hostLines) - Coming[i].of)
      OBVIOUS
    <2>4. d + Len(typing) <= e => d + Len(typing') <= e
      <3>1. Coming[i] \in RelayPieces /\ Len(hostLines) \in Nat
        BY <1>0, HeardTyped DEF OnEnds, RelayTyped
      <3>2. e \in Int
        BY <2>3, <3>1 DEF RelayPieces
      <3> QED BY <1>1, <3>2
    <2> QED BY <2>1, <2>2, <2>3, <2>4
  <1>8. Owed'
    <2>1. CASE OneOther
      BY <1>1, <1>3, <1>6, <2>1 DEF Owed, OneOther
    <2>2. ASSUME NEW a \in 0 .. Len(hostLines), OwedFrom(a)
          PROVE  Owed'
      <3>0. PICK n \in Nat : n = Len(hostLines)
        BY <1>0 DEF RelayTyped
      <3>1. PICK e \in Int : e = 3 * (Len(hostLines) - a)
        BY <2>2, <3>0
      <3>2. Len(Coming) + Len(typing') <= 3 * (Len(hostLines) - a)
        BY <1>1, <1>6, <2>2, <3>1 DEF OwedFrom
      <3>3. OwedFrom(a)'
        BY <1>3, <2>2, <3>2 DEF OwedFrom, Obeyed
      <3> QED BY <3>3 DEF Owed
    <2> QED BY <1>0, <2>1, <2>2 DEF Owed
  <1> QED BY <1>4, <1>5, <1>7, <1>8

(* The interrupt's step.                                                   *)
LEMMA SerialKeeps ==
  ASSUME RelayInv, OnSerial
  PROVE  RelayInv'
  <1>0. RelayTyped /\ LineUnderWay /\ SwitchAlone /\ VerdictsOfObeyed /\ RelayFaithful
    BY DEF RelayInv
  <1>1. /\ UNCHANGED <<hostLines, hostBaud, chunk, textLine, overrun, doing, baud, trial>>
        /\ UNCHANGED <<rates, peers, radioed, verdicts>>
        /\ typing # <<>> /\ typing' = Tail(typing)
        /\ doing.verb # "U"
        /\ \/ hostBaud = baud /\ rxRing' = Append(rxRing, typing[1]) /\ lost' = lost /\
              noise' = noise
           \/ hostBaud # baud /\ rxRing' = Append(rxRing, Broken) /\ noise' = TRUE
           \/ hostBaud # baud /\ rxRing' = rxRing /\ noise' = TRUE
    BY SerialLeaves
  <1>2. typing' \in Seq(RelayPieces) /\ typing[1] \in RelayPieces /\ LineUnderWay'
    BY <1>0, <1>1, TypingGoesOn
  <1>3. Broken \in RelayPieces
    BY DEF Broken, RelayPieces
  <1>4. RelayTyped'
    <2>1. rxRing' \in Seq(RelayPieces)
      <3>1. rxRing \in Seq(RelayPieces)
        BY <1>0 DEF RelayTyped
      <3>2. Append(rxRing, typing[1]) \in Seq(RelayPieces) /\
            Append(rxRing, Broken) \in Seq(RelayPieces)
        BY <1>2, <1>3, <3>1, OneMore
      <3> QED BY <1>1, <3>1, <3>2
    <2> QED BY <1>0, <1>1, <1>2, <2>1 DEF RelayTyped
  <1>5. /\ Framed' /\ JoinsUp' /\ CleanOnTrial' /\ AnswerAwaited' /\ InOrder' /\ AfterTheObeyed'
        /\ ThreeALine' /\ Owed'
    <2>1. CASE hostBaud = baud /\ rxRing' = Append(rxRing, typing[1])
      <3>1. PICK p \in RelayPieces : p = typing[1]
        BY <1>2
      <3>2. rxRing' = Append(rxRing, p)
        BY <2>1, <3>1
      <3> QED BY <1>1, <1>4, <2>1, <3>1, <3>2, PushKeeps
    <2>2. CASE hostBaud # baud /\ rxRing' = Append(rxRing, Broken)
      <3>1. PICK p \in RelayPieces : p = Broken
        BY <1>3
      <3>2. rxRing' = Append(rxRing, p)
        BY <2>2, <3>1
      <3> QED BY <1>1, <1>4, <2>2, <3>1, <3>2, PushKeeps
    <2>3. CASE hostBaud # baud /\ rxRing' = rxRing
      BY <1>1, <1>4, <2>3, DropKeeps
    <2> QED BY <1>1, <2>1, <2>2, <2>3
  <1>6. SwitchAlone'
    BY <1>1 DEF SwitchAlone
  <1>7. VerdictsOfObeyed'
    BY <1>0, <1>1 DEF VerdictsOfObeyed, Obeyed
  <1>8. RelayFaithful'
    BY <1>0, <1>1 DEF RelayFaithful, DatagramsWhole, NeverOverruns, PeersAtTheRate
  <1> QED BY <1>2, <1>4, <1>5, <1>6, <1>7, <1>8 DEF RelayInv

-----------------------------------------------------------------------------
(* The steps that leave the text alone *)

(* What says something of the text alone.                                  *)
LEMMA QuietKeeps ==
  ASSUME RelayInv,
         UNCHANGED <<hostLines, typing, rxRing, chunk, textLine, overrun, radioed>>
  PROVE  /\ Heard' = Heard /\ Coming' = Coming
         /\ LineUnderWay' /\ Framed' /\ AnswerAwaited' /\ InOrder' /\ AfterTheObeyed'
         /\ ThreeALine' /\ Owed' /\ DatagramsWhole'
  <1>1. Heard' = Heard /\ Coming' = Coming
    BY DEF Heard, Coming, Kept
  <1>2. LineUnderWay' /\ Framed' /\ AnswerAwaited' /\ InOrder' /\ AfterTheObeyed'
    BY <1>1 DEF RelayInv, LineUnderWay, Framed, AnswerAwaited, InOrder, AfterTheObeyed
  <1>3. ThreeALine' /\ Owed'
    BY <1>1 DEF RelayInv, ThreeALine, Owed, OwedFrom, OneOther, Obeyed
  <1>4. DatagramsWhole'
    BY DEF RelayInv, RelayFaithful, DatagramsWhole
  <1> QED BY <1>1, <1>2, <1>3, <1>4

(* The host sets its own speed between two lines.                          *)
LEMMA SwitchKeeps ==
  ASSUME RelayInv, NEW b, HostSwitches(b)
  PROVE  RelayInv'
  <1>1. /\ UNCHANGED <<hostLines, typing, rxRing, chunk, textLine, overrun, radioed>>
        /\ UNCHANGED <<doing, baud, trial, verdicts, lost, noise, rates, peers>>
        /\ typing = <<>>
    BY DEF HostSwitches, airVars
  <1>2. /\ Heard' = Heard
        /\ LineUnderWay' /\ Framed' /\ AnswerAwaited' /\ InOrder' /\ AfterTheObeyed'
        /\ ThreeALine' /\ Owed' /\ DatagramsWhole'
    BY <1>1, QuietKeeps
  <1>3. RelayTyped' /\ SwitchAlone' /\ VerdictsOfObeyed'
    BY <1>1 DEF RelayInv, RelayTyped, SwitchAlone, VerdictsOfObeyed, Obeyed
  <1>4. JoinsUp' /\ CleanOnTrial'
    BY <1>1, <1>2 DEF RelayInv, JoinsUp, CleanOnTrial
  <1>5. RelayFaithful'
    BY <1>1, <1>2 DEF RelayInv, RelayFaithful, NeverOverruns, PeersAtTheRate
  <1> QED BY <1>2, <1>3, <1>4, <1>5 DEF RelayInv

(* A verdict is of the datagram that was sent last.                        *)
LEMMA SendKeeps ==
  ASSUME RelayInv, SendDone
  PROVE  RelayInv'
  <1>1. /\ UNCHANGED <<hostLines, typing, rxRing, chunk, textLine, overrun, radioed>>
        /\ UNCHANGED <<hostBaud, baud, trial, lost, noise, rates, peers>>
        /\ doing.verb = "T" /\ doing' = Nothing
        /\ verdicts' = Append(verdicts, Head(Last(radioed)).of)
    BY DEF SendDone, hostVars
  <1>2. /\ Heard' = Heard
        /\ LineUnderWay' /\ Framed' /\ AnswerAwaited' /\ InOrder' /\ AfterTheObeyed'
        /\ ThreeALine' /\ Owed' /\ DatagramsWhole'
    BY <1>1, QuietKeeps
  <1>3. PICK n \in Nat : n = Len(radioed) /\ n >= 1 /\ Last(radioed) = radioed[n]
    BY <1>1 DEF RelayInv, VerdictsOfObeyed, RelayTyped, Last
  <1>4. PICK k \in Nat : k = Head(radioed[n]).of
    BY <1>3 DEF RelayInv, AfterTheObeyed
  <1>5. /\ verdicts' \in Seq(Nat) /\ Len(verdicts) \in Nat
        /\ Len(verdicts') = Len(verdicts) + 1
        /\ verdicts'[Len(verdicts) + 1] = k
        /\ \A i \in 1 .. Len(verdicts) : verdicts'[i] = verdicts[i]
    <2>1. verdicts \in Seq(Nat) /\ verdicts' = Append(verdicts, k)
      BY <1>1, <1>3, <1>4 DEF RelayInv, RelayTyped
    <2> QED BY <2>1, OneMore
  <1>6. RelayTyped'
    BY <1>1, <1>5 DEF RelayInv, RelayTyped
  <1>7. VerdictsOfObeyed'
    <2>1. n \in 1 .. Len(radioed)
      BY <1>3
    <2>2. ASSUME NEW i \in 1 .. (Len(verdicts) + 1) PROVE Obeyed(verdicts'[i])
      <3>1. CASE i \in 1 .. Len(verdicts)
        BY <1>5, <3>1 DEF RelayInv, VerdictsOfObeyed
      <3>2. CASE i = Len(verdicts) + 1
        BY <1>4, <1>5, <2>1, <3>2 DEF Obeyed
      <3> QED BY <1>5, <3>1, <3>2, OrTheNext
    <2>3. doing'.verb # "T"
      BY <1>1 DEF Nothing
    <2> QED BY <1>1, <1>5, <2>2, <2>3 DEF VerdictsOfObeyed, Obeyed
  <1>8. JoinsUp' /\ CleanOnTrial'
    BY <1>1, <1>2 DEF RelayInv, JoinsUp, CleanOnTrial
  <1>9. SwitchAlone'
    BY <1>1 DEF SwitchAlone, Nothing
  <1>10. RelayFaithful'
    BY <1>1, <1>2 DEF RelayInv, RelayFaithful, NeverOverruns, PeersAtTheRate
  <1> QED BY <1>2, <1>6, <1>7, <1>8, <1>9, <1>10 DEF RelayInv

(* A speed is taken, or goes, with no line left in its middle.             *)
LEMMA SpeedKeeps ==
  ASSUME RelayInv, SetBaud \/ Elapse \/ Expire
  PROVE  RelayInv'
  <1>1. /\ UNCHANGED <<hostLines, typing, rxRing, chunk, textLine, overrun, radioed>>
        /\ UNCHANGED <<hostBaud, verdicts, lost, noise, rates, peers>>
        /\ doing' \in {doing, Nothing}
    BY DEF SetBaud, Elapse, Expire, hostVars, airVars
  <1>2. /\ Heard' = Heard
        /\ LineUnderWay' /\ Framed' /\ AnswerAwaited' /\ InOrder' /\ AfterTheObeyed'
        /\ ThreeALine' /\ Owed' /\ DatagramsWhole'
    BY <1>1, QuietKeeps
  <1>3. RelayTyped'
    <2>1. trial \in Int
      BY DEF RelayInv, RelayTyped
    <2>2. trial' \in Int
      BY <2>1, RelayAssumption DEF SetBaud, Elapse, Expire, NoTrial
    <2> QED BY <1>1, <2>2 DEF RelayInv, RelayTyped
  <1>4. SwitchAlone' /\ VerdictsOfObeyed'
    <2>1. Nothing.verb # "T" /\ Nothing.verb # "U"
      BY DEF Nothing
    <2>2. CASE doing' = doing
      BY <1>1, <2>2 DEF RelayInv, SwitchAlone, VerdictsOfObeyed, Obeyed
    <2>3. CASE doing' = Nothing
      BY <1>1, <2>1, <2>3 DEF RelayInv, SwitchAlone, VerdictsOfObeyed, Obeyed
    <2> QED BY <1>1, <2>2, <2>3
  <1>5. JoinsUp' /\ CleanOnTrial'
    <2>1. CASE SetBaud
      <3>1. typing = <<>> /\ Heard = <<>>
        <4>1. typing = <<>> /\ chunk = <<>> /\ rxRing = <<>> /\ textLine = <<>> /\ ~overrun
          BY <2>1 DEF RelayInv, SwitchAlone, SetBaud
        <4> QED BY <4>1 DEF Heard, Kept, Coming
      <3> QED BY <1>1, <1>2, <3>1 DEF JoinsUp, CleanOnTrial
    <2>2. CASE Elapse
      <3>1. typing = <<>> /\ trial # NoTrial /\ baud' = baud
        BY <2>2 DEF Elapse, NoTrial
      <3> QED BY <1>1, <1>2, <3>1 DEF RelayInv, JoinsUp, CleanOnTrial
    <2>3. CASE Expire
      <3>1. trial # NoTrial /\ trial' = NoTrial
        BY <2>3, RelayAssumption DEF Expire, NoTrial
      <3>2. CleanOnTrial
        BY DEF RelayInv
      <3>3. CleanOnTrial'
        BY <3>1 DEF CleanOnTrial
      <3>4. ASSUME typing # <<>>, Heard # <<>> PROVE Fits(hostLines, Heard[Len(Heard)], typing[1])
        BY <3>1, <3>2, <3>4 DEF CleanOnTrial, Fits
      <3>5. JoinsUp'
        BY <1>1, <1>2, <3>4 DEF JoinsUp
      <3> QED BY <3>3, <3>5
    <2> QED BY <2>1, <2>2, <2>3
  <1>6. RelayFaithful'
    BY <1>1, <1>2 DEF RelayInv, RelayFaithful, NeverOverruns, PeersAtTheRate
  <1> QED BY <1>2, <1>3, <1>4, <1>5, <1>6 DEF RelayInv

(* A step that changes nothing.                                            *)
LEMMA RelayStutters ==
  ASSUME RelayInv, UNCHANGED relayVars
  PROVE  RelayInv'
  <1>1. /\ UNCHANGED <<hostLines, typing, rxRing, chunk, textLine, overrun, radioed>>
        /\ UNCHANGED <<hostBaud, baud, trial, doing, verdicts, lost, noise, rates, peers>>
    BY DEF relayVars, hostVars, airVars
  <1>2. /\ Heard' = Heard
        /\ LineUnderWay' /\ Framed' /\ AnswerAwaited' /\ InOrder' /\ AfterTheObeyed'
        /\ ThreeALine' /\ Owed' /\ DatagramsWhole'
    BY <1>1, QuietKeeps
  <1>3. RelayTyped' /\ SwitchAlone' /\ VerdictsOfObeyed'
    BY <1>1 DEF RelayInv, RelayTyped, SwitchAlone, VerdictsOfObeyed, Obeyed
  <1>4. JoinsUp' /\ CleanOnTrial'
    BY <1>1, <1>2 DEF RelayInv, JoinsUp, CleanOnTrial
  <1>5. RelayFaithful'
    BY <1>1, <1>2 DEF RelayInv, RelayFaithful, NeverOverruns, PeersAtTheRate
  <1> QED BY <1>2, <1>3, <1>4, <1>5 DEF RelayInv

-----------------------------------------------------------------------------
(* The host asks *)

(* A new line: what it leaves alone, and its pieces.                       *)
Asked(c, n) ==
  /\ n = Len(hostLines) /\ Len(hostLines') = n + 1 /\ hostLines' \in Seq(HostCommands)
  /\ hostLines'[n + 1] = c
  /\ \A k \in 1 .. n : hostLines'[k] = hostLines[k]
  /\ typing = <<>> /\ typing' \in Seq(RelayPieces) /\ typing' # <<>>
  /\ Len(typing') = IF c.verb = "T" THEN 3 ELSE 2
  /\ typing'[1].part = "head" /\ LineUnderWay'

LEMMA AskedPieces ==
  ASSUME RelayTyped, NEW c \in HostCommands, HostAsks(c)
  PROVE  \E n \in Nat : Asked(c, n)
  <1>1. /\ typing = <<>> /\ hostLines' = Append(hostLines, c)
        /\ typing' = [p \in 1 .. (IF c.verb = "T" THEN 3 ELSE 2) |->
                        [of   |-> Len(hostLines'),
                         part |-> IF p = 1 THEN "head"
                                  ELSE IF c.verb = "T" /\ p = 2 THEN "text" ELSE "newline"]]
    BY DEF HostAsks
  <1>2. PICK n \in Nat : n = Len(hostLines)
    BY DEF RelayTyped
  <1>3. /\ Len(hostLines') = n + 1 /\ hostLines' \in Seq(HostCommands)
        /\ hostLines'[n + 1] = c
        /\ \A k \in 1 .. n : hostLines'[k] = hostLines[k]
    BY <1>1, <1>2, OneMore DEF RelayTyped
  <1>4. PICK m \in {2, 3} : m = IF c.verb = "T" THEN 3 ELSE 2
    OBVIOUS
  <1>5. /\ typing' \in Seq(RelayPieces) /\ Len(typing') = m
        /\ \A p \in 1 .. m : typing'[p] = [of   |-> n + 1,
                                          part |-> IF p = 1 THEN "head"
                                                   ELSE IF c.verb = "T" /\ p = 2 THEN "text" ELSE "newline"]
    <2>1. /\ typing' = [p \in 1 .. m |->
                          [of   |-> n + 1,
                           part |-> IF p = 1 THEN "head"
                                    ELSE IF c.verb = "T" /\ p = 2 THEN "text" ELSE "newline"]]
      BY <1>1, <1>3, <1>4
    <2>2. typing' \in [1 .. m -> RelayPieces]
      BY <1>2, <2>1 DEF RelayPieces
    <2>3. typing' \in Seq(RelayPieces) /\ Len(typing') = m
      BY <1>4, <2>2
    <2> QED BY <2>1, <2>3
  <1>6. /\ 1 \in 1 .. m /\ 2 \in 1 .. m
        /\ typing'[1].of = n + 1 /\ typing'[1].part = "head"
        /\ typing'[2].of = n + 1 /\ typing'[2].part = IF c.verb = "T" THEN "text" ELSE "newline"
        /\ m = 3 => typing'[3].of = n + 1 /\ typing'[3].part = "newline" /\ c.verb = "T"
        /\ m = 2 => c.verb # "T"
    <2>1. 1 \in 1 .. m /\ 2 \in 1 .. m /\ (m = 3 => 3 \in 1 .. m)
      BY <1>4
    <2>2. typing'[1] = [of |-> n + 1, part |-> "head"]
      BY <1>5, <2>1
    <2>3. typing'[2] = [of |-> n + 1, part |-> IF c.verb = "T" THEN "text" ELSE "newline"]
      BY <1>5, <2>1
    <2>4. m = 3 => typing'[3] = [of |-> n + 1, part |-> "newline"]
      BY <1>5, <2>1
    <2> QED BY <1>4, <2>1, <2>2, <2>3, <2>4
  <1>7. \A i \in 1 .. m : i = 1 \/ i = 2 \/ (i = 3 /\ m = 3)
    BY <1>4
  <1>8. LineUnderWay'
    <2>1. ASSUME NEW i \in 1 .. m
          PROVE  /\ typing'[i].of = n + 1 /\ typing'[i].part # "noise"
                 /\ i > 1 => GoesOn(hostLines', typing'[i - 1], typing'[i])
      <3>1. CASE i = 1
        BY <1>6, <3>1
      <3>2. CASE i = 2
        <4>1. i - 1 = 1 /\ hostLines'[typing'[1].of] = c
          BY <1>3, <1>6, <3>2
        <4> QED BY <1>6, <3>2, <4>1 DEF GoesOn
      <3>3. CASE i = 3 /\ m = 3
        <4>1. i - 1 = 2
          BY <3>3
        <4> QED BY <1>6, <3>3, <4>1 DEF GoesOn
      <3> QED BY <1>7, <3>1, <3>2, <3>3
    <2>2. typing'[m].part = "newline"
      BY <1>4, <1>6
    <2> QED BY <1>2, <1>3, <1>5, <2>1, <2>2 DEF LineUnderWay
  <1>9. typing' # <<>>
    <2>1. Len(<<>>) = 0
      OBVIOUS
    <2>2. Len(typing') # 0
      BY <1>4, <1>5
    <2> QED BY <2>1, <2>2, Zenon
  <1> QED BY <1>1, <1>2, <1>3, <1>4, <1>5, <1>6, <1>8, <1>9 DEF Asked

(* What is coming was heard, so it is of a line the host wrote.            *)
LEMMA ComingOf ==
  ASSUME RelayTyped, Framed, NEW i \in 1 .. Len(Coming), Coming[i].part = "newline"
  PROVE  Coming[i].of \in 1 .. Len(hostLines)
  <1>1. /\ Len(Kept) \in Nat /\ Len(Coming) \in Nat
        /\ Len(Heard) = Len(Kept) + Len(Coming)
        /\ Heard[Len(Kept) + i] = Coming[i]
    BY HeardTyped DEF OnEnds
  <1>2. Len(Kept) + i \in 1 .. Len(Heard)
    BY <1>1
  <1> QED BY <1>1, <1>2 DEF Framed

(* After a line that is no datagram the host waits for the answer.         *)
LEMMA AskedAlone ==
  ASSUME RelayTyped, NEW c, HostAsks(c), hostLines # <<>>, Last(hostLines).verb # "T"
  PROVE  Coming = <<>> /\ doing = Nothing
  <1>1. rxRing = <<>> /\ chunk = <<>> /\ doing = Nothing
    BY DEF HostAsks, Answerless
  <1> QED BY <1>1 DEF Coming

(* The text that was heard, and the new line.                              *)
LEMMA AskedFramed ==
  ASSUME RelayInv, NEW c \in HostCommands, HostAsks(c)
  PROVE  /\ Framed' /\ JoinsUp' /\ CleanOnTrial' /\ AnswerAwaited' /\ InOrder' /\ AfterTheObeyed'
         /\ ThreeALine' /\ SwitchAlone'
  <1>0. /\ RelayTyped /\ Framed /\ CleanOnTrial /\ AnswerAwaited
        /\ InOrder /\ AfterTheObeyed /\ ThreeALine /\ SwitchAlone
    BY DEF RelayInv
  <1>1. PICK n \in Nat : Asked(c, n)
    BY <1>0, AskedPieces
  <1>2. /\ n = Len(hostLines) /\ Len(hostLines') = n + 1
        /\ hostLines'[n + 1] = c
        /\ \A k \in 1 .. n : hostLines'[k] = hostLines[k]
        /\ typing = <<>> /\ typing' # <<>>
        /\ Len(typing') \in {2, 3} /\ typing'[1].part = "head"
    BY <1>1 DEF Asked
  <1>3. /\ UNCHANGED <<hostBaud, rxRing, chunk, textLine, overrun, doing, baud, trial, radioed>>
    BY DEF HostAsks, airVars
  <1>4. Heard' = Heard /\ Coming' = Coming
    BY <1>3 DEF Heard, Coming, Kept
  <1>5. 1 .. n \subseteq 1 .. (n + 1)
    OBVIOUS
  <1>6. ASSUME NEW p, NEW q, p.part # "noise" => p.of \in 1 .. n, Fits(hostLines, p, q)
        PROVE  Fits(hostLines', p, q)
    BY <1>2, <1>6 DEF Fits, GoesOn
  <1>7. Framed'
    <2>1. PICK h : h = Len(Heard)
      OBVIOUS
    <2>2. h \in Nat
      BY <1>0, <2>1, HeardTyped DEF OnEnds
    <2>3. ASSUME NEW i \in 1 .. h
          PROVE  /\ Heard[i].part # "noise" => Heard[i].of \in 1 .. (n + 1)
                 /\ i > 1 => Fits(hostLines', Heard[i - 1], Heard[i])
      <3>1. Heard[i].part # "noise" => Heard[i].of \in 1 .. n
        BY <1>0, <1>2, <2>1 DEF Framed
      <3>2. ASSUME i > 1 PROVE Fits(hostLines', Heard[i - 1], Heard[i])
        <4>1. i - 1 \in 1 .. h
          BY <2>2, <3>2
        <4>2. Heard[i - 1].part # "noise" => Heard[i - 1].of \in 1 .. n
          BY <1>0, <1>2, <2>1, <4>1 DEF Framed
        <4>3. Fits(hostLines, Heard[i - 1], Heard[i])
          BY <1>0, <2>1, <3>2 DEF Framed
        <4> QED BY <1>6, <4>2, <4>3
      <3> QED BY <1>5, <3>1, <3>2
    <2> QED BY <1>2, <1>4, <2>1, <2>3 DEF Framed
  <1>8. JoinsUp' /\ CleanOnTrial'
    BY <1>0, <1>2, <1>3, <1>4 DEF JoinsUp, Fits, CleanOnTrial
  <1>9. hostLines # <<>> /\ Last(hostLines).verb # "T" => Coming = <<>> /\ doing = Nothing
    BY <1>0, AskedAlone
  <1>10. AnswerAwaited'
    <2> SUFFICES ASSUME NEW i \in 1 .. Len(Coming), Coming[i].part = "newline",
                        hostLines'[Coming[i].of].verb # "T"
                 PROVE  FALSE
      BY <1>4 DEF AnswerAwaited
    <2>1. Coming[i].of \in 1 .. n
      BY <1>0, <1>2, ComingOf
    <2>2. hostLines[Coming[i].of].verb # "T"
      BY <1>2, <2>1
    <2>3. Coming[i].of = n
      BY <1>0, <1>2, <2>2 DEF AnswerAwaited
    <2>4. hostLines # <<>> /\ Last(hostLines).verb # "T"
      BY <1>0, <1>2, <2>1, <2>2, <2>3 DEF RelayTyped, Last
    <2>5. Coming = <<>>
      BY <1>9, <2>4
    <2>6. Len(<<>>) = 0
      OBVIOUS
    <2>7. Len(Coming) = 0
      BY <2>5, <2>6, Zenon
    <2> QED BY <2>7
  <1>11. \A i \in 1 .. Len(Heard) : Heard[i].part = "head" => Heard[i].of \in 1 .. n
    BY <1>0, <1>2 DEF Framed
  <1>12. InOrder'
    <2>1. \A i \in 1 .. Len(Heard) : Heard[i].part = "head" => Heard[i].of < n + 1
      BY <1>11
    <2> QED BY <1>0, <1>2, <1>4, <2>1 DEF InOrder
  <1>13. AfterTheObeyed'
    <2>1. \A j \in 1 .. Len(radioed) : Head(radioed[j]).of \in 1 .. (n + 1) /\
          Head(radioed[j]).of < n + 1
      BY <1>0, <1>2, <1>5 DEF AfterTheObeyed
    <2> QED BY <1>0, <1>2, <1>3, <1>4, <2>1 DEF AfterTheObeyed
  <1>14. ThreeALine'
    <2> SUFFICES ASSUME NEW i \in 1 .. Len(Coming), Coming[i].part = "newline"
                 PROVE  (Len(Coming) - i) + Len(typing') <= 3 * ((n + 1) - Coming[i].of)
      BY <1>2, <1>4 DEF ThreeALine
    <2>1. Coming[i].of \in 1 .. n
      BY <1>0, <1>2, ComingOf
    <2>2. (Len(Coming) - i) + Len(typing) <= 3 * (n - Coming[i].of)
      BY <1>0, <1>2 DEF ThreeALine
    <2>3. Len(typing) = 0
      <3>1. Len(<<>>) = 0
        OBVIOUS
      <3> QED BY <1>2, <3>1, Zenon
    <2>4. PICK d \in Int : d = Len(Coming) - i
      <3>1. PICK m \in Nat : m = Len(Coming)
        BY <1>0, HeardTyped DEF OnEnds
      <3>2. m - i \in Int
        BY <3>1
      <3> QED BY <3>1, <3>2
    <2>5. PICK k \in 1 .. n : k = Coming[i].of
      BY <2>1
    <2>6. d <= 3 * (n - k)
      BY <2>2, <2>3, <2>4, <2>5
    <2>7. d + Len(typing') <= 3 * ((n + 1) - k)
      <3>1. PICK m \in {2, 3} : m = Len(typing')
        BY <1>2
      <3>2. d + m <= 3 * ((n + 1) - k)
        <4>1. n - k \in Int /\ (n + 1) - k = (n - k) + 1
          OBVIOUS
        <4>2. PICK r \in Int : r = n - k
          BY <4>1
        <4>3. d <= 3 * r /\ m <= 3
          BY <2>6, <4>2
        <4>4. d + m <= 3 * (r + 1)
          BY <4>3
        <4> QED BY <4>1, <4>2, <4>4
      <3> QED BY <3>1, <3>2
    <2> QED BY <2>4, <2>5, <2>7
  <1>15. SwitchAlone'
    <2>1. doing.verb # "U"
      <3>1. Nothing.verb # "U"
        BY DEF Nothing
      <3> QED BY <1>0, <1>9, <3>1 DEF SwitchAlone
    <2> QED BY <1>3, <2>1 DEF SwitchAlone
  <1> QED BY <1>7, <1>8, <1>10, <1>12, <1>13, <1>14, <1>15

(* What is owed a verdict and was not obeyed is without one.               *)
LEMMA OwedIsUnanswered ==
  ASSUME RelayTyped, VerdictsOfObeyed, NEW a \in 0 .. Len(hostLines),
         \A k \in (a + 1) .. Len(hostLines) : hostLines[k].verb = "T" /\ ~Obeyed(k)
  PROVE  Cardinality(Unanswered) \in Nat /\ Len(hostLines) - a <= Cardinality(Unanswered)
  <1>1. PICK n \in Nat : n = Len(hostLines) /\ a \in 0 .. n /\ DOMAIN hostLines = 1 .. n
    BY DEF RelayTyped
  <1>2. (a + 1) .. n \subseteq Unanswered
    <2>1. DOMAIN verdicts = 1 .. Len(verdicts)
      BY DEF RelayTyped
    <2>2. ASSUME NEW k \in (a + 1) .. n PROVE k \in Unanswered
      <3>1. k \in 1 .. n /\ hostLines[k].verb = "T" /\ ~Obeyed(k)
        BY <1>1
      <3>2. ~\E i \in DOMAIN verdicts : verdicts[i] = k
        BY <2>1, <3>1 DEF VerdictsOfObeyed
      <3> QED BY <1>1, <3>1, <3>2 DEF Unanswered, Sends
    <2> QED BY <2>2
  <1>3. Unanswered \subseteq 1 .. n
    BY <1>1 DEF Unanswered, Sends
  <1>4. IsFiniteSet(Unanswered)
    <2>1. IsFiniteSet(1 .. n)
      <3>1. 1 \in Int /\ n \in Int
        OBVIOUS
      <3> QED BY <3>1, FS_Interval
    <2> QED BY <1>3, <2>1, FS_Subset
  <1>5. Cardinality(Unanswered) \in Nat
    BY <1>4, FS_CardinalityType
  <1>6. Cardinality((a + 1) .. n) <= Cardinality(Unanswered)
    BY <1>2, <1>4, FS_Subset
  <1>7. Cardinality((a + 1) .. n) = IF a + 1 > n THEN 0 ELSE (n - (a + 1)) + 1
    <2>1. a + 1 \in Int /\ n \in Int
      BY <1>1
    <2> QED BY <2>1, FS_Interval
  <1>8. Cardinality((a + 1) .. n) = n - a
    BY <1>1, <1>7
  <1> QED BY <1>1, <1>5, <1>6, <1>8

(* A host keeps no more without a verdict than it may.                     *)
LEMMA AskedOwed ==
  ASSUME RelayInv, NEW c \in HostCommands, HostAsks(c)
  PROVE  Owed'
  <1>0. RelayTyped /\ AfterTheObeyed /\ VerdictsOfObeyed /\ Owed
    BY DEF RelayInv
  <1>1. PICK n \in Nat : Asked(c, n)
    BY <1>0, AskedPieces
  <1>2. /\ n = Len(hostLines) /\ Len(hostLines') = n + 1 /\ hostLines' # <<>>
        /\ Last(hostLines') = c /\ hostLines'[n + 1] = c
        /\ \A k \in 1 .. n : hostLines'[k] = hostLines[k]
        /\ typing = <<>>
        /\ Len(typing') = IF c.verb = "T" THEN 3 ELSE 2
    <2>1. hostLines' # <<>>
      <3>1. Len(<<>>) = 0 /\ n + 1 # 0
        OBVIOUS
      <3>2. Len(hostLines') = n + 1
        BY <1>1 DEF Asked
      <3> QED BY <3>1, <3>2, Zenon
    <2> QED BY <1>1, <2>1 DEF Asked, Last
  <1>3. Coming' = Coming /\ radioed' = radioed
    BY DEF HostAsks, airVars, Coming
  <1>4. PICK m \in Nat : m = Len(Coming)
    BY <1>0, HeardTyped DEF OnEnds
  <1>5. ~Obeyed(n + 1)
    <2>1. ASSUME NEW j \in 1 .. Len(radioed) PROVE Head(radioed[j]).of # n + 1
      <3>1. PICK k \in 1 .. n : k = Head(radioed[j]).of
        BY <1>0, <1>2 DEF AfterTheObeyed
      <3> QED BY <3>1
    <2> QED BY <2>1 DEF Obeyed
  <1>6. ASSUME NEW a \in 0 .. n, m <= 3 * (n - a), (n + 1) - a <= OUTSTANDING, c.verb = "T",
               \A k \in (a + 1) .. n : hostLines[k].verb = "T" /\ ~Obeyed(k)
        PROVE  Owed'
    <2>1. Len(Coming') + Len(typing') <= 3 * (Len(hostLines') - a)
      BY <1>2, <1>3, <1>4, <1>6
    <2>2. ASSUME NEW k \in (a + 1) .. (n + 1)
          PROVE  hostLines'[k].verb = "T" /\ ~Obeyed(k)'
      <3>1. CASE k \in (a + 1) .. n
        <4>1. k \in 1 .. n
          BY <3>1
        <4> QED BY <1>2, <1>3, <1>6, <3>1, <4>1 DEF Obeyed
      <3>2. CASE k = n + 1
        BY <1>2, <1>3, <1>5, <1>6, <3>2 DEF Obeyed
      <3>3. k \in (a + 1) .. n \/ k = n + 1
        OBVIOUS
      <3> QED BY <3>1, <3>2, <3>3
    <2>3. OwedFrom(a)'
      BY <1>2, <1>6, <2>1, <2>2 DEF OwedFrom
    <2>4. a \in 0 .. Len(hostLines')
      BY <1>2
    <2> QED BY <2>3, <2>4 DEF Owed
  <1>7. ASSUME m = 0, c.verb # "T"
        PROVE  Owed'
    <2>1. Len(Coming') + Len(typing') <= 2
      BY <1>2, <1>3, <1>4, <1>7
    <2> QED BY <1>2, <1>7, <2>1 DEF Owed, OneOther
  <1>8. CASE Answerless
    <2>1. Coming = <<>>
      BY <1>8 DEF Answerless, Coming
    <2>2. m = 0
      <3>1. Len(<<>>) = 0
        OBVIOUS
      <3> QED BY <1>4, <2>1, <3>1, Zenon
    <2>3. CASE c.verb = "T"
      <3>1. n \in 0 .. n /\ m <= 3 * (n - n) /\ (n + 1) - n <= OUTSTANDING
        BY <2>2, RelayAssumption
      <3>2. \A k \in (n + 1) .. n : hostLines[k].verb = "T" /\ ~Obeyed(k)
        OBVIOUS
      <3> QED BY <1>6, <2>3, <3>1, <3>2
    <2> QED BY <1>7, <2>2, <2>3
  <1>9. CASE ~Answerless
    <2>1. /\ Cardinality(Unanswered) < (IF c.verb = "T" THEN OUTSTANDING ELSE 1)
          /\ ~(hostLines # <<>> /\ Last(hostLines).verb # "T")
      BY <1>9 DEF HostAsks, GivesUp
    <2>2. PICK a \in 0 .. n : OwedFrom(a)
      BY <1>0, <1>2, <2>1 DEF Owed, OneOther
    <2>3. \A k \in (a + 1) .. n : hostLines[k].verb = "T" /\ ~Obeyed(k)
      BY <1>2, <2>2 DEF OwedFrom
    <2>4. PICK u \in Nat : u = Cardinality(Unanswered) /\ n - a <= u
      BY <1>0, <1>2, <2>3, OwedIsUnanswered
    <2>5. m <= 3 * (n - a)
      <3>1. Len(typing) = 0
        <4>1. Len(<<>>) = 0
          OBVIOUS
        <4> QED BY <1>2, <4>1, Zenon
      <3>2. Len(Coming) + Len(typing) <= 3 * (n - a)
        BY <1>2, <2>2 DEF OwedFrom
      <3> QED BY <1>4, <3>1, <3>2
    <2>6. CASE c.verb = "T"
      <3>1. (n + 1) - a <= OUTSTANDING
        BY <2>1, <2>4, <2>6, RelayAssumption
      <3> QED BY <1>6, <2>3, <2>5, <2>6, <3>1
    <2>7. CASE c.verb # "T"
      <3>1. u < 1
        BY <2>1, <2>4, <2>7
      <3>2. m = 0
        BY <2>4, <2>5, <3>1
      <3> QED BY <1>7, <2>7, <3>2
    <2> QED BY <2>6, <2>7
  <1> QED BY <1>8, <1>9

(* The host's step.                                                        *)
LEMMA AsksKeeps ==
  ASSUME RelayInv, NEW c \in HostCommands, HostAsks(c)
  PROVE  RelayInv'
  <1>0. RelayTyped /\ VerdictsOfObeyed /\ RelayFaithful
    BY DEF RelayInv
  <1>1. PICK n \in Nat : Asked(c, n)
    BY <1>0, AskedPieces
  <1>2. /\ UNCHANGED <<rxRing, lost, chunk, textLine, overrun, doing, trial, noise>>
        /\ UNCHANGED <<rates, peers, radioed, verdicts>>
    BY DEF HostAsks, airVars
  <1>3. RelayTyped' /\ LineUnderWay'
    BY <1>0, <1>1, <1>2 DEF Asked, RelayTyped
  <1>4. VerdictsOfObeyed'
    BY <1>0, <1>2 DEF VerdictsOfObeyed, Obeyed
  <1>5. RelayFaithful'
    BY <1>0, <1>2 DEF RelayFaithful, DatagramsWhole, NeverOverruns, PeersAtTheRate
  <1> QED BY <1>3, <1>4, <1>5, AskedFramed, AskedOwed DEF RelayInv

-----------------------------------------------------------------------------
(* The theorem *)

(* The relay starts with nothing heard, and its peers unmet.               *)
LEMMA RelayStarts == RelayInit => RelayInv
  <1> SUFFICES ASSUME RelayInit PROVE RelayInv
    OBVIOUS
  <1>1. /\ hostLines = <<>> /\ typing = <<>> /\ rxRing = <<>> /\ chunk = <<>> /\ textLine = <<>>
        /\ overrun = FALSE /\ lost = FALSE /\ doing = Nothing /\ trial = NoTrial
        /\ rates = 1 /\ peers = [s \in {} |-> 1] /\ radioed = <<>> /\ verdicts = <<>>
    BY DEF RelayInit
  <1>2. Heard = <<>> /\ Coming = <<>>
    BY <1>1 DEF Heard, Kept, Coming
  <1>3. Len(<<>>) = 0
    OBVIOUS
  <1>4. Len(Heard) = 0 /\ Len(Coming) = 0 /\ Len(typing) = 0 /\ Len(radioed) = 0 /\
        Len(verdicts) = 0
        /\ Len(hostLines) = 0
    BY <1>1, <1>2, <1>3, Zenon
  <1>5. RelayTyped
    <2>1. \A S : <<>> \in Seq(S)
      OBVIOUS
    <2>2. trial \in Int
      BY <1>1 DEF NoTrial
    <2>3. overrun \in BOOLEAN
      BY <1>1
    <2> QED BY <1>1, <2>1, <2>2, <2>3, Zenon DEF RelayTyped
  <1>6. LineUnderWay /\ Framed /\ JoinsUp /\ CleanOnTrial
    BY <1>1, <1>2, <1>4 DEF LineUnderWay, Framed, JoinsUp, CleanOnTrial
  <1>7. SwitchAlone /\ AnswerAwaited /\ InOrder /\ AfterTheObeyed /\ VerdictsOfObeyed /\ ThreeALine
    BY <1>1, <1>4 DEF SwitchAlone, AnswerAwaited, InOrder, AfterTheObeyed, VerdictsOfObeyed,
                      ThreeALine, Nothing
  <1>8. Owed
    <2>1. OwedFrom(0) /\ 0 \in 0 .. Len(hostLines)
      BY <1>4, RelayAssumption DEF OwedFrom
    <2> QED BY <2>1 DEF Owed
  <1>9. RelayFaithful
    BY <1>1, <1>4 DEF RelayFaithful, DatagramsWhole, NeverOverruns, PeersAtTheRate
  <1> QED BY <1>5, <1>6, <1>7, <1>8, <1>9 DEF RelayInv

(* Whatever lines a host sends, in whatever speeds and however the         *)
(* interrupt falls between the loop's steps: each datagram that goes on    *)
(* the air is whole and in the lines' order; a host that keeps OUTSTANDING *)
(* of them without a verdict, at three pieces a line into a ring of        *)
(* RING >= 3 * OUTSTANDING, loses nothing but what noise damaged; and all  *)
(* known peers are at the rate that is set.                                *)
THEOREM RelaysFaithful == RelaySpec => []RelayFaithful
  <1>1. RelayInit => RelayInv
    BY RelayStarts
  <1>2. RelayInv /\ [RelayNext]_relayVars => RelayInv'
    <2> SUFFICES ASSUME RelayInv, [RelayNext]_relayVars PROVE RelayInv'
      OBVIOUS
    <2>1. ASSUME NEW c \in HostCommands, HostAsks(c) PROVE RelayInv'
      BY <2>1, AsksKeeps
    <2>2. ASSUME NEW b \in Bauds, HostSwitches(b) PROVE RelayInv'
      BY <2>2, SwitchKeeps
    <2>3. CASE OnSerial
      BY <2>3, SerialKeeps
    <2>4. CASE Pop \/ TakePart
      BY <2>4, TakenKeeps
    <2>5. CASE TakeLine
      BY <2>5, LineKeeps
    <2>6. CASE SendDone
      BY <2>6, SendKeeps
    <2>7. CASE SetBaud \/ Elapse \/ Expire
      BY <2>7, SpeedKeeps
    <2>8. CASE UNCHANGED relayVars
      BY <2>8, RelayStutters
    <2> QED BY <2>1, <2>2, <2>3, <2>4, <2>5, <2>6, <2>7, <2>8 DEF RelayNext
  <1>3. RelayInv => RelayFaithful
    BY DEF RelayInv
  <1> QED BY <1>1, <1>2, <1>3, PTL DEF RelaySpec
=============================================================================
