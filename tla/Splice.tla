-------------------------------- MODULE Splice --------------------------------
(***************************************************************************)
(* Two splices, one between each radio's device and its IP stack, and the  *)
(* crossings between them (rusty_esp_signal-open, splice.rs and turn.rs).  *)
(* Frames are counted, not named: the queues are first in, first out.      *)
(***************************************************************************)
EXTENDS Integers, Sequences

CONSTANTS
  CROSSING,      \* frames a crossing holds
  RADIO_TX,      \* frames a radio's transmit queue holds
  STACK_RX,      \* frames waiting for the stack
  MaxReceived,   \* frames the radios receive in one run
  MaxStackSends, \* frames the stacks send in one run
  MaxShedding    \* times relaying is put behind or let go

ASSUME SpliceAssumption ==
  {CROSSING, RADIO_TX, STACK_RX} \subseteq Nat \ {0}

Sides == {"station", "hosted"}
Other(s) == IF s = "station" THEN "hosted" ELSE "station"
Routes == {"Stack", "Here", "Across", "Drop"}

VARIABLES
  jammed,      \* fixed: radios that send nothing more
  dev,         \* per side: [rx, tx, link], frames the radio's device holds, and its link
  net,         \* per side: [up, down, link], frames for the stack and from it, the link it knows
  crossing,    \* per side: frames on their way across, from this side
  todo,        \* per side: what the splice waits to transmit, in order
  first,       \* per side: whose frame the running select takes first; "none" before it
  acrossWentLast, \* per side: Turns
  relayBehind,
  full,        \* per side: [stack, across], SpliceStats' counts of what had no room
  made,        \* [rx, down, shed], what the ends have made so far
  owed,        \* history, per side: [stack, across], frames routed there and not yet taken
  passed       \* history, per side: [relayed, own], how often the waiting frame was passed by the other kind

spliceVars == <<jammed, dev, net, crossing, todo, first, acrossWentLast, relayBehind, full, made, owed, passed>>

NonePassed == [s \in Sides |-> [relayed |-> 0, own |-> 0]]

SpliceInit ==
  /\ jammed \in {{}, {"hosted"}}
  /\ dev = [s \in Sides |-> [rx |-> 0, tx |-> 0, link |-> IF s = "station" THEN "Down" ELSE "Up"]]
  /\ net = [s \in Sides |-> [up |-> 0, down |-> 0, link |-> "Down"]]
  /\ crossing = [s \in Sides |-> 0]
  /\ todo = [s \in Sides |-> <<>>]
  /\ first = [s \in Sides |-> "none"]
  /\ acrossWentLast = [s \in Sides |-> FALSE]
  /\ relayBehind = FALSE
  /\ full = [s \in Sides |-> [stack |-> 0, across |-> 0]]
  /\ made = [rx |-> 0, down |-> 0, shed |-> 0]
  /\ owed = [s \in Sides |-> [stack |-> 0, across |-> 0]]
  /\ passed = NonePassed

-----------------------------------------------------------------------------
(* The device and the stack on either end. *)

(* A station's link comes up when it joins, and frames come only then; a   *)
(* hosted network's is up from the start.                                  *)
LinkComesUp(s) ==
  /\ dev[s].link = "Down"
  /\ dev' = [dev EXCEPT ![s].link = "Up"]
  /\ UNCHANGED <<jammed, net, crossing, todo, first, acrossWentLast, relayBehind, full, made, owed, passed>>

RadioReceives(s) ==
  /\ dev[s].link = "Up" /\ made.rx < MaxReceived
  /\ made' = [made EXCEPT !.rx = @ + 1]
  /\ dev' = [dev EXCEPT ![s].rx = @ + 1]
  /\ UNCHANGED <<jammed, net, crossing, todo, first, acrossWentLast, relayBehind, full, owed, passed>>

RadioSends(s) ==
  /\ dev[s].tx > 0 /\ s \notin jammed
  /\ dev' = [dev EXCEPT ![s].tx = @ - 1]
  /\ UNCHANGED <<jammed, net, crossing, todo, first, acrossWentLast, relayBehind, full, made, owed, passed>>

StackSends(s) ==
  /\ net[s].link = "Up" /\ made.down < MaxStackSends
  /\ made' = [made EXCEPT !.down = @ + 1]
  /\ net' = [net EXCEPT ![s].down = @ + 1]
  /\ UNCHANGED <<jammed, dev, crossing, todo, first, acrossWentLast, relayBehind, full, owed, passed>>

StackReads(s) ==
  /\ net[s].up > 0
  /\ net' = [net EXCEPT ![s].up = @ - 1]
  /\ owed' = [owed EXCEPT ![s].stack = @ - 1]
  /\ UNCHANGED <<jammed, dev, crossing, todo, first, acrossWentLast, relayBehind, full, made, passed>>

(* The firmware's shedding policy sets or clears relay_behind. *)
Shed ==
  /\ made.shed < MaxShedding
  /\ made' = [made EXCEPT !.shed = @ + 1]
  /\ relayBehind' = ~relayBehind
  /\ passed' = NonePassed
  /\ UNCHANGED <<jammed, dev, net, crossing, todo, first, acrossWentLast, full, owed>>

-----------------------------------------------------------------------------
(* Splice::run *)

FirstForgets(s) == IF relayBehind THEN "Stack" ELSE "Across"   \* mutant: nobody remembers who went last

(* Turns::first *)
First(s) == IF relayBehind \/ acrossWentLast[s] THEN "Stack" ELSE "Across"

SelectWithRoom(s) ==   \* mutant: waits for room across before it takes anything
  /\ todo[s] = <<>> /\ first[s] = "none" /\ crossing[s] < CROSSING
  /\ first' = [first EXCEPT ![s] = First(s)]
  /\ UNCHANGED <<jammed, dev, net, crossing, todo, acrossWentLast, relayBehind, full, made, owed, passed>>

(* The order is chosen when the select begins, and kept while it waits. *)
Select(s) ==
  /\ todo[s] = <<>> /\ first[s] = "none"
  /\ first' = [first EXCEPT ![s] = First(s)]
  /\ UNCHANGED <<jammed, dev, net, crossing, todo, acrossWentLast, relayBehind, full, made, owed, passed>>

Selecting(s) == first[s] # "none"
LinkChanged(s) == dev[s].link # net[s].link

(* The device gives a received frame only with room to send one. *)
RadioReady(s) == dev[s].rx > 0 /\ dev[s].tx < RADIO_TX

TellLink(s) ==
  /\ Selecting(s) /\ LinkChanged(s)
  /\ net' = [net EXCEPT ![s].link = dev[s].link]
  /\ first' = [first EXCEPT ![s] = "none"]
  /\ UNCHANGED <<jammed, dev, crossing, todo, acrossWentLast, relayBehind, full, made, owed, passed>>

(* try_send: what the crossing has no room for is dropped. *)
Across(s, frames) ==
  crossing' = [crossing EXCEPT ![s] = IF @ + frames > CROSSING THEN CROSSING ELSE @ + frames]

AcrossFull(s, frames) ==
  IF crossing[s] + frames > CROSSING THEN crossing[s] + frames - CROSSING ELSE 0

CountIf(b) == IF b THEN 1 ELSE 0
HereIf(b) == IF b THEN <<"Here">> ELSE <<>>

(* A frame from the radio: `decide` gives it a route, and may write one    *)
(* more frame for this radio or for the other.                             *)
RadioFrame(s) ==
  /\ Selecting(s) /\ ~LinkChanged(s) /\ RadioReady(s)
  /\ dev' = [dev EXCEPT ![s].rx = @ - 1]
  /\ first' = [first EXCEPT ![s] = "none"]
  /\ \E route \in Routes, extra \in {"None", "Here", "Across"} :
       LET frames == CountIf(route = "Across") + CountIf(extra = "Across")
           upward == CountIf(route = "Stack")
           room   == net[s].up < STACK_RX
       IN  /\ todo' = [todo EXCEPT ![s] = HereIf(route = "Here") \o HereIf(extra = "Here")]
           /\ Across(s, frames)
           /\ net' = [net EXCEPT ![s].up = IF room THEN @ + upward ELSE @]
           /\ full' = [full EXCEPT ![s] =
                [stack |-> IF room THEN @.stack ELSE @.stack + upward,
                 across |-> @.across + AcrossFull(s, frames)]]
           /\ owed' = [owed EXCEPT ![s] =
                [stack |-> @.stack + upward, across |-> @.across + frames]]
  /\ UNCHANGED <<jammed, acrossWentLast, relayBehind, made, passed>>

(* The stack's frame, when nothing comes before it. *)
StackFrame(s) ==
  /\ Selecting(s) /\ ~LinkChanged(s) /\ ~RadioReady(s)
  /\ net[s].down > 0
  /\ first[s] = "Stack" \/ crossing[Other(s)] = 0
  /\ acrossWentLast' = [acrossWentLast EXCEPT ![s] = FALSE]
  /\ todo' = [todo EXCEPT ![s] = <<"stack">>]
  /\ first' = [first EXCEPT ![s] = "none"]
  /\ passed' = [passed EXCEPT ![s] =
        [relayed |-> IF crossing[Other(s)] > 0 THEN @.relayed + 1 ELSE 0, own |-> 0]]
  /\ UNCHANGED <<jammed, dev, net, crossing, relayBehind, full, made, owed>>

(* A frame from the other side's splice. *)
AcrossFrame(s) ==
  /\ Selecting(s) /\ ~LinkChanged(s) /\ ~RadioReady(s)
  /\ crossing[Other(s)] > 0
  /\ first[s] = "Across" \/ net[s].down = 0
  /\ crossing' = [crossing EXCEPT ![Other(s)] = @ - 1]
  /\ acrossWentLast' = [acrossWentLast EXCEPT ![s] = TRUE]
  /\ todo' = [todo EXCEPT ![s] = <<"across">>]
  /\ first' = [first EXCEPT ![s] = "none"]
  /\ passed' = [passed EXCEPT ![s] =
        [own |-> IF net[s].down > 0 THEN @.own + 1 ELSE 0, relayed |-> 0]]
  /\ UNCHANGED <<jammed, dev, net, relayBehind, full, made, owed>>

(* transmit, waiting for room; the stack's buffer is handed back after it. *)
SpliceTransmits(s) ==
  /\ todo[s] # <<>> /\ dev[s].tx < RADIO_TX
  /\ dev' = [dev EXCEPT ![s].tx = @ + 1]
  /\ todo' = [todo EXCEPT ![s] = Tail(@)]
  /\ net' = [net EXCEPT ![s].down = IF Head(todo[s]) = "stack" THEN @ - 1 ELSE @]
  /\ owed' = [owed EXCEPT ![Other(s)].across = IF Head(todo[s]) = "across" THEN @ - 1 ELSE @]
  /\ UNCHANGED <<jammed, crossing, first, acrossWentLast, relayBehind, full, made, passed>>

SpliceStep(s) ==
  Select(s) \/ TellLink(s) \/ RadioFrame(s) \/ StackFrame(s) \/ AcrossFrame(s) \/ SpliceTransmits(s)

SpliceNext ==
  \/ Shed
  \/ \E s \in Sides : \/ LinkComesUp(s) \/ RadioReceives(s) \/ RadioSends(s)
                      \/ StackSends(s) \/ StackReads(s) \/ SpliceStep(s)

(* Each splice is a task of its own, and a radio that is not jammed sends. *)
SpliceSpec ==
  /\ SpliceInit /\ [][SpliceNext]_spliceVars
  /\ \A s \in Sides : WF_spliceVars(SpliceStep(s)) /\ WF_spliceVars(RadioSends(s))

-----------------------------------------------------------------------------

(* A frame the stack, or the other side, has no room for "is dropped and    *)
(* counted": whatever was routed to the stack waits for it, was taken or   *)
(* counted; whatever was routed across is in the crossing, in the other    *)
(* splice's hands, sent or counted.                                        *)
FramesAccounted ==
  \A s \in Sides :
    LET o     == Other(s)
        holds == IF todo[o] = <<"across">> THEN 1 ELSE 0
    IN  /\ owed[s].stack = net[s].up + full[s].stack
        /\ owed[s].across = crossing[s] + holds + full[s].across

(* "one side's backlog never stalls the other's traffic, or the device's   *)
(* own": on a radio that sends, the stack's frames all go, and so does what *)
(* came across, also while the other radio is jammed for good.             *)
Flows(s) == s \notin jammed => net[s].down = 0 /\ crossing[Other(s)] = 0

(* Neither kind waits for more than one frame of the other, while relaying *)
(* is not put behind; while it is, only a frame whose turn was chosen      *)
(* before it was put behind may still pass one of the device's own.        *)
TakesTurns ==
  \A s \in Sides :
    /\ passed[s].own <= 1
    /\ ~relayBehind => passed[s].relayed <= 1

(* No frame is lost uncounted, and the two kinds take turns. *)
SpliceFair == FramesAccounted /\ TakesTurns
=============================================================================
