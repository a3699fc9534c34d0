------------------------------ MODULE MCLive  ------------------------------
(***************************************************************************)
(* What must happen in the end, in the parts that have something of the    *)
(* kind, each put through its state space with the fairness its tasks      *)
(* have: `part` says whose behaviour it is, and the others stay as they    *)
(* begin.                                                                  *)
(***************************************************************************)
EXTENDS MCOpenStation, LinkRun, Splice, IdfGatt, HalBoard, Relay

VARIABLE part

Parts == {"station", "run", "splice", "gatt", "hal", "relay"}

liveVars == <<part, staVars, runVars, spliceVars, gattVars, halVars, relayVars>>

(* A part whose turn it is not begins in one way only. *)
One(S) == CHOOSE x \in S : TRUE

LiveInit ==
  /\ part \in Parts
  /\ StationInit /\ (part # "station" => arm = One(Arms) /\ network /\ quality = One(Qualities))
  /\ RunInit     /\ (part # "run" => carrier = One(Carriers))
  /\ SpliceInit  /\ (part # "splice" => jammed = {})
  /\ GattInit    /\ (part # "gatt" => ~overlap /\ ~windowOpen)
  /\ HalInit     /\ (part # "hal" => chip = One(Boards))
  /\ RelayInit

LiveNext ==
  /\ UNCHANGED part
  /\ IF part = "station" THEN TRUE ELSE UNCHANGED staVars
  /\ IF part = "run" THEN TRUE ELSE UNCHANGED runVars
  /\ IF part = "splice" THEN TRUE ELSE UNCHANGED spliceVars
  /\ IF part = "gatt" THEN TRUE ELSE UNCHANGED gattVars
  /\ IF part = "hal" THEN TRUE ELSE UNCHANGED halVars
  /\ IF part = "relay" THEN TRUE ELSE UNCHANGED relayVars
  /\ CASE part = "station" -> StationNext
       [] part = "run"     -> RunNext
       [] part = "splice"  -> SpliceNext
       [] part = "gatt"    -> GattNext
       [] part = "hal"     -> HalNext
       [] part = "relay"   -> RelayNext

(* Each part's own fairness, while it is the one that moves. *)
LiveFairness ==
  /\ WF_staVars(part = "station" /\ (StationStep \/ JoinOk))
  /\ SF_staVars(part = "station" /\ JoinOk)
  /\ WF_staVars(part = "station" /\ BusySecond)
  /\ WF_runVars(part = "run" /\ Initiator)
  /\ WF_runVars(part = "run" /\ Responder)
  /\ WF_runVars(part = "run" /\ Deliver)
  /\ \A s \in Sides :
       /\ WF_spliceVars(part = "splice" /\ SpliceStep(s))
       /\ WF_spliceVars(part = "splice" /\ RadioSends(s))
  /\ WF_gattVars(part = "gatt" /\ MainTick)
  /\ WF_gattVars(part = "gatt" /\ Bluedroid)
  /\ \A t \in {"main", "bt"} : WF_gattVars(part = "gatt" /\ TickActs(t))
  /\ WF_halVars(part = "hal" /\ (BootS3 \/ BootC6))
  /\ WF_halVars(part = "hal" /\ AcceptOpen)
  /\ WF_halVars(part = "hal" /\ AcceptClosed)
  /\ WF_halVars(part = "hal" /\ AdvertisingEnds)
  /\ WF_halVars(part = "hal" /\ WindowRunsOut)
  /\ WF_halVars(part = "hal" /\ (Joined \/ JoinFailed))
  /\ WF_halVars(part = "hal" /\ Restarts)
  /\ SF_halVars(part = "hal" /\ ServeEnds)
  /\ SF_halVars(part = "hal" /\ AttendEnds)
  /\ WF_halVars(part = "hal" /\ GraceEnds)
  /\ WF_relayVars(part = "relay" /\ OnSerial)
  /\ WF_relayVars(part = "relay" /\ (Pop \/ TakePart \/ TakeLine))
  /\ WF_relayVars(part = "relay" /\ SendDone)
  /\ WF_relayVars(part = "relay" /\ SetBaud)
  /\ WF_relayVars(part = "relay" /\ Elapse)
  /\ WF_relayVars(part = "relay" /\ Expire)

LiveSpec == LiveInit /\ [][LiveNext]_liveVars /\ LiveFairness

-----------------------------------------------------------------------------
(* Properties, each about its part *)

(* The station gets back to a network that stays up, also after the policy *)
(* gave up, and a measuring rate control ends at a rate no neighbour       *)
(* clearly beats, going faster only after a run of good seconds.           *)
StationRecovers ==
  /\ FasterAfterARun
  /\ <>[]network => <>[](part = "station" => connected /\ watching)
  /\ <>[]network => <>[](part = "station" => SettledRate)

(* The bench run ends, and a late answer costs one attempt at most. *)
RunEnds ==
  /\ CleanAttemptSucceeds
  /\ []<>(part = "run" => InitiatorEnded)

(* One side's backlog never stalls the other's frames. *)
SplicesMove == \A s \in Sides : []<>(part = "splice" => Flows(s))

(* "`tick` starts and stops the advertising as the window moves": whatever *)
(* races between the radio, its confirmations and connections not yet      *)
(* reported, the radio ends up on or off as it should, while no tick       *)
(* overlaps another.                                                       *)
FoundWhileOpen ==
  /\ []<>(part = "gatt" /\ ~overlap => Hidden)
  /\ []<>(part = "gatt" /\ ~overlap => Findable)

(* A board that was given a network ends up on it. *)
BoardJoins == []<>(part = "hal" => StationIfGiven)

(* The relay answers every datagram and holds no speed on trial for ever. *)
RelayAnswers ==
  /\ []<>(part = "relay" => Answered)
  /\ []<>(part = "relay" => TrialOver)
=============================================================================
