------------------------------ MODULE MCParts ------------------------------
(***************************************************************************)
(* The parts of the system that meet only through the values they hand on, *)
(* each put through its whole state space: `part` says whose turn a        *)
(* behaviour is, and the others stay as they begin.  Everything checked    *)
(* here is a safety property of one part, so nothing is lost by not        *)
(* interleaving them.                                                      *)
(***************************************************************************)
EXTENDS Ld2410, CsiCapture, CsiPresence, CsiPhase, CsiVitals, CsiFall, PresenceRecord, Lora,
        ApData, MCOpenStation, LinkRun, Splice, IdfGatt, HalBoard, Relay, ReplayReceiver

VARIABLE part

Parts == {"radar", "capture", "presence", "phase", "vitals", "fall", "record", "lora", "data",
          "station", "run", "splice", "gatt", "hal", "relay", "replay"}

partVars == <<part, radarVars, captureVars, presenceVars, phaseVars, vitalsVars, fallVars,
              recordVars, loraVars, dataVars, staVars, runVars, spliceVars, gattVars, halVars,
              relayVars, vars>>

(* A part whose turn it is not begins in one way only. *)
One(S) == CHOOSE x \in S : TRUE

PartsInit ==
  /\ part \in Parts
  /\ RadarInit    /\ (part # "radar" => driver = One(Drivers))
  /\ CaptureInit
  /\ PresenceInit /\ (part # "presence" => config = One(Configs) /\ ~normalise)
  /\ PhaseInit    /\ (part # "phase" => pconfig = One(PConfigs))
  /\ VitalsInit   /\ (part # "vitals" => room = One([period : Periods, highpass : Highpasses]))
  /\ FallInit
  /\ RecordInit   /\ (part # "record" => version = VERSION)
  /\ LoraInit     /\ (part # "lora" => region = One(Regions))
  /\ DataInit     /\ (part # "data" => /\ build = One(Builds) /\ hears = One(Clear)
                                       /\ \A s \in Members : ap.members[s].mcs = One(Mcs))
  /\ StationInit  /\ (part # "station" => /\ arm = One(Arms) /\ network
                                          /\ quality = One(Qualities))
  /\ RunInit      /\ (part # "run" => carrier = One(Carriers))
  /\ SpliceInit   /\ (part # "splice" => jammed = {})
  /\ GattInit     /\ (part # "gatt" => ~overlap /\ ~windowOpen)
  /\ HalInit      /\ (part # "hal" => chip = One(Boards))
  /\ RelayInit
  /\ Init

PartsNext ==
  /\ UNCHANGED part
  /\ IF part = "radar" THEN TRUE ELSE UNCHANGED radarVars
  /\ IF part = "capture" THEN TRUE ELSE UNCHANGED captureVars
  /\ IF part = "presence" THEN TRUE ELSE UNCHANGED presenceVars
  /\ IF part = "phase" THEN TRUE ELSE UNCHANGED phaseVars
  /\ IF part = "vitals" THEN TRUE ELSE UNCHANGED vitalsVars
  /\ IF part = "fall" THEN TRUE ELSE UNCHANGED fallVars
  /\ IF part = "record" THEN TRUE ELSE UNCHANGED recordVars
  /\ IF part = "lora" THEN TRUE ELSE UNCHANGED loraVars
  /\ IF part = "data" THEN TRUE ELSE UNCHANGED dataVars
  /\ IF part = "station" THEN TRUE ELSE UNCHANGED staVars
  /\ IF part = "run" THEN TRUE ELSE UNCHANGED runVars
  /\ IF part = "splice" THEN TRUE ELSE UNCHANGED spliceVars
  /\ IF part = "gatt" THEN TRUE ELSE UNCHANGED gattVars
  /\ IF part = "hal" THEN TRUE ELSE UNCHANGED halVars
  /\ IF part = "relay" THEN TRUE ELSE UNCHANGED relayVars
  /\ IF part = "replay" THEN TRUE ELSE UNCHANGED vars
  /\ CASE part = "radar"    -> RadarNext
       [] part = "capture"  -> CaptureNext
       [] part = "presence" -> PresenceNext
       [] part = "phase"    -> PhaseNext
       [] part = "vitals"   -> VitalsNext
       [] part = "fall"     -> FallNext
       [] part = "record"   -> RecordNext
       [] part = "lora"     -> LoraNext
       [] part = "data"     -> DataNext
       [] part = "station"  -> StationNext
       [] part = "run"      -> RunNext
       [] part = "splice"   -> SpliceNext
       [] part = "gatt"     -> GattNext
       [] part = "hal"      -> HalNext
       [] part = "relay"    -> RelayNext
       [] part = "replay"   -> Next

PartsSpec == PartsInit /\ [][PartsNext]_partVars

-----------------------------------------------------------------------------
(* Properties, each about its part *)

(* What a reader of the radar relies on, all of it: every byte counted,    *)
(* bounded memory, a stream that heals after damage, the slice parser the  *)
(* same as the byte parser, and no loss of step on a clean line.           *)
ReaderExact ==
  part = "radar" =>
    EveryByteCounted /\ BufferBounded /\ Heals /\ SliceAgrees /\ CleanLineStaysInStep

(* The phase detector: its carried vectors, its window, its hold and the   *)
(* sanitiser before it.                                                    *)
PhaseExact ==
  part = "phase" => CarriedVectors /\ StillIsZero /\ PhaseHeld /\ OffsetCancels

(* The vitals estimator: the window is what it says, and the rhythm read   *)
(* from it is the one in the room.                                         *)
VitalsExact ==
  part = "vitals" => WindowOfMeans /\ RhythmFound

-----------------------------------------------------------------------------
(* Values a configuration file cannot hold *)

MCLayouts == {<<1, 2>>, <<2>>}
MCSamples == {<<0, 1>>, <<4, 3>>}
MCConfigs == {[on |-> 400, off |-> 100], [on |-> 300, off |-> 200]}

MCAngles == {0, 8192, -32768}
MCIqs == {<<0, 2>>, <<2, 2>>, <<2, 0>>, <<1, -2>>, <<0, -2>>, <<-2, 1>>}
MCPConfigs == {[on |-> 200000, off |-> 10000], [on |-> 100000, off |-> 50000]}

MCRegions == {[permille |-> 10, dwell |-> 0, power |-> 14, low |-> 863, high |-> 870],
              [permille |-> 0, dwell |-> 250, power |-> 30, low |-> 902, high |-> 928]}
MCModemParams == [sf : {7}, bw : {4}, cr : {1}, freq : {868, 904}, power : {14}, preamble : {8},
                  explicit : {TRUE}, crc : {TRUE}, ldro : {"Auto"}]

MCMcs == {-1, 1}
=============================================================================
