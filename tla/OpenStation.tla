----------------------------- MODULE OpenStation -----------------------------
(***************************************************************************)
(* The Wi-Fi station on the esp-hal side: the core's policy driven over a  *)
(* radio (rusty_esp_signal-open, station.rs, over FoA; rusty_esp_signal-   *)
(* esp, hal/station.rs and hal/netstack.rs, over esp-radio), and the three *)
(* rate controls that move the rate data frames start at.                  *)
(*                                                                         *)
(* A rate is [ht, speed], speed 0 the slowest; a rung is a place on a      *)
(* ladder of RUNGS rates, fastest first (rung 0).                          *)
(***************************************************************************)
EXTENDS StationPolicy, FixedPoint

CONSTANTS
  RUNGS,         \* rates on a ladder
  AirtimeOf,     \* speed -> airtime of a 1,500-byte frame
  Arms,          \* builds: "hal" (esp-radio), or FoA with "fixed", "threshold", "probe", "expected"
  Links,         \* what an association may allow: -1 for 802.11g, else the highest MCS
  Qualities,     \* speed -> share of first attempts acknowledged, per mille
  BUSY_FRAMES,        \* frames sent in a busy second
  RATE_UP_AFTER, PROBE_EVERY,
  MaxUpsets      \* idle seconds, outages and changes of the link's quality, together

ASSUME StationAssumption ==
  /\ RUNGS \in Nat /\ RUNGS > 1 /\ BUSY_FRAMES \in Nat
  /\ AirtimeOf \in [0..(RUNGS - 1) -> Nat \ {0}]
  /\ Qualities \subseteq [0..(RUNGS - 1) -> 0..1000]
  /\ RATE_UP_AFTER \in Nat
  /\ Arms \subseteq {"hal", "fixed", "threshold", "probe", "expected"}
  /\ Links \subseteq -1..(RUNGS - 1)

RATE_MIN_FRAMES == 20
RATE_DOWN_BELOW_PERMILLE == 600
RATE_UP_ABOVE_PERMILLE == 900
PROBE_WIN_PERMILLE == 1030
RATE_COLLAPSE_BELOW_PERMILLE == 300
PROB_MIN_ATTEMPTS == 16
SAMPLE_EVERY == 16
OVERHEAD_MIN_US == 100
OVERHEAD_MAX_US == 2000
EXPECT_WIN_PERMILLE == 1030
PROB_UNKNOWN == -1
OFFSETS == <<-1, 1, -2, 2>>

Rungs == 0..(RUNGS - 1)
NoRung == -1
NoRate == [ht |-> FALSE, speed |-> -1]

-----------------------------------------------------------------------------
(* Ladder::ofdm and Ladder::for_link: 802.11g's rates, or the MCSs down from *)
(* the highest the access point takes.                                     *)
LadderRate(link, rung) ==
  IF link < 0
  THEN [ht |-> FALSE, speed |-> RUNGS - 1 - rung]
  ELSE [ht |-> TRUE, speed |-> Max({link - rung, 0})]

DATA_RATE == LadderRate(-1, 0)

Throughput(prob, link, rung, overhead) ==
  IF prob = PROB_UNKNOWN
  THEN 0
  ELSE (prob * 12000) \div (AirtimeOf[LadderRate(link, rung).speed] + overhead)

-----------------------------------------------------------------------------
(* The rate controls: a control's value, a second's measurement, and the    *)
(* value after it with the rate it asks for.                               *)

NewThreshold == [index |-> 0, goodRun |-> 0]

NewSampled == [index |-> 0, probing |-> NoRung, since |-> 0, up |-> TRUE,
               goodput |-> [r \in Rungs |-> 0]]

NewExpected == [index |-> 0, prob |-> [r \in Rungs |-> PROB_UNKNOWN],
                pending |-> [r \in Rungs |-> <<0, 0>>], overhead |-> 150, step |-> 0]

NewControl(arm) ==
  CASE arm = "threshold" -> NewThreshold
    [] arm = "probe"     -> NewSampled
    [] arm = "expected"  -> NewExpected
    [] OTHER             -> [index |-> 0]

Stay(c) == [control |-> c, rate |-> NoRate]
Ask(c, rung) == [control |-> c, rate |-> LadderRate(-1, rung)]

(* RateControl::tick *)
ThresholdTick(c, frames, ok) ==
  LET permille == (ok * 1000) \div frames
      good     == permille > RATE_UP_ABOVE_PERMILLE
  IN  IF frames < RATE_MIN_FRAMES THEN Stay(c)
      ELSE IF permille < RATE_DOWN_BELOW_PERMILLE /\ c.index + 1 < RUNGS
      THEN Ask([index |-> c.index + 1, goodRun |-> 0], c.index + 1)
      ELSE IF good /\ c.index > 0 /\ c.goodRun + 1 < RATE_UP_AFTER
      THEN Stay([c EXCEPT !.goodRun = @ + 1])
      ELSE IF good /\ c.index > 0
      THEN Ask([index |-> c.index - 1, goodRun |-> 0], c.index - 1)
      ELSE Stay(IF good THEN c ELSE [c EXCEPT !.goodRun = 0])

(* SampledRate::settle *)
Settle(c, rung) == Ask([c EXCEPT !.index = rung, !.since = 0], rung)

(* The neighbour to try next, alternately faster and slower. *)
Neighbour(c) ==
  LET up   == c.index - 1
      down == c.index + 1
  IN  IF c.up THEN (IF up >= 0 THEN up ELSE down)
              ELSE (IF down < RUNGS THEN down ELSE up)

(* SampledRate::tick; kbps is what the second delivered at the active rung. *)
SampledTick(c, frames, ok, kbps) ==
  LET measured == frames >= RATE_MIN_FRAMES
      active   == IF c.probing = NoRung THEN c.index ELSE c.probing
      blended  == IF c.probing # NoRung \/ c.goodput[active] = 0
                  THEN kbps
                  ELSE (c.goodput[active] * 3 + kbps) \div 4
      seen     == [c EXCEPT !.goodput[active] = blended]
      probe    == Neighbour(c)
  IN  IF ~measured THEN Stay(c)
      ELSE IF c.probing # NoRung
      THEN Settle([seen EXCEPT !.probing = NoRung],
                  IF seen.goodput[c.probing] * 1000 > seen.goodput[c.index] * PROBE_WIN_PERMILLE
                  THEN c.probing ELSE c.index)
      ELSE IF (ok * 1000) \div frames < RATE_COLLAPSE_BELOW_PERMILLE /\ c.index + 1 < RUNGS
      THEN Settle(seen, c.index + 1)
      ELSE IF c.since + 1 < PROBE_EVERY THEN Stay([seen EXCEPT !.since = @ + 1])
      ELSE Ask([seen EXCEPT !.since = 0, !.up = ~@, !.probing = probe], probe)

(* What ExpectedRate folds into a rung's probability once it has enough     *)
(* attempts; counted is the second's (attempts, acknowledged) at its place *)
(* in the driver's snapshot.                                               *)
Folded(c, counted) ==
  LET pending == [r \in Rungs |-> <<c.pending[r][1] + counted[r][1], c.pending[r][2] + counted[r][2]>>]
      due(r)  == pending[r][1] >= PROB_MIN_ATTEMPTS
      p(r)    == (pending[r][2] * 1000) \div pending[r][1]
  IN  [c EXCEPT !.pending = [r \in Rungs |-> IF due(r) THEN <<0, 0>> ELSE pending[r]],
                !.prob    = [r \in Rungs |->
                               IF ~due(r) THEN c.prob[r]
                               ELSE IF c.prob[r] = PROB_UNKNOWN THEN p(r)
                               ELSE (c.prob[r] * 3 + p(r)) \div 4]]

ExpectedKbps(c, link, rung) == Throughput(c.prob[rung], link, rung, c.overhead)

(* The rung the model likes best: the last of the equally good, or one step *)
(* down when the chosen one is failing outright and nothing known is       *)
(* better.                                                                 *)
Best(c, link) ==
  LET best == CHOOSE r \in Rungs : \A s \in Rungs : ExpectedKbps(c, link, r) > ExpectedKbps(c, link, s)
                                        \/ (ExpectedKbps(c, link, r) = ExpectedKbps(c, link, s) /\ r >= s)
  IN  IF /\ c.prob[c.index] \in 0..(RATE_COLLAPSE_BELOW_PERMILLE - 1)
         /\ c.index + 1 < RUNGS
         /\ ExpectedKbps(c, link, best) <= ExpectedKbps(c, link, c.index)
      THEN c.index + 1
      ELSE best

(* The next second's sample: the neighbours within two steps, in turn. *)
NextSample(c) ==
  LET at(k) == c.index + OFFSETS[((c.step + k) % 4) + 1]
      k     == CHOOSE k \in 0..3 : at(k) \in Rungs /\ \A j \in 0..(k - 1) : at(j) \notin Rungs
  IN  [rung |-> at(k), step |-> (c.step + k + 1) % 4]

(* ExpectedRate::tick, its first half: what the second's counters say. *)
Seen(c, link, counted, timed, perAttempt) ==
  LET folded   == Folded(c, counted)
      overhead == Clamp(perAttempt - AirtimeOf[LadderRate(link, c.index).speed],
                        OVERHEAD_MIN_US, OVERHEAD_MAX_US)
  IN  IF timed >= RATE_MIN_FRAMES
      THEN [folded EXCEPT !.overhead = (@ * 3 + overhead) \div 4]
      ELSE folded

(* Its second half: the rung to move to, and the next sample. *)
Chosen(seen, link) ==
  LET best      == Best(seen, link)
      collapsed == /\ seen.prob[seen.index] \in 0..(RATE_COLLAPSE_BELOW_PERMILLE - 1)
                   /\ seen.index + 1 < RUNGS
      moved     == /\ best # seen.index
                   /\ \/ collapsed
                      \/ ExpectedKbps(seen, link, best) * 1000
                           > ExpectedKbps(seen, link, seen.index) * EXPECT_WIN_PERMILLE
      placed    == IF moved THEN [seen EXCEPT !.index = best] ELSE seen
      next      == NextSample(placed)
  IN  [control |-> [placed EXCEPT !.step = next.step],
       rate    |-> IF moved THEN LadderRate(link, best) ELSE NoRate,
       sample  |-> LadderRate(link, next.rung)]

-----------------------------------------------------------------------------
VARIABLES
  arm,            \* the build
  policy, action, \* StationPolicy, and the action run_station is at
  resting,        \* station_task rests after the policy gave up
  network,        \* the network can be joined
  connected,      \* control.connected()
  assoc,          \* what the association allows (Links)
  joinedChannel,  \* JOINED_CHANNEL is set
  phyRate,        \* the rate data frames start at (override_phy_rate)
  sample,         \* the rate one frame in SAMPLE_EVERY starts at
  control,        \* the rate control watching the link
  watching,       \* run_station is in the loop that polls the link
  quality, upsets,
  tried,          \* history: rates frames started at since the control was made
  lostPolls,      \* history: polls since the link was lost
  goodSeconds     \* history: good seconds in a row at this rung (threshold)

radioVars == <<network, connected, assoc>>
rateVars  == <<phyRate, sample, control, tried, goodSeconds>>
staVars   == <<arm, policy, action, resting, network, connected, assoc, joinedChannel, phyRate,
               sample, control, watching, quality, upsets, tried, lostPolls, goodSeconds>>

Kick == On(NewPolicy, "Provisioned")

StationInit ==
  /\ arm \in Arms
  /\ policy = Kick.policy /\ action = Kick.action
  /\ resting = FALSE
  /\ network \in BOOLEAN
  /\ connected = FALSE /\ assoc = -1
  /\ joinedChannel = FALSE
  /\ phyRate = NoRate /\ sample = NoRate
  /\ control = NewControl(arm)
  /\ watching = FALSE
  /\ quality \in Qualities /\ upsets = 0
  /\ tried = {} /\ lostPolls = 0 /\ goodSeconds = 0

Hear(event) ==
  LET heard == On(policy, event)
  IN  policy' = heard.policy /\ action' = heard.action

(* join succeeds: FoA reports the station associated and keyed; its data   *)
(* rate is overridden.                                                     *)
JoinOk ==
  /\ ~resting /\ action.kind = "Connect" /\ network
  /\ connected' = TRUE
  /\ assoc' \in Links
  /\ joinedChannel' = (arm # "hal")
  /\ phyRate' = DATA_RATE
  /\ Hear("Connected")
  /\ UNCHANGED <<arm, resting, network, sample, control, watching, quality, upsets, tried, lostPolls, goodSeconds>>

(* join fails, or JOIN_TIMEOUT passes: one and the same to the policy. *)
JoinFails ==
  /\ ~resting /\ action.kind = "Connect"
  /\ Hear("Disconnected")
  /\ UNCHANGED <<arm, resting, radioVars, joinedChannel, rateVars, watching, quality, upsets, lostPolls>>

(* Timer::after, whose milliseconds may fall short of the policy's wait: the *)
(* Tick is then answered with the rest of it.                              *)
Waiting ==
  /\ ~resting /\ action.kind = "Wait"
  /\ \E left \in {0, action.us - 1} :
       LET heard == On([policy EXCEPT !.waitLeft = left], "Tick")
       IN  policy' = heard.policy /\ action' = heard.action
  /\ UNCHANGED <<arm, resting, radioVars, joinedChannel, rateVars, watching, quality, upsets, lostPolls>>

(* run_station returns Fallback; station_task rests. *)
GiveUp ==
  /\ ~resting /\ action.kind = "StartProvisioning"
  /\ resting' = TRUE
  /\ UNCHANGED <<arm, policy, action, radioVars, joinedChannel, rateVars, watching, quality, upsets, lostPolls>>

RestOverKept ==   \* mutant: the policy that gave up is kept
  /\ resting
  /\ resting' = FALSE
  /\ UNCHANGED <<arm, policy, action, radioVars, joinedChannel, rateVars, watching, quality, upsets, lostPolls>>

(* FALLBACK_REST is over: a new policy, from its first attempt. *)
RestOver ==
  /\ resting
  /\ resting' = FALSE
  /\ policy' = Kick.policy /\ action' = Kick.action
  /\ UNCHANGED <<arm, radioVars, joinedChannel, rateVars, watching, quality, upsets, lostPolls>>

(* Joined: new rate controls, and an HT link starts at its top MCS. *)
StartWatch ==
  /\ action.kind = "None" /\ ~watching
  /\ watching' = TRUE
  /\ control' = NewControl(arm)
  /\ phyRate' = IF arm # "hal" /\ assoc >= 0 THEN LadderRate(assoc, 0) ELSE phyRate
  /\ tried' = {} /\ goodSeconds' = 0
  /\ UNCHANGED <<arm, policy, action, resting, radioVars, joinedChannel, sample, quality, upsets, lostPolls>>

(* What the driver counted in a second of `frames` data frames. *)
SampledFrames == IF sample = NoRate THEN 0 ELSE BUSY_FRAMES \div SAMPLE_EVERY

Counted(frames) ==
  LET at(rate) == IF frames = 0 THEN 0
                  ELSE IF rate = sample THEN SampledFrames
                  ELSE IF rate = phyRate THEN frames - SampledFrames
                  ELSE 0
      rateAt(r) == [ht |-> assoc >= 0, speed |-> RUNGS - 1 - r]
  IN  [r \in Rungs |-> <<at(rateAt(r)), (at(rateAt(r)) * quality[rateAt(r).speed]) \div 1000>>]

MeasuredSecond(frames) ==
  IF arm = "expected"
  THEN Seen(control, assoc, Counted(frames), frames, AirtimeOf[phyRate.speed] + 150)
  ELSE control

Tick(seen, frames) ==
  LET q    == quality[phyRate.speed]
      ok   == (frames * q) \div 1000
      kbps == (q * 12000) \div (AirtimeOf[phyRate.speed] + 150)
  IN  CASE arm = "threshold" -> ThresholdTick(seen, frames, ok)
        [] arm = "probe"     -> SampledTick(seen, frames, ok, kbps)
        [] arm = "expected"  -> Chosen(seen, assoc)
        [] OTHER             -> Stay(seen)

GoodSecond(frames) == frames >= RATE_MIN_FRAMES /\ quality[phyRate.speed] > RATE_UP_ABOVE_PERMILLE

LinkTick(frames) ==
  \E seen \in {MeasuredSecond(frames)} : \E t \in {Tick(seen, frames)} :
    /\ control' = t.control
    /\ phyRate' = IF t.rate = NoRate THEN phyRate ELSE t.rate
    /\ sample' = IF arm = "expected" THEN t.sample ELSE sample
    /\ tried' = IF frames = 0 THEN tried ELSE tried \cup ({phyRate, sample} \ {NoRate})
    /\ goodSeconds' = IF t.rate # NoRate \/ (frames > 0 /\ ~GoodSecond(frames)) THEN 0
                      ELSE IF GoodSecond(frames) THEN Min({goodSeconds + 1, RATE_UP_AFTER})
                      ELSE goodSeconds

(* A second of the watch: connected() was true when it began. *)
LinkPoll(frames) ==
  /\ watching /\ arm # "hal"
  /\ connected \/ lostPolls = 0
  /\ LinkTick(IF connected THEN frames ELSE 0)
  /\ lostPolls' = IF connected THEN 0 ELSE 1
  /\ UNCHANGED <<arm, policy, action, resting, radioVars, joinedChannel, watching, quality>>

BusySecond == LinkPoll(BUSY_FRAMES) /\ UNCHANGED upsets
IdleSecond ==
  /\ connected /\ upsets < MaxUpsets
  /\ LinkPoll(0)
  /\ upsets' = upsets + 1

LinkLostSampling ==   \* mutant: the sample rate outlives the link
  /\ watching /\ ~connected /\ (lostPolls = 1 \/ arm = "hal")
  /\ watching' = FALSE
  /\ joinedChannel' = FALSE
  /\ lostPolls' = 0
  /\ Hear("Disconnected")
  /\ UNCHANGED <<arm, resting, radioVars, rateVars, quality, upsets>>

(* connected() is false: the watch ends. esp-radio's wait_for_disconnect    *)
(* needs no poll.                                                          *)
LinkLost ==
  /\ watching /\ ~connected /\ (lostPolls = 1 \/ arm = "hal")
  /\ watching' = FALSE
  /\ sample' = NoRate
  /\ joinedChannel' = FALSE
  /\ lostPolls' = 0
  /\ Hear("Disconnected")
  /\ UNCHANGED <<arm, resting, radioVars, phyRate, control, tried, goodSeconds, quality, upsets>>

(* The environment: the network comes and goes, the link's quality changes. *)
NetworkGoes ==
  /\ network /\ upsets < MaxUpsets
  /\ network' = FALSE /\ connected' = FALSE
  /\ upsets' = upsets + 1
  /\ UNCHANGED <<arm, policy, action, resting, assoc, joinedChannel, rateVars, watching, quality, lostPolls>>

NetworkComes ==
  /\ ~network
  /\ network' = TRUE
  /\ UNCHANGED <<arm, policy, action, resting, connected, assoc, joinedChannel, rateVars, watching, quality, upsets, lostPolls>>

LinkChanges ==
  /\ upsets < MaxUpsets
  /\ quality' \in Qualities
  /\ upsets' = upsets + 1
  /\ UNCHANGED <<arm, policy, action, resting, radioVars, joinedChannel, rateVars, watching, lostPolls>>

StationStep == JoinFails \/ Waiting \/ GiveUp \/ RestOver \/ StartWatch \/ LinkLost

StationNext ==
  \/ JoinOk \/ StationStep
  \/ BusySecond \/ IdleSecond
  \/ NetworkGoes \/ NetworkComes \/ LinkChanges

(* The task keeps running, a network that stays up is joined by some        *)
(* attempt, and a joined station has traffic.                              *)
StationFairness ==
  /\ WF_staVars(StationStep \/ JoinOk)
  /\ SF_staVars(JoinOk)
  /\ WF_staVars(BusySecond)

StationSpec == StationInit /\ [][StationNext]_staVars /\ StationFairness

-----------------------------------------------------------------------------

(* joined_channel() is what an access point beside the station beacons on:  *)
(* it names a channel while joined and watched, and at most one poll after *)
(* the link is gone.                                                       *)
ChannelHonest ==
  arm # "hal" =>
    /\ connected /\ watching => joinedChannel
    /\ joinedChannel => connected \/ action.kind = "None"

(* Every rate a frame may start at on an association fits it, whatever the  *)
(* last association was: no MCS is left over for an 802.11g network.        *)
RatesFitTheLink ==
  connected /\ arm # "hal" =>
    /\ phyRate.ht => assoc >= 0
    /\ sample.ht => assoc >= 0
    /\ watching /\ arm \in {"threshold", "probe"} /\ assoc < 0 =>
         phyRate = LadderRate(-1, IF arm = "probe" /\ control.probing # NoRung
                                  THEN control.probing ELSE control.index)
    /\ watching /\ arm = "expected" => phyRate = LadderRate(assoc, control.index)

(* A probability belongs to the rate of its rung: it is known only for a    *)
(* rate frames were sent at.                                               *)
MeasuredWasTried ==
  watching /\ arm = "expected" =>
    \A r \in Rungs : control.prob[r] # PROB_UNKNOWN => LadderRate(assoc, r) \in tried

(* The threshold control goes faster only after RATE_UP_AFTER good seconds  *)
(* running at one rate.                                                    *)
FasterAfterARun ==
  [][arm = "threshold" /\ watching /\ watching' /\ control'.index < control.index =>
       goodSeconds + 1 >= RATE_UP_AFTER]_staVars

Near(r) == {s \in Rungs : s # r /\ Abs(s - r) <= IF arm = "expected" THEN 2 ELSE 1}

AllFail == \A speed \in Rungs : quality[speed] < RATE_COLLAPSE_BELOW_PERMILLE

True(r) == Throughput(quality[LadderRate(assoc, r).speed], assoc, r, 150)

(* No rate within the control's reach delivers clearly more. *)
LocallyBest ==
  LET r == control.index
  IN  \A s \in Near(r) : True(s) * 1000 <= True(r) * 1031 + 120000

(* The measuring controls end at a rate no neighbour clearly beats, however *)
(* stale what they had measured was when the link changed; only where every *)
(* rate fails outright do they keep moving.                                *)
SettledRate == arm \in {"probe", "expected"} => LocallyBest \/ AllFail

(* What the station tells its other half and asks of the driver is true of *)
(* the link it is on, not of the one before.                               *)
StationHonest == ChannelHonest /\ RatesFitTheLink /\ MeasuredWasTried
=============================================================================
