------------------------------ MODULE CsiFall -------------------------------
(***************************************************************************)
(* A fall as a shape in the channel's wander (rusty_esp_signal-core,       *)
(* radar/fall.rs): moving, a burst, then stillness that lasts.  Frames     *)
(* come at irregular times; the log of them is a history.                  *)
(***************************************************************************)
EXTENDS Integers, SequencesExt

CONSTANTS
  ActiveLevel,   \* at or above: someone is moving
  BurstLevel,    \* at or above, after moving: a burst
  StillLevel,    \* at or below: still
  Levels,        \* wander a frame may have
  Gaps,          \* times between frames
  MIN_ACTIVE, QUIET_GRACE, SETTLE, STILL_FOR, REFRACTORY,
  MaxLog         \* frames between two falls

ASSUME FallAssumption ==
  /\ StillLevel \in Nat /\ ActiveLevel \in Nat /\ BurstLevel \in Nat /\ Levels \subseteq Nat
  /\ StillLevel < ActiveLevel /\ ActiveLevel <= BurstLevel
  /\ {MIN_ACTIVE, QUIET_GRACE, SETTLE, STILL_FOR, REFRACTORY, MaxLog} \subseteq Nat
  /\ Gaps \subseteq Nat \ {0}

VARIABLES
  fall,     \* the FallDetector's phase
  event,    \* the event the newest frame raised
  log,      \* history: the frames, [at, wander, phase it met]
  apart     \* history: time from the event before to the log's time zero

fallVars == <<fall, event, log, apart>>

NoTime == -1

FallIdle == [phase |-> "Idle"]
Active(since, quiet) == [phase |-> "Active", since |-> since, quiet |-> quiet]

NoEvent == [at |-> NoTime]

FallInit == fall = FallIdle /\ event = NoEvent /\ log = <<>> /\ apart = REFRACTORY

Now == IF log = <<>> THEN 0 ELSE log[Len(log)].at

-----------------------------------------------------------------------------
(* FallDetector::push, one phase at a time *)

PushRefractory(now) == IF now >= fall.until THEN FallIdle ELSE fall

PushIdle(w, now) == IF w >= ActiveLevel THEN Active(now, NoTime) ELSE fall

PushActiveFirstDip(w, now) ==   \* mutant
  IF w >= BurstLevel /\ now - fall.since >= MIN_ACTIVE
  THEN [phase |-> "Burst", at |-> now, peak |-> w]
  ELSE IF w < ActiveLevel THEN FallIdle ELSE Active(fall.since, NoTime)

PushActive(w, now) ==
  IF w >= BurstLevel /\ now - fall.since >= MIN_ACTIVE
  THEN [phase |-> "Burst", at |-> now, peak |-> w]
  ELSE IF w <= StillLevel
  THEN LET q == IF fall.quiet = NoTime THEN now ELSE fall.quiet
       IN  IF now - q >= QUIET_GRACE THEN FallIdle ELSE Active(fall.since, q)
  ELSE Active(fall.since, NoTime)

PushBurst(w, now) ==
  IF w <= StillLevel
  THEN [phase |-> "Settling", burst |-> fall.at, peak |-> fall.peak, still |-> now]
  ELSE IF now - fall.at > SETTLE THEN Active(now, NoTime)
  ELSE [fall EXCEPT !.peak = IF w > @ THEN w ELSE @]

(* Whether this frame completes the shape. *)
FallCompletes(w, now) == fall.phase = "Settling" /\ w <= StillLevel /\ now - fall.still >= STILL_FOR

PushSettling(w, now) ==
  IF w >= ActiveLevel THEN Active(now, NoTime)
  ELSE IF FallCompletes(w, now) THEN [phase |-> "Refractory", until |-> now + REFRACTORY]
  ELSE fall

FallPushed(w, now) ==
  CASE fall.phase = "Refractory" -> PushRefractory(now)
    [] fall.phase = "Idle"       -> PushIdle(w, now)
    [] fall.phase = "Active"     -> PushActive(w, now)
    [] fall.phase = "Burst"      -> PushBurst(w, now)
    [] fall.phase = "Settling"   -> PushSettling(w, now)

(* Of the frames met while refractory only the newest stays in the log, and *)
(* it is time zero.                                                        *)
PushWander ==
  LET anew == fall.phase = "Refractory"
      seen == IF anew THEN <<>> ELSE log
  IN
  /\ Len(seen) < MaxLog
  /\ \E w \in Levels, gap \in Gaps :
       LET now   == Now + gap
           next  == FallPushed(w, now)
           at(t) == IF anew THEN t - now ELSE t
       IN  /\ fall' = IF next.phase = "Refractory" THEN [next EXCEPT !.until = at(@)] ELSE next
           /\ event' = IF FallCompletes(w, now)
                       THEN [burst |-> fall.burst, peak |-> fall.peak, still |-> fall.still, at |-> now]
                       ELSE NoEvent
           /\ log' = Append(seen, [at |-> at(now), w |-> w, met |-> fall.phase])
           /\ apart' = IF ~anew THEN apart
                       ELSE IF event # NoEvent THEN gap ELSE Min({apart + now, REFRACTORY})

(* FallDetector::reset; the histories begin again with it. *)
ResetFall ==
  /\ fall # FallIdle
  /\ fall' = FallIdle
  /\ event' = NoEvent
  /\ log' = <<>>
  /\ apart' = REFRACTORY

FallNext == PushWander \/ ResetFall

FallSpec == FallInit /\ [][FallNext]_fallVars

-----------------------------------------------------------------------------

At(t) == CHOOSE i \in 1..Len(log) : log[i].at = t

(* Every event has a fall's shape in the frames: somebody moving for       *)
(* MIN_ACTIVE before a burst; a stillness that began, at the latest, with  *)
(* the first frame after SETTLE; nobody getting up since; and it lasted.   *)
EventHasTheShape ==
  event # NoEvent =>
    LET b == At(event.burst)
        s == At(event.still)
        n == At(event.at)
    IN  /\ log[b].w >= BurstLevel
        /\ \E a \in 1..(b - 1) : log[a].w >= ActiveLevel /\ log[b].at - log[a].at >= MIN_ACTIVE
        /\ b < s /\ log[s].w <= StillLevel /\ log[s - 1].at - log[b].at <= SETTLE
        /\ \A i \in (b + 1)..(s - 1) : log[i].w > StillLevel
        /\ \A i \in s..n : log[i].w < ActiveLevel
        /\ log[n].at - log[s].at >= STILL_FOR
        /\ event.peak = log[CHOOSE i \in b..(s - 1) : \A j \in b..(s - 1) : log[i].w >= log[j].w].w

(* Two events are never closer than the refractory time. *)
OneEventPerFall == event # NoEvent => apart + event.at >= REFRACTORY

(* A fall is not missed: when somebody the detector was watching moved for *)
(* MIN_ACTIVE, with pauses shorter than QUIET_GRACE, and then the first    *)
(* burst, stillness within SETTLE and STILL_FOR of it followed, up to the  *)
(* newest frame, the event has been raised.                                *)
FallNotMissed ==
  \A a, b, s \in 1..Len(log) :
    /\ a < b /\ b < s /\ s < Len(log)
    /\ log[a].met = "Idle" /\ log[a].w >= ActiveLevel
    /\ \A i, j \in a..b : (i <= j /\ \A k \in i..j : log[k].w <= StillLevel)
                            => log[j].at - log[i].at < QUIET_GRACE
    /\ \A i \in a..(b - 1) : log[i].w < BurstLevel
    /\ log[b].w >= BurstLevel /\ log[b].at - log[a].at >= MIN_ACTIVE
    /\ \A i \in (b + 1)..s : log[i].at - log[b].at <= SETTLE
    /\ \A i \in (b + 1)..(s - 1) : log[i].w >= ActiveLevel
    /\ \A i \in s..Len(log) : log[i].w <= StillLevel
    /\ log[Len(log)].at - log[s].at >= STILL_FOR
    => event # NoEvent /\ event.burst = log[b].at

(* Events are falls and falls are events: no alarm without the shape, none *)
(* twice, none missed.                                                     *)
FallsAreEvents == EventHasTheShape /\ OneEventPerFall /\ FallNotMissed
=============================================================================
