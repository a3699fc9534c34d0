---------------------------- MODULE StationPolicy ----------------------------
(***************************************************************************)
(* The station's reconnect and fallback policy (rusty_esp_signal-core,     *)
(* wifi.rs, struct StationPolicy): pure operators on a policy value.       *)
(* wait_until is kept as the time left until it, which is what             *)
(* `wait_until.since(now)` reads.                                          *)
(***************************************************************************)
EXTENDS Integers

CONSTANTS MIN_BACKOFF, MAX_BACKOFF,
          MAX_JOIN_FAILURES   \* PolicyConfig::max_failures

ASSUME PolicyAssumption ==
  /\ MIN_BACKOFF \in Nat
  /\ MAX_BACKOFF \in Nat
  /\ MAX_JOIN_FAILURES \in Nat

Phases == {"Unprovisioned", "Connecting", "Connected", "Backoff", "Fallback"}

Policies == [phase : Phases, failures : Nat, waitLeft : Int]

NewPolicy == [phase |-> "Unprovisioned", failures |-> 0, waitLeft |-> 0]

(* backoff_for: doubling per failure, capped. *)
BackoffFor(failures) ==
  LET shift == IF failures = 0 THEN 0 ELSE failures - 1
      raw   == MIN_BACKOFF * 2^shift
  IN  IF raw > MAX_BACKOFF THEN MAX_BACKOFF ELSE raw

Act(kind) == [kind |-> kind, us |-> 0]

WaitFor(us) == [kind |-> "Wait", us |-> us]

OnDisconnected(p) ==
  LET failures == p.failures + 1
      wait     == BackoffFor(failures)
  IN  IF failures >= MAX_JOIN_FAILURES
      THEN [policy |-> [p EXCEPT !.phase = "Fallback", !.failures = failures],
            action |-> Act("StartProvisioning")]
      ELSE [policy |-> [phase |-> "Backoff", failures |-> failures, waitLeft |-> wait],
            action |-> WaitFor(wait)]

OnTickSilent(p) == [policy |-> p, action |-> Act("None")]   \* mutant

OnTick(p) ==
  IF p.waitLeft = 0
  THEN [policy |-> [p EXCEPT !.phase = "Connecting"], action |-> Act("Connect")]
  ELSE [policy |-> p, action |-> WaitFor(p.waitLeft)]

(* StationPolicy::on: the policy after an event, and the action it asks for. *)
On(p, event) ==
  CASE event = "Provisioned" ->
         [policy |-> [p EXCEPT !.phase = "Connecting", !.failures = 0],
          action |-> Act("Connect")]
    [] event = "Connected" ->
         [policy |-> [p EXCEPT !.phase = "Connected", !.failures = 0],
          action |-> Act("None")]
    [] event = "Disconnected" /\ p.phase \in {"Connecting", "Connected"} ->
         OnDisconnected(p)
    [] event = "Tick" /\ p.phase = "Backoff" -> OnTick(p)
    [] OTHER -> [policy |-> p, action |-> Act("None")]

Waited(p) == [p EXCEPT !.waitLeft = IF @ = 0 THEN 0 ELSE @ - 1]
=============================================================================
