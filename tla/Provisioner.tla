----------------------------- MODULE Provisioner -----------------------------
(***************************************************************************)
(* The provisioning service (rusty_esp_signal-core, provision.rs, struct   *)
(* Provisioner): the setup session and the station policy in one object,   *)
(* with the network in use and whether it is still on trial.  The actions  *)
(* here are the object's methods; a board composes them with its loop and  *)
(* its threads.                                                            *)
(***************************************************************************)
EXTENDS SetupDevice, StationPolicy

VARIABLES policy,  \* the StationPolicy
          creds,   \* the network to join, or None
          trial    \* it came from a session and has not joined yet

provisioner == <<policy, creds, trial>>

Pairs == [ssid : Nets, psk : Nets]

(* stored_network: both halves are there. *)
StoredNetwork(st) ==
  IF st.ssid # None /\ st.psk # None THEN [ssid |-> st.ssid, psk |-> st.psk] ELSE None

(* Provisioner::new, then boot: a stored network is adopted and joined;    *)
(* without one the caller is told to provision.                            *)
BootAction(st) ==
  IF StoredNetwork(st) = None THEN Act("StartProvisioning") ELSE Act("Connect")

Booted(st) ==
  /\ creds' = StoredNetwork(st)
  /\ policy' = IF StoredNetwork(st) = None THEN NewPolicy
               ELSE On(NewPolicy, "Provisioned").policy
  /\ trial' = FALSE

(* on_write of a Settings that was applied with a network: adopted, on     *)
(* trial, and to be joined.  Any other message leaves the station alone.   *)
AppliesNetwork(rec, k) ==
  k = LastPut /\ rec.net # None /\ AdoptionAccepted(store, rec)

OnWriteSettings(rec, k) ==
  /\ OnSettings(rec, k)
  /\ IF AppliesNetwork(rec, k)
     THEN /\ creds' = [ssid |-> rec.net, psk |-> rec.net]
          /\ trial' = TRUE
          /\ policy' = On(policy, "Provisioned").policy
     ELSE UNCHANGED provisioner

OnWriteOther ==
  /\ \/ \E code \in Codes : OnStart(code)
     \/ \E right \in BOOLEAN : OnConfirm(right)
     \/ OnSettingsUnopened
     \/ OnOther
  /\ UNCHANGED provisioner

ReopensOnTrialOnly(event) == event = "Disconnected" /\ trial   \* mutant

(* When an event reopens the window: the policy gave up, or the first join *)
(* of a network on trial failed.                                           *)
Reopens(event) ==
  \/ On(policy, event).action.kind = "StartProvisioning"
  \/ event = "Disconnected" /\ trial

OnEventForgiving(event) ==   \* mutant
  /\ policy' = On(policy, event).policy
  /\ trial' = (trial /\ event \notin {"Connected", "Disconnected"})
  /\ IF Reopens(event)
     THEN windowAge' = 0 /\ store' = Cleared(store) /\ UNCHANGED <<sess, failAge, history, record>>
     ELSE UNCHANGED vars
  /\ UNCHANGED creds

(* Provisioner::on_event: the window reopens as the button reopens it. *)
OnEvent(event) ==
  /\ policy' = On(policy, event).policy
  /\ trial' = (trial /\ event \notin {"Connected", "Disconnected"})
  /\ IF Reopens(event) THEN Button ELSE UNCHANGED vars
  /\ UNCHANGED creds
=============================================================================
