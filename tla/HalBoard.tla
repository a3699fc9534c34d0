------------------------------ MODULE HalBoard ------------------------------
(***************************************************************************)
(* The boards on esp-hal: the GATT backend (rusty_esp_signal-esp, ble.rs)  *)
(* under two firmwares.  xiao-s3-sense-hal-ble-provision lives in two      *)
(* boots: one that carries the setup session and joins with the phone      *)
(* still connected, and, after a software reset, one that is a station and *)
(* never starts Bluetooth.  c6-ble-provision has nothing to join.  One     *)
(* async loop does it all: while it awaits a join, the peer's requests are *)
(* accepted as written and no message reaches the session.  The session is *)
(* taken at the grain the loop sees; SetupDevice has its details.          *)
(***************************************************************************)
EXTENDS StationPolicy

CONSTANTS Boards,      \* which firmwares: "s3", "c6"
          Networks,    \* networks a browser may send
          NoNetwork,   \* a name or a passphrase that is not stored
          Reachable,   \* those of Networks that a join succeeds with
          Phones,      \* peers that may connect
          NoPhone,
          GUESSES,     \* MAX_FAILURES of setup/device.rs
          TornWrites,  \* whether a write to the settings may be cut short
          MaxVisits,   \* bound: connections in one behaviour
          MaxOutages   \* bound: power cuts and brown-outs in one behaviour

ASSUME HalAssumption == NoNetwork \notin Networks /\ GUESSES \in Nat

VARIABLES
  chip,     \* the board's firmware
  at,       \* where its loop is
  flash,    \* wifi.ssid, wifi.psk and setup.fail
  station,  \* the Provisioner's policy, network, and whether it is on trial
  running,  \* the time after a power-on or a failed trial is still running
  step,     \* the setup session: idle, replied or confirmed
  phone,    \* the connected peer
  gatt,     \* the server's values: whose bytes `setup` holds, and `status`
  reset,    \* while down: what the next boot reads as its reason
  visits, outages

halVars == <<chip, at, flash, station, running, step, phone, gatt, reset, visits, outages>>

Empty == [of |-> NoPhone, is |-> "empty"]

(* stored_network: both halves are there. *)
Stored(f) ==
  IF f.ssid = NoNetwork \/ f.psk = NoNetwork THEN NoNetwork
  ELSE <<f.ssid, f.psk>>

(* Device::window: locked out, until provisioned, or timed. *)
Open(f, timed) == f.fail < GUESSES /\ (f.ssid = NoNetwork \/ timed)

FreshStation(net) ==
  [net |-> net, trial |-> FALSE,
   policy |-> IF net = NoNetwork THEN NewPolicy ELSE On(NewPolicy, "Provisioned").policy]

HalInit ==
  /\ chip \in Boards
  /\ at = "down"
  /\ flash = [ssid |-> NoNetwork, psk |-> NoNetwork, fail |-> 0]
  /\ station = FreshStation(NoNetwork)
  /\ running = FALSE
  /\ step = "idle"
  /\ phone = NoPhone
  /\ gatt = [setup |-> Empty, status |-> "Unprovisioned"]
  /\ reset = "PowerOn"
  /\ visits = 0
  /\ outages = 0

-----------------------------------------------------------------------------
(* Boots *)

(* main up to its loop: a power-on opens the window and gives a locked-out *)
(* device one more guess, and a stored network is adopted.                 *)
Booted ==
  /\ at = "down"
  /\ running' = (reset = "PowerOn")
  /\ flash' = IF running' /\ flash.fail >= GUESSES
              THEN [flash EXCEPT !.fail = GUESSES - 1] ELSE flash
  /\ station' = FreshStation(Stored(flash))
  /\ gatt' = [setup |-> Empty, status |-> "Unprovisioned"]
  /\ UNCHANGED <<chip, step, phone, reset, visits, outages>>

(* A stored network and a closed window make the S3's station boot, in     *)
(* which the session is not served.                                        *)
BootS3 ==
  /\ chip = "s3"
  /\ Booted
  /\ at' = IF station'.net # NoNetwork /\ ~Open(flash', running')
           THEN "station" ELSE "accept"

BootC6 ==
  /\ chip = "c6"
  /\ Booted
  /\ at' = "accept"

(* The power is cut, or a brown-out resets the chip: only flash survives. *)
Outage(reason) ==
  /\ at # "down"
  /\ outages < MaxOutages
  /\ outages' = outages + 1
  /\ at' = "down"
  /\ reset' = reason
  /\ step' = "idle"
  /\ phone' = NoPhone
  /\ UNCHANGED <<chip, flash, station, running, gatt, visits>>

SoftwareReset ==
  /\ at' = "down"
  /\ reset' = "Other"
  /\ step' = "idle"
  /\ phone' = NoPhone

-----------------------------------------------------------------------------
(* accept *)

WindowClosedWaits ==   \* mutant
  /\ chip = "s3"
  /\ at' = "closed"
  /\ UNCHANGED <<step, phone, reset>>

(* `accept` returned None.  The S3 with a network restarts as a station;   *)
(* anything else looks again every second, until the window is open.       *)
WindowClosedS3 ==
  /\ chip = "s3"
  /\ IF station.net # NoNetwork THEN SoftwareReset
     ELSE at' = "closed" /\ UNCHANGED <<step, phone, reset>>

WindowClosedC6 ==
  /\ chip = "c6"
  /\ at' = "closed"
  /\ UNCHANGED <<step, phone, reset>>

WindowClosed == WindowClosedS3 \/ WindowClosedC6

(* The window is open: the values are set, and the service is advertised. *)
AcceptOpen ==
  /\ at \in {"accept", "closed"}
  /\ Open(flash, running)
  /\ at' = "advertising"
  /\ gatt' = [setup |-> Empty, status |-> station.policy.phase]
  /\ UNCHANGED <<chip, flash, station, running, step, phone, reset, visits, outages>>

AcceptClosed ==
  /\ at = "accept"
  /\ ~Open(flash, running)
  /\ WindowClosed
  /\ UNCHANGED <<chip, flash, station, running, gatt, visits, outages>>

(* The window's end is a timer raced against the connection. *)
AdvertisingEnds ==
  /\ at = "advertising"
  /\ ~Open(flash, running)
  /\ WindowClosed
  /\ UNCHANGED <<chip, flash, station, running, gatt, visits, outages>>

PhoneConnects(p) ==
  /\ at = "advertising"
  /\ visits < MaxVisits
  /\ visits' = visits + 1
  /\ at' = "serve"
  /\ phone' = p
  /\ UNCHANGED <<chip, flash, station, running, step, gatt, reset, outages>>

WindowRunsOut ==
  /\ at # "down"
  /\ running
  /\ running' = FALSE
  /\ UNCHANGED <<chip, at, flash, station, step, phone, gatt, reset, visits, outages>>

-----------------------------------------------------------------------------
(* Session::serve *)

(* `answer`: the answer into `setup`, and the phase if it moved. *)
AnswerThen(next) ==
  /\ at' = next
  /\ gatt' = [setup |-> [of |-> phone, is |-> "answer"], status |-> station'.policy.phase]
  /\ UNCHANGED <<chip, phone, reset, visits, outages>>

(* A message on_message answers without settings: a Start taken or         *)
(* refused, a Confirm that is right, wrong or out of order.                *)
ServeMessage ==
  /\ at = "serve"
  /\ \/ /\ step' = IF step = "idle" /\ Open(flash, running) THEN "replied" ELSE step
        /\ UNCHANGED flash
     \/ /\ step = "replied"
        /\ step' = "confirmed"
        /\ flash' = [flash EXCEPT !.fail = 0]
     \/ /\ step = "replied"
        /\ step' = "idle"
        /\ flash' = [flash EXCEPT !.fail = @ + 1]
  /\ UNCHANGED <<station, running>>
  /\ AnswerThen("serve")

ServeSettings(net) ==
  /\ at = "serve"
  /\ step = "confirmed"
  /\ step' = "idle"
  /\ flash' = [flash EXCEPT !.ssid = net, !.psk = net]
  /\ station' = [net |-> <<net, net>>, trial |-> TRUE,
                 policy |-> On(station.policy, "Provisioned").policy]
  /\ UNCHANGED running
  /\ AnswerThen(IF chip = "s3" THEN "join" ELSE "grace")

(* apply's second write fails, or the power goes before it: the result is  *)
(* an error and nothing is adopted, but the name is stored.                *)
ServeTorn(net) ==
  /\ TornWrites
  /\ at = "serve"
  /\ step = "confirmed"
  /\ step' = "idle"
  /\ flash' = [flash EXCEPT !.ssid = net]
  /\ UNCHANGED <<station, running>>
  /\ AnswerThen("serve")

(* Session::serve saw the peer leave: the session and `setup` are wiped.   *)
(* On an error of the connection only the session is.                      *)
ServeEnds ==
  /\ at = "serve"
  /\ at' = "accept"
  /\ step' = "idle"
  /\ phone' = NoPhone
  /\ gatt' \in {gatt, [gatt EXCEPT !.setup = Empty]}
  /\ UNCHANGED <<chip, flash, station, running, reset, visits, outages>>

-----------------------------------------------------------------------------
(* Session::attend *)

AttendServes ==   \* mutant
  \/ /\ at = "join"
     /\ \E net \in Networks :
          /\ flash' = [flash EXCEPT !.ssid = net, !.psk = net]
          /\ UNCHANGED <<chip, at, station, running, step, phone, gatt, reset, visits, outages>>
  \/ /\ at \in {"join", "grace"}
     /\ gatt' = [gatt EXCEPT !.setup = [of |-> phone, is |-> "message"]]
     /\ UNCHANGED <<chip, at, flash, station, running, step, phone, reset, visits, outages>>

(* A write during the join or the grace is stored as the value of `setup`, *)
(* over the answer, and goes no further.                                   *)
AttendWrite ==
  /\ at \in {"join", "grace"}
  /\ gatt' = [gatt EXCEPT !.setup = [of |-> phone, is |-> "message"]]
  /\ UNCHANGED <<chip, at, flash, station, running, step, phone, reset, visits, outages>>

(* The peer leaves first: the join is dropped, unreported. *)
AttendEnds ==
  /\ at = "join"
  /\ at' = "accept"
  /\ step' = "idle"
  /\ phone' = NoPhone
  /\ UNCHANGED <<chip, flash, station, running, gatt, reset, visits, outages>>

(* The one-shot serve: the peer left, or the grace it had to read the      *)
(* answer is over and the link is dropped.                                 *)
GraceEnds ==
  /\ at = "grace"
  /\ at' = "accept"
  /\ step' = "idle"
  /\ phone' = NoPhone
  /\ UNCHANGED <<chip, flash, station, running, gatt, reset, visits, outages>>

Joined ==
  /\ at = "join"
  /\ station.net[1] = station.net[2]
  /\ station.net[1] \in Reachable
  /\ station' = [station EXCEPT !.policy = On(@, "Connected").policy, !.trial = FALSE]
  /\ gatt' = [gatt EXCEPT !.status = station'.policy.phase]
  /\ at' = "joined"
  /\ UNCHANGED <<chip, flash, running, step, phone, reset, visits, outages>>

(* Provisioner::on_event with Disconnected: the first failure of a network *)
(* on trial opens the window, and the peer stays connected for a retry.    *)
JoinFailed ==
  /\ at = "join"
  /\ station' = [station EXCEPT !.policy = On(@, "Disconnected").policy, !.trial = FALSE]
  /\ running' = (running \/ station.trial)
  /\ gatt' = [gatt EXCEPT !.status = station'.policy.phase]
  /\ at' = "serve"
  /\ UNCHANGED <<chip, flash, step, phone, reset, visits, outages>>

(* The notification left, the peer is hung up on, and the chip restarts. *)
Restarts ==
  /\ at = "joined"
  /\ SoftwareReset
  /\ UNCHANGED <<chip, flash, station, running, gatt, visits, outages>>

-----------------------------------------------------------------------------
HalNext ==
  \/ BootS3 \/ BootC6 \/ AcceptOpen \/ AcceptClosed \/ AdvertisingEnds \/ WindowRunsOut
  \/ \E reason \in {"PowerOn", "Other"} : Outage(reason)
  \/ \E p \in Phones : PhoneConnects(p)
  \/ ServeMessage \/ ServeEnds
  \/ \E net \in Networks : ServeSettings(net) \/ ServeTorn(net)
  \/ AttendWrite \/ AttendEnds \/ GraceEnds
  \/ Joined \/ JoinFailed \/ Restarts

(* The executor runs the loop; a join returns by its timeout, the window   *)
(* closes by the clock, and a phone does not stay for ever: the link's     *)
(* supervision timeout ends it when it is switched off or walks away.      *)
HalFairness ==
  /\ WF_halVars(BootS3 \/ BootC6)
  /\ WF_halVars(AcceptOpen)
  /\ WF_halVars(AcceptClosed)
  /\ WF_halVars(AdvertisingEnds)
  /\ WF_halVars(WindowRunsOut)
  /\ WF_halVars(Joined \/ JoinFailed)
  /\ WF_halVars(Restarts)
  /\ SF_halVars(ServeEnds)
  /\ SF_halVars(AttendEnds)
  /\ WF_halVars(GraceEnds)

HalSpec == HalInit /\ [][HalNext]_halVars /\ HalFairness

-----------------------------------------------------------------------------
(* Properties *)

(* The network the phone was told is joined is, whole, the one the next    *)
(* boot reads from the settings: no later message, and no write that was   *)
(* cut short, comes between the join and the restart.                      *)
RestartsIntoTheJoined ==
  at = "joined" => Stored(flash) = station.net

(* The bytes a phone can read from `setup` are its own message or the      *)
(* answer to it, never what an earlier phone's session left there.         *)
SetupIsItsOwn ==
  phone # NoPhone => gatt.setup.of \in {NoPhone, phone}

(* While a phone is connected, `status` reads as the policy's phase. *)
StatusIsCurrent ==
  phone # NoPhone => gatt.status = station.policy.phase

(* What the phone reads and is told is so, up to the restart it leads to. *)
PhoneToldTrue == RestartsIntoTheJoined /\ SetupIsItsOwn /\ StatusIsCurrent

(* An S3 with a network in its settings becomes a station: whatever the    *)
(* phones did, in whichever step the window closed or the power went.      *)
StationIfGiven ==
  chip = "s3" /\ Stored(flash) # NoNetwork => at = "station"
=============================================================================
