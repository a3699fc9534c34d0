------------------------------ MODULE IdfBoard ------------------------------
(***************************************************************************)
(* A board on ESP-IDF (firmware/xiao-s3-sense-idf-ble-provision): the main *)
(* loop joins the network and feeds the policy while the Bluetooth stack's *)
(* thread feeds the setup session, both through one locked Provisioner.    *)
(* A join blocks the main loop, so a session can apply another network     *)
(* while the join of the old one is still running; and what the Bluetooth  *)
(* thread owes the main loop is handed on only after the lock is released. *)
(***************************************************************************)
EXTENDS Provisioner, Sequences

CONSTANTS Joinable,   \* networks whose passphrase is right and that are there
          SendFails,  \* whether a GATT response or notification may fail
          MaxChan,    \* bound: actions waiting in the channel
          MaxResets   \* bound: resets in one behaviour

ASSUME BoardAssumption ==
  /\ Joinable \subseteq Nets
  /\ SendFails \in BOOLEAN
  /\ MaxChan \in Nat
  /\ MaxResets \in Nat

(* What the policy asks of the main loop, and what the loop's join holds;  *)
(* None stands for neither, nor for a time or a network.                   *)
Actions == [kind : {"None", "Connect", "StartProvisioning", "Wait"}, us : Int]

Attempts == [net : Pairs, first : BOOLEAN]

ASSUME NoneAssumption ==
  None \notin Actions /\ None \notin Attempts /\ None \notin Pairs /\ None \notin Int

VARIABLES
  pending,  \* the main loop's queue of actions
  chan,     \* the channel from the Bluetooth thread
  handing,  \* the action the Bluetooth thread has yet to hand on, or None
  joining,  \* the join in progress, or None
  retry,    \* time left until retry_at, or None
  loop,     \* "recv"; "timeout" inside a timed-out receive; "ended" after an error
  untried,  \* the network was applied by a session and no join of it began
  resets

board == <<pending, chan, handing, joining, retry, loop, untried, resets>>
allVars == <<vars, provisioner, board>>

Init ==
  /\ DeviceInit
  /\ policy = NewPolicy
  /\ creds = None
  /\ trial = FALSE
  /\ pending = <<Act("StartProvisioning")>>
  /\ chan = <<>>
  /\ handing = None
  /\ joining = None
  /\ retry = None
  /\ loop = "recv"
  /\ untried = FALSE
  /\ resets = 0

-----------------------------------------------------------------------------
(* The main loop *)

(* One action taken: from its own queue first, else from the channel. *)
Perform(a) ==
  /\ IF a.kind = "Connect" /\ creds # None
     THEN /\ joining' = [net |-> creds, first |-> untried]
          /\ untried' = FALSE
     ELSE UNCHANGED <<joining, untried>>
  /\ retry' = IF a.kind = "Wait" THEN a.us ELSE retry
  /\ UNCHANGED <<vars, provisioner, handing, loop, resets>>

TakeAction ==
  /\ joining = None
  /\ loop = "recv"
  /\ \/ /\ pending # <<>>
        /\ Perform(Head(pending))
        /\ pending' = Tail(pending)
        /\ UNCHANGED chan
     \/ /\ pending = <<>>
        /\ chan # <<>>
        /\ Perform(Head(chan))
        /\ chan' = Tail(chan)
        /\ UNCHANGED pending

Joins(net) == net.ssid = net.psk /\ net.ssid \in Joinable

(* BleProvisioning::on_event: the policy's answer comes back to the main   *)
(* loop's queue, unless publishing a changed phase fails; then `main`      *)
(* returns the error.                                                      *)
Report(event) ==
  /\ OnEvent(event)
  /\ \/ /\ pending' = Append(pending, On(policy, event).action)
        /\ loop' = "recv"
     \/ /\ SendFails
        /\ policy'.phase # policy.phase
        /\ loop' = "ended"
        /\ UNCHANGED pending

(* The blocking join returns, and its outcome goes to the policy. *)
JoinReturns(event) ==
  /\ joining # None
  /\ event = "Connected" => Joins(joining.net)
  /\ Report(event)
  /\ joining' = None
  /\ UNCHANGED <<chan, handing, retry, untried, resets>>

(* The receive timed out: BleProvisioning::tick drops an idle session, and *)
(* then, under a lock of its own, the policy is told when the retry time   *)
(* has come.  A peer's message can come between the two.                   *)
ReceiveTimedOut ==
  /\ joining = None
  /\ loop = "recv"
  /\ pending = <<>>
  /\ chan = <<>>
  /\ DeviceTick
  /\ loop' = "timeout"
  /\ UNCHANGED <<provisioner, pending, chan, handing, joining, retry, untried, resets>>

RetryChecked ==
  /\ loop = "timeout"
  /\ IF retry = 0
     THEN retry' = None /\ Report("Tick")
     ELSE loop' = "recv" /\ UNCHANGED <<vars, provisioner, retry, pending>>
  /\ UNCHANGED <<chan, handing, joining, untried, resets>>

-----------------------------------------------------------------------------
(* The Bluetooth thread *)

(* `session` under the lock, for a Settings message: an applied network    *)
(* leaves a Connect to hand on.                                            *)
PeerSettings(rec, k) ==
  /\ handing = None
  /\ OnWriteSettings(rec, k)
  /\ IF AppliesNetwork(rec, k)
     THEN /\ Len(chan) < MaxChan
          /\ handing' = Act("Connect")
          /\ untried' = TRUE
     ELSE UNCHANGED <<handing, untried>>
  /\ UNCHANGED <<pending, chan, joining, retry, loop, resets>>

(* The rest of `written`, the lock released and taken again: the write is  *)
(* acknowledged, the answer notified, the phase published, and then the    *)
(* action goes to the channel.  If one of those sends fails it never does. *)
HandOn ==
  /\ handing # None
  /\ handing' = None
  /\ \/ chan' = Append(chan, handing)
     \/ SendFails /\ UNCHANGED chan
  /\ UNCHANGED <<vars, provisioner, pending, joining, retry, loop, untried, resets>>

PeerMessage ==
  /\ handing = None
  /\ OnWriteOther
  /\ UNCHANGED board

PeerLeaves ==
  /\ handing = None
  /\ CarrierClosed
  /\ UNCHANGED <<provisioner, board>>

-----------------------------------------------------------------------------
(* Resets and time *)

BoardReset(powerOn) ==
  /\ resets < MaxResets
  /\ resets' = resets + 1
  /\ \/ Reset(powerOn)
     \/ /\ handing = None
        /\ CutInStart(powerOn) \/ CutInConfirm(powerOn) \/ CutInSettings(powerOn)
  /\ Booted(store')
  /\ pending' = <<BootAction(store')>>
  /\ chan' = <<>>
  /\ handing' = None
  /\ joining' = None
  /\ retry' = None
  /\ loop' = "recv"
  /\ untried' = FALSE

TimePasses ==
  /\ Elapse
  /\ policy' = Waited(policy)
  /\ retry' = IF retry \in {None, 0} THEN retry ELSE retry - 1
  /\ UNCHANGED <<creds, trial, pending, chan, handing, joining, loop, untried, resets>>

MainLoop ==
  \/ TakeAction
  \/ \E event \in {"Connected", "Disconnected"} : JoinReturns(event)
  \/ ReceiveTimedOut \/ RetryChecked

Next ==
  \/ MainLoop
  \/ \E rec \in Records : \E k \in Cuts(rec) : PeerSettings(rec, k)
  \/ PeerMessage
  \/ PeerLeaves
  \/ HandOn
  \/ \E powerOn \in BOOLEAN : BoardReset(powerOn)
  \/ TimePasses

(* The two threads are scheduled and a join returns in the end; time       *)
(* passes.  Nothing is assumed of peers, resets or the network.            *)
Spec ==
  /\ Init /\ [][Next]_allVars
  /\ WF_allVars(MainLoop) /\ WF_allVars(HandOn) /\ WF_allVars(TimePasses)

-----------------------------------------------------------------------------
(* Properties *)

Queued(kind) ==
  \/ \E i \in DOMAIN pending : pending[i].kind = kind
  \/ \E i \in DOMAIN chan : chan[i].kind = kind
  \/ handing # None /\ handing.kind = kind

(* Every variable has its type. *)
BoardTypeOK ==
  /\ policy \in Policies
  /\ creds \in Pairs \cup {None}
  /\ trial \in BOOLEAN
  /\ pending \in Seq(Actions)
  /\ chan \in Seq(Actions)
  /\ handing \in Actions \cup {None}
  /\ joining \in Attempts \cup {None}
  /\ retry \in Int \cup {None}
  /\ loop \in {"recv", "timeout", "ended"}
  /\ untried \in BOOLEAN
  /\ resets \in Nat

(* No wakeup is lost between the policy, the main loop's queue, its retry  *)
(* timer and the channel: while the policy is Connecting a join runs or is *)
(* queued, and while it is in Backoff something will still move it on,     *)
(* also when a stale join's result arrives after a session's new network.  *)
NoLostWakeup ==
  /\ policy.phase = "Connecting" => joining # None \/ Queued("Connect")
  /\ policy.phase = "Backoff" =>
       retry # None \/ joining # None \/ Queued("Wait") \/ Queued("Connect")

(* While the policy works on a network that cannot join, it comes to an    *)
(* open window (unless the device is locked out or the network replaced):  *)
(* on_event's promise about such a network, as far as the code keeps it.   *)
StuckOpensWindow ==
  (creds # None /\ ~Joins(creds) /\ policy.phase \in {"Connecting", "Backoff"})
    ~> \/ WindowOpen(store, windowAge)
       \/ LockedOut(store)
       \/ creds = None
       \/ Joins(creds)

(* "So does the first failed join of a network a session just applied":    *)
(* when that join returns with a failure, the window starts anew.          *)
FirstFailedJoinReopens ==
  [][(joining # None /\ joining.first /\ joining' = None /\ resets' = resets
        /\ policy'.phase # "Connected")
       => windowAge' = 0]_allVars
=============================================================================
