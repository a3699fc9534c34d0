------------------------------- MODULE IdfGatt -------------------------------
(***************************************************************************)
(* The provisioning GATT service on Bluedroid (rusty_esp_signal-esp,       *)
(* idf/ble.rs).  Bluedroid's thread runs the GAP and GATTS callbacks one   *)
(* after the other; the main loop's thread runs `tick`.  Both share one    *)
(* locked State, but what `tick` decides under the lock it does after      *)
(* releasing it, and what it asks of the radio is confirmed by events.     *)
(***************************************************************************)
EXTENDS Naturals, Sequences

CONSTANTS Peers, NoPeer,
          Overlaps,      \* values of `overlap` tried
          SETUP_MAX,     \* parts the prepared buffer holds
          LongPeers,     \* peers whose message is one part too long
          MaxConnects,   \* bound: connections in one run
          MaxWindows     \* bound: times the window opens or closes

ASSUME GattAssumption ==
  /\ NoPeer \notin Peers
  /\ SETUP_MAX \in Nat \ {0, 1}
  /\ NoPeer \notin [peer : Peers, prepared : Seq(Peers \X Nat)]

(* The attribute table in the order start_service builds it. *)
Attributes == <<"status", "statusCccd", "setup", "setupCccd", "discover">>

PartsOf(p) == IF p \in LongPeers THEN SETUP_MAX + 1 ELSE SETUP_MAX - 1
Cancel == SETUP_MAX + 2

VARIABLES
  overlap,     \* fixed: a tick or a window change may fall inside another tick's commands
  windowOpen,  \* Provisioner::advertising
  table,       \* the attributes there are; the next is added when its event comes
  service,     \* State.service is set
  conn,        \* State.connection: [peer, prepared], or NoPeer
  advertising, \* State.advertising
  beacons,       \* the controller advertises
  confs,       \* configurations asked of the controller, in order
  linked,      \* peers with a connection in the controller
  news,        \* what the controller did and no callback has handled yet, in order
  thread,      \* what each thread still has to do: "free", "start", "stop", "stopping"
  sending,     \* per peer: parts of its message acknowledged, or Cancel
  session,     \* the peer whose message the setup session took last, or NoPeer
  received,       \* history: the message the session took last
  budget       \* [connects, windows]

gattVars == <<overlap, windowOpen, table, service, conn, advertising, beacons, confs, linked, news, thread, sending, session, received, budget>>
links == <<overlap, windowOpen, linked, news, budget>>
writes == <<sending, session, received>>

GattInit ==
  /\ overlap \in Overlaps
  /\ windowOpen \in BOOLEAN
  /\ table = <<>>
  /\ service = FALSE
  /\ conn = NoPeer
  /\ advertising = FALSE
  /\ beacons = FALSE
  /\ confs = <<>>
  /\ linked = {}
  /\ news = <<>>
  /\ thread = [main |-> "free", bt |-> "free"]
  /\ sending = [p \in Peers |-> 0]
  /\ session = NoPeer
  /\ received = <<>>
  /\ budget = [connects |-> 0, windows |-> 0]

-----------------------------------------------------------------------------
(* BleProvisioning::tick, in either thread: decided under the lock. *)

TickDecides(t, connection) ==
  LET want == service' /\ connection = NoPeer /\ windowOpen' IN
  thread' = [thread EXCEPT ![t] = IF want /\ ~advertising THEN "start"
                                  ELSE IF ~want /\ advertising THEN "stop" ELSE "free"]

(* advertise: the flag first, then the advertisement is configured. *)
TickStarts(t) ==
  /\ thread[t] = "start"
  /\ advertising' = TRUE
  /\ confs' = Append(confs, "advertisement")
  /\ thread' = [thread EXCEPT ![t] = "free"]
  /\ UNCHANGED <<table, service, conn, beacons, links, writes>>

TickStops(t) ==
  /\ thread[t] = "stop"
  /\ advertising' = FALSE
  /\ thread' = [thread EXCEPT ![t] = "stopping"]
  /\ UNCHANGED <<table, service, conn, beacons, confs, links, writes>>

RadioStops(t) ==
  /\ thread[t] = "stopping"
  /\ beacons' = FALSE
  /\ thread' = [thread EXCEPT ![t] = "free"]
  /\ UNCHANGED <<table, service, conn, advertising, confs, links, writes>>

TickActs(t) == TickStarts(t) \/ TickStops(t) \/ RadioStops(t)

(* The main loop's tick, every second. *)
MainTick ==
  /\ thread["main"] = "free" /\ (overlap \/ thread["bt"] = "free")
  /\ UNCHANGED <<table, service, conn, advertising, beacons, confs, links, writes>>
  /\ TickDecides("main", conn)
  /\ thread' # thread

(* The window closes by time; a failed join, which the main loop reports,   *)
(* reopens it.  Both are rare beside the milliseconds the radio takes to    *)
(* settle, and without `overlap` fall between two commands to it.           *)
WindowMoves ==
  /\ budget.windows < MaxWindows
  /\ windowOpen \/ thread["main"] = "free"
  /\ overlap \/ (confs = <<>> /\ news = <<>> /\ thread["main"] = "free" /\ thread["bt"] = "free")
  /\ budget' = [budget EXCEPT !.windows = @ + 1]
  /\ windowOpen' = ~windowOpen
  /\ UNCHANGED <<overlap, table, service, conn, advertising, beacons, confs, linked, news, thread, writes>>

-----------------------------------------------------------------------------
(* Bluedroid's events, each handled to its end before the next. *)

Callback == thread["bt"] = "free" /\ (overlap \/ thread["main"] = "free")

(* create_service, start_service: from here `tick` may advertise. *)
ServiceCreated ==
  /\ Callback /\ ~service
  /\ service' = TRUE
  /\ UNCHANGED <<table, conn, advertising, beacons, confs, thread, links, writes>>

(* characteristic_added, cccd_added: each adds the next; the last ticks. *)
AttributeAdded ==
  /\ Callback /\ service /\ Len(table) < Len(Attributes)
  /\ table' = Append(table, Attributes[Len(table) + 1])
  /\ UNCHANGED <<service, conn, advertising, beacons, confs, links, writes>>
  /\ IF Len(table') = Len(Attributes) THEN TickDecides("bt", conn) ELSE UNCHANGED thread

ControllerConfigures ==
  /\ confs # <<>>
  /\ confs' = Tail(confs)
  /\ news' = Append(news, [kind |-> Head(confs), peer |-> NoPeer])
  /\ UNCHANGED <<overlap, windowOpen, linked, budget, table, service, conn, advertising, beacons, thread, writes>>

ReportedAs(kind) ==
  /\ Callback /\ news # <<>> /\ Head(news).kind = kind
  /\ news' = Tail(news)
  /\ UNCHANGED <<overlap, windowOpen, linked, budget, table, service, sending, received>>

AdvertisingConfigured ==
  /\ ReportedAs("advertisement")
  /\ confs' = Append(confs, "response")
  /\ UNCHANGED <<conn, advertising, beacons, thread, session>>

(* "the window may have closed, or a peer arrived, meanwhile" *)
ScanResponseConfigured ==
  /\ ReportedAs("response")
  /\ beacons' = (beacons \/ advertising)
  /\ UNCHANGED <<conn, advertising, confs, thread, session>>

(* A connection ends the controller's advertising; it is reported later. *)
PeerConnects(p) ==
  /\ beacons /\ p \notin linked /\ budget.connects < MaxConnects
  /\ budget' = [budget EXCEPT !.connects = @ + 1]
  /\ beacons' = FALSE
  /\ linked' = linked \cup {p}
  /\ news' = Append(news, [kind |-> "connected", peer |-> p])
  /\ sending' = [sending EXCEPT ![p] = 0]
  /\ UNCHANGED <<overlap, windowOpen, table, service, conn, advertising, confs, thread, session, received>>

PeerLeaves(p) ==
  /\ p \in linked
  /\ linked' = linked \ {p}
  /\ news' = Append(news, [kind |-> "disconnected", peer |-> p])
  /\ UNCHANGED <<overlap, windowOpen, budget, table, service, conn, advertising, beacons, confs, thread, writes>>

ConnectedKeepsFlag(p) ==   \* mutant: the flag outlives the advertising
  /\ conn' = IF conn = NoPeer THEN [peer |-> p, prepared |-> <<>>] ELSE conn
  /\ UNCHANGED <<advertising, thread, session>>

(* connected: one peer is the carrier session. *)
Connected(p) ==
  /\ conn' = IF conn = NoPeer THEN [peer |-> p, prepared |-> <<>>] ELSE conn
  /\ advertising' = FALSE
  /\ UNCHANGED <<thread, session>>

DisconnectedKeepsSession(p) ==   \* mutant: the session outlives its carrier
  /\ conn' = IF conn # NoPeer /\ conn.peer = p THEN NoPeer ELSE conn
  /\ UNCHANGED <<advertising, session>>
  /\ TickDecides("bt", conn')

(* disconnected: the session in flight goes with its peer, then `tick`. *)
Disconnected(p) ==
  /\ IF conn # NoPeer /\ conn.peer = p
     THEN conn' = NoPeer /\ session' = NoPeer
     ELSE UNCHANGED <<conn, session>>
  /\ UNCHANGED advertising
  /\ TickDecides("bt", conn')

PeerReported ==
  /\ \/ ReportedAs("connected") /\ Connected(Head(news).peer)
     \/ ReportedAs("disconnected") /\ Disconnected(Head(news).peer)
  /\ UNCHANGED <<beacons, confs>>

-----------------------------------------------------------------------------
(* written and executed: a peer writes its message in parts, one at a time, *)
(* executes when they are acknowledged, and cancels when one is refused.    *)

CanWrite(p) == Callback /\ p \in linked /\ table = Attributes /\ news = <<>>

IsCarrier(p) == conn # NoPeer /\ conn.peer = p

Contiguous(offset) == offset = Len(conn.prepared)

PreparedPart(p) ==
  /\ CanWrite(p) /\ sending[p] \in 0 .. PartsOf(p) - 1
  /\ LET offset == sending[p] IN
     \/ /\ IsCarrier(p) /\ Contiguous(offset) /\ Len(conn.prepared) < SETUP_MAX
        /\ conn' = [conn EXCEPT !.prepared = Append(@, <<p, offset>>)]
        /\ sending' = [sending EXCEPT ![p] = @ + 1]
     \/ /\ IsCarrier(p) /\ Contiguous(offset) /\ Len(conn.prepared) = SETUP_MAX
        /\ conn' = [conn EXCEPT !.prepared = <<>>]   \* PrepareQueueFull
        /\ sending' = [sending EXCEPT ![p] = Cancel]
     \/ /\ IsCarrier(p) => ~Contiguous(offset)   \* WrongState, InvalidOffset
        /\ sending' = [sending EXCEPT ![p] = Cancel]
        /\ UNCHANGED conn
  /\ UNCHANGED <<table, service, advertising, beacons, confs, thread, links, session, received>>

(* executed: what was prepared is taken out in any case. *)
Executed(p) ==
  /\ CanWrite(p) /\ sending[p] \in {PartsOf(p), Cancel}
  /\ LET canceled == sending[p] = Cancel
         message  == IF IsCarrier(p) THEN conn.prepared ELSE <<>>
     IN  /\ IF IsCarrier(p) THEN conn' = [conn EXCEPT !.prepared = <<>>] ELSE UNCHANGED conn
         /\ IF canceled \/ message = <<>> THEN UNCHANGED <<session, received>>
            ELSE session' = p /\ received' = message
  /\ sending' = [sending EXCEPT ![p] = 0]
  /\ UNCHANGED <<table, service, advertising, beacons, confs, thread, links>>

(* A peer gives up a message it has begun, or begins it anew unasked. *)
PeerGivesUp(p) ==
  /\ sending[p] \in 1 .. PartsOf(p)
  /\ \E next \in {0, Cancel} : sending' = [sending EXCEPT ![p] = next]
  /\ UNCHANGED <<table, service, conn, advertising, beacons, confs, thread, links, session, received>>

Bluedroid ==
  \/ ServiceCreated \/ AttributeAdded \/ AdvertisingConfigured \/ ScanResponseConfigured
  \/ PeerReported \/ ControllerConfigures

GattNext ==
  \/ MainTick \/ WindowMoves \/ Bluedroid
  \/ \E t \in {"main", "bt"} : TickActs(t)
  \/ \E p \in Peers : PeerConnects(p) \/ PeerLeaves(p) \/ PreparedPart(p) \/ Executed(p) \/ PeerGivesUp(p)

(* Both threads run, and Bluedroid confirms and reports in the end. *)
GattSpec ==
  /\ GattInit /\ [][GattNext]_gattVars
  /\ WF_gattVars(MainTick) /\ WF_gattVars(Bluedroid)
  /\ \A t \in {"main", "bt"} : WF_gattVars(TickActs(t))

-----------------------------------------------------------------------------
(* What the session takes is one peer's whole message, in order: never what *)
(* a peer before it left behind, nor the parts of a write it gave up.       *)
MessagesWhole ==
  received # <<>> => \E p \in Peers : received = [i \in 1 .. PartsOf(p) |-> <<p, i - 1>>]

(* "when it leaves the session in flight is dropped": the session is the    *)
(* connected peer's, also when a second connection slipped in.              *)
SessionOfTheCarrier == session # NoPeer => conn # NoPeer /\ conn.peer = session

(* One peer, one session, whole messages. *)
CarrierSound == MessagesWhole /\ SessionOfTheCarrier

(* "The service is advertised only while the setup window is open and       *)
(* nobody is connected": the radio is off while the window is closed or a  *)
(* peer is the carrier, and on while the window is open and nobody is      *)
(* there.                                                                  *)
Hidden == ~beacons \/ (windowOpen /\ conn = NoPeer)
Findable  == beacons \/ ~windowOpen \/ linked # {}
=============================================================================
