-------------------------------- MODULE Link --------------------------------
(***************************************************************************)
(* The mID-authenticated link: the three-message handshake and the sealed  *)
(* sessions of rusty_esp_signal-core (link.rs), driven as the raw ESP-NOW  *)
(* link of rusty_esp_signal-open drives them (raw_link.rs), over a radio   *)
(* that loses, repeats, delays and reorders frames.                        *)
(*                                                                         *)
(* Cryptography is symbolic.  An ephemeral key and the nonce beside it are *)
(* drawn together, so both are one fresh value <<node, n>>.  The session   *)
(* keys are a function of the two identities, the two ephemeral keys and   *)
(* the two nonces; a tag is the record of what went into the MAC.          *)
(***************************************************************************)
EXTENDS ReplayWindow, FiniteSets

CONSTANTS Initiators, Responders,
          Allow,         \* Allow[n]: the DIDs that n's `allow` accepts
          BROADCAST,
          Named,         \* Named[n]: the peer address the firmware gave n
          IdSpace,       \* session ids: 2^16 in the code, so ids can collide
          MaxAttempts    \* bound: handshakes each node may start or answer

Nodes == Initiators \cup Responders

ASSUME LinkAssumption ==
  /\ Initiators \cap Responders = {}
  /\ Allow \in [Nodes -> SUBSET Nodes]
  /\ BROADCAST \notin Nodes
  /\ Named \in [Nodes -> Nodes \cup {BROADCAST}]
  /\ IdSpace \in Nat \ {0}
  /\ MaxAttempts \in Nat \ {0}

VARIABLES
  air,        \* every frame ever sent: any may still arrive, or arrive again
  fresh,      \* fresh[n]: ephemeral keys n has drawn
  learners,   \* the nodes whose firmware lets the link learn_peer
  link,       \* link[n]: the RawLink's peer address, and whether it learned it
  state,      \* state[n]: where n is in a handshake or session
  delivered,  \* payloads handed to the application
  replays,    \* payloads handed over a second time
  reused,     \* sealings under a key, direction and number used before
  established \* every session that was ever opened

vars == <<air, fresh, learners, link, state, delivered, replays, reused, established>>
history == <<delivered, replays, reused, established>>

-----------------------------------------------------------------------------
(* Messages and keys *)

NONE == [at |-> "none"]

Hello(did, eph) == [kind |-> "hello", did |-> did, eph |-> eph]

AcceptBody(did, eph) == [did |-> did, eph |-> eph]

(* derive: one static Diffie-Hellman, one ephemeral, salted with both      *)
(* nonces in order.                                                        *)
Derive(didI, didR, ephI, ephR) == [dids |-> {didI, didR}, nonces |-> <<ephI, ephR>>]

(* The two bytes of key material that name a session. *)
SessionId(key) == (key.nonces[1][2] + key.nonces[2][2]) % IdSpace

Tag(key, label, transcript) == [key |-> key, label |-> label, transcript |-> transcript]

OpenSession(key, role, peer) ==
  [at |-> "session", key |-> key, role |-> role, peer |-> peer,
   send_seq |-> 0, exhausted |-> FALSE, window |-> NewWindow]

-----------------------------------------------------------------------------
(* The link under the session *)

(* send_raw / transmit_frame: one frame to the peer's address. *)
Datagram(n, peer, msg) == [from |-> n, to |-> peer, msg |-> msg]

(* rx_task and recv_raw: a frame for this radio, and from the peer once    *)
(* one is known.  The drain before a Hello and the full inbox only drop    *)
(* frames, which the radio may do at any time.                             *)
Heard(n) ==
  {f \in air : /\ f.from # n
               /\ f.to \in {n, BROADCAST}
               /\ link[n].peer \in {BROADCAST, f.from}}

(* A failed handshake forgets a learned address, never a named one. *)
Forget(l) ==
  IF l.learned THEN [peer |-> BROADCAST, learned |-> FALSE] ELSE l

LearnNothing(n, l, from) == l   \* mutant

(* The peer's address is kept from the frame its handshake message came in. *)
LearnFrom(n, l, from) ==
  IF n \in learners /\ l.peer = BROADCAST THEN [peer |-> from, learned |-> TRUE] ELSE l

Boot(n) == [peer |-> Named[n], learned |-> FALSE]

Init ==
  /\ air = {}
  /\ fresh = [n \in Nodes |-> 0]
  /\ learners \in SUBSET Nodes
  /\ link = [n \in Nodes |-> Boot(n)]
  /\ state = [n \in Nodes |-> NONE]
  /\ delivered = {}
  /\ replays = {}
  /\ reused = {}
  /\ established = {}

(* handshake_initiator / handshake_responder returned an error. *)
Fail(n) ==
  /\ state' = [state EXCEPT ![n] = NONE]
  /\ link' = [link EXCEPT ![n] = Forget(@)]

-----------------------------------------------------------------------------
(* The initiator *)

(* Handshake::initiate and the send of the Hello.  A send may report a     *)
(* failure whether or not the frame got through: the acknowledgement is    *)
(* lost as easily as the frame.                                            *)
Initiate(n) ==
  /\ n \in Initiators
  /\ state[n] = NONE
  /\ fresh[n] < MaxAttempts
  /\ LET eph == <<n, fresh[n]>>
     IN  /\ fresh' = [fresh EXCEPT ![n] = @ + 1]
         /\ air' = air \cup {Datagram(n, link[n].peer, Hello(n, eph))}
         /\ \/ /\ state' = [state EXCEPT ![n] = [at |-> "hello", eph |-> eph]]
               /\ UNCHANGED link
            \/ Fail(n)
  /\ UNCHANGED history

(* The Accept's DID is put to `allow`, and its tag is verified over the    *)
(* initiator's own Hello and the Accept's body, under keys derived from    *)
(* both.                                                                   *)
AcceptKey(n, msg) == Derive(n, msg.body.did, state[n].eph, msg.body.eph)

Transcript(n, msg) == <<Hello(n, state[n].eph), msg.body>>

AcceptVerifies(n, msg) ==
  /\ msg.kind = "accept"
  /\ msg.body.did \in Allow[n]
  /\ msg.tag = Tag(AcceptKey(n, msg), "accept", Transcript(n, msg))

(* The right Accept came: the address is learned and the Confirm sent; if  *)
(* that send fails the session is dropped, although the responder may have *)
(* the Confirm.                                                            *)
Finished(n, f) ==
  LET key     == AcceptKey(n, f.msg)
      learnt  == LearnFrom(n, link[n], f.from)
      confirm == [kind |-> "confirm", tag |-> Tag(key, "confirm", Transcript(n, f.msg))]
  IN  /\ air' = air \cup {Datagram(n, learnt.peer, confirm)}
      /\ established' = established \cup
           {[node |-> n, role |-> "i", key |-> key, peer |-> f.msg.body.did]}
      /\ \/ /\ state' = [state EXCEPT ![n] = OpenSession(key, "i", f.msg.body.did)]
            /\ link' = [link EXCEPT ![n] = learnt]
         \/ /\ state' = [state EXCEPT ![n] = NONE]
            /\ link' = [link EXCEPT ![n] = Forget(learnt)]

(* Handshake::finish on the next datagram, whatever it is: anything but    *)
(* the right Accept ends the attempt.                                      *)
Finish(n) ==
  /\ n \in Initiators
  /\ state[n].at = "hello"
  /\ \E f \in Heard(n) :
       \/ ~AcceptVerifies(n, f.msg) /\ Fail(n) /\ UNCHANGED <<air, established>>
       \/ AcceptVerifies(n, f.msg) /\ Finished(n, f)
  /\ UNCHANGED <<fresh, delivered, replays, reused>>

-----------------------------------------------------------------------------
(* The responder *)

AllowedAnyone(n, msg) == msg.kind = "hello"   \* mutant

Allowed(n, msg) == msg.kind = "hello" /\ msg.did \in Allow[n]

(* An allowed Hello came: an ephemeral key is drawn, the address learned   *)
(* and the Accept sent, which may fail like the Confirm.                   *)
Responded(n, f) ==
  LET eph    == <<n, fresh[n]>>
      body   == AcceptBody(n, eph)
      key    == Derive(f.msg.did, n, f.msg.eph, eph)
      accept == [kind |-> "accept", body |-> body,
                 tag  |-> Tag(key, "accept", <<f.msg, body>>)]
      learnt == LearnFrom(n, link[n], f.from)
  IN  /\ fresh' = [fresh EXCEPT ![n] = @ + 1]
      /\ air' = air \cup {Datagram(n, learnt.peer, accept)}
      /\ \/ /\ state' = [state EXCEPT ![n] =
                          [at |-> "pending", key |-> key, peer |-> f.msg.did,
                           transcript |-> <<f.msg, body>>]]
            /\ link' = [link EXCEPT ![n] = learnt]
         \/ /\ state' = [state EXCEPT ![n] = NONE]
            /\ link' = [link EXCEPT ![n] = Forget(learnt)]

(* Handshake::respond on the next datagram. *)
Respond(n) ==
  /\ n \in Responders
  /\ state[n] = NONE
  /\ fresh[n] < MaxAttempts
  /\ \E f \in Heard(n) :
       \/ ~Allowed(n, f.msg) /\ Fail(n) /\ UNCHANGED <<air, fresh>>
       \/ Allowed(n, f.msg) /\ Responded(n, f)
  /\ UNCHANGED history

ConfirmUnchecked(p, msg) == msg.kind = "confirm"   \* mutant

ConfirmVerifies(p, msg) ==
  /\ msg.kind = "confirm"
  /\ msg.tag = Tag(p.key, "confirm", p.transcript)

Confirmed(n) ==
  LET p == state[n]
  IN  /\ state' = [state EXCEPT ![n] = OpenSession(p.key, "r", p.peer)]
      /\ established' = established \cup
           {[node |-> n, role |-> "r", key |-> p.key, peer |-> p.peer]}
      /\ UNCHANGED link

(* Pending::confirm on the next datagram; a wrong one consumes the pending *)
(* session.                                                                *)
Confirm(n) ==
  /\ n \in Responders
  /\ state[n].at = "pending"
  /\ \E f \in Heard(n) :
       \/ ~ConfirmVerifies(state[n], f.msg) /\ Fail(n) /\ UNCHANGED established
       \/ ConfirmVerifies(state[n], f.msg) /\ Confirmed(n)
  /\ UNCHANGED <<air, fresh, delivered, replays, reused>>

(* `patience` ran out in recv_raw: waiting for the Accept, the Confirm, or *)
(* (a responder) the Hello.                                                *)
Timeout(n) ==
  /\ \/ state[n].at \in {"hello", "pending"}
     \/ n \in Responders /\ state[n] = NONE
  /\ Fail(n)
  /\ UNCHANGED <<air, fresh, history>>

-----------------------------------------------------------------------------
(* The session *)

Other(role) == IF role = "i" THEN "r" ELSE "i"

(* A sealed frame: the id and the number in its header, the MAC's inputs   *)
(* as its tag.  The direction key is the sender's role.                    *)
Sealed(s) ==
  [kind |-> "data", id |-> SessionId(s.key), seq |-> s.send_seq,
   tag |-> [key |-> s.key, dir |-> s.role, seq |-> s.send_seq]]

(* The number after a seal: the last one marks the space as used up. *)
NextSeq(s) ==
  IF s.send_seq < MaxSeq
  THEN [s EXCEPT !.send_seq = @ + 1]
  ELSE [s EXCEPT !.exhausted = TRUE]

(* Session::seal_with and the send of the frame. *)
Seal(n) ==
  /\ state[n].at = "session"
  /\ ~state[n].exhausted
  /\ LET msg == Sealed(state[n])
     IN  /\ reused' = reused \cup {f.msg : f \in {g \in air : g.msg = msg}}
         /\ air' = air \cup {Datagram(n, link[n].peer, msg)}
  /\ state' = [state EXCEPT ![n] = NextSeq(@)]
  /\ UNCHANGED <<fresh, link, delivered, replays, established>>

(* The tag is checked under the key of the direction this side receives. *)
TagVerifies(s, msg) ==
  msg.tag = [key |-> s.key, dir |-> Other(s.role), seq |-> msg.seq]

(* Session::open_with: the session id, then the tag, then the window.      *)
(* A frame that fails any of them is only counted.                         *)
Open(n) ==
  /\ state[n].at = "session"
  /\ \E f \in Heard(n) :
       LET s == state[n]
           verdict == Accept(s.window, f.msg.seq)
           payload == [at |-> n, under |-> s.key, tag |-> f.msg.tag]
       IN  /\ f.msg.kind = "data"
           /\ f.msg.id = SessionId(s.key)
           /\ TagVerifies(s, f.msg)
           /\ verdict.ok
           /\ state' = [state EXCEPT ![n].window = verdict.window]
           /\ delivered' = delivered \cup {payload}
           /\ replays' = replays \cup (delivered \cap {payload})
  /\ UNCHANGED <<air, fresh, link, reused, established>>

(* The firmware drops the session (expired, exhausted, its rounds done)    *)
(* and handshakes again; the link keeps its peer.                          *)
EndSession(n) ==
  /\ state[n].at = "session"
  /\ state' = [state EXCEPT ![n] = NONE]
  /\ UNCHANGED <<air, fresh, link, history>>

(* A restart loses the session, the half-open handshake and the learned    *)
(* address.                                                                *)
Restart(n) ==
  /\ state' = [state EXCEPT ![n] = NONE]
  /\ link' = [link EXCEPT ![n] = Boot(n)]
  /\ UNCHANGED <<air, fresh, history>>

Step(n) ==
  \/ Initiate(n) \/ Finish(n)
  \/ Respond(n) \/ Confirm(n)
  \/ Timeout(n)
  \/ Seal(n) \/ Open(n)
  \/ EndSession(n) \/ Restart(n)

Next == (\E n \in Nodes : Step(n)) /\ UNCHANGED learners

Spec == Init /\ [][Next]_vars

-----------------------------------------------------------------------------
(* Properties *)

(* The kinds of values: ephemeral keys, session keys, messages, frames on  *)
(* the air, and what a node can be doing.                                  *)
Addresses == Nodes \cup {BROADCAST}
Roles == {"i", "r"}
Ephs == Nodes \X (0 .. MaxAttempts - 1)
Keys == [dids : SUBSET Nodes, nonces : Ephs \X Ephs]
Hellos == [kind : {"hello"}, did : Nodes, eph : Ephs]
Bodies == [did : Nodes, eph : Ephs]
Tags == [key : Keys, label : {"accept", "confirm"}, transcript : Hellos \X Bodies]
SealTags == [key : Keys, dir : Roles, seq : SeqNums]

Messages ==
  Hellos \cup [kind : {"accept"}, body : Bodies, tag : Tags]
         \cup [kind : {"confirm"}, tag : Tags]
         \cup [kind : {"data"}, id : Nat, seq : SeqNums, tag : SealTags]

States ==
  {NONE} \cup [at : {"hello"}, eph : Ephs]
         \cup [at : {"pending"}, key : Keys, peer : Nodes, transcript : Hellos \X Bodies]
         \cup [at : {"session"}, key : Keys, role : Roles, peer : Nodes,
               send_seq : SeqNums, exhausted : BOOLEAN, window : Windows]

(* Every variable has its type. *)
TypeOK ==
  /\ air \subseteq [from : Nodes, to : Addresses, msg : Messages]
  /\ fresh \in [Nodes -> 0 .. MaxAttempts]
  /\ learners \subseteq Nodes
  /\ link \in [Nodes -> [peer : Addresses, learned : BOOLEAN]]
  /\ state \in [Nodes -> States]
  /\ delivered \subseteq [at : Nodes, under : Keys, tag : SealTags]
  /\ replays \subseteq delivered
  /\ established \subseteq [node : Nodes, role : Roles, key : Keys, peer : Nodes]

(* No frame is delivered twice, whatever the radio repeats: not in its own *)
(* session (the window) and not in a later one with the same peer and the  *)
(* same 16-bit id (fresh keys, and open's tag check).                      *)
NoReplay == replays = {}

(* What open delivers was sealed under this very session's key, for this   *)
(* direction: frames of an older session whose id collides, frames of      *)
(* another initiator, and a node's own frames never get through.           *)
OnlyThePeersFrames ==
  \A d \in delivered :
    /\ d.tag.key = d.under
    /\ \E e \in established :
         /\ e.key = d.under
         /\ e.peer = d.at
         /\ e.role = d.tag.dir

(* A key, a direction and a number seal at most one frame: send_seq is     *)
(* never reused, also at the end of the sequence space and after restarts. *)
NoSeqReuse == reused = {}

(* A responder opens a session only with an initiator that derived the     *)
(* same keys and took this responder for its peer; a Confirm of another    *)
(* attempt, late or repeated, opens nothing.                               *)
Agreement ==
  \A e \in established :
    e.role = "r" =>
      [node |-> e.peer, role |-> "i", key |-> e.key, peer |-> e.node] \in established

(* An initiator that finishes has been answered: the responder it names    *)
(* sent an Accept for this very Hello, so a replayed Accept of an earlier  *)
(* attempt never opens a session.                                          *)
AnsweredByPeer ==
  \A e \in established :
    e.role = "i" =>
      \E f \in air : /\ f.from = e.peer
                     /\ f.msg.kind = "accept"
                     /\ f.msg.tag.key = e.key
                     /\ f.msg.tag.transcript[1] = Hello(e.node, e.key.nonces[1])

(* Every session is wanted by both ends: whichever side derived it, its    *)
(* own `allow` accepted the peer's DID and the peer's `allow` accepted     *)
(* this one.  "A refused DID is Denied and no key material is derived", so *)
(* an initiator off the responder's roster is never answered, and a        *)
(* responder the initiator refuses is never confirmed.                     *)
RosterOnly ==
  \A e \in established : e.peer \in Allow[e.node] /\ e.node \in Allow[e.peer]

(* "An address the firmware named is never forgotten", however many        *)
(* handshakes with it fail.                                                *)
NamedPeerKept ==
  \A n \in Nodes : Named[n] # BROADCAST => link[n].peer = Named[n]

(* Where the peer's address is named or learned, an open session's frames  *)
(* go to its peer's own address and are taken from nowhere else, although  *)
(* a responder learns the address before anything is authenticated.        *)
SessionAddressesPeer ==
  \A n \in Nodes :
    (state[n].at = "session" /\ (n \in learners \/ Named[n] # BROADCAST))
      => link[n].peer = state[n].peer

(* What a session delivers is the peer's, once, and under numbers never    *)
(* used twice.                                                             *)
FramesGenuine == NoReplay /\ OnlyThePeersFrames /\ NoSeqReuse

(* The two ends agree on the session they hold, and the initiator's was    *)
(* answered by the peer it names.                                          *)
SessionsAgree == Agreement /\ AnsweredByPeer

(* A session's frames go to its peer, and a named address is kept. *)
AddressesKept == NamedPeerKept /\ SessionAddressesPeer
=============================================================================
