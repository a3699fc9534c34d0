---------------------------- MODULE Link_proofs ----------------------------
(***************************************************************************)
(* The authenticated link, for any number of nodes, any rosters, any       *)
(* addresses, any window and any sequence space: no frame is delivered     *)
(* twice, only the peer's frames are, no number seals twice, both ends     *)
(* agree on a session and want it, and its frames go to its peer.          *)
(***************************************************************************)
EXTENDS Link, ReplayWindow_proofs

-----------------------------------------------------------------------------
(* Types *)

(* A message's kind says which fields it has.                              *)
LEMMA MessageCases ==
  ASSUME NEW m \in Messages
  PROVE  /\ m.kind = "hello" => m \in Hellos
         /\ m.kind = "accept" => m.body \in Bodies /\ m.tag \in Tags
         /\ m.kind = "confirm" => m.tag \in Tags
         /\ m.kind = "data" => m.seq \in SeqNums /\ m.tag \in SealTags
  BY DEF Messages, Hellos

(* Where a node is says which fields its state has.                        *)
LEMMA StateCases ==
  ASSUME NEW s \in States
  PROVE  /\ s.at = "hello" => s.eph \in Ephs
         /\ s.at = "pending" => /\ s.key \in Keys /\ s.peer \in Nodes
                                /\ s.transcript \in Hellos \X Bodies
         /\ s.at = "session" => s \in [at : {"session"}, key : Keys, role : Roles, peer : Nodes,
                                       send_seq : SeqNums, exhausted : BOOLEAN, window : Windows]
  BY DEF States, NONE

(* A node below its bound draws an ephemeral key of its own.               *)
LEMMA FreshEph ==
  ASSUME TypeOK, NEW n \in Nodes, fresh[n] < MaxAttempts
  PROVE  /\ <<n, fresh[n]>> \in Ephs
         /\ [fresh EXCEPT ![n] = @ + 1] \in [Nodes -> 0 .. MaxAttempts]
  BY LinkAssumption DEF TypeOK, Ephs

(* derive's result is a key.                                               *)
LEMMA DeriveType ==
  ASSUME NEW i \in Nodes, NEW r \in Nodes, NEW ei \in Ephs, NEW er \in Ephs
  PROVE  Derive(i, r, ei, er) \in Keys
  BY DEF Derive, Keys

(* Learning and forgetting an address leave a link.                        *)
LEMMA LinkTypes ==
  ASSUME TypeOK, NEW n \in Nodes, NEW from \in Nodes
  PROVE  /\ link[n] \in [peer : Addresses, learned : BOOLEAN]
         /\ Forget(link[n]) \in [peer : Addresses, learned : BOOLEAN]
         /\ Boot(n) \in [peer : Addresses, learned : BOOLEAN]
         /\ LearnFrom(n, link[n], from) \in [peer : Addresses, learned : BOOLEAN]
         /\ Forget(LearnFrom(n, link[n], from)) \in [peer : Addresses, learned : BOOLEAN]
  BY LinkAssumption DEF TypeOK, Forget, Boot, LearnFrom, Addresses

(* A new session's window and number have their types.                     *)
LEMMA NewWindowType == NewWindow \in Windows /\ 0 \in SeqNums
  BY WindowAssumption, MaxSeqAssumption DEF NewWindow, Windows, SeqNums

(* Doing nothing is one of the states.                                     *)
LEMMA NoneType == NONE \in States
  BY DEF States

(* A failed handshake keeps the types.                                     *)
LEMMA FailType ==
  ASSUME TypeOK, NEW n \in Nodes, Fail(n)
  PROVE  /\ state' \in [Nodes -> States]
         /\ link' \in [Nodes -> [peer : Addresses, learned : BOOLEAN]]
  BY LinkTypes, NoneType DEF Fail, TypeOK

(* Sending a Hello keeps the types.                                        *)
LEMMA TypeInitiate ==
  ASSUME TypeOK, NEW n \in Nodes, Initiate(n), UNCHANGED learners
  PROVE  TypeOK'
  <1> DEFINE eph == <<n, fresh[n]>>
  <1>1. eph \in Ephs /\ fresh' \in [Nodes -> 0 .. MaxAttempts]
    BY FreshEph DEF Initiate
  <1>2. Datagram(n, link[n].peer, Hello(n, eph)) \in [from : Nodes, to : Addresses, msg : Messages]
    BY <1>1, LinkTypes DEF Datagram, Hello, Messages, Hellos
  <1>3. air' \subseteq [from : Nodes, to : Addresses, msg : Messages]
    BY <1>2 DEF Initiate, TypeOK
  <1>4. [at |-> "hello", eph |-> eph] \in States
    BY <1>1 DEF States
  <1>5. /\ state' \in [Nodes -> States]
        /\ link' \in [Nodes -> [peer : Addresses, learned : BOOLEAN]]
    BY <1>4, FailType DEF Initiate, TypeOK
  <1> QED BY <1>1, <1>3, <1>5 DEF TypeOK, Initiate, history

(* finish keeps the types.                                                 *)
LEMMA TypeFinish ==
  ASSUME TypeOK, NEW n \in Nodes, Finish(n), UNCHANGED learners
  PROVE  TypeOK'
  <1>1. PICK f \in Heard(n) :
          \/ ~AcceptVerifies(n, f.msg) /\ Fail(n) /\ UNCHANGED <<air, established>>
          \/ AcceptVerifies(n, f.msg) /\ Finished(n, f)
    BY DEF Finish
  <1>2. CASE ~AcceptVerifies(n, f.msg) /\ Fail(n) /\ UNCHANGED <<air, established>>
    BY <1>2, FailType DEF Finish, TypeOK
  <1>3. CASE AcceptVerifies(n, f.msg)
    <2> DEFINE key     == AcceptKey(n, f.msg)
               learnt  == LearnFrom(n, link[n], f.from)
               confirm == [kind |-> "confirm", tag |-> Tag(key, "confirm", Transcript(n, f.msg))]
    <2>1. f.msg \in Messages /\ f.msg.kind = "accept" /\ f.from \in Nodes
      BY <1>3 DEF Heard, TypeOK, AcceptVerifies
    <2>2. f.msg.body \in Bodies
      BY <2>1, MessageCases
    <2>3. state[n].eph \in Ephs
      BY StateCases DEF Finish, TypeOK
    <2>4. key \in Keys /\ f.msg.body.did \in Nodes
      BY <2>2, <2>3, DeriveType DEF AcceptKey, Bodies
    <2>5. Transcript(n, f.msg) \in Hellos \X Bodies
      BY <2>2, <2>3 DEF Transcript, Hello, Hellos
    <2>6. confirm \in Messages
      BY <2>4, <2>5 DEF Tag, Messages, Tags
    <2>7. learnt \in [peer : Addresses, learned : BOOLEAN]
          /\ Forget(learnt) \in [peer : Addresses, learned : BOOLEAN]
      BY <2>1, LinkTypes
    <2>8. Datagram(n, learnt.peer, confirm) \in [from : Nodes, to : Addresses, msg : Messages]
      BY <2>6, <2>7 DEF Datagram
    <2>9. OpenSession(key, "i", f.msg.body.did) \in States
      BY <2>4, NewWindowType DEF OpenSession, States, Roles
    <2>10. air' \subseteq [from : Nodes, to : Addresses, msg : Messages]
      BY <1>1, <1>3, <2>8 DEF TypeOK, Finished
    <2>11. established' \subseteq [node : Nodes, role : Roles, key : Keys, peer : Nodes]
      BY <1>1, <1>3, <2>4 DEF TypeOK, Roles, Finished
    <2>12. /\ state' \in [Nodes -> States]
           /\ link' \in [Nodes -> [peer : Addresses, learned : BOOLEAN]]
      BY <1>1, <1>3, <2>7, <2>9, NoneType DEF TypeOK, Finished
    <2> QED BY <2>10, <2>11, <2>12 DEF TypeOK, Finish
  <1> QED BY <1>1, <1>2, <1>3

(* respond keeps the types.                                                *)
LEMMA TypeRespond ==
  ASSUME TypeOK, NEW n \in Nodes, Respond(n), UNCHANGED learners
  PROVE  TypeOK'
  <1>1. PICK f \in Heard(n) :
          \/ ~Allowed(n, f.msg) /\ Fail(n) /\ UNCHANGED <<air, fresh>>
          \/ Allowed(n, f.msg) /\ Responded(n, f)
    BY DEF Respond
  <1>2. CASE ~Allowed(n, f.msg) /\ Fail(n) /\ UNCHANGED <<air, fresh>>
    BY <1>2, FailType DEF Respond, TypeOK, history
  <1>3. CASE Allowed(n, f.msg) /\ Responded(n, f)
    <2> DEFINE eph    == <<n, fresh[n]>>
               body   == AcceptBody(n, eph)
               key    == Derive(f.msg.did, n, f.msg.eph, eph)
               accept == [kind |-> "accept", body |-> body,
                          tag  |-> Tag(key, "accept", <<f.msg, body>>)]
               learnt == LearnFrom(n, link[n], f.from)
               pending == [at |-> "pending", key |-> key, peer |-> f.msg.did,
                           transcript |-> <<f.msg, body>>]
    <2>1. f.msg \in Messages /\ f.msg.kind = "hello" /\ f.from \in Nodes
      BY <1>3 DEF Heard, TypeOK, Allowed
    <2>2. f.msg \in Hellos /\ f.msg.did \in Nodes /\ f.msg.eph \in Ephs
      BY <2>1, MessageCases DEF Hellos
    <2>3. eph \in Ephs /\ [fresh EXCEPT ![n] = @ + 1] \in [Nodes -> 0 .. MaxAttempts]
      BY FreshEph DEF Respond
    <2>4. key \in Keys
      BY <2>2, <2>3, DeriveType
    <2>5. body \in Bodies
      BY <2>3 DEF AcceptBody, Bodies
    <2>6. <<f.msg, body>> \in Hellos \X Bodies
      BY <2>2, <2>5
    <2>7. accept \in Messages
      BY <2>4, <2>5, <2>6 DEF Tag, Messages, Tags
    <2>8. learnt \in [peer : Addresses, learned : BOOLEAN]
          /\ Forget(learnt) \in [peer : Addresses, learned : BOOLEAN]
      BY <2>1, LinkTypes
    <2>9. Datagram(n, learnt.peer, accept) \in [from : Nodes, to : Addresses, msg : Messages]
      BY <2>7, <2>8 DEF Datagram
    <2>10. pending \in States
      BY <2>2, <2>4, <2>6 DEF States
    <2>11. air' \subseteq [from : Nodes, to : Addresses, msg : Messages]
      BY <1>3, <2>9 DEF TypeOK, Responded
    <2>12. /\ state' \in [Nodes -> States]
           /\ link' \in [Nodes -> [peer : Addresses, learned : BOOLEAN]]
      BY <1>3, <2>8, <2>10, NoneType DEF TypeOK, Responded
    <2> QED BY <1>3, <2>3, <2>11, <2>12 DEF TypeOK, Respond, Responded, history
  <1> QED BY <1>1, <1>2, <1>3

(* confirm keeps the types.                                                *)
LEMMA TypeConfirm ==
  ASSUME TypeOK, NEW n \in Nodes, Confirm(n), UNCHANGED learners
  PROVE  TypeOK'
  <1>1. CASE Fail(n) /\ UNCHANGED established
    BY <1>1, FailType DEF Confirm, TypeOK
  <1>2. CASE Confirmed(n)
    <2>1. state[n].key \in Keys /\ state[n].peer \in Nodes
      BY StateCases DEF Confirm, TypeOK
    <2>2. OpenSession(state[n].key, "r", state[n].peer) \in States
      BY <2>1, NewWindowType DEF OpenSession, States, Roles
    <2>3. state' \in [Nodes -> States]
      BY <1>2, <2>2 DEF Confirmed, TypeOK
    <2>4. established' \subseteq [node : Nodes, role : Roles, key : Keys, peer : Nodes]
      BY <1>2, <2>1 DEF Confirmed, TypeOK, Roles
    <2> QED BY <1>2, <2>3, <2>4 DEF Confirm, Confirmed, TypeOK
  <1> QED BY <1>1, <1>2 DEF Confirm

(* The fields of an open session have their types.                         *)
LEMMA SessionFields ==
  ASSUME TypeOK, NEW n \in Nodes, state[n].at = "session"
  PROVE  /\ state[n].key \in Keys /\ state[n].role \in Roles /\ state[n].peer \in Nodes
         /\ state[n].send_seq \in SeqNums /\ state[n].exhausted \in BOOLEAN
         /\ state[n].window \in Windows
  BY StateCases DEF TypeOK

(* seal keeps the types.                                                   *)
LEMMA TypeSeal ==
  ASSUME TypeOK, NEW n \in Nodes, Seal(n), UNCHANGED learners
  PROVE  TypeOK'
  <1> DEFINE s == state[n]
  <1>1. s \in [at : {"session"}, key : Keys, role : Roles, peer : Nodes,
               send_seq : SeqNums, exhausted : BOOLEAN, window : Windows]
    BY StateCases DEF Seal, TypeOK
  <1>2. SessionId(s.key) \in Nat
    BY <1>1, LinkAssumption DEF SessionId, Keys, Ephs
  <1>3. Sealed(s) \in Messages
    BY <1>1, <1>2 DEF Sealed, Messages, SealTags
  <1>4. Datagram(n, link[n].peer, Sealed(s)) \in [from : Nodes, to : Addresses, msg : Messages]
    BY <1>3, LinkTypes DEF Datagram
  <1>5. NextSeq(s) \in States
    <2>1. CASE s.send_seq < MaxSeq
      <3>1. s.send_seq + 1 \in SeqNums
        BY <1>1, <2>1, MaxSeqAssumption DEF SeqNums
      <3> QED BY <1>1, <2>1, <3>1 DEF NextSeq, States
    <2>2. CASE ~(s.send_seq < MaxSeq)
      BY <1>1, <2>2 DEF NextSeq, States
    <2> QED BY <2>1, <2>2
  <1>6. air' \subseteq [from : Nodes, to : Addresses, msg : Messages]
    BY <1>4 DEF Seal, TypeOK
  <1>7. state' \in [Nodes -> States]
    BY <1>5 DEF Seal, TypeOK
  <1> QED BY <1>6, <1>7 DEF Seal, TypeOK

(* open keeps the types.                                                   *)
LEMMA TypeOpen ==
  ASSUME TypeOK, NEW n \in Nodes, Open(n), UNCHANGED learners
  PROVE  TypeOK'
  <1> DEFINE s == state[n]
  <1>1. s \in [at : {"session"}, key : Keys, role : Roles, peer : Nodes,
               send_seq : SeqNums, exhausted : BOOLEAN, window : Windows]
    BY StateCases DEF Open, TypeOK
  <1>2. PICK f \in Heard(n) :
          /\ f.msg.kind = "data"
          /\ state' = [state EXCEPT ![n].window = Accept(s.window, f.msg.seq).window]
          /\ delivered' = delivered \cup {[at |-> n, under |-> s.key, tag |-> f.msg.tag]}
          /\ replays' = replays \cup (delivered \cap {[at |-> n, under |-> s.key, tag |-> f.msg.tag]})
    BY DEF Open
  <1>3. f.msg.seq \in SeqNums /\ f.msg.tag \in SealTags
    BY <1>2, MessageCases DEF Heard, TypeOK
  <1>4. Accept(s.window, f.msg.seq).window \in Windows
    BY <1>1, <1>3, AcceptType
  <1>5. [s EXCEPT !.window = Accept(s.window, f.msg.seq).window] \in States
    BY <1>1, <1>4 DEF States
  <1>6. state' \in [Nodes -> States]
    BY <1>2, <1>5 DEF TypeOK
  <1>7. delivered' \subseteq [at : Nodes, under : Keys, tag : SealTags] /\ replays' \subseteq delivered'
    BY <1>1, <1>2, <1>3 DEF TypeOK
  <1> QED BY <1>6, <1>7 DEF Open, TypeOK

(* The air, the links, the handshakes and the sessions keep their types.   *)
THEOREM TypeCorrect == Spec => []TypeOK
  <1>1. Init => TypeOK
    <2> SUFFICES ASSUME Init PROVE TypeOK
      OBVIOUS
    <2>1. link \in [Nodes -> [peer : Addresses, learned : BOOLEAN]]
      BY LinkAssumption DEF Init, Boot, Addresses
    <2>2. fresh \in [Nodes -> 0 .. MaxAttempts]
      BY LinkAssumption DEF Init
    <2> QED BY <2>1, <2>2, NoneType DEF Init, TypeOK
  <1>2. TypeOK /\ [Next]_vars => TypeOK'
    <2> SUFFICES ASSUME TypeOK, [Next]_vars PROVE TypeOK'
      OBVIOUS
    <2>1. ASSUME NEW n \in Nodes, Step(n), UNCHANGED learners PROVE TypeOK'
      <3>1. CASE Timeout(n)
        BY <3>1, <2>1, FailType DEF Timeout, TypeOK, history
      <3>2. CASE EndSession(n)
        BY <3>2, <2>1, NoneType DEF EndSession, TypeOK, history
      <3>3. CASE Restart(n)
        BY <3>3, <2>1, NoneType, LinkTypes DEF Restart, TypeOK, history
      <3> QED
        BY <2>1, <3>1, <3>2, <3>3, TypeInitiate, TypeFinish, TypeRespond, TypeConfirm, TypeSeal,
           TypeOpen DEF Step
    <2>2. CASE UNCHANGED vars
      BY <2>2 DEF vars, TypeOK
    <2> QED BY <2>1, <2>2 DEF Next
  <1> QED BY <1>1, <1>2, PTL DEF Spec

-----------------------------------------------------------------------------
(* The inductive invariant *)

(* An ephemeral key someone has drawn, and so will not draw again. *)
Drawn(n, eph) == n \in Nodes /\ eph[1] = n /\ eph[2] < fresh[n]

(* Hellos and Accept bodies say who made them. *)
HelloGenuine(h) == h.did \in Initiators /\ Drawn(h.did, h.eph)
BodyGenuine(body) == body.did \in Responders /\ Drawn(body.did, body.eph)

KeyOf(t) == Derive(t[1].did, t[2].did, t[1].eph, t[2].eph)

Opened(n, role, key, peer) == [node |-> n, role |-> role, key |-> key, peer |-> peer]

(* Every message on the air was made as the code makes it: a Hello and an  *)
(* Accept by the node they name, an Accept only for a Hello of a node on   *)
(* the roster, a Confirm by an initiator that opened the session, a sealed *)
(* frame under the key of a session that was opened.                       *)
HelloSent(f) == f.msg.did = f.from /\ HelloGenuine(f.msg)

AcceptSent(f) ==
  /\ f.msg.body.did = f.from
  /\ BodyGenuine(f.msg.body)
  /\ f.msg.tag.transcript[2] = f.msg.body
  /\ HelloGenuine(f.msg.tag.transcript[1])
  /\ f.msg.tag.transcript[1].did \in Allow[f.from]
  /\ f.msg.tag.key = KeyOf(f.msg.tag.transcript)

ConfirmSent(f) ==
  /\ f.msg.tag.transcript[1].did = f.from
  /\ f.msg.tag.key = KeyOf(f.msg.tag.transcript)
  /\ Opened(f.from, "i", f.msg.tag.key, f.msg.tag.transcript[2].did) \in established

DataSent(f) ==
  /\ f.msg.tag.seq = f.msg.seq
  /\ \E e \in established : e.role = f.msg.tag.dir /\ e.key = f.msg.tag.key

AirGenuine ==
  \A f \in air :
    /\ f.msg.kind = "hello" => HelloSent(f)
    /\ f.msg.kind = "accept" => AcceptSent(f)
    /\ f.msg.kind = "confirm" => ConfirmSent(f)
    /\ f.msg.kind = "data" => DataSent(f)

(* The two ends of a session can be read off its key. *)
EndsOf(e) ==
  LET i == e.key.nonces[1]
      r == e.key.nonces[2]
  IN  /\ i[1] \in Initiators /\ Drawn(i[1], i)
      /\ r[1] \in Responders /\ Drawn(r[1], r)
      /\ e.role = "i" => e.node = i[1] /\ e.peer = r[1]
      /\ e.role = "r" => e.node = r[1] /\ e.peer = i[1]

EndsNamed == \A e \in established : EndsOf(e)

(* A handshake under way has an ephemeral key of its own, which no session *)
(* that was opened used.                                                   *)
Waiting(n) ==
  /\ n \in Initiators
  /\ Drawn(n, state[n].eph)
  /\ \A e \in established : e.role = "i" => e.key.nonces[1] # state[n].eph

Answered(n) ==
  LET t == state[n].transcript
  IN  /\ n \in Responders
      /\ t[2].did = n /\ BodyGenuine(t[2])
      /\ t[1].did = state[n].peer /\ HelloGenuine(t[1])
      /\ t[1].did \in Allow[n]
      /\ state[n].key = KeyOf(t)
      /\ \A e \in established : e.role = "r" => e.key.nonces[2] # t[2].eph

HandshakesFresh ==
  \A n \in Nodes :
    /\ state[n].at = "hello" => Waiting(n)
    /\ state[n].at = "pending" => Answered(n)
    /\ state[n].at = "session" =>
         Opened(n, state[n].role, state[n].key, state[n].peer) \in established

(* The frames of an open session's own direction carry lower numbers than  *)
(* the next.                                                               *)
NumbersBelow ==
  \A n \in Nodes : \A f \in air :
    /\ state[n].at = "session"
    /\ f.msg.kind = "data"
    /\ f.msg.tag.key = state[n].key
    /\ f.msg.tag.dir = state[n].role
    => state[n].exhausted \/ f.msg.seq < state[n].send_seq

(* What an open session has delivered its window refuses. *)
WindowRemembers ==
  \A n \in Nodes : \A d \in delivered :
    /\ state[n].at = "session"
    /\ d.at = n
    /\ d.under = state[n].key
    => ~Accept(state[n].window, d.tag.seq).ok

(* What was delivered was delivered in a session. *)
DeliveredInSession ==
  \A d \in delivered :
    \E e \in established : e.node = d.at /\ e.key = d.under /\ e.role = Other(d.tag.dir)

(* A link's address is the named one, or was learned where none was named, *)
(* and then belongs to the peer of the handshake or session under way.     *)
LinksKept ==
  \A n \in Nodes :
    /\ link[n].learned => Named[n] = BROADCAST
    /\ ~link[n].learned => link[n].peer = Named[n]
    /\ (state[n].at \in {"pending", "session"} /\ (n \in learners \/ Named[n] # BROADCAST))
         => link[n].peer = state[n].peer

IInv ==
  /\ TypeOK
  /\ AirGenuine /\ EndsNamed /\ HandshakesFresh
  /\ NumbersBelow /\ WindowRemembers /\ DeliveredInSession /\ LinksKept
  /\ FramesGenuine /\ SessionsAgree /\ RosterOnly

-----------------------------------------------------------------------------
(* Steps that give up what is under way *)

(* A link address that is the named one, or learned where none was named. *)
Kept(n, l) ==
  /\ l.learned => Named[n] = BROADCAST
  /\ ~l.learned => l.peer = Named[n]

(* Learning, forgetting and booting keep a named address.                  *)
LEMMA LinksForget ==
  ASSUME IInv, NEW n \in Nodes, NEW from \in Nodes
  PROVE  /\ Kept(n, link[n]) /\ Kept(n, Forget(link[n])) /\ Kept(n, Boot(n))
         /\ Kept(n, LearnFrom(n, link[n], from)) /\ Kept(n, Forget(LearnFrom(n, link[n], from)))
  <1>1. Kept(n, link[n]) /\ link[n] \in [peer : Addresses, learned : BOOLEAN]
    BY DEF IInv, LinksKept, Kept, TypeOK
  <1> QED BY <1>1 DEF Kept, Forget, Boot, LearnFrom

(* Giving up: the node's state is dropped and its link kept or forgotten.  *)
LEMMA GiveUp ==
  ASSUME IInv, TypeOK', NEW n \in Nodes, NEW l, Kept(n, l),
         UNCHANGED <<air, fresh, history, learners>>,
         state' = [state EXCEPT ![n] = NONE],
         link' = [link EXCEPT ![n] = l]
  PROVE  IInv'
  <1>1. /\ state'[n].at = "none"
        /\ \A m \in Nodes \ {n} : state'[m] = state[m] /\ link'[m] = link[m]
        /\ link'[n] = l
    BY DEF IInv, TypeOK, NONE
  <1>2. UNCHANGED <<air, fresh, learners, delivered, replays, reused, established>>
    BY DEF history
  <1>3. AirGenuine' /\ EndsNamed' /\ DeliveredInSession'
    BY <1>2 DEF IInv, AirGenuine, EndsNamed, DeliveredInSession, HelloSent, AcceptSent, ConfirmSent,
       DataSent, HelloGenuine, BodyGenuine, Drawn, EndsOf
  <1>4. HandshakesFresh'
    BY <1>1, <1>2 DEF IInv, HandshakesFresh, Waiting, Answered, HelloGenuine, BodyGenuine, Drawn
  <1>5. NumbersBelow' /\ WindowRemembers'
    BY <1>1, <1>2 DEF IInv, NumbersBelow, WindowRemembers
  <1>6. LinksKept'
    BY <1>1, <1>2 DEF IInv, LinksKept, Kept
  <1>7. FramesGenuine' /\ SessionsAgree' /\ RosterOnly'
    BY <1>2 DEF IInv, FramesGenuine, NoReplay, OnlyThePeersFrames, NoSeqReuse, SessionsAgree,
       Agreement, AnsweredByPeer, RosterOnly
  <1> QED BY <1>3, <1>4, <1>5, <1>6, <1>7 DEF IInv

(* A failed handshake keeps the invariant.                                 *)
LEMMA FailGivesUp ==
  ASSUME IInv, TypeOK', NEW n \in Nodes, Fail(n), UNCHANGED <<air, fresh, history, learners>>
  PROVE  IInv'
  BY LinksForget, GiveUp DEF Fail

-----------------------------------------------------------------------------
(* Steps that add to what was sent and opened *)

(* Keys drawn stay drawn, and what was genuine stays so. *)
LEMMA DrawnStays ==
  ASSUME TypeOK, TypeOK', \A m \in Nodes : fresh[m] <= fresh'[m]
  PROVE  /\ \A m, eph : eph \in Ephs /\ Drawn(m, eph) => Drawn(m, eph)'
         /\ \A h \in Hellos : HelloGenuine(h) => HelloGenuine(h)'
         /\ \A body \in Bodies : BodyGenuine(body) => BodyGenuine(body)'
  <1>1. ASSUME NEW m, NEW eph \in Ephs, Drawn(m, eph) PROVE Drawn(m, eph)'
    <2>1. m \in Nodes /\ eph[2] \in Int /\ fresh[m] \in Int /\ fresh'[m] \in Int
      BY <1>1, LinkAssumption DEF Drawn, Ephs, TypeOK
    <2> QED BY <1>1, <2>1 DEF Drawn
  <1>2. ASSUME NEW h \in Hellos, HelloGenuine(h) PROVE HelloGenuine(h)'
    BY <1>1, <1>2 DEF Hellos, HelloGenuine
  <1>3. ASSUME NEW body \in Bodies, BodyGenuine(body) PROVE BodyGenuine(body)'
    BY <1>1, <1>3 DEF Bodies, BodyGenuine
  <1> QED BY <1>1, <1>2, <1>3

Genuine(f) ==
  /\ f.msg.kind = "hello" => HelloSent(f)
  /\ f.msg.kind = "accept" => AcceptSent(f)
  /\ f.msg.kind = "confirm" => ConfirmSent(f)
  /\ f.msg.kind = "data" => DataSent(f)

(* What was sent stays sent: a genuine message stays genuine.              *)
LEMMA GenuineStays ==
  ASSUME IInv, TypeOK', \A m \in Nodes : fresh[m] <= fresh'[m],
         established \subseteq established', NEW f \in air
  PROVE  Genuine(f)'
  <1>1. Genuine(f) /\ f.msg \in Messages
    BY DEF IInv, AirGenuine, Genuine, TypeOK
  <1>2. CASE f.msg.kind = "hello"
    <2>1. f.msg \in Hellos
      BY <1>1, <1>2, MessageCases
    <2> QED BY <1>1, <1>2, <2>1, DrawnStays DEF Genuine, HelloSent, IInv
  <1>3. CASE f.msg.kind = "accept"
    <2>1. f.msg.body \in Bodies /\ f.msg.tag.transcript[1] \in Hellos
      BY <1>1, <1>3, MessageCases DEF Tags
    <2> QED BY <1>1, <1>3, <2>1, DrawnStays DEF Genuine, AcceptSent, IInv
  <1>4. CASE f.msg.kind = "confirm"
    BY <1>1, <1>4 DEF Genuine, ConfirmSent
  <1>5. CASE f.msg.kind = "data"
    BY <1>1, <1>5 DEF Genuine, DataSent
  <1> QED BY <1>2, <1>3, <1>4, <1>5 DEF Genuine

(* More on the air, more keys drawn: what is there stays genuine.          *)
LEMMA AirStays ==
  ASSUME IInv, TypeOK', \A m \in Nodes : fresh[m] <= fresh'[m],
         established \subseteq established', NEW g, air' = air \cup {g}, Genuine(g)'
  PROVE  AirGenuine'
  BY GenuineStays DEF AirGenuine, Genuine

(* The ends of a session opened before stay the nodes that drew its keys.  *)
LEMMA EndsStay ==
  ASSUME IInv, TypeOK', \A m \in Nodes : fresh[m] <= fresh'[m], NEW e \in established
  PROVE  EndsOf(e)'
  <1>1. EndsOf(e) /\ e.key.nonces[1] \in Ephs /\ e.key.nonces[2] \in Ephs
    BY DEF IInv, EndsNamed, TypeOK, Keys
  <1> QED BY <1>1, DrawnStays DEF EndsOf, IInv

(* A node that does nothing keeps its handshake's freshness, as long as    *)
(* what is opened meanwhile is another node's.                             *)
LEMMA OthersStay ==
  ASSUME IInv, TypeOK', \A m \in Nodes : fresh[m] <= fresh'[m],
         established \subseteq established',
         NEW m \in Nodes, state'[m] = state[m],
         \A e \in established' \ established : EndsOf(e)' /\ e.node # m
  PROVE  /\ state'[m].at = "hello" => Waiting(m)'
         /\ state'[m].at = "pending" => Answered(m)'
         /\ state'[m].at = "session" =>
              Opened(m, state'[m].role, state'[m].key, state'[m].peer) \in established'
  <1>1. CASE state[m].at = "hello"
    <2>1. Waiting(m) /\ state[m].eph \in Ephs
      BY <1>1, StateCases DEF IInv, HandshakesFresh, TypeOK
    <2>2. Drawn(m, state[m].eph)'
      BY <2>1, DrawnStays DEF Waiting, IInv
    <2>3. \A e \in established' : e.role = "i" => e.key.nonces[1] # state[m].eph
      BY <2>1 DEF Waiting, EndsOf, Drawn
    <2> QED BY <1>1, <2>1, <2>2, <2>3 DEF Waiting
  <1>2. CASE state[m].at = "pending"
    <2>1. Answered(m) /\ state[m].transcript[1] \in Hellos /\ state[m].transcript[2] \in Bodies
      BY <1>2, StateCases DEF IInv, HandshakesFresh, TypeOK
    <2>2. HelloGenuine(state[m].transcript[1])' /\ BodyGenuine(state[m].transcript[2])'
      BY <2>1, DrawnStays DEF Answered, IInv
    <2>3. \A e \in established' : e.role = "r" => e.key.nonces[2] # state[m].transcript[2].eph
      BY <2>1 DEF Answered, EndsOf, Drawn, BodyGenuine
    <2> QED BY <1>2, <2>1, <2>2, <2>3 DEF Answered
  <1>3. CASE state[m].at = "session"
    BY <1>3 DEF IInv, HandshakesFresh
  <1> QED BY <1>1, <1>2, <1>3

(* Sending a Hello keeps the invariant.                                    *)
LEMMA InvInitiate ==
  ASSUME IInv, TypeOK', NEW n \in Nodes, Initiate(n), UNCHANGED learners
  PROVE  IInv'
  <1>a. PICK eph : eph = <<n, fresh[n]>>
    OBVIOUS
  <1>b. PICK g : g = Datagram(n, link[n].peer, Hello(n, eph))
    OBVIOUS
  <1>1. /\ n \in Initiators /\ air' = air \cup {g}
        /\ fresh' = [fresh EXCEPT ![n] = @ + 1]
        /\ UNCHANGED <<delivered, replays, reused, established, learners>>
    BY <1>a, <1>b DEF Initiate, history
  <1>2. /\ \A m \in Nodes : fresh[m] <= fresh'[m] /\ fresh[m] \in Int
        /\ fresh[n] < fresh'[n]
    BY <1>1, LinkAssumption DEF IInv, TypeOK
  <1>3. /\ \A m \in Nodes \ {n} : state'[m] = state[m] /\ link'[m] = link[m]
        /\ Kept(n, link'[n])
        /\ state'[n] = [at |-> "hello", eph |-> eph] \/ state'[n] = NONE
    BY <1>a, LinksForget DEF Initiate, Fail, IInv, TypeOK
  <1>4. g.msg.kind = "hello" /\ Genuine(g)'
    BY <1>a, <1>b, <1>1, <1>2 DEF Genuine, HelloSent, HelloGenuine, Drawn, Datagram, Hello
  <1>5. AirGenuine'
    BY <1>1, <1>2, <1>4, AirStays
  <1>6. EndsNamed' /\ DeliveredInSession'
    BY <1>1, <1>2, EndsStay DEF EndsNamed, DeliveredInSession, IInv
  <1>7. HandshakesFresh'
    <2>1. CASE state'[n].at = "hello"
      <3>1. \A e \in established : e.key.nonces[1] # eph
        BY <1>a, <1>2 DEF IInv, EndsNamed, EndsOf, Drawn
      <3>2. Waiting(n)'
        BY <1>a, <1>1, <1>2, <1>3, <2>1, <3>1 DEF Waiting, Drawn, NONE
      <3> QED BY <1>1, <1>2, <1>3, <2>1, <3>2, OthersStay DEF HandshakesFresh
    <2>2. CASE state'[n].at # "hello"
      BY <1>1, <1>2, <1>3, <2>2, OthersStay DEF HandshakesFresh, NONE
    <2> QED BY <2>1, <2>2
  <1>8. NumbersBelow' /\ WindowRemembers'
    BY <1>1, <1>3, <1>4 DEF IInv, NumbersBelow, WindowRemembers, NONE
  <1>9. LinksKept'
    BY <1>1, <1>3 DEF IInv, LinksKept, Kept, NONE
  <1>10. FramesGenuine' /\ SessionsAgree' /\ RosterOnly'
    BY <1>1 DEF IInv, FramesGenuine, NoReplay, OnlyThePeersFrames, NoSeqReuse, SessionsAgree,
       Agreement, AnsweredByPeer, RosterOnly
  <1> QED BY <1>5, <1>6, <1>7, <1>8, <1>9, <1>10 DEF IInv

(* Under a key that opened no session yet, nothing was sealed in this      *)
(* direction and nothing was delivered at this end.                        *)
LEMMA UnusedKey ==
  ASSUME IInv, NEW n \in Nodes, NEW key, NEW role \in Roles,
         role = "i" => n \in Initiators, role = "r" => n \in Responders,
         \A e \in established : ~(e.role = role /\ e.key = key)
  PROVE  /\ \A f \in air : ~(f.msg.kind = "data" /\ f.msg.tag.key = key /\ f.msg.tag.dir = role)
         /\ \A d \in delivered : ~(d.at = n /\ d.under = key)
  <1>1. \A f \in air : ~(f.msg.kind = "data" /\ f.msg.tag.key = key /\ f.msg.tag.dir = role)
    BY DEF IInv, AirGenuine, DataSent
  <1>2. ASSUME NEW d \in delivered, d.at = n, d.under = key PROVE FALSE
    <2>1. PICK e \in established : e.node = n /\ e.key = key
      BY <1>2 DEF IInv, DeliveredInSession
    <2>2. e.role \in Roles /\ EndsOf(e)
      BY DEF IInv, TypeOK, EndsNamed
    <2>3. e.role = "i" => n \in Initiators
      BY <2>1, <2>2 DEF EndsOf
    <2>4. e.role = "r" => n \in Responders
      BY <2>1, <2>2 DEF EndsOf
    <2>5. e.role = role
      BY <2>2, <2>3, <2>4, LinkAssumption DEF Roles
    <2> QED BY <2>1, <2>5
  <1> QED BY <1>1, <1>2

(* Where an address is named or learned, the link goes to whoever sent the *)
(* handshake message.                                                      *)
LEMMA LearnsTheSender ==
  ASSUME IInv, NEW n \in Nodes, NEW f \in Heard(n), n \in learners \/ Named[n] # BROADCAST
  PROVE  LearnFrom(n, link[n], f.from).peer = f.from
  <1>1. link[n].peer \in {BROADCAST, f.from} /\ link[n] \in [peer : Addresses, learned : BOOLEAN]
    BY DEF Heard, IInv, TypeOK
  <1>2. Kept(n, link[n])
    BY DEF IInv, LinksKept, Kept
  <1> QED BY <1>1, <1>2 DEF LearnFrom, Kept

(* The right Accept keeps it: nobody else can have made its tag.           *)
LEMMA InvFinished ==
  ASSUME IInv, TypeOK', NEW n \in Nodes, Finish(n), UNCHANGED learners,
         NEW f \in Heard(n), AcceptVerifies(n, f.msg), Finished(n, f)
  PROVE  IInv'
  <1>a. PICK eph, body, key, learnt :
          /\ eph = state[n].eph /\ body = f.msg.body /\ key = AcceptKey(n, f.msg)
          /\ learnt = LearnFrom(n, link[n], f.from)
    OBVIOUS
  <1>b. PICK t : t = <<Hello(n, eph), body>>
    OBVIOUS
  <1>c. PICK g : g = Datagram(n, learnt.peer, [kind |-> "confirm", tag |-> Tag(key, "confirm", t)])
    OBVIOUS
  <1>d. PICK e : e = Opened(n, "i", key, body.did)
    OBVIOUS
  <1>1. /\ n \in Initiators /\ state[n].at = "hello"
        /\ air' = air \cup {g} /\ established' = established \cup {e}
        /\ UNCHANGED <<fresh, delivered, replays, reused, learners>>
    BY <1>a, <1>b, <1>c, <1>d DEF Finish, Finished, Opened, Transcript
  <1>2. /\ \A m \in Nodes : fresh[m] <= fresh'[m]
        /\ established \subseteq established' /\ air \subseteq air'
    BY <1>1, LinkAssumption DEF IInv, TypeOK
  <1>3. /\ \A m \in Nodes \ {n} : state'[m] = state[m] /\ link'[m] = link[m]
        /\ \/ state'[n] = OpenSession(key, "i", body.did) /\ link'[n] = learnt
           \/ state'[n] = NONE /\ link'[n] = Forget(learnt)
    BY <1>a DEF Finished, IInv, TypeOK
  <1>4. /\ f \in air /\ f.from \in Nodes /\ f.msg \in Messages /\ f.msg.kind = "accept"
        /\ AcceptSent(f)
    BY DEF Heard, AcceptVerifies, IInv, TypeOK, AirGenuine
  <1>5. /\ f.msg.tag.transcript = t
        /\ f.msg.tag.key = key /\ body.did \in Allow[n]
    BY <1>a, <1>b DEF AcceptVerifies, Tag, Transcript
  <1>6. /\ body.did = f.from /\ BodyGenuine(body) /\ n \in Allow[f.from]
    BY <1>a, <1>b, <1>4, <1>5 DEF AcceptSent, Hello
  <1>7. Waiting(n) /\ eph \in Ephs /\ body \in Bodies
    BY <1>a, <1>1, <1>4, StateCases, MessageCases DEF IInv, HandshakesFresh, TypeOK
  <1>8. key = [dids |-> {n, body.did}, nonces |-> <<eph, body.eph>>]
    BY <1>a DEF AcceptKey, Derive
  <1>9. EndsOf(e)' /\ e.role = "i" /\ e.key = key /\ e.node = n /\ e.peer = f.from
    BY <1>a, <1>d, <1>1, <1>6, <1>7, <1>8 DEF EndsOf, Opened, Waiting, BodyGenuine, Drawn
  <1>10. g.msg.kind = "confirm" /\ Genuine(g)'
    BY <1>b, <1>c, <1>d, <1>1, <1>8 DEF Genuine, ConfirmSent, Datagram, Tag, KeyOf, Hello, Derive
  <1>11. AirGenuine'
    BY <1>1, <1>2, <1>10, AirStays
  <1>12. EndsNamed'
    BY <1>1, <1>2, <1>9, EndsStay DEF EndsNamed
  <1>13. DeliveredInSession'
    BY <1>1, <1>2 DEF DeliveredInSession, IInv
  <1>14. HandshakesFresh'
    <2>1. ASSUME NEW m \in Nodes, m # n
          PROVE  /\ state'[m].at = "hello" => Waiting(m)'
                 /\ state'[m].at = "pending" => Answered(m)'
                 /\ state'[m].at = "session" =>
                      Opened(m, state'[m].role, state'[m].key, state'[m].peer) \in established'
      BY <1>1, <1>2, <1>3, <1>9, <2>1, OthersStay
    <2>2. state'[n].at \in {"session", "none"}
          /\ (state'[n].at = "session" =>
                Opened(n, state'[n].role, state'[n].key, state'[n].peer) \in established')
      BY <1>d, <1>1, <1>3 DEF OpenSession, NONE
    <2> QED BY <2>1, <2>2 DEF HandshakesFresh
  <1>15. \A x \in established : ~(x.role = "i" /\ x.key = key)
    BY <1>a, <1>7, <1>8 DEF Waiting
  <1>16. /\ \A h \in air : ~(h.msg.kind = "data" /\ h.msg.tag.key = key /\ h.msg.tag.dir = "i")
         /\ \A d \in delivered : ~(d.at = n /\ d.under = key)
    BY <1>1, <1>15, UnusedKey DEF Roles
  <1>17. NumbersBelow' /\ WindowRemembers'
    BY <1>1, <1>3, <1>10, <1>16 DEF IInv, NumbersBelow, WindowRemembers, OpenSession, NONE
  <1>18. LinksKept'
    <2>1. Kept(n, learnt) /\ Kept(n, Forget(learnt))
      BY <1>a, <1>4, LinksForget
    <2>2. (n \in learners \/ Named[n] # BROADCAST) => learnt.peer = body.did
      BY <1>a, <1>6, LearnsTheSender
    <2> QED BY <1>1, <1>3, <2>1, <2>2 DEF IInv, LinksKept, Kept, OpenSession, NONE
  <1>19. FramesGenuine'
    BY <1>1, <1>2 DEF IInv, FramesGenuine, NoReplay, OnlyThePeersFrames, NoSeqReuse
  <1>20. Agreement'
    BY <1>1, <1>9 DEF IInv, SessionsAgree, Agreement
  <1>21. AnsweredByPeer'
    <2>1. f.msg.tag.transcript[1] = Hello(e.node, e.key.nonces[1])
      BY <1>b, <1>5, <1>8, <1>9
    <2> QED BY <1>1, <1>2, <1>4, <1>5, <1>9, <2>1 DEF IInv, SessionsAgree, AnsweredByPeer
  <1>22. RosterOnly'
    BY <1>1, <1>5, <1>6, <1>9 DEF IInv, RosterOnly
  <1> QED BY <1>11, <1>12, <1>13, <1>14, <1>17, <1>18, <1>19, <1>20, <1>21, <1>22
          DEF IInv, SessionsAgree

(* finish keeps it.                                                        *)
LEMMA InvFinish ==
  ASSUME IInv, TypeOK', NEW n \in Nodes, Finish(n), UNCHANGED learners
  PROVE  IInv'
  <1>1. PICK f \in Heard(n) :
          \/ ~AcceptVerifies(n, f.msg) /\ Fail(n) /\ UNCHANGED <<air, established>>
          \/ AcceptVerifies(n, f.msg) /\ Finished(n, f)
    BY DEF Finish
  <1>2. CASE Fail(n) /\ UNCHANGED <<air, established>>
    BY <1>2, FailGivesUp DEF Finish, history
  <1> QED BY <1>1, <1>2, InvFinished

(* An allowed Hello keeps it.                                              *)
LEMMA InvResponded ==
  ASSUME IInv, TypeOK', NEW n \in Nodes, Respond(n), UNCHANGED learners,
         NEW f \in Heard(n), Allowed(n, f.msg), Responded(n, f)
  PROVE  IInv'
  <1>a. PICK eph, learnt : eph = <<n, fresh[n]>> /\ learnt = LearnFrom(n, link[n], f.from)
    OBVIOUS
  <1>b. PICK t : t = <<f.msg, AcceptBody(n, eph)>>
    OBVIOUS
  <1>c. PICK g : g = Datagram(n, learnt.peer, [kind |-> "accept", body |-> t[2],
                                               tag  |-> Tag(KeyOf(t), "accept", t)])
    OBVIOUS
  <1>d. PICK p : p = [at |-> "pending", key |-> KeyOf(t), peer |-> f.msg.did, transcript |-> t]
    OBVIOUS
  <1>1. /\ n \in Responders /\ air' = air \cup {g}
        /\ fresh' = [fresh EXCEPT ![n] = @ + 1]
        /\ UNCHANGED <<delivered, replays, reused, established, learners>>
    BY <1>a, <1>b, <1>c DEF Respond, Responded, history, KeyOf, AcceptBody
  <1>2. /\ \A m \in Nodes : fresh[m] <= fresh'[m] /\ fresh[m] \in Int
        /\ fresh[n] < fresh'[n]
    BY <1>1, LinkAssumption DEF IInv, TypeOK
  <1>3. /\ \A m \in Nodes \ {n} : state'[m] = state[m] /\ link'[m] = link[m]
        /\ \/ state'[n] = p /\ link'[n] = learnt
           \/ state'[n] = NONE /\ link'[n] = Forget(learnt)
    BY <1>a, <1>b, <1>d DEF Responded, IInv, TypeOK, KeyOf, AcceptBody
  <1>4. /\ f \in air /\ f.from \in Nodes /\ f.msg \in Hellos
        /\ f.msg.did = f.from /\ HelloGenuine(f.msg) /\ f.from \in Allow[n]
    BY MessageCases DEF Heard, Allowed, IInv, TypeOK, AirGenuine, HelloSent
  <1>5. /\ HelloGenuine(t[1])' /\ BodyGenuine(t[2])'
        /\ t[1].did = f.from /\ t[2].did = n /\ t[2].eph = eph
    BY <1>a, <1>b, <1>1, <1>2, <1>4, DrawnStays DEF IInv, AcceptBody, BodyGenuine, Drawn
  <1>6. g.msg.kind = "accept" /\ Genuine(g)'
    <2>1. g.from = n /\ g.msg.body = t[2] /\ g.msg.tag.transcript = t /\ g.msg.tag.key = KeyOf(t)
          /\ g.msg.kind = "accept"
      BY <1>c DEF Datagram, Tag
    <2> QED BY <1>4, <1>5, <2>1 DEF Genuine, AcceptSent
  <1>7. AirGenuine'
    BY <1>1, <1>2, <1>6, AirStays
  <1>8. EndsNamed' /\ DeliveredInSession'
    BY <1>1, <1>2, EndsStay DEF EndsNamed, DeliveredInSession, IInv
  <1>9. HandshakesFresh'
    <2>1. ASSUME NEW m \in Nodes, m # n
          PROVE  /\ state'[m].at = "hello" => Waiting(m)'
                 /\ state'[m].at = "pending" => Answered(m)'
                 /\ state'[m].at = "session" =>
                      Opened(m, state'[m].role, state'[m].key, state'[m].peer) \in established'
      BY <1>1, <1>2, <1>3, <2>1, OthersStay
    <2>2. \A e \in established : e.key.nonces[2] # eph
      BY <1>a, <1>2 DEF IInv, EndsNamed, EndsOf, Drawn
    <2>3. state'[n] = p => Answered(n)'
      BY <1>d, <1>1, <1>4, <1>5, <2>2 DEF Answered
    <2>4. state'[n].at \in {"pending", "none"}
      BY <1>3, <1>d DEF NONE
    <2> QED BY <1>3, <2>1, <2>3, <2>4 DEF HandshakesFresh, NONE
  <1>10. NumbersBelow' /\ WindowRemembers'
    BY <1>d, <1>1, <1>3, <1>6 DEF IInv, NumbersBelow, WindowRemembers, NONE
  <1>11. LinksKept'
    <2>1. Kept(n, learnt) /\ Kept(n, Forget(learnt))
      BY <1>a, <1>4, LinksForget
    <2>2. (n \in learners \/ Named[n] # BROADCAST) => learnt.peer = f.msg.did
      BY <1>a, <1>4, LearnsTheSender
    <2> QED BY <1>d, <1>1, <1>3, <2>1, <2>2 DEF IInv, LinksKept, Kept, NONE
  <1>12. FramesGenuine' /\ SessionsAgree' /\ RosterOnly'
    BY <1>1 DEF IInv, FramesGenuine, NoReplay, OnlyThePeersFrames, NoSeqReuse, SessionsAgree,
       Agreement, AnsweredByPeer, RosterOnly
  <1> QED BY <1>7, <1>8, <1>9, <1>10, <1>11, <1>12 DEF IInv

(* respond keeps it.                                                       *)
LEMMA InvRespond ==
  ASSUME IInv, TypeOK', NEW n \in Nodes, Respond(n), UNCHANGED learners
  PROVE  IInv'
  <1>1. PICK f \in Heard(n) :
          \/ ~Allowed(n, f.msg) /\ Fail(n) /\ UNCHANGED <<air, fresh>>
          \/ Allowed(n, f.msg) /\ Responded(n, f)
    BY DEF Respond
  <1>2. CASE Fail(n) /\ UNCHANGED <<air, fresh>>
    BY <1>2, FailGivesUp DEF Respond, history
  <1> QED BY <1>1, <1>2, InvResponded

(* The right Confirm keeps it: the initiator holds the same keys.          *)
LEMMA InvConfirmed ==
  ASSUME IInv, TypeOK', NEW n \in Nodes, Confirm(n), UNCHANGED learners,
         NEW f \in Heard(n), ConfirmVerifies(state[n], f.msg), Confirmed(n)
  PROVE  IInv'
  <1>a. PICK p : p = state[n]
    OBVIOUS
  <1>d. PICK e : e = Opened(n, "r", p.key, p.peer)
    OBVIOUS
  <1>1. /\ n \in Responders /\ p.at = "pending"
        /\ established' = established \cup {e}
        /\ UNCHANGED <<air, fresh, link, delivered, replays, reused, learners>>
    BY <1>a, <1>d DEF Confirm, Confirmed, Opened
  <1>2. /\ \A m \in Nodes : fresh[m] <= fresh'[m]
        /\ established \subseteq established'
    BY <1>1, LinkAssumption DEF IInv, TypeOK
  <1>3. /\ \A m \in Nodes \ {n} : state'[m] = state[m]
        /\ state'[n] = OpenSession(p.key, "r", p.peer)
    BY <1>a DEF Confirmed, IInv, TypeOK
  <1>4. Answered(n)
    BY <1>a, <1>1 DEF IInv, HandshakesFresh
  <1>5. /\ p.transcript[2].did = n /\ p.transcript[1].did = p.peer /\ p.peer \in Allow[n]
        /\ HelloGenuine(p.transcript[1]) /\ BodyGenuine(p.transcript[2])
        /\ p.key.nonces = <<p.transcript[1].eph, p.transcript[2].eph>>
        /\ \A x \in established : x.role = "r" => x.key.nonces[2] # p.transcript[2].eph
    BY <1>a, <1>4 DEF Answered, KeyOf, Derive
  <1>6. /\ f \in air /\ f.msg.kind = "confirm" /\ ConfirmSent(f)
        /\ f.msg.tag.key = p.key /\ f.msg.tag.transcript = p.transcript
    BY <1>a DEF Heard, ConfirmVerifies, Tag, IInv, AirGenuine
  <1>7. Opened(p.peer, "i", p.key, n) \in established
    BY <1>5, <1>6 DEF ConfirmSent
  <1>8. EndsOf(e)' /\ e.role = "r" /\ e.key = p.key /\ e.node = n /\ e.peer = p.peer
    BY <1>d, <1>1, <1>5 DEF EndsOf, Opened, HelloGenuine, BodyGenuine, Drawn
  <1>9. AirGenuine'
    BY <1>1, <1>2, GenuineStays DEF AirGenuine, Genuine
  <1>10. EndsNamed'
    BY <1>1, <1>2, <1>8, EndsStay DEF EndsNamed
  <1>11. DeliveredInSession'
    BY <1>1 DEF DeliveredInSession, IInv
  <1>12. HandshakesFresh'
    <2>1. ASSUME NEW m \in Nodes, m # n
          PROVE  /\ state'[m].at = "hello" => Waiting(m)'
                 /\ state'[m].at = "pending" => Answered(m)'
                 /\ state'[m].at = "session" =>
                      Opened(m, state'[m].role, state'[m].key, state'[m].peer) \in established'
      BY <1>1, <1>2, <1>3, <1>8, <2>1, OthersStay
    <2>2. /\ state'[n].at = "session"
          /\ Opened(n, state'[n].role, state'[n].key, state'[n].peer) \in established'
      BY <1>d, <1>1, <1>3 DEF OpenSession
    <2> QED BY <2>1, <2>2 DEF HandshakesFresh
  <1>13. /\ \A h \in air : ~(h.msg.kind = "data" /\ h.msg.tag.key = p.key /\ h.msg.tag.dir = "r")
         /\ \A d \in delivered : ~(d.at = n /\ d.under = p.key)
    <2>1. \A x \in established : ~(x.role = "r" /\ x.key = p.key)
      BY <1>5
    <2> QED BY <1>1, <2>1, UnusedKey DEF Roles
  <1>14. NumbersBelow' /\ WindowRemembers'
    BY <1>1, <1>3, <1>13 DEF IInv, NumbersBelow, WindowRemembers, OpenSession
  <1>15. LinksKept'
    BY <1>a, <1>1, <1>3 DEF IInv, LinksKept, OpenSession
  <1>16. FramesGenuine'
    BY <1>1 DEF IInv, FramesGenuine, NoReplay, OnlyThePeersFrames, NoSeqReuse
  <1>17. Agreement'
    BY <1>1, <1>7, <1>8 DEF IInv, SessionsAgree, Agreement, Opened
  <1>18. AnsweredByPeer'
    BY <1>1, <1>8 DEF IInv, SessionsAgree, AnsweredByPeer
  <1>19. RosterOnly'
    BY <1>1, <1>5, <1>7, <1>8 DEF IInv, RosterOnly, Opened
  <1> QED BY <1>9, <1>10, <1>11, <1>12, <1>14, <1>15, <1>16, <1>17, <1>18, <1>19
          DEF IInv, SessionsAgree

(* confirm keeps it.                                                       *)
LEMMA InvConfirm ==
  ASSUME IInv, TypeOK', NEW n \in Nodes, Confirm(n), UNCHANGED learners
  PROVE  IInv'
  <1>1. PICK f \in Heard(n) :
          \/ ~ConfirmVerifies(state[n], f.msg) /\ Fail(n) /\ UNCHANGED established
          \/ ConfirmVerifies(state[n], f.msg) /\ Confirmed(n)
    BY DEF Confirm
  <1>2. CASE Fail(n) /\ UNCHANGED established
    BY <1>2, FailGivesUp DEF Confirm, history
  <1> QED BY <1>1, <1>2, InvConfirmed

-----------------------------------------------------------------------------
(* Steps of an open session *)

(* One end holds a session's key in one role. *)
LEMMA OneEnd ==
  ASSUME IInv, NEW n \in Nodes, NEW m \in Nodes,
         state[n].at = "session", state[m].at = "session",
         state[n].key = state[m].key, state[n].role = state[m].role
  PROVE  n = m
  <1>1. /\ EndsOf(Opened(n, state[n].role, state[n].key, state[n].peer))
        /\ EndsOf(Opened(m, state[m].role, state[m].key, state[m].peer))
    BY DEF IInv, HandshakesFresh, EndsNamed
  <1>2. state[n].role \in Roles
    BY SessionFields DEF IInv
  <1> QED BY <1>1, <1>2 DEF EndsOf, Opened, Roles

(* seal keeps it: the number is above every one sealed under this key.     *)
LEMMA InvSeal ==
  ASSUME IInv, TypeOK', NEW n \in Nodes, Seal(n), UNCHANGED learners
  PROVE  IInv'
  <1>a. PICK s : s = state[n]
    OBVIOUS
  <1>b. PICK g : g = Datagram(n, link[n].peer, Sealed(s))
    OBVIOUS
  <1>1. /\ s.at = "session" /\ ~s.exhausted /\ air' = air \cup {g}
        /\ UNCHANGED <<fresh, link, delivered, replays, established, learners>>
    BY <1>a, <1>b DEF Seal
  <1>2. s \in [at : {"session"}, key : Keys, role : Roles, peer : Nodes,
               send_seq : SeqNums, exhausted : BOOLEAN, window : Windows]
    BY <1>a, <1>1, StateCases DEF IInv, TypeOK
  <1>3. /\ \A m \in Nodes \ {n} : state'[m] = state[m]
        /\ state'[n] = NextSeq(s)
    BY <1>a DEF Seal, IInv, TypeOK
  <1>4. /\ NextSeq(s).at = "session" /\ NextSeq(s).key = s.key /\ NextSeq(s).role = s.role
        /\ NextSeq(s).peer = s.peer /\ NextSeq(s).window = s.window
        /\ NextSeq(s).exhausted \/ NextSeq(s).send_seq = s.send_seq + 1
    BY <1>2 DEF NextSeq
  <1>5. /\ g.msg.kind = "data" /\ g.msg.seq = s.send_seq /\ g.msg.tag.seq = s.send_seq
        /\ g.msg.tag.key = s.key /\ g.msg.tag.dir = s.role
    BY <1>b DEF Datagram, Sealed
  <1>6. Opened(n, s.role, s.key, s.peer) \in established
    BY <1>a, <1>1 DEF IInv, HandshakesFresh
  <1>7. /\ \A m \in Nodes : fresh[m] <= fresh'[m]
        /\ established \subseteq established'
    BY <1>1, LinkAssumption DEF IInv, TypeOK
  <1>8. \A f \in air : /\ f.msg.kind = "data" /\ f.msg.tag.key = s.key /\ f.msg.tag.dir = s.role
                      => f.msg.seq < s.send_seq
    BY <1>a, <1>1 DEF IInv, NumbersBelow
  <1>9. s.send_seq \in Int /\ \A f \in air : f.msg.kind = "data" => f.msg.seq \in Int
    BY <1>2, MessageCases, MaxSeqAssumption DEF IInv, TypeOK, SeqNums
  <1>10. AirGenuine'
    <2>1. Genuine(g)'
      BY <1>1, <1>5, <1>6 DEF Genuine, DataSent, Opened
    <2> QED BY <1>1, <1>7, <2>1, AirStays
  <1>11. EndsNamed' /\ DeliveredInSession'
    BY <1>1, <1>7, EndsStay DEF EndsNamed, DeliveredInSession, IInv
  <1>12. HandshakesFresh'
    <2>1. ASSUME NEW m \in Nodes, m # n
          PROVE  /\ state'[m].at = "hello" => Waiting(m)'
                 /\ state'[m].at = "pending" => Answered(m)'
                 /\ state'[m].at = "session" =>
                      Opened(m, state'[m].role, state'[m].key, state'[m].peer) \in established'
      BY <1>1, <1>3, <1>7, <2>1, OthersStay
    <2> QED BY <1>1, <1>3, <1>4, <1>6, <2>1 DEF HandshakesFresh
  <1>13. NumbersBelow'
    <2> SUFFICES ASSUME NEW m \in Nodes, NEW f \in air', state'[m].at = "session",
                        f.msg.kind = "data", f.msg.tag.key = state'[m].key,
                        f.msg.tag.dir = state'[m].role
                 PROVE  state'[m].exhausted \/ f.msg.seq < state'[m].send_seq
      BY DEF NumbersBelow
    <2>1. CASE m = n /\ f \in air
      BY <1>3, <1>4, <1>8, <1>9, <2>1
    <2>2. CASE m = n /\ f = g
      BY <1>3, <1>4, <1>5, <1>9, <2>2
    <2>3. CASE m # n /\ f \in air
      BY <1>3, <2>3 DEF IInv, NumbersBelow
    <2>4. CASE m # n /\ f = g
      BY <1>a, <1>1, <1>3, <1>5, <2>4, OneEnd
    <2> QED BY <1>1, <2>1, <2>2, <2>3, <2>4
  <1>14. WindowRemembers'
    BY <1>a, <1>1, <1>3, <1>4 DEF IInv, WindowRemembers
  <1>15. LinksKept'
    BY <1>a, <1>1, <1>3, <1>4 DEF IInv, LinksKept
  <1>16. NoSeqReuse'
    <2>1. \A f \in air : f.msg # Sealed(s)
      BY <1>8, <1>9 DEF Sealed
    <2> QED BY <1>a, <2>1 DEF Seal, IInv, FramesGenuine, NoSeqReuse
  <1>17. NoReplay' /\ OnlyThePeersFrames' /\ SessionsAgree' /\ RosterOnly'
    BY <1>1 DEF IInv, FramesGenuine, NoReplay, OnlyThePeersFrames, SessionsAgree, Agreement,
       AnsweredByPeer, RosterOnly
  <1> QED BY <1>10, <1>11, <1>12, <1>13, <1>14, <1>15, <1>16, <1>17 DEF IInv, FramesGenuine

(* open keeps it: the window remembers what was delivered.                 *)
LEMMA InvOpen ==
  ASSUME IInv, TypeOK', NEW n \in Nodes, Open(n), UNCHANGED learners
  PROVE  IInv'
  <1>a. PICK s : s = state[n]
    OBVIOUS
  <1>1. PICK f \in Heard(n) :
          /\ f.msg.kind = "data" /\ TagVerifies(s, f.msg)
          /\ Accept(s.window, f.msg.seq).ok
          /\ state' = [state EXCEPT ![n].window = Accept(s.window, f.msg.seq).window]
          /\ delivered' = delivered \cup {[at |-> n, under |-> s.key, tag |-> f.msg.tag]}
          /\ replays' = replays \cup (delivered \cap {[at |-> n, under |-> s.key, tag |-> f.msg.tag]})
    BY <1>a DEF Open
  <1>b. PICK d : d = [at |-> n, under |-> s.key, tag |-> f.msg.tag]
    OBVIOUS
  <1>c. PICK v : v = Accept(s.window, f.msg.seq).window
    OBVIOUS
  <1>2. /\ s.at = "session"
        /\ UNCHANGED <<air, fresh, link, reused, established, learners>>
    BY <1>a DEF Open
  <1>3. s \in [at : {"session"}, key : Keys, role : Roles, peer : Nodes,
               send_seq : SeqNums, exhausted : BOOLEAN, window : Windows]
    BY <1>a, <1>2, StateCases DEF IInv, TypeOK
  <1>4. /\ \A m \in Nodes \ {n} : state'[m] = state[m]
        /\ state'[n] = [s EXCEPT !.window = v]
    BY <1>a, <1>c, <1>1 DEF IInv, TypeOK
  <1>5. /\ state'[n].at = "session" /\ state'[n].key = s.key /\ state'[n].role = s.role
        /\ state'[n].peer = s.peer /\ state'[n].send_seq = s.send_seq
        /\ state'[n].exhausted = s.exhausted /\ state'[n].window = v
    BY <1>3, <1>4
  <1>6. /\ f \in air /\ f.msg.seq \in SeqNums /\ DataSent(f)
        /\ f.msg.tag.key = s.key /\ f.msg.tag.dir = Other(s.role) /\ f.msg.tag.seq = f.msg.seq
    BY <1>1, MessageCases DEF Heard, TagVerifies, IInv, TypeOK, AirGenuine
  <1>7. /\ d.at = n /\ d.under = s.key /\ d.tag = f.msg.tag
        /\ delivered' = delivered \cup {d} /\ replays' = replays \cup (delivered \cap {d})
    BY <1>1, <1>b
  <1>8. Opened(n, s.role, s.key, s.peer) \in established
    BY <1>a, <1>2 DEF IInv, HandshakesFresh
  <1>9. s.role \in Roles /\ Other(Other(s.role)) = s.role
    BY <1>3 DEF Roles, Other
  <1>10. d \notin delivered
    BY <1>a, <1>1, <1>2, <1>6, <1>7 DEF IInv, WindowRemembers
  <1>11. AirGenuine' /\ EndsNamed'
    BY <1>2 DEF IInv, AirGenuine, EndsNamed, HelloSent, AcceptSent, ConfirmSent,
       DataSent, HelloGenuine, BodyGenuine, Drawn, EndsOf
  <1>12. DeliveredInSession'
    <2>1. \E e \in established : e.node = d.at /\ e.key = d.under /\ e.role = Other(d.tag.dir)
      BY <1>6, <1>7, <1>8, <1>9 DEF Opened
    <2> QED BY <1>2, <1>7, <2>1 DEF IInv, DeliveredInSession
  <1>13. HandshakesFresh'
    <2>1. \A m \in Nodes : fresh[m] <= fresh'[m]
      BY <1>2, LinkAssumption DEF IInv, TypeOK
    <2>2. ASSUME NEW m \in Nodes, m # n
          PROVE  /\ state'[m].at = "hello" => Waiting(m)'
                 /\ state'[m].at = "pending" => Answered(m)'
                 /\ state'[m].at = "session" =>
                      Opened(m, state'[m].role, state'[m].key, state'[m].peer) \in established'
      BY <1>2, <1>4, <2>1, <2>2, OthersStay
    <2> QED BY <1>2, <1>5, <1>8, <2>2 DEF HandshakesFresh
  <1>14. NumbersBelow'
    <2>1. ASSUME NEW m \in Nodes
          PROVE  \/ state'[m] = state[m]
                 \/ /\ state[m].at = "session" /\ state'[m].key = state[m].key
                    /\ state'[m].role = state[m].role /\ state'[m].send_seq = state[m].send_seq
                    /\ state'[m].exhausted = state[m].exhausted
      BY <1>a, <1>2, <1>4, <1>5
    <2>2. NumbersBelow
      BY DEF IInv
    <2> QED BY <1>2, <2>1, <2>2 DEF NumbersBelow
  <1>15. WindowRemembers'
    <2> SUFFICES ASSUME NEW m \in Nodes, NEW x \in delivered', state'[m].at = "session",
                        x.at = m, x.under = state'[m].key
                 PROVE  ~Accept(state'[m].window, x.tag.seq).ok
      BY DEF WindowRemembers
    <2>1. CASE m = n /\ x = d
      BY <1>c, <1>1, <1>3, <1>5, <1>6, <1>7, <2>1, TakenIsRefused
    <2>2. CASE m = n /\ x \in delivered
      <3>1. ~Accept(s.window, x.tag.seq).ok
        BY <1>a, <1>2, <1>5, <2>2 DEF IInv, WindowRemembers
      <3>2. x.tag.seq \in SeqNums
        BY <2>2 DEF IInv, TypeOK, SealTags
      <3> QED BY <1>c, <1>3, <1>5, <1>6, <2>2, <3>1, <3>2, RefusedForGood
    <2>3. CASE m # n /\ x = d
      BY <1>7, <2>3
    <2>4. CASE m # n /\ x \in delivered
      BY <1>4, <2>4 DEF IInv, WindowRemembers
    <2> QED BY <1>7, <2>1, <2>2, <2>3, <2>4
  <1>16. LinksKept'
    BY <1>a, <1>2, <1>4, <1>5, ZenonT(60) DEF IInv, LinksKept
  <1>17. NoReplay' /\ NoSeqReuse'
    BY <1>2, <1>7, <1>10 DEF IInv, FramesGenuine, NoReplay, NoSeqReuse
  <1>18. OnlyThePeersFrames'
    <2>1. PICK e \in established : e.role = f.msg.tag.dir /\ e.key = s.key
      BY <1>6 DEF DataSent
    <2>2. EndsOf(e) /\ EndsOf(Opened(n, s.role, s.key, s.peer))
      BY <1>8 DEF IInv, EndsNamed
    <2>3. e.peer = n
      BY <1>6, <1>9, <2>1, <2>2 DEF EndsOf, Opened, Other, Roles
    <2> QED BY <1>2, <1>6, <1>7, <2>1, <2>3 DEF IInv, FramesGenuine, OnlyThePeersFrames
  <1>19. SessionsAgree' /\ RosterOnly'
    BY <1>2 DEF IInv, SessionsAgree, Agreement, AnsweredByPeer, RosterOnly
  <1> QED BY <1>11, <1>12, <1>13, <1>14, <1>15, <1>16, <1>17, <1>18, <1>19 DEF IInv, FramesGenuine

-----------------------------------------------------------------------------
(* The theorems *)

(* Every message on the air is what the code that sends it makes, and a    *)
(* handshake under way is fresh: the strengthening the others follow from. *)
THEOREM Invariance == Spec => []IInv
  <1>1. Init /\ TypeOK => IInv
    BY DEF Init, IInv, AirGenuine, EndsNamed, HandshakesFresh, NumbersBelow, WindowRemembers,
       DeliveredInSession, LinksKept, FramesGenuine, NoReplay, OnlyThePeersFrames, NoSeqReuse,
       SessionsAgree, Agreement, AnsweredByPeer, RosterOnly, Boot, NONE
  <1>2. IInv /\ TypeOK' /\ [Next]_vars => IInv'
    <2> SUFFICES ASSUME IInv, TypeOK', [Next]_vars PROVE IInv'
      OBVIOUS
    <2>1. ASSUME NEW n \in Nodes, Step(n), UNCHANGED learners PROVE IInv'
      <3>1. CASE Timeout(n)
        BY <3>1, <2>1, FailGivesUp DEF Timeout
      <3>2. CASE EndSession(n)
        <4>1. link' = [link EXCEPT ![n] = link[n]]
          BY <3>2 DEF EndSession, IInv, TypeOK
        <4> QED BY <3>2, <2>1, <4>1, LinksForget, GiveUp DEF EndSession
      <3>3. CASE Restart(n)
        BY <3>3, <2>1, LinksForget, GiveUp DEF Restart
      <3> QED
        BY <2>1, <3>1, <3>2, <3>3, InvInitiate, InvFinish, InvRespond, InvConfirm, InvSeal, InvOpen
        DEF Step
    <2>2. CASE UNCHANGED vars
      BY <2>2, SMTT(60) DEF vars, IInv, AirGenuine, EndsNamed, HandshakesFresh, NumbersBelow, WindowRemembers,
         DeliveredInSession, LinksKept, FramesGenuine, NoReplay, OnlyThePeersFrames, NoSeqReuse,
         SessionsAgree, Agreement, AnsweredByPeer, RosterOnly, HelloSent, AcceptSent, ConfirmSent,
         DataSent, HelloGenuine, BodyGenuine, Drawn, EndsOf, Waiting, Answered
    <2> QED BY <2>1, <2>2 DEF Next
  <1> QED BY <1>1, <1>2, TypeCorrect, PTL DEF Spec

(* Nothing is delivered twice, nothing but what the peer sealed for this   *)
(* session and direction, and no number seals twice under a key: whatever  *)
(* the radio loses, repeats, delays or reorders, whichever sends fail, and *)
(* however often nodes restart or session ids collide.                     *)
THEOREM OnlyGenuineFrames == Spec => []FramesGenuine
  <1>1. IInv => FramesGenuine
    BY DEF IInv
  <1> QED BY <1>1, Invariance, PTL

(* A responder's session is one its initiator opened with the same keys,   *)
(* and an initiator's was answered by the peer it names.                   *)
THEOREM EndsAgree == Spec => []SessionsAgree
  <1>1. IInv => SessionsAgree
    BY DEF IInv
  <1> QED BY <1>1, Invariance, PTL

(* Both ends' `allow` accept the other, for every roster. *)
THEOREM BothEndsWant == Spec => []RosterOnly
  <1>1. IInv => RosterOnly
    BY DEF IInv
  <1> QED BY <1>1, Invariance, PTL

(* A named address is never forgotten, and a session's frames go to its    *)
(* peer wherever the address is named or learned.                          *)
THEOREM FramesGoToThePeer == Spec => []AddressesKept
  <1>1. IInv => AddressesKept
    BY DEF IInv, LinksKept, AddressesKept, NamedPeerKept, SessionAddressesPeer
  <1> QED BY <1>1, Invariance, PTL
=============================================================================
