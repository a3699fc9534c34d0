------------------------------- MODULE LinkRun -------------------------------
(***************************************************************************)
(* A whole run of the authenticated link over its three carriers: ESP-NOW  *)
(* on the radio's firmware (hal/link.rs, EspNowLink, driven by the         *)
(* c6-s1-link firmware), the open MAC's raw frames (RawLink, driven by     *)
(* xiao-s3-open-link) and UDP to a bridge (hal/link.rs, UdpLink).          *)
(*                                                                         *)
(* Both ends are self-driving: handshake with retries, FRAMES echoes, then *)
(* a join under an identity nobody adopted. Link models what the messages  *)
(* prove; here an answer counts for the attempt whose number it carries,   *)
(* and the question is what timeouts, late answers and retries do.         *)
(***************************************************************************)
EXTENDS Integers, Sequences

CONSTANTS
  Carriers,      \* "espnow", "raw", "udp"
  FRAMES,        \* echoes of a run
  ATTEMPTS,      \* handshakes the initiator tries
  MAX_TIMEOUTS,  \* receive timeouts in a row after which a responder stops echoing
  MAX_FOREIGN,   \* failed handshakes a c6-s1-link responder puts up with
  MaxMishaps        \* datagrams lost, sends failed and waits that end too early

ASSUME RunAssumption ==
  /\ Carriers \subseteq {"espnow", "raw", "udp"}
  /\ FRAMES \in Nat \ {0} /\ ATTEMPTS \in Nat \ {0} /\ MAX_TIMEOUTS \in Nat \ {0}

VARIABLES
  carrier,
  ini,      \* the initiator: [pc, attempt, frame, ok, lost, verdict]
  res,      \* the responder: [pc, pending, session, adopted, echoed, timeouts, foreign, refused, verdict]
  airI, airR, \* datagrams on their way to the initiator, to the responder
  inI, inR, \* datagrams queued there
  seenI, seenR, \* frames each session has opened
  mishaps,
  cleanTry     \* history: this attempt began with nothing on its way and has met no fault

runVars == <<carrier, ini, res, airI, airR, inI, inR, seenI, seenR, mishaps, cleanTry>>
air     == <<airI, airR, inI, inR>>
history == <<seenI, seenR, cleanTry>>

Hello(n, did)  == [kind |-> "hello", n |-> n, did |-> did]
AcceptOf(n)      == [kind |-> "accept", n |-> n, did |-> ""]
Confirm(n)     == [kind |-> "confirm", n |-> n, did |-> ""]
DataFrame(i)       == [kind |-> "frame", n |-> i, did |-> ""]
ROGUE_ATTEMPT  == ATTEMPTS + 1

(* Nothing is on its way, and nobody has anything left to answer. *)
Quiet ==
  /\ airI = <<>> /\ airR = <<>>
  /\ inI = <<>> \/ ini.pc = "done"
  /\ inR = <<>> \/ res.pc = "done"

RunInit ==
  /\ carrier \in Carriers
  /\ ini = [pc |-> "hello", attempt |-> 1, frame |-> 1, ok |-> 0, lost |-> 0, verdict |-> "none"]
  /\ res = [pc |-> "hello", pending |-> 0, session |-> 0, adopted |-> "", echoed |-> 0,
            timeouts |-> 0, foreign |-> 0, refused |-> FALSE, verdict |-> "none"]
  /\ airI = <<>> /\ airR = <<>> /\ inI = <<>> /\ inR = <<>>
  /\ seenI = {} /\ seenR = {}
  /\ mishaps = 0 /\ cleanTry = FALSE

(* A wait that ends while something may still come is a fault; one that    *)
(* ends with nothing on its way is not.                                    *)
WaitEnds ==
  IF Quiet THEN UNCHANGED mishaps ELSE mishaps < MaxMishaps /\ mishaps' = mishaps + 1

-----------------------------------------------------------------------------
(* The radio: datagrams arrive in order, or not at all. *)

Deliver ==
  /\ \/ airI # <<>> /\ inI' = Append(inI, Head(airI)) /\ airI' = Tail(airI) /\ UNCHANGED <<airR, inR>>
     \/ airR # <<>> /\ inR' = Append(inR, Head(airR)) /\ airR' = Tail(airR) /\ UNCHANGED <<airI, inI>>
  /\ UNCHANGED <<carrier, ini, res, mishaps, history>>

Lose ==
  /\ mishaps < MaxMishaps
  /\ mishaps' = mishaps + 1
  /\ cleanTry' = FALSE
  /\ \/ airI # <<>> /\ airI' = Tail(airI) /\ UNCHANGED airR
     \/ airR # <<>> /\ airR' = Tail(airR) /\ UNCHANGED airI
  /\ UNCHANGED <<carrier, ini, res, inI, inR, seenI, seenR>>

-----------------------------------------------------------------------------
(* The initiator *)

(* Nothing queued before a hello can be its accept: UdpLink and RawLink     *)
(* drain, EspNowLink does not.                                             *)
DrainedNever(inbox) == inbox   \* mutant

Drained(inbox) == IF carrier = "espnow" THEN inbox ELSE <<>>

SendHello ==
  /\ ini.pc = "hello"
  /\ inI' = Drained(inI)
  /\ airR' = Append(airR, Hello(ini.attempt, "me"))
  /\ ini' = [ini EXCEPT !.pc = "accept"]
  /\ cleanTry' = (airI = <<>> /\ airR = <<>> /\ inR = <<>> /\ res.pc = "hello")
  /\ UNCHANGED <<carrier, res, airI, inR, seenI, seenR, mishaps>>

AttemptFailed ==
  IF ini.attempt < ATTEMPTS
  THEN [ini EXCEPT !.pc = "hello", !.attempt = @ + 1]
  ELSE [ini EXCEPT !.pc = "done", !.verdict = "FAIL"]

(* Handshake::finish on the next datagram: the accept of this attempt, or   *)
(* the attempt has failed.                                                 *)
ReadAccept ==
  /\ ini.pc = "accept" /\ inI # <<>>
  /\ inI' = Tail(inI)
  /\ IF Head(inI) = AcceptOf(ini.attempt)
     THEN /\ ini' = [ini EXCEPT !.pc = IF carrier = "udp" THEN "done" ELSE "send"]
          /\ airR' = Append(airR, Confirm(ini.attempt))
     ELSE /\ ini' = AttemptFailed
          /\ UNCHANGED airR
  /\ UNCHANGED <<carrier, res, airI, inR, mishaps, history>>

AcceptTimeout ==
  /\ ini.pc = "accept" /\ inI = <<>>
  /\ WaitEnds
  /\ ini' = AttemptFailed
  /\ cleanTry' = (cleanTry /\ Quiet)
  /\ UNCHANGED <<carrier, res, air, seenI, seenR>>

NextFrame(i) == [i EXCEPT !.frame = @ + 1, !.pc = IF i.frame = FRAMES THEN "rogue" ELSE "send"]

SendFrame ==
  /\ ini.pc = "send"
  /\ \/ /\ airR' = Append(airR, DataFrame(ini.frame))
        /\ ini' = [ini EXCEPT !.pc = "echo"]
        /\ UNCHANGED mishaps
     \/ /\ mishaps < MaxMishaps                       \* the send fails
        /\ mishaps' = mishaps + 1
        /\ ini' = [NextFrame(ini) EXCEPT !.lost = @ + 1]
        /\ UNCHANGED airR
  /\ UNCHANGED <<carrier, res, airI, inI, inR, history>>

(* recv: the session opens a frame of its own it has not seen; the echo     *)
(* counts if it is this frame's.                                           *)
ReadEcho ==
  /\ ini.pc = "echo" /\ inI # <<>>
  /\ inI' = Tail(inI)
  /\ LET opens == Head(inI).kind = "frame" /\ Head(inI).n \notin seenI
     IN  /\ seenI' = IF opens THEN seenI \cup {Head(inI).n} ELSE seenI
         /\ ini' = IF opens /\ Head(inI).n = ini.frame
                   THEN [NextFrame(ini) EXCEPT !.ok = @ + 1]
                   ELSE NextFrame(ini)
  /\ UNCHANGED <<carrier, res, airI, airR, inR, seenR, mishaps, cleanTry>>

EchoTimeout ==
  /\ ini.pc = "echo" /\ inI = <<>>
  /\ WaitEnds
  /\ ini' = [NextFrame(ini) EXCEPT !.lost = @ + 1]
  /\ UNCHANGED <<carrier, res, air, history>>

SendRogueHello ==
  /\ ini.pc = "rogue"
  /\ inI' = Drained(inI)
  /\ airR' = Append(airR, Hello(ROGUE_ATTEMPT, "rogue"))
  /\ ini' = [ini EXCEPT !.pc = "rogueAccept"]
  /\ UNCHANGED <<carrier, res, airI, inR, mishaps, history>>

VerdictLoose(admitted) ==   \* mutant: a frame sent counts
  [ini EXCEPT !.pc = "done",
              !.verdict = IF ini.ok + ini.lost >= FRAMES /\ ~admitted THEN "PASS" ELSE "FAIL"]

RunVerdict(admitted) ==
  [ini EXCEPT !.pc = "done",
              !.verdict = IF ini.ok >= FRAMES /\ ~admitted THEN "PASS" ELSE "FAIL"]

ReadRogueAnswer ==
  /\ ini.pc = "rogueAccept"
  /\ \/ /\ inI # <<>>
        /\ inI' = Tail(inI)
        /\ ini' = RunVerdict(Head(inI) = AcceptOf(ROGUE_ATTEMPT))
        /\ UNCHANGED mishaps
     \/ /\ inI = <<>>
        /\ WaitEnds
        /\ ini' = RunVerdict(FALSE)
        /\ UNCHANGED inI
  /\ UNCHANGED <<carrier, res, airI, airR, inR, history>>

-----------------------------------------------------------------------------
(* The responder *)

(* A handshake that failed: c6-s1-link waits again, so many times;          *)
(* xiao-s3-open-link stops.                                                *)
HandshakeFailed ==
  IF carrier = "espnow" /\ res.foreign < MAX_FOREIGN
  THEN [res EXCEPT !.pc = "hello", !.foreign = @ + 1]
  ELSE [res EXCEPT !.pc = "done", !.verdict = "FAIL"]

(* Handshake::respond: the first phase adopts whoever asks. A bridge        *)
(* answers every hello.                                                    *)
ReadHello ==
  /\ res.pc = "hello" \/ (carrier = "udp" /\ res.pc = "confirm")
  /\ inR # <<>> /\ (carrier = "udp" => Head(inR).kind = "hello" \/ res.pc = "hello")
  /\ inR' = Tail(inR)
  /\ IF Head(inR).kind = "hello"
     THEN /\ res' = [res EXCEPT !.pc = "confirm", !.pending = Head(inR).n, !.adopted = Head(inR).did]
          /\ airI' = Append(airI, AcceptOf(Head(inR).n))
     ELSE /\ res' = IF carrier = "udp" THEN res ELSE HandshakeFailed
          /\ UNCHANGED airI
  /\ UNCHANGED <<carrier, ini, airR, inI, mishaps, history>>

(* Pending::confirm *)
ReadConfirm ==
  /\ res.pc = "confirm" /\ inR # <<>> /\ (carrier = "udp" => Head(inR).kind # "hello")
  /\ inR' = Tail(inR)
  /\ res' = IF Head(inR) = Confirm(res.pending)
            THEN [res EXCEPT !.pc = IF carrier = "udp" THEN "done" ELSE "echo", !.session = res.pending]
            ELSE IF carrier = "udp" THEN res
            ELSE HandshakeFailed
  /\ UNCHANGED <<carrier, ini, airI, airR, inI, mishaps, history>>

(* A raw link's handshake ends after its patience, and waits again. *)
HandshakeTimeout ==
  /\ carrier = "raw" /\ res.pc = "confirm" /\ inR = <<>>
  /\ WaitEnds
  /\ res' = [res EXCEPT !.pc = "hello"]
  /\ cleanTry' = (cleanTry /\ Quiet)
  /\ UNCHANGED <<carrier, ini, air, seenI, seenR>>

EchoLoop(r) == IF r.echoed < FRAMES /\ r.timeouts < MAX_TIMEOUTS THEN r ELSE [r EXCEPT !.pc = "refuse"]

EchoFrame ==
  /\ res.pc = "echo" /\ inR # <<>>
  /\ inR' = Tail(inR)
  /\ IF Head(inR).kind = "frame" /\ Head(inR).n \notin seenR
     THEN /\ seenR' = seenR \cup {Head(inR).n}
          /\ \/ /\ airI' = Append(airI, DataFrame(Head(inR).n))
                /\ res' = EchoLoop([res EXCEPT !.echoed = @ + 1, !.timeouts = 0])
                /\ UNCHANGED mishaps
             \/ /\ mishaps < MaxMishaps               \* the send fails
                /\ mishaps' = mishaps + 1
                /\ res' = EchoLoop([res EXCEPT !.timeouts = 0])
                /\ UNCHANGED airI
     ELSE UNCHANGED <<airI, res, seenR, mishaps>>
  /\ UNCHANGED <<carrier, ini, airR, inI, seenI, cleanTry>>

ResponderTimeout ==
  /\ res.pc = "echo" /\ inR = <<>> /\ ini.pc # "send"
  /\ WaitEnds
  /\ res' = EchoLoop([res EXCEPT !.timeouts = @ + 1])
  /\ UNCHANGED <<carrier, ini, air, history>>

Refusal(refused) ==
  [res EXCEPT !.pc = "done", !.refused = refused,
              !.verdict = IF res.echoed >= FRAMES /\ refused THEN "PASS" ELSE "FAIL"]

(* The second handshake allows the adopted DID alone; whatever else comes   *)
(* first ends it, refused.                                                 *)
Refuse ==
  /\ res.pc = "refuse" /\ inR # <<>>
  /\ inR' = Tail(inR)
  /\ IF Head(inR).kind = "hello" /\ Head(inR).did = res.adopted
     THEN /\ res' = [res EXCEPT !.pc = "admit", !.pending = Head(inR).n]
          /\ airI' = Append(airI, AcceptOf(Head(inR).n))
     ELSE res' = Refusal(TRUE) /\ UNCHANGED airI
  /\ UNCHANGED <<carrier, ini, airR, inI, seenI, seenR, mishaps, cleanTry>>

Admit ==
  /\ res.pc = "admit" /\ inR # <<>>
  /\ inR' = Tail(inR)
  /\ res' = Refusal(Head(inR) # Confirm(res.pending))
  /\ UNCHANGED <<carrier, ini, airI, airR, inI, mishaps, history>>

RefuseTimeout ==
  /\ res.pc \in {"refuse", "admit"} /\ inR = <<>>
  /\ WaitEnds
  /\ res' = Refusal(TRUE)
  /\ UNCHANGED <<carrier, ini, air, history>>

-----------------------------------------------------------------------------
Initiator == SendHello \/ ReadAccept \/ AcceptTimeout \/ SendFrame \/ ReadEcho \/ EchoTimeout
             \/ SendRogueHello \/ ReadRogueAnswer

Responder == ReadHello \/ ReadConfirm \/ HandshakeTimeout \/ EchoFrame \/ ResponderTimeout
             \/ Refuse \/ Admit \/ RefuseTimeout

RunNext == Deliver \/ Lose \/ Initiator \/ Responder

(* Both ends keep running and the radio keeps delivering. *)
RunSpec ==
  /\ RunInit /\ [][RunNext]_runVars
  /\ WF_runVars(Initiator) /\ WF_runVars(Responder) /\ WF_runVars(Deliver)

-----------------------------------------------------------------------------

(* A late accept costs the attempt that timed out, not the ones after it:   *)
(* where the carrier drains, an attempt that begins with nothing on its way *)
(* to a responder that waits for it, and meets no fault, does not fail.     *)
CleanAttemptSucceeds ==
  [][carrier # "espnow" /\ ini.pc = "accept" /\ ini'.pc \in {"hello", "done"} /\ cleanTry /\ cleanTry'
       => ini'.verdict # "FAIL" /\ ini'.attempt = ini.attempt]_runVars

(* The initiator's PASS means the responder opened every frame, once, and   *)
(* ends with PASS itself: no late echo is counted for another frame.        *)
PassIsMutual ==
  ini.verdict = "PASS" =>
    /\ seenR = 1..FRAMES /\ seenI = 1..FRAMES
    /\ res.echoed = FRAMES
    /\ res.verdict # "FAIL"

(* Once a peer is adopted and its session done, no other identity is        *)
(* admitted, whatever is still on its way from the first handshakes.        *)
AdoptedOnly ==
  /\ res.pc = "admit" => res.adopted # "rogue"
  /\ res.session # 0 /\ res.adopted = "me" =>
       ~\E k \in 1..Len(airI) : airI[k] = AcceptOf(ROGUE_ATTEMPT)

(* "Every wait is bounded": the initiator ends its run whatever is lost.    *)
InitiatorEnded == ini.pc = "done"

(* What the bench run's verdicts say is so. *)
VerdictsTrue == PassIsMutual /\ AdoptedOnly
=============================================================================
