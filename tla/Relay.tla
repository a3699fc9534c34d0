------------------------------- MODULE Relay --------------------------------
(***************************************************************************)
(* The bridge's radio on a wire (firmware/espnow-relay): a host's lines    *)
(* arrive over a UART, are put in a ring by its interrupt, assembled into  *)
(* commands by the loop, and each datagram sent gets its verdict by its    *)
(* id.  The interrupt goes on filling the ring while a frame is on the     *)
(* air.  A line is taken at the grain of its pieces: the head (the verb,   *)
(* the id, the destination), the rest of its text, and the newline.        *)
(* `U` changes the line's speed, and what is sent at another speed than    *)
(* the UART's arrives as noise or as an error.                             *)
(***************************************************************************)
EXTENDS Integers, FiniteSets, SequencesExt

CONSTANTS RING,         \* pieces the ring holds
          LINE_PIECES,  \* pieces of text a line holds (LINE)
          CHUNK,        \* pieces taken from the ring at a time
          OUTSTANDING,  \* datagrams a host keeps without a verdict
          PATIENCE,     \* BAUD_PATIENCE
          Bauds, BOOT_BAUD,
          AirRates,     \* of `P`; 1 is the boot's
          Stations,     \* destinations
          MaxLines,     \* bound: lines in one behaviour
          MaxSwitches   \* bound: `U` lines in one behaviour

(* The ring holds the lines of as many datagrams as a host keeps           *)
(* outstanding: 4096 bytes, and six lines of at most 520.                  *)
ASSUME RelayAssumption ==
  /\ RING \in Nat /\ LINE_PIECES \in Nat /\ CHUNK \in Nat \ {0}
  /\ OUTSTANDING \in Nat \ {0} /\ RING >= 3 * OUTSTANDING
  /\ PATIENCE \in Nat
  /\ BOOT_BAUD \in Bauds /\ 1 \in AirRates

VARIABLES
  hostLines,     \* the host's lines so far: what each one says
  typing,    \* pieces of the last line that are still to be sent
  hostBaud,
  rxRing, lost,
  chunk,     \* what the loop took from the ring and has not looked at
  textLine, overrun,
  doing,     \* the command the loop awaits, or Nothing
  baud, trial,
  rates, peers,  \* rate_mbps, and the rate each known peer has
  radioed, verdicts,
  noise      \* history: a piece was damaged

hostVars  == <<hostLines, typing, hostBaud>>
airVars == <<rates, peers, radioed, verdicts>>
relayVars == <<hostVars, rxRing, lost, chunk, textLine, overrun, doing, baud, trial, airVars,
               noise>>

Nothing == [verb |-> "none"]
NoTrial == -1

HostCommands ==
  [verb : {"T"}, to : Stations] \cup [verb : {"?", "other"}]
    \cup [verb : {"U"}, baud : Bauds] \cup [verb : {"P"}, rate : AirRates]

Newline(p) == p.part = "newline"

RelayInit ==
  /\ hostLines = <<>> /\ typing = <<>> /\ hostBaud = BOOT_BAUD
  /\ rxRing = <<>> /\ lost = FALSE
  /\ chunk = <<>> /\ textLine = <<>> /\ overrun = FALSE
  /\ doing = Nothing
  /\ baud = BOOT_BAUD /\ trial = NoTrial
  /\ rates = 1 /\ peers = [s \in {} |-> 1]
  /\ radioed = <<>> /\ verdicts = <<>>
  /\ noise = FALSE

-----------------------------------------------------------------------------
(* The host *)

Sends == {k \in DOMAIN hostLines : hostLines[k].verb = "T"}
Unanswered == {k \in Sends : ~\E i \in DOMAIN verdicts : verdicts[i] = k}

(* Datagrams are pipelined; any other command is sent alone, and its       *)
(* answer, or the silence in its place, awaited.  A host gives up on the   *)
(* verdicts of damaged lines.                                              *)
Answerless == rxRing = <<>> /\ chunk = <<>> /\ doing = Nothing
GivesUp == noise /\ Answerless

HostAsks(c) ==
  /\ typing = <<>>
  /\ Len(hostLines) < MaxLines
  /\ GivesUp \/ Cardinality(Unanswered) < (IF c.verb = "T" THEN OUTSTANDING ELSE 1)
  /\ hostLines # <<>> /\ Last(hostLines).verb # "T" => Answerless
  /\ c.verb = "U" => Len(SelectSeq(hostLines, LAMBDA a : a.verb = "U")) < MaxSwitches
  /\ hostLines' = Append(hostLines, c)
  /\ typing' = [p \in 1 .. (IF c.verb = "T" THEN 3 ELSE 2) |->
                  [of   |-> Len(hostLines'),
                   part |-> IF p = 1 THEN "head"
                            ELSE IF c.verb = "T" /\ p = 2 THEN "text" ELSE "newline"]]
  /\ UNCHANGED <<hostBaud, rxRing, lost, chunk, textLine, overrun, doing, baud, trial, airVars,
                 noise>>

HostSwitches(b) ==
  /\ typing = <<>>
  /\ GivesUp \/ Unanswered = {}
  /\ b \in {baud, BOOT_BAUD}
  /\ b # hostBaud
  /\ hostBaud' = b
  /\ UNCHANGED <<hostLines, typing, rxRing, lost, chunk, textLine, overrun, doing, baud, trial, airVars,
                 noise>>

-----------------------------------------------------------------------------
(* The ring *)

PushShort(p) ==   \* mutant
  IF Len(rxRing) < RING - 1
  THEN rxRing' = Append(rxRing, p) /\ UNCHANGED lost
  ELSE lost' = TRUE /\ UNCHANGED rxRing

(* Ring::push: what finds no room is counted lost. *)
RelayPush(p) ==
  IF Len(rxRing) < RING
  THEN rxRing' = Append(rxRing, p) /\ UNCHANGED lost
  ELSE lost' = TRUE /\ UNCHANGED rxRing

(* on_serial: a piece of the host's line into the ring.  At the wrong      *)
(* speed it is noise, or a read error that counts as lost.                 *)
OnSerial ==
  /\ typing # <<>>
  /\ typing' = Tail(typing)
  /\ IF hostBaud = baud
     THEN RelayPush(Head(typing)) /\ UNCHANGED noise
     ELSE /\ noise' = TRUE
          /\ \/ RelayPush([of |-> 0, part |-> "noise"])
             \/ lost' = TRUE /\ UNCHANGED rxRing
  /\ UNCHANGED <<hostLines, hostBaud, chunk, textLine, overrun, doing, baud, trial, airVars>>

(* Ring::pop, for a loop that has dealt with what it took before. *)
Pop ==
  /\ doing = Nothing
  /\ chunk = <<>>
  /\ rxRing # <<>>
  /\ \E n \in {IF Len(rxRing) < CHUNK THEN Len(rxRing) ELSE CHUNK} :
       chunk' = SubSeq(rxRing, 1, n) /\ rxRing' = SubSeq(rxRing, n + 1, Len(rxRing))
  /\ UNCHANGED <<hostVars, lost, textLine, overrun, doing, baud, trial, airVars, noise>>

-----------------------------------------------------------------------------
(* The loop *)

(* parse_send, parse_numbers: the line's verb and what follows it.  A head *)
(* with damaged text after it, or two lines run into one, is no command; a *)
(* datagram that lost an even number of digits is one.                     *)
Parsed(text) ==
  IF text = <<>> \/ Head(text).part # "head" \/ \E i \in 2 .. Len(text) : text[i].part # "text"
  THEN Nothing
  ELSE hostLines[Head(text).of]

(* Lines::take: as much as fits; the rest marks the line. *)
Take(segment) ==
  LET whole == textLine \o segment
  IN  [textLine    |-> SubSeq(whole, 1, IF Len(whole) < LINE_PIECES THEN Len(whole) ELSE LINE_PIECES),
       overrun |-> overrun \/ Len(whole) > LINE_PIECES]

(* One pass over the chunk: to the newline, or to its end. *)
Nextline == SelectInSeq(chunk, Newline)

TakePart ==
  /\ doing = Nothing
  /\ chunk # <<>>
  /\ Nextline = 0
  /\ textLine' = Take(chunk).textLine
  /\ overrun' = Take(chunk).overrun
  /\ chunk' = <<>>
  /\ UNCHANGED <<hostVars, rxRing, lost, doing, baud, trial, airVars, noise>>

(* know: a destination not met before, at the rate that is set. *)
Know(to) == IF to \in DOMAIN peers THEN peers
            ELSE [s \in DOMAIN peers \cup {to} |-> IF s = to THEN rates ELSE peers[s]]

(* A whole line obeyed.  A send or a change of speed is awaited; only a    *)
(* send and a `?` settle a speed on trial.                                 *)
Obey(text, c) ==
  /\ doing' = IF c.verb \in {"T", "U"} THEN c ELSE Nothing
  /\ trial' = IF c.verb \in {"T", "?"} THEN NoTrial ELSE trial
  /\ peers' = CASE c.verb = "T" -> Know(c.to)
                [] c.verb = "P" -> [s \in DOMAIN peers |-> c.rate]
                [] OTHER        -> peers
  /\ radioed' = IF c.verb = "T" THEN Append(radioed, text) ELSE radioed
  /\ rates' = IF c.verb = "P" THEN c.rate ELSE rates

TakeLineOnly ==   \* mutant
  /\ doing = Nothing
  /\ Nextline # 0
  /\ chunk' = <<>>
  /\ textLine' = <<>>
  /\ overrun' = FALSE
  /\ \E t \in {Take(SubSeq(chunk, 1, Nextline - 1))} :
       Obey(t.textLine, IF t.overrun THEN Nothing ELSE Parsed(t.textLine))
  /\ UNCHANGED <<hostVars, rxRing, lost, baud, verdicts, noise>>

TakeLine ==
  /\ doing = Nothing
  /\ Nextline # 0
  /\ chunk' = SubSeq(chunk, Nextline + 1, Len(chunk))
  /\ textLine' = <<>>
  /\ overrun' = FALSE
  /\ \E t \in {Take(SubSeq(chunk, 1, Nextline - 1))} :
       Obey(t.textLine, IF t.overrun THEN Nothing ELSE Parsed(t.textLine))
  /\ UNCHANGED <<hostVars, rxRing, lost, baud, verdicts, noise>>

(* The radio answers: acknowledged or not, the verdict names the id. *)
SendDone ==
  /\ doing.verb = "T"
  /\ verdicts' = Append(verdicts, Head(Last(radioed)).of)
  /\ doing' = Nothing
  /\ UNCHANGED <<hostVars, rxRing, lost, chunk, textLine, overrun, baud, trial, rates, peers, radioed,
                 noise>>

(* The answer left at the old speed; the UART takes the new one, on trial, *)
(* or refuses it.                                                          *)
SetBaud ==
  /\ doing.verb = "U"
  /\ doing' = Nothing
  /\ \/ baud' = doing.baud /\ trial' = 0
     \/ UNCHANGED <<baud, trial>>
  /\ UNCHANGED <<hostVars, rxRing, lost, chunk, textLine, overrun, airVars, noise>>

(* Time passes; a line takes less of it than the patience lasts. *)
Elapse ==
  /\ trial \in 0 .. PATIENCE
  /\ typing = <<>>
  /\ trial' = trial + 1
  /\ UNCHANGED <<hostVars, rxRing, lost, chunk, textLine, overrun, doing, baud, airVars, noise>>

(* A speed the host never spoke at: back to the boot's. *)
Expire ==
  /\ doing = Nothing
  /\ chunk = <<>>
  /\ trial > PATIENCE
  /\ baud' = BOOT_BAUD
  /\ trial' = NoTrial
  /\ UNCHANGED <<hostVars, rxRing, lost, chunk, textLine, overrun, doing, airVars, noise>>

RelayNext ==
  \/ \E c \in HostCommands : HostAsks(c)
  \/ \E b \in Bauds : HostSwitches(b)
  \/ OnSerial \/ Pop \/ TakePart \/ TakeLine \/ SendDone \/ SetBaud \/ Elapse \/ Expire

RelayFairness ==
  /\ WF_relayVars(OnSerial)
  /\ WF_relayVars(Pop \/ TakePart \/ TakeLine)
  /\ WF_relayVars(SendDone)
  /\ WF_relayVars(SetBaud)
  /\ WF_relayVars(Elapse)
  /\ WF_relayVars(Expire)

RelaySpec == RelayInit /\ [][RelayNext]_relayVars /\ RelayFairness

-----------------------------------------------------------------------------
(* Properties *)

(* What goes on the air is a datagram exactly as one line of the host said *)
(* it, in the order of the lines: no line's head with another one's text,  *)
(* none cut short, whatever the speed did around it.                       *)
DatagramsWhole ==
  /\ \A i \in DOMAIN radioed :
       radioed[i] = <<[of |-> Head(radioed[i]).of, part |-> "head"],
                    [of |-> Head(radioed[i]).of, part |-> "text"]>>
  /\ \A i, j \in DOMAIN radioed : i < j => Head(radioed[i]).of < Head(radioed[j]).of

(* "a host that keeps six outstanding never overruns it": at the line's    *)
(* speed nothing is lost.                                                  *)
NeverOverruns == ~noise => ~lost

(* `P` sets "the air's rate to each peer": those met before it and after. *)
PeersAtTheRate == \A s \in DOMAIN peers : peers[s] = rates

(* Each datagram gets its verdict, while the host speaks at the line's     *)
(* speed.                                                                  *)
Answered == noise \/ Unanswered = {}

(* A speed on trial does not stay so: someone speaks, or it is dropped. *)
TrialOver == trial = NoTrial

(* The relay sends what the host said, loses nothing, and at the rate set. *)
RelayFaithful == DatagramsWhole /\ NeverOverruns /\ PeersAtTheRate
=============================================================================
