------------------------------- MODULE Ld2410 -------------------------------
(***************************************************************************)
(* The LD2410 presence radar: the streaming, resynchronising parser and    *)
(* the command encoder (rusty_esp_signal-core, radar/ld2410.rs), fed by    *)
(* the two UART drivers (rusty_esp_signal-esp, idf/ld2410.rs and           *)
(* hal/ld2410.rs).  Bytes are numbers; the lengths of the blocks are       *)
(* constants, so that a small instance keeps the framing and the limits.   *)
(* The module and the line, which may garble or lose a byte, are external. *)
(***************************************************************************)
EXTENDS Naturals, Sequences, SequencesExt, FiniteSetsExt

CONSTANTS
  GATES,       \* distance gates
  BASIC_LEN,   \* bytes of the basic target block
  MAX_DATA,    \* largest length field accepted
  MAX_EXTRA,   \* reserved bytes kept of an engineering report
  Reads,       \* how many bytes a read may find, at most
  Drivers,     \* the drivers explored: a subset of {"idf", "hal"}
  Garbage,     \* what the line may turn a byte into
  MaxFaults,   \* bound: bytes garbled or lost
  MaxFrames    \* bound: frames sent

ASSUME Ld2410Assumption ==
  /\ {GATES, BASIC_LEN, MaxFrames} \cup Reads \subseteq Nat \ {0}
  /\ {MAX_DATA, MAX_EXTRA, MaxFaults} \subseteq Nat
  /\ Drivers \subseteq {"idf", "hal"}
  /\ Garbage \subseteq 0..255

MIN_DATA == 2
FRAMING == 10

Header(kind) == IF kind = "Report" THEN <<244, 243, 242, 241>> ELSE <<253, 252, 251, 250>>
TailOf(kind) == IF kind = "Report" THEN <<248, 247, 246, 245>> ELSE <<4, 3, 2, 1>>

Le16(bytes, at) == bytes[at] + 256 * bytes[at + 1]
Le(v) == <<v % 256, v \div 256>>

-----------------------------------------------------------------------------
(* Bodies *)

Invalid == [kind |-> "InvalidFormat"]
Unsupported == [kind |-> "Unsupported"]

(* Engineering::parse, of the bytes between the basic block and the trailer. *)
ParseEngineering(bytes) ==
  LET moving     == bytes[1] + 1
      stationary == bytes[2] + 1
      extra      == Len(bytes) - 2 - moving - stationary
  IN  IF Len(bytes) < 2 \/ moving > GATES \/ stationary > GATES \/ Len(bytes) < 2 + moving + stationary
      THEN Invalid
      ELSE [kind |-> "Engineering",
            moving |-> SubSeq(bytes, 3, 2 + moving),
            stationary |-> SubSeq(bytes, 3 + moving, 2 + moving + stationary),
            extra |-> SubSeq(bytes, 3 + moving + stationary,
                             2 + moving + stationary + (IF extra < MAX_EXTRA THEN extra ELSE MAX_EXTRA))]

(* Report::parse: the markers, the basic block, then what its type allows. *)
ParseReport(data) ==
  LET n           == Len(data)
      after_basic == SubSeq(data, 3 + BASIC_LEN, n - 2)
      report(eng) == [kind |-> "Report", state |-> data[3] % 4, engineering |-> eng]
  IN  IF n < 2 \/ data[2] # 170 \/ n < 4 \/ SubSeq(data, n - 1, n) # <<85, 0>> \/ n - 4 < BASIC_LEN
      THEN Invalid
      ELSE CASE data[1] = 2 -> IF after_basic = <<>> THEN report(<<>>) ELSE Invalid
             [] data[1] = 1 -> IF ParseEngineering(after_basic) = Invalid THEN Invalid
                               ELSE report(<<ParseEngineering(after_basic)>>)
             [] OTHER -> Unsupported

(* Ack::parse: the ACK bit is taken off the word. *)
ParseAck(data) ==
  IF Len(data) < 4 \/ data[2] % 2 = 0 THEN Invalid
  ELSE [kind |-> "Ack", word |-> Le16(data, 1) - 256, ok |-> Le16(data, 3) = 0,
        payload |-> SubSeq(data, 5, Len(data))]

Decode(kind, data) == IF kind = "Report" THEN ParseReport(data) ELSE ParseAck(data)

(* Ack::expect, then the reading of the ReadParameters reply. *)
Expect(ack, word) == ack.word = word /\ ack.ok

Parameters(ack) ==
  LET p     == ack.payload
      gates == p[2] + 1
  IN  IF ~Expect(ack, 97) \/ Len(p) < 4 \/ p[1] # 170 \/ gates > GATES \/ Len(p) < 4 + 2 * gates + 2
      THEN Invalid
      ELSE [kind |-> "Parameters",
            moving |-> SubSeq(p, 5, 4 + gates),
            stationary |-> SubSeq(p, 5 + gates, 4 + 2 * gates),
            no_one_secs |-> Le16(p, 5 + 2 * gates)]

-----------------------------------------------------------------------------
(* The streaming parser *)

NewStats == [frames |-> 0, resyncs |-> 0, dropped |-> 0, malformed |-> 0]

NewParser == [state |-> "Header", kind |-> "Report", matched |-> 0, len |-> 0,
              buf |-> <<>>, stats |-> NewStats]

(* Parser::start: a possible first header byte. *)
Start(p, byte) ==
  IF \E kind \in {"Report", "Command"} : Header(kind)[1] = byte
  THEN [p EXCEPT !.state = "Header", !.matched = 1,
                 !.kind = IF byte = Header("Report")[1] THEN "Report" ELSE "Command"]
  ELSE [p EXCEPT !.state = "Header", !.matched = 0, !.stats.dropped = @ + 1]

(* Parser::abandon, then Parser::start with the offending byte. *)
Restart(p, consumed, byte) ==
  Start([p EXCEPT !.state = "Header", !.matched = 0, !.len = 0, !.buf = <<>>,
                  !.stats.resyncs = @ + 1, !.stats.dropped = @ + consumed], byte)

StepHeader(p, byte) ==
  CASE p.matched = 0 -> Start(p, byte)
    [] p.matched > 0 /\ Header(p.kind)[p.matched + 1] # byte -> Restart(p, p.matched, byte)
    [] p.matched = 3 /\ Header(p.kind)[4] = byte -> [p EXCEPT !.state = "Len", !.matched = 0, !.len = 0]
    [] OTHER -> [p EXCEPT !.matched = @ + 1]

StepLenUnchecked(p, byte) ==   \* mutant
  LET len == p.len + byte * (IF p.matched = 0 THEN 1 ELSE 256)
  IN  IF p.matched = 0 THEN [p EXCEPT !.len = len, !.matched = 1]
      ELSE [p EXCEPT !.len = len, !.matched = 2, !.state = "Data", !.buf = <<>>]

StepLen(p, byte) ==
  LET len == p.len + byte * (IF p.matched = 0 THEN 1 ELSE 256)
  IN  CASE p.matched = 0 -> [p EXCEPT !.len = len, !.matched = 1]
        [] p.matched = 1 /\ len \in MIN_DATA..MAX_DATA ->
             [p EXCEPT !.len = len, !.matched = 2, !.state = "Data", !.buf = <<>>]
        [] OTHER -> Restart(p, 5, byte)

(* Data bytes taken together: one by Parser::step, a run by feed_slice. *)
TakeData(p, bytes) ==
  LET buf == p.buf \o bytes
  IN  IF Len(buf) >= p.len THEN [p EXCEPT !.buf = buf, !.state = "Tail", !.matched = 0]
      ELSE [p EXCEPT !.buf = buf]

StepTail(p, byte) ==
  CASE TailOf(p.kind)[p.matched + 1] # byte -> Restart(p, 6 + p.len + p.matched, byte)
    [] p.matched = 3 /\ TailOf(p.kind)[4] = byte -> [p EXCEPT !.state = "Header", !.matched = 0]
    [] OTHER -> [p EXCEPT !.matched = @ + 1]

Step(p, byte) ==
  CASE p.state = "Header" -> StepHeader(p, byte)
    [] p.state = "Len"    -> StepLen(p, byte)
    [] p.state = "Data"   -> TakeData(p, <<byte>>)
    [] p.state = "Tail"   -> StepTail(p, byte)

(* The byte completes a frame: Parser::step returned true. *)
Completes(p, byte) == p.state = "Tail" /\ p.matched = 3 /\ TailOf(p.kind)[4] = byte

(* Parser::emit: the completed body decoded and counted. *)
Emit(p) ==
  IF Decode(p.kind, p.buf).kind \in {"Report", "Ack"}
  THEN [p EXCEPT !.stats.frames = @ + 1]
  ELSE [p EXCEPT !.stats.malformed = @ + 1]

(* Parser::feed: the parser after a byte, and the frame it completed. *)
Feed(p, byte) == IF Completes(p, byte) THEN Emit(Step(p, byte)) ELSE Step(p, byte)

Frames(p, byte) ==
  IF Completes(p, byte) /\ Decode(p.kind, p.buf).kind \in {"Report", "Ack"}
  THEN <<Decode(p.kind, p.buf)>> ELSE <<>>

HasReport(got) == got # <<>> /\ Last(got).kind = "Report"

(* Bytes fed one by one, all of them or up to the first report: the        *)
(* parser, the frames completed, the bytes fed, and the bytes that the     *)
(* frames and the malformed ones took.                                     *)
RECURSIVE FeedAll(_, _, _)
FeedAll(r, bytes, stop) ==
  IF bytes = <<>> \/ (stop /\ HasReport(r.got)) THEN r
  ELSE FeedAll([p |-> Feed(r.p, Head(bytes)),
                got |-> r.got \o Frames(r.p, Head(bytes)),
                fed |-> r.fed + 1,
                whole |-> r.whole + (IF Completes(r.p, Head(bytes)) THEN FRAMING + r.p.len ELSE 0)],
               Tail(bytes), stop)

Run(p, bytes, stop) == FeedAll([p |-> p, got |-> <<>>, fed |-> 0, whole |-> 0], bytes, stop)

(* The data bytes feed_slice may take at once. *)
DataRun(p, bytes, i) == Min({p.len - Len(p.buf), Len(bytes) - i})

(* Parser::feed_slice: stops after a completed frame; a run of data bytes  *)
(* is taken at once.  Returns the bytes used.                              *)
RECURSIVE FeedSlice(_, _, _)
FeedSlice(p, bytes, i) ==
  CASE i = Len(bytes) -> [p |-> p, used |-> i]
    [] i < Len(bytes) /\ p.state = "Data" /\ DataRun(p, bytes, i) > 1 ->
         FeedSlice(TakeData(p, SubSeq(bytes, i + 1, i + DataRun(p, bytes, i))),
                   bytes, i + DataRun(p, bytes, i))
    [] OTHER -> IF Completes(p, bytes[i + 1])
                THEN [p |-> Feed(p, bytes[i + 1]), used |-> i + 1]
                ELSE FeedSlice(Step(p, bytes[i + 1]), bytes, i + 1)

-----------------------------------------------------------------------------
(* Commands *)

MAX_GATE == GATES - 1
MAX_SENSITIVITY == 100

(* A command: its word, and the values it carries (each with its width). *)
Plain(word) == [word |-> word, values |-> <<>>]
Record(param, value) == Le(param) \o Le(value % 65536) \o Le(value \div 65536)

EnableConfig   == [word |-> 255, values |-> <<1, 0>>]
EndConfig      == Plain(254)
ReadParameters == Plain(97)
AllGates       == 65535   \* Gate::All, the only value past the u8 indices
SetSensitivity(gate, moving, stationary) ==
  [word |-> 100, gate |-> gate, moving |-> moving, stationary |-> stationary,
   values |-> Record(0, gate) \o Record(1, moving) \o Record(2, stationary)]

(* Command::validate, of the command that carries a gate. *)
Valid(cmd) ==
  cmd.word = 100 =>
    /\ cmd.gate = AllGates \/ cmd.gate <= MAX_GATE
    /\ cmd.moving <= MAX_SENSITIVITY
    /\ cmd.stationary <= MAX_SENSITIVITY

(* Command::encode, of a valid command into a buffer that is long enough. *)
Encode(cmd) ==
  Header("Command") \o Le(2 + Len(cmd.values)) \o Le(cmd.word) \o cmd.values \o TailOf("Command")

Framed(kind, data) == Header(kind) \o Le(Len(data)) \o data \o TailOf(kind)

-----------------------------------------------------------------------------
(* A driver reading the module *)

VARIABLES
  driver,   \* which driver, fixed in a behaviour
  line,     \* the bytes that have arrived and were not read
  parser,
  shown,    \* the caller's last report, or NoReport
  asked,    \* the word of the command sent and not yet answered, or 0
  fed,      \* history: bytes fed to the parser
  whole,    \* history: bytes of the frames completed
  latest,   \* history: the body of the last frame sent
  faults,   \* bytes garbled or lost
  clean,    \* frames sent whole since the last fault
  sent      \* frames sent

radarVars == <<driver, line, parser, shown, asked, fed, whole, latest, faults, clean, sent>>

NoReport == [kind |-> "None"]

RadarInit ==
  /\ driver \in Drivers
  /\ line = <<>>
  /\ parser = NewParser
  /\ shown = NoReport
  /\ asked = 0
  /\ fed = 0 /\ whole = 0 /\ latest = <<>>
  /\ faults = 0 /\ clean = 0 /\ sent = 0

(* The module's reports: a basic one, one whose body holds a header byte,  *)
(* an engineering one with more reserved bytes than are kept, and one of a *)
(* type the parser does not know.                                          *)
Basic(state) == <<2, 170>> \o [i \in 1..BASIC_LEN |-> state] \o <<85, 0>>
Detailed == <<1, 170>> \o [i \in 1..BASIC_LEN |-> 3] \o <<0, GATES - 1>>
              \o [i \in 1..(1 + GATES + MAX_EXTRA + 1) |-> i] \o <<85, 0>>
Reports == {Basic(1), Basic(244), Detailed, [Basic(2) EXCEPT ![1] = 7]}

(* A frame on the line with one byte lost or garbled. *)
Damaged(bytes) ==
  UNION {{RemoveAt(bytes, i)} \cup {[bytes EXCEPT ![i] = g] : g \in Garbage \ {bytes[i]}} : i \in 1..Len(bytes)}

Arrives(kind, data) ==
  /\ Len(line) < 4
  /\ sent < MaxFrames
  /\ sent' = sent + 1
  /\ latest' = data
  /\ \/ /\ line' = line \o Framed(kind, data)
        /\ clean' = clean + 1
        /\ UNCHANGED faults
     \/ /\ faults < MaxFaults
        /\ \E d \in Damaged(Framed(kind, data)) : line' = line \o d
        /\ faults' = faults + 1
        /\ clean' = 0

Reported ==
  /\ \E data \in Reports : Arrives("Report", data)
  /\ UNCHANGED <<driver, parser, shown, asked, fed, whole>>

(* The caller sends a command the encoder accepts; the module answers it,  *)
(* the parameters with a sensitivity for every gate.                       *)
Commands == {EnableConfig, EndConfig, ReadParameters,
             SetSensitivity(AllGates, 40, MAX_SENSITIVITY), SetSensitivity(MAX_GATE + 1, 40, 40)}

Answer(cmd) ==
  Le(cmd.word + 256) \o <<0, 0>> \o
    (IF cmd.word = ReadParameters.word
     THEN <<170, MAX_GATE, 1, 1>> \o [i \in 1..(2 * GATES) |-> i] \o <<5, 0>> ELSE <<>>)

CommandSent ==
  /\ asked = 0
  /\ \E cmd \in Commands :
       /\ Valid(cmd)
       /\ asked' = cmd.word
       /\ Arrives("Command", Answer(cmd))
  /\ UNCHANGED <<driver, parser, shown, fed, whole>>

(* A read finds at most n bytes.  What feeding them leaves: the counters'  *)
(* histories, the command answered, and the newest report if there was     *)
(* one.                                                                    *)
Found(n) == SubSeq(line, 1, IF n < Len(line) THEN n ELSE Len(line))

Fed(n, stop) ==
  \E out \in {Run(parser, Found(n), stop)} :
  \E reports \in {SelectSeq(out.got, LAMBDA f : f.kind = "Report")} :
    /\ parser' = out.p
    /\ shown' = IF reports = <<>> THEN shown ELSE Last(reports)
    /\ asked' = IF \E f \in Range(out.got) : f.kind = "Ack" /\ Expect(f, asked) THEN 0 ELSE asked
    /\ fed' = fed + out.fed
    /\ whole' = whole + out.whole
    /\ line' = SubSeq(line, n + 1, Len(line))
    /\ UNCHANGED <<driver, latest, faults, clean, sent>>

(* Every byte of the read is fed; the newest report is returned. *)
IdfPoll(n) == driver = "idf" /\ Fed(n, FALSE)

(* next_report returns from the middle of a read: what the read holds      *)
(* beyond the report is never fed.                                         *)
HalPoll(n) == driver = "hal" /\ Fed(n, TRUE)

RadarNext ==
  \/ Reported
  \/ CommandSent
  \/ line # <<>> /\ \E n \in Reads : IdfPoll(n)
  \/ line # <<>> /\ \E n \in Reads : HalPoll(n)

RadarSpec == RadarInit /\ [][RadarNext]_radarVars

-----------------------------------------------------------------------------
(* What the reader relies on *)

(* Bytes the parser holds of a frame it has not finished. *)
InProgress(p) ==
  CASE p.state = "Header" -> p.matched
    [] p.state = "Len"    -> 4 + p.matched
    [] p.state = "Data"   -> 6 + Len(p.buf)
    [] p.state = "Tail"   -> 6 + p.len + p.matched

(* Every byte fed is accounted for once: in a frame completed (decoded or  *)
(* malformed), in the frame in progress, or in Stats::dropped, through     *)
(* every resync.                                                           *)
EveryByteCounted == fed = whole + parser.stats.dropped + InProgress(parser)

(* The buffer never holds more than the longest body, whatever the length  *)
(* field said, and the parser never waits for more.                        *)
BufferBounded ==
  /\ Len(parser.buf) <= MAX_DATA
  /\ parser.state = "Data" => Len(parser.buf) < parser.len

(* Frames a wrong length field can swallow before the parser hunts again,  *)
(* and one more that is then read.                                         *)
HealAfter == (MAX_DATA + 6) \div (FRAMING + 4) + 1

(* After a damaged byte the stream heals: once HealAfter whole frames have *)
(* been read the parser is at a frame's boundary, and the caller has the   *)
(* report that frame carried.                                              *)
Heals ==
  driver = "idf" /\ line = <<>> /\ clean >= HealAfter =>
    /\ InProgress(parser) = 0
    /\ latest \in Reports /\ ParseReport(latest) # Unsupported => shown = ParseReport(latest)

(* feed_slice is feed: over whatever the line holds it stops at the same   *)
(* byte, with the same parser and counters.                                *)
SliceAgrees ==
  LET out == FeedSlice(parser, line, 0)
  IN  out.p = Run(parser, SubSeq(line, 1, out.used), FALSE).p

(* On a line without faults the ESP-IDF driver hands every byte on, so the *)
(* parser never resynchronises or drops a byte.  The esp-hal driver does   *)
(* not keep this: what a read holds beyond a report is lost.               *)
CleanLineStaysInStep ==
  driver = "idf" /\ faults = 0 => parser.stats.resyncs = 0 /\ parser.stats.dropped = 0
=============================================================================
