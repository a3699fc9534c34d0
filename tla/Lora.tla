-------------------------------- MODULE Lora --------------------------------
(***************************************************************************)
(* LoRa: time on air, the region's limits and the sliding airtime budget   *)
(* (rusty_esp_signal-core, lora.rs), and the link that sends sealed frames *)
(* under them (rusty_esp_signal-esp, lora.rs).                             *)
(*                                                                         *)
(* Time is in units of 64 microseconds, in which every symbol time and     *)
(* preamble of the three bandwidths is exact.                              *)
(***************************************************************************)
EXTENDS FixedPoint

CONSTANTS
  Regions,      \* regulatory regions: [permille, dwell, power, low, high]; 0 for no limit
  ModemParams,  \* modem settings: [sf, bw, cr, freq, power, preamble, explicit, crc, ldro]
  Payloads,     \* lengths of what the application sends
  OVERHEAD,     \* bytes the sealed envelope adds to a payload
  DUTY_WINDOW,  \* the window the duty cycle is measured over
  DUTY_RING_LEN,
  Pauses,       \* times a caller may wait
  MaxSends      \* transmissions of one run

ASSUME LoraAssumption ==
  /\ DUTY_RING_LEN \in Nat /\ DUTY_RING_LEN > 1
  /\ DUTY_WINDOW \in Nat
  /\ Regions \subseteq [permille : Nat, dwell : Nat, power : Int, low : Nat, high : Nat]
  /\ ModemParams \subseteq [sf : 7..12, bw : {1, 2, 4}, cr : 1..4, freq : Nat, power : Int,
                            preamble : Nat, explicit : BOOLEAN, crc : BOOLEAN,
                            ldro : {"On", "Off", "Auto"}]
  /\ Payloads \subseteq Nat /\ OVERHEAD \in Nat
  /\ Pauses \subseteq Nat

MIN_PREAMBLE_SYMBOLS == 6
LDRO_THRESHOLD == 256     \* 16.38 ms, rounded up to a symbol time's grid

CeilDiv(a, b) == (a + b - 1) \div b

-----------------------------------------------------------------------------
(* Time on air *)

(* symbol_micros: 2^SF / BW, with bw in units of 125 kHz. *)
Symbol(p) == (2^p.sf \div 8) \div p.bw

LdroEnabled(p) == p.ldro = "On" \/ (p.ldro = "Auto" /\ Symbol(p) >= LDRO_THRESHOLD)

Preamble(p) == ((4 * p.preamble + 17) * Symbol(p)) \div 4

(* Semtech's payload symbols; a numerator that is not positive adds none. *)
PayloadSymbols(p, len) ==
  LET numerator   == 8 * len - 4 * p.sf + 28 + (IF p.crc THEN 16 ELSE 0) - (IF p.explicit THEN 0 ELSE 20)
      denominator == 4 * (p.sf - (IF LdroEnabled(p) THEN 2 ELSE 0))
      blocks      == IF numerator <= 0 THEN 0 ELSE CeilDiv(numerator, denominator)
  IN  8 + blocks * (p.cr + 4)

Airtime(p, len) == Preamble(p) + PayloadSymbols(p, len) * Symbol(p)

(* Params::validate *)
Validate(p, r) ==
  /\ p.freq \in r.low..r.high
  /\ p.power <= r.power
  /\ p.preamble >= MIN_PREAMBLE_SYMBOLS
  /\ r.dwell = 0 \/ Airtime(p, 0) <= r.dwell

-----------------------------------------------------------------------------
(* DutyCycle *)

VARIABLES
  region, params,   \* fixed
  duty,             \* the slots remembered, oldest first: [at, airtime]
  time,             \* the device's clock
  aired             \* history: what has been on the air, [at, airtime], oldest first

loraVars == <<region, params, duty, time, aired>>

LoraInit ==
  /\ region \in Regions
  /\ params \in {p \in ModemParams : Validate(p, region)}
  /\ duty = <<>>
  /\ time = 0
  /\ aired = <<>>

Budget == (DUTY_WINDOW \div 1000) * region.permille

(* expire: the oldest entries that have left the window. *)
Expired(d, now) ==
  LET gone == {i \in 0..Len(d) : \A j \in 1..i : now - d[j].at >= DUTY_WINDOW}
  IN  SubSeq(d, Max(gone) + 1, Len(d))

(* used_micros *)
Used(d, now) ==
  SumOf([i \in 1..Len(d) |-> IF now - d[i].at < DUTY_WINDOW THEN d[i].airtime ELSE 0])

RecordedEvicting(d, now, airtime) ==   \* mutant
  Append(IF Len(d) = DUTY_RING_LEN THEN Tail(d) ELSE d, [at |-> now, airtime |-> airtime])

(* push: a full ring merges its oldest into the next. *)
Recorded(d, now, airtime) ==
  LET kept == IF Len(d) = DUTY_RING_LEN
              THEN [Tail(d) EXCEPT ![1].airtime = @ + d[1].airtime]
              ELSE d
  IN  Append(kept, [at |-> now, airtime |-> airtime])

(* DutyCycle::try_send *)
TrySend(d, now, airtime) ==
  LET e == Expired(d, now)
  IN  IF region.dwell # 0 /\ airtime > region.dwell
      THEN [result |-> "Unsupported", duty |-> d]
      ELSE IF region.permille # 0 /\ Used(e, now) + airtime > Budget
      THEN [result |-> "Busy", duty |-> e]
      ELSE [result |-> "Ok", duty |-> Recorded(e, now, airtime)]

(* Moments a caller may choose: now, after a pause, or when an old         *)
(* transmission leaves the window or is just about to; past the last one's *)
(* leaving nothing is remembered.                                          *)
Moments ==
  {t \in {time} \cup {time + d : d \in Pauses}
           \cup {aired[i].at + DUTY_WINDOW - e : i \in 1..Len(aired), e \in {0, 1}} :
       t = time \/ (t > time /\ aired # <<>> /\ t <= Last(aired).at + DUTY_WINDOW)}

(* The caller clears the budget for the frame as sealed (the payload alone *)
(* would be OVERHEAD bytes short), then LoraLink::send is back when the    *)
(* frame has left the antenna.                                             *)
Send ==
  /\ Len(aired) < MaxSends
  /\ \E len \in Payloads, now \in Moments :
       LET frame   == len + OVERHEAD
           onAir   == Airtime(params, frame)
           cleared == TrySend(duty, now, onAir)
       IN  /\ duty' = cleared.duty
           /\ IF cleared.result = "Ok"
              THEN /\ aired' = Append(aired, [at |-> now, airtime |-> onAir])
                   /\ time' = now + onAir
              ELSE /\ time' = now
                   /\ UNCHANGED aired
  /\ UNCHANGED <<region, params>>

LoraNext == Send

LoraSpec == LoraInit /\ [][LoraNext]_loraVars

-----------------------------------------------------------------------------

(* What was on the air between two times. *)
OnAir(from, to) ==
  SumOf([i \in 1..Len(aired) |->
           Max({0, Min({to, aired[i].at + aired[i].airtime}) - Max({from, aired[i].at})})])

(* The region's duty cycle is a legal limit over any window, also one that *)
(* begins inside a transmission: an entry leaves the ring by its start,    *)
(* and the full ring merges entries, and neither may let the air carry     *)
(* more than the budget.                                                   *)
DutyCycleKept ==
  region.permille # 0 =>
    \A from \in {aired[i].at : i \in 1..Len(aired)}
                  \cup {aired[i].at + aired[i].airtime - DUTY_WINDOW : i \in 1..Len(aired)} :
      OnAir(from, from + DUTY_WINDOW) <= Budget

(* "The approximation therefore only ever over-counts": what the ring says *)
(* was used is at least what was sent in the window by its start.          *)
RingOverCounts ==
  Used(duty, time) >= SumOf([i \in 1..Len(aired) |->
                               IF time - aired[i].at < DUTY_WINDOW THEN aired[i].airtime ELSE 0])

(* Time on air loses nothing to its divisions, at every spreading factor   *)
(* and bandwidth: the preamble is n + 4.25 symbols, and the automatic low  *)
(* data rate optimisation is the driver's hard-coded rule.                 *)
AirtimeExact ==
  \A sf \in 7..12, bw \in {1, 2, 4} :
    LET p == [params EXCEPT !.sf = sf, !.bw = bw, !.ldro = "Auto"]
    IN  /\ Symbol(p) * bw * 8 = 2^sf
        /\ 4 * Preamble(p) = (4 * p.preamble + 17) * Symbol(p)
        /\ LdroEnabled(p) <=> <<sf, bw>> \in {<<11, 1>>, <<12, 1>>, <<12, 2>>}
        /\ \A len \in Payloads : Airtime(p, len) <= Airtime(p, len + 1)

(* The ring over-counts, the air stays within the region's limit, and what *)
(* has been sent was timed exactly.                                        *)
AirtimeBudgeted ==
  RingOverCounts /\ DutyCycleKept /\ (aired # <<>> => AirtimeExact)
=============================================================================
