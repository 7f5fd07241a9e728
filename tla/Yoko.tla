-------------------------------- MODULE Yoko --------------------------------
(***************************************************************************)
(* The probe libenergyyoko: it sets up a Yokogawa WT210 power meter over a *)
(* serial line and asks it for its energy counter at start and at stop     *)
(* (yokosrv.c). The meter is external: it treats commands in their order,  *)
(* holds them while it waits for an update of its values, and answers.     *)
(*                                                                         *)
(* A write that fails is only reported; a read that fails (a signal of the *)
(* daemon interrupts it, the line is gone) gives the value -1, and leaves  *)
(* the answer, or the rest of it, on the line. Energy is counted in units; *)
(* numbers that come from texts are in hundredths of them. The constant    *)
(* factor from Wh to J is left out.                                        *)
(***************************************************************************)
EXTENDS Integers, SequencesExt

CONSTANTS
  MaxDigits,     \* the digits of the numbers that the meter writes
  MaxUnits,      \* bound on the units consumed
  MaxFaults,     \* bound on the writes and reads that fail
  MaxRequests    \* bound on the measurements

ASSUME YokoAssumption ==
  /\ MaxDigits \in Nat \ {0} /\ MaxUnits \in 0 .. 10^MaxDigits - 1
  /\ MaxFaults \in Nat /\ MaxRequests \in Nat

-----------------------------------------------------------------------------
(* The numbers of the WT210, as sequences of characters.                   *)

Figures == {"0", "1", "2", "3", "4", "5", "6", "7", "8", "9"}

\* str[i] - '0', for digits and for what is none.
Value == [c \in Figures \cup {".", "E", "e", "+", "-"} |->
            CASE c = "0" -> 0 [] c = "1" -> 1 [] c = "2" -> 2 [] c = "3" -> 3
              [] c = "4" -> 4 [] c = "5" -> 5 [] c = "6" -> 6 [] c = "7" -> 7
              [] c = "8" -> 8 [] c = "9" -> 9 [] c = "." -> -2
              [] c = "E" -> 21 [] c = "e" -> 53 [] c = "+" -> -5
              [] c = "-" -> -3]

NoField == << >>
NoData == << "9", ".", "9", "E", "+", "3", "7" >>
OverRange == << "9", ".", "9", "1", "E", "+", "3", "7" >>

Num(v) == [kind |-> "num", v |-> v]
NaN == [kind |-> "nan", v |-> 0]
Infinity == [kind |-> "inf", v |-> 0]
Failed == Num(-100)

NextDigit(n, c) == 10 * n + Value[c]
Digits(str, first, last) == FoldLeft(NextDigit, 0, SubSeq(str, first, last))

IsPoint(c) == c = "."
IsExponent(c) == c \in {"e", "E"}

\* The three loops: digits after the point up to the E, digits before the
\* point or the E, and digits of the exponent.
parse_float_str(str) ==
  LET dpos == SelectInSeq(str, IsPoint)
      epos == SelectInSeq(str, IsExponent)
      npos == IF str[1] \in {"-", "+"} THEN 2 ELSE 1
      sign == IF str[1] = "-" THEN -1 ELSE 1
      frac == IF dpos = 0 \/ epos <= dpos THEN 0 ELSE epos - dpos - 1
      int == Digits(str, npos, IF dpos = 0 THEN epos - 1 ELSE dpos - 1)
      rest == IF frac = 0 THEN 0 ELSE Digits(str, dpos + 1, epos - 1)
      esign == IF str[epos + 1] = "-" THEN -1 ELSE 1
      enpos == IF str[epos + 1] \in {"-", "+"} THEN epos + 2 ELSE epos + 1
      scale == esign * Digits(str, enpos, Len(str)) - frac + 2
      digits == sign * (int * 10^frac + rest)
  IN CASE str = NoField -> Failed
       [] str = NoData -> NaN
       [] str = OverRange -> Infinity
       [] OTHER -> Num(IF scale >= 0 THEN digits * 10^scale
                                     ELSE digits \div 10^(-scale))

\* A number in MaxDigits digits, and the ways the meter writes it: as it is, as
\* a fraction whose exponent is the number x of its digits, and as tenths.
Decimals(n) ==
  {d \in [1 .. MaxDigits -> Figures] : Digits(d, 1, MaxDigits) = n}
Plain(d) == d \o << ".", "0", "E", "+", "0" >>
Fraction(d, x) == << "+", "0", "." >> \o d \o << "E" >> \o x
Tenths(d) == d \o << "0", ".", "0", "E", "-", "1" >>

TextsOf(n) ==
  {Plain(d) : d \in Decimals(n)} \cup {Tenths(d) : d \in Decimals(n)}
    \cup {Fraction(d, x) : d \in Decimals(n), x \in Decimals(MaxDigits)}

Texts == [n \in 0 .. MaxUnits |-> TextsOf(n)]
AnyText == {NoField, NoData, OverRange} \cup Texts[MaxUnits]

Read == [str \in AnyText \cup UNION Range(Texts) |->
           parse_float_str(str)]

-----------------------------------------------------------------------------
\* The meter's second wait is for an event that nothing has asked for.
SetupNoArm ==
  << "reset", "other", "item", "zero", "start", "arm", "wait", "wait" >>

\* As if the first value of the integration were there after one update.
SetupOneWait ==
  << "reset", "other", "item", "zero", "start", "arm", "wait" >>

\* What yoko_connect sends: "other" stands for the settings of the ranges and
\* the rate, "zero" and "start" are about the integration, and the meter waits
\* for two updates before it treats what comes next.
SetupCommands ==
  << "reset", "other", "item", "zero", "start", "arm", "wait", "arm", "wait" >>

Paths == 1 .. 2    \* DEFAULT_COM_PATHS

VARIABLES
  pc,        \* what the probe is doing
  path,      \* the next path to open
  ctx,       \* the context is there (FALSE: NULL)
  sent,      \* commands of SetupCommands sent
  line,      \* commands on their way to the meter
  answers,   \* answers on their way back
  meter,     \* the meter
  last_e,    \* the value of the last request
  e,         \* the result
  measures,  \* measurements begun
  faults,    \* writes and reads that failed
  cut,       \* a read was given up within an answer
  reported,  \* the sum of the results that are numbers
  span       \* the meter's energy when start and stop began and returned, and
             \* whether stop has read a value

lineVars == << line, answers >>
probeVars == << path, ctx, sent, last_e, e, measures >>
ghosts == << cut, reported, span >>
yokoVars == << pc, probeVars, lineVars, meter, faults, ghosts >>

PCs == {"off", "open", "configure", "setup", "drain", "idle", "start",
        "measuring", "stop", "over"}

YokoInit ==
  /\ pc = "off" /\ path = 1 /\ ctx = FALSE /\ sent = 0
  /\ line = << >> /\ answers = << >>
  /\ meter = [item |-> FALSE, integrating |-> FALSE, armed |-> "no",
              updates |-> 0, energy |-> 0]
  /\ last_e = Num(0) /\ e = Num(0)
  /\ measures = 0 /\ faults = 0
  /\ cut = FALSE /\ reported = 0
  /\ span = [from |-> 0, after |-> 0, before |-> 0, until |-> 0,
             ok |-> FALSE]

-----------------------------------------------------------------------------
(* init: yoko_connect.                                                     *)

BeginConnect ==
  /\ pc = "off" /\ pc' = "open"
  /\ UNCHANGED << probeVars, lineVars, meter, faults, ghosts >>

OpenPath ==
  /\ pc = "open" /\ pc' = "configure"
  /\ UNCHANGED << probeVars, lineVars, meter, faults, ghosts >>

\* The next path, or no context: init returns its data all the same.
OpenPathFails ==
  /\ pc = "open"
  /\ IF path + 1 \in Paths THEN path' = path + 1 /\ UNCHANGED pc
                           ELSE pc' = "idle" /\ UNCHANGED path
  /\ UNCHANGED << ctx, sent, last_e, e, measures, lineVars, meter, faults,
                  ghosts >>

\* The attributes of the port: read, changed, set, and the buffers emptied.
Configure ==
  /\ pc = "configure" /\ pc' = "setup"
  /\ UNCHANGED << probeVars, lineVars, meter, faults, ghosts >>

ConnectFails ==
  /\ pc \in {"configure", "drain"}
  /\ pc' = "idle"
  /\ UNCHANGED << probeVars, lineVars, meter, faults, ghosts >>

\* A command is written, or its loss is printed.
send_cmd(cmd) ==
  \/ line' = Append(line, cmd) /\ UNCHANGED faults
  \/ faults < MaxFaults /\ faults' = faults + 1 /\ UNCHANGED line

SetUp ==
  /\ pc = "setup"
  /\ sent < Len(SetupCommands)
  /\ send_cmd(SetupCommands[sent + 1])
  /\ sent' = sent + 1
  /\ pc' = IF sent' = Len(SetupCommands) THEN "drain" ELSE "setup"
  /\ UNCHANGED << path, ctx, last_e, e, measures, answers, meter, ghosts >>

Drain ==
  /\ pc = "drain" /\ pc' = "idle"
  /\ ctx' = TRUE
  /\ UNCHANGED << path, sent, last_e, e, measures, lineVars, meter, faults,
                  ghosts >>

-----------------------------------------------------------------------------
(* start, stop and fini.                                                   *)

\* read_measurement without a context is -1.
StartNoContext ==
  /\ pc = "idle" /\ ~ctx /\ measures < MaxRequests
  /\ pc' = "measuring"
  /\ measures' = measures + 1
  /\ UNCHANGED << path, ctx, sent, last_e, e, lineVars, meter, faults,
                  ghosts >>

StopNoContext ==
  /\ pc = "measuring" /\ ~ctx
  /\ pc' = "idle"
  /\ e' = Num(0)
  /\ UNCHANGED << path, ctx, sent, last_e, measures, lineVars, meter, faults,
                  ghosts >>

Start ==
  /\ pc = "idle" /\ ctx /\ measures < MaxRequests
  /\ send_cmd("ask")
  /\ pc' = "start"
  /\ measures' = measures + 1
  /\ span' = [span EXCEPT !.from = meter.energy]
  /\ UNCHANGED << path, ctx, sent, last_e, e, answers, meter, cut, reported >>

Stop ==
  /\ pc = "measuring" /\ ctx
  /\ send_cmd("ask")
  /\ pc' = "stop"
  /\ span' = [span EXCEPT !.before = meter.energy]
  /\ UNCHANGED << path, ctx, sent, last_e, e, measures, answers, meter, cut,
                  reported >>

\* cur == NAN is never true: only negative values and Infinity are errors.
IsError(cur) == cur.kind = "inf" \/ cur.v < 0

Minus(a, b) == IF a.kind = "num" /\ b.kind = "num" THEN Num(a.v - b.v) ELSE NaN

LastKept(cur) == last_e

LastRead(cur) == IF IsError(cur) THEN last_e ELSE cur

\* yoko_read_energy returns, at the end of start or of stop.
ReadEnergy(cur) ==
  LET res == IF IsError(cur) THEN Num(0) ELSE Minus(cur, last_e)
  IN /\ last_e' = LastRead(cur)
     /\ IF pc = "start"
          THEN /\ pc' = "measuring"
               /\ span' = [span EXCEPT !.after = meter.energy]
               /\ UNCHANGED << e, reported >>
          ELSE /\ pc' = "idle"
               /\ e' = res
               /\ reported' = reported + (IF res.kind = "num" THEN res.v ELSE 0)
               /\ span' = [span EXCEPT !.until = meter.energy,
                                      !.ok = ~IsError(cur)]
     /\ UNCHANGED << path, ctx, sent, measures, meter >>

\* send_req reads the first answer there is, to its end.
ReadAnswer ==
  /\ pc \in {"start", "stop"}
  /\ answers # << >>
  /\ answers' = Tail(answers)
  /\ ReadEnergy(Read[Head(answers)])
  /\ UNCHANGED << line, faults, cut >>

\* Nothing was read, or the rest of the answer stays.
ReadFails ==
  /\ pc \in {"start", "stop"}
  /\ faults < MaxFaults /\ faults' = faults + 1
  /\ \/ UNCHANGED << answers, cut >>
     \/ /\ answers # << >>
        /\ \E rest \in AnyText : answers' = << rest >> \o Tail(answers)
        /\ cut' = TRUE
  /\ ReadEnergy(Failed)
  /\ UNCHANGED line

Disconnect ==
  /\ pc = "idle" /\ pc' = "over"
  /\ UNCHANGED << probeVars, lineVars, meter, faults, ghosts >>

-----------------------------------------------------------------------------
(* The meter.                                                              *)

\* The answer to MEAS:NORM:VAL?: integration needs two values.
Answer ==
  IF ~meter.integrating \/ meter.updates < 2 THEN {NoData}
  ELSE IF ~meter.item THEN AnyText
  ELSE Texts[meter.energy]

\* COMM:WAIT holds the commands until the event that was armed has come.
MeterReady == Head(line) = "wait" => meter.armed = "seen"

MeterStep ==
  /\ line # << >> /\ MeterReady
  /\ line' = Tail(line)
  /\ meter' =
       CASE Head(line) = "reset" ->
              [meter EXCEPT !.item = FALSE, !.integrating = FALSE]
         [] Head(line) = "item" -> [meter EXCEPT !.item = TRUE]
         [] Head(line) = "zero" -> [meter EXCEPT !.updates = 0]
         [] Head(line) = "start" -> [meter EXCEPT !.integrating = TRUE]
         [] Head(line) = "arm" -> [meter EXCEPT !.armed = "armed"]
         [] Head(line) = "wait" -> [meter EXCEPT !.armed = "no"]
         [] OTHER -> meter
  /\ IF Head(line) = "ask"
       THEN \E text \in Answer : answers' = Append(answers, text)
       ELSE UNCHANGED answers
  /\ UNCHANGED << pc, probeVars, faults, ghosts >>

MeterUpdate ==
  /\ meter.armed = "armed" \/ (meter.integrating /\ meter.updates < 2)
  /\ meter' = [meter EXCEPT
                 !.updates = IF meter.integrating /\ @ < 2 THEN @ + 1 ELSE @,
                 !.armed = IF @ = "armed" THEN "seen" ELSE @]
  /\ UNCHANGED << pc, probeVars, lineVars, faults, ghosts >>

Consume ==
  /\ meter.integrating /\ meter.energy < MaxUnits
  /\ meter' = [meter EXCEPT !.energy = @ + 1]
  /\ UNCHANGED << pc, probeVars, lineVars, faults, ghosts >>

-----------------------------------------------------------------------------
Connect ==
  OpenPath \/ OpenPathFails \/ Configure \/ SetUp \/ Drain \/ ConnectFails
Meter == MeterStep \/ MeterUpdate

YokoNext ==
  \/ BeginConnect \/ Connect
  \/ StartNoContext \/ StopNoContext \/ Start \/ Stop
  \/ ReadAnswer \/ ReadFails \/ Disconnect
  \/ Meter \/ Consume

YokoSpec == YokoInit /\ [][YokoNext]_yokoVars

\* The probe runs on once it is called, and the meter does its work. Nobody
\* has to call the probe, and neither faults nor consumption have to happen.
YokoFairSpec ==
  /\ YokoSpec
  /\ WF_yokoVars(Connect) /\ WF_yokoVars(ReadAnswer)
  /\ WF_yokoVars(MeterStep) /\ WF_yokoVars(MeterUpdate)

-----------------------------------------------------------------------------
(* Properties.                                                             *)

Numbers == [kind : {"num", "nan", "inf"}, v : Int]

YokoTypeOK ==
  /\ pc \in PCs
  /\ path \in Paths /\ ctx \in BOOLEAN /\ cut \in BOOLEAN
  /\ sent \in 0 .. Len(SetupCommands)
  /\ line \in Seq({"ask"} \cup {SetupCommands[i] : i \in DOMAIN SetupCommands})
  /\ last_e \in Numbers /\ e \in Numbers
  /\ measures \in 0 .. MaxRequests /\ faults \in 0 .. MaxFaults

\* "The energy consumed since last measurement": without a fault the result
\* of a measurement holds all that was consumed between the return of start
\* and the call of stop, and nothing from before start or after stop.
OwnEnergy ==
  (pc = "idle" /\ ctx /\ measures > 0 /\ faults = 0) =>
    /\ e.kind = "num"
    /\ e.v >= 100 * (span.before - span.after)
    /\ e.v <= 100 * (span.until - span.from)

\* "Reads the current energy counter": a request that is answered gets the
\* counter as it was after the request was made, not the answer to one that
\* was given up before. No run checks it: it does not hold, because an answer
\* that comes too late stays on the line.
ReadsCurrent ==
  (pc = "idle" /\ span.ok /\ meter.item /\ ~cut /\ last_e.kind = "num") =>
    last_e.v >= 100 * span.before

\* No unit is in two results, whichever requests fail and however late the
\* answers are read: the results together are at most what was consumed.
NoDoubleCount ==
  (~ctx \/ (meter.item /\ ~cut)) => reported <= 100 * meter.energy

\* start and stop return, unless a command was lost or a read failed.
RequestReturns ==
  pc \in {"start", "stop"} ~> (pc \in {"measuring", "idle"} \/ faults > 0)
=============================================================================
