---------------------------- MODULE Probes_proofs ----------------------------
(***************************************************************************)
(* Proofs about the probes that keep to themselves, for all values of      *)
(* their constants: the widths of the counters, the cores and sockets, the *)
(* powers, and the bounds on time, on measurements and on faults.          *)
(*                                                                         *)
(* Each probe has an inductive invariant of its own, that says what holds  *)
(* between its calls too: in the middle of a loop over sockets or          *)
(* counters, while its thread runs, or with commands still on their way to *)
(* the power meter.                                                        *)
(***************************************************************************)
EXTENDS Yoko, EnergyMsr, PfmCounters, EnergyMic, Clocks, TimerArm,
        CycleCounter, FiniteSetTheorems, FoldTheorems, TLAPS

-----------------------------------------------------------------------------
(* Counters that wrap.                                                     *)

\* The next value of a counter with w values.
LEMMA NextValue ==
  ASSUME NEW w \in Nat \ {0}, NEW x \in 0 .. w - 1
  PROVE  (x + 1) % w = IF x + 1 = w THEN 0 ELSE x + 1
  OBVIOUS

\* A number is that of the wraps below it and the value the counter shows.
LEMMA WrapsAndValue ==
  ASSUME NEW w \in Nat \ {0}, NEW a \in Nat
  PROVE  /\ a % w \in 0 .. w - 1
         /\ a \div w \in Nat
         /\ a = w * (a \div w) + (a % w)
  <1>1. a % w \in 0 .. w - 1
    OBVIOUS
  <1>2. a \div w \in Nat
    OBVIOUS
  <1>3. a = w * (a \div w) + (a % w)
    OBVIOUS
  <1> QED
    BY <1>1, <1>2, <1>3

LEMMA ValueIsInt ==
  ASSUME NEW w \in Nat \ {0}, NEW a \in Nat
  PROVE  a % w \in Int
  OBVIOUS

\* Whole wraps do not show.
LEMMA WholeWraps ==
  ASSUME NEW w \in Nat \ {0}, NEW k \in Int
  PROVE  (w * k) % w = 0
  OBVIOUS

\* A counter that is seen to have fallen has wrapped, and a counter that has
\* moved on by less than w values has wrapped at most once.
LEMMA OneWrap ==
  ASSUME NEW w \in Nat \ {0}, NEW a \in Nat, NEW b \in Nat,
         a <= b, b - a < w
  PROVE  b % w = (a % w) + (b - a) - (IF b % w < a % w THEN w ELSE 0)
  <1> DEFINE p == a \div w
             q == b \div w
             x == a % w
             y == b % w
  <1>1. /\ p \in Nat /\ x \in 0 .. w - 1 /\ a = w * p + x
        /\ q \in Nat /\ y \in 0 .. w - 1 /\ b = w * q + y
    BY WrapsAndValue
  <1> HIDE DEF p, q, x, y
  <1>2. w * q - w * p = w * (q - p)
    BY <1>1
  <1>3. q = p \/ q = p + 1
    <2>1. w * (q - p) < 2 * w /\ w * (q - p) > -w
      BY <1>1, <1>2
    <2>2. CASE q - p >= 2
      <3>1. w * (q - p) >= w * 2
        BY <1>1, <2>2
      <3> QED
        BY <1>1, <2>1, <2>2, <3>1
    <2>3. CASE q - p <= -1
      <3>1. w * (q - p) <= w * (-1)
        BY <1>1, <2>3
      <3> QED
        BY <1>1, <2>1, <2>3, <3>1
    <2> QED
      BY <1>1, <2>2, <2>3
  <1>4. q = p => y = x + (b - a)
    BY <1>1
  <1>5. q = p + 1 => y = x + (b - a) - w
    BY <1>1
  <1>6. y = x + (b - a) - (IF y < x THEN w ELSE 0)
    BY <1>1, <1>3, <1>4, <1>5
  <1> QED
    BY <1>6 DEF x, y

-----------------------------------------------------------------------------
(* CycleCounter: the cycles of a measurement are all accounted for.        *)

CyclePoints == {"off", "test", "slept", "add", "reset"}

\* What the flag stands for.
Flagged == IF overflow THEN PmcWrap ELSE 0

CycleTyped ==
  /\ core \in CyclePoints
  /\ running \in BOOLEAN /\ overflow \in BOOLEAN /\ unsure \in BOOLEAN
  /\ pmc \in 0 .. PmcWrap - 1
  /\ cycles \in Int /\ passed \in Int /\ elapsed \in Int
  /\ missed \in Int /\ wraps \in Int

\* Until it is read, what the counter shows belongs to the measurement; once
\* it has been added, what it shows more than that is what is missed.
CyclesSound ==
  ~unsure =>
    /\ core \in {"test", "slept", "add"} =>
         elapsed = cycles + wraps + missed + pmc + Flagged
    /\ core = "reset" => elapsed = cycles + wraps + missed + Flagged

CycleInv == CycleTyped /\ CyclesSound

LEMMA CycleInvInit == CycleInit => CycleInv
  <1> SUFFICES ASSUME CycleInit
               PROVE  CycleInv
    OBVIOUS
  <1>1. pmc \in 0 .. PmcWrap - 1
    BY CycleAssumption DEF CycleInit
  <1>2. CycleTyped
    <2>1. core \in CyclePoints
      BY DEF CycleInit, CyclePoints
    <2>2. running \in BOOLEAN /\ overflow \in BOOLEAN /\ unsure \in BOOLEAN
      BY DEF CycleInit
    <2>3. /\ cycles \in Int /\ passed \in Int /\ elapsed \in Int
          /\ missed \in Int /\ wraps \in Int
      BY DEF CycleInit
    <2> QED
      BY <1>1, <2>1, <2>2, <2>3 DEF CycleTyped
  <1>3. CyclesSound
    BY DEF CycleInit, CyclesSound
  <1> QED
    BY <1>2, <1>3 DEF CycleInv

LEMMA CycleInvStep == CycleInv /\ [CycleNext]_cycleVars => CycleInv'
  <1> SUFFICES ASSUME CycleInv, [CycleNext]_cycleVars
               PROVE  CycleInv'
    OBVIOUS
  <1> USE CycleAssumption DEF CycleInv, CycleTyped, CyclesSound, CyclePoints,
                              Flagged
  <1>1. CASE BeginCycles
    BY <1>1 DEF BeginCycles
  <1>2. CASE hasOverflow
    <2>1. CycleTyped'
      <3>1. cycles' \in Int /\ wraps' \in Int
        BY <1>2 DEF hasOverflow, UINT_MAX
      <3> QED
        BY <1>2, <3>1 DEF hasOverflow
    <2>2. CyclesSound'
      BY <1>2 DEF hasOverflow, UINT_MAX
    <2> QED
      BY <2>1, <2>2
  <1>3. CASE getNbCycles
    BY <1>3 DEF getNbCycles
  <1>4. CASE resetCycleCounter
    BY <1>4 DEF resetCycleCounter
  <1>5. CASE Cycle
    <2>1. pmc' = IF pmc + 1 = PmcWrap THEN 0 ELSE pmc + 1
      BY <1>5, NextValue DEF Cycle
    <2>2. CycleTyped'
      <3>1. pmc' \in 0 .. PmcWrap - 1
        BY <2>1
      <3>2. overflow' \in BOOLEAN /\ unsure' \in BOOLEAN
        BY <1>5 DEF Cycle
      <3> QED
        BY <1>5, <3>1, <3>2 DEF Cycle
    <2>3. CyclesSound'
      <3> SUFFICES ASSUME ~unsure'
                   PROVE  CyclesSound'
        OBVIOUS
      <3>1. CASE pmc + 1 = PmcWrap
        <4>1. ~overflow /\ overflow' /\ ~unsure /\ core # "reset"
          BY <1>5, <2>1, <3>1 DEF Cycle
        <4>2. /\ pmc' = 0 /\ Flagged' = PmcWrap /\ Flagged = 0
              /\ UNCHANGED << core, cycles, wraps >>
          BY <1>5, <2>1, <3>1, <4>1 DEF Cycle
        <4>3. core # "off" => elapsed' = elapsed + 1 /\ missed' = missed
          BY <1>5, <4>1 DEF Cycle
        <4> HIDE DEF Flagged
        <4> QED
          BY <3>1, <4>1, <4>2, <4>3
      <3>2. CASE pmc + 1 # PmcWrap
        <4>1. ~unsure /\ pmc' = pmc + 1 /\ pmc' # 0
          BY <1>5, <2>1, <3>2 DEF Cycle
        <4>2. Flagged' = Flagged /\ UNCHANGED << core, cycles, wraps >>
          BY <1>5, <4>1 DEF Cycle
        <4>3. /\ core # "off" => elapsed' = elapsed + 1
              /\ core = "reset" => missed' = missed + 1
              /\ core # "reset" => missed' = missed
          BY <1>5 DEF Cycle
        <4>4. Flagged \in Int
          OBVIOUS
        <4> HIDE DEF Flagged
        <4> QED
          BY <4>1, <4>2, <4>3, <4>4
      <3> QED
        BY <3>1, <3>2
    <2> QED
      BY <2>2, <2>3
  <1>6. CASE \E stopped \in BOOLEAN : TestStopper(stopped)
    BY <1>6 DEF TestStopper
  <1>7. CASE UNCHANGED cycleVars
    BY <1>7 DEF cycleVars
  <1> QED
    BY <1>1, <1>2, <1>3, <1>4, <1>5, <1>6, <1>7 DEF CycleNext

\* Every cycle of a measurement is added once, is still in the counter or its
\* flag, or fell between a read and the reset after it, for a counter of any
\* width and however long a measurement takes.
THEOREM CyclesAreAccounted == CycleSpec => []CyclesAccounted
  <1>1. CycleInv => CyclesAccounted
    BY DEF CycleInv, CyclesSound, CyclesAccounted, Flagged
  <1> QED
    BY <1>1, CycleInvInit, CycleInvStep, PTL DEF CycleSpec

-----------------------------------------------------------------------------
(* Clocks: start and stop measure the time between them.                   *)

ClocksTyped ==
  /\ clk \in {"off", "idle", "on", "over"}
  /\ now \in Nat /\ steps \in Nat
  /\ offset \in Int /\ data \in Int /\ tick \in Int
  /\ since \in [now : Nat, steps : Nat]

\* While a measurement runs, data is the time of its start, negated, and tick
\* is the value of the counter then.
Timed ==
  /\ clk = "off" => since.now = 0
  /\ clk = "on" =>
       /\ since.now <= now /\ since.steps <= steps
       /\ since.steps = steps => data = -(since.now + offset)
       /\ tick = since.now % CycleWrap

ClocksInv == ClocksTyped /\ Timed /\ ElapsedTime

LEMMA ClocksInvInit == ClocksInit => ClocksInv
  BY DEF ClocksInit, ClocksInv, ClocksTyped, Timed, ElapsedTime

LEMMA ClocksInvStep == ClocksInv /\ [ClocksNext]_clockVars => ClocksInv'
  <1> SUFFICES ASSUME ClocksInv, [ClocksNext]_clockVars
               PROVE  ClocksInv'
    OBVIOUS
  <1> USE ClocksAssumption DEF ClocksInv, ClocksTyped, Timed, ElapsedTime
  <1>1. CASE InitBoth
    <2>1. ClocksTyped'
      BY <1>1 DEF InitBoth
    <2>2. Timed'
      BY <1>1 DEF InitBoth
    <2>3. ElapsedTime'
      BY <1>1 DEF InitBoth
    <2> QED
      BY <2>1, <2>2, <2>3
  <1>2. CASE ClocksStart
    <2>1. getticks \in Int
      BY DEF getticks, rdtscll
    <2> QED
      BY <1>2, <2>1 DEF ClocksStart, getTimeStamp, getticks, rdtscll
  <1>3. CASE ClocksStop
    <2> DEFINE p == now \div CycleWrap
               q == since.now \div CycleWrap
    <2>1. /\ p \in Nat /\ now % CycleWrap \in Int
          /\ now = CycleWrap * p + (now % CycleWrap)
      <3>1. now \in Nat /\ CycleWrap \in Nat \ {0}
        OBVIOUS
      <3>2. /\ now \div CycleWrap \in Nat /\ now % CycleWrap \in Int
            /\ now = CycleWrap * (now \div CycleWrap) + (now % CycleWrap)
        BY ONLY <3>1, WrapsAndValue
      <3> QED
        BY <3>2
    <2>2. /\ q \in Nat /\ since.now % CycleWrap \in Int
           /\ since.now = CycleWrap * q + (since.now % CycleWrap)
      <3> DEFINE a == since.now
      <3>1. a \in Nat /\ CycleWrap \in Nat \ {0}
        OBVIOUS
      <3> HIDE DEF a
      <3>2. /\ a \div CycleWrap \in Nat /\ a % CycleWrap \in Int
            /\ a = CycleWrap * (a \div CycleWrap) + (a % CycleWrap)
        BY ONLY <3>1, WrapsAndValue
      <3> QED
        BY <3>2 DEF a
    <2>3. /\ tick = since.now % CycleWrap /\ since.now <= now
          /\ since.steps <= steps
          /\ since.steps = steps => data = -(since.now + offset)
      BY <1>3 DEF ClocksStop
    <2>4. /\ tick' = (now % CycleWrap) - tick
          /\ since' = [now |-> now - since.now,
                       steps |-> steps - since.steps]
          /\ data' = data + (now + offset)
          /\ clk' = "idle"
          /\ UNCHANGED << now, offset, steps >>
      BY <1>3 DEF ClocksStop, getticks, rdtscll, getTimeStamp
    <2> HIDE DEF p, q
    <2>5. (tick' - since'.now) % CycleWrap = 0
      <3>1. CycleWrap * (q - p) = CycleWrap * q - CycleWrap * p
        BY <2>1, <2>2
      <3>2. tick' - since'.now = CycleWrap * (q - p)
        BY <2>1, <2>2, <2>3, <2>4, <3>1
      <3>3. q - p \in Int
        BY <2>1, <2>2
      <3> QED
        BY <3>2, <3>3, WholeWraps
    <2>6. ClocksTyped'
      BY <2>1, <2>3, <2>4
    <2>7. since'.steps = 0 => data' = since'.now
      <3>1. since'.steps = steps - since.steps /\ since'.now = now - since.now
        BY <2>4
      <3>2. since.steps \in Nat /\ since.now \in Nat /\ data' = data + (now + offset)
        BY <2>4
      <3> QED
        BY <2>3, <3>1, <3>2
    <2> QED
      BY <2>4, <2>5, <2>6, <2>7
  <1>4. CASE FiniBoth
    BY <1>4 DEF FiniBoth
  <1>5. CASE TimePasses
    BY <1>5 DEF TimePasses
  <1>6. CASE SetWallClock
    BY <1>6 DEF SetWallClock
  <1>7. CASE UNCHANGED clockVars
    BY <1>7 DEF clockVars
  <1> QED
    BY <1>1, <1>2, <1>3, <1>4, <1>5, <1>6, <1>7 DEF ClocksNext

\* Every measurement, not only the first, gives the time between start and
\* stop: the wall clock unless it was set meanwhile, the cycle counter up to
\* its wraps, for a counter of any width.
THEOREM TimeIsElapsed == ClocksSpec => []ElapsedTime
  BY ClocksInvInit, ClocksInvStep, PTL DEF ClocksSpec, ClocksInv

-----------------------------------------------------------------------------
(* EnergyMic: the mean is that of the samples of its own measurement.      *)

\* A mean lies between all bounds of the samples; with its sum and number
\* multiplied out, as the model keeps it.
Between(mean, S) ==
  \A b \in Int :
    /\ (\A x \in S : b <= x) => mean.n * b <= mean.sum
    /\ (\A x \in S : x <= b) => mean.sum <= mean.n * b

\* The samples are not counted here, but the least and the greatest are there.
HasEnds(S) ==
  /\ \E lo \in S : \A x \in S : lo <= x
  /\ \E hi \in S : \A x \in S : x <= hi

MicTyped ==
  /\ thr \in MicPCs
  /\ power \in Nat /\ nbIterations \in Nat
  /\ averagePower \in [sum : Int, n : Int]
  /\ samples \subseteq Nat

\* The thread comes to its loop with a sample, and none before.
Sampled ==
  /\ mic = "off" => samples = {}
  /\ MicRunning =>
       /\ thr \in {"first_open", "first_read", "first_close"} => samples = {}
       /\ thr \in {"usleep", "open", "read", "close"} => samples # {}

MicSound ==
  samples # {} =>
    /\ HasEnds(samples)
    /\ MicRunning => Between(averagePower, samples)
    /\ mic = "idle" => Between(energy, samples)

MicInv == MicTyped /\ Sampled /\ MicSound

LEMMA OneMoreEnd ==
  ASSUME NEW S \in SUBSET Nat, NEW p \in Nat, S # {} => HasEnds(S)
  PROVE  HasEnds(S \cup {p})
  <1>1. CASE S = {}
    BY <1>1 DEF HasEnds
  <1>2. CASE S # {}
    <2>1. PICK lo \in S : \A x \in S : lo <= x
      BY <1>2 DEF HasEnds
    <2>2. PICK hi \in S : \A x \in S : x <= hi
      BY <1>2 DEF HasEnds
    <2>3. \E y \in S \cup {p} : \A x \in S \cup {p} : y <= x
      <3>1. CASE p <= lo
        BY <2>1, <3>1
      <3>2. CASE lo <= p
        BY <2>1, <3>2
      <3> QED
        BY <2>1, <3>1, <3>2
    <2>4. \E y \in S \cup {p} : \A x \in S \cup {p} : x <= y
      <3>1. CASE hi <= p
        BY <2>2, <3>1
      <3>2. CASE p <= hi
        BY <2>2, <3>2
      <3> QED
        BY <2>2, <3>1, <3>2
    <2> QED
      BY <2>3, <2>4 DEF HasEnds
  <1> QED
    BY <1>1, <1>2

\* A mean of one sample, and a mean that takes one more.
LEMMA OneSample ==
  ASSUME NEW S \in SUBSET Nat, NEW p \in S
  PROVE  Between([sum |-> p, n |-> 1], S)
  BY DEF Between

LEMMA OneMoreSample ==
  ASSUME NEW S \in SUBSET Nat, NEW p \in Nat, NEW m \in [sum : Int, n : Int],
         Between(m, S)
  PROVE  Between([sum |-> m.sum + p, n |-> m.n + 1], S \cup {p})
  <1> SUFFICES ASSUME NEW b \in Int
               PROVE  /\ (\A x \in S \cup {p} : b <= x)
                           => (m.n + 1) * b <= m.sum + p
                      /\ (\A x \in S \cup {p} : x <= b)
                           => m.sum + p <= (m.n + 1) * b
    BY DEF Between
  <1>1. m.n \in Int /\ m.sum \in Int
    OBVIOUS
  <1>2. (m.n + 1) * b = m.n * b + b /\ m.n * b \in Int
    BY <1>1
  <1>3. (\A x \in S : b <= x) => m.n * b <= m.sum
    BY DEF Between
  <1>4. (\A x \in S : x <= b) => m.sum <= m.n * b
    BY DEF Between
  <1> QED
    BY <1>1, <1>2, <1>3, <1>4

LEMMA MicInvInit == MicInit => MicInv
  BY DEF MicInit, MicInv, MicTyped, Sampled, MicSound, MicPCs, MicRunning

LEMMA MicInvStep == MicInv /\ [MicNext]_micVars => MicInv'
  <1> SUFFICES ASSUME MicInv, [MicNext]_micVars
               PROVE  MicInv'
    OBVIOUS
  <1> USE DEF MicInv
  <1>1. ASSUME UNCHANGED << averagePower, energy, samples >>,
               MicTyped', Sampled',
               MicRunning' => MicRunning,
               mic' = "idle" => mic = "idle"
        PROVE  MicInv'
    BY <1>1 DEF MicSound
  <1>2. CASE evaluationInit
    BY <1>2 DEF evaluationInit, MicTyped, Sampled, MicSound, MicRunning, MicPCs
  <1>3. CASE evaluationStart
    BY <1>3 DEF evaluationStart, MicTyped, Sampled, MicSound, MicRunning, MicPCs
  <1>4. CASE CreateFails
    BY <1>1, <1>4 DEF CreateFails, MicTyped, Sampled, MicRunning, MicPCs
  <1>5. CASE Cancel
    BY <1>1, <1>5 DEF Cancel, MicTyped, Sampled, MicRunning, MicPCs
  <1>6. CASE Join
    <2>1. /\ UNCHANGED << averagePower, samples, thr, power, nbIterations >>
          /\ mic' = "idle" /\ MicRunning
          /\ energy'.sum = averagePower.sum /\ energy'.n = averagePower.n
      BY <1>6 DEF Join, MicRunning
    <2>2. MicTyped' /\ Sampled'
      BY <2>1 DEF MicTyped, Sampled, MicRunning
    <2>3. MicSound'
      BY <2>1 DEF MicSound, MicRunning, Between
    <2> QED
      BY <2>2, <2>3
  <1>7. CASE evaluationClose
    BY <1>1, <1>7 DEF evaluationClose, MicTyped, Sampled, MicRunning, MicPCs
  <1>8. CASE OpenPowerFails
    BY <1>1, <1>8 DEF OpenPowerFails, MicTyped, Sampled, MicRunning, MicPCs
  <1>9. CASE MicTimePasses
    BY <1>1, <1>9 DEF MicTimePasses, MicTyped, Sampled, MicRunning, MicPCs
  <1>10. CASE WakeUp \/ OpenPower("first_open", "first_read")
               \/ OpenPower("open", "read") \/ ThreadCancelled
    BY <1>1, <1>10
       DEF WakeUp, OpenPower, ThreadCancelled, MicTyped, Sampled, MicRunning,
           MicPCs
  <1>11. CASE ReadFile("first_read", "first_close") \/ ReadFile("read", "close")
    <2>1. power' \in Nat
      BY <1>11, MicAssumption DEF ReadFile
    <2> QED
      BY <1>1, <1>11, <2>1 DEF ReadFile, MicTyped, Sampled, MicRunning, MicPCs
  <1>12. CASE FirstSample
    <2>1. /\ samples' = {power} /\ thr' = "usleep" /\ nbIterations' = 0
          /\ averagePower' = [sum |-> power, n |-> 1] /\ power \in Nat
          /\ UNCHANGED << mic, power >> /\ MicRunning
      BY <1>12 DEF FirstSample, Sampled, MicRunning, MicTyped
    <2>2. HasEnds({power})
      BY <2>1 DEF HasEnds
    <2>3. Between([sum |-> power, n |-> 1], {power})
      BY <2>1, OneSample
    <2> QED
      BY <2>1, <2>2, <2>3 DEF MicTyped, Sampled, MicSound, MicPCs, MicRunning
  <1>13. CASE Sample
    <2>1. /\ samples' = samples \cup {power} /\ thr' = "usleep"
          /\ nbIterations' \in Nat /\ samples \in SUBSET Nat
          /\ power \in Nat /\ averagePower \in [sum : Int, n : Int]
          /\ UNCHANGED << mic, power >> /\ samples # {}
          /\ MicRunning /\ HasEnds(samples) /\ Between(averagePower, samples)
      BY <1>13 DEF Sample, Sampled, MicRunning, MicTyped, MicSound
    <2>2. HasEnds(samples \cup {power})
      BY <2>1, OneMoreEnd
    <2>3. Between(averagePower', samples \cup {power})
      <3>1. CASE nbIterations = 0
        <4>1. power \in samples \cup {power}
              /\ samples \cup {power} \in SUBSET Nat
          BY <2>1
        <4>2. Between([sum |-> power, n |-> 1], samples \cup {power})
          BY <4>1, OneSample
        <4> QED
          BY <1>13, <3>1, <4>2 DEF Sample
      <3>2. CASE nbIterations # 0
        BY <1>13, <2>1, <3>2, OneMoreSample DEF Sample
      <3> QED
        BY <3>1, <3>2
    <2>4. averagePower' \in [sum : Int, n : Int]
      BY <1>13, <2>1 DEF Sample
    <2> QED
      BY <2>1, <2>2, <2>3, <2>4
         DEF MicTyped, Sampled, MicSound, MicPCs, MicRunning
  <1>14. CASE UNCHANGED micVars
    BY <1>1, <1>14 DEF micVars, MicTyped, Sampled, MicRunning
  <1> QED
    BY <1>2, <1>3, <1>4, <1>5, <1>6, <1>7, <1>8, <1>9, <1>10, <1>11, <1>12,
       <1>13, <1>14 DEF MicNext, Gather

\* The mean that stop multiplies with the time lies between the least and the
\* greatest power its own thread has read, for any powers, any number of
\* samples and wherever the thread was cancelled.
THEOREM MeanIsOwn == MicSpec => []OwnMean
  <1>1. MicInv => OwnMean
    <2> SUFFICES ASSUME MicInv, mic = "idle", samples # {}
                 PROVE  /\ energy.sum >= energy.n * Min(samples)
                        /\ energy.sum <= energy.n * Max(samples)
      BY DEF OwnMean
    <2>1. HasEnds(samples) /\ Between(energy, samples) /\ samples \subseteq Nat
      BY DEF MicInv, MicSound, MicTyped
    <2>2. Min(samples) \in samples /\ \A x \in samples : Min(samples) <= x
      BY <2>1 DEF Min, HasEnds
    <2>3. Max(samples) \in samples /\ \A x \in samples : x <= Max(samples)
      BY <2>1 DEF Max, HasEnds
    <2> DEFINE lo == Min(samples)
               hi == Max(samples)
    <2>4. /\ lo \in samples /\ \A x \in samples : lo <= x
          /\ hi \in samples /\ \A x \in samples : x <= hi
      BY <2>2, <2>3
    <2> HIDE DEF lo, hi
    <2>5. lo \in Int /\ hi \in Int
      BY <2>1, <2>4
    <2>6. energy.n * lo <= energy.sum /\ energy.sum <= energy.n * hi
      BY <2>1, <2>4, <2>5 DEF Between
    <2> QED
      BY <2>6 DEF lo, hi
  <1> QED
    BY <1>1, MicInvInit, MicInvStep, PTL DEF MicSpec

-----------------------------------------------------------------------------
(* TimerArm: the threads and the owner measure in step.                    *)

Waiters == {p \in Parties : at[p] \in Waits}

\* As long as no wait has ended too early, the counter of the barrier says
\* how many wait at it, and nobody is a barrier ahead of another.
Together == ~early => InStepAlways /\ count = Cardinality(Waiters)

\* No thread runs before init creates it.
Created ==
  /\ at[Owner] \in {"alloc", "barrier"} =>
       created = 0 /\ \A t \in Cores : at[t] = "none"
  /\ at[Owner] = "init" => \A t \in Cores : t >= created => at[t] = "none"

\* ResultIsOwn, and that it holds at once.
Copied ==
  ~early /\ at[Owner] \in {"alloc", "barrier", "init", "off"} =>
    result = counted

TimerInv == TimerTypeOK /\ Together /\ Created /\ Copied

-----------------------------------------------------------------------------
InsidePoints == {"measure", "sleep", "end", "end_wait",
                 "on", "kill", "stop", "stop_wait"}

LEMMA WaitPoints ==
  Waits = {"begin_wait", "end_wait", "start_wait", "stop_wait"}
  BY DEF Waits, CallOf

LEMMA CallPoints == Calls = {"begin", "end", "start", "stop"}
  BY DEF Calls, Passed

LEMMA PassedPoints ==
  /\ Passed["begin"] = "measure" /\ Passed["end"] = "begin"
  /\ Passed["start"] = "on" /\ Passed["stop"] = "read"
  BY DEF Passed

LEMMA CallsOfWaits ==
  /\ CallOf["begin_wait"] = "begin" /\ CallOf["end_wait"] = "end"
  /\ CallOf["start_wait"] = "start" /\ CallOf["stop_wait"] = "stop"
  BY DEF CallOf

LEMMA WaitsOfCalls ==
  /\ WaitIn("begin") = "begin_wait" /\ WaitIn("end") = "end_wait"
  /\ WaitIn("start") = "start_wait" /\ WaitIn("stop") = "stop_wait"
  BY WaitPoints, CallsOfWaits DEF WaitIn

LEMMA InsideMeans == \A p : Inside(p) <=> at[p] \in InsidePoints
  BY DEF Inside, InsidePoints

LEMMA InsideMeansNext == \A p : Inside(p)' <=> at'[p] \in InsidePoints
  BY DEF Inside, InsidePoints

LEMMA PartiesFinite ==
  /\ IsFiniteSet(Parties) /\ Cardinality(Parties) = NbCores + 1
  /\ Owner \in Parties /\ Cores \subseteq Parties /\ Owner \notin Cores
  <1>1. Parties = 0 .. NbCores
    BY NbCoresAssumption DEF Parties, Cores, Owner
  <1>2. IsFiniteSet(0 .. NbCores) /\ Cardinality(0 .. NbCores) = NbCores + 1
    BY NbCoresAssumption, FS_Interval
  <1>3. Owner \in Parties /\ Cores \subseteq Parties /\ Owner \notin Cores
    BY NbCoresAssumption DEF Parties, Cores, Owner
  <1> QED
    BY <1>1, <1>2, <1>3

\* A party that goes on, without waiting and on its side of the barriers,
\* leaves the parties together.
LEMMA OneParty ==
  ASSUME TimerTypeOK, Together,
         NEW p \in Parties, NEW to,
         at' = [at EXCEPT ![p] = to],
         at[p] \notin Waits, to \notin Waits,
         at[p] \in InsidePoints <=> to \in InsidePoints,
         UNCHANGED << count, early >>
  PROVE  Together'
  <1>1. \A q \in Parties : at'[q] = IF q = p THEN to ELSE at[q]
    BY DEF TimerTypeOK
  <1>2. Waiters' = Waiters
    BY <1>1 DEF Waiters
  <1>3. InStepAlways => InStepAlways'
    BY <1>1, InsideMeans, InsideMeansNext DEF InStepAlways
  <1> QED
    BY <1>2, <1>3 DEF Together

\* A party that waits with the others.
LEMMA OneMoreWaits ==
  ASSUME TimerTypeOK, Together,
         NEW p \in Parties, at[p] \in Calls,
         at' = [at EXCEPT ![p] = WaitIn(at[p])],
         count' = count + 1, UNCHANGED early
  PROVE  Together'
  <1>1. \A q \in Parties : at'[q] = IF q = p THEN WaitIn(at[p]) ELSE at[q]
    BY DEF TimerTypeOK
  <1>2. /\ at[p] \notin Waits /\ WaitIn(at[p]) \in Waits
        /\ at[p] \in InsidePoints <=> WaitIn(at[p]) \in InsidePoints
    BY WaitPoints, CallPoints, WaitsOfCalls DEF InsidePoints
  <1>3. Waiters' = Waiters \cup {p} /\ p \notin Waiters
    BY <1>1, <1>2 DEF Waiters
  <1>4. IsFiniteSet(Waiters)
    BY PartiesFinite, FS_Subset DEF Waiters
  <1>5. Cardinality(Waiters') = Cardinality(Waiters) + 1
    BY <1>3, <1>4, FS_AddElement
  <1>6. InStepAlways => InStepAlways'
    BY <1>1, <1>2, InsideMeans, InsideMeansNext DEF InStepAlways
  <1> QED
    BY <1>5, <1>6 DEF Together

\* The last one: all the others wait, at the same barrier, and pass it.
LEMMA LastOneWakesAll ==
  ASSUME TimerTypeOK, Together, ~early,
         NEW p \in Parties, at[p] \in Calls,
         count + 1 = NbToWait, count' = 0, Broadcast(p)
  PROVE  Together'
  <1>1. at[p] \notin Waits
    BY WaitPoints, CallPoints
  <1>2. InStepAlways /\ Cardinality(Waiters) = NbCores
    BY NbCoresAssumption DEF Together, NbToWait, TimerTypeOK
  <1>3. Waiters = Parties \ {p}
    <2>1. Waiters \in SUBSET (Parties \ {p})
      BY <1>1 DEF Waiters
    <2>2. IsFiniteSet(Parties \ {p}) /\ Cardinality(Parties \ {p}) = NbCores
      BY PartiesFinite, FS_RemoveElement, NbCoresAssumption
    <2> QED
      BY <1>2, <2>1, <2>2, FS_Subset
  <1>4. \A q \in Parties : q # p => at[q] \in Waits
    BY <1>3 DEF Waiters
  <1>5. \A q \in Parties :
          at'[q] = IF q = p THEN Passed[at[p]] ELSE Passed[CallOf[at[q]]]
    BY <1>4 DEF Broadcast
  <1>6. \A q \in Parties :
          /\ at'[q] \notin Waits
          /\ at'[q] \in InsidePoints <=> at[q] \notin InsidePoints
    <2> SUFFICES ASSUME NEW q \in Parties
                 PROVE  /\ at'[q] \notin Waits
                        /\ at'[q] \in InsidePoints <=> at[q] \notin InsidePoints
      OBVIOUS
    <2>1. CASE q = p
      <3>1. at'[q] = Passed[at[q]] /\ at[q] \in Calls
        BY <1>5, <2>1
      <3> QED
        BY <3>1, WaitPoints, CallPoints, PassedPoints DEF InsidePoints
    <2>2. CASE q # p
      <3>1. at'[q] = Passed[CallOf[at[q]]] /\ at[q] \in Waits
        BY <1>4, <1>5, <2>2
      <3> QED
        BY <3>1, WaitPoints, CallsOfWaits, PassedPoints DEF InsidePoints
    <2> QED
      BY <2>1, <2>2
  <1>7. InStepAlways'
    BY <1>2, <1>6, InsideMeans, InsideMeansNext DEF InStepAlways
  <1>8. Waiters' = {}
    BY <1>6 DEF Waiters
  <1>9. Cardinality(Waiters') = 0
    BY <1>8, FS_EmptySet
  <1> QED
    BY <1>7, <1>9 DEF Together

-----------------------------------------------------------------------------
LEMMA TimerInvInit == TimerInit => TimerInv
  <1> SUFFICES ASSUME TimerInit
               PROVE  TimerInv
    OBVIOUS
  <1>1. \A p \in Parties : at[p] = IF p = Owner THEN "alloc" ELSE "none"
    BY DEF TimerInit
  <1>2. TimerTypeOK
    <2>1. at \in [Parties -> ThreadPCs \cup OwnerPCs]
      BY DEF TimerInit, ThreadPCs, OwnerPCs
    <2>2. at[Owner] \in OwnerPCs /\ \A t \in Cores : at[t] \in ThreadPCs
      BY <1>1, PartiesFinite DEF ThreadPCs, OwnerPCs
    <2>3. created \in 0 .. NbCores /\ count \in 0 .. NbCores
      BY NbCoresAssumption DEF TimerInit
    <2>4. /\ stopper \in BOOLEAN /\ early \in BOOLEAN
          /\ counted \subseteq Cores /\ result \subseteq Cores
      BY DEF TimerInit
    <2> QED
      BY <2>1, <2>2, <2>3, <2>4 DEF TimerTypeOK
  <1>3. Waiters = {}
    BY <1>1, WaitPoints DEF Waiters
  <1>4. Together
    BY <1>1, <1>3, FS_EmptySet, InsideMeans
       DEF Together, TimerInit, InStepAlways, InsidePoints
  <1>5. Created /\ Copied
    BY <1>1, PartiesFinite DEF Created, Copied, TimerInit
  <1> QED
    BY <1>2, <1>4, <1>5 DEF TimerInv

\* A step of the owner alone, by its point before and the one after.
LEMMA OwnerStep ==
  ASSUME TimerInv, NEW from \in OwnerPCs, NEW to \in OwnerPCs,
         Step(Owner, from, to), UNCHANGED << created, early, count >>,
         from \notin Waits, to \notin Waits,
         from \in InsidePoints <=> to \in InsidePoints
  PROVE  /\ at' \in [Parties -> ThreadPCs \cup OwnerPCs]
         /\ \A t \in Cores : at'[t] = at[t]
         /\ at[Owner] = from /\ at'[Owner] = to
         /\ Together'
  <1>1. at[Owner] = from /\ at' = [at EXCEPT ![Owner] = to]
    BY DEF Step
  <1>2. Together'
    BY <1>1, OneParty, PartiesFinite DEF TimerInv
  <1> QED
    BY <1>1, <1>2, PartiesFinite DEF TimerInv, TimerTypeOK

\* A step of a thread, which exists.
LEMMA ThreadStep ==
  ASSUME TimerInv, NEW t \in Cores, NEW from, NEW to \in ThreadPCs \ {"none"},
         Step(t, from, to), UNCHANGED << created, early, count >>,
         from # "none", from \notin Waits, to \notin Waits,
         from \in InsidePoints <=> to \in InsidePoints
  PROVE  /\ at' \in [Parties -> ThreadPCs \cup OwnerPCs]
         /\ \A u \in Cores : at'[u] \in ThreadPCs
         /\ at'[Owner] = at[Owner]
         /\ Together' /\ Created'
  <1>1. at[t] = from /\ at' = [at EXCEPT ![t] = to] /\ t \in Parties /\ t # Owner
    BY PartiesFinite DEF Step
  <1>2. Together'
    BY <1>1, OneParty DEF TimerInv
  <1>3. \A u \in Parties : at'[u] = IF u = t THEN to ELSE at[u]
    BY <1>1 DEF TimerInv, TimerTypeOK
  <1>4. Created'
    BY <1>1, <1>3, PartiesFinite DEF TimerInv, Created
  <1> QED
    BY <1>1, <1>2, <1>3, <1>4, PartiesFinite DEF TimerInv, TimerTypeOK

\* The barrier, for the owner and for a thread.
LEMMA BarrierStep ==
  ASSUME TimerInv, NEW p \in Parties, BarrierWait(p)
  PROVE  TimerInv'
  <1>1. /\ at[p] \in Calls
        /\ UNCHANGED << created, stopper, counted, result, early >>
        /\ TimerTypeOK /\ Together
    BY DEF BarrierWait, TimerInv
  <1>2. CASE count + 1 = NbToWait
    <2>1. count' = 0 /\ Broadcast(p)
      BY <1>2 DEF BarrierWait
    <2>2. Together'
      <3>1. CASE early
        BY <1>1, <3>1 DEF Together
      <3>2. CASE ~early
        BY <1>1, <1>2, <2>1, <3>2, LastOneWakesAll
      <3> QED
        BY <3>1, <3>2
    <2>3. \A q \in Parties :
            \/ /\ at[q] \in Calls \cup Waits
               /\ at'[q] \in {"measure", "begin", "on", "read"}
               /\ at[q] \in ThreadPCs => at'[q] \in {"measure", "begin"}
               /\ at[q] \in OwnerPCs => at'[q] \in {"on", "read"}
            \/ at'[q] = at[q]
      <3> SUFFICES ASSUME NEW q \in Parties
                   PROVE  \/ /\ at[q] \in Calls \cup Waits
                             /\ at'[q] \in {"measure", "begin", "on", "read"}
                             /\ at[q] \in ThreadPCs =>
                                  at'[q] \in {"measure", "begin"}
                             /\ at[q] \in OwnerPCs => at'[q] \in {"on", "read"}
                          \/ at'[q] = at[q]
        OBVIOUS
      <3>1. CASE q = p
        <4>1. at'[q] = Passed[at[q]]
          BY <2>1, <3>1 DEF Broadcast
        <4> QED
          BY <1>1, <3>1, <4>1, CallPoints, PassedPoints DEF ThreadPCs, OwnerPCs
      <3>2. CASE q # p /\ at[q] \in Waits
        <4>1. at'[q] = Passed[CallOf[at[q]]]
          BY <2>1, <3>2 DEF Broadcast
        <4> QED
          BY <3>2, <4>1, WaitPoints, CallsOfWaits, PassedPoints
             DEF ThreadPCs, OwnerPCs
      <3>3. CASE q # p /\ at[q] \notin Waits
        BY <2>1, <3>3 DEF Broadcast
      <3> QED
        BY <3>1, <3>2, <3>3
    <2>4. /\ \A t \in Cores : at'[t] \in ThreadPCs
          /\ at'[Owner] \in OwnerPCs
          /\ at'[Owner] \in {"alloc", "barrier", "init", "off"} =>
               at'[Owner] = at[Owner]
          /\ \A t \in Cores : at[t] = "none" => at'[t] = "none"
      BY <1>1, <2>3, PartiesFinite, WaitPoints, CallPoints
         DEF TimerTypeOK, ThreadPCs, OwnerPCs
    <2>5. at' \in [Parties -> ThreadPCs \cup OwnerPCs]
      <3>1. DOMAIN at' = Parties /\ at' = [q \in Parties |-> at'[q]]
        BY <2>1 DEF Broadcast
      <3>2. \A q \in Parties : at'[q] \in ThreadPCs \cup OwnerPCs
        BY <2>4 DEF Parties
      <3> QED
        BY <3>1, <3>2
    <2>6. count' \in 0 .. NbCores
      BY <2>1, NbCoresAssumption
    <2>7. TimerTypeOK'
      BY <1>1, <2>4, <2>5, <2>6 DEF TimerTypeOK
    <2>8. Created' /\ Copied'
      BY <1>1, <2>4 DEF TimerInv, Created, Copied
    <2> QED
      BY <2>2, <2>7, <2>8 DEF TimerInv
  <1>3. CASE count + 1 # NbToWait
    <2>1. count' = count + 1 /\ at' = [at EXCEPT ![p] = WaitIn(at[p])]
      BY <1>3 DEF BarrierWait
    <2>2. Together'
      BY <1>1, <2>1, OneMoreWaits
    <2>3. \A q \in Parties : at'[q] = IF q = p THEN WaitIn(at[p]) ELSE at[q]
      BY <1>1, <2>1 DEF TimerTypeOK
    <2>4. /\ WaitIn(at[p]) \in Waits
          /\ at[p] \in ThreadPCs => WaitIn(at[p]) \in ThreadPCs
          /\ at[p] \in OwnerPCs => WaitIn(at[p]) \in OwnerPCs
          /\ at[p] # "none"
      BY <1>1, WaitPoints, CallPoints, WaitsOfCalls DEF ThreadPCs, OwnerPCs
    <2>5. /\ \A t \in Cores : at'[t] \in ThreadPCs
          /\ at'[Owner] \in OwnerPCs
          /\ at'[Owner] \in {"alloc", "barrier", "init", "off"} =>
               at'[Owner] = at[Owner]
          /\ \A t \in Cores : at[t] = "none" => at'[t] = "none"
      BY <1>1, <2>3, <2>4, PartiesFinite, WaitPoints DEF TimerTypeOK
    <2>6. count' \in 0 .. NbCores
      BY <1>1, <1>3, <2>1, NbCoresAssumption DEF TimerTypeOK, NbToWait
    <2>7. at' \in [Parties -> ThreadPCs \cup OwnerPCs]
      BY <1>1, <2>1, <2>4 DEF TimerTypeOK
    <2>8. TimerTypeOK'
      BY <1>1, <2>5, <2>6, <2>7 DEF TimerTypeOK
    <2>9. Created' /\ Copied'
      BY <1>1, <2>5 DEF TimerInv, Created, Copied
    <2> QED
      BY <2>2, <2>8, <2>9 DEF TimerInv
  <1> QED
    BY <1>2, <1>3

LEMMA SpuriousStep ==
  ASSUME TimerInv, NEW p \in Parties, SpuriousWakeup(p)
  PROVE  TimerInv'
  <1>1. /\ at[p] \in Waits /\ at' = [at EXCEPT ![p] = Passed[CallOf[at[p]]]]
        /\ early' /\ early' \in BOOLEAN
        /\ UNCHANGED << created, count, stopper, counted, result >>
        /\ TimerTypeOK
    BY DEF SpuriousWakeup, Step, TimerInv
  <1>2. /\ at[p] \in ThreadPCs => Passed[CallOf[at[p]]] \in {"measure", "begin"}
        /\ at[p] \in OwnerPCs => Passed[CallOf[at[p]]] \in {"on", "read"}
        /\ at[p] # "none"
    BY <1>1, WaitPoints, CallsOfWaits, PassedPoints DEF ThreadPCs, OwnerPCs
  <1>3. \A q \in Parties :
          at'[q] = IF q = p THEN Passed[CallOf[at[p]]] ELSE at[q]
    BY <1>1 DEF TimerTypeOK
  <1>4. /\ \A t \in Cores : at'[t] \in ThreadPCs
        /\ at'[Owner] \in OwnerPCs
        /\ at'[Owner] \in {"alloc", "barrier", "init", "off"} =>
             at'[Owner] = at[Owner]
        /\ \A t \in Cores : at[t] = "none" => at'[t] = "none"
    BY <1>1, <1>2, <1>3, PartiesFinite DEF TimerTypeOK, ThreadPCs, OwnerPCs
  <1>5. at' \in [Parties -> ThreadPCs \cup OwnerPCs]
    BY <1>1, <1>3, <1>4 DEF TimerTypeOK, Parties
  <1>6. TimerTypeOK'
    BY <1>1, <1>4, <1>5 DEF TimerTypeOK
  <1>7. Created'
    BY <1>1, <1>4 DEF TimerInv, Created
  <1> QED
    BY <1>1, <1>6, <1>7 DEF TimerInv, Together, Copied

LEMMA TimerInvStep == TimerInv /\ [TimerNext]_timerVars => TimerInv'
  <1> SUFFICES ASSUME TimerInv, [TimerNext]_timerVars
               PROVE  TimerInv'
    OBVIOUS
  <1> USE NbCoresAssumption
  <1>1. TimerTypeOK /\ Together /\ Created /\ Copied
    BY DEF TimerInv
  <1>2. CASE initData
    <2>1. PICK ok \in BOOLEAN :
            Step(Owner, "alloc", IF ok THEN "barrier" ELSE "freed")
      BY <1>2 DEF initData
    <2> DEFINE to == IF ok THEN "barrier" ELSE "freed"
    <2>2. to \in {"barrier", "freed"} /\ Step(Owner, "alloc", to)
      BY <2>1
    <2> HIDE DEF to
    <2>3. /\ at' \in [Parties -> ThreadPCs \cup OwnerPCs]
          /\ \A t \in Cores : at'[t] = at[t]
          /\ at[Owner] = "alloc" /\ at'[Owner] = to /\ Together'
      BY <1>2, <2>2, WaitPoints, OwnerStep DEF initData, OwnerPCs, InsidePoints
    <2>4. TimerTypeOK'
      BY <1>1, <1>2, <2>2, <2>3 DEF initData, TimerTypeOK, OwnerPCs
    <2>5. Created' /\ Copied'
      BY <1>1, <1>2, <2>2, <2>3 DEF initData, Created, Copied
    <2> QED
      BY <2>3, <2>4, <2>5 DEF TimerInv
  <1>3. CASE barrier_create
    <2>1. PICK ok \in BOOLEAN :
            Step(Owner, "barrier", IF ok THEN "init" ELSE "freed")
      BY <1>3 DEF barrier_create
    <2> DEFINE to == IF ok THEN "init" ELSE "freed"
    <2>2. to \in {"init", "freed"} /\ Step(Owner, "barrier", to)
      BY <2>1
    <2> HIDE DEF to
    <2>3. /\ at[Owner] = "barrier" /\ at' = [at EXCEPT ![Owner] = to]
          /\ \A t \in Cores : at[t] = "none"
          /\ count' = 0 /\ UNCHANGED << created, stopper, counted, result, early >>
      BY <1>1, <1>3, <2>2 DEF Step, barrier_create, Created
    <2>4. /\ at' \in [Parties -> ThreadPCs \cup OwnerPCs]
          /\ \A t \in Cores : at'[t] = "none"
          /\ at'[Owner] = to
      BY <1>1, <2>2, <2>3, PartiesFinite DEF TimerTypeOK, OwnerPCs
    <2>5. \A p \in Parties : at'[p] = IF p = Owner THEN to ELSE "none"
      BY <2>4 DEF Parties
    <2>6. Together'
      <3>1. Waiters' = {}
        BY <2>2, <2>5, WaitPoints DEF Waiters
      <3>2. InStepAlways'
        BY <2>2, <2>5, InsideMeansNext DEF InStepAlways, InsidePoints
      <3> QED
        BY <2>3, <3>1, <3>2, FS_EmptySet DEF Together
    <2>7. TimerTypeOK'
      BY <1>1, <2>2, <2>3, <2>4 DEF TimerTypeOK, OwnerPCs, ThreadPCs
    <2>8. Created' /\ Copied'
      BY <1>1, <2>2, <2>3, <2>4 DEF Created, Copied
    <2> QED
      BY <2>6, <2>7, <2>8 DEF TimerInv
  <1>4. CASE CreateThread
    <2>1. /\ at[Owner] = "init" /\ created \in Cores /\ created' = created + 1
          /\ at' = [at EXCEPT ![created] = "setup"] /\ at[created] = "none"
          /\ UNCHANGED << count, stopper, counted, result, early >>
      BY <1>1, <1>4 DEF CreateThread, Created, TimerTypeOK, Cores
    <2>2. created \in Parties /\ created # Owner
      BY <2>1, PartiesFinite
    <2>3. Together'
      <3>1. /\ at[created] \notin Waits /\ "setup" \notin Waits
            /\ at[created] \in InsidePoints <=> "setup" \in InsidePoints
        BY <2>1, WaitPoints DEF InsidePoints
      <3> QED
        BY <1>1, <2>1, <2>2, <3>1, OneParty
    <2>4. \A p \in Parties : at'[p] = IF p = created THEN "setup" ELSE at[p]
      BY <1>1, <2>1 DEF TimerTypeOK
    <2>5. /\ \A t \in Cores : at'[t] = IF t = created THEN "setup" ELSE at[t]
          /\ at'[Owner] = at[Owner]
      BY <2>2, <2>4, PartiesFinite
    <2>6. TimerTypeOK'
      BY <1>1, <2>1, <2>5 DEF TimerTypeOK, ThreadPCs, Cores
    <2>7. Created' /\ Copied'
      BY <1>1, <2>1, <2>5 DEF Created, Copied, Cores
    <2> QED
      BY <2>3, <2>6, <2>7 DEF TimerInv
  <1>5. CASE CreateThreadFails
    <2>1. /\ Step(Owner, "init", "freed") /\ UNCHANGED << created, count, early >>
          /\ stopper' \in BOOLEAN
          /\ counted' \subseteq Cores /\ result' \subseteq Cores
      BY <1>1, <1>5 DEF CreateThreadFails, TimerTypeOK
    <2>2. /\ at' \in [Parties -> ThreadPCs \cup OwnerPCs]
          /\ \A t \in Cores : at'[t] = at[t]
          /\ at[Owner] = "init" /\ at'[Owner] = "freed" /\ Together'
      BY <2>1, WaitPoints, OwnerStep DEF OwnerPCs, InsidePoints
    <2>3. TimerTypeOK'
      BY <1>1, <2>1, <2>2 DEF TimerTypeOK, OwnerPCs
    <2>4. Created' /\ Copied'
      BY <1>1, <1>5, <2>1, <2>2 DEF CreateThreadFails, Created, Copied
    <2> QED
      BY <2>2, <2>3, <2>4 DEF TimerInv
  <1>6. CASE InitDone
    <2>1. /\ Step(Owner, "init", "off") /\ UNCHANGED << created, count, early >>
          /\ stopper' \in BOOLEAN
          /\ counted' \subseteq Cores /\ result' \subseteq Cores
      BY <1>1, <1>6 DEF InitDone, TimerTypeOK
    <2>2. /\ at' \in [Parties -> ThreadPCs \cup OwnerPCs]
          /\ \A t \in Cores : at'[t] = at[t]
          /\ at[Owner] = "init" /\ at'[Owner] = "off" /\ Together'
      BY <2>1, WaitPoints, OwnerStep DEF OwnerPCs, InsidePoints
    <2>3. TimerTypeOK'
      BY <1>1, <2>1, <2>2 DEF TimerTypeOK, OwnerPCs
    <2>4. Created' /\ Copied'
      BY <1>1, <1>6, <2>1, <2>2 DEF InitDone, Created, Copied
    <2> QED
      BY <2>2, <2>3, <2>4 DEF TimerInv
  <1>7. CASE BeginStart
    <2>1. /\ Step(Owner, "off", "start") /\ UNCHANGED << created, count, early >>
          /\ stopper' \in BOOLEAN
          /\ counted' \subseteq Cores /\ result' \subseteq Cores
      BY <1>1, <1>7 DEF BeginStart, TimerTypeOK
    <2>2. /\ at' \in [Parties -> ThreadPCs \cup OwnerPCs]
          /\ \A t \in Cores : at'[t] = at[t]
          /\ at[Owner] = "off" /\ at'[Owner] = "start" /\ Together'
      BY <2>1, WaitPoints, OwnerStep DEF OwnerPCs, InsidePoints
    <2>3. TimerTypeOK'
      BY <1>1, <2>1, <2>2 DEF TimerTypeOK, OwnerPCs
    <2>4. Created' /\ Copied'
      BY <1>1, <1>7, <2>1, <2>2 DEF BeginStart, Created, Copied
    <2> QED
      BY <2>2, <2>3, <2>4 DEF TimerInv
  <1>8. CASE BeginStop
    <2>1. /\ Step(Owner, "on", "kill") /\ UNCHANGED << created, count, early >>
          /\ stopper' \in BOOLEAN
          /\ counted' \subseteq Cores /\ result' \subseteq Cores
      BY <1>1, <1>8 DEF BeginStop, TimerTypeOK
    <2>2. /\ at' \in [Parties -> ThreadPCs \cup OwnerPCs]
          /\ \A t \in Cores : at'[t] = at[t]
          /\ at[Owner] = "on" /\ at'[Owner] = "kill" /\ Together'
      BY <2>1, WaitPoints, OwnerStep DEF OwnerPCs, InsidePoints
    <2>3. TimerTypeOK'
      BY <1>1, <2>1, <2>2 DEF TimerTypeOK, OwnerPCs
    <2>4. Created' /\ Copied'
      BY <1>1, <1>8, <2>1, <2>2 DEF BeginStop, Created, Copied
    <2> QED
      BY <2>2, <2>3, <2>4 DEF TimerInv
  <1>9. CASE WakeUpThreads
    <2>1. /\ Step(Owner, "kill", "stop") /\ UNCHANGED << created, count, early >>
          /\ stopper' \in BOOLEAN
          /\ counted' \subseteq Cores /\ result' \subseteq Cores
      BY <1>1, <1>9 DEF WakeUpThreads, TimerTypeOK
    <2>2. /\ at' \in [Parties -> ThreadPCs \cup OwnerPCs]
          /\ \A t \in Cores : at'[t] = at[t]
          /\ at[Owner] = "kill" /\ at'[Owner] = "stop" /\ Together'
      BY <2>1, WaitPoints, OwnerStep DEF OwnerPCs, InsidePoints
    <2>3. TimerTypeOK'
      BY <1>1, <2>1, <2>2 DEF TimerTypeOK, OwnerPCs
    <2>4. Created' /\ Copied'
      BY <1>1, <1>9, <2>1, <2>2 DEF WakeUpThreads, Created, Copied
    <2> QED
      BY <2>2, <2>3, <2>4 DEF TimerInv
  <1>10. CASE ReadCycles
    <2>1. /\ Step(Owner, "read", "off") /\ UNCHANGED << created, count, early >>
          /\ stopper' \in BOOLEAN
          /\ counted' \subseteq Cores /\ result' \subseteq Cores
      BY <1>1, <1>10 DEF ReadCycles, TimerTypeOK
    <2>2. /\ at' \in [Parties -> ThreadPCs \cup OwnerPCs]
          /\ \A t \in Cores : at'[t] = at[t]
          /\ at[Owner] = "read" /\ at'[Owner] = "off" /\ Together'
      BY <2>1, WaitPoints, OwnerStep DEF OwnerPCs, InsidePoints
    <2>3. TimerTypeOK'
      BY <1>1, <2>1, <2>2 DEF TimerTypeOK, OwnerPCs
    <2>4. Created' /\ Copied'
      BY <1>1, <1>10, <2>1, <2>2 DEF ReadCycles, Created, Copied
    <2> QED
      BY <2>2, <2>3, <2>4 DEF TimerInv
  <1>11. CASE Fini
    <2>1. /\ Step(Owner, "off", "freed") /\ UNCHANGED << created, count, early >>
          /\ stopper' \in BOOLEAN
          /\ counted' \subseteq Cores /\ result' \subseteq Cores
      BY <1>1, <1>11 DEF Fini, TimerTypeOK
    <2>2. /\ at' \in [Parties -> ThreadPCs \cup OwnerPCs]
          /\ \A t \in Cores : at'[t] = at[t]
          /\ at[Owner] = "off" /\ at'[Owner] = "freed" /\ Together'
      BY <2>1, WaitPoints, OwnerStep DEF OwnerPCs, InsidePoints
    <2>3. TimerTypeOK'
      BY <1>1, <2>1, <2>2 DEF TimerTypeOK, OwnerPCs
    <2>4. Created' /\ Copied'
      BY <1>1, <1>11, <2>1, <2>2 DEF Fini, Created, Copied
    <2> QED
      BY <2>2, <2>3, <2>4 DEF TimerInv
  <1>12. ASSUME NEW t \in Cores, Thread(t)
         PROVE  TimerInv'
    <2>1. CASE BarrierWait(t)
      BY <2>1, PartiesFinite, BarrierStep
    <2>2. ASSUME NEW from \in {"setup", "measure", "sleep"},
                 NEW to \in {"begin", "measure", "sleep", "end"},
                 Step(t, from, to), from = "setup" <=> to = "begin",
                 UNCHANGED << created, early, count, stopper, result >>,
                 counted' \subseteq Cores, from # "sleep" => counted' = counted
          PROVE  TimerInv'
      <3>1. /\ at' \in [Parties -> ThreadPCs \cup OwnerPCs]
            /\ \A u \in Cores : at'[u] \in ThreadPCs
            /\ at'[Owner] = at[Owner] /\ Together' /\ Created'
        BY <2>2, WaitPoints, ThreadStep DEF ThreadPCs, InsidePoints
      <3>2. TimerTypeOK'
        BY <1>1, <2>2, <3>1 DEF TimerTypeOK
      <3>3. at[t] = from
        BY <2>2 DEF Step
      <3>4. ~early /\ from = "sleep" =>
              at[Owner] \notin {"alloc", "barrier", "init", "off"}
        BY <1>1, <3>3, InsideMeans, PartiesFinite
           DEF Together, InStepAlways, InsidePoints
      <3>5. Copied'
        BY <1>1, <2>2, <3>1, <3>4 DEF Copied
      <3> QED
        BY <3>1, <3>2, <3>5 DEF TimerInv
    <2>3. CASE Setup(t)
      BY <1>1, <2>2, <2>3 DEF Setup, TimerTypeOK
    <2>4. CASE Measure(t)
      <3>1. CASE stopper
        BY <1>1, <2>2, <2>4, <3>1 DEF Measure, TimerTypeOK
      <3>2. CASE ~stopper
        BY <1>1, <2>2, <2>4, <3>2 DEF Measure, TimerTypeOK
      <3> QED
        BY <3>1, <3>2
    <2>5. CASE AddCycles(t)
      BY <1>1, <2>2, <2>5 DEF AddCycles, TimerTypeOK
    <2> QED
      BY <1>12, <2>1, <2>3, <2>4, <2>5 DEF Thread
  <1>13. CASE UNCHANGED timerVars
    <2>1. Waiters' = Waiters /\ (InStepAlways => InStepAlways')
      BY <1>13, InsideMeans, InsideMeansNext DEF timerVars, Waiters, InStepAlways
    <2>2. Together'
      BY <1>1, <1>13, <2>1 DEF timerVars, Together
    <2> QED
      BY <1>1, <1>13, <2>2
         DEF timerVars, TimerInv, TimerTypeOK, Created, Copied
  <1> QED
    BY <1>2, <1>3, <1>4, <1>5, <1>6, <1>7, <1>8, <1>9, <1>10, <1>11, <1>12,
       <1>13, BarrierStep, SpuriousStep, PartiesFinite DEF TimerNext, OwnerRuns

THEOREM TimerInductive == TimerSpec => []TimerInv
  BY TimerInvInit, TimerInvStep, PTL DEF TimerSpec

\* All the threads and the owner enter and leave a measurement together, for
\* any number of cores, as long as no wait for the condition ends too early.
THEOREM MeasureInStep == TimerSpec => []InStep
  <1>1. TimerInv => InStep
    BY DEF TimerInv, Together, InStep
  <1> QED
    BY <1>1, TimerInductive, PTL

\* What stop has copied is all that was counted: no thread adds to it any
\* more.
THEOREM CopiedResultIsOwn == TimerSpec => []ResultIsOwn
  <1>1. TimerInv => ResultIsOwn
    BY DEF TimerInv, Copied, ResultIsOwn
  <1> QED
    BY <1>1, TimerInductive, PTL

-----------------------------------------------------------------------------
(* EnergyMsr: the overflows that the reads see are those of the counter.   *)

Ids == 0 .. NbSockets - 1
MsrPCs == {"off", "init", "failed", "idle", "start", "start_store", "measuring",
           "stop", "stop_count", "stop_store", "sum", "sum_lastE",
           "sum_ovfCnt", "over"}
Busy == {"start_store", "stop_count", "stop_store", "sum_lastE", "sum_ovfCnt"}
Reading == [energy : Int, total : Int]
Truth == [ref : [Ids -> Int], last : [Ids -> Int], sum : [Ids -> Int]]

MsrTyped ==
  /\ nbCPUs \in Nat /\ nbCPUs <= NbSockets
  /\ mainSocket \in Nat /\ updSocket \in Nat
  /\ main \in MsrPCs /\ updater \in {"none", "read", "count", "store"}
  /\ reading \in [Callers -> Reading] /\ operand \in Int
  /\ total \in [Ids -> Nat] /\ true \in Truth
  /\ refE \in [Ids -> Int] /\ lastE \in [Ids -> Int]
  /\ ovfCnt \in [Ids -> Int] /\ res \in [Ids -> Int]

\* Whoever stores has read the counter of a socket of the probe.
HasRead(caller, s) ==
  /\ s \in Sockets
  /\ reading[caller].total \in 0 .. total[s]
  /\ reading[caller].energy = reading[caller].total % Wrap

ReadsSound ==
  /\ updater \in {"count", "store"} => HasRead("updater", updSocket)
  /\ main \in {"start_store", "stop_count", "stop_store"} =>
       HasRead("main", mainSocket)
  /\ main \in Busy => mainSocket \in Sockets
  /\ main \in {"off", "init"} =>
       updater = "none" /\ res = Zero /\ true.sum = Zero

\* start has stored the values of the socket.
Live(s) ==
  \/ main \in {"measuring", "stop", "stop_count", "stop_store", "sum",
               "sum_lastE", "sum_ovfCnt"}
  \/ main \in {"start", "start_store"} /\ s < mainSocket

\* stop has made the result of the socket.
Summed(s) ==
  \/ main = "idle"
  \/ main \in {"sum", "sum_lastE", "sum_ovfCnt"} /\ s < mainSocket

\* A caller is about to test for an overflow, or has, and is about to store.
Counting(caller, s) ==
  IF caller = "main" THEN main = "stop_count" /\ mainSocket = s
                     ELSE updater = "count" /\ updSocket = s
Storing(caller, s) ==
  IF caller = "main" THEN main = "stop_store" /\ mainSocket = s
                     ELSE updater = "store" /\ updSocket = s

\* The energy from the values of the socket is the true one.
Exactly(s) ==
  /\ true.last[s] \in 0 .. total[s]
  /\ lastE[s] = true.last[s] % Wrap
  /\ lastE[s] + ovfCnt[s] * Wrap - refE[s] = true.last[s] - true.ref[s]

\* It will be when the caller has stored.
Counted(caller, s) ==
  reading[caller].energy + ovfCnt[s] * Wrap - refE[s]
    = reading[caller].total - true.ref[s]

\* A value that is stored later is not older than the one it replaces.
SocketSound(s) ==
  /\ Live(s) /\ (\A c \in Callers : ~Storing(c, s)) => Exactly(s)
  /\ \A c \in Callers :
       /\ Live(s) /\ Counting(c, s) => true.last[s] <= reading[c].total
       /\ Live(s) /\ Storing(c, s) => Counted(c, s)
  /\ MainIn(s) => ~Updating(s)
  /\ mainSocket = s =>
       /\ main = "sum_ovfCnt" => operand = lastE[s]
       /\ main = "sum_lastE" => operand = ovfCnt[s]
  /\ Summed(s) => res[s] = true.sum[s]

MsrInv == MsrTyped /\ ReadsSound /\ \A s \in Sockets \ blurred : SocketSound(s)

-----------------------------------------------------------------------------
\* A set of numbers up to n that is not empty has a greatest.
LEMMA GreatestUpTo ==
  ASSUME NEW n \in Nat, NEW S \in SUBSET (0 .. n), S # {}
  PROVE  Max(S) \in S
  <1> DEFINE D == {d \in Nat : n - d \in S}
             R == OpToRel(<, Nat)
  <1>1. D \subseteq Nat /\ D # {}
    <2>1. PICK x \in S : TRUE
      OBVIOUS
    <2>2. n - x \in Nat /\ n - (n - x) = x
      OBVIOUS
    <2> QED
      BY <2>1, <2>2
  <1>2. PICK d \in D : \A c \in D : ~ (<< c, d >> \in R)
    BY <1>1, NatLessThanWellFounded, WFMin
  <1>3. \A c \in D : d <= c
    <2> SUFFICES ASSUME NEW c \in D
                 PROVE  d <= c
      OBVIOUS
    <2>1. c \in Nat /\ d \in Nat
      BY <1>1
    <2>2. c < d => << c, d >> \in R
      BY <2>1 DEF OpToRel
    <2> HIDE DEF D, R
    <2> QED
      BY <1>2, <2>1, <2>2
  <1>4. n - d \in S /\ \A y \in S : y <= n - d
    <2>1. d \in Nat /\ n - d \in S
      OBVIOUS
    <2>2. ASSUME NEW y \in S
          PROVE  y <= n - d
      <3>1. n - y \in D
        <4>1. n - y \in Nat /\ n - (n - y) = y
          OBVIOUS
        <4> QED
          BY <4>1
      <3> QED
        BY <1>3, <2>1, <3>1
    <2> QED
      BY <2>1, <2>2
  <1> QED
    BY <1>4 DEF Max

LEMMA DevicesInRange ==
  ASSUME NEW sockets \in SUBSET (0 .. NbSockets - 1)
  PROVE  nbDevices(sockets) \in 1 .. NbSockets
  <1> DEFINE S == {1} \cup {s + 1 : s \in sockets}
  <1>1. S \subseteq 1 .. NbSockets
    BY MsrAssumption
  <1>2. S \in SUBSET (0 .. NbSockets) /\ S # {}
    BY <1>1
  <1>3. Max(S) \in S
    BY <1>2, MsrAssumption, GreatestUpTo
  <1> QED
    BY <1>1, <1>3 DEF nbDevices

Values == << reading, operand, total, refE, lastE, ovfCnt, res, true >>

\* What the model notes of the reads, one field at a time.
LEMMA TruthUpdates ==
  ASSUME NEW t \in Truth, NEW s \in Ids, NEW v \in Int
  PROVE  /\ [t EXCEPT !.last[s] = v] \in Truth
         /\ [t EXCEPT !.last[s] = v].last = [t.last EXCEPT ![s] = v]
         /\ [t EXCEPT !.last[s] = v].ref = t.ref
         /\ [t EXCEPT !.last[s] = v].sum = t.sum
  BY DEF Truth

\* A step that leaves the values of the socket alone, and brings nobody to it.
LEMMA SocketFrame ==
  ASSUME NEW s, SocketSound(s), NEW t \in Nat, total[s] = t,
         NEW u \in Nat, total'[s] = u, t <= u,
         UNCHANGED << refE[s], lastE[s], ovfCnt[s], res[s],
                      true.ref[s], true.last[s], true.sum[s] >>,
         \A c \in Callers :
           /\ Counting(c, s)' => Counting(c, s) /\ reading'[c] = reading[c]
           /\ Storing(c, s)' => reading'[c] = reading[c]
           /\ Storing(c, s)' <=> Storing(c, s),
         Live(s)' => Live(s), MainIn(s)' => MainIn(s),
         Updating(s)' => Updating(s), Summed(s)' => Summed(s),
         main' \in {"sum_ovfCnt", "sum_lastE"} /\ mainSocket' = s =>
           UNCHANGED << main, mainSocket, operand >>
  PROVE  SocketSound(s)'
  <1>1. Exactly(s) => Exactly(s)'
    BY DEF Exactly
  <1>2. ASSUME NEW c \in Callers, Live(s)'
        PROVE  /\ Counting(c, s)' => true'.last[s] <= reading'[c].total
               /\ Storing(c, s)' => Counted(c, s)'
    BY <1>2 DEF SocketSound, Counted
  <1>3. Live(s)' /\ (\A c \in Callers : ~Storing(c, s)') => Exactly(s)'
    BY <1>1 DEF SocketSound
  <1>4. MainIn(s)' => ~Updating(s)'
    BY DEF SocketSound
  <1>5. mainSocket' = s =>
          /\ main' = "sum_ovfCnt" => operand' = lastE'[s]
          /\ main' = "sum_lastE" => operand' = ovfCnt'[s]
    BY DEF SocketSound
  <1>6. Summed(s)' => res'[s] = true'.sum[s]
    BY DEF SocketSound
  <1> QED
    BY <1>2, <1>3, <1>4, <1>5, <1>6 DEF SocketSound

LEMMA QuietStep ==
  ASSUME MsrInv, UNCHANGED << Values, nbCPUs, updater, updSocket >>,
         main' \in Busy => UNCHANGED << main, mainSocket >>,
         main \in {"stop_count", "stop_store"} =>
           UNCHANGED << main, mainSocket >>,
         NEW s \in Sockets \ blurred,
         Live(s)' => Live(s), Summed(s)' => Summed(s)
  PROVE  SocketSound(s)'
  <1>1. SocketSound(s) /\ total[s] \in Nat
    BY MsrAssumption DEF MsrInv, MsrTyped, Sockets, Ids
  <1>2. \A c \in Callers :
          /\ Counting(c, s)' => Counting(c, s)
          /\ Storing(c, s)' <=> Storing(c, s)
    BY DEF Counting, Storing, Busy, Callers
  <1>3. MainIn(s)' => MainIn(s)
    BY DEF MainIn, Busy
  <1>4. Updating(s)' => Updating(s)
    BY DEF Updating
  <1>5. main' \in {"sum_ovfCnt", "sum_lastE"} =>
          UNCHANGED << main, mainSocket, operand >>
    BY DEF Busy, Values
  <1>6. total[s] <= total[s] /\ UNCHANGED << reading, total >>
    BY <1>1 DEF Values
  <1>7. UNCHANGED << refE[s], lastE[s], ovfCnt[s], res[s],
                     true.ref[s], true.last[s], true.sum[s] >>
    BY DEF Values
  <1> QED
    BY <1>1, <1>2, <1>3, <1>4, <1>5, <1>6, <1>7, SocketFrame

LEMMA QuietReads ==
  ASSUME MsrTyped, ReadsSound,
         UNCHANGED << Values, nbCPUs, updater, updSocket >>,
         main' \in Busy => UNCHANGED << main, mainSocket >>,
         main' \in {"off", "init"} => main \in {"off", "init"}
  PROVE  ReadsSound'
  BY DEF ReadsSound, HasRead, Sockets, Values, Busy

LEMMA MsrInvInit == MsrInit => MsrInv
  <1> SUFFICES ASSUME MsrInit
               PROVE  MsrInv
    OBVIOUS
  <1>1. Zero \in [Ids -> Nat] /\ Zero \in [Ids -> Int]
    BY DEF Zero, Ids
  <1>2. reading \in [Callers -> Reading]
    <2>1. Nothing \in Reading
      BY DEF Nothing, Reading
    <2> QED
      BY <2>1 DEF MsrInit
  <1>3. true \in Truth
    BY <1>1 DEF MsrInit, Truth
  <1>4. MsrTyped
    BY <1>1, <1>2, <1>3, MsrAssumption DEF MsrInit, MsrTyped, MsrPCs
  <1>5. ReadsSound
    BY DEF MsrInit, ReadsSound, Busy
  <1>6. ASSUME NEW s \in Sockets
        PROVE  FALSE
    BY <1>6 DEF MsrInit, Sockets
  <1> QED
    BY <1>4, <1>5, <1>6 DEF MsrInv

-----------------------------------------------------------------------------
(* init, fini and the turns of the loops that store nothing.               *)

LEMMA MsrQuietSteps ==
  ASSUME MsrInv,
         MsrBeginInit \/ OpenRegister \/ MsrInitFails \/ MsrInitDone \/ MsrFini
           \/ MsrBeginStart \/ MsrBeginStop \/ Started \/ MainReadFails
           \/ StopUpdated \/ Stopped
  PROVE  MsrInv'
  <1>1. MsrTyped /\ ReadsSound
    BY DEF MsrInv
  <1>2. CASE MsrBeginInit
    <2>1. nbCPUs' \in 1 .. NbSockets
      <3>1. PICK socketOf \in [CPUs -> 0 .. NbSockets] :
              found' = {socketOf[c] : c \in CPUs} \ {Unreadable}
        BY <1>2 DEF MsrBeginInit
      <3>2. found' \in SUBSET (0 .. NbSockets - 1)
        BY <3>1, MsrAssumption DEF Unreadable
      <3> QED
        BY <1>2, <3>2, DevicesInRange DEF MsrBeginInit
    <2>2. MsrTyped'
      BY <1>1, <1>2, <2>1, MsrAssumption DEF MsrBeginInit, MsrTyped, MsrPCs
    <2>3. ReadsSound'
      BY <1>1, <1>2 DEF MsrBeginInit, ReadsSound, Busy
    <2>4. main' = "init" /\ updater' = "none"
      BY <1>1, <1>2 DEF MsrBeginInit, ReadsSound
    <2>5. \A s : SocketSound(s)'
      BY <2>4
         DEF SocketSound, Live, Summed, MainIn, Updating, Counting, Storing
    <2> QED
      BY <2>2, <2>3, <2>5 DEF MsrInv
  <1>3. CASE MsrInitDone
    <2>1. /\ main = "init" /\ main' = "idle" /\ mainSocket' = 0
          /\ UNCHANGED << Values, nbCPUs, updater, updSocket, blurred >>
          /\ updater = "none" /\ res = Zero /\ true.sum = Zero
      BY <1>1, <1>3 DEF MsrInitDone, Values, ReadsSound
    <2>2. MsrTyped'
      BY <1>1, <2>1 DEF MsrTyped, MsrPCs, Values
    <2>3. ReadsSound'
      BY <2>1 DEF ReadsSound, Busy
    <2>4. \A s : SocketSound(s)'
      BY <2>1
         DEF SocketSound, Live, MainIn, Updating, Counting, Storing, Values
    <2> QED
      BY <2>2, <2>3, <2>4 DEF MsrInv
  <1>4. CASE OpenRegister \/ MsrInitFails \/ MsrFini
    <2>1. /\ main' \in {"init", "failed", "over"}
          /\ main \in {"init", "idle"}
          /\ main' = "init" => main = "init"
          /\ mainSocket' \in Nat
          /\ UNCHANGED << Values, nbCPUs, updater, updSocket, blurred >>
      BY <1>1, <1>4
         DEF OpenRegister, MsrInitFails, MsrFini, Values, MsrTyped
    <2>2. MsrTyped'
      BY <1>1, <2>1 DEF MsrTyped, MsrPCs, Values
    <2>3. ReadsSound'
      <3>1. main' \notin Busy /\ main' # "off"
        BY <2>1 DEF Busy
      <3>2. main' = "init" => main = "init"
        BY <2>1
      <3> QED
        BY <1>1, <2>1, <3>1, <3>2, QuietReads
    <2>4. \A s \in Sockets \ blurred : SocketSound(s)'
      <3>1. main' \notin Busy
        BY <2>1 DEF Busy
      <3>2. main = "init" \/ main = "idle"
        BY <2>1, Zenon
      <3>3. \A s : ~Live(s)' /\ ~Summed(s)'
        BY <2>1 DEF Live, Summed
      <3> QED
        BY <2>1, <3>1, <3>2, <3>3, QuietStep
    <2> QED
      BY <2>1, <2>2, <2>3, <2>4 DEF MsrInv, Sockets
  <1>5. CASE MsrBeginStart
    <2>1. /\ main = "idle" /\ main' = "start" /\ mainSocket' = 0
          /\ UNCHANGED << Values, nbCPUs, updater, updSocket >>
      BY <1>5 DEF MsrBeginStart, Values
    <2>2. MsrTyped'
      BY <1>1, <2>1 DEF MsrTyped, MsrPCs, Values
    <2>3. ReadsSound'
      BY <1>1, <2>1, QuietReads DEF Busy
    <2>4. \A s \in Sockets : SocketSound(s)'
      <3>1. \A s \in Sockets : ~Live(s)' /\ ~Summed(s)' /\ ~MainIn(s)'
        BY <2>1 DEF Live, Summed, MainIn, Sockets
      <3> QED
        BY <2>1, <3>1 DEF SocketSound
    <2> QED
      BY <2>1, <2>2, <2>3, <2>4 DEF MsrInv, Sockets
  <1>6. CASE MsrBeginStop \/ Started \/ StopUpdated \/ Stopped
    <2>1. /\ \/ main = "measuring" /\ main' = "stop"
             \/ main = "start" /\ main' = "measuring" /\ mainSocket \notin Sockets
             \/ main = "stop" /\ main' = "sum"
             \/ main = "sum" /\ main' = "idle" /\ mainSocket \notin Sockets
          /\ mainSocket' = 0
          /\ UNCHANGED << Values, nbCPUs, updater, updSocket, blurred >>
      BY <1>6 DEF MsrBeginStop, Started, StopUpdated, Stopped, Values
    <2>2. MsrTyped'
      BY <1>1, <2>1 DEF MsrTyped, MsrPCs, Values
    <2>3. ReadsSound'
      BY <1>1, <2>1, QuietReads DEF Busy
    <2>4. \A s \in Sockets : Live(s) /\ (Summed(s)' => Summed(s))
      <3>1. \A s \in Sockets : mainSocket \notin Sockets => s < mainSocket
        BY <1>1 DEF Sockets, MsrTyped
      <3>2. \A s \in Sockets : ~(s < 0)
        BY <1>1 DEF Sockets, MsrTyped
      <3> QED
        BY <2>1, <3>1, <3>2 DEF Live, Summed
    <2>5. \A s \in Sockets \ blurred : SocketSound(s)'
      BY <2>1, <2>4, QuietStep DEF Busy
    <2> QED
      BY <2>1, <2>2, <2>3, <2>5 DEF MsrInv, Sockets
  <1>7. CASE MainReadFails
    <2>1. /\ main \in {"start", "stop"} /\ main' = main
          /\ mainSocket' = mainSocket + 1 /\ mainSocket \in Nat
          /\ blurred' = blurred \cup {mainSocket}
          /\ UNCHANGED << Values, nbCPUs, updater, updSocket >>
      BY <1>1, <1>7 DEF MainReadFails, Values, MsrTyped
    <2>2. MsrTyped'
      BY <1>1, <2>1 DEF MsrTyped, MsrPCs, Values
    <2>3. ReadsSound'
      BY <1>1, <2>1, QuietReads DEF Busy
    <2>4. ASSUME NEW s \in Sockets \ blurred'
          PROVE  SocketSound(s)'
      <3>1. s \in Sockets \ blurred /\ s # mainSocket /\ s \in Int
        BY <1>1, <2>1, <2>4 DEF Sockets, MsrTyped
      <3>2. (Live(s)' => Live(s)) /\ (Summed(s)' => Summed(s))
        BY <2>1, <3>1 DEF Live, Summed
      <3>3. main' \notin Busy /\ main \notin {"stop_count", "stop_store"}
        BY <2>1 DEF Busy
      <3> QED
        BY <2>1, <3>1, <3>2, <3>3, QuietStep
    <2> QED
      BY <2>1, <2>2, <2>3, <2>4 DEF MsrInv, Sockets
  <1> QED
    BY <1>2, <1>3, <1>4, <1>5, <1>6, <1>7

-----------------------------------------------------------------------------
(* The reads and what is stored of them.                                   *)

LEMMA SocketIds ==
  ASSUME MsrTyped, NEW s \in Sockets
  PROVE  s \in Ids /\ s \in Nat /\ s < nbCPUs
  BY MsrAssumption DEF MsrTyped, Sockets, Ids

LEMMA ReadByReads ==
  ASSUME MsrTyped, NEW caller \in Callers, NEW s \in Sockets, ReadBy(caller, s),
         UNCHANGED << total, nbCPUs >>
  PROVE  /\ reading' \in [Callers -> Reading]
         /\ HasRead(caller, s)'
         /\ reading'[caller].total = total[s]
         /\ \A c \in Callers \ {caller} : reading'[c] = reading[c]
  <1> DEFINE r == [energy |-> total[s] % Wrap, total |-> total[s]]
  <1>1. total[s] \in Nat /\ total[s] % Wrap \in Int
    BY SocketIds, WrapsAndValue, MsrAssumption DEF MsrTyped
  <1>2. r \in Reading
    BY <1>1 DEF Reading
  <1>3. reading' = [reading EXCEPT ![caller] = r]
    BY DEF ReadBy
  <1>4. r.total = total[s] /\ r.energy = total[s] % Wrap
    OBVIOUS
  <1> HIDE DEF r
  <1>5. reading' \in [Callers -> Reading] /\ reading'[caller] = r
    BY <1>2, <1>3 DEF MsrTyped
  <1>6. \A c \in Callers \ {caller} : reading'[c] = reading[c]
    BY <1>3 DEF MsrTyped
  <1> QED
    BY <1>1, <1>4, <1>5, <1>6 DEF HasRead, Sockets

LEMMA ForgetForgets ==
  ASSUME MsrTyped, NEW caller \in Callers, Forget(caller)
  PROVE  /\ reading' \in [Callers -> Reading]
         /\ \A c \in Callers \ {caller} : reading'[c] = reading[c]
  <1>1. Nothing \in Reading
    BY DEF Nothing, Reading
  <1> QED
    BY <1>1 DEF MsrTyped, Forget

\* What a step is not about: the sockets that its thread does not work on.
Kept(s) ==
  UNCHANGED << refE[s], lastE[s], ovfCnt[s], res[s],
               true.ref[s], true.last[s], true.sum[s] >>

LEMMA OtherByMain ==
  ASSUME MsrInv, UNCHANGED << nbCPUs, total, updater, updSocket >>,
         reading'["updater"] = reading["updater"],
         NEW loop \in {{"start", "start_store"},
                       {"stop", "stop_count", "stop_store"},
                       {"sum", "sum_lastE", "sum_ovfCnt"}},
         main \in loop, main' \in loop,
         \/ mainSocket' = mainSocket
         \/ mainSocket' = mainSocket + 1 /\ main' \notin Busy,
         NEW s \in Sockets \ blurred, s # mainSocket, Kept(s)
  PROVE  SocketSound(s)'
  <1>1. SocketSound(s) /\ total[s] \in Nat /\ s \in Int /\ mainSocket \in Int
    BY MsrAssumption DEF MsrInv, MsrTyped, Sockets, Ids
  <1>2. main' \in Busy => mainSocket' # s
    BY <1>1
  <1>3. \A c \in Callers : c = "main" \/ c = "updater"
    BY DEF Callers
  <1>4. \A c \in Callers :
          /\ Counting(c, s)' => Counting(c, s) /\ reading'[c] = reading[c]
          /\ Storing(c, s)' => reading'[c] = reading[c]
          /\ Storing(c, s)' <=> Storing(c, s)
    BY <1>2, <1>3 DEF Counting, Storing, Busy
  <1>5. ~MainIn(s)' /\ (Updating(s)' => Updating(s))
    BY <1>2 DEF MainIn, Updating, Busy
  <1>6. s < mainSocket' => s < mainSocket
    BY <1>1
  <1>7. (Live(s)' => Live(s)) /\ (Summed(s)' => Summed(s))
    BY <1>6 DEF Live, Summed
  <1>8. ~(main' \in {"sum_ovfCnt", "sum_lastE"} /\ mainSocket' = s)
    BY <1>2 DEF Busy
  <1>9. total[s] <= total[s] /\ total'[s] = total[s]
    BY <1>1
  <1> QED
    BY <1>1, <1>4, <1>5, <1>7, <1>8, <1>9, SocketFrame DEF Kept

LEMMA OtherByUpdate ==
  ASSUME MsrInv, UNCHANGED << nbCPUs, total, main, mainSocket, operand >>,
         reading'["main"] = reading["main"],
         updSocket' = updSocket \/ updater' \in {"none", "read"},
         NEW s \in Sockets \ blurred,
         updater \in {"none", "read"} \/ s # updSocket,
         updater' \in {"none", "read"} \/ s # updSocket, Kept(s)
  PROVE  SocketSound(s)'
  <1>1. SocketSound(s) /\ total[s] \in Nat
    BY MsrAssumption DEF MsrInv, MsrTyped, Sockets, Ids
  <1>2. \A c \in Callers : c = "main" \/ c = "updater"
    BY DEF Callers
  <1>3. /\ ~Counting("updater", s)'
        /\ ~Storing("updater", s)' /\ ~Storing("updater", s)
        /\ Counting("main", s)' <=> Counting("main", s)
        /\ Storing("main", s)' <=> Storing("main", s)
    BY DEF Counting, Storing
  <1>4. \A c \in Callers :
          /\ Counting(c, s)' => Counting(c, s) /\ reading'[c] = reading[c]
          /\ Storing(c, s)' => reading'[c] = reading[c]
          /\ Storing(c, s)' <=> Storing(c, s)
    BY <1>2, <1>3
  <1>5. (MainIn(s)' <=> MainIn(s)) /\ ~Updating(s)'
    BY DEF MainIn, Updating
  <1>6. (Live(s)' <=> Live(s)) /\ (Summed(s)' <=> Summed(s))
    BY DEF Live, Summed
  <1>7. total[s] <= total[s] /\ total'[s] = total[s]
    BY <1>1
  <1> QED
    BY <1>1, <1>4, <1>5, <1>6, <1>7, SocketFrame DEF Kept

LEMMA MainReadsSteps == ASSUME MsrInv, MainReads PROVE MsrInv'
  <1> DEFINE m == mainSocket
  <1>1. /\ MsrTyped /\ ReadsSound
        /\ \A s \in Sockets \ blurred : SocketSound(s)
    BY DEF MsrInv
  <1>2. /\ main \in {"start", "stop"} /\ m \in Sockets
        /\ main' = IF main = "start" THEN "start_store" ELSE "stop_count"
        /\ ReadBy("main", m)
        /\ blurred \subseteq blurred'
        /\ Updating(m) => m \in blurred'
        /\ UNCHANGED << nbCPUs, mainSocket, updater, updSocket, operand, total,
                        refE, lastE, ovfCnt, res, true >>
    BY DEF MainReads, BlurIf
  <1>3. /\ reading' \in [Callers -> Reading]
        /\ HasRead("main", m)'
        /\ reading'["main"].total = total[m]
        /\ reading'["updater"] = reading["updater"]
    <2>1. "main" \in Callers /\ "updater" \in Callers \ {"main"}
      BY DEF Callers
    <2>2. UNCHANGED << total, nbCPUs >>
      BY <1>2
    <2>3. /\ reading' \in [Callers -> Reading]
          /\ HasRead("main", mainSocket)'
          /\ reading'["main"].total = total[mainSocket]
          /\ \A c \in Callers \ {"main"} : reading'[c] = reading[c]
      BY <1>1, <1>2, <2>1, <2>2, ReadByReads
    <2> QED
      BY <2>1, <2>3
  <1>4. MsrTyped'
    BY <1>1, <1>2, <1>3 DEF MsrTyped, MsrPCs
  <1>5. ReadsSound'
    BY <1>1, <1>2, <1>3 DEF ReadsSound, HasRead, Sockets
  <1>6. ASSUME NEW s \in Sockets \ blurred'
        PROVE  SocketSound(s)'
    <2>1. SocketSound(s) /\ s \in Ids
      BY <1>1, <1>2, SocketIds
    <2>2. CASE s = m
      <3>1. (Live(s)' <=> Live(s)) /\ ~Summed(s)'
        BY <1>2 DEF Live, Summed
      <3>2. ~Updating(s) /\ ~Updating(s)'
        BY <1>2, <2>2 DEF Updating
      <3>3. \A c \in Callers :
              /\ ~Storing(c, s)' /\ ~Storing(c, s)
              /\ Counting(c, s)' => c = "main" /\ Live(s)
        BY <1>2, <3>2 DEF Storing, Counting, Updating, Callers, Live
      <3>4. Live(s) => Exactly(s) /\ Exactly(s)'
        BY <1>2, <2>1, <3>3 DEF SocketSound, Exactly
      <3>5. Live(s) => true'.last[s] <= reading'["main"].total
        <4>1. total[s] \in Int
          BY <1>1, <2>1 DEF MsrTyped
        <4> QED
          BY <1>2, <1>3, <2>2, <3>4, <4>1 DEF Exactly
      <3>6. main' \notin {"sum_ovfCnt", "sum_lastE"}
        BY <1>2
      <3> QED
        BY <3>1, <3>2, <3>3, <3>4, <3>5, <3>6 DEF SocketSound
    <2>3. CASE s # m
      <3>1. Kept(s)
        BY <1>2 DEF Kept
      <3>2. \E loop \in {{"start", "start_store"},
                         {"stop", "stop_count", "stop_store"}} :
              main \in loop /\ main' \in loop
        BY <1>2
      <3> QED
        BY <1>2, <1>3, <1>6, <2>3, <3>1, <3>2, OtherByMain
    <2> QED
      BY <2>2, <2>3
  <1> QED
    BY <1>2, <1>4, <1>5, <1>6 DEF MsrInv, Sockets

LEMMA StartStoresSteps == ASSUME MsrInv, StartStores PROVE MsrInv'
  <1> DEFINE r == reading["main"]
             m == mainSocket
  <1>1. /\ MsrTyped /\ ReadsSound
        /\ \A s \in Sockets \ blurred : SocketSound(s)
    BY DEF MsrInv
  <1>2. /\ main = "start_store" /\ main' = "start"
        /\ mainSocket' = m + 1
        /\ refE' = [refE EXCEPT ![m] = r.energy]
        /\ lastE' = [lastE EXCEPT ![m] = r.energy]
        /\ true' = [true EXCEPT !.ref[m] = r.total, !.last[m] = r.total,
                                !.sum[m] = 0]
        /\ ovfCnt' = [ovfCnt EXCEPT ![m] = 0]
        /\ res' = [res EXCEPT ![m] = 0]
        /\ Forget("main")
        /\ UNCHANGED << nbCPUs, updater, updSocket, operand, total, blurred >>
    BY DEF StartStores
  <1>3. HasRead("main", m)
    BY <1>1, <1>2 DEF ReadsSound
  <1>4. /\ m \in Sockets /\ m \in Ids /\ m \in Nat
        /\ r \in Reading /\ r.energy \in Int /\ r.total \in Int
        /\ r.total \in 0 .. total[m] /\ r.energy = r.total % Wrap
    <2>1. "main" \in Callers
      BY DEF Callers
    <2>2. r \in Reading
      BY <1>1, <2>1 DEF MsrTyped
    <2>3. r.energy \in Int /\ r.total \in Int
      BY <2>2 DEF Reading
    <2> QED
      BY <1>1, <1>3, <2>2, <2>3, SocketIds DEF HasRead
  <1>5. /\ reading' \in [Callers -> Reading]
        /\ reading'["updater"] = reading["updater"]
    <2>1. "main" \in Callers /\ "updater" \in Callers \ {"main"}
      BY DEF Callers
    <2> QED
      BY <1>1, <1>2, <2>1, ForgetForgets
  <1> HIDE DEF r, m
  <1>6. /\ true' \in Truth
        /\ true'.sum = [true.sum EXCEPT ![m] = 0]
        /\ true'.ref = [true.ref EXCEPT ![m] = r.total]
        /\ true'.last = [true.last EXCEPT ![m] = r.total]
        /\ true.sum \in [Ids -> Int] /\ true.ref \in [Ids -> Int]
        /\ true.last \in [Ids -> Int]
    <2>1. /\ true.sum \in [Ids -> Int] /\ true.ref \in [Ids -> Int]
          /\ true.last \in [Ids -> Int]
          /\ true = [ref |-> true.ref, last |-> true.last, sum |-> true.sum]
      BY <1>1 DEF MsrTyped, Truth
    <2>2. true' = [ref |-> [true.ref EXCEPT ![m] = r.total],
                   last |-> [true.last EXCEPT ![m] = r.total],
                   sum |-> [true.sum EXCEPT ![m] = 0]]
      BY <1>2, <2>1
    <2>3. /\ [true.ref EXCEPT ![m] = r.total] \in [Ids -> Int]
          /\ [true.last EXCEPT ![m] = r.total] \in [Ids -> Int]
          /\ [true.sum EXCEPT ![m] = 0] \in [Ids -> Int]
      BY <1>4, <2>1
    <2> QED
      BY <2>1, <2>2, <2>3 DEF Truth
  <1>7. /\ refE' \in [Ids -> Int] /\ lastE' \in [Ids -> Int]
        /\ ovfCnt' \in [Ids -> Int] /\ res' \in [Ids -> Int]
        /\ refE'[m] = r.energy /\ lastE'[m] = r.energy /\ ovfCnt'[m] = 0
        /\ true'.ref[m] = r.total /\ true'.last[m] = r.total
    BY <1>1, <1>2, <1>4, <1>6 DEF MsrTyped
  <1>8. \A s \in Ids \ {m} : Kept(s)
    <2> SUFFICES ASSUME NEW s \in Ids, s # m
                 PROVE  Kept(s)
      OBVIOUS
    <2>1. UNCHANGED << refE[s], lastE[s], ovfCnt[s], res[s] >>
      BY <1>1, <1>2 DEF MsrTyped
    <2>2. UNCHANGED << true.ref[s], true.last[s], true.sum[s] >>
      BY <1>6
    <2> QED
      BY <2>1, <2>2 DEF Kept
  <1>9. MsrTyped'
    <2>1. mainSocket' \in Nat /\ main' \in MsrPCs
      BY <1>2, <1>4 DEF MsrPCs
    <2> QED
      BY <1>1, <1>2, <1>5, <1>6, <1>7, <2>1 DEF MsrTyped
  <1>10. ReadsSound'
    BY <1>1, <1>2, <1>5 DEF ReadsSound, HasRead, Sockets, Busy
  <1>11. ASSUME NEW s \in Sockets \ blurred
         PROVE  SocketSound(s)'
    <2>1. SocketSound(s) /\ s \in Ids /\ s \in Nat
      BY <1>1, SocketIds
    <2>2. CASE s = m
      <3>1. Exactly(s)'
        <4>1. r.energy + 0 * Wrap - r.energy = r.total - r.total
          BY <1>4, MsrAssumption
        <4> QED
          BY <1>2, <1>4, <1>7, <2>2, <4>1 DEF Exactly
      <3>2. ~Updating(s) /\ ~Updating(s)'
        BY <1>2, <2>1, <2>2 DEF SocketSound, MainIn, Updating, m
      <3>3. \A c \in Callers : ~Counting(c, s)' /\ ~Storing(c, s)'
        BY <1>2, <3>2 DEF Counting, Storing, Updating
      <3>4. ~Summed(s)' /\ main' \notin {"sum_ovfCnt", "sum_lastE"}
        BY <1>2 DEF Summed
      <3> QED
        BY <3>1, <3>2, <3>3, <3>4 DEF SocketSound
    <2>3. CASE s # m
      <3>1. Kept(s)
        BY <1>8, <2>1, <2>3
      <3>2. mainSocket' = mainSocket + 1 /\ main' \notin Busy /\ s # mainSocket
        BY <1>2, <2>3 DEF Busy, m
      <3>3. /\ main \in {"start", "start_store"}
            /\ main' \in {"start", "start_store"}
        BY <1>2
      <3> QED
        BY <1>2, <1>5, <3>1, <3>2, <3>3, OtherByMain
    <2> QED
      BY <2>2, <2>3
  <1> QED
    BY <1>2, <1>9, <1>10, <1>11 DEF MsrInv, Sockets

LEMMA CallerReads ==
  ASSUME MsrTyped, NEW caller \in Callers
  PROVE  /\ reading[caller].energy \in Int /\ reading[caller].total \in Int
  <1>1. reading[caller] \in Reading
    BY DEF MsrTyped
  <1> QED
    BY <1>1 DEF Reading

LEMMA CountCounts ==
  ASSUME MsrTyped, NEW caller \in Callers, NEW m \in Ids,
         CountOverflow(caller, m)
  PROVE  /\ ovfCnt' \in [Ids -> Int]
         /\ ovfCnt'[m] = ovfCnt[m] + (IF reading[caller].energy < lastE[m]
                                        THEN 1 ELSE 0)
         /\ \A s \in Ids \ {m} : ovfCnt'[s] = ovfCnt[s]
  <1>1. ovfCnt \in [Ids -> Int] /\ ovfCnt[m] \in Int
    BY DEF MsrTyped
  <1>2. CASE reading[caller].energy < lastE[m]
    BY <1>1, <1>2 DEF CountOverflow
  <1>3. CASE ~ (reading[caller].energy < lastE[m])
    BY <1>1, <1>3 DEF CountOverflow
  <1> QED
    BY <1>2, <1>3

LEMMA StoreStores ==
  ASSUME MsrTyped, NEW caller \in Callers, NEW m \in Ids, StoreLast(caller, m)
  PROVE  /\ lastE' \in [Ids -> Int] /\ true' \in Truth
         /\ true'.ref = true.ref /\ true'.sum = true.sum
         /\ true'.last[m] = reading[caller].total
         /\ lastE'[m] = reading[caller].energy
         /\ \A s \in Ids \ {m} :
              lastE'[s] = lastE[s] /\ true'.last[s] = true.last[s]
  <1>1. reading[caller].energy \in Int /\ reading[caller].total \in Int
    BY CallerReads
  <1>2. true \in Truth
    BY DEF MsrTyped
  <1>3. /\ true' \in Truth
        /\ true'.last = [true.last EXCEPT ![m] = reading[caller].total]
        /\ true'.ref = true.ref /\ true'.sum = true.sum
    BY <1>1, <1>2, TruthUpdates DEF StoreLast
  <1>4. true.last \in [Ids -> Int]
    BY <1>2 DEF Truth
  <1>5. lastE' \in [Ids -> Int]
        /\ \A s \in Ids : lastE'[s] =
             IF s = m THEN reading[caller].energy ELSE lastE[s]
    BY <1>1 DEF StoreLast, MsrTyped
  <1> QED
    BY <1>3, <1>4, <1>5

\* The step the counting of overflows rests on: between two reads the counter
\* has wrapped once if it is seen to have fallen, and not at all otherwise.
LEMMA CountIsExact ==
  ASSUME MsrTyped, NEW caller \in Callers, NEW m \in Sockets,
         CountOverflow(caller, m), UNCHANGED << reading, refE, true >>,
         HasRead(caller, m), Exactly(m), ~Missed(caller, m),
         true.last[m] <= reading[caller].total
  PROVE  Counted(caller, m)'
  <1> DEFINE a == true.last[m]
             b == reading[caller].total
             n == ovfCnt[m]
             r == refE[m]
             t == true.ref[m]
  <1>1. m \in Ids /\ Wrap \in Nat \ {0}
    BY SocketIds, MsrAssumption
  <1>2. /\ a \in Nat /\ b \in Nat /\ n \in Int
        /\ r \in Int /\ t \in Int
    BY <1>1, CallerReads DEF MsrTyped, Truth, HasRead, Exactly
  <1>3. /\ reading[caller].energy = b % Wrap
        /\ ovfCnt'[m] = n + (IF b % Wrap < a % Wrap THEN 1 ELSE 0)
    BY <1>1, CountCounts DEF HasRead, Exactly
  <1>4. a <= b /\ b - a < Wrap
    <2>1. a <= b /\ ~ (b - a >= Wrap)
      BY DEF Missed
    <2> HIDE DEF a, b
    <2> QED
      BY <1>1, <1>2, <2>1
  <1>5. (a % Wrap) + n * Wrap - r = a - t
    BY DEF Exactly
  <1> HIDE DEF a, b, n, r, t
  <1> DEFINE x == a % Wrap
             y == b % Wrap
             f == IF y < x THEN 1 ELSE 0
  <1>6. y = x + (b - a) - (IF y < x THEN Wrap ELSE 0)
    BY <1>1, <1>2, <1>4, OneWrap
  <1>7. x \in Int /\ y \in Int
    BY ONLY <1>1, <1>2, ValueIsInt, Zenon
  <1>8. x + n * Wrap - r = a - t
    BY <1>5
  <1>9. reading[caller].energy = y /\ ovfCnt'[m] = n + f
    BY <1>3
  <1> HIDE DEF x, y
  <1>10. (n + 1) * Wrap = n * Wrap + Wrap /\ n * Wrap \in Int
         /\ (n + 0) * Wrap = n * Wrap
    BY <1>1, <1>2
  <1>11. y + (n + f) * Wrap - r = b - t
    BY <1>1, <1>2, <1>6, <1>7, <1>8, <1>10
  <1>12. /\ reading'[caller].energy = y /\ reading'[caller].total = b
         /\ ovfCnt'[m] = n + f /\ refE'[m] = r /\ true'.ref[m] = t
    BY <1>9 DEF b, r, t
  <1> QED
    BY <1>11, <1>12 DEF Counted

LEMMA StoreIsExact ==
  ASSUME MsrTyped, NEW caller \in Callers, NEW m \in Sockets,
         StoreLast(caller, m), UNCHANGED << total, refE, ovfCnt >>,
         HasRead(caller, m), Counted(caller, m)
  PROVE  Exactly(m)'
  <1>1. m \in Ids
    BY SocketIds
  <1>2. /\ true'.last[m] = reading[caller].total
        /\ lastE'[m] = reading[caller].energy
        /\ true'.ref = true.ref
    BY <1>1, StoreStores
  <1> QED
    BY <1>2 DEF HasRead, Counted, Exactly

LEMMA StopCountsSteps == ASSUME MsrInv, StopCounts PROVE MsrInv'
  <1> DEFINE m == mainSocket
  <1>1. /\ MsrTyped /\ ReadsSound
        /\ \A s \in Sockets \ blurred : SocketSound(s)
    BY DEF MsrInv
  <1>2. /\ main = "stop_count" /\ main' = "stop_store"
        /\ CountOverflow("main", m)
        /\ blurred \subseteq blurred'
        /\ Missed("main", m) => m \in blurred'
        /\ UNCHANGED << nbCPUs, mainSocket, updater, updSocket, reading,
                        operand, total, refE, lastE, res, true >>
    BY DEF StopCounts, BlurIf
  <1>3. "main" \in Callers
    BY DEF Callers
  <1>4. HasRead("main", m) /\ m \in Sockets /\ m \in Ids
    BY <1>1, <1>2, SocketIds DEF ReadsSound, HasRead
  <1>5. ovfCnt' \in [Ids -> Int] /\ \A s \in Ids \ {m} : ovfCnt'[s] = ovfCnt[s]
    BY <1>1, <1>2, <1>3, <1>4, CountCounts
  <1>6. MsrTyped'
    BY <1>1, <1>2, <1>5 DEF MsrTyped, MsrPCs
  <1>7. ReadsSound'
    BY <1>1, <1>2, <1>4 DEF ReadsSound, HasRead, Sockets
  <1>8. ASSUME NEW s \in Sockets \ blurred'
        PROVE  SocketSound(s)'
    <2>1. SocketSound(s) /\ s \in Ids
      BY <1>1, <1>2, SocketIds
    <2>2. CASE s = m
      <3>1. ~Updating(s) /\ ~Updating(s)'
        BY <1>2, <2>1, <2>2 DEF SocketSound, MainIn, Updating
      <3>2. /\ \A c \in Callers : ~Storing(c, s) /\ ~Counting(c, s)'
            /\ \A c \in Callers : Storing(c, s)' => c = "main"
            /\ Storing("main", s)' /\ Counting("main", s) /\ Live(s)
        BY <1>2, <2>2, <3>1 DEF Storing, Counting, Updating, Callers, Live
      <3>3. Exactly(s) /\ true.last[s] <= reading["main"].total
        BY <1>3, <2>1, <3>2 DEF SocketSound
      <3>4. ~Missed("main", s)
        BY <1>2, <2>2
      <3>5. UNCHANGED << reading, refE, true >>
        BY <1>2
      <3>6. Counted("main", s)'
        BY <1>1, <1>2, <1>3, <1>4, <2>2, <3>3, <3>4, <3>5, CountIsExact
      <3>7. ~Summed(s)' /\ main' \notin {"sum_ovfCnt", "sum_lastE"}
        BY <1>2 DEF Summed
      <3> QED
        BY <1>3, <3>1, <3>2, <3>6, <3>7 DEF SocketSound
    <2>3. CASE s # m
      <3>1. Kept(s)
        BY <1>2, <1>5, <2>1, <2>3 DEF Kept
      <3>2. /\ main \in {"stop", "stop_count", "stop_store"}
            /\ main' \in {"stop", "stop_count", "stop_store"}
            /\ reading'["updater"] = reading["updater"]
        BY <1>2
      <3> QED
        BY <1>2, <1>8, <2>3, <3>1, <3>2, OtherByMain
    <2> QED
      BY <2>2, <2>3
  <1> QED
    BY <1>2, <1>6, <1>7, <1>8 DEF MsrInv, Sockets

LEMMA StopStoresSteps == ASSUME MsrInv, StopStores PROVE MsrInv'
  <1> DEFINE m == mainSocket
  <1>1. /\ MsrTyped /\ ReadsSound
        /\ \A s \in Sockets \ blurred : SocketSound(s)
    BY DEF MsrInv
  <1>2. /\ main = "stop_store" /\ main' = "stop" /\ mainSocket' = m + 1
        /\ StoreLast("main", m) /\ Forget("main")
        /\ UNCHANGED << nbCPUs, updater, updSocket, operand, total, refE,
                        ovfCnt, res, blurred >>
    BY DEF StopStores
  <1>3. "main" \in Callers /\ "updater" \in Callers \ {"main"}
    BY DEF Callers
  <1>4. HasRead("main", m) /\ m \in Sockets /\ m \in Ids /\ m \in Nat
    BY <1>1, <1>2, SocketIds DEF ReadsSound, HasRead
  <1>5. /\ reading' \in [Callers -> Reading]
        /\ reading'["updater"] = reading["updater"]
    BY <1>1, <1>2, <1>3, ForgetForgets
  <1>6. /\ lastE' \in [Ids -> Int] /\ true' \in Truth
        /\ true'.ref = true.ref /\ true'.sum = true.sum
        /\ \A s \in Ids \ {m} :
             lastE'[s] = lastE[s] /\ true'.last[s] = true.last[s]
    BY <1>1, <1>2, <1>3, <1>4, StoreStores
  <1>7. MsrTyped'
    BY <1>1, <1>2, <1>4, <1>5, <1>6 DEF MsrTyped, MsrPCs
  <1>8. ReadsSound'
    BY <1>1, <1>2, <1>5 DEF ReadsSound, HasRead, Sockets, Busy
  <1>9. ASSUME NEW s \in Sockets \ blurred
        PROVE  SocketSound(s)'
    <2>1. SocketSound(s) /\ s \in Ids
      BY <1>1, <1>2, SocketIds
    <2>2. CASE s = m
      <3>1. ~Updating(s) /\ ~Updating(s)'
        BY <1>2, <2>1, <2>2 DEF SocketSound, MainIn, Updating
      <3>2. /\ \A c \in Callers : ~Storing(c, s)' /\ ~Counting(c, s)'
            /\ Storing("main", s) /\ Live(s)
        BY <1>2, <2>2, <3>1 DEF Storing, Counting, Updating, Callers, Live
      <3>3. Counted("main", s)
        BY <1>3, <2>1, <3>2 DEF SocketSound
      <3>4. UNCHANGED << total, refE, ovfCnt >>
        BY <1>2
      <3>5. Exactly(s)'
        BY <1>1, <1>2, <1>3, <1>4, <2>2, <3>3, <3>4, StoreIsExact
      <3>6. ~Summed(s)' /\ main' \notin {"sum_ovfCnt", "sum_lastE"}
        BY <1>2 DEF Summed
      <3> QED
        BY <3>1, <3>2, <3>5, <3>6 DEF SocketSound
    <2>3. CASE s # m
      <3>1. Kept(s)
        BY <1>2, <1>6, <2>1, <2>3 DEF Kept
      <3>2. /\ main \in {"stop", "stop_count", "stop_store"}
            /\ main' \in {"stop", "stop_count", "stop_store"}
            /\ main' \notin Busy
        BY <1>2 DEF Busy
      <3> QED
        BY <1>2, <1>5, <1>9, <2>3, <3>1, <3>2, OtherByMain
    <2> QED
      BY <2>2, <2>3
  <1> QED
    BY <1>2, <1>7, <1>8, <1>9 DEF MsrInv, Sockets

LEMMA SumReadsSteps == ASSUME MsrInv, SumReads PROVE MsrInv'
  <1> DEFINE m == mainSocket
  <1>1. /\ MsrTyped /\ ReadsSound
        /\ \A s \in Sockets \ blurred : SocketSound(s)
    BY DEF MsrInv
  <1>2. /\ main = "sum" /\ main' \in {"sum_ovfCnt", "sum_lastE"} /\ m \in Sockets
        /\ main' = "sum_ovfCnt" => operand' = lastE[m]
        /\ main' = "sum_lastE" => operand' = ovfCnt[m]
        /\ blurred \subseteq blurred'
        /\ Updating(m) => m \in blurred'
        /\ UNCHANGED << nbCPUs, mainSocket, updater, updSocket, reading, total,
                        refE, lastE, ovfCnt, res, true >>
    BY DEF SumReads, BlurIf
  <1>3. operand' \in Int
    BY <1>1, <1>2, SocketIds DEF MsrTyped
  <1>4. MsrTyped'
    BY <1>1, <1>2, <1>3 DEF MsrTyped, MsrPCs
  <1>5. ReadsSound'
    BY <1>1, <1>2 DEF ReadsSound, HasRead, Sockets
  <1>6. ASSUME NEW s \in Sockets \ blurred'
        PROVE  SocketSound(s)'
    <2>1. SocketSound(s)
      BY <1>1, <1>2
    <2>2. CASE s = m
      <3>1. ~Updating(s) /\ ~Updating(s)'
        BY <1>2, <2>2 DEF Updating
      <3>2. /\ \A c \in Callers : /\ ~Storing(c, s)' /\ ~Counting(c, s)'
                                  /\ ~Storing(c, s)
            /\ Live(s)
        BY <1>2, <2>2, <3>1 DEF Storing, Counting, Updating, Callers, Live
      <3>3. Exactly(s)'
        BY <1>2, <2>1, <3>2 DEF SocketSound, Exactly
      <3>4. ~Summed(s)'
        BY <1>1, <1>2, <2>2 DEF Summed, MsrTyped
      <3> QED
        BY <1>2, <2>2, <3>1, <3>2, <3>3, <3>4 DEF SocketSound
    <2>3. CASE s # m
      <3>1. Kept(s)
        BY <1>2 DEF Kept
      <3>2. /\ main \in {"sum", "sum_lastE", "sum_ovfCnt"}
            /\ main' \in {"sum", "sum_lastE", "sum_ovfCnt"}
            /\ reading'["updater"] = reading["updater"]
        BY <1>2
      <3> QED
        BY <1>2, <1>6, <2>3, <3>1, <3>2, OtherByMain
    <2> QED
      BY <2>2, <2>3
  <1> QED
    BY <1>2, <1>4, <1>5, <1>6 DEF MsrInv, Sockets

LEMMA SumUpSteps == ASSUME MsrInv, SumUp PROVE MsrInv'
  <1> DEFINE m == mainSocket
             value == IF main = "sum_lastE" THEN lastE[m] ELSE operand
             overflows == IF main = "sum_lastE" THEN operand ELSE ovfCnt[m]
             d == true.last[m] - true.ref[m]
  <1>1. /\ MsrTyped /\ ReadsSound
        /\ \A s \in Sockets \ blurred : SocketSound(s)
    BY DEF MsrInv
  <1>2. /\ main \in {"sum_lastE", "sum_ovfCnt"} /\ main' = "sum"
        /\ mainSocket' = m + 1 /\ operand' = 0
        /\ res' = [res EXCEPT ![m] = value + overflows * Wrap - refE[m]]
        /\ true' = [true EXCEPT !.sum[m] = d]
        /\ UNCHANGED << nbCPUs, updater, updSocket, reading, total, refE, lastE,
                        ovfCnt, blurred >>
    BY DEF SumUp
  <1>3. m \in Sockets /\ m \in Ids /\ m \in Nat
    BY <1>1, <1>2, SocketIds DEF ReadsSound, Busy
  <1>4. /\ true.last \in [Ids -> Int] /\ true.ref \in [Ids -> Int]
        /\ true.sum \in [Ids -> Int]
        /\ true = [ref |-> true.ref, last |-> true.last, sum |-> true.sum]
    BY <1>1 DEF MsrTyped, Truth
  <1>5. /\ true' \in Truth /\ true'.last = true.last /\ true'.ref = true.ref
        /\ true'.sum = [true.sum EXCEPT ![m] = d]
    <2>1. d \in Int
      BY <1>3, <1>4
    <2> HIDE DEF d
    <2>2. true' = [ref |-> true.ref, last |-> true.last,
                   sum |-> [true.sum EXCEPT ![m] = d]]
      BY <1>2, <1>4
    <2>3. [true.sum EXCEPT ![m] = d] \in [Ids -> Int]
      BY <1>4, <2>1
    <2> QED
      BY <1>4, <2>2, <2>3 DEF Truth
  <1>6. res' \in [Ids -> Int] /\ res'[m] = value + overflows * Wrap - refE[m]
    <2>1. value \in Int /\ overflows \in Int
      BY <1>1, <1>3 DEF MsrTyped
    <2> HIDE DEF value, overflows
    <2>2. value + overflows * Wrap - refE[m] \in Int
      BY <1>1, <1>3, <2>1, MsrAssumption DEF MsrTyped
    <2> QED
      BY <1>1, <1>2, <1>3, <2>2 DEF MsrTyped
  <1>7. MsrTyped'
    BY <1>1, <1>2, <1>3, <1>5, <1>6 DEF MsrTyped, MsrPCs
  <1>8. ReadsSound'
    BY <1>1, <1>2 DEF ReadsSound, HasRead, Sockets, Busy
  <1>9. ASSUME NEW s \in Sockets \ blurred
        PROVE  SocketSound(s)'
    <2>1. SocketSound(s) /\ s \in Ids
      BY <1>1, <1>2, SocketIds
    <2>2. CASE s = m
      <3>1. ~Updating(s) /\ ~Updating(s)'
        BY <1>2, <2>1, <2>2 DEF SocketSound, MainIn, Updating
      <3>2. /\ \A c \in Callers : /\ ~Storing(c, s)' /\ ~Counting(c, s)'
                                  /\ ~Storing(c, s)
            /\ Live(s)
        BY <1>2, <2>2, <3>1 DEF Storing, Counting, Updating, Callers, Live
      <3>3. Exactly(s) /\ Exactly(s)'
        BY <1>2, <1>5, <2>1, <3>2 DEF SocketSound, Exactly
      <3>4. value = lastE[s] /\ overflows = ovfCnt[s]
        BY <1>2, <2>1, <2>2 DEF SocketSound
      <3>5. true'.sum[s] = true.last[s] - true.ref[s]
        BY <1>3, <1>4, <1>5, <2>2
      <3>6. res'[s] = true'.sum[s]
        BY <1>6, <2>2, <3>3, <3>4, <3>5 DEF Exactly
      <3>7. main' \notin {"sum_ovfCnt", "sum_lastE"}
        BY <1>2
      <3> QED
        BY <3>1, <3>2, <3>3, <3>6, <3>7 DEF SocketSound
    <2>3. CASE s # m
      <3>1. Kept(s)
        BY <1>1, <1>2, <1>4, <1>5, <2>1, <2>3 DEF Kept, MsrTyped
      <3>2. /\ main \in {"sum", "sum_lastE", "sum_ovfCnt"}
            /\ main' \in {"sum", "sum_lastE", "sum_ovfCnt"}
            /\ main' \notin Busy
            /\ reading'["updater"] = reading["updater"]
        BY <1>2 DEF Busy
      <3> QED
        BY <1>2, <1>9, <2>3, <3>1, <3>2, OtherByMain
    <2> QED
      BY <2>2, <2>3
  <1> QED
    BY <1>2, <1>7, <1>8, <1>9 DEF MsrInv, Sockets

-----------------------------------------------------------------------------
(* update, by the collector's thread, and the energy that is consumed.     *)

LEMMA UpdateQuietSteps ==
  ASSUME MsrInv, BeginUpdate \/ UpdateReadFails \/ UpdateDone
  PROVE  MsrInv'
  <1>1. /\ MsrTyped /\ ReadsSound
        /\ \A s \in Sockets \ blurred : SocketSound(s)
    BY DEF MsrInv
  <1>2. /\ updater' \in {"none", "read"} /\ updSocket' \in Nat
        /\ updater \in {"none", "read"}
        /\ main \in {"off", "init"} => updater' = "none"
        /\ UNCHANGED << Values, nbCPUs, main, mainSocket, blurred >>
    BY <1>1
       DEF BeginUpdate, UpdateReadFails, UpdateDone, Values, MsrTyped,
           ReadsSound
  <1>3. MsrTyped'
    BY <1>1, <1>2 DEF MsrTyped, Values
  <1>4. ReadsSound'
    BY <1>1, <1>2 DEF ReadsSound, HasRead, Sockets, Values
  <1>5. ASSUME NEW s \in Sockets \ blurred
        PROVE  SocketSound(s)'
    <2>1. /\ UNCHANGED << nbCPUs, total, main, mainSocket, operand >>
          /\ reading'["main"] = reading["main"] /\ Kept(s)
      BY <1>2 DEF Values, Kept
    <2> QED
      BY <1>2, <1>5, <2>1, OtherByUpdate
  <1> QED
    BY <1>2, <1>3, <1>4, <1>5 DEF MsrInv, Sockets

LEMMA UpdateReadsSteps == ASSUME MsrInv, UpdateReads PROVE MsrInv'
  <1> DEFINE m == updSocket
  <1>1. /\ MsrTyped /\ ReadsSound
        /\ \A s \in Sockets \ blurred : SocketSound(s)
    BY DEF MsrInv
  <1>2. /\ updater = "read" /\ updater' = "count" /\ m \in Sockets
        /\ ReadBy("updater", m)
        /\ blurred \subseteq blurred'
        /\ MainIn(m) => m \in blurred'
        /\ UNCHANGED << nbCPUs, main, mainSocket, updSocket, operand, total,
                        refE, lastE, ovfCnt, res, true >>
    BY DEF UpdateReads, BlurIf
  <1>3. /\ reading' \in [Callers -> Reading]
        /\ HasRead("updater", m)'
        /\ reading'["updater"].total = total[m]
        /\ reading'["main"] = reading["main"]
    <2>1. "updater" \in Callers /\ "main" \in Callers \ {"updater"}
      BY DEF Callers
    <2>2. UNCHANGED << total, nbCPUs >>
      BY <1>2
    <2>3. /\ reading' \in [Callers -> Reading]
          /\ HasRead("updater", updSocket)'
          /\ reading'["updater"].total = total[updSocket]
          /\ \A c \in Callers \ {"updater"} : reading'[c] = reading[c]
      BY <1>1, <1>2, <2>1, <2>2, ReadByReads
    <2> QED
      BY <2>1, <2>3
  <1>4. MsrTyped'
    BY <1>1, <1>2, <1>3 DEF MsrTyped
  <1>5. ReadsSound'
    BY <1>1, <1>2, <1>3 DEF ReadsSound, HasRead, Sockets
  <1>6. ASSUME NEW s \in Sockets \ blurred'
        PROVE  SocketSound(s)'
    <2>1. SocketSound(s) /\ s \in Ids
      BY <1>1, <1>2, SocketIds
    <2>2. CASE s = m
      <3>1. ~MainIn(s) /\ ~MainIn(s)'
        BY <1>2, <2>2 DEF MainIn
      <3>2. /\ \A c \in Callers : ~Storing(c, s) /\ ~Storing(c, s)'
            /\ \A c \in Callers : Counting(c, s)' => c = "updater"
        BY <1>2, <2>2, <3>1 DEF Storing, Counting, MainIn, Callers
      <3>3. (Live(s)' <=> Live(s)) /\ (Summed(s)' <=> Summed(s))
        BY <1>2 DEF Live, Summed
      <3>4. Live(s) => Exactly(s) /\ Exactly(s)'
        BY <1>2, <2>1, <3>2 DEF SocketSound, Exactly
      <3>5. Live(s) => true'.last[s] <= reading'["updater"].total
        <4>1. total[s] \in Int
          BY <1>1, <2>1 DEF MsrTyped
        <4> QED
          BY <1>2, <1>3, <2>2, <3>4, <4>1 DEF Exactly
      <3>6. ~ (main' \in {"sum_ovfCnt", "sum_lastE"} /\ mainSocket' = s)
        BY <3>1 DEF MainIn
      <3>7. Summed(s)' => res'[s] = true'.sum[s]
        BY <1>2, <2>1, <3>3 DEF SocketSound
      <3> QED
        BY <3>1, <3>2, <3>3, <3>4, <3>5, <3>6, <3>7 DEF SocketSound
    <2>3. CASE s # m
      <3>1. Kept(s)
        BY <1>2 DEF Kept
      <3> QED
        BY <1>2, <1>3, <1>6, <2>3, <3>1, OtherByUpdate
    <2> QED
      BY <2>2, <2>3
  <1> QED
    BY <1>2, <1>4, <1>5, <1>6 DEF MsrInv, Sockets

LEMMA UpdateCountsSteps == ASSUME MsrInv, UpdateCounts PROVE MsrInv'
  <1> DEFINE m == updSocket
  <1>1. /\ MsrTyped /\ ReadsSound
        /\ \A s \in Sockets \ blurred : SocketSound(s)
    BY DEF MsrInv
  <1>2. /\ updater = "count" /\ updater' = "store"
        /\ CountOverflow("updater", m)
        /\ blurred \subseteq blurred'
        /\ Missed("updater", m) => m \in blurred'
        /\ UNCHANGED << nbCPUs, main, mainSocket, updSocket, reading,
                        operand, total, refE, lastE, res, true >>
    BY DEF UpdateCounts, BlurIf
  <1>3. "updater" \in Callers
    BY DEF Callers
  <1>4. HasRead("updater", m) /\ m \in Sockets /\ m \in Ids
    BY <1>1, <1>2, SocketIds DEF ReadsSound, HasRead
  <1>5. ovfCnt' \in [Ids -> Int] /\ \A s \in Ids \ {m} : ovfCnt'[s] = ovfCnt[s]
    BY <1>1, <1>2, <1>3, <1>4, CountCounts
  <1>6. MsrTyped'
    BY <1>1, <1>2, <1>5 DEF MsrTyped
  <1>7. ReadsSound'
    BY <1>1, <1>2, <1>4 DEF ReadsSound, HasRead, Sockets
  <1>8. ASSUME NEW s \in Sockets \ blurred'
        PROVE  SocketSound(s)'
    <2>1. SocketSound(s) /\ s \in Ids
      BY <1>1, <1>2, SocketIds
    <2>2. CASE s = m
      <3>1. ~MainIn(s) /\ ~MainIn(s)'
        BY <1>2, <2>1, <2>2 DEF SocketSound, MainIn, Updating
      <3>2. /\ \A c \in Callers : ~Storing(c, s) /\ ~Counting(c, s)'
            /\ \A c \in Callers : Storing(c, s)' => c = "updater"
            /\ Storing("updater", s)' /\ Counting("updater", s)
        BY <1>2, <2>2, <3>1 DEF Storing, Counting, MainIn, Callers
      <3>3. (Live(s)' <=> Live(s)) /\ (Summed(s)' <=> Summed(s))
        BY <1>2 DEF Live, Summed
      <3>4. ASSUME Live(s)
            PROVE  Counted("updater", s)'
        <4>1. Exactly(s) /\ true.last[s] <= reading["updater"].total
          BY <1>3, <2>1, <3>2, <3>4 DEF SocketSound
        <4>2. ~Missed("updater", s)
          BY <1>2, <2>2
        <4>3. UNCHANGED << reading, refE, true >>
          BY <1>2
        <4> QED
          BY <1>1, <1>2, <1>3, <1>4, <2>2, <4>1, <4>2, <4>3, CountIsExact
      <3>5. ~ (main' \in {"sum_ovfCnt", "sum_lastE"} /\ mainSocket' = s)
        BY <3>1 DEF MainIn
      <3>6. Summed(s)' => res'[s] = true'.sum[s]
        BY <1>2, <2>1, <3>3 DEF SocketSound
      <3> QED
        BY <1>3, <3>1, <3>2, <3>3, <3>4, <3>5, <3>6 DEF SocketSound
    <2>3. CASE s # m
      <3>1. Kept(s)
        BY <1>2, <1>5, <2>1, <2>3 DEF Kept
      <3> QED
        BY <1>2, <1>8, <2>3, <3>1, OtherByUpdate
    <2> QED
      BY <2>2, <2>3
  <1> QED
    BY <1>2, <1>6, <1>7, <1>8 DEF MsrInv, Sockets

LEMMA UpdateStoresSteps == ASSUME MsrInv, UpdateStores PROVE MsrInv'
  <1> DEFINE m == updSocket
  <1>1. /\ MsrTyped /\ ReadsSound
        /\ \A s \in Sockets \ blurred : SocketSound(s)
    BY DEF MsrInv
  <1>2. /\ updater = "store" /\ updater' = "read" /\ updSocket' = m + 1
        /\ StoreLast("updater", m) /\ Forget("updater")
        /\ UNCHANGED << nbCPUs, main, mainSocket, operand, total, refE,
                        ovfCnt, res, blurred >>
    BY DEF UpdateStores
  <1>3. "updater" \in Callers /\ "main" \in Callers \ {"updater"}
    BY DEF Callers
  <1>4. HasRead("updater", m) /\ m \in Sockets /\ m \in Ids /\ m \in Nat
    BY <1>1, <1>2, SocketIds DEF ReadsSound, HasRead
  <1>5. /\ reading' \in [Callers -> Reading]
        /\ reading'["main"] = reading["main"]
    BY <1>1, <1>2, <1>3, ForgetForgets
  <1>6. /\ lastE' \in [Ids -> Int] /\ true' \in Truth
        /\ true'.ref = true.ref /\ true'.sum = true.sum
        /\ \A s \in Ids \ {m} :
             lastE'[s] = lastE[s] /\ true'.last[s] = true.last[s]
    BY <1>1, <1>2, <1>3, <1>4, StoreStores
  <1>7. MsrTyped'
    BY <1>1, <1>2, <1>4, <1>5, <1>6 DEF MsrTyped
  <1>8. ReadsSound'
    BY <1>1, <1>2, <1>5 DEF ReadsSound, HasRead, Sockets
  <1>9. ASSUME NEW s \in Sockets \ blurred
        PROVE  SocketSound(s)'
    <2>1. SocketSound(s) /\ s \in Ids
      BY <1>1, <1>2, SocketIds
    <2>2. CASE s = m
      <3>1. ~MainIn(s) /\ ~MainIn(s)'
        BY <1>2, <2>1, <2>2 DEF SocketSound, MainIn, Updating
      <3>2. /\ \A c \in Callers : ~Storing(c, s)' /\ ~Counting(c, s)'
            /\ Storing("updater", s)
        BY <1>2, <2>2, <3>1 DEF Storing, Counting, MainIn, Callers
      <3>3. (Live(s)' <=> Live(s)) /\ (Summed(s)' <=> Summed(s))
        BY <1>2 DEF Live, Summed
      <3>4. ASSUME Live(s)
            PROVE  Exactly(s)'
        <4>1. Counted("updater", s)
          BY <1>3, <2>1, <3>2, <3>4 DEF SocketSound
        <4>2. UNCHANGED << total, refE, ovfCnt >>
          BY <1>2
        <4> QED
          BY <1>1, <1>2, <1>3, <1>4, <2>2, <4>1, <4>2, StoreIsExact
      <3>5. ~ (main' \in {"sum_ovfCnt", "sum_lastE"} /\ mainSocket' = s)
        BY <3>1 DEF MainIn
      <3>6. Summed(s)' => res'[s] = true'.sum[s]
        BY <1>2, <1>6, <2>1, <3>3 DEF SocketSound
      <3> QED
        BY <3>1, <3>2, <3>3, <3>4, <3>5, <3>6 DEF SocketSound
    <2>3. CASE s # m
      <3>1. Kept(s)
        BY <1>2, <1>6, <2>1, <2>3 DEF Kept
      <3> QED
        BY <1>2, <1>5, <1>9, <2>3, <3>1, OtherByUpdate
    <2> QED
      BY <2>2, <2>3
  <1> QED
    BY <1>2, <1>7, <1>8, <1>9 DEF MsrInv, Sockets

LEMMA ConsumeSteps ==
  ASSUME MsrInv, NEW c \in Ids, ConsumeSocket(c)
  PROVE  MsrInv'
  <1>1. /\ MsrTyped /\ ReadsSound
        /\ \A s \in Sockets \ blurred : SocketSound(s)
    BY DEF MsrInv
  <1>2. /\ main \notin {"off", "init"}
        /\ total' = [total EXCEPT ![c] = @ + 1]
        /\ UNCHANGED << nbCPUs, main, mainSocket, updater, updSocket, reading,
                        operand, refE, lastE, ovfCnt, res, true, blurred >>
    BY DEF ConsumeSocket
  <1>3. /\ total' \in [Ids -> Nat]
        /\ \A s \in Ids : total[s] \in Nat /\ total[s] <= total'[s]
    BY <1>1, <1>2 DEF MsrTyped
  <1>4. MsrTyped'
    BY <1>1, <1>2, <1>3 DEF MsrTyped
  <1>5. ASSUME NEW caller, NEW s, HasRead(caller, s)
        PROVE  HasRead(caller, s)'
    <2>1. s \in Ids
      BY <1>1, <1>5, SocketIds DEF HasRead
    <2>2. reading[caller].total \in 0 .. total'[s]
      BY <1>3, <1>5, <2>1 DEF HasRead
    <2> QED
      BY <1>2, <1>5, <2>2 DEF HasRead, Sockets
  <1>6. ReadsSound'
    BY <1>1, <1>2, <1>5 DEF ReadsSound, Sockets
  <1>7. ASSUME NEW s \in Sockets \ blurred
        PROVE  SocketSound(s)'
    <2>1. /\ SocketSound(s) /\ s \in Ids
          /\ total[s] \in Nat /\ total'[s] \in Nat /\ total[s] <= total'[s]
      BY <1>1, <1>3, SocketIds
    <2>2. /\ Live(s)' <=> Live(s)
          /\ Summed(s)' <=> Summed(s)
          /\ MainIn(s)' <=> MainIn(s)
          /\ Updating(s)' <=> Updating(s)
          /\ \A p \in Callers : /\ Counting(p, s)' <=> Counting(p, s)
                                /\ Storing(p, s)' <=> Storing(p, s)
      BY <1>2 DEF Live, Summed, MainIn, Updating, Counting, Storing
    <2>3. UNCHANGED << reading, main, mainSocket, operand, refE[s], lastE[s],
                       ovfCnt[s], res[s], true.ref[s], true.last[s],
                       true.sum[s] >>
      BY <1>2
    <2> QED
      BY <2>1, <2>2, <2>3, SocketFrame
  <1> QED
    BY <1>2, <1>4, <1>6, <1>7 DEF MsrInv, Sockets

LEMMA MsrInvStep == MsrInv /\ [MsrNext]_msrVars => MsrInv'
  <1> SUFFICES ASSUME MsrInv, [MsrNext]_msrVars
               PROVE  MsrInv'
    OBVIOUS
  <1>1. CASE Main
    BY <1>1, MsrQuietSteps, MainReadsSteps, StartStoresSteps, StopCountsSteps,
       StopStoresSteps, SumReadsSteps, SumUpSteps DEF Main
  <1>2. CASE Update
    BY <1>2, UpdateQuietSteps, UpdateReadsSteps, UpdateCountsSteps,
       UpdateStoresSteps DEF Update
  <1>3. CASE \E s \in 0 .. NbSockets - 1 : ConsumeSocket(s)
    BY <1>3, ConsumeSteps DEF Ids
  <1>4. CASE UNCHANGED msrVars
    <2>1. UNCHANGED << Values, nbCPUs, updater, updSocket, main, mainSocket,
                       blurred >>
      BY <1>4 DEF msrVars, Values
    <2>2. MsrTyped /\ ReadsSound
      BY DEF MsrInv
    <2>3. MsrTyped' /\ ReadsSound'
      BY <2>1, <2>2 DEF MsrTyped, ReadsSound, HasRead, Sockets, Values
    <2>4. \A s \in Sockets \ blurred : SocketSound(s)'
      BY <2>1, QuietStep DEF Live, Summed
    <2> QED
      BY <2>1, <2>3, <2>4 DEF MsrInv, Sockets
  <1> QED
    BY <1>1, <1>2, <1>3, <1>4 DEF MsrNext

\* The result of every socket is the energy between the read of start and the
\* last one that was stored, for counters of any width and in every order of
\* the two threads' accesses to lastE and ovfCnt: no overflow is lost or counted
\* twice if a read falls into every wrap and succeeds, and if no update of the
\* socket overlaps the part of start, stop or the sum of stop that is about it.
THEOREM EnergyIsExact == MsrSpec => []ExactEnergy
  <1>1. MsrInv => ExactEnergy
    BY DEF MsrInv, SocketSound, Summed, ExactEnergy
  <1> QED
    BY <1>1, MsrInvInit, MsrInvStep, PTL DEF MsrSpec

-----------------------------------------------------------------------------
(* PfmCounters: every channel counts the events of its own counter.        *)

PfmPCs == {"off", "parse", "init", "failed", "idle", "start", "on", "stop",
           "exit", "over"}
Counter == [count : Int, enabled : Nat, running : Nat, events : Nat]

PfmTyped ==
  /\ pfm \in PfmPCs
  /\ nbCores \in Nat /\ nbCounters \in Nat
  /\ nbCores * nbCounters <= MaxChannels
  /\ idx \in Nat
  /\ counter \in [Indices -> Counter]
  /\ values \in [Indices -> Int] /\ began \in [Indices -> Int]

\* The loops over the counters begin at the first, and no measurement has been
\* made before init returns.
LoopsSound ==
  /\ pfm \in {"idle", "on"} => idx = 0
  /\ pfm \in {"off", "parse", "init"} => rounds = 0

\* A counter that nobody shares has counted all its events.
CounterSound(c) ==
  /\ c.running <= c.enabled
  /\ c.running = c.enabled => c.count = c.events % Width

Begun(i) ==
  \/ pfm = "start" /\ i < idx
  \/ pfm = "on"
  \/ pfm = "stop" /\ i >= idx

Ended(i) ==
  \/ pfm = "stop" /\ i < idx
  \/ pfm = "idle" /\ rounds > 0

\* What a read gives for a counter that has seen so many events, and what a
\* measurement gives for so many: one less or one more only if it is rounded.
ReadAs(value, events, i) ==
  \E u \in 0 .. 1 :
    /\ value = (events % Width) - u /\ value >= 0
    /\ i \notin rounded => u = 0

CountedAs(value, events, i) ==
  \E d \in -1 .. 1 :
    /\ value = (events + d) % Width
    /\ i \notin rounded => d = 0

ChannelSound(i) ==
  /\ Begun(i) =>
       /\ began[i] \in 0 .. counter[i].events
       /\ ReadAs(values[i], began[i], i)
  /\ Ended(i) => CountedAs(values[i], began[i], i)

PfmInv ==
  /\ PfmTyped /\ LoopsSound
  /\ \A i \in Indices : CounterSound(counter[i])
  /\ \A i \in Used \ spoiled : ChannelSound(i)

-----------------------------------------------------------------------------
LEMMA PfmConstants ==
  /\ MaxCores \in Nat /\ MaxNames \in Nat /\ MaxChannels \in Nat
  /\ Width \in Nat \ {0} /\ Exact \in Nat
  BY PfmAssumption

LEMMA UsedIndices == ASSUME PfmTyped PROVE Used \subseteq Indices
  <1> DEFINE n == nbCores * nbCounters
  <1>1. n \in Int /\ n <= MaxChannels /\ MaxChannels \in Int
    <2>1. MaxChannels \in Int
      BY PfmConstants
    <2>2. n \in Int
      BY DEF PfmTyped
    <2>3. n <= MaxChannels
      BY DEF PfmTyped
    <2> QED
      BY <2>1, <2>2, <2>3
  <1> HIDE DEF n
  <1>2. 0 .. n - 1 \subseteq 0 .. MaxChannels - 1
    BY <1>1
  <1> QED
    BY <1>2 DEF Used, Indices, n

LEMMA CounterFields ==
  ASSUME PfmTyped, NEW i \in Indices
  PROVE  /\ counter[i].count \in Int /\ counter[i].enabled \in Nat
         /\ counter[i].running \in Nat /\ counter[i].events \in Nat
  <1>1. counter[i] \in Counter
    BY DEF PfmTyped
  <1> QED
    BY <1>1 DEF Counter

LEMMA TokensLength ==
  ASSUME NEW S, NEW n \in Nat, NEW tokens \in SeqOf(S, n)
  PROVE  Len(tokens) \in Nat
  <1>1. PICK m \in 0 .. n : tokens \in [1 .. m -> S]
    BY DEF SeqOf
  <1>2. tokens \in Seq(S)
    BY <1>1
  <1> QED
    BY <1>2

\* A quotient of equal times changes nothing.
LEMMA ScaledByOne ==
  ASSUME NEW a \in Int, NEW b \in Nat \ {0}
  PROVE  (a * b) \div b = a
  OBVIOUS

\* A value below w that differs from a number by whole wraps is what a counter
\* with w values shows of it.
LEMMA ShownValue ==
  ASSUME NEW w \in Nat \ {0}, NEW x \in 0 .. w - 1, NEW k \in Int
  PROVE  (x + w * k) % w = x
  OBVIOUS

\* The difference of two values of a counter is the number of events between
\* them, however often it has wrapped, but for what the two reads are less.
LEMMA DifferenceCounts ==
  ASSUME NEW a \in Nat, NEW b \in Nat, NEW u \in 0 .. 1, NEW v \in 0 .. 1,
         (a % Width) - u >= 0, (b % Width) - v >= 0
  PROVE  Difference((a % Width) - u, (b % Width) - v)
           = (b - a + (u - v)) % Width
  <1> DEFINE p == a \div Width
             q == b \div Width
             x == (a % Width) - u
             y == (b % Width) - v
             k == (q - p) - (IF x <= y THEN 0 ELSE 1)
  <1>1. Width \in Nat \ {0}
    BY PfmConstants
  <1>2. /\ p \in Nat /\ a % Width \in 0 .. Width - 1
        /\ a = Width * p + (a % Width)
        /\ q \in Nat /\ b % Width \in 0 .. Width - 1
        /\ b = Width * q + (b % Width)
    BY <1>1, WrapsAndValue
  <1>3. /\ x \in 0 .. Width - 1 /\ y \in 0 .. Width - 1
        /\ a = Width * p + x + u /\ b = Width * q + y + v
    <2>1. x \in Int /\ x >= 0 /\ y \in Int /\ y >= 0
      BY <1>2
    <2> QED
      BY <1>1, <1>2, <2>1
  <1>4. Difference(x, y) = IF x <= y THEN y - x ELSE Width - x + y
    BY DEF Difference
  <1> HIDE DEF p, q, x, y
  <1>5. Width * q - Width * p = Width * (q - p)
        /\ Width * (q - p) \in Int
        /\ Width * (q - p - 1) = Width * (q - p) - Width
    BY <1>1, <1>2
  <1>6. b - a + (u - v) = y - x + Width * (q - p)
    <2> DEFINE P == Width * p
               Q == Width * q
               R == Width * (q - p)
    <2>1. /\ P \in Int /\ Q \in Int /\ R \in Int /\ x \in Int /\ y \in Int
          /\ a = P + x + u /\ b = Q + y + v /\ Q - P = R
      BY <1>1, <1>2, <1>3, <1>5
    <2> HIDE DEF P, Q, R
    <2>2. b - a + (u - v) = y - x + R
      BY <2>1
    <2> QED
      BY <2>2 DEF R
  <1>7. /\ Difference(x, y) \in 0 .. Width - 1 /\ k \in Int
        /\ Width * k = Width * (q - p) - (IF x <= y THEN 0 ELSE Width)
    BY <1>1, <1>2, <1>3, <1>4, <1>5
  <1>8. b - a + (u - v) = Difference(x, y) + Width * k
    <2>1. Width \in Int /\ Width * (q - p) \in Int /\ x \in Int /\ y \in Int
      BY <1>1, <1>3, <1>5
    <2> HIDE DEF k
    <2> QED
      BY <1>4, <1>6, <1>7, <2>1
  <1> HIDE DEF k
  <1>9. (Difference(x, y) + Width * k) % Width = Difference(x, y)
    BY <1>1, <1>7, ShownValue
  <1> QED
    BY <1>8, <1>9 DEF x, y

LEMMA PfmInvInit == PfmInit => PfmInv
  <1> SUFFICES ASSUME PfmInit
               PROVE  PfmInv
    OBVIOUS
  <1>1. NewCounter \in Counter /\ CounterSound(NewCounter)
    <2>1. NewCounter \in Counter
      BY DEF NewCounter, Counter
    <2>2. /\ NewCounter.count = 0 /\ NewCounter.events = 0
          /\ NewCounter.running = 0 /\ NewCounter.enabled = 0 /\ 0 <= 0
      BY DEF NewCounter
    <2>3. Width \in Nat \ {0}
      BY PfmConstants
    <2>4. 0 % Width = 0
      BY <2>3
    <2> QED
      BY <2>1, <2>2, <2>4 DEF CounterSound
  <1>2. PfmTyped
    <2>1. nbCores * nbCounters <= MaxChannels
      <3>1. nbCores = 0 /\ nbCounters = 0 /\ MaxChannels \in Nat
        BY PfmConstants DEF PfmInit
      <3> QED
        BY <3>1
    <2>2. counter \in [Indices -> Counter]
      BY <1>1 DEF PfmInit
    <2>3. values \in [Indices -> Int] /\ began \in [Indices -> Int]
      <3>1. 0 \in Int
        OBVIOUS
      <3> QED
        BY <3>1, Zenon DEF PfmInit
    <2>4. nbCores \in Nat /\ nbCounters \in Nat /\ idx \in Nat /\ pfm \in PfmPCs
      BY DEF PfmInit, PfmPCs
    <2> QED
      BY <2>1, <2>2, <2>3, <2>4 DEF PfmTyped
  <1>3. LoopsSound
    BY DEF PfmInit, LoopsSound
  <1>4. \A i \in Indices : CounterSound(counter[i])
    BY <1>1 DEF PfmInit
  <1>5. \A i : ChannelSound(i)
    BY DEF PfmInit, ChannelSound, Begun, Ended
  <1> QED
    BY <1>2, <1>3, <1>4, <1>5 DEF PfmInv

\* A step that leaves the values alone and no channel further than it was.
LEMMA PfmQuiet ==
  ASSUME PfmInv, PfmTyped', LoopsSound',
         UNCHANGED << counter, values, began >>,
         \A i \in Used' \ spoiled' :
           /\ Begun(i)' \/ Ended(i)' =>
                i \in Used \ spoiled /\ UNCHANGED rounded
           /\ Begun(i)' => Begun(i)
           /\ Ended(i)' => Ended(i)
  PROVE  PfmInv'
  <1>1. \A i \in Used' \ spoiled' : ChannelSound(i)'
    BY DEF PfmInv, ChannelSound, ReadAs, CountedAs
  <1>2. \A i \in Indices : CounterSound(counter[i])'
    BY DEF PfmInv, CounterSound
  <1> QED
    BY <1>1, <1>2 DEF PfmInv

LEMMA FileSteps ==
  ASSUME PfmInv,
         OpenIni \/ ParseFails \/ PairLine \/ ContinuationLine \/ SectionLine
           \/ Context_init \/ InitializeFails \/ OpenCounter \/ EncodeFails
           \/ EnableFails \/ OpenCounterFails
  PROVE  PfmInv'
  <1>1. PfmTyped /\ LoopsSound
    BY DEF PfmInv
  <1>2. /\ pfm' \in {"parse", "init", "failed", "exit"}
        /\ pfm \in {"off", "parse", "init"}
        /\ idx' \in Nat
        /\ UNCHANGED << counter, values, began, rounds >>
    <2>1. idx \in Nat /\ idx + 1 \in Nat
      BY <1>1 DEF PfmTyped
    <2>2. CASE PairLine \/ ContinuationLine \/ SectionLine
      <3>1. NextLine
        BY <2>2 DEF PairLine, ContinuationLine, SectionLine
      <3> QED
        BY <2>1, <3>1 DEF NextLine
    <2>3. CASE OpenIni \/ ParseFails \/ Context_init \/ InitializeFails
      BY <2>1, <2>3 DEF OpenIni, ParseFails, Context_init, InitializeFails
    <2>4. CASE OpenCounter \/ EncodeFails \/ EnableFails \/ OpenCounterFails
      BY <2>1, <2>4 DEF OpenCounter, EncodeFails, EnableFails, OpenCounterFails
    <2> QED
      BY <2>2, <2>3, <2>4
  <1>3. /\ nbCores' \in Nat /\ nbCounters' \in Nat
        /\ nbCores' * nbCounters' <= MaxChannels
    <2>1. ASSUME NEW name, iniHandler(name)
          PROVE  /\ nbCores' \in Nat /\ nbCounters' \in Nat
                 /\ nbCores' * nbCounters' <= MaxChannels
      <3>1. nbCores' * nbCounters' <= MaxChannels
        BY <2>1 DEF iniHandler
      <3>2. \/ nbCores' = nbCores
            \/ nbCores' \in 0 .. MaxCores
        BY <2>1 DEF iniHandler
      <3>3. \/ nbCounters' = nbCounters
            \/ \E tokens \in SeqOf(Names, MaxNames) : nbCounters' = Len(tokens)
        BY <2>1 DEF iniHandler
      <3>4. MaxCores \in Nat /\ MaxNames \in Nat
        BY PfmConstants
      <3>5. nbCores' \in Nat
        BY <1>1, <3>2, <3>4 DEF PfmTyped
      <3>6. nbCounters' \in Nat
        BY <1>1, <3>3, <3>4, TokensLength DEF PfmTyped
      <3> QED
        BY <3>1, <3>5, <3>6
    <2>2. CASE PairLine \/ ContinuationLine
      BY <2>1, <2>2 DEF PairLine, ContinuationLine
    <2>3. CASE ~ (PairLine \/ ContinuationLine)
      <3>1. UNCHANGED << nbCores, nbCounters >>
        BY <2>3
           DEF OpenIni, ParseFails, SectionLine, Context_init, InitializeFails,
               OpenCounter, EncodeFails, EnableFails, OpenCounterFails, fileVars
      <3> QED
        BY <1>1, <3>1 DEF PfmTyped
    <2> QED
      BY <2>2, <2>3
  <1>4. PfmTyped'
    BY <1>1, <1>2, <1>3 DEF PfmTyped, PfmPCs
  <1>5. LoopsSound'
    BY <1>1, <1>2 DEF LoopsSound
  <1>6. \A i : ~Begun(i)' /\ ~Ended(i)'
    BY <1>2 DEF Begun, Ended
  <1> QED
    BY <1>2, <1>4, <1>5, <1>6, PfmQuiet

LEMMA LoopEnds ==
  ASSUME PfmInv,
         PfmInitDone \/ PfmBeginStart \/ PfmBeginStop \/ LoopDone \/ PfmFini
  PROVE  PfmInv'
  <1>1. PfmTyped /\ LoopsSound
    BY DEF PfmInv
  <1>2. /\ UNCHANGED << nbCores, nbCounters, counter, values, began >>
        /\ idx' \in Nat /\ Used' = Used
    BY <1>1
       DEF PfmInitDone, PfmBeginStart, PfmBeginStop, LoopDone, PfmFini,
           fileVars, PfmTyped, Used
  <1>3. CASE PfmInitDone \/ PfmFini
    <2>1. /\ pfm' \in {"idle", "over"}
          /\ pfm' = "idle" => rounds = 0 /\ idx' = 0
          /\ UNCHANGED rounds
      BY <1>1, <1>3 DEF PfmInitDone, PfmFini, LoopsSound
    <2>2. PfmTyped' /\ LoopsSound'
      BY <1>1, <1>2, <2>1 DEF PfmTyped, PfmPCs, LoopsSound
    <2>3. \A i : ~Begun(i)' /\ ~Ended(i)'
      BY <2>1 DEF Begun, Ended
    <2> QED
      BY <1>2, <2>2, <2>3, PfmQuiet
  <1>4. CASE PfmBeginStart
    <2>1. /\ pfm = "idle" /\ idx = 0 /\ idx' = 0
          /\ pfm' = IF nbCounters = 0 THEN "on" ELSE "start"
      BY <1>1, <1>4 DEF PfmBeginStart, LoopsSound
    <2>2. PfmTyped' /\ LoopsSound'
      BY <1>1, <1>2, <2>1 DEF PfmTyped, PfmPCs, LoopsSound
    <2>3. ASSUME NEW i \in Used'
          PROVE  ~Begun(i)' /\ ~Ended(i)'
      <3>1. i \in 0 .. nbCores * nbCounters - 1
        BY <1>2, <2>3 DEF Used
      <3>2. nbCounters # 0
        <4>1. nbCores * 0 = 0
          BY <1>1 DEF PfmTyped
        <4> QED
          BY <3>1, <4>1
      <3>3. i >= 0
        BY <1>1, <3>1 DEF PfmTyped
      <3> QED
        BY <2>1, <3>1, <3>2, <3>3 DEF Begun, Ended
    <2> QED
      BY <1>2, <2>2, <2>3, PfmQuiet
  <1>5. CASE PfmBeginStop
    <2>1. /\ pfm = "on" /\ idx = 0 /\ idx' = 0 /\ pfm' \in {"exit", "stop"}
          /\ UNCHANGED << spoiled, rounded, rounds >>
      BY <1>1, <1>5 DEF PfmBeginStop, LoopsSound
    <2>2. PfmTyped' /\ LoopsSound'
      BY <1>1, <1>2, <2>1 DEF PfmTyped, PfmPCs, LoopsSound
    <2>3. ASSUME NEW i \in Used' \ spoiled'
          PROVE  i \in Used \ spoiled /\ Begun(i) /\ ~Ended(i)'
      <3>1. i \in Used \ spoiled /\ i >= 0 /\ i \in Int
        BY <1>1, <1>2, <2>1, <2>3 DEF Used, PfmTyped
      <3> QED
        BY <2>1, <3>1 DEF Begun, Ended
    <2> QED
      BY <1>2, <2>1, <2>2, <2>3, PfmQuiet
  <1>6. CASE LoopDone
    <2>1. /\ idx' = 0 /\ idx \notin Used
          /\ \/ pfm = "start" /\ pfm' = "on"
             \/ pfm = "stop" /\ pfm' = "idle"
          /\ UNCHANGED << spoiled, rounded, rounds >>
      BY <1>6 DEF LoopDone
    <2>2. PfmTyped' /\ LoopsSound'
      BY <1>1, <1>2, <2>1 DEF PfmTyped, PfmPCs, LoopsSound
    <2>3. ASSUME NEW i \in Used' \ spoiled'
          PROVE  /\ i \in Used \ spoiled
                 /\ Begun(i)' => Begun(i)
                 /\ Ended(i)' => Ended(i)
      <3>1. i \in Used \ spoiled
        BY <1>2, <2>1
      <3>2. i < idx
        <4> DEFINE n == nbCores * nbCounters
        <4>1. n \in Int
          BY <1>1 DEF PfmTyped
        <4>2. idx \in Nat /\ idx \notin 0 .. n - 1 /\ i \in 0 .. n - 1
          BY <1>1, <2>1, <3>1 DEF Used, PfmTyped
        <4> HIDE DEF n
        <4> QED
          BY <4>1, <4>2
      <3> QED
        BY <2>1, <3>1, <3>2 DEF Begun, Ended
    <2> QED
      BY <1>2, <2>1, <2>2, <2>3, PfmQuiet
  <1> QED
    BY <1>3, <1>4, <1>5, <1>6

\* What a read gives when it succeeds on a counter that nobody shares.
LEMMA ReadExact ==
  ASSUME PfmInv, NEW value \in Int, ReadCounter(value), NEW m, m = idx,
         m \notin spoiled'
  PROVE  \E u \in 0 .. 1 :
           /\ value = (counter[m].events % Width) - u /\ value >= 0
           /\ m \notin rounded' => u = 0
  <1> DEFINE c == counter[m]
             q == (c.count * c.enabled) \div c.running
  <1>1. PfmTyped /\ m \in Indices
    BY UsedIndices DEF PfmInv, ReadCounter
  <1>2. /\ value \in Scaled(c)
        /\ c.running = c.enabled /\ c.running > 0
        /\ Inexact(c) => m \in rounded'
    BY DEF ReadCounter
  <1>3. c.count = c.events % Width
    BY <1>1, <1>2 DEF PfmInv, CounterSound
  <1>4. c.count \in Int /\ c.running \in Nat \ {0} /\ c.events \in Nat
    BY <1>1, <1>2, CounterFields
  <1>5. q = c.count
    BY <1>2, <1>4, ScaledByOne
  <1>6. c.count >= 0
    BY <1>3, <1>4, PfmConstants, WrapsAndValue
  <1>7. \/ value = q
        \/ value = q - 1 /\ value >= 0 /\ Inexact(c)
    <2>1. c.running # 0 /\ ~ (c.running < c.enabled)
      BY <1>2, <1>4
    <2>2. value \in {q} \cup {n \in {q - 1, q + 1} :
                               /\ Inexact(c) /\ n >= 0
                               /\ n > q => c.running < c.enabled}
      BY <1>2, <2>1 DEF Scaled
    <2>3. q + 1 > q
      BY <1>4, <1>5
    <2> HIDE DEF q, c
    <2> QED
      BY <2>1, <2>2, <2>3
  <1> HIDE DEF q
  <1>8. CASE value = q
    <2>1. value = (c.events % Width) - 0 /\ value >= 0 /\ 0 \in 0 .. 1
      BY <1>3, <1>4, <1>5, <1>6, <1>8
    <2> QED
      BY <2>1
  <1>9. CASE value = q - 1 /\ value >= 0 /\ Inexact(c)
    <2>1. value = (c.events % Width) - 1 /\ 1 \in 0 .. 1
      BY <1>3, <1>5, <1>9
    <2> QED
      BY <1>2, <1>9, <2>1
  <1> QED
    BY <1>7, <1>8, <1>9

\* A read moves the loop to the next channel, and touches only its own.
LEMMA ReadFrame ==
  ASSUME PfmInv, NEW value \in Int, NEW stored \in Int, NEW seen \in Int,
         ReadCounter(value), NEW m, m = idx,
         values' = [values EXCEPT ![m] = stored],
         began' = [began EXCEPT ![m] = seen],
         pfm \in {"start", "stop"},
         m \notin spoiled' => ChannelSound(m)'
  PROVE  PfmInv'
  <1>1. /\ PfmTyped /\ LoopsSound /\ idx \in Used /\ idx \in Indices
        /\ idx \in Nat /\ idx' = idx + 1
        /\ spoiled \subseteq spoiled' /\ rounded \subseteq rounded'
        /\ UNCHANGED << pfm, nbCores, nbCounters, counter, rounds >>
    BY UsedIndices DEF PfmInv, ReadCounter, PfmTyped, fileVars
  <1>2. PfmTyped'
    <2>1. values' \in [Indices -> Int] /\ began' \in [Indices -> Int]
      BY <1>1 DEF PfmTyped
    <2> QED
      BY <1>1, <2>1 DEF PfmTyped
  <1>3. LoopsSound'
    BY <1>1 DEF LoopsSound
  <1>4. \A i \in Indices : CounterSound(counter[i])'
    BY <1>1 DEF PfmInv, CounterSound
  <1>5. ASSUME NEW i \in Used' \ spoiled'
        PROVE  ChannelSound(i)'
    <2>1. CASE i = m
      BY <1>5, <2>1
    <2>2. CASE i # m
      <3>1. i \in Used \ spoiled /\ i \in Indices /\ i \in Int
        BY <1>1, <1>5, UsedIndices DEF Used, Indices
      <3>2. ChannelSound(i)
        BY <3>1 DEF PfmInv
      <3>3. values'[i] = values[i] /\ began'[i] = began[i]
        BY <1>1, <2>2, <3>1 DEF PfmTyped
      <3>4. /\ Begun(i)' => Begun(i)
            /\ Ended(i)' => Ended(i)
        BY <1>1, <2>2, <3>1 DEF Begun, Ended
      <3> QED
        BY <1>1, <3>2, <3>3, <3>4 DEF ChannelSound, ReadAs, CountedAs
    <2> QED
      BY <2>1, <2>2
  <1> QED
    BY <1>2, <1>3, <1>4, <1>5 DEF PfmInv

LEMMA StartReadsSteps == ASSUME PfmInv, StartReads PROVE PfmInv'
  <1>1. PICK value \in 0 .. Width * MaxTicks :
          /\ ReadCounter(value)
          /\ values' = [values EXCEPT ![idx] = value]
    BY DEF StartReads
  <1>2. /\ pfm = "start"
        /\ began' = [began EXCEPT ![idx] = counter[idx].events]
    BY DEF StartReads
  <1>3. /\ PfmTyped /\ idx \in Indices /\ idx \in Nat
        /\ idx' = idx + 1 /\ pfm' = pfm /\ counter' = counter
    BY <1>1, UsedIndices DEF PfmInv, ReadCounter, PfmTyped
  <1>4. counter[idx].events \in Nat /\ value \in Int
    BY <1>1, <1>3, CounterFields
  <1> PICK m : m = idx
    OBVIOUS
  <1>5. ASSUME m \notin spoiled'
        PROVE  ChannelSound(m)'
    <2>1. \E u \in 0 .. 1 :
            /\ value = (counter[m].events % Width) - u /\ value >= 0
            /\ m \notin rounded' => u = 0
      BY <1>1, <1>4, <1>5, ReadExact
    <2>2. values'[m] = value /\ began'[m] = counter[m].events
      BY <1>1, <1>2, <1>3 DEF PfmTyped
    <2>3. ~ Ended(m)'
      BY <1>2, <1>3 DEF Ended
    <2> QED
      BY <1>3, <1>4, <2>1, <2>2, <2>3 DEF ChannelSound, ReadAs
  <1>6. /\ values' = [values EXCEPT ![m] = value]
        /\ began' = [began EXCEPT ![m] = counter[idx].events]
        /\ pfm \in {"start", "stop"} /\ counter[idx].events \in Int
    BY <1>1, <1>2, <1>4
  <1> QED
    BY <1>1, <1>4, <1>5, <1>6, ReadFrame

LEMMA StopReadsSteps == ASSUME PfmInv, StopReads PROVE PfmInv'
  <1>1. PICK value \in 0 .. Width * MaxTicks :
          /\ ReadCounter(value)
          /\ values' = [values EXCEPT ![idx] = Difference(@, value)]
    BY DEF StopReads
  <1> DEFINE first == values[idx]
             a == began[idx]
             b == counter[idx].events
  <1>2. /\ pfm = "stop"
        /\ values' = [values EXCEPT ![idx] = Difference(first, value)]
        /\ began' = [began EXCEPT ![idx] = b - a]
    BY <1>1 DEF StopReads
  <1>3. /\ PfmTyped /\ idx \in Used /\ idx \in Indices /\ idx \in Nat
        /\ idx' = idx + 1 /\ UNCHANGED << pfm, counter >>
        /\ spoiled \subseteq spoiled' /\ rounded \subseteq rounded'
    BY <1>1, UsedIndices DEF PfmInv, ReadCounter, PfmTyped
  <1>4. first \in Int /\ a \in Int /\ b \in Nat /\ value \in Int
    BY <1>1, <1>3, CounterFields DEF PfmTyped
  <1>5. Difference(first, value) \in Int /\ b - a \in Int
    BY <1>4, PfmConstants DEF Difference
  <1> PICK m : m = idx
    OBVIOUS
  <1>6. ASSUME m \notin spoiled'
        PROVE  ChannelSound(m)'
    <2>1. PICK v \in 0 .. 1 :
            /\ value = (b % Width) - v /\ value >= 0
            /\ m \notin rounded' => v = 0
      BY <1>1, <1>4, <1>6, ReadExact
    <2>2. ChannelSound(idx) /\ Begun(idx)
      BY <1>2, <1>3, <1>6 DEF PfmInv, Begun
    <2>3. PICK u \in 0 .. 1 :
            /\ a \in 0 .. b
            /\ first = (a % Width) - u /\ first >= 0
            /\ m \notin rounded => u = 0
      BY <2>2 DEF ChannelSound, ReadAs
    <2>4. /\ values'[m] = Difference(first, value)
          /\ began'[m] = b - a
      BY <1>2, <1>3 DEF PfmTyped
    <2>5. Difference(first, value) = (b - a + (u - v)) % Width
      BY <1>4, <2>1, <2>3, DifferenceCounts
    <2>6. /\ u - v \in -1 .. 1
          /\ m \notin rounded' => u - v = 0
      BY <1>3, <2>1, <2>3
    <2>7. CountedAs(values[m], began[m], m)'
      BY <2>4, <2>5, <2>6 DEF CountedAs
    <2>8. ~ Begun(m)'
      BY <1>2, <1>3 DEF Begun
    <2> QED
      BY <2>7, <2>8 DEF ChannelSound
  <1> QED
    BY <1>1, <1>2, <1>4, <1>5, <1>6, ReadFrame

\* An event that is counted is one more of both, and so it is after a wrap.
LEMMA NextModulo ==
  ASSUME NEW w \in Nat \ {0}, NEW a \in Nat, NEW k \in 0 .. 1
  PROVE  ((a % w) + k) % w = (a + k) % w
  OBVIOUS

LEMMA TickSteps == ASSUME PfmInv, NEW j \in Indices, Tick(j) PROVE PfmInv'
  <1>1. /\ PfmTyped /\ LoopsSound
        /\ UNCHANGED << pfm, nbCores, nbCounters, idx, values, began, spoiled,
                        rounded, rounds >>
    BY DEF PfmInv, Tick, fileVars
  <1>2. PICK ran \in 0 .. 1, event \in 0 .. 1 :
          counter' = [counter EXCEPT
            ![j] = [count |-> (@.count + ran * event) % Width,
                    enabled |-> @.enabled + 1,
                    running |-> @.running + ran,
                    events |-> @.events + event]]
    BY DEF Tick
  <1> DEFINE c == counter[j]
             d == [count |-> (c.count + ran * event) % Width,
                   enabled |-> c.enabled + 1,
                   running |-> c.running + ran,
                   events |-> c.events + event]
  <1>3. counter' = [counter EXCEPT ![j] = d]
    BY <1>2
  <1>4. /\ c.count \in Int /\ c.enabled \in Nat /\ c.running \in Nat
        /\ c.events \in Nat
    BY <1>1, CounterFields
  <1>5. /\ ran \in {0, 1} /\ event \in {0, 1} /\ ran * event \in Int
        /\ ran = 1 => ran * event = event
    OBVIOUS
  <1>6. d \in Counter
    <2>1. (c.count + ran * event) % Width \in Int
      <3>1. c.count + ran * event \in Int
        BY <1>4, <1>5
      <3> QED
        BY <3>1, PfmConstants
    <2>2. /\ c.enabled + 1 \in Nat /\ c.running + ran \in Nat
          /\ c.events + event \in Nat
      BY <1>4, <1>5
    <2> QED
      BY <2>1, <2>2 DEF Counter
  <1>7. /\ d.events = c.events + event /\ d.enabled = c.enabled + 1
        /\ d.running = c.running + ran
        /\ d.count = (c.count + ran * event) % Width
    OBVIOUS
  <1> HIDE DEF d
  <1>8. /\ counter' \in [Indices -> Counter]
        /\ \A i \in Indices : counter'[i] = IF i = j THEN d ELSE counter[i]
    BY <1>1, <1>3, <1>6 DEF PfmTyped
  <1>9. PfmTyped'
    BY <1>1, <1>8 DEF PfmTyped, Indices
  <1>10. LoopsSound'
    BY <1>1 DEF LoopsSound
  <1>11. c.running <= c.enabled /\ (c.running = c.enabled => c.count = c.events % Width)
    BY DEF PfmInv, CounterSound
  <1>12. CounterSound(d)
    <2>1. d.running <= d.enabled
      BY <1>4, <1>5, <1>7, <1>11
    <2>2. ASSUME d.running = d.enabled
          PROVE  d.count = d.events % Width
      <3>1. ran = 1 /\ c.running = c.enabled
        <4>1. c.running + ran = c.enabled + 1
          BY <1>7, <2>2
        <4> HIDE DEF c
        <4> QED
          BY <1>4, <1>5, <1>11, <4>1
      <3>2. d.count = ((c.events % Width) + event) % Width
        BY <1>5, <1>7, <1>11, <3>1
      <3>3. Width \in Nat \ {0}
        BY PfmConstants
      <3>4. ((c.events % Width) + event) % Width = (c.events + event) % Width
        BY ONLY <1>4, <3>3, NextModulo, event \in 0 .. 1, Zenon
      <3> QED
        BY <1>7, <3>2, <3>4
    <2> QED
      BY <2>1, <2>2 DEF CounterSound
  <1>13. \A i \in Indices : CounterSound(counter[i])'
    BY <1>8, <1>12 DEF PfmInv, CounterSound
  <1>14. ASSUME NEW i \in Used' \ spoiled'
         PROVE  ChannelSound(i)'
    <2>1. i \in Used \ spoiled /\ i \in Indices
      BY <1>1, <1>14, UsedIndices DEF Used
    <2>2. ChannelSound(i)
      BY <2>1 DEF PfmInv
    <2>3. /\ Begun(i)' => Begun(i)
          /\ Ended(i)' => Ended(i)
      BY <1>1 DEF Begun, Ended
    <2>4. /\ counter[i].events \in Nat /\ counter'[i].events \in Nat
          /\ counter[i].events <= counter'[i].events
      <3>1. counter[i].events \in Nat
        BY <1>1, <2>1, CounterFields
      <3>2. CASE i = j
        BY <1>4, <1>5, <1>7, <1>8, <3>2
      <3>3. CASE i # j
        BY <1>8, <2>1, <3>1, <3>3
      <3> QED
        BY <3>2, <3>3
    <2>5. 0 .. counter[i].events \subseteq 0 .. counter'[i].events
      BY <2>4
    <2> QED
      BY <1>1, <2>2, <2>3, <2>5 DEF ChannelSound, ReadAs, CountedAs
  <1> QED
    BY <1>9, <1>10, <1>13, <1>14 DEF PfmInv

LEMMA PfmInvStep == PfmInv /\ [PfmNext]_pfmVars => PfmInv'
  <1> SUFFICES ASSUME PfmInv, [PfmNext]_pfmVars
               PROVE  PfmInv'
    OBVIOUS
  <1>1. CASE OpenIni \/ ParseFails \/ PairLine \/ ContinuationLine \/ SectionLine
               \/ Context_init \/ InitializeFails \/ OpenCounter \/ EncodeFails
               \/ EnableFails \/ OpenCounterFails
    BY <1>1, FileSteps
  <1>2. CASE PfmInitDone \/ PfmBeginStart \/ PfmBeginStop \/ LoopDone \/ PfmFini
    BY <1>2, LoopEnds
  <1>3. CASE StartReads
    BY <1>3, StartReadsSteps
  <1>4. CASE StopReads
    BY <1>4, StopReadsSteps
  <1>5. CASE \E i \in Indices : Tick(i)
    BY <1>5, TickSteps
  <1>6. CASE UNCHANGED pfmVars
    <2>1. UNCHANGED << pfm, nbCores, nbCounters, idx, counter, values, began,
                       spoiled, rounded, rounds >>
      BY <1>6 DEF pfmVars, fileVars
    <2>2. PfmTyped' /\ LoopsSound'
      BY <2>1 DEF PfmInv, PfmTyped, LoopsSound
    <2>3. ASSUME NEW i \in Used' \ spoiled'
          PROVE  /\ i \in Used \ spoiled
                 /\ Begun(i)' => Begun(i)
                 /\ Ended(i)' => Ended(i)
      BY <2>1 DEF Used, Begun, Ended
    <2> QED
      BY <2>1, <2>2, <2>3, PfmQuiet
  <1> QED
    BY <1>1, <1>2, <1>3, <1>4, <1>5, <1>6 DEF PfmNext

\* Every channel whose reads succeeded, on a counter that was never shared,
\* has counted the events of its own counter between start and stop, modulo
\* the values of a count, whether or not it has wrapped and whenever between
\* the reads of the others: exactly if both products are exact in a double, and
\* otherwise with an error of at most one.
THEOREM EventsAreCounted == PfmSpec => []CountsEvents
  <1>1. PfmInv => CountsEvents
    BY DEF PfmInv, ChannelSound, CountedAs, Ended, CountsEvents
  <1> QED
    BY <1>1, PfmInvInit, PfmInvStep, PTL DEF PfmSpec
-----------------------------------------------------------------------------
(* The parser of Yoko: what it makes of the texts that the meter writes.   *)

\* What the meter writes numbers with.
Chars == Figures \cup {".", "E", "+", "-"}

\* The value of a sequence of figures.
ValueOf(seq) == FoldLeft(NextDigit, 0, seq)

\* The figures have a value each.
LEMMA FiguresKnown ==
  /\ \A c \in Figures : Value[c] \in Nat
  /\ Value["0"] = 0 /\ Value["1"] = 1
  BY DEF Value, Figures

\* The loop goes from figure to figure.
LEMMA ValueSteps ==
  ASSUME NEW seq \in Seq(Figures)
  PROVE  \E acc \in [0 .. Len(seq) -> Nat] :
           /\ acc[0] = 0 /\ acc[Len(seq)] = ValueOf(seq)
           /\ \A k \in 1 .. Len(seq) : acc[k] = 10 * acc[k - 1] + Value[seq[k]]
  <1> DEFINE n == Len(seq)
             S == Nat
             Next1(x, k) == NextDigit(x, seq[k])
             g == [k \in 1 .. n |-> [x \in S |-> Next1(x, k)]]
             base == 0
             Is(iter) == iter = [s \in SUBSET (1 .. n) |-> IF s = {} THEN base
                                   ELSE Next1(iter[s \ {Max(s)}], Max(s))]
             iter == CHOOSE iter : Is(iter)
  <1>1. ValueOf(seq) = iter[1 .. n]
    <2>1. DOMAIN seq = 1 .. n
      OBVIOUS
    <2> QED
      BY <2>1, Zenon DEF ValueOf, FoldLeft, MapThenFoldSet
  <1>2. n \in Nat /\ \A k \in 1 .. n : seq[k] \in Figures
    OBVIOUS
  <1>3. ASSUME NEW x \in S, NEW k \in 1 .. n
        PROVE  Next1(x, k) \in S
    BY <1>2, FiguresKnown DEF NextDigit
  <1>4. base \in S
    OBVIOUS
  <1> HIDE DEF n, Next1, base, S
  <1>5. Is(iter) /\ g \in [1 .. n -> [S -> S]]
    <2>1. g \in [1 .. n -> [S -> S]]
      BY <1>3
    <2>2. PICK f : FoldsBy(f, n, S, base, g)
      <3> HIDE DEF g
      <3> QED
        BY <1>2, <1>4, <2>1, FoldFunctionExists
    <2>3. ASSUME NEW s \in SUBSET (1 .. n), s # {}
          PROVE  g[Max(s)][f[s \ {Max(s)}]] = Next1(f[s \ {Max(s)}], Max(s))
      <3>1. Max(s) \in 1 .. n /\ f[s \ {Max(s)}] \in S
        BY <1>2, <2>2, <2>3, MaxOfPart DEF FoldsBy
      <3> QED
        BY <3>1
    <2>4. Is(f)
      <3> HIDE DEF g
      <3> QED
        BY <2>2, <2>3 DEF FoldsBy
    <2> HIDE DEF Is
    <2> QED
      BY <2>1, <2>4
  <1>6. FoldsWithin(iter, n, S, base, g)
    <2> HIDE DEF iter
    <2>1. iter[{}] = base
      BY <1>5
    <2>2. ASSUME NEW s \in SUBSET (1 .. n), s # {},
                 iter[s \ {Max(s)}] \in S
          PROVE  iter[s] = g[Max(s)][iter[s \ {Max(s)}]]
      <3>1. Max(s) \in 1 .. n
        BY <1>2, <2>2, MaxOfPart
      <3>2. iter[s] = Next1(iter[s \ {Max(s)}], Max(s))
        BY <1>5, <2>2
      <3> QED
        BY <2>2, <3>1, <3>2
    <2> HIDE DEF g
    <2> QED
      BY <2>1, <2>2 DEF FoldsWithin
  <1> HIDE DEF iter
  <1>7. PICK acc : RecursBy(acc, n, S, base, g) /\ acc[n] = iter[1 .. n]
    <2> HIDE DEF g, Is
    <2> QED
      BY <1>2, <1>4, <1>5, <1>6, FoldRecurs
  <1>8. acc \in [0 .. n -> S] /\ acc[0] = base
    BY <1>7 DEF RecursBy
  <1>9. ASSUME NEW k \in 1 .. n
        PROVE  acc[k] = Next1(acc[k - 1], k)
    <2>1. acc[k - 1] \in S
      BY <1>2, <1>8
    <2>2. acc[k] = g[k][acc[k - 1]]
      BY <1>7 DEF RecursBy
    <2> QED
      BY <2>1, <2>2
  <1>10. /\ acc \in [0 .. Len(seq) -> Nat]
         /\ acc[0] = 0 /\ acc[Len(seq)] = ValueOf(seq)
    BY <1>1, <1>7, <1>8 DEF n, S, base
  <1>11. \A k \in 1 .. Len(seq) : acc[k] = 10 * acc[k - 1] + Value[seq[k]]
    BY <1>9 DEF Next1, NextDigit, n
  <1> QED
    BY <1>10, <1>11

\* One figure more.
LEMMA ValueOfAppended ==
  ASSUME NEW seq \in Seq(Figures), NEW c \in Figures
  PROVE  /\ ValueOf(seq) \in Nat
         /\ ValueOf(Append(seq, c)) = 10 * ValueOf(seq) + Value[c]
  <1> DEFINE n == Len(seq)
             longer == Append(seq, c)
  <1>1. PICK acc \in [0 .. n -> Nat] :
          /\ acc[0] = 0 /\ acc[n] = ValueOf(seq)
          /\ \A k \in 1 .. n : acc[k] = 10 * acc[k - 1] + Value[seq[k]]
    BY ValueSteps
  <1>2. /\ longer \in Seq(Figures) /\ Len(longer) = n + 1
        /\ \A k \in 1 .. n : longer[k] = seq[k]
        /\ longer[n + 1] = c
    OBVIOUS
  <1> HIDE DEF longer
  <1>3. PICK all \in [0 .. n + 1 -> Nat] :
          /\ all[0] = 0 /\ all[n + 1] = ValueOf(longer)
          /\ \A k \in 1 .. n + 1 : all[k] = 10 * all[k - 1] + Value[longer[k]]
    <2> HIDE DEF n
    <2>1. PICK all \in [0 .. Len(longer) -> Nat] :
            /\ all[0] = 0 /\ all[Len(longer)] = ValueOf(longer)
            /\ \A k \in 1 .. Len(longer) :
                 all[k] = 10 * all[k - 1] + Value[longer[k]]
      BY <1>2, ValueSteps
    <2> QED
      BY <1>2, <2>1
  <1>4. n \in Nat
    OBVIOUS
  <1> HIDE DEF n
  <1> DEFINE T == {k \in 0 .. n : acc[k] = all[k]}
  <1>5. 0 \in T
    BY <1>1, <1>3, <1>4
  <1>6. ASSUME NEW k \in 1 .. n, k - 1 \in T
        PROVE  k \in T
    <2>1. k \in 1 .. n + 1 /\ longer[k] = seq[k] /\ acc[k - 1] = all[k - 1]
      BY <1>2, <1>4, <1>6
    <2>2. all[k] = 10 * all[k - 1] + Value[longer[k]]
      BY <1>3, <2>1
    <2>3. acc[k] = 10 * acc[k - 1] + Value[seq[k]]
      BY <1>1
    <2> QED
      BY <2>1, <2>2, <2>3
  <1>7. 0 .. n \subseteq T
    <2> HIDE DEF T
    <2> QED
      BY <1>4, <1>5, <1>6, UpTo
  <1>8. acc[n] = all[n] /\ acc[n] \in Nat
    <2>1. n \in 0 .. n
      BY <1>4
    <2> QED
      BY <1>1, <1>7, <2>1
  <1>9. all[n + 1] = 10 * all[n] + Value[c]
    <2>1. n + 1 \in 1 .. n + 1 /\ (n + 1) - 1 = n
      BY <1>4
    <2> QED
      BY <1>2, <1>3, <2>1
  <1> QED
    BY <1>1, <1>3, <1>8, <1>9 DEF longer

\* The value of one figure.
LEMMA ValueOfOne ==
  ASSUME NEW c \in Figures
  PROVE  ValueOf(<< c >>) = Value[c]
  <1>1. << c >> \in Seq(Figures) /\ Len(<< c >>) = 1 /\ << c >>[1] = c
    OBVIOUS
  <1> DEFINE one == << c >>
  <1> HIDE DEF one
  <1>2. PICK acc \in [0 .. 1 -> Nat] :
          /\ acc[0] = 0 /\ acc[1] = ValueOf(one)
          /\ \A k \in 1 .. 1 : acc[k] = 10 * acc[k - 1] + Value[one[k]]
    BY <1>1, ValueSteps DEF one
  <1>3. acc[1] = 10 * acc[0] + Value[c]
    <2>1. acc[1] = 10 * acc[1 - 1] + Value[one[1]]
      BY <1>2
    <2> QED
      BY <1>1, <2>1 DEF one
  <1> QED
    BY <1>2, <1>3, FiguresKnown DEF one

\* The search for the point and for the E find the first one.
LEMMA Found ==
  ASSUME NEW str \in Seq(Chars), NEW k \in 1 .. Len(str)
  PROVE  /\ str[k] = "." /\ (\A i \in 1 .. k - 1 : str[i] # ".")
              => SelectInSeq(str, IsPoint) = k
         /\ str[k] = "E" /\ (\A i \in 1 .. k - 1 : str[i] # "E")
              => SelectInSeq(str, IsExponent) = k
  <1>1. ASSUME NEW I \in SUBSET (1 .. Len(str)), k \in I,
               \A i \in 1 .. k - 1 : i \notin I
        PROVE  Min(I) = k
    <2>1. \A i \in I : i \in Nat /\ i \notin 1 .. k - 1 /\ i >= 1
      BY <1>1
    <2>2. k \in I /\ \A i \in I : k <= i
      BY <1>1, <2>1
    <2>3. \A i \in I : (\A j \in I : i <= j) => i = k
      BY <1>1, <2>1, <2>2
    <2> QED
      BY <2>2, <2>3, Zenon DEF Min
  <1>2. ASSUME str[k] = ".", \A i \in 1 .. k - 1 : str[i] # "."
        PROVE  SelectInSeq(str, IsPoint) = k
    <2> DEFINE I == {i \in 1 .. Len(str) : IsPoint(str[i])}
    <2>1. I \in SUBSET (1 .. Len(str)) /\ k \in I
          /\ \A i \in 1 .. k - 1 : i \notin I
      BY <1>2 DEF IsPoint
    <2>2. SelectInSeq(str, IsPoint) = IF I # {} THEN Min(I) ELSE 0
      BY DEF SelectInSeq
    <2> HIDE DEF I
    <2> QED
      BY <1>1, <2>1, <2>2
  <1>3. ASSUME str[k] = "E", \A i \in 1 .. k - 1 : str[i] # "E"
        PROVE  SelectInSeq(str, IsExponent) = k
    <2> DEFINE I == {i \in 1 .. Len(str) : IsExponent(str[i])}
    <2>1. I \in SUBSET (1 .. Len(str)) /\ k \in I
          /\ \A i \in 1 .. k - 1 : i \notin I
      <3>1. \A c \in Chars : c # "e"
        BY DEF Chars, Figures
      <3>2. \A i \in 1 .. k - 1 : str[i] \in Chars
        OBVIOUS
      <3> QED
        BY <1>3, <3>1, <3>2 DEF IsExponent
    <2>2. SelectInSeq(str, IsExponent) = IF I # {} THEN Min(I) ELSE 0
      BY DEF SelectInSeq
    <2> HIDE DEF I
    <2> QED
      BY <1>1, <2>1, <2>2
  <1> QED
    BY <1>2, <1>3

\* A text without a minus sign, with its point at p, its E at q and digits
\* between them; its number begins at npos and its exponent at enpos; the three
\* loops return a, b and c, so that the sum is in units of 10^scale.
HasParts(t, p, q, npos, enpos, a, b, c, scale) ==
  /\ t \in Seq(Chars) /\ t \notin {NoField, NoData, OverRange}
  /\ p \in Nat /\ SelectInSeq(t, IsPoint) = p /\ p > 0
  /\ q \in Nat /\ SelectInSeq(t, IsExponent) = q /\ q > p + 1
  /\ npos = (IF t[1] = "+" THEN 2 ELSE 1) /\ t[1] # "-"
  /\ enpos = IF t[q + 1] \in {"-", "+"} THEN q + 2 ELSE q + 1
  /\ a \in Nat /\ Digits(t, npos, p - 1) = a
  /\ b \in Nat /\ Digits(t, p + 1, q - 1) = b
  /\ c \in Nat /\ Digits(t, enpos, Len(t)) = c
  /\ scale = (IF t[q + 1] = "-" THEN -1 ELSE 1) * c - (q - p - 1) + 2
  /\ scale >= 0

\* What the parser makes of such a text.
LEMMA Parsed ==
  ASSUME NEW t, NEW p, NEW q, NEW npos, NEW enpos, NEW a, NEW b, NEW c,
         NEW scale, HasParts(t, p, q, npos, enpos, a, b, c, scale)
  PROVE  parse_float_str(t) = Num((a * 10^(q - p - 1) + b) * 10^scale)
  <1> USE DEF HasParts
  <1>1. q - p - 1 \in Nat /\ q - p - 1 # 0 /\ ~(q <= p) /\ p # 0
    OBVIOUS
  <1>2. t # NoField /\ t # NoData /\ t # OverRange
    OBVIOUS
  <1>3. npos = IF t[1] \in {"-", "+"} THEN 2 ELSE 1
    OBVIOUS
  <1>4. 10^(q - p - 1) \in Int
    BY <1>1
  <1>5. 1 * (a * 10^(q - p - 1) + b) = a * 10^(q - p - 1) + b
    BY <1>4
  <1> QED
    BY <1>1, <1>2, <1>3, <1>5 DEF parse_float_str

\* A part of a concatenation.
LEMMA PartOfText ==
  ASSUME NEW a \in Seq(Chars), NEW d \in Seq(Figures), NEW b \in Seq(Chars)
  PROVE  /\ a \o d \o b \in Seq(Chars)
         /\ Len(a \o d \o b) = Len(a) + Len(d) + Len(b)
         /\ \A i \in 1 .. Len(a) : (a \o d \o b)[i] = a[i]
         /\ \A i \in 1 .. Len(d) : (a \o d \o b)[Len(a) + i] = d[i]
         /\ \A i \in 1 .. Len(b) : (a \o d \o b)[Len(a) + Len(d) + i] = b[i]
         /\ Digits(a \o d \o b, Len(a) + 1, Len(a) + Len(d)) = ValueOf(d)
  <1>1. d \in Seq(Chars)
    BY DEF Chars
  <1> DEFINE t == a \o d \o b
  <1>2. /\ t \in Seq(Chars) /\ Len(t) = Len(a) + Len(d) + Len(b)
        /\ \A i \in 1 .. Len(a) : t[i] = a[i]
        /\ \A i \in 1 .. Len(d) : t[Len(a) + i] = d[i]
        /\ \A i \in 1 .. Len(b) : t[Len(a) + Len(d) + i] = b[i]
    BY <1>1
  <1> HIDE DEF t
  <1> DEFINE s == SubSeq(t, Len(a) + 1, Len(a) + Len(d))
  <1>3. s = d
    <2>1. s \in Seq(Chars) /\ Len(s) = Len(d)
      BY <1>2
    <2>2. \A i \in 1 .. Len(d) : s[i] = d[i]
      BY <1>2
    <2> HIDE DEF s
    <2> QED
      BY <1>1, <2>1, <2>2
  <1>4. Digits(t, Len(a) + 1, Len(a) + Len(d)) = ValueOf(d)
    BY <1>3 DEF Digits, ValueOf
  <1> QED
    BY <1>2, <1>4 DEF t

\* A figure by itself.
LEMMA FigureOfText ==
  ASSUME NEW t \in Seq(Chars), NEW i \in 1 .. Len(t), t[i] \in Figures
  PROVE  Digits(t, i, i) = Value[t[i]]
  <1>1. SubSeq(t, i, i) = << t[i] >>
    <2> DEFINE s == SubSeq(t, i, i)
               one == << t[i] >>
    <2>1. s \in Seq(Chars) /\ Len(s) = 1 /\ s[1] = t[i]
      OBVIOUS
    <2>2. one \in Seq(Chars) /\ Len(one) = 1 /\ one[1] = t[i]
      OBVIOUS
    <2> HIDE DEF s, one
    <2>3. \A j \in 1 .. 1 : s[j] = one[j]
      BY <2>1, <2>2
    <2>4. s = one
      BY <2>1, <2>2, <2>3
    <2> QED
      BY <2>4 DEF s, one
  <1> QED
    BY <1>1, ValueOfOne DEF Digits, ValueOf

\* A number in MaxDigits digits is a sequence of figures with its value.
LEMMA DecimalsAre ==
  ASSUME NEW n, NEW d \in Decimals(n)
  PROVE  d \in Seq(Figures) /\ Len(d) = MaxDigits /\ ValueOf(d) = n /\ n \in Nat
  <1>1. MaxDigits \in Nat \ {0}
    BY YokoAssumption
  <1>2. d \in [1 .. MaxDigits -> Figures] /\ Digits(d, 1, MaxDigits) = n
    BY DEF Decimals
  <1>3. d \in Seq(Figures) /\ Len(d) = MaxDigits
    BY <1>1, <1>2
  <1> DEFINE s == SubSeq(d, 1, MaxDigits)
  <1>4. s = d
    <2>1. s \in Seq(Figures) /\ Len(s) = Len(d) /\ \A i \in 1 .. Len(d) : s[i] = d[i]
      BY <1>1, <1>3
    <2> HIDE DEF s
    <2> QED
      BY <1>3, <2>1
  <1>5. ValueOf(d) = n
    BY <1>2, <1>4 DEF ValueOf, Digits
  <1>6. n \in Nat
    <2>1. "0" \in Figures
      BY DEF Figures
    <2> QED
      BY <1>3, <1>5, <2>1, ValueOfAppended
  <1> QED
    BY <1>3, <1>5, <1>6

\* Figures are none of the other characters.
LEMMA FiguresAre ==
  /\ \A c \in Figures : /\ c # "." /\ c # "E" /\ c # "+" /\ c # "-"
                        /\ c \in Chars
  /\ "0" \in Figures /\ "1" \in Figures
  /\ {".", "E", "+", "-"} \subseteq Chars
  BY DEF Figures, Chars

\* The special texts end with a 7.
LEMMA SpecialTexts ==
  ASSUME NEW t \in {NoField, NoData, OverRange}, t # << >>
  PROVE  t[1] = "9" /\ t[Len(t)] = "7"
  <1>1. CASE t = NoData
    <2>1. /\ NoData[1] = "9" /\ NoData[7] = "7" /\ Len(NoData) = 7
      BY DEF NoData
    <2> QED
      BY <1>1, <2>1
  <1>2. CASE t = OverRange
    <2>1. /\ OverRange[1] = "9" /\ OverRange[8] = "7" /\ Len(OverRange) = 8
      BY DEF OverRange
    <2> QED
      BY <1>2, <2>1
  <1> QED
    BY <1>1, <1>2 DEF NoField

\* Figures, a point, a zero and an exponent of one figure.
LEMMA ReadWithPoint ==
  ASSUME NEW d \in Seq(Figures), Len(d) > 0,
         NEW esign \in {"+", "-"}, NEW x \in Figures, x # "7",
         NEW scale \in Nat,
         scale = (IF esign = "-" THEN -1 ELSE 1) * Value[x] + 1
  PROVE  parse_float_str(d \o << ".", "0", "E", esign, x >>)
           = Num(10 * ValueOf(d) * 10^scale)
  <1> DEFINE a == << >>
             b == << ".", "0", "E", esign, x >>
             t == d \o b
             w == Len(d)
             v == ValueOf(d)
  <1>1. a \in Seq(Chars) /\ b \in Seq(Chars) /\ Len(a) = 0 /\ Len(b) = 5
        /\ b[1] = "." /\ b[2] = "0" /\ b[3] = "E" /\ b[4] = esign /\ b[5] = x
    BY FiguresAre
  <1>2. t = a \o d \o b
    OBVIOUS
  <1>3. w \in Nat /\ w > 0
    OBVIOUS
  <1> HIDE DEF a, b, t
  <1>4. /\ t \in Seq(Chars) /\ Len(t) = w + 5
        /\ \A i \in 1 .. w : t[i] = d[i]
        /\ \A i \in 1 .. 5 : t[w + i] = b[i]
        /\ Digits(t, 1, w) = v
    <2>1. /\ t \in Seq(Chars) /\ Len(t) = Len(a) + w + Len(b)
          /\ \A i \in 1 .. w : t[Len(a) + i] = d[i]
          /\ \A i \in 1 .. Len(b) : t[Len(a) + w + i] = b[i]
          /\ Digits(t, Len(a) + 1, Len(a) + w) = v
      <3> DEFINE r == a \o d \o b
      <3>1. /\ r \in Seq(Chars) /\ Len(r) = Len(a) + Len(d) + Len(b)
            /\ \A i \in 1 .. Len(d) : r[Len(a) + i] = d[i]
            /\ \A i \in 1 .. Len(b) : r[Len(a) + Len(d) + i] = b[i]
            /\ Digits(r, Len(a) + 1, Len(a) + Len(d)) = ValueOf(d)
        BY <1>1, PartOfText, ZenonT(100)
      <3> HIDE DEF r
      <3>2. t = r
        BY <1>2 DEF r
      <3> QED
        BY <3>1, <3>2
    <2> HIDE DEF w, v
    <2> QED
      BY <1>1, <1>3, <2>1
  <1>5. /\ t[w + 1] = "." /\ t[w + 2] = "0" /\ t[w + 3] = "E"
        /\ t[w + 4] = esign /\ t[w + 5] = x
        /\ \A i \in 1 .. w : t[i] \in Figures
    <2>1. /\ 1 \in 1 .. 5 /\ 2 \in 1 .. 5 /\ 3 \in 1 .. 5 /\ 4 \in 1 .. 5
          /\ 5 \in 1 .. 5
      OBVIOUS
    <2>2. \A i \in 1 .. w : d[i] \in Figures
      OBVIOUS
    <2> HIDE DEF w, v
    <2> QED
      BY <1>1, <1>4, <2>1, <2>2
  <1> HIDE DEF w, v
  <1>6. SelectInSeq(t, IsPoint) = w + 1
    <2>1. \A i \in 1 .. (w + 1) - 1 : t[i] # "."
      BY <1>3, <1>5, FiguresAre
    <2> DEFINE k == w + 1
    <2>2. k \in 1 .. Len(t) /\ t[k] = "." /\ \A i \in 1 .. k - 1 : t[i] # "."
      BY <1>3, <1>4, <1>5, <2>1
    <2> HIDE DEF k
    <2>3. SelectInSeq(t, IsPoint) = k
      BY <1>4, <2>2, Found
    <2> QED
      BY <2>3 DEF k
  <1>7. SelectInSeq(t, IsExponent) = w + 3
    <2>1. \A i \in 1 .. (w + 3) - 1 : i \in 1 .. w \/ i = w + 1 \/ i = w + 2
      BY <1>3
    <2>2. \A i \in 1 .. (w + 3) - 1 : t[i] # "E"
      BY <1>3, <1>5, <2>1, FiguresAre
    <2> DEFINE k == w + 3
    <2>3. k \in 1 .. Len(t) /\ t[k] = "E" /\ \A i \in 1 .. k - 1 : t[i] # "E"
      BY <1>3, <1>4, <1>5, <2>2
    <2> HIDE DEF k
    <2>4. SelectInSeq(t, IsExponent) = k
      BY <1>4, <2>3, Found
    <2> QED
      BY <2>4 DEF k
  <1>8. t[1] # "-" /\ t[1] # "+"
    BY <1>3, <1>5, FiguresAre
  <1>9. t \notin {NoField, NoData, OverRange}
    BY <1>3, <1>4, <1>5, SpecialTexts
  <1>10. Digits(t, w + 2, w + 2) = 0 /\ Digits(t, w + 5, w + 5) = Value[x]
    <2> DEFINE i == w + 2
               j == w + 5
    <2>1. i \in 1 .. Len(t) /\ t[i] = "0" /\ j \in 1 .. Len(t) /\ t[j] = x
      BY <1>3, <1>4, <1>5
    <2> HIDE DEF i, j
    <2>2. Digits(t, i, i) = 0 /\ Digits(t, j, j) = Value[x]
      <3>1. t[i] \in Figures /\ t[j] \in Figures
        BY <2>1, FiguresAre
      <3>2. Digits(t, i, i) = Value[t[i]]
        BY <1>4, <2>1, <3>1, FigureOfText
      <3>3. Digits(t, j, j) = Value[t[j]]
        BY <1>4, <2>1, <3>1, FigureOfText
      <3> QED
        BY <2>1, <3>2, <3>3, FiguresKnown
    <2> QED
      BY <2>2 DEF i, j
  <1>11. v \in Nat /\ Value[x] \in Nat
    BY ValueOfAppended, FiguresAre, FiguresKnown DEF v
  <1>12. parse_float_str(t) = Num((v * 10^1 + 0) * 10^scale)
    <2> DEFINE p == w + 1
               q == w + 3
               npos == 1
               enpos == w + 5
               zero == 0
               val == Value[x]
    <2>1. /\ p \in Nat /\ SelectInSeq(t, IsPoint) = p /\ p > 0
          /\ q \in Nat /\ SelectInSeq(t, IsExponent) = q /\ q > p + 1
          /\ p - 1 = w /\ q - 1 = w + 2 /\ p + 1 = w + 2 /\ q - p - 1 = 1
          /\ q + 1 = w + 4 /\ q + 2 = w + 5
      BY <1>3, <1>6, <1>7
    <2>2. npos = IF t[1] = "+" THEN 2 ELSE 1
      BY <1>8
    <2>3. enpos = IF t[q + 1] \in {"-", "+"} THEN q + 2 ELSE q + 1
      BY <1>5, <2>1
    <2>4. /\ Digits(t, npos, p - 1) = v /\ Digits(t, p + 1, q - 1) = zero
          /\ Digits(t, enpos, Len(t)) = val
      BY <1>4, <1>10, <2>1
    <2>5. scale = (IF t[q + 1] = "-" THEN -1 ELSE 1) * val - (q - p - 1) + 2
      <3>1. t[q + 1] = esign /\ q - p - 1 = 1
        BY <1>5, <2>1
      <3>2. scale = (IF esign = "-" THEN -1 ELSE 1) * val - 1 + 2
        <4>1. CASE esign = "-"
          BY <1>11, <4>1
        <4>2. CASE esign = "+"
          BY <1>11, <4>2
        <4> QED
          BY <4>1, <4>2
      <3> HIDE DEF val
      <3> QED
        BY <3>1, <3>2
    <2>6. zero \in Nat /\ scale >= 0 /\ val \in Nat
      BY <1>11
    <2> HIDE DEF p, q, npos, enpos, zero, val
    <2>7. HasParts(t, p, q, npos, enpos, v, zero, val, scale)
      BY <1>4, <1>8, <1>9, <1>11, <2>1, <2>2, <2>3, <2>4, <2>5, <2>6
      DEF HasParts
    <2>8. parse_float_str(t) = Num((v * 10^(q - p - 1) + zero) * 10^scale)
      BY <2>7, Parsed
    <2> QED
      BY <2>1, <2>8 DEF zero
  <1>13. v * 10^1 + 0 = 10 * v
    BY <1>11
  <1> QED
    BY <1>12, <1>13 DEF t, b, v

\* Two parts of a concatenation, with a character between them.
LEMMA PartsOfText ==
  ASSUME NEW a \in Seq(Chars), NEW d \in Seq(Figures),
         NEW y \in Seq(Chars), Len(y) = 1, NEW x \in Seq(Figures)
  PROVE  /\ a \o d \o y \o x \in Seq(Chars)
         /\ Len(a \o d \o y \o x) = Len(a) + Len(d) + 1 + Len(x)
         /\ \A i \in 1 .. Len(a) : (a \o d \o y \o x)[i] = a[i]
         /\ \A i \in 1 .. Len(d) : (a \o d \o y \o x)[Len(a) + i] = d[i]
         /\ (a \o d \o y \o x)[Len(a) + Len(d) + 1] = y[1]
         /\ \A i \in 1 .. Len(x) :
              (a \o d \o y \o x)[Len(a) + Len(d) + 1 + i] = x[i]
         /\ Digits(a \o d \o y \o x, Len(a) + 1, Len(a) + Len(d)) = ValueOf(d)
         /\ Digits(a \o d \o y \o x, Len(a) + Len(d) + 2,
                   Len(a) + Len(d) + 1 + Len(x)) = ValueOf(x)
  <1>1. d \in Seq(Chars) /\ x \in Seq(Chars)
    BY DEF Chars
  <1> DEFINE b == y \o x
             c == a \o d \o y
             none == << >>
             t == a \o d \o y \o x
  <1>2. b \in Seq(Chars) /\ Len(b) = 1 + Len(x) /\ b[1] = y[1]
    <2>1. /\ b \in Seq(Chars) /\ Len(b) = Len(y) + Len(x)
          /\ \A i \in 1 .. Len(y) + Len(x) :
               b[i] = IF i <= Len(y) THEN y[i] ELSE x[i - Len(y)]
      BY <1>1, ConcatProperties, Zenon
    <2> HIDE DEF b
    <2> QED
      BY <1>1, <2>1
  <1>3. c \in Seq(Chars) /\ Len(c) = Len(a) + Len(d) + 1
    <2>1. a \o d \in Seq(Chars) /\ Len(a \o d) = Len(a) + Len(d)
      BY <1>1, ConcatProperties, Zenon
    <2>2. c \in Seq(Chars) /\ Len(c) = Len(a \o d) + Len(y)
      BY <2>1, ConcatProperties, Zenon
    <2> HIDE DEF c
    <2> QED
      BY <2>1, <2>2
  <1>4. t = a \o d \o b
    <2> DEFINE f == a \o d
    <2>1. f \in Seq(Chars)
      BY <1>1
    <2> HIDE DEF f
    <2>2. (f \o y) \o x = f \o (y \o x)
      BY <1>1, <2>1, ConcatAssociative, SMTT(60)
    <2> QED
      BY <2>2, Zenon DEF f
  <1>5. t = c \o x \o none /\ none \in Seq(Chars)
    <2>1. c \o x \in Seq(Chars)
      BY <1>1, <1>3
    <2> HIDE DEF c
    <2>2. (c \o x) \o << >> = c \o x
      BY <2>1, ConcatEmptySeq
    <2>3. t = c \o x
      BY DEF c
    <2> QED
      BY <2>2, <2>3
  <1> HIDE DEF b, c, t, none
  <1>6. /\ t \in Seq(Chars) /\ Len(t) = Len(a) + Len(d) + Len(b)
        /\ \A i \in 1 .. Len(a) : t[i] = a[i]
        /\ \A i \in 1 .. Len(d) : t[Len(a) + i] = d[i]
        /\ \A i \in 1 .. Len(b) : t[Len(a) + Len(d) + i] = b[i]
        /\ Digits(t, Len(a) + 1, Len(a) + Len(d)) = ValueOf(d)
    <2> DEFINE r == a \o d \o b
    <2>1. /\ r \in Seq(Chars) /\ Len(r) = Len(a) + Len(d) + Len(b)
          /\ \A i \in 1 .. Len(a) : r[i] = a[i]
          /\ \A i \in 1 .. Len(d) : r[Len(a) + i] = d[i]
          /\ \A i \in 1 .. Len(b) : r[Len(a) + Len(d) + i] = b[i]
          /\ Digits(r, Len(a) + 1, Len(a) + Len(d)) = ValueOf(d)
      BY <1>2, PartOfText, ZenonT(100)
    <2> HIDE DEF r
    <2>2. t = r
      BY <1>4 DEF r
    <2> QED
      BY <2>1, <2>2
  <1>7. /\ \A i \in 1 .. Len(x) : t[Len(c) + i] = x[i]
        /\ Digits(t, Len(c) + 1, Len(c) + Len(x)) = ValueOf(x)
    <2> DEFINE r == c \o x \o none
    <2>1. /\ \A i \in 1 .. Len(x) : r[Len(c) + i] = x[i]
          /\ Digits(r, Len(c) + 1, Len(c) + Len(x)) = ValueOf(x)
      BY <1>3, <1>5, PartOfText, Zenon
    <2> HIDE DEF r
    <2>2. t = r
      BY <1>5 DEF r
    <2> QED
      BY <2>1, <2>2
  <1>8. t[Len(a) + Len(d) + 1] = y[1]
    <2>1. 1 \in 1 .. Len(b)
      BY <1>2
    <2> QED
      BY <1>2, <1>6, <2>1
  <1>9. /\ Len(t) = Len(a) + Len(d) + 1 + Len(x)
        /\ \A i \in 1 .. Len(x) : t[Len(a) + Len(d) + 1 + i] = x[i]
        /\ Digits(t, Len(a) + Len(d) + 2, Len(a) + Len(d) + 1 + Len(x))
             = ValueOf(x)
    <2>1. Len(c) + 1 = Len(a) + Len(d) + 2
      BY <1>3
    <2>2. Len(t) = Len(a) + Len(d) + 1 + Len(x)
      BY <1>2, <1>6
    <2> QED
      BY <1>3, <1>7, <2>1, <2>2
  <1> QED
    BY <1>6, <1>8, <1>9, Zenon DEF t

\* The number as a fraction of d, with an exponent x that says how long d is.
LEMMA ReadAsFraction ==
  ASSUME NEW d \in Seq(Figures), Len(d) > 0,
         NEW x \in Seq(Figures), Len(x) > 0, ValueOf(x) = Len(d)
  PROVE  parse_float_str(<< "+", "0", "." >> \o d \o << "E" >> \o x)
           = Num(100 * ValueOf(d))
  <1> DEFINE a == << "+", "0", "." >>
             E == << "E" >>
             t == a \o d \o E \o x
             w == Len(d)
             u == Len(x)
             v == ValueOf(d)
  <1>1. /\ a \in Seq(Chars) /\ Len(a) = 3 /\ E \in Seq(Chars) /\ Len(E) = 1
        /\ a[1] = "+" /\ a[2] = "0" /\ a[3] = "." /\ E[1] = "E"
    BY FiguresAre
  <1>2. d \in Seq(Chars) /\ x \in Seq(Chars)
    BY FiguresAre
  <1>3. w \in Nat /\ w > 0 /\ u \in Nat /\ u > 0
    OBVIOUS
  <1> HIDE DEF a, E
  <1>4. /\ t \in Seq(Chars) /\ Len(t) = Len(a) + Len(d) + 1 + Len(x)
        /\ \A i \in 1 .. Len(a) : t[i] = a[i]
        /\ \A i \in 1 .. Len(d) : t[Len(a) + i] = d[i]
        /\ t[Len(a) + Len(d) + 1] = E[1]
        /\ \A i \in 1 .. Len(x) : t[Len(a) + Len(d) + 1 + i] = x[i]
        /\ Digits(t, Len(a) + 1, Len(a) + Len(d)) = ValueOf(d)
        /\ Digits(t, Len(a) + Len(d) + 2, Len(a) + Len(d) + 1 + Len(x))
             = ValueOf(x)
    <2> HIDE DEF w, u, v
    <2> QED
      BY <1>1, PartsOfText, ZenonT(100) DEF t
  <1>5. /\ Len(t) = 4 + w + u
        /\ \A i \in 1 .. 3 : t[i] = a[i]
        /\ \A i \in 1 .. w : t[3 + i] = d[i]
        /\ t[4 + w] = "E"
        /\ \A i \in 1 .. u : t[4 + w + i] = x[i]
        /\ Digits(t, 4, 3 + w) = v /\ Digits(t, 5 + w, 4 + w + u) = w
    <2>1. /\ Len(a) + 1 = 4 /\ Len(a) + Len(d) = 3 + w
          /\ Len(a) + Len(d) + 1 = 4 + w /\ Len(a) + Len(d) + 2 = 5 + w
      BY <1>1, <1>3
    <2> HIDE DEF t
    <2> QED
      BY <1>1, <1>3, <1>4, <2>1
  <1>6. /\ t[1] = "+" /\ t[2] = "0" /\ t[3] = "."
        /\ \A i \in 1 .. w : t[3 + i] \in Figures
        /\ t[5 + w] \in Figures
    <2>1. t[5 + w] = x[1] /\ x[1] \in Figures
      <3>1. 1 \in 1 .. u /\ 4 + w + 1 = 5 + w
        BY <1>3
      <3>2. x[1] \in Figures
        BY <1>3
      <3> HIDE DEF u, w, t
      <3> QED
        BY <1>5, <3>1, <3>2
    <2>2. t[1] = "+" /\ t[2] = "0" /\ t[3] = "."
      <3>1. 1 \in 1 .. 3 /\ 2 \in 1 .. 3 /\ 3 \in 1 .. 3
        OBVIOUS
      <3> HIDE DEF t
      <3> QED
        BY <1>1, <1>5, <3>1
    <2> HIDE DEF t
    <2> QED
      BY <1>3, <1>5, <2>1, <2>2
  <1> HIDE DEF t, w, u, v
  <1>7. SelectInSeq(t, IsPoint) = 3
    <2>1. \A i \in 1 .. 3 - 1 : i = 1 \/ i = 2
      OBVIOUS
    <2>2. \A i \in 1 .. 3 - 1 : t[i] # "."
      BY <1>6, <2>1
    <2>3. 3 \in 1 .. Len(t)
      BY <1>3, <1>5
    <2> QED
      BY <1>4, <1>6, <2>2, <2>3, Found
  <1>8. SelectInSeq(t, IsExponent) = 4 + w
    <2> DEFINE k == 4 + w
    <2>1. \A i \in 1 .. k - 1 :
            i = 1 \/ i = 2 \/ i = 3 \/ (i - 3 \in 1 .. w /\ i = 3 + (i - 3))
      BY <1>3
    <2>2. \A i \in 1 .. k - 1 : t[i] # "E"
      <3> SUFFICES ASSUME NEW i \in 1 .. k - 1
                   PROVE  t[i] # "E"
        OBVIOUS
      <3>1. CASE i - 3 \in 1 .. w /\ i = 3 + (i - 3)
        BY <1>6, <3>1, FiguresAre
      <3>2. CASE i = 1 \/ i = 2 \/ i = 3
        BY <1>6, <3>2
      <3> QED
        BY <2>1, <3>1, <3>2
    <2>3. k \in 1 .. Len(t) /\ t[k] = "E"
      BY <1>3, <1>5
    <2> HIDE DEF k
    <2>4. SelectInSeq(t, IsExponent) = k
      BY <1>4, <2>2, <2>3, Found
    <2> QED
      BY <2>4 DEF k
  <1>9. t \notin {NoField, NoData, OverRange}
    <2>1. t # << >> /\ t[1] # "9"
      BY <1>3, <1>5, <1>6
    <2> QED
      BY <2>1, SpecialTexts
  <1>10. Digits(t, 2, 2) = 0
    <2>1. 2 \in 1 .. Len(t)
      BY <1>3, <1>5
    <2>2. t[2] \in Figures
      BY <1>6, FiguresAre
    <2>3. Digits(t, 2, 2) = Value[t[2]]
      BY <1>4, <2>1, <2>2, FigureOfText
    <2> QED
      BY <1>6, <2>3, FiguresKnown
  <1>11. v \in Nat
    BY ValueOfAppended, FiguresAre DEF v
  <1>12. parse_float_str(t) = Num((0 * 10^w + v) * 10^2)
    <2> DEFINE p == 3
               q == 4 + w
               npos == 2
               enpos == 5 + w
               zero == 0
               scale == 2
    <2>1. /\ p \in Nat /\ SelectInSeq(t, IsPoint) = p /\ p > 0
          /\ q \in Nat /\ SelectInSeq(t, IsExponent) = q /\ q > p + 1
          /\ p - 1 = 2 /\ q - 1 = 3 + w /\ p + 1 = 4 /\ q - p - 1 = w
          /\ q + 1 = 5 + w
      BY <1>3, <1>7, <1>8
    <2>2. npos = IF t[1] = "+" THEN 2 ELSE 1
      BY <1>6
    <2>3. t[q + 1] \notin {"-", "+"}
      BY <1>6, <2>1, FiguresAre
    <2>4. enpos = q + 1
      BY <2>1
    <2>5. /\ Digits(t, npos, p - 1) = zero /\ Digits(t, p + 1, q - 1) = v
          /\ Digits(t, enpos, Len(t)) = w
      BY <1>5, <1>10, <2>1
    <2>6. scale = 1 * w - (q - p - 1) + 2
      BY <1>3, <2>1
    <2>7. zero \in Nat /\ scale >= 0 /\ t[1] # "-"
      BY <1>6
    <2> HIDE DEF p, q, npos, enpos, zero, scale
    <2>8. HasParts(t, p, q, npos, enpos, zero, v, w, scale)
      BY <1>3, <1>4, <1>9, <1>11, <2>1, <2>2, <2>3, <2>4, <2>5, <2>6, <2>7
      DEF HasParts
    <2>9. parse_float_str(t) = Num((zero * 10^(q - p - 1) + v) * 10^scale)
      BY <2>8, Parsed
    <2> QED
      BY <2>1, <2>9 DEF zero, scale
  <1>13. (0 * 10^w + v) * 10^2 = 100 * v
    <2>1. 0 * 10^w = 0
      BY <1>3
    <2> QED
      BY <1>11, <2>1
  <1> QED
    BY <1>12, <1>13 DEF t, a, E, v

\* The parser reads the texts that the meter writes as what they say.
THEOREM TextsAreRead ==
  ASSUME NEW n, NEW text \in TextsOf(n)
  PROVE  n \in Nat /\ parse_float_str(text) = Num(100 * n)
  <1>1. \/ \E d \in Decimals(n) : text = Plain(d)
        \/ \E d \in Decimals(n), x \in Decimals(MaxDigits) :
             text = Fraction(d, x)
        \/ \E d \in Decimals(n) : text = Tenths(d)
    BY DEF TextsOf
  <1>2. ASSUME NEW d \in Decimals(n)
        PROVE  /\ d \in Seq(Figures) /\ Len(d) = MaxDigits
               /\ ValueOf(d) = n /\ n \in Nat
    BY DecimalsAre
  <1>3. ASSUME NEW x \in Decimals(MaxDigits)
        PROVE  x \in Seq(Figures) /\ Len(x) = MaxDigits /\ ValueOf(x) = MaxDigits
    BY DecimalsAre
  <1>4. MaxDigits \in Nat /\ MaxDigits > 0
    BY YokoAssumption
  <1>5. ASSUME NEW d \in Decimals(n), text = Plain(d)
        PROVE  n \in Nat /\ parse_float_str(text) = Num(100 * n)
    <2> DEFINE s == "+"
               c == "0"
               scale == 1
    <2>1. /\ s \in {"+", "-"} /\ c \in Figures /\ c # "7" /\ scale \in Nat
          /\ scale = (IF s = "-" THEN -1 ELSE 1) * Value[c] + 1
      BY FiguresAre, FiguresKnown
    <2>2. text = d \o << ".", "0", "E", s, c >>
      BY <1>5 DEF Plain
    <2> HIDE DEF s, c, scale
    <2>3. parse_float_str(text) = Num(10 * ValueOf(d) * 10^scale)
      <3> SUFFICES parse_float_str(d \o << ".", "0", "E", s, c >>)
                     = Num(10 * ValueOf(d) * 10^scale)
        BY <2>2
      <3>1. Len(d) > 0
        BY <1>2, <1>4
      <3> QED
        BY <1>2, <2>1, <3>1, ReadWithPoint
    <2>4. 10 * n * 10^scale = 100 * n
      BY <1>2 DEF scale
    <2> QED
      BY <1>2, <2>3, <2>4
  <1>6. ASSUME NEW d \in Decimals(n), NEW x \in Decimals(MaxDigits),
               text = Fraction(d, x)
        PROVE  n \in Nat /\ parse_float_str(text) = Num(100 * n)
    <2>1. parse_float_str(Fraction(d, x)) = Num(100 * ValueOf(d))
      <3>1. Len(d) > 0 /\ Len(x) > 0 /\ ValueOf(x) = Len(d)
        BY <1>2, <1>3, <1>4
      <3>2. d \in Seq(Figures) /\ x \in Seq(Figures)
        BY <1>2, <1>3
      <3> QED
        BY <3>1, <3>2, ReadAsFraction, Zenon DEF Fraction
    <2> QED
      BY <1>2, <1>6, <2>1
  <1>7. ASSUME NEW d \in Decimals(n), text = Tenths(d)
        PROVE  n \in Nat /\ parse_float_str(text) = Num(100 * n)
    <2> DEFINE s == "-"
               c == "1"
               scale == 0
               longer == Append(d, "0")
    <2>1. /\ s \in {"+", "-"} /\ c \in Figures /\ c # "7" /\ scale \in Nat
          /\ scale = (IF s = "-" THEN -1 ELSE 1) * Value[c] + 1
      BY FiguresAre, FiguresKnown
    <2>2. longer \in Seq(Figures) /\ Len(longer) > 0
      BY <1>2, FiguresAre
    <2>3. text = longer \o << ".", "0", "E", s, c >>
      <3> DEFINE z == << "0" >>
                 b == << ".", "0", "E", "-", "1" >>
      <3>1. z \in Seq(Chars) /\ b \in Seq(Chars) /\ d \in Seq(Chars)
        BY <1>2, FiguresAre
      <3>2. z \o b = << "0", ".", "0", "E", "-", "1" >>
        <4> DEFINE r == z \o b
                   q == << "0", ".", "0", "E", "-", "1" >>
        <4>1. /\ r \in Seq(Chars) /\ Len(r) = 6
              /\ r[1] = z[1] /\ r[2] = b[1] /\ r[3] = b[2] /\ r[4] = b[3]
              /\ r[5] = b[4] /\ r[6] = b[5]
          <5>1. Len(z) = 1 /\ Len(b) = 5
            OBVIOUS
          <5> HIDE DEF z, b
          <5>2. /\ r \in Seq(Chars) /\ Len(r) = Len(z) + Len(b)
                /\ \A i \in 1 .. Len(z) + Len(b) :
                     r[i] = IF i <= Len(z) THEN z[i] ELSE b[i - Len(z)]
            BY <3>1, ConcatProperties, Zenon
          <5> HIDE DEF r
          <5> QED
            BY <5>1, <5>2
        <4>2. q \in Seq(Chars) /\ Len(q) = 6
          BY FiguresAre
        <4>3. /\ q[1] = z[1] /\ q[2] = b[1] /\ q[3] = b[2] /\ q[4] = b[3]
              /\ q[5] = b[4] /\ q[6] = b[5]
          OBVIOUS
        <4> HIDE DEF r, q, z, b
        <4>4. \A i \in 1 .. 6 : i = 1 \/ i = 2 \/ i = 3 \/ i = 4 \/ i = 5 \/ i = 6
          OBVIOUS
        <4>5. \A i \in 1 .. 6 : r[i] = q[i]
          BY <4>1, <4>3, <4>4
        <4>6. r = q
          BY <4>1, <4>2, <4>5
        <4> QED
          BY <4>6 DEF r, q
      <3>3. longer = d \o z
        BY <1>2, FiguresAre, AppendIsConcat
      <3>4. (d \o z) \o b = d \o (z \o b)
        <4> HIDE DEF z, b
        <4> QED
          BY <3>1, ConcatAssociative
      <3> QED
        BY <1>7, <3>2, <3>3, <3>4 DEF Tenths
    <2>4. ValueOf(longer) = 10 * n
      BY <1>2, FiguresAre, FiguresKnown, ValueOfAppended
    <2> HIDE DEF s, c, scale, longer
    <2>5. parse_float_str(text) = Num(10 * ValueOf(longer) * 10^scale)
      BY <2>1, <2>2, <2>3, ReadWithPoint
    <2>6. 10 * (10 * n) * 10^scale = 100 * n
      BY <1>2 DEF scale
    <2> QED
      BY <1>2, <2>4, <2>5, <2>6
  <1> QED
    BY <1>1, <1>5, <1>6, <1>7
-----------------------------------------------------------------------------
(* Yoko: a measurement holds its own energy, and no unit counts twice.     *)

Connecting == {"off", "open", "configure", "setup", "drain"}
Asking == {"start", "stop"}

Units == 0 .. MaxUnits
AllTexts == AnyText \cup UNION Range(Texts)
Commands == {SetupCommands[i] : i \in 1 .. 9} \cup {"ask"}

YokoTyped ==
  /\ pc \in PCs /\ ctx \in BOOLEAN /\ cut \in BOOLEAN
  /\ sent \in 0 .. 9 /\ faults \in Nat /\ measures \in Nat
  /\ meter \in [item : BOOLEAN, integrating : BOOLEAN,
                armed : {"no", "armed", "seen"}, updates : 0 .. 2,
                energy : Units]
  /\ line \in Seq(Commands) /\ answers \in Seq(AllTexts)
  /\ last_e \in Numbers /\ e \in Numbers /\ reported \in Int
  /\ span \in [from : Units, after : Units, before : Units, until : Units,
               ok : BOOLEAN]

\* What a request left behind can be seen by: the meter has answered one.
Answered == answers # << >> \/ last_e # Num(0) \/ reported # 0

\* Only a probe with a context asks, and the commands that set the meter up
\* are all on the line before the first request.
LineInv ==
  /\ pc \in Connecting => ~ctx /\ measures = 0
  /\ pc \in Asking => ctx
  /\ \A i, j \in 1 .. Len(line) : i < j /\ line[i] = "ask" => line[j] = "ask"
  /\ ~ctx => /\ \A i \in 1 .. Len(line) : line[i] # "ask"
             /\ ~Answered /\ ~cut
  /\ Answered => \A i \in 1 .. Len(line) : line[i] = "ask"

\* The numbers the meter can answer once it measures energy.
Good == {NaN} \cup {Num(100 * n) : n \in Units}

\* The value that was kept and those on their way never fall, whatever was
\* lost, and are at most what was consumed. Until there are two values of the
\* integration they are all NaN or 0. What was reported is at most the value
\* that was kept.
Rising(ready, used, texts, kept, sum) ==
  /\ kept \in Good /\ kept.v <= 100 * used
  /\ \A i \in 1 .. Len(texts) :
       /\ Read[texts[i]] \in Good
       /\ kept.v <= Read[texts[i]].v /\ Read[texts[i]].v <= 100 * used
  /\ \A i, j \in 1 .. Len(texts) :
       i < j => Read[texts[i]].v <= Read[texts[j]].v
  /\ ~ready => /\ kept.v = 0
               /\ \A i \in 1 .. Len(texts) : Read[texts[i]].v = 0
  /\ sum <= kept.v

Ready == meter.integrating /\ meter.updates = 2

RisingInv ==
  meter.item /\ ~cut =>
    Rising(Ready, meter.energy, answers, last_e, reported)

\* The meter after k of the commands.
MeterAt(k) ==
  /\ k >= 3 => meter.item
  /\ k >= 5 => meter.integrating
  /\ k < 6 \/ k = 7 => meter.armed = "no"
  /\ k = 6 /\ meter.armed = "seen" => meter.updates >= 1
  /\ k \in {7, 8} => meter.updates >= 1
  /\ k = 8 /\ meter.armed = "seen" => meter.updates = 2
  /\ k = 9 => meter.updates = 2

\* Without a fault, the commands that were sent are either treated, k of them,
\* or on the line, in their order; then comes the request, if there is one
\* and it has no answer.
QueueInv(k) ==
  LET asked == IF pc \in Asking /\ answers = << >> THEN 1 ELSE 0
  IN /\ Len(line) = sent - k + asked
     /\ \A i \in 1 .. sent - k : line[i] = SetupCommands[k + i]
     /\ asked = 1 => line[Len(line)] = "ask"
     /\ MeterAt(k)
     /\ pc = "drain" \/ ctx => sent = 9
     /\ pc \in Asking => Len(answers) <= 1
     /\ pc \notin Asking => answers = << >>
     /\ answers # << >> \/ (ctx /\ pc \in {"measuring", "stop"}) => k = 9

\* What start has read and what stop is about to read.
ReadInv ==
  /\ ctx /\ pc \in {"measuring", "stop"} =>
       /\ span.after <= meter.energy
       /\ \E n \in Units :
            last_e = Num(100 * n) /\ span.from <= n /\ n <= span.after
  /\ pc = "start" => span.from <= meter.energy
  /\ pc = "stop" => span.before <= meter.energy
  /\ answers # << >> =>
       \E n \in Units :
         /\ Read[answers[1]] = Num(100 * n) /\ n <= meter.energy
         /\ n >= IF pc = "start" THEN span.from ELSE span.before

FaultlessInv ==
  faults = 0 =>
    /\ ~cut
    /\ \E k \in 0 .. sent : QueueInv(k)
    /\ ReadInv
    /\ OwnEnergy

YokoInv == YokoTyped /\ LineInv /\ RisingInv /\ FaultlessInv

LEMMA SetupKnown ==
  /\ Len(SetupCommands) = 9
  /\ SetupCommands[1] = "reset" /\ SetupCommands[2] = "other"
  /\ SetupCommands[3] = "item" /\ SetupCommands[4] = "zero"
  /\ SetupCommands[5] = "start" /\ SetupCommands[6] = "arm"
  /\ SetupCommands[7] = "wait" /\ SetupCommands[8] = "arm"
  /\ SetupCommands[9] = "wait"
  BY DEF SetupCommands

LEMMA SetupAsksNothing == \A i \in 1 .. 9 : SetupCommands[i] # "ask"
  <1> SUFFICES ASSUME NEW i \in 1 .. 9
               PROVE  SetupCommands[i] # "ask"
    OBVIOUS
  <1>1. i \in {1, 2, 3, 4, 5, 6, 7, 8, 9}
    OBVIOUS
  <1> QED
    BY <1>1, SetupKnown

LEMMA YokoConstants ==
  /\ MaxUnits \in Nat /\ Units \subseteq Nat
  /\ MaxFaults \in Nat /\ MaxRequests \in Nat
  BY YokoAssumption DEF Units

LEMMA UnitsAreNat == \A n \in Units : n \in Nat /\ 100 * n \in Nat
  <1> SUFFICES ASSUME NEW n \in Units
               PROVE  n \in Nat /\ 100 * n \in Nat
    OBVIOUS
  <1>1. n \in Nat
    BY YokoConstants
  <1> QED
    BY <1>1

\* The texts of a number of units are read as that number, and all are read
\* as some value.
LEMMA TextsRead ==
  /\ \A n \in Units : \A text \in Texts[n] :
       text \in AllTexts /\ Read[text] = Num(100 * n)
  /\ NoData \in AllTexts /\ Read[NoData] = NaN
  /\ AnyText \subseteq AllTexts
  /\ \A text \in AllTexts : Read[text] \in Numbers
  <1>1. AnyText \subseteq AllTexts
    BY DEF AllTexts
  <1>2. ASSUME NEW text \in AllTexts
        PROVE  Read[text] = parse_float_str(text)
    BY <1>2 DEF Read, AllTexts
  <1>3. ASSUME NEW n \in Units, NEW text \in Texts[n]
        PROVE  text \in AllTexts /\ Read[text] = Num(100 * n)
    <2>1. Texts[n] \in Range(Texts) /\ Texts[n] = TextsOf(n)
      BY <1>3 DEF Texts, Range, Units
    <2>2. text \in AllTexts
      BY <1>3, <2>1 DEF AllTexts
    <2> QED
      BY <1>2, <1>3, <2>1, <2>2, TextsAreRead
  <1>4. /\ NoField # NoData /\ NoField # OverRange /\ NoData # OverRange
    <2>1. Len(NoData) = 7 /\ Len(NoField) = 0 /\ Len(OverRange) = 8
      BY DEF NoData, NoField, OverRange
    <2>2. /\ Len(NoField) # Len(NoData) /\ Len(NoField) # Len(OverRange)
          /\ Len(NoData) # Len(OverRange)
      BY <2>1
    <2> QED
      BY ONLY <2>2, Zenon
  <1>5. /\ parse_float_str(NoField) = Failed
        /\ parse_float_str(NoData) = NaN
        /\ parse_float_str(OverRange) = Infinity
    BY <1>4 DEF parse_float_str
  <1>6. NoField \in AllTexts /\ NoData \in AllTexts /\ OverRange \in AllTexts
    BY <1>1 DEF AnyText
  <1>7. Failed \in Numbers /\ NaN \in Numbers /\ Infinity \in Numbers
    BY DEF Failed, NaN, Infinity, Num, Numbers
  <1>8. ASSUME NEW text \in AllTexts
        PROVE  Read[text] \in Numbers
    <2>1. CASE text \in {NoField, NoData, OverRange}
      BY <1>2, <1>5, <1>7, <2>1
    <2>2. CASE text \notin {NoField, NoData, OverRange}
      <3>1. PICK n \in Units : text \in Texts[n]
        BY <2>2, YokoConstants DEF AllTexts, AnyText, Texts, Range, Units
      <3>2. Read[text] = Num(100 * n) /\ 100 * n \in Int
        BY <1>3, <3>1, YokoConstants
      <3> QED
        BY <3>2 DEF Num, Numbers
    <2> QED
      BY <2>1, <2>2
  <1> QED
    BY <1>1, <1>2, <1>3, <1>5, <1>6, <1>8

LEMMA YokoInvInit == YokoInit => YokoInv
  <1> SUFFICES ASSUME YokoInit
               PROVE  YokoInv
    OBVIOUS
  <1>1. /\ pc = "off" /\ ctx = FALSE /\ cut = FALSE /\ sent = 0
        /\ faults = 0 /\ measures = 0 /\ line = << >> /\ answers = << >>
        /\ meter = [item |-> FALSE, integrating |-> FALSE, armed |-> "no",
                    updates |-> 0, energy |-> 0]
        /\ last_e = Num(0) /\ e = Num(0) /\ reported = 0
        /\ span = [from |-> 0, after |-> 0, before |-> 0, until |-> 0,
                   ok |-> FALSE]
    BY DEF YokoInit
  <1>2. /\ << >> \in Seq(Commands) /\ << >> \in Seq(AllTexts)
        /\ Len(<< >>) = 0 /\ 0 \in Units
    BY YokoConstants DEF Units
  <1>3. YokoTyped
    <2>1. meter \in [item : BOOLEAN, integrating : BOOLEAN,
                     armed : {"no", "armed", "seen"}, updates : 0 .. 2,
                     energy : Units]
      BY <1>1, <1>2
    <2>2. line \in Seq(Commands) /\ answers \in Seq(AllTexts)
      BY <1>1, <1>2
    <2>3. pc \in PCs /\ ctx \in BOOLEAN /\ cut \in BOOLEAN
      BY <1>1, Zenon DEF PCs
    <2>5. sent \in 0 .. 9 /\ faults \in Nat /\ measures \in Nat
      BY <1>1
    <2>4. span \in [from : Units, after : Units, before : Units,
                    until : Units, ok : BOOLEAN]
      BY <1>1, <1>2
    <2>6. last_e \in Numbers /\ e \in Numbers /\ reported \in Int
      BY <1>1 DEF Num, Numbers
    <2> QED
      BY <2>1, <2>2, <2>3, <2>4, <2>5, <2>6
         DEF YokoTyped
  <1>4. LineInv
    BY <1>1, <1>2 DEF LineInv, Answered, Connecting, Asking
  <1>5. RisingInv
    BY <1>1 DEF RisingInv
  <1>6. QueueInv(0)
    BY <1>1, <1>2 DEF QueueInv, MeterAt, Asking
  <1>7. FaultlessInv
    BY <1>1, <1>6 DEF FaultlessInv, ReadInv, OwnEnergy
  <1> QED
    BY <1>3, <1>4, <1>5, <1>7 DEF YokoInv

\* Calls that put nothing on the line and read nothing.
Quiet ==
  \/ BeginConnect \/ OpenPath \/ OpenPathFails \/ Configure \/ ConnectFails
  \/ Drain \/ StartNoContext \/ StopNoContext \/ Disconnect

\* What the calls of the probe change besides the line and the answers.
LEMMA QuietSteps ==
  ASSUME YokoTyped, LineInv, Quiet
  PROVE  /\ UNCHANGED << lineVars, meter, faults, cut, reported, span, sent,
                         last_e >>
         /\ pc' \in PCs \ Asking /\ pc \notin Asking /\ ctx' \in BOOLEAN
         /\ e' \in Numbers
         /\ ctx => pc # "drain" /\ ctx'
         /\ ctx' => ctx \/ (pc = "drain" /\ pc' = "idle" /\ measures' = 0)
         /\ pc' \in Connecting => ~ctx' /\ measures' = 0
         /\ pc' # "drain" /\ ~(ctx /\ pc' = "measuring")
         /\ measures' \in Nat
         /\ ctx => UNCHANGED << e, measures >> /\ pc = "idle" /\ pc' = "over"
  <1> USE DEF YokoTyped, LineInv, PCs, Connecting, Asking, lineVars, probeVars,
              ghosts
  <1>1. CASE BeginConnect \/ OpenPath \/ OpenPathFails \/ Configure
    BY <1>1 DEF BeginConnect, OpenPath, OpenPathFails, Configure
  <1>2. CASE ConnectFails \/ Disconnect
    BY <1>2 DEF ConnectFails, Disconnect
  <1>4. CASE Drain
    BY <1>4 DEF Drain
  <1>3. CASE StartNoContext \/ StopNoContext
    BY <1>3 DEF StartNoContext, StopNoContext, Num, Numbers
  <1> QED
    BY <1>1, <1>2, <1>3, <1>4 DEF Quiet

LEMMA Sent ==
  ASSUME NEW cmd, send_cmd(cmd)
  PROVE  \/ line' = Append(line, cmd) /\ faults' = faults
         \/ line' = line /\ faults' = faults + 1
  BY DEF send_cmd

Meters == [item : BOOLEAN, integrating : BOOLEAN,
           armed : {"no", "armed", "seen"}, updates : 0 .. 2, energy : Units]

\* What each command changes of the meter, and what none changes.
LEMMA MeterTreats ==
  ASSUME YokoTyped, MeterStep
  PROVE  /\ line # << >> /\ Head(line) \in Commands /\ line' = Tail(line)
         /\ Head(line) = "wait" => meter.armed = "seen"
         /\ meter' \in Meters /\ meter'.energy = meter.energy
         /\ meter'.item = (Head(line) = "item"
                           \/ (meter.item /\ Head(line) # "reset"))
         /\ meter'.integrating = (Head(line) = "start"
                                  \/ (meter.integrating
                                      /\ Head(line) # "reset"))
         /\ meter'.updates = IF Head(line) = "zero" THEN 0 ELSE meter.updates
         /\ meter'.armed = IF Head(line) = "arm" THEN "armed"
                           ELSE IF Head(line) = "wait" THEN "no"
                           ELSE meter.armed
  <1>1. /\ line # << >> /\ line' = Tail(line)
        /\ Head(line) = "wait" => meter.armed = "seen"
    BY DEF MeterStep, MeterReady
  <1>2. Head(line) \in Commands
    BY <1>1 DEF YokoTyped
  <1>3. meter \in Meters
    BY DEF YokoTyped, Meters
  <1> DEFINE cmd == Head(line)
  <1>4. meter' =
          CASE cmd = "reset" ->
                 [meter EXCEPT !.item = FALSE, !.integrating = FALSE]
            [] cmd = "item" -> [meter EXCEPT !.item = TRUE]
            [] cmd = "zero" -> [meter EXCEPT !.updates = 0]
            [] cmd = "start" -> [meter EXCEPT !.integrating = TRUE]
            [] cmd = "arm" -> [meter EXCEPT !.armed = "armed"]
            [] cmd = "wait" -> [meter EXCEPT !.armed = "no"]
            [] OTHER -> meter
    BY DEF MeterStep
  <1> HIDE DEF cmd
  <1> DEFINE Treated ==
        /\ meter' \in Meters /\ meter'.energy = meter.energy
        /\ meter'.item = (cmd = "item" \/ (meter.item /\ cmd # "reset"))
        /\ meter'.integrating =
             (cmd = "start" \/ (meter.integrating /\ cmd # "reset"))
        /\ meter'.updates = IF cmd = "zero" THEN 0 ELSE meter.updates
        /\ meter'.armed = IF cmd = "arm" THEN "armed"
                          ELSE IF cmd = "wait" THEN "no" ELSE meter.armed
  <1> SUFFICES Treated
    BY <1>1, <1>2 DEF cmd
  <1>5. CASE cmd = "reset"
    <2>1. meter' = [meter EXCEPT !.item = FALSE, !.integrating = FALSE]
      BY <1>4, <1>5
    <2> QED
      BY <1>3, <1>5, <2>1 DEF Meters
  <1>6. CASE cmd = "item"
    <2>1. meter' = [meter EXCEPT !.item = TRUE]
      BY <1>4, <1>6
    <2> QED
      BY <1>3, <1>6, <2>1 DEF Meters
  <1>7. CASE cmd = "zero"
    <2>1. meter' = [meter EXCEPT !.updates = 0]
      BY <1>4, <1>7
    <2> QED
      BY <1>3, <1>7, <2>1 DEF Meters
  <1>8. CASE cmd = "start"
    <2>1. meter' = [meter EXCEPT !.integrating = TRUE]
      BY <1>4, <1>8
    <2> QED
      BY <1>3, <1>8, <2>1 DEF Meters
  <1>9. CASE cmd = "arm"
    <2>1. meter' = [meter EXCEPT !.armed = "armed"]
      BY <1>4, <1>9
    <2> QED
      BY <1>3, <1>9, <2>1 DEF Meters
  <1>10. CASE cmd = "wait"
    <2>1. meter' = [meter EXCEPT !.armed = "no"]
      BY <1>4, <1>10
    <2> QED
      BY <1>3, <1>10, <2>1 DEF Meters
  <1>11. CASE cmd \notin {"reset", "item", "zero", "start", "arm", "wait"}
    <2>1. meter' = meter
      BY <1>4, <1>11
    <2> QED
      BY <1>3, <1>11, <2>1 DEF Meters
  <1> QED
    BY <1>5, <1>6, <1>7, <1>8, <1>9, <1>10, <1>11

LEMMA MeterUpdates ==
  ASSUME YokoTyped, MeterUpdate
  PROVE  /\ meter' \in Meters /\ meter'.energy = meter.energy
         /\ meter'.item = meter.item
         /\ meter'.integrating = meter.integrating
         /\ meter'.updates = IF meter.integrating /\ meter.updates < 2
                               THEN meter.updates + 1 ELSE meter.updates
         /\ meter'.armed = IF meter.armed = "armed" THEN "seen"
                                                    ELSE meter.armed
  <1> DEFINE n == IF meter.integrating /\ meter.updates < 2
                    THEN meter.updates + 1 ELSE meter.updates
             a == IF meter.armed = "armed" THEN "seen" ELSE meter.armed
  <1>1. meter \in Meters
    BY DEF YokoTyped, Meters
  <1>2. meter' = [meter EXCEPT !.updates = n, !.armed = a]
    BY DEF MeterUpdate
  <1>3. n \in 0 .. 2
    BY <1>1 DEF Meters
  <1>4. a \in {"no", "armed", "seen"}
    BY <1>1 DEF Meters
  <1> HIDE DEF n, a
  <1>5. /\ meter' \in Meters /\ meter'.energy = meter.energy
        /\ meter'.item = meter.item
        /\ meter'.integrating = meter.integrating
        /\ meter'.updates = n /\ meter'.armed = a
    BY <1>1, <1>2, <1>3, <1>4 DEF Meters
  <1> QED
    BY <1>5 DEF n, a

LEMMA Consumes ==
  ASSUME YokoTyped, Consume
  PROVE  /\ meter' \in Meters /\ meter'.energy = meter.energy + 1
         /\ meter'.item = meter.item
         /\ meter'.integrating = meter.integrating
         /\ meter'.updates = meter.updates /\ meter'.armed = meter.armed
  <1>1. meter \in Meters
    BY DEF YokoTyped, Meters
  <1>2. /\ meter' = [meter EXCEPT !.energy = meter.energy + 1]
        /\ meter.energy < MaxUnits
    BY DEF Consume
  <1>3. meter.energy + 1 \in Units
    BY <1>1, <1>2, YokoConstants DEF Meters, Units
  <1> QED
    BY <1>1, <1>2, <1>3 DEF Meters

\* The answers the meter has for a request are texts.
LEMMA AnswersAreTexts == ASSUME YokoTyped PROVE Answer \subseteq AllTexts
  <1>1. meter.energy \in Units
    BY DEF YokoTyped
  <1> QED
    BY <1>1, TextsRead DEF Answer

\* What the end of start or of stop changes.
LEMMA EnergyRead ==
  ASSUME YokoTyped, NEW cur, pc \in Asking, ReadEnergy(cur)
  PROVE  /\ UNCHANGED << path, ctx, sent, measures, meter >>
         /\ last_e' = IF IsError(cur) THEN last_e ELSE cur
         /\ pc = "start" =>
              /\ pc' = "measuring" /\ e' = e /\ reported' = reported
              /\ span' = [span EXCEPT !.after = meter.energy]
         /\ pc = "stop" =>
              LET own == IF IsError(cur) THEN Num(0) ELSE Minus(cur, last_e)
              IN /\ pc' = "idle" /\ e' = own
                 /\ reported' = reported
                      + (IF own.kind = "num" THEN own.v ELSE 0)
                 /\ span' = [span EXCEPT !.until = meter.energy,
                                         !.ok = ~IsError(cur)]
  BY DEF ReadEnergy, LastRead, Asking

\* Which calls an answer can be read in, and what becomes of the answers.
LEMMA Reads ==
  ASSUME YokoTyped, ReadAnswer \/ ReadFails
  PROVE  /\ pc \in Asking /\ line' = line
         /\ \/ /\ answers # << >> /\ answers' = Tail(answers)
               /\ faults' = faults /\ cut' = cut
               /\ ReadEnergy(Read[Head(answers)])
            \/ /\ faults' = faults + 1 /\ ReadEnergy(Failed)
               /\ \/ answers' = answers /\ cut' = cut
                  \/ /\ answers # << >> /\ cut' = TRUE
                     /\ \E rest \in AnyText :
                          answers' = << rest >> \o Tail(answers)
  BY DEF ReadAnswer, ReadFails, Asking


LEMMA SentTyped ==
  ASSUME YokoTyped, NEW cmd \in Commands, send_cmd(cmd)
  PROVE  line' \in Seq(Commands) /\ faults' \in Nat
  <1>1. line \in Seq(Commands) /\ faults \in Nat
    BY DEF YokoTyped
  <1>2. CASE line' = Append(line, cmd) /\ faults' = faults
    BY <1>1, <1>2
  <1>3. CASE line' = line /\ faults' = faults + 1
    BY <1>1, <1>3
  <1> QED
    BY <1>2, <1>3, Sent

LEMMA DifferenceIsNumber ==
  ASSUME NEW a \in Numbers, NEW b \in Numbers
  PROVE  Minus(a, b) \in Numbers
  BY DEF Minus, Numbers, Num, NaN

LEMMA EnergyReadTyped ==
  ASSUME YokoTyped, pc \in Asking, NEW cur \in Numbers, ReadEnergy(cur)
  PROVE  /\ pc' \in PCs /\ ctx' \in BOOLEAN /\ sent' \in 0 .. 9
         /\ measures' \in Nat /\ meter' = meter
         /\ last_e' \in Numbers /\ e' \in Numbers /\ reported' \in Int
         /\ span' \in [from : Units, after : Units, before : Units,
                       until : Units, ok : BOOLEAN]
  <1>1. /\ UNCHANGED << ctx, sent, measures, meter >>
        /\ last_e' = IF IsError(cur) THEN last_e ELSE cur
    BY EnergyRead
  <1>2. /\ ctx \in BOOLEAN /\ sent \in 0 .. 9 /\ measures \in Nat
        /\ last_e \in Numbers /\ e \in Numbers /\ reported \in Int
        /\ meter.energy \in Units
        /\ span \in [from : Units, after : Units, before : Units,
                     until : Units, ok : BOOLEAN]
    BY DEF YokoTyped
  <1>3. IsError(cur) \in BOOLEAN
    BY DEF IsError
  <1>4. CASE pc = "start"
    <2>1. /\ pc' = "measuring" /\ e' = e /\ reported' = reported
          /\ span' = [span EXCEPT !.after = meter.energy]
      BY <1>4, EnergyRead
    <2>2. span' \in [from : Units, after : Units, before : Units,
                     until : Units, ok : BOOLEAN]
      BY <1>2, <2>1
    <2> QED
      BY <1>1, <1>2, <2>1, <2>2 DEF PCs
  <1>5. CASE pc = "stop"
    <2> DEFINE own == IF IsError(cur) THEN Num(0) ELSE Minus(cur, last_e)
               ok == ~IsError(cur)
    <2>1. /\ pc' = "idle" /\ e' = own
          /\ reported' = reported + (IF own.kind = "num" THEN own.v ELSE 0)
          /\ span' = [span EXCEPT !.until = meter.energy, !.ok = ok]
      BY <1>5, EnergyRead
    <2>2. ok \in BOOLEAN
      BY <1>3
    <2>3. own \in Numbers
      BY <1>2, DifferenceIsNumber DEF Num, Numbers
    <2> HIDE DEF own, ok
    <2>4. span' \in [from : Units, after : Units, before : Units,
                     until : Units, ok : BOOLEAN]
      BY <1>2, <2>1, <2>2
    <2>5. reported' \in Int
      BY <1>2, <2>1, <2>3 DEF Numbers
    <2> QED
      BY <1>1, <1>2, <2>1, <2>3, <2>4, <2>5 DEF PCs
  <1> QED
    BY <1>4, <1>5 DEF Asking

LEMMA YokoTypedNext == YokoTyped /\ LineInv /\ [YokoNext]_yokoVars => YokoTyped'
  <1> SUFFICES ASSUME YokoTyped, LineInv, [YokoNext]_yokoVars
               PROVE  YokoTyped'
    OBVIOUS
  <1>1. CASE Quiet
    <2>1. /\ UNCHANGED << line, answers, meter, faults, cut, reported, span,
                          sent, last_e >>
          /\ pc' \in PCs /\ ctx' \in BOOLEAN /\ e' \in Numbers
          /\ measures' \in Nat
      BY <1>1, QuietSteps DEF lineVars
    <2> QED
      BY <2>1 DEF YokoTyped
  <1>2. CASE SetUp
    <2>1. /\ sent < 9 /\ sent' = sent + 1 /\ pc' \in PCs
          /\ send_cmd(SetupCommands[sent + 1])
          /\ UNCHANGED << ctx, last_e, e, measures, answers, meter, ghosts >>
      BY <1>2, SetupKnown DEF SetUp, PCs
    <2>2. sent + 1 \in 1 .. 9 /\ sent' \in 0 .. 9
      BY <2>1 DEF YokoTyped
    <2>3. SetupCommands[sent + 1] \in Commands
      BY <2>2 DEF Commands
    <2>4. line' \in Seq(Commands) /\ faults' \in Nat
      BY <2>1, <2>3, SentTyped
    <2> QED
      BY <2>1, <2>2, <2>4 DEF YokoTyped, ghosts
  <1>3. CASE Start \/ Stop
    <2>1. /\ send_cmd("ask") /\ pc' \in PCs
          /\ measures' \in Nat
          /\ UNCHANGED << ctx, sent, last_e, e, answers, meter, cut, reported >>
          /\ \/ span' = [span EXCEPT !.from = meter.energy]
             \/ span' = [span EXCEPT !.before = meter.energy]
      BY <1>3 DEF Start, Stop, PCs, YokoTyped
    <2>2. "ask" \in Commands
      BY DEF Commands
    <2>3. line' \in Seq(Commands) /\ faults' \in Nat
      BY <2>1, <2>2, SentTyped
    <2>4. span' \in [from : Units, after : Units, before : Units,
                     until : Units, ok : BOOLEAN]
      <3>1. /\ meter.energy \in Units
            /\ span \in [from : Units, after : Units, before : Units,
                         until : Units, ok : BOOLEAN]
        BY DEF YokoTyped
      <3> QED
        BY <2>1, <3>1
    <2> QED
      BY <2>1, <2>3, <2>4 DEF YokoTyped
  <1>4. CASE ReadAnswer \/ ReadFails
    <2>1. answers \in Seq(AllTexts) /\ faults \in Nat /\ cut \in BOOLEAN
      BY DEF YokoTyped
    <2>2. PICK cur \in Numbers : ReadEnergy(cur)
      <3>1. Failed \in Numbers
        BY DEF Failed, Num, Numbers
      <3>2. answers # << >> => Head(answers) \in AllTexts
        BY <2>1
      <3> QED
        BY <1>4, <3>1, <3>2, Reads, TextsRead
    <2>3. answers' \in Seq(AllTexts)
      <3>1. CASE answers # << >> /\ answers' = Tail(answers)
        BY <2>1, <3>1
      <3>2. CASE answers' = answers
        BY <2>1, <3>2
      <3>3. ASSUME answers # << >>, NEW rest \in AnyText,
                   answers' = << rest >> \o Tail(answers)
            PROVE  answers' \in Seq(AllTexts)
        <4>1. rest \in AllTexts /\ Tail(answers) \in Seq(AllTexts)
          BY <2>1, <3>3, TextsRead
        <4> QED
          BY <3>3, <4>1
      <3> QED
        BY <1>4, <3>1, <3>2, <3>3, Reads
    <2>5. faults' \in {faults, faults + 1} /\ cut' \in {cut, TRUE}
      BY <1>4, Reads, Zenon
    <2>6. faults' \in Nat
      BY <2>1, <2>5
    <2>7. cut' \in BOOLEAN
      BY <2>1, <2>5
    <2>4. pc \in Asking /\ line' = line
      BY <1>4, Reads
    <2> QED
      BY <2>2, <2>3, <2>4, <2>6, <2>7, EnergyReadTyped DEF YokoTyped
  <1>5. CASE MeterStep
    <2>1. meter' \in Meters /\ line' = Tail(line) /\ line # << >>
      BY <1>5, MeterTreats
    <2>2. line' \in Seq(Commands)
      BY <2>1 DEF YokoTyped
    <2>3. answers' \in Seq(AllTexts)
      <3>1. \/ answers' = answers
            \/ \E text \in Answer : answers' = Append(answers, text)
        BY <1>5 DEF MeterStep
      <3> QED
        BY <3>1, AnswersAreTexts DEF YokoTyped
    <2>4. UNCHANGED << pc, probeVars, faults, ghosts >>
      BY <1>5 DEF MeterStep
    <2> QED
      BY <2>1, <2>2, <2>3, <2>4 DEF YokoTyped, Meters, probeVars, ghosts
  <1>6. CASE MeterUpdate \/ Consume
    <2>1. meter' \in Meters
      BY <1>6, MeterUpdates, Consumes
    <2>2. UNCHANGED << pc, probeVars, lineVars, faults, ghosts >>
      BY <1>6 DEF MeterUpdate, Consume
    <2> QED
      BY <2>1, <2>2 DEF YokoTyped, Meters, probeVars, lineVars, ghosts
  <1>7. CASE UNCHANGED yokoVars
    BY <1>7 DEF yokoVars, probeVars, lineVars, ghosts, YokoTyped
  <1> QED
    BY <1>1, <1>2, <1>3, <1>4, <1>5, <1>6, <1>7
       DEF YokoNext, Connect, Meter, Quiet

LEMMA LineNext == YokoTyped /\ LineInv /\ [YokoNext]_yokoVars => LineInv'
  <1> SUFFICES ASSUME YokoTyped, LineInv, [YokoNext]_yokoVars
               PROVE  LineInv'
    OBVIOUS
  <1>1. CASE Quiet
    <2>1. /\ UNCHANGED << line, answers, cut, reported, last_e >>
          /\ pc' \notin Asking
          /\ ctx => ctx'
          /\ pc' \in Connecting => ~ctx' /\ measures' = 0
      BY <1>1, QuietSteps DEF lineVars
    <2> QED
      BY <2>1 DEF LineInv, Answered
  <1> DEFINE Asks(s) == \A i \in 1 .. Len(s) : s[i] = "ask"
             AsksNot(s) == \A i \in 1 .. Len(s) : s[i] # "ask"
             AsksLast(s) == \A i, j \in 1 .. Len(s) :
                              i < j /\ s[i] = "ask" => s[j] = "ask"
  <1>2. CASE SetUp
    <2>1. /\ pc = "setup" /\ pc' \in {"setup", "drain"}
          /\ send_cmd(SetupCommands[sent + 1]) /\ sent + 1 \in 1 .. 9
          /\ UNCHANGED << ctx, last_e, measures, answers, cut, reported >>
      BY <1>2, SetupKnown DEF SetUp, ghosts, YokoTyped
    <2> DEFINE cmd == SetupCommands[sent + 1]
    <2>2. cmd # "ask"
      BY <2>1, SetupAsksNothing
    <2>3. line' = line \/ line' = Append(line, cmd)
      BY <2>1, Sent
    <2> HIDE DEF cmd
    <2>4. ~ctx /\ measures = 0 /\ AsksNot(line) /\ ~Answered /\ ~cut
      BY <2>1 DEF LineInv, Connecting
    <2>5. AsksNot(line')
      BY <2>2, <2>3, <2>4 DEF YokoTyped
    <2>6. ~Answered'
      BY <2>1, <2>4 DEF Answered
    <2> QED
      BY <2>1, <2>4, <2>5, <2>6 DEF LineInv, Asking
  <1>3. CASE Start \/ Stop
    <2>1. /\ ctx /\ send_cmd("ask") /\ pc' \in Asking
          /\ UNCHANGED << ctx, last_e, answers, reported >>
      BY <1>3 DEF Start, Stop, Asking
    <2>2. line' = line \/ line' = Append(line, "ask")
      BY <2>1, Sent
    <2>3. line \in Seq(Commands) /\ AsksLast(line)
      BY DEF YokoTyped, LineInv
    <2>4. /\ AsksLast(line')
          /\ Asks(line) => Asks(line')
      <3>1. CASE line' = line
        BY <2>3, <3>1
      <3>2. CASE line' = Append(line, "ask")
        BY <2>3, <3>2
      <3> QED
        BY <2>2, <3>1, <3>2
    <2>5. Answered' = Answered
      BY <2>1 DEF Answered
    <2> QED
      BY <2>1, <2>4, <2>5 DEF LineInv, Asking, Connecting
  <1>4. CASE ReadAnswer \/ ReadFails
    <2>1. pc \in Asking /\ line' = line /\ ctx
      BY <1>4, Reads DEF LineInv
    <2>2. ctx' = ctx /\ pc' \in {"measuring", "idle"}
      <3>1. PICK cur : ReadEnergy(cur)
        BY <1>4, Reads
      <3> QED
        BY <3>1 DEF ReadEnergy
    <2>3. Answered' => Answered
      <3>1. CASE answers # << >>
        BY <3>1 DEF Answered
      <3>2. CASE answers = << >>
        <4>1. answers' = answers /\ ReadEnergy(Failed)
          BY <1>4, <3>2, Reads
        <4>2. IsError(Failed)
          BY DEF IsError, Failed, Num
        <4>3. last_e' = last_e
          BY <2>1, <4>1, <4>2, EnergyRead
        <4>4. CASE pc = "start"
          BY <2>1, <4>1, <4>3, <4>4, EnergyRead DEF Answered
        <4>5. CASE pc = "stop"
          <5>1. reported' = reported + (IF Num(0).kind = "num" THEN Num(0).v
                                                               ELSE 0)
            BY <2>1, <4>1, <4>2, <4>5, EnergyRead
          <5>2. reported' = reported
            BY <5>1 DEF Num, YokoTyped
          <5> QED
            BY <4>1, <4>3, <5>2 DEF Answered
        <4> QED
          BY <2>1, <4>4, <4>5 DEF Asking
      <3> QED
        BY <3>1, <3>2
    <2> QED
      BY <2>1, <2>2, <2>3 DEF LineInv, Asking, Connecting
  <1>5. CASE MeterStep
    <2>1. /\ line # << >> /\ line' = Tail(line)
          /\ UNCHANGED << pc, ctx, measures, last_e, cut, reported >>
      BY <1>5 DEF MeterStep, probeVars, ghosts
    <2>2. /\ Len(line') = Len(line) - 1 /\ Len(line) \in Nat /\ Len(line) >= 1
          /\ \A i \in 1 .. Len(line') : line'[i] = line[i + 1]
          /\ Head(line) = line[1]
      BY <2>1 DEF YokoTyped
    <2>3. AsksLast(line') /\ (AsksNot(line) => AsksNot(line'))
      BY <2>2 DEF LineInv
    <2>4. CASE Head(line) = "ask"
      <3>1. Asks(line')
        BY <2>2, <2>4 DEF LineInv
      <3>2. ctx
        BY <2>2, <2>4 DEF LineInv
      <3> QED
        BY <2>1, <2>3, <3>1, <3>2 DEF LineInv
    <2>5. CASE Head(line) # "ask"
      <3>1. answers' = answers
        BY <1>5, <2>5 DEF MeterStep
      <3>2. ~Answered'
        BY <2>1, <2>2, <2>5, <3>1 DEF LineInv, Answered
      <3> QED
        BY <2>1, <2>3, <3>2 DEF LineInv
    <2> QED
      BY <2>4, <2>5
  <1>6. CASE MeterUpdate \/ Consume \/ UNCHANGED yokoVars
    BY <1>6
       DEF MeterUpdate, Consume, yokoVars, probeVars, lineVars, ghosts, LineInv,
           Answered
  <1> QED
    BY <1>1, <1>2, <1>3, <1>4, <1>5, <1>6
       DEF YokoNext, Connect, Meter, Quiet

LEMMA GoodValues ==
  ASSUME NEW x \in Good
  PROVE  /\ x \in Numbers /\ x.v \in Nat /\ x.kind \in {"num", "nan"}
         /\ ~IsError(x)
  <1>1. CASE x = NaN
    BY <1>1 DEF NaN, Numbers, IsError
  <1>2. ASSUME NEW n \in Units, x = Num(100 * n)
        PROVE  /\ x \in Numbers /\ x.v \in Nat /\ x.kind \in {"num", "nan"}
               /\ ~IsError(x)
    <2>1. 100 * n \in Nat
      BY UnitsAreNat
    <2> QED
      BY <1>2, <2>1 DEF Num, Numbers, IsError
  <1> QED
    BY <1>1, <1>2 DEF Good

LEMMA RisingFresh ==
  ASSUME NEW ready, NEW used \in Units
  PROVE  Rising(ready, used, << >>, Num(0), 0)
  <1>1. Num(0) \in Good /\ Num(0).v = 0
    <2>1. 0 \in Units /\ 100 * 0 = 0
      BY YokoConstants DEF Units
    <2> QED
      BY <2>1 DEF Good, Num
  <1>2. 100 * used \in Nat
    BY UnitsAreNat
  <1>3. 1 .. Len(<< >>) = {}
    OBVIOUS
  <1> QED
    BY <1>1, <1>2, <1>3 DEF Rising

LEMMA RisingMore ==
  ASSUME NEW ready \in BOOLEAN, NEW more \in BOOLEAN, ready => more,
         NEW used \in Units, NEW higher \in Units, used <= higher,
         NEW texts, NEW kept, NEW sum,
         Rising(ready, used, texts, kept, sum)
  PROVE  Rising(more, higher, texts, kept, sum)
  <1>1. 100 * used \in Nat /\ 100 * higher \in Nat
        /\ 100 * used <= 100 * higher
    <2>1. used \in Nat /\ higher \in Nat
      BY UnitsAreNat
    <2> QED
      BY <2>1
  <1>2. /\ kept \in Good /\ kept.v <= 100 * used
        /\ \A i \in 1 .. Len(texts) :
             Read[texts[i]] \in Good /\ Read[texts[i]].v <= 100 * used
    BY DEF Rising
  <1>3. kept.v <= 100 * higher
    BY <1>1, <1>2, GoodValues
  <1>4. \A i \in 1 .. Len(texts) : Read[texts[i]].v <= 100 * higher
    BY <1>1, <1>2, GoodValues
  <1> QED
    BY <1>3, <1>4 DEF Rising

LEMMA RisingAppended ==
  ASSUME NEW ready \in BOOLEAN, NEW used \in Units,
         NEW texts \in Seq(AllTexts), NEW text \in AllTexts, NEW kept, NEW sum,
         Rising(ready, used, texts, kept, sum),
         ready => Read[text] = Num(100 * used),
         ~ready => Read[text] = NaN
  PROVE  Rising(ready, used, Append(texts, text), kept, sum)
  <1> DEFINE more == Append(texts, text)
             n == Len(texts)
             top == Read[text].v
  <1>1. /\ n \in Nat /\ Len(more) = n + 1 /\ more[n + 1] = text
        /\ \A i \in 1 .. n : more[i] = texts[i]
    OBVIOUS
  <1> HIDE DEF more
  <1>2. /\ kept \in Good /\ kept.v \in Nat /\ kept.v <= 100 * used
        /\ \A i \in 1 .. n :
             /\ Read[texts[i]] \in Good /\ Read[texts[i]].v \in Nat
             /\ kept.v <= Read[texts[i]].v
             /\ Read[texts[i]].v <= 100 * used
    BY GoodValues DEF Rising
  <1>3. 100 * used \in Nat
    BY UnitsAreNat
  <1>4. /\ Read[text] \in Good
        /\ top = IF ready THEN 100 * used ELSE 0
    BY DEF Good, Num, NaN
  <1>5. /\ ~ready => kept.v = 0 /\ \A i \in 1 .. n : Read[texts[i]].v = 0
        /\ \A i, j \in 1 .. n : i < j => Read[texts[i]].v <= Read[texts[j]].v
        /\ sum <= kept.v
    BY DEF Rising
  <1>6. /\ kept.v <= top /\ top <= 100 * used
        /\ \A i \in 1 .. n : Read[texts[i]].v <= top
    BY <1>2, <1>3, <1>4, <1>5
  <1> HIDE DEF n, top
  <1>7. \A i \in 1 .. n + 1 : i \in 1 .. n \/ i = n + 1
    BY <1>1
  <1>8. ASSUME NEW i \in 1 .. n + 1
        PROVE  /\ Read[more[i]] \in Good
               /\ kept.v <= Read[more[i]].v
               /\ Read[more[i]].v <= 100 * used
               /\ ~ready => Read[more[i]].v = 0
    <2>1. CASE i \in 1 .. n
      BY <1>1, <1>2, <1>5, <2>1
    <2>2. CASE i = n + 1
      BY <1>1, <1>4, <1>6, <2>2 DEF top
    <2> QED
      BY <1>7, <2>1, <2>2
  <1>9. ASSUME NEW i \in 1 .. n + 1, NEW j \in 1 .. n + 1, i < j
        PROVE  Read[more[i]].v <= Read[more[j]].v
    <2>1. i \in 1 .. n
      BY <1>1, <1>9
    <2>2. CASE j \in 1 .. n
      BY <1>1, <1>5, <1>9, <2>1, <2>2
    <2>3. CASE j = n + 1
      BY <1>1, <1>6, <2>1, <2>3 DEF top
    <2> QED
      BY <1>7, <2>2, <2>3
  <1>10. Rising(ready, used, more, kept, sum)
    BY <1>1, <1>2, <1>5, <1>8, <1>9 DEF Rising
  <1> QED
    BY <1>10 DEF more

\* The first answer becomes the value that is kept.
LEMMA RisingRead ==
  ASSUME NEW ready \in BOOLEAN, NEW used \in Units,
         NEW texts \in Seq(AllTexts), texts # << >>, NEW kept, NEW sum, NEW all,
         Rising(ready, used, texts, kept, sum),
         all <= Read[Head(texts)].v
  PROVE  Rising(ready, used, Tail(texts), Read[Head(texts)], all)
  <1> DEFINE rest == Tail(texts)
  <1>1. /\ Len(texts) \in Nat /\ Len(texts) >= 1 /\ Head(texts) = texts[1]
        /\ Len(rest) = Len(texts) - 1
        /\ \A i \in 1 .. Len(rest) : rest[i] = texts[i + 1]
    OBVIOUS
  <1> HIDE DEF rest
  <1>2. 1 \in 1 .. Len(texts)
        /\ \A i \in 1 .. Len(rest) : i + 1 \in 1 .. Len(texts) /\ 1 < i + 1
    BY <1>1
  <1>3. Rising(ready, used, rest, Read[Head(texts)], all)
    <2>1. \A i, j \in 1 .. Len(rest) : i < j => i + 1 < j + 1
      BY <1>1
    <2> QED
      BY <1>1, <1>2, <2>1 DEF Rising
  <1> QED
    BY <1>3 DEF rest

\* What stop reports is at most by what the value rises.
LEMMA SumRises ==
  ASSUME NEW cur \in Good, NEW kept \in Good, kept.v <= cur.v,
         NEW sum \in Int, sum <= kept.v
  PROVE  sum + (IF Minus(cur, kept).kind = "num" THEN Minus(cur, kept).v
                                                 ELSE 0) <= cur.v
  <1>1. /\ cur.v \in Nat /\ kept.v \in Nat
    BY GoodValues
  <1>2. CASE cur.kind = "num" /\ kept.kind = "num"
    <2>1. Minus(cur, kept) = [kind |-> "num", v |-> cur.v - kept.v]
      BY <1>2 DEF Minus, Num
    <2> QED
      BY <1>1, <2>1
  <1>3. CASE ~(cur.kind = "num" /\ kept.kind = "num")
    <2>1. Minus(cur, kept).kind = "nan"
      BY <1>3 DEF Minus, NaN
    <2> QED
      BY <1>1, <2>1
  <1> QED
    BY <1>2, <1>3

LEMMA RisingNext ==
  YokoTyped /\ LineInv /\ RisingInv /\ [YokoNext]_yokoVars => RisingInv'
  <1> SUFFICES ASSUME YokoTyped, LineInv, RisingInv, [YokoNext]_yokoVars,
                      meter'.item, ~cut'
               PROVE  Rising(Ready', meter'.energy, answers', last_e', reported')
    BY DEF RisingInv
  <1>1. /\ meter.energy \in Units /\ meter'.energy \in Units
        /\ Ready \in BOOLEAN /\ Ready' \in BOOLEAN
    BY YokoTypedNext DEF YokoTyped, Ready
  <1>2. CASE Quiet \/ SetUp \/ Start \/ Stop \/ UNCHANGED yokoVars
    <2>1. UNCHANGED << meter, answers, last_e, reported, cut >>
      BY <1>2, QuietSteps
         DEF SetUp, Start, Stop, ghosts, lineVars, yokoVars, probeVars
    <2> QED
      BY <2>1 DEF RisingInv, Ready
  <1>3. CASE MeterUpdate \/ Consume
    <2>1. /\ UNCHANGED << answers, last_e, reported, cut >>
          /\ meter'.item = meter.item /\ (Ready => Ready')
          /\ meter.energy <= meter'.energy
      <3>1. UNCHANGED << answers, last_e, reported, cut >>
        BY <1>3 DEF MeterUpdate, Consume, probeVars, lineVars, ghosts
      <3>2. meter.energy \in Nat /\ meter.updates \in 0 .. 2
        BY <1>1, YokoConstants DEF YokoTyped
      <3>3. meter.energy \in Int
        BY <3>2
      <3>4. CASE MeterUpdate
        <4>1. /\ meter'.item = meter.item /\ meter'.energy = meter.energy
              /\ meter'.integrating = meter.integrating
              /\ meter'.updates = IF meter.integrating /\ meter.updates < 2
                                    THEN meter.updates + 1 ELSE meter.updates
          BY <3>4, MeterUpdates
        <4>2. ~(2 < 2)
          OBVIOUS
        <4>3. meter.updates = 2 => meter'.updates = 2
          BY <4>1, <4>2, Zenon
        <4>4. Ready => Ready'
          BY <4>1, <4>3, Zenon DEF Ready
        <4>5. meter.energy <= meter'.energy
          BY <3>3, <4>1
        <4> QED
          BY <3>1, <4>1, <4>4, <4>5, Zenon
      <3>5. CASE Consume
        <4>1. /\ meter'.item = meter.item
              /\ meter'.energy = meter.energy + 1
              /\ meter'.integrating = meter.integrating
              /\ meter'.updates = meter.updates
          BY <3>5, Consumes
        <4>2. Ready => Ready'
          BY <4>1, Zenon DEF Ready
        <4>3. meter.energy <= meter'.energy
          BY <3>3, <4>1
        <4> QED
          BY <3>1, <4>1, <4>2, <4>3, Zenon
      <3> QED
        BY <1>3, <3>4, <3>5
    <2>2. Rising(Ready, meter.energy, answers, last_e, reported)
      BY <2>1 DEF RisingInv
    <2>3. Rising(Ready', meter'.energy, answers, last_e, reported)
      BY <1>1, <2>1, <2>2, RisingMore
    <2> QED
      BY <2>1, <2>3
  <1>4. CASE MeterStep
    <2>1. /\ line # << >> /\ UNCHANGED << last_e, reported, cut >>
          /\ meter'.energy = meter.energy
      BY <1>4, MeterTreats DEF MeterStep, probeVars, ghosts
    <2>2. Head(line) = line[1] /\ 1 \in 1 .. Len(line)
      BY <2>1 DEF YokoTyped
    <2>3. CASE Head(line) # "ask"
      <3>1. answers' = answers
        BY <1>4, <2>3 DEF MeterStep
      <3>2. ~Answered
        BY <2>2, <2>3 DEF LineInv
      <3>3. answers' = << >> /\ last_e' = Num(0) /\ reported' = 0
        BY <2>1, <3>1, <3>2 DEF Answered
      <3> QED
        BY <1>1, <3>3, RisingFresh
    <2>4. CASE Head(line) = "ask"
      <3>1. PICK text \in Answer : answers' = Append(answers, text)
        BY <1>4, <2>4 DEF MeterStep
      <3>2. /\ meter'.item = meter.item /\ Ready' = Ready
        BY <1>4, <2>4, MeterTreats DEF Ready
      <3>3. text \in AllTexts /\ answers \in Seq(AllTexts)
        BY AnswersAreTexts DEF YokoTyped
      <3>4. Rising(Ready, meter.energy, answers, last_e, reported)
        BY <2>1, <3>2 DEF RisingInv
      <3>5. Ready => Read[text] = Num(100 * meter.energy)
        BY <1>1, <3>2, TextsRead DEF Answer, Ready
      <3>6. ~Ready => Read[text] = NaN
        BY TextsRead DEF Answer, Ready, YokoTyped
      <3>7. Rising(Ready, meter.energy, Append(answers, text), last_e, reported)
        BY <1>1, <3>3, <3>4, <3>5, <3>6, RisingAppended
      <3> QED
        BY <2>1, <3>1, <3>2, <3>7
    <2> QED
      BY <2>3, <2>4
  <1>5. CASE ReadAnswer \/ ReadFails
    <2>1. pc \in Asking /\ meter' = meter /\ Ready' = Ready
      BY <1>5, Reads DEF ReadEnergy, Ready
    <2>2. cut' = cut
      BY <1>5, Reads
    <2>3. Rising(Ready, meter.energy, answers, last_e, reported)
      BY <2>1, <2>2 DEF RisingInv
    <2>4. CASE answers # << >> /\ answers' = Tail(answers)
               /\ ReadEnergy(Read[Head(answers)])
      <3> DEFINE cur == Read[Head(answers)]
      <3>1. answers \in Seq(AllTexts)
        BY DEF YokoTyped
      <3>2. Head(answers) = answers[1] /\ 1 \in 1 .. Len(answers)
        BY <2>4, <3>1
      <3>3. /\ cur \in Good /\ last_e \in Good /\ last_e.v <= cur.v
            /\ reported <= last_e.v /\ reported \in Int
        BY <2>3, <3>2 DEF Rising, YokoTyped
      <3> HIDE DEF cur
      <3>4. ReadEnergy(cur)
        BY <2>4 DEF cur
      <3>5. last_e' = cur
        BY <2>1, <3>3, <3>4, EnergyRead, GoodValues
      <3>6. reported' <= cur.v
        <4>1. last_e.v \in Nat /\ cur.v \in Nat
          BY <3>3, GoodValues
        <4>2. CASE pc = "start"
          BY <2>1, <3>3, <3>4, <4>1, <4>2, EnergyRead
        <4>3. CASE pc = "stop"
          <5>1. reported' = reported
                  + (IF Minus(cur, last_e).kind = "num"
                       THEN Minus(cur, last_e).v ELSE 0)
            BY <2>1, <3>3, <3>4, <4>3, EnergyRead, GoodValues
          <5> QED
            BY <3>3, <5>1, SumRises
        <4> QED
          BY <2>1, <4>2, <4>3 DEF Asking
      <3>7. Rising(Ready, meter.energy, Tail(answers), cur, reported')
        BY <1>1, <2>3, <2>4, <3>1, <3>6, RisingRead DEF cur
      <3> QED
        BY <2>1, <2>4, <3>5, <3>7
    <2>5. CASE answers' = answers /\ ReadEnergy(Failed)
      <3>1. IsError(Failed)
        BY DEF IsError, Failed, Num
      <3>2. last_e' = last_e
        BY <2>1, <2>5, <3>1, EnergyRead
      <3>3. reported' = reported
        <4>1. CASE pc = "start"
          BY <2>1, <2>5, <4>1, EnergyRead
        <4>2. CASE pc = "stop"
          <5>1. reported' = reported + (IF Num(0).kind = "num" THEN Num(0).v
                                                               ELSE 0)
            BY <2>1, <2>5, <3>1, <4>2, EnergyRead
          <5> QED
            BY <5>1 DEF Num, YokoTyped
        <4> QED
          BY <2>1, <4>1, <4>2 DEF Asking
      <3> QED
        BY <2>1, <2>3, <2>5, <3>2, <3>3
    <2> QED
      BY <1>5, <2>4, <2>5, Reads
  <1> QED
    BY <1>2, <1>3, <1>4, <1>5 DEF YokoNext, Connect, Meter, Quiet

\* Faults are only ever added: what has none now had none before.
LEMMA FaultsCount ==
  ASSUME YokoTyped, [YokoNext]_yokoVars, faults' = 0
  PROVE  faults = 0
  <1>1. faults \in Nat
    BY DEF YokoTyped
  <1>2. faults' \in {faults, faults + 1}
    <2>1. CASE SetUp \/ Start \/ Stop
      BY <2>1, Sent DEF SetUp, Start, Stop
    <2>2. CASE ReadAnswer \/ ReadFails
      BY <2>2, Reads, Zenon
    <2>3. CASE Quiet \/ Meter \/ Consume \/ UNCHANGED yokoVars
      BY <2>3
         DEF Quiet, BeginConnect, OpenPath, OpenPathFails, Configure,
             ConnectFails, Drain, StartNoContext, StopNoContext, Disconnect,
             Meter, MeterStep, MeterUpdate, Consume, yokoVars
    <2> QED
      BY <2>1, <2>2, <2>3 DEF YokoNext, Connect, Quiet
  <1> QED
    BY <1>1, <1>2

\* Calls that put nothing on the line leave the queue as it is.
LEMMA FaultlessQuiet ==
  ASSUME YokoTyped, LineInv, FaultlessInv, faults = 0, Quiet
  PROVE  /\ \E k \in 0 .. sent' : QueueInv(k)'
         /\ ReadInv' /\ OwnEnergy'
  <1>1. /\ UNCHANGED << line, answers, meter, sent, last_e, span, faults >>
        /\ pc' \notin Asking /\ pc \notin Asking
        /\ ctx => pc # "drain" /\ ctx'
        /\ ctx' => ctx \/ (pc = "drain" /\ pc' = "idle" /\ measures' = 0)
        /\ pc' # "drain" /\ ~(ctx /\ pc' = "measuring")
        /\ ctx => UNCHANGED << e, measures >> /\ pc = "idle" /\ pc' = "over"
    BY QuietSteps DEF lineVars
  <1>2. PICK k \in 0 .. sent : QueueInv(k)
    BY DEF FaultlessInv
  <1>3. ~(ctx' /\ pc' \in {"measuring", "stop"})
    BY <1>1 DEF Asking
  <1>4. MeterAt(k)' /\ k \in 0 .. sent'
    BY <1>1, <1>2 DEF QueueInv, MeterAt
  <1>5. answers = << >>
    BY <1>1, <1>2 DEF QueueInv
  <1>6. QueueInv(k)'
    BY <1>1, <1>2, <1>3, <1>4, <1>5 DEF QueueInv
  <1>7. ReadInv'
    BY <1>1, <1>3, <1>5 DEF ReadInv, Asking
  <1>8. OwnEnergy'
    BY <1>1 DEF OwnEnergy
  <1> QED
    BY <1>4, <1>6, <1>7, <1>8

\* A command of the set-up goes to the end of the line.
LEMMA FaultlessSetUp ==
  ASSUME YokoTyped, LineInv, FaultlessInv, faults = 0, faults' = 0, SetUp
  PROVE  /\ \E k \in 0 .. sent' : QueueInv(k)'
         /\ ReadInv' /\ OwnEnergy'
  <1> DEFINE cmd == SetupCommands[sent + 1]
  <1>1. /\ pc = "setup" /\ sent < 9 /\ sent' = sent + 1
        /\ send_cmd(cmd)
        /\ pc' = IF sent' = 9 THEN "drain" ELSE "setup"
        /\ UNCHANGED << ctx, measures, answers, meter, span, last_e >>
    BY SetupKnown DEF SetUp, ghosts
  <1> HIDE DEF cmd
  <1>2. line' = Append(line, cmd)
    BY <1>1, Sent
  <1>3. PICK k \in 0 .. sent : QueueInv(k)
    BY DEF FaultlessInv
  <1>4. /\ ~ctx /\ answers = << >> /\ Len(line) = sent - k
        /\ \A i \in 1 .. sent - k : line[i] = SetupCommands[k + i]
        /\ MeterAt(k) /\ sent \in Nat /\ k \in Nat /\ k <= sent
    BY <1>1, <1>3 DEF QueueInv, Asking, LineInv, Connecting, Answered, YokoTyped
  <1>5. /\ Len(line') = (sent - k) + 1
        /\ \A i \in 1 .. sent - k : line'[i] = line[i]
        /\ line'[(sent - k) + 1] = cmd
    BY <1>2, <1>4 DEF YokoTyped
  <1>6. sent' - k = (sent - k) + 1 /\ k \in 0 .. sent'
    BY <1>1, <1>4
  <1>7. ASSUME NEW i \in 1 .. sent' - k
        PROVE  line'[i] = SetupCommands[k + i]
    <2>1. CASE i \in 1 .. sent - k
      BY <1>4, <1>5, <2>1
    <2>2. CASE i \notin 1 .. sent - k
      <3>1. i = (sent - k) + 1 /\ k + i = sent + 1
        BY <1>4, <1>6, <2>2
      <3> QED
        BY <1>5, <3>1 DEF cmd
    <2> QED
      BY <2>1, <2>2
  <1>8. MeterAt(k)'
    BY <1>1, <1>4 DEF MeterAt
  <1>9. QueueInv(k)'
    BY <1>1, <1>4, <1>5, <1>6, <1>7, <1>8 DEF QueueInv, Asking
  <1>10. ReadInv' /\ OwnEnergy'
    BY <1>1, <1>4 DEF ReadInv, OwnEnergy
  <1> QED
    BY <1>6, <1>9, <1>10

\* A request is put on the line behind all commands.
LEMMA FaultlessAsk ==
  ASSUME YokoTyped, LineInv, FaultlessInv, faults = 0, faults' = 0,
         Start \/ Stop
  PROVE  /\ \E k \in 0 .. sent' : QueueInv(k)'
         /\ ReadInv' /\ OwnEnergy'
  <1>1. /\ ctx /\ send_cmd("ask")
        /\ UNCHANGED << ctx, sent, last_e, answers, meter >>
        /\ \/ /\ pc = "idle" /\ pc' = "start"
              /\ span' = [span EXCEPT !.from = meter.energy]
           \/ /\ pc = "measuring" /\ pc' = "stop"
              /\ span' = [span EXCEPT !.before = meter.energy]
    BY DEF Start, Stop
  <1>2. line' = Append(line, "ask")
    BY <1>1, Sent
  <1>3. PICK k \in 0 .. sent : QueueInv(k)
    BY DEF FaultlessInv
  <1>4. /\ answers = << >> /\ Len(line) = sent - k /\ sent = 9
        /\ \A i \in 1 .. sent - k : line[i] = SetupCommands[k + i]
        /\ MeterAt(k) /\ sent \in Nat /\ k \in Nat /\ k <= sent
        /\ pc = "measuring" => k = 9
    BY <1>1, <1>3 DEF QueueInv, Asking
  <1>5. /\ Len(line') = (sent - k) + 1
        /\ \A i \in 1 .. sent - k : line'[i] = line[i]
        /\ line'[(sent - k) + 1] = "ask"
    BY <1>2, <1>4 DEF YokoTyped
  <1>6. MeterAt(k)' /\ k \in 0 .. sent'
    BY <1>1, <1>4 DEF MeterAt
  <1>7. QueueInv(k)'
    BY <1>1, <1>4, <1>5, <1>6 DEF QueueInv, Asking
  <1>8. /\ meter.energy \in Units
        /\ span \in [from : Units, after : Units, before : Units,
                     until : Units, ok : BOOLEAN]
    BY DEF YokoTyped
  <1>9. meter.energy <= meter.energy
    <2>1. meter.energy \in Nat
      BY <1>8, YokoConstants
    <2> QED
      BY <2>1
  <1>10. ReadInv'
    <2>1. CASE pc = "idle" /\ pc' = "start"
      <3>1. span'.from = meter.energy
        BY <1>1, <1>8, <2>1
      <3> QED
        BY <1>1, <1>4, <1>9, <2>1, <3>1 DEF ReadInv
    <2>2. CASE pc = "measuring" /\ pc' = "stop"
      <3>1. /\ span'.before = meter.energy /\ span'.from = span.from
            /\ span'.after = span.after
        BY <1>1, <1>8, <2>2
      <3>2. /\ span.after <= meter.energy
            /\ \E n \in Units :
                 last_e = Num(100 * n) /\ span.from <= n /\ n <= span.after
        BY <1>1, <2>2 DEF FaultlessInv, ReadInv
      <3> QED
        BY <1>1, <1>4, <1>9, <2>2, <3>1, <3>2 DEF ReadInv
    <2> QED
      BY <1>1, <2>1, <2>2
  <1>11. OwnEnergy'
    BY <1>1 DEF OwnEnergy
  <1> QED
    BY <1>6, <1>7, <1>10, <1>11

\* Start and stop read the one answer there is, and it is the one to their
\* own request.
LEMMA FaultlessRead ==
  ASSUME YokoTyped, LineInv, FaultlessInv, faults = 0, faults' = 0,
         ReadAnswer \/ ReadFails
  PROVE  /\ ~cut'
         /\ \E k \in 0 .. sent' : QueueInv(k)'
         /\ ReadInv' /\ OwnEnergy'
  <1> DEFINE cur == Read[Head(answers)]
  <1>1. /\ pc \in Asking /\ line' = line /\ answers # << >>
        /\ answers' = Tail(answers) /\ cut' = cut /\ ReadEnergy(cur)
    BY Reads
  <1>2. UNCHANGED << ctx, sent, measures, meter >>
    BY <1>1, EnergyRead
  <1>3. PICK k \in 0 .. sent : QueueInv(k)
    BY DEF FaultlessInv
  <1>4. /\ ctx /\ sent = 9 /\ k = 9 /\ MeterAt(k)
        /\ Len(answers) <= 1 /\ Len(line) = sent - k + 0
    BY <1>1, <1>3 DEF QueueInv, LineInv
  <1>5. answers' = << >> /\ Head(answers) = answers[1]
    BY <1>1, <1>4 DEF YokoTyped
  <1>6. pc' \in {"measuring", "idle"}
    BY <1>1 DEF ReadEnergy
  <1>7. QueueInv(k)'
    <2>1. MeterAt(k)'
      BY <1>2, <1>4 DEF MeterAt
    <2>2. Len(line') = 0 /\ sent' - k = 0
      BY <1>1, <1>2, <1>4
    <2> QED
      BY <1>2, <1>4, <1>5, <1>6, <2>1, <2>2 DEF QueueInv, Asking
  <1>8. PICK n \in Units :
          /\ cur = Num(100 * n) /\ n <= meter.energy
          /\ n >= IF pc = "start" THEN span.from ELSE span.before
    BY <1>1, <1>5 DEF FaultlessInv, ReadInv
  <1> HIDE DEF cur
  <1>9. n \in Nat
    BY YokoConstants
  <1>10. /\ ~IsError(cur) /\ cur.kind = "num" /\ cur.v = 100 * n
    BY <1>8, <1>9 DEF IsError, Num
  <1>11. last_e' = Num(100 * n)
    BY <1>1, <1>8, <1>10, EnergyRead
  <1>12. /\ meter.energy \in Nat /\ span.from \in Nat
         /\ span.after \in Nat /\ span.before \in Nat
    BY YokoConstants DEF YokoTyped
  <1>13. span \in [from : Units, after : Units, before : Units,
                   until : Units, ok : BOOLEAN]
    BY DEF YokoTyped
  <1>14. CASE pc = "start"
    <2>1. pc' = "measuring" /\ span' = [span EXCEPT !.after = meter.energy]
      BY <1>1, <1>14, EnergyRead
    <2>2. span'.after = meter.energy /\ span'.from = span.from
      BY <1>13, <2>1
    <2>3. meter'.energy = meter.energy /\ meter.energy <= meter.energy
      BY <1>2, <1>12
    <2>4. n \in Units /\ span'.from <= n /\ n <= span'.after
      BY <1>8, <1>14, <2>2
    <2>5. ReadInv'
      BY <1>5, <1>11, <2>1, <2>2, <2>3, <2>4 DEF ReadInv
    <2>6. OwnEnergy'
      BY <2>1 DEF OwnEnergy
    <2> QED
      BY <1>1, <1>2, <1>3, <1>7, <2>5, <2>6 DEF FaultlessInv
  <1>15. CASE pc = "stop"
    <2> DEFINE ok == ~IsError(cur)
    <2>1. /\ pc' = "idle" /\ e' = Minus(cur, last_e)
          /\ span' = [span EXCEPT !.until = meter.energy, !.ok = ok]
      BY <1>1, <1>10, <1>15, EnergyRead
    <2> HIDE DEF ok
    <2>2. /\ span'.until = meter.energy /\ span'.from = span.from
          /\ span'.after = span.after /\ span'.before = span.before
      BY <1>13, <2>1
    <2>3. PICK m \in Units :
            last_e = Num(100 * m) /\ span.from <= m /\ m <= span.after
      BY <1>4, <1>15 DEF FaultlessInv, ReadInv
    <2>4. m \in Nat
      BY YokoConstants
    <2>5. e'.kind = "num" /\ e'.v = 100 * n - 100 * m
      BY <1>8, <2>1, <2>3 DEF Minus, Num
    <2>6. /\ 100 * n - 100 * m >= 100 * (span.before - span.after)
          /\ 100 * n - 100 * m <= 100 * (meter.energy - span.from)
      BY <1>8, <1>9, <1>12, <1>15, <2>3, <2>4
    <2>7. OwnEnergy'
      BY <2>2, <2>5, <2>6 DEF OwnEnergy
    <2>8. ReadInv'
      BY <1>5, <2>1 DEF ReadInv
    <2> QED
      BY <1>1, <1>2, <1>3, <1>7, <2>7, <2>8 DEF FaultlessInv
  <1> QED
    BY <1>1, <1>14, <1>15 DEF Asking

\* The meter treats the next of the commands.
LEMMA NextCommand ==
  ASSUME YokoTyped, MeterStep, NEW k \in 0 .. 8, MeterAt(k),
         Head(line) = SetupCommands[k + 1]
  PROVE  MeterAt(k + 1)'
  <1>1. k \in {0, 1, 2, 3, 4, 5, 6, 7, 8}
    OBVIOUS
  <1>2. meter.updates \in 0 .. 2 /\ meter.armed \in {"no", "armed", "seen"}
    BY DEF YokoTyped
  <1> DEFINE cmd == Head(line)
  <1>3. /\ cmd = "item" => meter'.item
        /\ cmd # "reset" /\ meter.item => meter'.item
        /\ cmd = "start" => meter'.integrating
        /\ cmd # "reset" /\ meter.integrating => meter'.integrating
        /\ cmd # "zero" => meter'.updates = meter.updates
        /\ cmd = "arm" => meter'.armed = "armed"
        /\ cmd = "wait" => meter'.armed = "no" /\ meter.armed = "seen"
        /\ cmd \notin {"arm", "wait"} => meter'.armed = meter.armed
    <2>1. "arm" # "wait"
      OBVIOUS
    <2> QED
      BY <2>1, MeterTreats, Zenon
  <1> HIDE DEF cmd
  <1>4. CASE k = 0
    <2>1. cmd = "reset"
      BY <1>4, SetupKnown DEF cmd
    <2>2. meter'.armed = "no"
      BY <1>2, <1>3, <1>4, <2>1 DEF MeterAt
    <2> QED
      BY <1>4, <2>2 DEF MeterAt
  <1>5. CASE k = 1
    <2>1. cmd = "other"
      BY <1>5, SetupKnown DEF cmd
    <2>2. meter'.armed = "no"
      BY <1>2, <1>3, <1>5, <2>1 DEF MeterAt
    <2> QED
      BY <1>5, <2>2 DEF MeterAt
  <1>6. CASE k = 2
    <2>1. cmd = "item"
      BY <1>6, SetupKnown DEF cmd
    <2>2. meter'.item /\ meter'.armed = "no"
      BY <1>2, <1>3, <1>6, <2>1 DEF MeterAt
    <2> QED
      BY <1>6, <2>2 DEF MeterAt
  <1>7. CASE k = 3
    <2>1. cmd = "zero"
      BY <1>7, SetupKnown DEF cmd
    <2>2. meter'.item /\ meter'.armed = "no"
      BY <1>2, <1>3, <1>7, <2>1 DEF MeterAt
    <2> QED
      BY <1>7, <2>2 DEF MeterAt
  <1>8. CASE k = 4
    <2>1. cmd = "start"
      BY <1>8, SetupKnown DEF cmd
    <2>2. meter'.item /\ meter'.integrating /\ meter'.armed = "no"
      BY <1>2, <1>3, <1>8, <2>1 DEF MeterAt
    <2> QED
      BY <1>8, <2>2 DEF MeterAt
  <1>9. CASE k = 5
    <2>1. cmd = "arm"
      BY <1>9, SetupKnown DEF cmd
    <2>2. meter'.item /\ meter'.integrating /\ meter'.armed = "armed"
      BY <1>2, <1>3, <1>9, <2>1 DEF MeterAt
    <2> QED
      BY <1>9, <2>2 DEF MeterAt
  <1>10. CASE k = 6
    <2>1. cmd = "wait"
      BY <1>10, SetupKnown DEF cmd
    <2>2. meter'.item /\ meter'.integrating /\ meter'.armed = "no"
          /\ meter'.updates >= 1
      BY <1>2, <1>3, <1>10, <2>1 DEF MeterAt
    <2> QED
      BY <1>10, <2>2 DEF MeterAt
  <1>11. CASE k = 7
    <2>1. cmd = "arm"
      BY <1>11, SetupKnown DEF cmd
    <2>2. meter'.item /\ meter'.integrating /\ meter'.armed = "armed"
          /\ meter'.updates >= 1
      BY <1>2, <1>3, <1>11, <2>1 DEF MeterAt
    <2> QED
      BY <1>11, <2>2 DEF MeterAt
  <1>12. CASE k = 8
    <2>1. cmd = "wait"
      BY <1>12, SetupKnown DEF cmd
    <2>2. meter'.item /\ meter'.integrating /\ meter'.updates = 2
      BY <1>2, <1>3, <1>12, <2>1 DEF MeterAt
    <2> QED
      BY <1>12, <2>2 DEF MeterAt
  <1> QED
    BY <1>1, <1>4, <1>5, <1>6, <1>7, <1>8, <1>9, <1>10, <1>11, <1>12

\* The meter treats a command, or answers the request behind all of them.
LEMMA FaultlessMeterStep ==
  ASSUME YokoTyped, LineInv, FaultlessInv, faults = 0, MeterStep
  PROVE  /\ \E k \in 0 .. sent' : QueueInv(k)'
         /\ ReadInv' /\ OwnEnergy'
  <1>1. /\ UNCHANGED << pc, ctx, sent, measures, faults, last_e, e, span >>
        /\ line # << >> /\ line' = Tail(line)
    BY DEF MeterStep, probeVars, ghosts
  <1>2. PICK k \in 0 .. sent : QueueInv(k)
    BY DEF FaultlessInv
  <1>3. /\ sent \in 0 .. 9 /\ k \in 0 .. 9 /\ k <= sent
    BY <1>2 DEF YokoTyped
  <1>4. /\ Len(line) \in Nat /\ Len(line) >= 1 /\ Head(line) = line[1]
        /\ Len(line') = Len(line) - 1
        /\ \A i \in 1 .. Len(line') : line'[i] = line[i + 1]
    BY <1>1 DEF YokoTyped
  <1>5. OwnEnergy'
    BY <1>1 DEF OwnEnergy, FaultlessInv
  <1>6. meter'.energy = meter.energy
    BY MeterTreats
  <1> DEFINE asked == IF pc \in Asking /\ answers = << >> THEN 1 ELSE 0
  <1>7. /\ Len(line) = sent - k + asked
        /\ \A i \in 1 .. sent - k : line[i] = SetupCommands[k + i]
        /\ asked = 1 => line[Len(line)] = "ask"
        /\ MeterAt(k)
        /\ pc = "drain" \/ ctx => sent = 9
        /\ pc \in Asking => Len(answers) <= 1
        /\ pc \notin Asking => answers = << >>
        /\ answers # << >> \/ (ctx /\ pc \in {"measuring", "stop"}) => k = 9
    BY <1>2 DEF QueueInv
  <1>8. asked \in {0, 1}
    OBVIOUS
  <1>9. CASE k < sent
    <2>1. 1 \in 1 .. sent - k /\ k + 1 \in 0 .. sent /\ k \in 0 .. 8
          /\ k + 1 \in 1 .. 9
      BY <1>3, <1>9
    <2>2. Head(line) = SetupCommands[k + 1]
      BY <1>4, <1>7, <2>1
    <2>3. answers' = answers
      BY <2>1, <2>2, SetupAsksNothing DEF MeterStep
    <2>4. MeterAt(k + 1)'
      BY <1>7, <2>1, <2>2, NextCommand
    <2>5. k # 9
      BY <2>1
    <2>6. answers = << >> /\ ~(ctx /\ pc \in {"measuring", "stop"})
      BY <1>7, <2>5
    <2> HIDE DEF asked
    <2>7. sent - (k + 1) = (sent - k) - 1 /\ Len(line') = sent - (k + 1) + asked
      BY <1>3, <1>4, <1>7, <1>8
    <2>8. ASSUME NEW i \in 1 .. sent - (k + 1)
          PROVE  line'[i] = SetupCommands[(k + 1) + i]
      <3>1. /\ i \in 1 .. Len(line') /\ i + 1 \in 1 .. sent - k
            /\ k + (i + 1) = (k + 1) + i
        BY <1>3, <1>8, <2>7
      <3>2. line'[i] = SetupCommands[k + (i + 1)]
        BY <1>4, <1>7, <3>1
      <3> QED
        BY <3>1, <3>2
    <2>9. asked = 1 => line'[Len(line')] = "ask"
      <3>1. asked = 1 => /\ Len(line') \in 1 .. Len(line')
                         /\ Len(line') + 1 = Len(line)
        BY <1>3, <1>4, <1>7, <2>1, <2>7
      <3> QED
        BY <1>4, <1>7, <3>1
    <2>10. QueueInv(k + 1)'
      BY <1>1, <1>7, <2>3, <2>4, <2>6, <2>7, <2>8, <2>9 DEF QueueInv, asked
    <2>11. ReadInv'
      BY <1>1, <1>6, <2>3 DEF FaultlessInv, ReadInv
    <2> QED
      BY <1>1, <1>5, <2>1, <2>10, <2>11
  <1>10. CASE k = sent
    <2>1. asked = 1 /\ Len(line) = 1
      BY <1>3, <1>4, <1>7, <1>8, <1>10
    <2>2. pc \in Asking /\ answers = << >> /\ Head(line) = "ask"
      <3>1. pc \in Asking /\ answers = << >>
        BY <2>1
      <3>2. line[Len(line)] = "ask"
        BY <1>7, <2>1, Zenon
      <3> QED
        BY <1>4, <2>1, <3>1, <3>2
    <2>3. ctx /\ sent = 9 /\ k = 9
      BY <1>7, <1>10, <2>2 DEF LineInv
    <2>4. meter.item /\ meter.integrating /\ meter.updates = 2
      BY <1>7, <2>3 DEF MeterAt
    <2>5. PICK text \in Answer : answers' = Append(answers, text)
      BY <2>2 DEF MeterStep
    <2>6. text \in Texts[meter.energy]
      BY <2>4, <2>5 DEF Answer
    <2>7. meter.energy \in Units
      BY DEF YokoTyped
    <2>8. answers' = << text >> /\ Len(answers') = 1 /\ answers'[1] = text
          /\ answers' # << >>
      BY <2>2, <2>5
    <2>9. Read[answers'[1]] = Num(100 * meter.energy)
      BY <2>6, <2>7, <2>8, TextsRead
    <2>10. MeterAt(k)'
      <3>1. "ask" \notin {"reset", "zero"}
        OBVIOUS
      <3>2. /\ meter'.item /\ meter'.integrating /\ meter'.updates = 2
        BY <2>2, <2>4, <3>1, MeterTreats, Zenon
      <3> QED
        BY <2>3, <3>2 DEF MeterAt
    <2>11. Len(line') = 0 /\ sent - k = 0
      BY <1>3, <1>4, <1>10, <2>1
    <2>12. QueueInv(k)'
      BY <1>1, <2>2, <2>3, <2>8, <2>10, <2>11 DEF QueueInv
    <2>13. meter.energy \in Nat /\ span.from \in Nat
           /\ span.before \in Nat
      BY YokoConstants DEF YokoTyped
    <2>14. ReadInv'
      <3>1. /\ pc = "start" => span.from <= meter.energy
            /\ pc = "stop" => span.before <= meter.energy
        BY DEF FaultlessInv, ReadInv
      <3>2. /\ meter.energy <= meter.energy
            /\ meter.energy >= IF pc = "start" THEN span.from ELSE span.before
        <4>1. CASE pc = "start"
          BY <2>13, <3>1, <4>1
        <4>2. CASE pc = "stop"
          BY <2>13, <3>1, <4>2
        <4> QED
          BY <2>2, <4>1, <4>2 DEF Asking
      <3>3. /\ ctx /\ pc \in {"measuring", "stop"} =>
                 /\ span.after <= meter.energy
                 /\ \E n \in Units :
                      /\ last_e = Num(100 * n)
                      /\ span.from <= n /\ n <= span.after
        BY DEF FaultlessInv, ReadInv
      <3>4. \E n \in Units :
              /\ Read[answers'[1]] = Num(100 * n) /\ n <= meter.energy
              /\ n >= IF pc = "start" THEN span.from ELSE span.before
        BY <2>7, <2>9, <3>2
      <3> QED
        BY <1>1, <1>6, <3>1, <3>3, <3>4 DEF ReadInv
    <2> QED
      BY <1>1, <1>2, <1>5, <2>12, <2>14
  <1> QED
    BY <1>3, <1>9, <1>10

\* The values of the meter and what it measures move on.
LEMMA FaultlessMeterMoves ==
  ASSUME YokoTyped, LineInv, FaultlessInv, faults = 0, MeterUpdate \/ Consume
  PROVE  /\ \E k \in 0 .. sent' : QueueInv(k)'
         /\ ReadInv' /\ OwnEnergy'
  <1>1. /\ UNCHANGED << pc, ctx, sent, measures, faults, last_e, e, span,
                        line, answers >>
    BY DEF MeterUpdate, Consume, probeVars, lineVars, ghosts
  <1>2. PICK k \in 0 .. sent : QueueInv(k)
    BY DEF FaultlessInv
  <1>3. MeterAt(k) /\ k \in 0 .. 9
    BY <1>2 DEF QueueInv, YokoTyped
  <1>4. /\ meter.energy \in Nat /\ span.after \in Nat
        /\ span.from \in Nat /\ span.before \in Nat
    BY YokoConstants DEF YokoTyped
  <1>5. meter.updates \in 0 .. 2 /\ meter.armed \in {"no", "armed", "seen"}
    BY DEF YokoTyped
  <1>6. /\ meter'.energy \in {meter.energy, meter.energy + 1}
        /\ meter'.item = meter.item /\ meter'.integrating = meter.integrating
    BY MeterUpdates, Consumes, Zenon
  <1>7. meter.energy <= meter'.energy /\ meter'.energy \in Int
    BY <1>4, <1>6
  <1>8. MeterAt(k)'
    <2>1. CASE Consume
      <3>1. meter'.updates = meter.updates /\ meter'.armed = meter.armed
        BY <2>1, Consumes
      <3> QED
        BY <1>3, <1>6, <3>1 DEF MeterAt
    <2>2. CASE MeterUpdate
      <3>1. /\ meter.integrating /\ meter.updates < 2 =>
                 meter'.updates = meter.updates + 1
            /\ ~(meter.integrating /\ meter.updates < 2) =>
                 meter'.updates = meter.updates
            /\ meter.armed = "armed" => meter'.armed = "seen"
            /\ meter.armed # "armed" => meter'.armed = meter.armed
        BY <2>2, MeterUpdates, Zenon
      <3>2. /\ k >= 3 => meter'.item
            /\ k >= 5 => meter'.integrating
        BY <1>3, <1>6 DEF MeterAt
      <3>3. k < 6 \/ k = 7 => meter'.armed = "no"
        BY <1>3, <3>1 DEF MeterAt
      <3>4. meter.integrating => meter'.updates >= 1
        BY <1>5, <3>1
      <3>5. meter.integrating /\ meter.updates >= 1 => meter'.updates = 2
        BY <1>5, <3>1
      <3>6. k >= 5 => meter.integrating
        BY <1>3 DEF MeterAt
      <3>7. k \in {6, 7, 8, 9} => k >= 5
        BY <1>3
      <3>8. k \in {7, 8} => meter'.updates >= 1
        BY <3>4, <3>6, <3>7
      <3>9. k = 6 => meter'.updates >= 1
        BY <3>4, <3>6, <3>7
      <3>10. k \in {8, 9} => meter.updates >= 1
        BY <1>3 DEF MeterAt
      <3>11. k \in {8, 9} => meter'.updates = 2
        BY <3>5, <3>6, <3>7, <3>10
      <3> QED
        BY <3>2, <3>3, <3>8, <3>9, <3>11 DEF MeterAt
    <2> QED
      BY <2>1, <2>2
  <1>9. QueueInv(k)'
    BY <1>1, <1>2, <1>8 DEF QueueInv
  <1>10. ReadInv'
    <2>1. /\ ctx /\ pc \in {"measuring", "stop"} =>
               /\ span.after <= meter'.energy
               /\ \E n \in Units :
                    last_e = Num(100 * n) /\ span.from <= n /\ n <= span.after
          /\ pc = "start" => span.from <= meter'.energy
          /\ pc = "stop" => span.before <= meter'.energy
      <3>1. /\ ctx /\ pc \in {"measuring", "stop"} =>
                 /\ span.after <= meter.energy
                 /\ \E n \in Units :
                      /\ last_e = Num(100 * n)
                      /\ span.from <= n /\ n <= span.after
            /\ pc = "start" => span.from <= meter.energy
            /\ pc = "stop" => span.before <= meter.energy
        BY DEF FaultlessInv, ReadInv
      <3>2. /\ span.after <= meter.energy => span.after <= meter'.energy
            /\ span.from <= meter.energy => span.from <= meter'.energy
            /\ span.before <= meter.energy => span.before <= meter'.energy
        BY <1>4, <1>7
      <3> QED
        BY ONLY <3>1, <3>2, Zenon
    <2>2. ASSUME answers # << >>
          PROVE  \E n \in Units :
                   /\ Read[answers[1]] = Num(100 * n) /\ n <= meter'.energy
                   /\ n >= IF pc = "start" THEN span.from ELSE span.before
      <3>1. PICK n \in Units :
              /\ Read[answers[1]] = Num(100 * n) /\ n <= meter.energy
              /\ n >= IF pc = "start" THEN span.from ELSE span.before
        BY <2>2 DEF FaultlessInv, ReadInv
      <3>2. n \in Nat
        BY YokoConstants
      <3>3. n <= meter'.energy
        BY <1>4, <1>7, <3>1, <3>2
      <3> QED
        BY <3>1, <3>3
    <2> QED
      BY <1>1, <2>1, <2>2 DEF ReadInv
  <1>11. OwnEnergy'
    BY <1>1 DEF FaultlessInv, OwnEnergy
  <1> QED
    BY <1>1, <1>2, <1>9, <1>10, <1>11

LEMMA FaultlessNext ==
  YokoTyped /\ LineInv /\ FaultlessInv /\ [YokoNext]_yokoVars => FaultlessInv'
  <1> SUFFICES ASSUME YokoTyped, LineInv, FaultlessInv, [YokoNext]_yokoVars,
                      faults' = 0
               PROVE  /\ ~cut'
                      /\ \E k \in 0 .. sent' : QueueInv(k)'
                      /\ ReadInv' /\ OwnEnergy'
    BY DEF FaultlessInv
  <1>1. faults = 0
    BY FaultsCount
  <1>2. ~cut
    BY <1>1 DEF FaultlessInv
  <1>3. CASE Quiet
    BY <1>1, <1>2, <1>3, FaultlessQuiet, QuietSteps
  <1>4. CASE SetUp
    <2>1. ~cut'
      BY <1>2, <1>4 DEF SetUp, ghosts
    <2> QED
      BY <1>1, <1>4, <2>1, FaultlessSetUp
  <1>5. CASE Start \/ Stop
    <2>1. ~cut'
      BY <1>2, <1>5 DEF Start, Stop
    <2> QED
      BY <1>1, <1>5, <2>1, FaultlessAsk
  <1>6. CASE ReadAnswer \/ ReadFails
    BY <1>1, <1>6, FaultlessRead
  <1>7. CASE MeterStep
    <2>1. ~cut'
      BY <1>2, <1>7 DEF MeterStep, ghosts
    <2> QED
      BY <1>1, <1>7, <2>1, FaultlessMeterStep
  <1>8. CASE MeterUpdate \/ Consume
    <2>1. ~cut'
      BY <1>2, <1>8 DEF MeterUpdate, Consume, ghosts
    <2> QED
      BY <1>1, <1>8, <2>1, FaultlessMeterMoves
  <1>9. CASE UNCHANGED yokoVars
    BY <1>1, <1>9
       DEF FaultlessInv, QueueInv, MeterAt, ReadInv, OwnEnergy, yokoVars,
           probeVars, lineVars, ghosts
  <1> QED
    BY <1>3, <1>4, <1>5, <1>6, <1>7, <1>8, <1>9
       DEF YokoNext, Connect, Meter, Quiet

\* The invariant above holds of the probe and its meter.
THEOREM YokoInductive == YokoSpec => []YokoInv
  <1>1. YokoInit => YokoInv
    BY YokoInvInit
  <1>2. YokoInv /\ [YokoNext]_yokoVars => YokoInv'
    BY YokoTypedNext, LineNext, RisingNext, FaultlessNext DEF YokoInv
  <1> QED
    BY <1>1, <1>2, PTL DEF YokoSpec

\* Without a fault a measurement holds what was consumed between the return of
\* start and the call of stop, and nothing from outside both calls: the
\* commands are treated in their order, and the second of the two updates the
\* set-up waits for is what makes the first answer a number.
THEOREM EnergyIsOwn == YokoSpec => []OwnEnergy
  <1>1. YokoInv => OwnEnergy
    BY DEF YokoInv, FaultlessInv, OwnEnergy
  <1> QED
    BY <1>1, YokoInductive, PTL

\* No unit is in two results, whichever requests fail and however late their
\* answers are read.
THEOREM NoUnitTwice == YokoSpec => []NoDoubleCount
  <1>1. YokoInv => NoDoubleCount
    <2> SUFFICES ASSUME YokoInv, ~ctx \/ (meter.item /\ ~cut)
                 PROVE  reported <= 100 * meter.energy
      BY DEF NoDoubleCount
    <2>1. 100 * meter.energy \in Nat /\ reported \in Int
      <3>1. meter.energy \in Nat /\ reported \in Int
        BY YokoConstants DEF YokoInv, YokoTyped
      <3> QED
        BY <3>1
    <2>2. CASE ~ctx
      <3>1. reported = 0
        BY <2>2 DEF YokoInv, LineInv, Answered
      <3> QED
        BY <2>1, <3>1
    <2>3. CASE meter.item /\ ~cut
      <3>1. /\ reported <= last_e.v /\ last_e \in Good
            /\ last_e.v <= 100 * meter.energy
        BY <2>3 DEF YokoInv, RisingInv, Rising
      <3> QED
        BY <2>1, <3>1, GoodValues
    <2> QED
      BY <2>2, <2>3
  <1> QED
    BY <1>1, YokoInductive, PTL
=============================================================================
