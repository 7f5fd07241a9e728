------------------------------ MODULE EnergyMic ------------------------------
(***************************************************************************)
(* The probe libenergymic: start creates a thread that reads the power of  *)
(* a Xeon Phi from a file again and again and keeps its mean; stop cancels *)
(* and joins the thread and multiplies the mean with the time. The thread  *)
(* can only be cancelled in fopen, fscanf, fclose and usleep.              *)
(*                                                                         *)
(* The mean is kept as a sum and the number of samples in it. The power is *)
(* one of Powers, time is counted in ticks. The traces that TRACING adds   *)
(* are left out.                                                           *)
(***************************************************************************)
EXTENDS Integers, FiniteSetsExt

CONSTANTS
  Powers,      \* what is read: 0 too, if the file has no third number
  MaxSamples,  \* bound on the samples of a measurement
  MaxTime,     \* bound on the time
  MaxRuns      \* bound on the measurements

ASSUME MicAssumption ==
  /\ Powers \subseteq Nat /\ Powers # {}
  /\ MaxSamples \in Nat \ {0} /\ MaxTime \in Nat /\ MaxRuns \in Nat

VARIABLES
  mic,           \* what the owner does
  thr,           \* where its thread is
  cancelled,     \* pthread_cancel has been called
  power,         \* the power that readPower returns
  averagePower,  \* the mean: a sum and the number of its samples
  nbIterations,
  clock, startTime,
  energy,        \* the result: the mean and the time
  samples,       \* the samples of this measurement
  runs           \* measurements begun

micVars == << mic, thr, cancelled, power, averagePower, nbIterations, clock,
              startTime, energy, samples, runs >>

MicPCs == {"none", "first_open", "first_read", "first_close", "usleep",
              "open", "read", "close", "ended"}

MicInit ==
  /\ mic = "off" /\ thr = "none" /\ cancelled = FALSE
  /\ power = 0
  /\ averagePower = [sum |-> 0, n |-> 1] /\ nbIterations = 0
  /\ clock = 0 /\ startTime = 0
  /\ energy = [sum |-> 0, n |-> 1, time |-> 0]
  /\ samples = {} /\ runs = 0

-----------------------------------------------------------------------------
(* The owner.                                                              *)

evaluationInit ==
  /\ mic = "off" /\ mic' = "idle"
  /\ UNCHANGED << thr, cancelled, power, averagePower, nbIterations, clock,
                  startTime, energy, samples, runs >>

evaluationStart ==
  /\ mic = "idle" /\ runs < MaxRuns
  /\ mic' = "measuring"
  /\ runs' = runs + 1
  /\ startTime' = clock
  /\ thr' = "first_open" /\ cancelled' = FALSE
  /\ samples' = {}
  /\ UNCHANGED << power, averagePower, nbIterations, clock, energy >>

CreateFails ==
  /\ mic = "idle" /\ mic' = "exit" /\ thr' = "none"
  /\ UNCHANGED << cancelled, power, averagePower, nbIterations, clock,
                  startTime, energy, samples, runs >>

Cancel ==
  /\ mic = "measuring" /\ mic' = "joining"
  /\ cancelled' = TRUE
  /\ UNCHANGED << thr, power, averagePower, nbIterations, clock, startTime,
                  energy, samples, runs >>

Join ==
  /\ mic = "joining" /\ thr = "ended"
  /\ mic' = "idle"
  /\ energy' = [sum |-> averagePower.sum, n |-> averagePower.n,
                time |-> clock - startTime]
  /\ UNCHANGED << thr, cancelled, power, averagePower, nbIterations, clock,
                  startTime, samples, runs >>

evaluationClose ==
  /\ mic = "idle" /\ mic' = "over"
  /\ UNCHANGED << thr, cancelled, power, averagePower, nbIterations, clock,
                  startTime, energy, samples, runs >>

-----------------------------------------------------------------------------
(* The thread: gatherPowerInfo and readPower.                              *)

MicRunning == mic \in {"measuring", "joining"}

OpenPower(from, to) ==
  /\ MicRunning /\ thr = from /\ thr' = to
  /\ UNCHANGED << mic, cancelled, power, averagePower, nbIterations, clock,
                  startTime, energy, samples, runs >>

\* readPower ends lPowerProbe.
OpenPowerFails ==
  /\ MicRunning /\ thr \in {"first_open", "open"}
  /\ mic' = "exit" /\ thr' = "ended"
  /\ UNCHANGED << cancelled, power, averagePower, nbIterations, clock,
                  startTime, energy, samples, runs >>

ReadFile(from, to) ==
  /\ MicRunning /\ thr = from /\ thr' = to
  /\ power' \in Powers
  /\ UNCHANGED << mic, cancelled, averagePower, nbIterations, clock, startTime,
                  energy, samples, runs >>

\* The mean before the loop is that of one sample, with the weight 0.
FirstSampleAdds ==
  /\ MicRunning /\ thr = "first_close" /\ thr' = "usleep"
  /\ averagePower' = [sum |-> averagePower.sum + power, n |-> averagePower.n]
  /\ nbIterations' = 0
  /\ samples' = samples \cup {power}
  /\ UNCHANGED << mic, cancelled, power, clock, startTime, energy,
                  runs >>

FirstSample ==
  /\ MicRunning /\ thr = "first_close" /\ thr' = "usleep"
  /\ averagePower' = [sum |-> power, n |-> 1]
  /\ nbIterations' = 0
  /\ samples' = samples \cup {power}
  /\ UNCHANGED << mic, cancelled, power, clock, startTime, energy,
                  runs >>

Sample ==
  /\ MicRunning /\ thr = "close" /\ thr' = "usleep"
  /\ averagePower' = IF nbIterations = 0 THEN [sum |-> power, n |-> 1]
                     ELSE [sum |-> averagePower.sum + power,
                           n |-> averagePower.n + 1]
  /\ nbIterations' = nbIterations + 1
  /\ samples' = samples \cup {power}
  /\ UNCHANGED << mic, cancelled, power, clock, startTime, energy,
                  runs >>

WakeUp ==
  /\ nbIterations < MaxSamples
  /\ MicRunning /\ thr = "usleep" /\ thr' = "open"
  /\ UNCHANGED << mic, cancelled, power, averagePower, nbIterations, clock,
                  startTime, energy, samples, runs >>

\* Every point is a cancellation point; a file that is open stays open for ever.
ThreadCancelled ==
  /\ MicRunning /\ cancelled /\ thr \in MicPCs \ {"none", "ended"}
  /\ thr' = "ended"
  /\ UNCHANGED << mic, cancelled, power, averagePower, nbIterations, clock,
                  startTime, energy, samples, runs >>

MicTimePasses ==
  /\ MicRunning /\ clock < MaxTime
  /\ clock' = clock + 1
  /\ UNCHANGED << mic, thr, cancelled, power, averagePower, nbIterations,
                  startTime, energy, samples, runs >>

Gather ==
  \/ OpenPower("first_open", "first_read")
  \/ ReadFile("first_read", "first_close")
  \/ FirstSample
  \/ WakeUp \/ OpenPower("open", "read") \/ ReadFile("read", "close") \/ Sample
  \/ ThreadCancelled

MicNext ==
  \/ evaluationInit \/ evaluationStart \/ CreateFails
  \/ Cancel \/ Join \/ evaluationClose
  \/ Gather \/ OpenPowerFails \/ MicTimePasses

MicSpec == MicInit /\ [][MicNext]_micVars

-----------------------------------------------------------------------------
(* Properties.                                                             *)

\* The mean of a measurement lies between the powers its own thread has read,
\* whenever that thread was cancelled, if it has read one at all: nothing of
\* an earlier measurement is left in it. (A thread that is cancelled before
\* its first sample leaves the mean of the measurement before.)
OwnMean ==
  mic = "idle" /\ samples # {} =>
    /\ energy.sum >= energy.n * Min(samples)
    /\ energy.sum <= energy.n * Max(samples)
=============================================================================
