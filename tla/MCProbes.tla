------------------------------ MODULE MCProbes ------------------------------
(***************************************************************************)
(* The probes that keep to themselves, checked in one run: lPowerProbe has *)
(* loaded one of them. Nothing connects two of these probes, so that the   *)
(* behaviours of each show all that it can do. "cycles" is one thread of   *)
(* "timer", whose measurements begin and end as TimerArm has it.           *)
(***************************************************************************)
EXTENDS Yoko, EnergyMsr, PfmCounters, EnergyMic, Clocks, TimerArm, CycleCounter

VARIABLES
  loaded   \* the probe

Init ==
  /\ loaded \in {"yoko", "msr", "pfm", "mic", "clocks", "timer", "cycles"}
  /\ YokoInit /\ MsrInit /\ PfmInit /\ MicInit /\ ClocksInit
  /\ TimerInit /\ CycleInit
  /\ loaded # "clocks" => data = 0    \* the memory of a probe not loaded

Only(probe) ==
  /\ loaded = probe
  /\ UNCHANGED loaded
  /\ probe # "yoko" => UNCHANGED yokoVars
  /\ probe # "msr" => UNCHANGED msrVars
  /\ probe # "pfm" => UNCHANGED pfmVars
  /\ probe # "mic" => UNCHANGED micVars
  /\ probe # "clocks" => UNCHANGED clockVars
  /\ probe # "timer" => UNCHANGED timerVars
  /\ probe # "cycles" => UNCHANGED cycleVars

Next ==
  \/ Only("yoko") /\ YokoNext
  \/ Only("msr") /\ MsrNext
  \/ Only("pfm") /\ PfmNext
  \/ Only("mic") /\ MicNext
  \/ Only("clocks") /\ ClocksNext
  \/ Only("timer") /\ TimerNext
  \/ Only("cycles") /\ CycleNext

vars == << loaded, yokoVars, msrVars, pfmVars, micVars, clockVars, timerVars,
           cycleVars >>

\* With the fairness of YokoFairSpec and of TimerFairSpec.
FairSpec ==
  /\ Init /\ [][Next]_vars
  /\ WF_yokoVars(loaded = "yoko" /\ Connect)
  /\ WF_yokoVars(loaded = "yoko" /\ ReadAnswer)
  /\ WF_yokoVars(loaded = "yoko" /\ MeterStep)
  /\ WF_yokoVars(loaded = "yoko" /\ MeterUpdate)
  /\ WF_timerVars(loaded = "timer" /\ OwnerRuns)
  /\ \A t \in Cores : WF_timerVars(loaded = "timer" /\ Thread(t))
=============================================================================
