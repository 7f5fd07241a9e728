---------------------------- MODULE CycleCounter ----------------------------
(***************************************************************************)
(* What one thread of libtimerarm counts in its measurements: the cycle    *)
(* counter of its core (external) has PmcWrap values, 2^32 in the code,    *)
(* and sets a flag when it wraps. The thread reads it once a second, or    *)
(* when SIGUSR2 has ended its sleep. How the threads and the owner meet    *)
(* around this is in TimerArm.                                             *)
(*                                                                         *)
(* hasOverflow and resetOverflow are one step: between them the counter    *)
(* cannot count another PmcWrap cycles.                                    *)
(***************************************************************************)
EXTENDS Integers

CONSTANTS
  PmcWrap,     \* values of the counter
  MaxCycles    \* bound on the cycles that pass

ASSUME CycleAssumption == PmcWrap \in Nat \ {0} /\ MaxCycles \in Nat

UINT_MAX == PmcWrap - 1

VARIABLES
  core,      \* where the thread is
  running,   \* the counter has been enabled
  pmc,       \* the counter
  overflow,  \* its flag
  cycles,    \* TData
  passed,    \* cycles since the counter was enabled
  elapsed,   \* cycles of this measurement
  missed,    \* ... those between a read and the reset that follows it
  wraps,     \* ... and its wraps that have been added
  unsure     \* the flag cannot tell how often the counter has wrapped

cycleVars == << core, running, pmc, overflow, cycles, passed, elapsed, missed,
                wraps, unsure >>

CycleInit ==
  /\ core = "off" /\ running = FALSE /\ pmc = 0 /\ overflow = FALSE
  /\ cycles = 0
  /\ passed = 0 /\ elapsed = 0 /\ missed = 0 /\ wraps = 0 /\ unsure = FALSE

\* The owner's start clears cycles; behind the barrier the thread resets the
\* counter. The flag stays as the time between the measurements has left it.
BeginCycles ==
  /\ core = "off" /\ core' = "test"
  /\ cycles' = 0
  /\ running' = TRUE /\ pmc' = 0
  /\ elapsed' = 0 /\ missed' = 0 /\ wraps' = 0
  /\ unsure' = overflow
  /\ UNCHANGED << overflow, passed >>

\* The loop on threadMeasureStopper.
TestStopper(stopped) ==
  /\ core = "test"
  /\ core' = IF stopped THEN "off" ELSE "slept"
  /\ UNCHANGED << running, pmc, overflow, cycles, passed, elapsed, missed,
                  wraps, unsure >>

\* Without resetOverflow.
OverflowStays ==
  /\ core = "slept" /\ core' = "add"
  /\ cycles' = IF overflow THEN cycles + UINT_MAX ELSE cycles
  /\ wraps' = IF overflow THEN wraps + 1 ELSE wraps
  /\ UNCHANGED << running, pmc, overflow, passed, elapsed, missed, unsure >>

hasOverflow ==
  /\ core = "slept" /\ core' = "add"
  /\ cycles' = IF overflow THEN cycles + UINT_MAX ELSE cycles
  /\ wraps' = IF overflow THEN wraps + 1 ELSE wraps
  /\ overflow' = FALSE
  /\ UNCHANGED << running, pmc, passed, elapsed, missed, unsure >>

getNbCycles ==
  /\ core = "add" /\ core' = "reset"
  /\ cycles' = cycles + pmc
  /\ UNCHANGED << running, pmc, overflow, passed, elapsed, missed, wraps,
                  unsure >>

resetCycleCounter ==
  /\ core = "reset" /\ core' = "test"
  /\ pmc' = 0
  /\ UNCHANGED << running, overflow, cycles, passed, elapsed, missed, wraps,
                  unsure >>

\* A cycle of the core. A wrap is known by the flag unless the flag is set
\* already, or the cycles before the wrap have been added and are missed now.
Cycle ==
  /\ running /\ passed < MaxCycles
  /\ passed' = passed + 1
  /\ pmc' = (pmc + 1) % PmcWrap
  /\ overflow' = (overflow \/ pmc' = 0)
  /\ elapsed' = IF core = "off" THEN elapsed ELSE elapsed + 1
  /\ missed' = IF core = "reset" THEN missed + 1 ELSE missed
  /\ unsure' = (unsure \/ (pmc' = 0 /\ (overflow \/ core = "reset")))
  /\ UNCHANGED << core, running, cycles, wraps >>

CycleNext ==
  \/ BeginCycles \/ hasOverflow \/ getNbCycles \/ resetCycleCounter \/ Cycle
  \/ \E stopped \in BOOLEAN : TestStopper(stopped)

CycleSpec == CycleInit /\ [][CycleNext]_cycleVars

-----------------------------------------------------------------------------
(* Properties.                                                             *)

\* At every turn of the loop the cycles of the measurement are those added,
\* those the counter still holds, those between a read and its reset, and one
\* for every wrap (UINT_MAX is added for UINT_MAX + 1 cycles), wherever the
\* wraps fall. It takes a flag that was clear at the begin.
CyclesAccounted ==
  core \in {"test", "slept"} /\ ~unsure =>
    elapsed = cycles + wraps + missed + pmc + (IF overflow THEN PmcWrap ELSE 0)
=============================================================================
