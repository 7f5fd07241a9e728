------------------------ MODULE ProbeDataCollector ------------------------
(***************************************************************************)
(* The ProbeDataCollector: its owner (the thread that measures) starts and *)
(* stops all the probes, and a thread of the collector (updateThread)      *)
(* updates the probes that have a period. The two share three flags, a     *)
(* condition variable and the signal SIGALRM.                              *)
(*                                                                         *)
(* The owner makes any number of measurements, may cancel the last one (as *)
(* DaemonRunner::start does), and then destroys the collector and the      *)
(* probes. The probes' data are left out. SIGUSR1, which stop sends to the *)
(* thread, is blocked there for ever and changes nothing; SIGALRM is       *)
(* handled before the thread takes its next step.                          *)
(***************************************************************************)
EXTENDS Integers, SequencesExt

CONSTANT Periods   \* the period of each probe in microseconds, 0: none

ASSUME PeriodsAssumption == Periods \in Seq(Nat)

Tolerance == 5     \* the 5 of updateThread, in microseconds

Probes == DOMAIN Periods
Periodic == {p \in Probes : Periods[p] # 0}
NeedThread == Periodic # {}

\* The greatest common divisor of b and a.
gcd[b \in Nat \ {0}] ==
  [a \in Nat \ {0} |-> IF a % b = 0 THEN b ELSE gcd[a % b][b]]

\* The period of the thread: the greatest common divisor of the periods, in
\* their order. 0: none yet (INT_MAX in the loop).
CommonPeriod(min, period) ==
  IF period = 0 THEN min
  ELSE IF min = 0 THEN period ELSE gcd[period][min]
MinPeriod == FoldLeft(CommonPeriod, 0, Periods)

\* elapsedTime counts microseconds in 64 bits and never wraps. It is only used
\* modulo the periods, and kept modulo their product.
TimesPeriod(n, period) == IF period = 0 THEN n ELSE n * period
Cycle == FoldLeft(TimesPeriod, 1, Periods)

VARIABLES
  owner,       \* what the owner of the collector is doing
  next,        \* the probe that its loop over the probes comes to
  probe,       \* each probe: "idle", "measuring" or "deleted"
  collecting,  \* m_threadCollecting
  running,     \* m_threadRunning
  alarm,       \* SIGALRM is pending for the thread
  thread,      \* where the thread is
  index,       \* its loop variable over the periodic probes
  elapsed      \* elapsedTime

ownerVars == << owner, next, probe, collecting, running >>
threadVars == << thread, index, elapsed >>
vars == << ownerVars, alarm, threadVars >>

Owners == {"off", "starting", "on", "stopping", "cancelling", "ending",
           "destroy", "signal", "kill", "join", "delete", "deleted"}
ThreadPCs == {"none", "setup", "while", "test_1", "cond_wait", "test_2",
              "sleep", "probes", "in_update", "ended"}

Init ==
  /\ owner = "off" /\ next = 1
  /\ probe = [p \in Probes |-> "idle"]
  /\ collecting = FALSE /\ running = TRUE
  /\ alarm = FALSE
  /\ thread = IF NeedThread THEN "setup" ELSE "none"
  /\ index = 1 /\ elapsed = 0

-----------------------------------------------------------------------------
(* The owner: start, stop, cancel and the destructors.                     *)

Begin(from, to) ==
  /\ owner = from
  /\ owner' = to
  /\ UNCHANGED << next, probe, collecting, running, alarm, threadVars >>

BeginStart == Begin("off", "starting")
BeginStop == Begin("on", "stopping")
BeginCancel == Begin("on", "cancelling")
BeginDestroy == Begin("off", "destroy") \/ Begin("ending", "destroy")

\* One pass of the loop over the probes.
Visit(phase, state) ==
  /\ owner = phase
  /\ next \in Probes
  /\ probe' = [probe EXCEPT ![next] = state]
  /\ next' = next + 1
  /\ UNCHANGED << owner, collecting, running, alarm, threadVars >>

StartProbe == Visit("starting", "measuring")
StopProbe == Visit("stopping", "idle") \/ Visit("cancelling", "idle")

AfterLoop(phase) == owner = phase /\ next \notin Probes /\ next' = 1

\* The condition is signalled, but the thread does not wait for it here.
StartDone ==
  /\ AfterLoop("starting")
  /\ owner' = "on"
  /\ collecting' = NeedThread
  /\ UNCHANGED << probe, running, alarm, threadVars >>

StopDone ==
  /\ AfterLoop("stopping")
  /\ owner' = "off"
  /\ collecting' = FALSE
  /\ UNCHANGED << probe, running, alarm, threadVars >>

CancelDone ==
  /\ AfterLoop("cancelling")
  /\ owner' = "ending"
  /\ collecting' = FALSE
  /\ alarm' = NeedThread
  /\ UNCHANGED << probe, running, threadVars >>

Destroy ==
  /\ owner = "destroy"
  /\ running' = (running /\ ~NeedThread)
  /\ owner' = IF NeedThread THEN "signal" ELSE "delete"
  /\ UNCHANGED << next, probe, collecting, alarm, threadVars >>

\* pthread_cond_signal: wakes the thread only if it waits already.
SignalCond ==
  /\ owner = "signal"
  /\ owner' = "kill"
  /\ thread' = IF thread = "cond_wait" THEN "test_2" ELSE thread
  /\ UNCHANGED << next, probe, collecting, running, alarm, index, elapsed >>

KillThread ==
  /\ owner = "kill"
  /\ owner' = "join"
  /\ alarm' = (thread # "ended")
  /\ UNCHANGED << next, probe, collecting, running, threadVars >>

JoinNot ==
  /\ owner = "join"
  /\ owner' = "delete"
  /\ UNCHANGED << next, probe, collecting, running, alarm, threadVars >>

JoinThread ==
  /\ owner = "join"
  /\ thread = "ended"
  /\ owner' = "delete"
  /\ UNCHANGED << next, probe, collecting, running, alarm, threadVars >>

\* Experimentation::~Experimentation, after the collector.
DeleteProbe == Visit("delete", "deleted")

DeleteDone ==
  /\ AfterLoop("delete")
  /\ owner' = "deleted"
  /\ UNCHANGED << probe, collecting, running, alarm, threadVars >>

-----------------------------------------------------------------------------
(* The thread: updateThread.                                               *)

Step(from, to) ==
  /\ thread = from
  /\ alarm => from = "setup"     \* SIGALRM is blocked until it is set up
  /\ thread' = to
  /\ UNCHANGED << ownerVars, alarm >>

\* SIGALRM gets its handler and is unblocked.
Setup == Step("setup", "while") /\ UNCHANGED << index, elapsed >>

WhileAlways ==
  /\ Step("while", "test_1")
  /\ UNCHANGED << index, elapsed >>

While ==
  /\ Step("while", IF running THEN "test_1" ELSE "ended")
  /\ UNCHANGED << index, elapsed >>

\* The wait is entered when the thread has to end, not when it has to pause.
Test1 ==
  /\ Step("test_1", IF running THEN "test_2" ELSE "cond_wait")
  /\ UNCHANGED << index, elapsed >>

\* POSIX lets pthread_cond_wait return without a signal.
SpuriousWakeup == Step("cond_wait", "test_2") /\ UNCHANGED << index, elapsed >>

Test2 ==
  /\ Step("test_2", IF running THEN "sleep" ELSE "ended")
  /\ UNCHANGED << index, elapsed >>

SleptAndForgot ==
  /\ Step("sleep", "probes")
  /\ index' = 1
  /\ UNCHANGED elapsed

\* The thread has slept for MinPeriod.
Slept ==
  /\ Step("sleep", "probes")
  /\ index' = 1
  /\ elapsed' = (elapsed + MinPeriod) % Cycle

\* relativeTime is in ]-5, 5[.
Due(p) ==
  LET relativeTime == (elapsed % Periods[p]) - Periods[p]
  IN  0 - Tolerance < relativeTime /\ relativeTime < Tolerance

NextProbe ==
  /\ index \in Probes
  /\ IF index \in Periodic /\ Due(index)
       THEN Step("probes", "in_update") /\ UNCHANGED index
       ELSE Step("probes", "probes") /\ index' = index + 1
  /\ UNCHANGED elapsed

\* update returns.
Updated ==
  /\ Step("in_update", "probes")
  /\ index' = index + 1
  /\ UNCHANGED elapsed

ProbesDone ==
  /\ index \notin Probes
  /\ Step("probes", "while")
  /\ UNCHANGED << index, elapsed >>

\* The handler does nothing, but nanosleep ends; the wait for the condition
\* does not.
Alarm ==
  /\ alarm
  /\ thread # "setup"
  /\ alarm' = FALSE
  /\ thread' = IF thread = "sleep" THEN "while" ELSE thread
  /\ UNCHANGED << ownerVars, index, elapsed >>

-----------------------------------------------------------------------------
Measure == BeginStart \/ StartProbe \/ StartDone \/ BeginStop \/ StopProbe
             \/ StopDone \/ BeginCancel \/ CancelDone

Destruct == Destroy \/ SignalCond \/ KillThread \/ JoinThread
              \/ DeleteProbe \/ DeleteDone

Thread == Setup \/ While \/ Test1 \/ Test2 \/ Slept \/ NextProbe \/ Updated
            \/ ProbesDone \/ Alarm

Next == Measure \/ BeginDestroy \/ Destruct \/ Thread \/ SpuriousWakeup

Spec == Init /\ [][Next]_vars

\* The thread and the destructors run; a spurious wakeup need not happen.
FairSpec == Spec /\ WF_vars(Thread) /\ WF_vars(Destruct)

-----------------------------------------------------------------------------
(* Properties.                                                             *)

TypeOK ==
  /\ owner \in Owners /\ next \in 1 .. Len(Periods) + 1
  /\ probe \in [Probes -> {"idle", "measuring", "deleted"}]
  /\ collecting \in BOOLEAN /\ running \in BOOLEAN /\ alarm \in BOOLEAN
  /\ thread \in ThreadPCs
  /\ index \in 1 .. Len(Periods) + 1
  /\ elapsed \in 0 .. Cycle

\* The thread is gone before the first probe is deleted: no update of a
\* probe whose library is closed, no use of a destroyed condition.
NoUseAfterDelete ==
  /\ (\E p \in Probes : probe[p] = "deleted") => thread \in {"none", "ended"}
  /\ thread = "in_update" => probe[index] # "deleted"

\* A thread that is not about to wait for the condition is stopped at once
\* or after its sleep: the destructor ends.
DestructorEnds ==
  (owner = "kill" /\ thread \notin {"test_1", "cond_wait"})
    ~> (owner = "deleted")

\* libenergymsr.h: "Called periodically (rate defined by the period
\* property)". Unless the collector is being destroyed, every periodic probe
\* is updated again and again.
UpdatedPeriodically ==
  \A p \in Periodic :
    []<>(~running \/ (thread = "in_update" /\ index = p))

\* "Make the thread unlock": when the destructor has begun, it ends.
DestructorAlwaysEnds == (owner = "destroy") ~> (owner = "deleted")
=============================================================================
