------------------------------ MODULE TimerArm ------------------------------
(***************************************************************************)
(* The probe libtimerarm, which counts the cycles of every core: its owner   *)
(* (the thread that calls init, start, stop and fini) and one thread per     *)
(* core (measureThread) meet at a barrier at the begin and at the end of     *)
(* every measurement. The barrier is made of a mutex, a condition and a      *)
(* counter (barrier.c).                                                      *)
(*                                                                           *)
(* In a measurement a thread sleeps and then adds the cycles it has          *)
(* counted, until it is told to stop; SIGUSR2 only shortens that sleep.      *)
(* The number of cycles is abstracted to the fact that some were added; how  *)
(* they are counted is in CycleCounter.                                      *)
(* fini frees the memory of the threads, which run on: what they do with     *)
(* it is not modelled.                                                       *)
(***************************************************************************)
EXTENDS Integers

CONSTANT NbCores

ASSUME NbCoresAssumption == NbCores \in Nat \ {0}

Cores == 0 .. NbCores - 1
Owner == NbCores
Parties == Cores \cup {Owner}

NbToWaitOneLess == NbCores

NbToWait == NbCores + 1

VARIABLES
  at,       \* where each thread and the owner are
  created,  \* threads init has created
  count,    \* the counter of the barrier
  stopper,  \* threadMeasureStopper
  counted,  \* cores whose thread has added cycles to this measurement
  result,   \* ... when stop copied them
  early     \* a wait for the condition has returned without its broadcast

timerVars == << at, created, count, stopper, counted, result, early >>

\* The points before barrier_wait, and those after it.
Passed ==
  [begin |-> "measure", end |-> "begin", start |-> "on", stop |-> "read"]
Calls == DOMAIN Passed

\* The points in pthread_cond_wait.
CallOf == [begin_wait |-> "begin", end_wait |-> "end",
           start_wait |-> "start", stop_wait |-> "stop"]
Waits == DOMAIN CallOf
WaitIn(call) == CHOOSE w \in Waits : CallOf[w] = call

ThreadPCs == {"none", "setup", "begin", "begin_wait", "measure", "sleep",
              "end", "end_wait"}
OwnerPCs == {"alloc", "barrier", "init", "off", "start", "start_wait", "on",
             "kill", "stop", "stop_wait", "read", "freed"}

TimerInit ==
  /\ at = [p \in Parties |-> IF p = Owner THEN "alloc" ELSE "none"]
  /\ created = 0
  /\ count = 0
  /\ stopper = FALSE
  /\ counted = {} /\ result = {}
  /\ early = FALSE

Step(p, from, to) ==
  /\ at[Owner] # "freed"
  /\ at[p] = from
  /\ at' = [at EXCEPT ![p] = to]

-----------------------------------------------------------------------------
(* barrier.c. The mutex makes the part before the wait one step; a party     *)
(* that is woken has only to unlock it.                                      *)

\* The last one wakes all those who wait.
Broadcast(p) ==
  at' = [q \in Parties |-> IF q = p THEN Passed[at[p]]
                           ELSE IF at[q] \in Waits THEN Passed[CallOf[at[q]]]
                           ELSE at[q]]

BarrierWait(p) ==
  /\ at[Owner] # "freed"
  /\ at[p] \in Calls
  /\ IF count + 1 = NbToWait
       THEN count' = 0 /\ Broadcast(p)
       ELSE count' = count + 1 /\ at' = [at EXCEPT ![p] = WaitIn(at[p])]
  /\ UNCHANGED << created, stopper, counted, result, early >>

\* POSIX lets pthread_cond_wait return at any time; nothing waits again.
SpuriousWakeup(p) ==
  /\ at[p] \in Waits
  /\ Step(p, at[p], Passed[CallOf[at[p]]])
  /\ early' = TRUE
  /\ UNCHANGED << created, count, stopper, counted, result >>

-----------------------------------------------------------------------------
(* The owner: timer.c.                                                       *)

\* initData and barrier_create come first, and init returns NULL if one fails.
initData ==
  /\ \E ok \in BOOLEAN : Step(Owner, "alloc", IF ok THEN "barrier" ELSE "freed")
  /\ UNCHANGED << created, count, stopper, counted, result, early >>

barrier_create ==
  /\ \E ok \in BOOLEAN : Step(Owner, "barrier", IF ok THEN "init" ELSE "freed")
  /\ count' = 0
  /\ UNCHANGED << created, stopper, counted, result, early >>

CreateThread ==
  /\ at[Owner] = "init"
  /\ created < NbCores
  /\ created' = created + 1
  /\ at' = [at EXCEPT ![created] = "setup"]
  /\ UNCHANGED << count, stopper, counted, result, early >>

\* pthread_create fails: init frees everything, as fini does.
CreateThreadFails ==
  /\ created < NbCores
  /\ Step(Owner, "init", "freed")
  /\ UNCHANGED << created, count, stopper, counted, result, early >>

InitDone ==
  /\ created = NbCores
  /\ Step(Owner, "init", "off")
  /\ UNCHANGED << created, count, stopper, counted, result, early >>

BeginStart ==
  /\ Step(Owner, "off", "start")
  /\ counted' = {}
  /\ stopper' = FALSE
  /\ UNCHANGED << created, count, result, early >>

BeginStopNot ==
  /\ Step(Owner, "on", "kill")
  /\ UNCHANGED << created, count, stopper, counted, result, early >>

BeginStop ==
  /\ Step(Owner, "on", "kill")
  /\ stopper' = TRUE
  /\ UNCHANGED << created, count, counted, result, early >>

WakeUpAndRead ==
  /\ Step(Owner, "kill", "read")
  /\ UNCHANGED << created, count, stopper, counted, result, early >>

WakeUpThreads ==
  /\ Step(Owner, "kill", "stop")
  /\ UNCHANGED << created, count, stopper, counted, result, early >>

ReadCycles ==
  /\ Step(Owner, "read", "off")
  /\ result' = counted
  /\ UNCHANGED << created, count, stopper, counted, early >>

\* barrier_destroy and cleanup.
Fini ==
  /\ Step(Owner, "off", "freed")
  /\ stopper' = TRUE
  /\ UNCHANGED << created, count, counted, result, early >>

-----------------------------------------------------------------------------
(* A thread: threadFct.c.                                                    *)

Setup(t) ==
  /\ Step(t, "setup", "begin")
  /\ UNCHANGED << created, count, stopper, counted, result, early >>

\* The test of threadMeasureStopper.
Measure(t) ==
  /\ Step(t, "measure", IF stopper THEN "end" ELSE "sleep")
  /\ UNCHANGED << created, count, stopper, counted, result, early >>

\* The sleep is over, by SIGUSR2 or after a second.
AddCycles(t) ==
  /\ Step(t, "sleep", "measure")
  /\ counted' = counted \cup {t}
  /\ UNCHANGED << created, count, stopper, result, early >>

-----------------------------------------------------------------------------
OwnerRuns ==
  \/ initData \/ barrier_create
  \/ CreateThread \/ CreateThreadFails \/ InitDone
  \/ WakeUpThreads \/ ReadCycles \/ BarrierWait(Owner)

Thread(t) == Setup(t) \/ BarrierWait(t) \/ Measure(t) \/ AddCycles(t)

TimerNext ==
  \/ OwnerRuns
  \/ BeginStart \/ BeginStop \/ Fini
  \/ \E t \in Cores : Thread(t)
  \/ \E p \in Parties : SpuriousWakeup(p)

TimerSpec == TimerInit /\ [][TimerNext]_timerVars

\* The threads run and a call that has begun goes on; when lPowerProbe calls
\* the probe is its own affair, and a spurious wakeup need not happen.
TimerFairSpec ==
  /\ TimerSpec
  /\ WF_timerVars(OwnerRuns)
  /\ \A t \in Cores : WF_timerVars(Thread(t))

-----------------------------------------------------------------------------
(* Properties.                                                               *)

TimerTypeOK ==
  /\ at \in [Parties -> ThreadPCs \cup OwnerPCs]
  /\ \A t \in Cores : at[t] \in ThreadPCs
  /\ at[Owner] \in OwnerPCs
  /\ created \in 0 .. NbCores
  /\ count \in 0 .. NbCores
  /\ stopper \in BOOLEAN /\ early \in BOOLEAN
  /\ counted \subseteq Cores /\ result \subseteq Cores

\* Between the two barriers of a measurement.
Inside(p) ==
  at[p] \in {"measure", "sleep", "end", "end_wait",
             "on", "kill", "stop", "stop_wait"}

InStepAlways == \A p, q \in Parties : Inside(p) <=> Inside(q)

\* "Simulation of pthread_barrier_t": all the threads and the owner enter and
\* leave a measurement together, as long as no wait has ended too early. The
\* counter is reused at once by those who run ahead to the next barrier.
InStep == early \/ InStepAlways

\* No thread adds cycles to a measurement that stop has read, or that start
\* is about to clear.
ResultIsOwn ==
  at[Owner] = "off" /\ ~early => result = counted

\* start and stop return: every thread comes to both barriers, wherever it is
\* when it is told to stop.
CallsReturn ==
  /\ (at[Owner] = "start") ~> (at[Owner] = "on" \/ early)
  /\ (at[Owner] = "kill") ~> (at[Owner] = "off" \/ early)
=============================================================================
