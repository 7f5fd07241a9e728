---------------------------- MODULE KernelRunner ----------------------------
(***************************************************************************)
(* One kernel experiment: main creates NbProcess threads, and every thread *)
(* runs KernelRunner::start: its rounds are NbMetaRepet runs of the dummy  *)
(* kernel (the overhead) and NbMetaRepet runs of the user's kernel, a      *)
(* function called in the thread. The threads meet before and after every  *)
(* kernel; here it is a coordinator, a process thread 0 forks (syncLoop),  *)
(* that gathers them and lets them go. After its last round thread 0 sends *)
(* the coordinator SIGTERM, which may take effect at any later time.       *)
(*                                                                         *)
(* lpp is the lPowerProbe process with all its threads; the coordinator    *)
(* outlives it. The memory the kernels work on and flushCaches, which only *)
(* touches that memory, are left out.                                      *)
(***************************************************************************)
EXTENDS Integers

CONSTANTS NbProcess,     \* threads that run the kernel side by side (-d)
          NbMetaRepet    \* measurements of each of the two kernels (-r)

ASSUME NbProcessAssumption == NbProcess \in Nat \ {0}
ASSUME NbMetaRepetAssumption == NbMetaRepet \in Nat \ {0}

Threads == 0 .. NbProcess - 1
Rounds == 2 * NbMetaRepet

VARIABLES
  lpp,             \* the lPowerProbe process: "running", "saved" or "exited"
  created,         \* threads main has created
  joined,          \* threads main has joined
  pc,              \* where each thread is
  round,           \* the round each thread is in
  sync,            \* where the coordinator is: a loop of syncLoop, or none
  passes,          \* i, the counter of that loop
  sigterm,         \* SIGTERM was sent to the coordinator
  fatherLock,      \* m_fatherLock
  processLock,     \* m_processLock
  processEndLock,  \* m_processEndLock
  results          \* measurements kept, of each of the two kernels

mainVars == << created, joined >>
syncVars == << sync, passes, sigterm >>
locks == << fatherLock, processLock, processEndLock >>
vars == << lpp, mainVars, pc, round, syncVars, locks, results >>

PCs == {"idle", "fork", "arrive", "go", "start", "kernel", "stop", "finish",
        "leave", "kill", "done"}
Syncs == {"none", "gather", "release", "collect", "dismiss", "killed"}

\* The kernel of a round: calculateOverhead in the first half of them.
KernelOf(r) == IF r < NbMetaRepet THEN "overhead" ELSE "exp"

Init ==
  /\ lpp = "running"
  /\ created = 0 /\ joined = 0
  /\ pc = [t \in Threads |-> "idle"]
  /\ round = [t \in Threads |-> 0]
  /\ sync = "none" /\ passes = 0 /\ sigterm = FALSE
  /\ fatherLock = 0 /\ processLock = 0 /\ processEndLock = 0
  /\ results = [overhead |-> 0, exp |-> 0]

At(t, label) == lpp = "running" /\ pc[t] = label
Goto(t, label) == pc' = [pc EXCEPT ![t] = label]

\* exit, or an exception nobody catches: every thread ends, the coordinator
\* and the semaphores remain.
ExitProcess ==
  /\ lpp' = "exited"
  /\ UNCHANGED << mainVars, pc, round, syncVars, locks, results >>

-----------------------------------------------------------------------------
(* The main thread: KernelExperimentation::start.                          *)

CreateThread ==
  /\ lpp = "running"
  /\ created < NbProcess
  /\ created' = created + 1
  /\ Goto(created, IF created = 0 THEN "fork" ELSE "arrive")
  /\ UNCHANGED << lpp, joined, round, syncVars, locks, results >>

\* pthread_create fails: std::runtime_error, which main does not catch.
CreateThreadFails ==
  /\ lpp = "running"
  /\ created < NbProcess
  /\ ExitProcess

JoinThread ==
  /\ lpp = "running"
  /\ created = NbProcess
  /\ joined < NbProcess
  /\ pc[joined] = "done"
  /\ joined' = joined + 1
  /\ UNCHANGED << lpp, created, pc, round, syncVars, locks, results >>

SaveResults ==
  /\ lpp = "running"
  /\ joined = NbProcess
  /\ lpp' = "saved"
  /\ UNCHANGED << mainVars, pc, round, syncVars, locks, results >>

-----------------------------------------------------------------------------
(* The threads: KernelRunner::start and evaluation.                        *)

ForkCoordinator ==
  /\ At(0, "fork")
  /\ sync' = "gather"
  /\ Goto(0, "arrive")
  /\ UNCHANGED << lpp, mainVars, round, passes, sigterm, locks, results >>

ForkFails ==
  /\ At(0, "fork")
  /\ ExitProcess

PostFather(t, label, next) ==
  /\ At(t, label)
  /\ fatherLock' = fatherLock + 1
  /\ Goto(t, next)
  /\ UNCHANGED << lpp, mainVars, round, syncVars, processLock,
                  processEndLock, results >>

\* The thread is ready to call the kernel.
Arrive(t) == PostFather(t, "arrive", "go")

\* Thread 0 starts the probes before it calls the kernel.
Go(t) ==
  /\ At(t, "go")
  /\ processLock > 0
  /\ processLock' = processLock - 1
  /\ Goto(t, IF t = 0 THEN "start" ELSE "kernel")
  /\ UNCHANGED << lpp, mainVars, round, syncVars, fatherLock,
                  processEndLock, results >>

StartProbes ==
  /\ At(0, "start")
  /\ Goto(0, "kernel")
  /\ UNCHANGED << lpp, mainVars, round, syncVars, locks, results >>

\* The kernel returns.
KernelReturns(t) ==
  /\ At(t, "kernel")
  /\ Goto(t, IF t = 0 THEN "stop" ELSE "finish")
  /\ UNCHANGED << lpp, mainVars, round, syncVars, locks, results >>

StopProbes ==
  /\ At(0, "stop")
  /\ results' = [results EXCEPT ![KernelOf(round[0])] = @ + 1]
  /\ Goto(0, "finish")
  /\ UNCHANGED << lpp, mainVars, round, syncVars, locks >>

Finish(t) == PostFather(t, "finish", "leave")

\* The two loops of KernelRunner::start, one after the other.
NextRound(t) ==
  /\ round' = [round EXCEPT ![t] = @ + 1]
  /\ Goto(t, IF round[t] + 1 < Rounds THEN "arrive"
             ELSE IF t = 0 THEN "kill" ELSE "done")

LeaveAtOnce(t) ==
  /\ At(t, "leave")
  /\ NextRound(t)
  /\ UNCHANGED << lpp, mainVars, syncVars, locks, results >>

Leave(t) ==
  /\ At(t, "leave")
  /\ processEndLock > 0
  /\ processEndLock' = processEndLock - 1
  /\ NextRound(t)
  /\ UNCHANGED << lpp, mainVars, syncVars, fatherLock, processLock, results >>

KillCoordinator ==
  /\ At(0, "kill")
  /\ sigterm' = TRUE
  /\ Goto(0, "done")
  /\ UNCHANGED << lpp, mainVars, round, sync, passes, locks, results >>

-----------------------------------------------------------------------------
(* The coordinator: KernelRunner::syncLoop. Each loop makes n passes.      *)

Pass(label, n, next) ==
  /\ sync = label
  /\ passes' = IF passes + 1 = n THEN 0 ELSE passes + 1
  /\ sync' = IF passes + 1 = n THEN next ELSE label
  /\ UNCHANGED << lpp, mainVars, pc, round, sigterm, results >>

WaitFather(label, n, next) ==
  /\ fatherLock > 0
  /\ fatherLock' = fatherLock - 1
  /\ Pass(label, n, next)
  /\ UNCHANGED << processLock, processEndLock >>

GatherOneLess == WaitFather("gather", NbProcess - 1, "release")

Gather == WaitFather("gather", NbProcess, "release")

Release ==
  /\ Pass("release", NbProcess, "collect")
  /\ processLock' = processLock + 1
  /\ UNCHANGED << fatherLock, processEndLock >>

CollectOneLess == WaitFather("collect", NbProcess - 1, "dismiss")

Collect == WaitFather("collect", NbProcess, "dismiss")

DismissOneLess ==
  /\ Pass("dismiss", NbProcess - 1, "gather")
  /\ processEndLock' = processEndLock + 1
  /\ UNCHANGED << fatherLock, processLock >>

Dismiss ==
  /\ Pass("dismiss", NbProcess, "gather")
  /\ processEndLock' = processEndLock + 1
  /\ UNCHANGED << fatherLock, processLock >>

\* SIGTERM takes effect, wherever the coordinator is.
Killed ==
  /\ sigterm
  /\ sync # "killed"
  /\ sync' = "killed"
  /\ UNCHANGED << lpp, mainVars, pc, round, passes, sigterm, locks, results >>

-----------------------------------------------------------------------------
Main == CreateThread \/ CreateThreadFails \/ JoinThread \/ SaveResults

ThreadZero ==
  ForkCoordinator \/ ForkFails \/ StartProbes \/ StopProbes
    \/ KillCoordinator

Thread(t) ==
  Arrive(t) \/ Go(t) \/ KernelReturns(t) \/ Finish(t) \/ Leave(t)

Coordinator == Gather \/ Release \/ Collect \/ Dismiss

Next ==
  \/ Main
  \/ ThreadZero
  \/ \E t \in Threads : Thread(t)
  \/ Coordinator
  \/ Killed

Spec == Init /\ [][Next]_vars

\* Everything that can run is run, kernels return, signals are delivered.
Fairness ==
  /\ WF_vars(Main)
  /\ WF_vars(ThreadZero)
  /\ \A t \in Threads : WF_vars(Thread(t))
  /\ WF_vars(Coordinator)
  /\ WF_vars(Killed)

FairSpec == Spec /\ Fairness

-----------------------------------------------------------------------------
(* Properties.                                                             *)

TypeOK ==
  /\ lpp \in {"running", "saved", "exited"}
  /\ created \in 0 .. NbProcess /\ joined \in 0 .. created
  /\ pc \in [Threads -> PCs]
  /\ round \in [Threads -> 0 .. Rounds]
  /\ sync \in Syncs
  /\ passes \in 0 .. NbProcess - 1
  /\ sigterm \in BOOLEAN
  /\ fatherLock \in Nat /\ processLock \in Nat /\ processEndLock \in Nat
  /\ results \in [{"overhead", "exp"} -> 0 .. NbMetaRepet]

\* In its round, the thread has not arrived; has been let go; has finished.
Coming(t) == pc[t] \in {"idle", "fork", "arrive"}
Gone(t) == pc[t] \in {"start", "kernel", "stop", "finish", "leave"}
Finished(t) == pc[t] = "leave"

\* Kernels start together: a thread is past the start of its round only when
\* every other thread has arrived at it too, or is a round ahead.
StartTogether ==
  \A t, u \in Threads :
    Gone(t) => \/ round[u] > round[t]
               \/ round[u] = round[t] /\ ~Coming(u)

\* A thread leaves a round only when the kernels of all the threads have
\* returned, and those of a round ahead have left it the same way.
RoundBarrier ==
  [][\A t, u \in Threads :
       round'[t] # round[t] =>
         \/ round[u] > round[t]
         \/ round[u] = round[t] /\ Finished(u)]_vars

\* The coordinator is told to end only when no kernel has still to run: no
\* measurement is lost, whatever happens to the threads afterwards.
KilledAfterLastKernel ==
  sigterm =>
    /\ \A t \in Threads :
         round[t] = Rounds \/ (round[t] = Rounds - 1 /\ Finished(t))
    /\ results = [overhead |-> NbMetaRepet, exp |-> NbMetaRepet]

\* The semaphores hold no token that the next round could take for its own:
\* when the coordinator gathers, all it can have handed out is the way out
\* of the round before.
NoStaleToken ==
  sync \in {"gather", "collect"} =>
    /\ sync = "gather" => processLock = 0
    /\ sync = "collect" => processEndLock = 0
    /\ fatherLock + passes <= NbProcess

\* Every measurement is made: thread 0 comes to the end of its last round,
\* unless lPowerProbe gives up.
AllMeasured ==
  <>(\/ lpp = "exited"
     \/ results = [overhead |-> NbMetaRepet, exp |-> NbMetaRepet])

\* "Wait for all the child to finish", then save: the experiment ends.
Terminates == <>(lpp # "running")
=============================================================================
