--------------------------- MODULE ProgramRunner ---------------------------
(***************************************************************************)
(* One program experiment: main creates NbProcess threads, and every       *)
(* thread runs ProgramRunner::start. In each of its rounds a thread forks  *)
(* a child that waits for the common start and executes the measured       *)
(* program; thread 0 also starts and stops the probes. The rounds are the  *)
(* NbMetaRepet measurements of the empty program (the probes' overhead)    *)
(* and then the NbMetaRepet measurements of the user's program.            *)
(* Threads and children meet at three process-shared semaphores.           *)
(*                                                                         *)
(* lpp is the lPowerProbe process with all its threads. Its end is one     *)
(* step (exit kills the other threads); the children outlive it. The       *)
(* probes are abstracted to "measuring", the results to their number.      *)
(***************************************************************************)
EXTENDS Integers, FiniteSets

CONSTANTS NbProcess,     \* copies of the program run side by side (-d)
          NbMetaRepet    \* measurements of each of the two programs (-r)

ASSUME NbProcessAssumption == NbProcess \in Nat \ {0}
ASSUME NbMetaRepetAssumption == NbMetaRepet \in Nat \ {0}

Threads == 0 .. NbProcess - 1
Rounds == 2 * NbMetaRepet

VARIABLES
  lpp,             \* the lPowerProbe process: "running", "saved" or "exited"
  created,         \* threads main has created
  joined,          \* threads main has joined
  pc,              \* where each thread is
  round,           \* the round each thread is in
  count,           \* i, the counter of the loop thread 0 is in
  child,           \* the child each thread forked in its round
  fatherLock,      \* m_fatherLock
  processLock,     \* m_processLock
  processEndLock,  \* m_processEndLock
  measuring,       \* the probes are started
  results          \* measurements kept, of each of the two programs

mainVars == << created, joined >>
locks == << fatherLock, processLock, processEndLock >>
probeVars == << measuring, results >>
vars == << lpp, mainVars, pc, round, count, child, locks, probeVars >>

PCs == {"idle", "start", "fork", "gather", "release", "wait", "post",
        "leave", "collect", "dismiss", "stop", "done"}
Childs == {"none", "forked", "ready", "running", "exited", "signaled"}

Programs == {"overhead", "exp"}

\* The program of a round: calculateOverhead in the first half of them.
Program(r) == IF r < NbMetaRepet THEN "overhead" ELSE "exp"

\* Where evaluation starts: thread 0 first starts the probes.
Entry(t) == IF t = 0 THEN "start" ELSE "fork"

Init ==
  /\ lpp = "running"
  /\ created = 0 /\ joined = 0
  /\ pc = [t \in Threads |-> "idle"]
  /\ round = [t \in Threads |-> 0]
  /\ count = 0
  /\ child = [t \in Threads |-> "none"]
  /\ fatherLock = 0 /\ processLock = 0 /\ processEndLock = 0
  /\ measuring = FALSE
  /\ results = [p \in Programs |-> 0]

At(t, label) == lpp = "running" /\ pc[t] = label
Goto(t, label) == pc' = [pc EXCEPT ![t] = label]

\* exit, or an exception nobody catches: every thread ends, the children,
\* the semaphores and what they hold remain.
ExitProcess ==
  /\ lpp' = "exited"
  /\ UNCHANGED << mainVars, pc, round, count, child, locks, probeVars >>

-----------------------------------------------------------------------------
(* The main thread: ProgramExperimentation::start.                         *)

CreateThread ==
  /\ lpp = "running"
  /\ created < NbProcess
  /\ created' = created + 1
  /\ Goto(created, Entry(created))
  /\ UNCHANGED << lpp, joined, round, count, child, locks, probeVars >>

\* pthread_create fails: std::runtime_error, which main does not catch.
CreateThreadFails ==
  /\ lpp = "running"
  /\ created < NbProcess
  /\ ExitProcess

JoinThread ==
  /\ lpp = "running"
  /\ created = NbProcess
  /\ joined < NbProcess
  /\ pc[joined] = "done"
  /\ joined' = joined + 1
  /\ UNCHANGED << lpp, created, pc, round, count, child, locks, probeVars >>

SaveResults ==
  /\ lpp = "running"
  /\ joined = NbProcess
  /\ lpp' = "saved"
  /\ UNCHANGED << mainVars, pc, round, count, child, locks, probeVars >>

-----------------------------------------------------------------------------
(* The threads: ProgramRunner::start, evaluation and startTest.            *)

StartProbes ==
  /\ At(0, "start")
  /\ measuring' = TRUE
  /\ Goto(0, "fork")
  /\ UNCHANGED << lpp, mainVars, round, count, child, locks, results >>

Fork(t) ==
  /\ At(t, "fork")
  /\ child' = [child EXCEPT ![t] = "forked"]
  /\ Goto(t, IF t = 0 THEN "gather" ELSE "wait")
  /\ UNCHANGED << lpp, mainVars, round, count, locks, probeVars >>

ForkFails(t) ==
  /\ At(t, "fork")
  /\ ExitProcess

\* One pass of a for loop of n passes, at label, in which thread 0 is; after
\* the last one it goes on to label next.
Pass(label, n, next) ==
  /\ At(0, label)
  /\ count' = IF count + 1 = n THEN 0 ELSE count + 1
  /\ Goto(0, IF count + 1 = n THEN next ELSE label)

\* A loop in which thread 0 waits for m_fatherLock.
WaitFather(label, n, next) ==
  /\ Pass(label, n, next)
  /\ fatherLock > 0
  /\ fatherLock' = fatherLock - 1
  /\ UNCHANGED << lpp, mainVars, round, child, processLock, processEndLock,
                  probeVars >>

GatherOneLess == WaitFather("gather", NbProcess - 1, "release")

\* The children are all about to execute the program...
Gather == WaitFather("gather", NbProcess, "release")

\* ... so let them.
Release ==
  /\ Pass("release", NbProcess, "wait")
  /\ processLock' = processLock + 1
  /\ UNCHANGED << lpp, mainVars, round, child, fatherLock, processEndLock,
                  probeVars >>

AfterWaitNoCollect(t) == IF t = 0 THEN "stop" ELSE "post"

AfterWait(t) ==
  IF t # 0 THEN "post" ELSE IF NbProcess = 1 THEN "stop" ELSE "collect"

\* waitpid returns; an exit status other than 0 only warns.
Reap(t) ==
  /\ At(t, "wait")
  /\ child[t] = "exited"
  /\ Goto(t, AfterWait(t))
  /\ UNCHANGED << lpp, mainVars, round, count, child, locks, probeVars >>

\* The program was killed by a signal.
ReapSignaled(t) ==
  /\ At(t, "wait")
  /\ child[t] = "signaled"
  /\ ExitProcess

CollectOneMore == WaitFather("collect", NbProcess, "dismiss")

\* Thread 0 waits until the children of the other threads have ended.
Collect == WaitFather("collect", NbProcess - 1, "dismiss")

DismissAll ==
  /\ Pass("dismiss", NbProcess, "stop")
  /\ processEndLock' = processEndLock + 1
  /\ UNCHANGED << lpp, mainVars, round, child, fatherLock, processLock,
                  probeVars >>

\* Thread 0 lets the other threads leave the round.
Dismiss ==
  /\ Pass("dismiss", NbProcess - 1, "stop")
  /\ processEndLock' = processEndLock + 1
  /\ UNCHANGED << lpp, mainVars, round, child, fatherLock, processLock,
                  probeVars >>

PostFather(t) ==
  /\ At(t, "post")
  /\ fatherLock' = fatherLock + 1
  /\ Goto(t, "leave")
  /\ UNCHANGED << lpp, mainVars, round, count, child, processLock,
                  processEndLock, probeVars >>

NextRoundForEver(t) ==
  /\ round' = [round EXCEPT ![t] = @ + 1]
  /\ child' = [child EXCEPT ![t] = "none"]
  /\ Goto(t, IF round[t] < Rounds THEN Entry(t) ELSE "done")

\* The two loops of ProgramRunner::start, one after the other.
NextRound(t) ==
  /\ round' = [round EXCEPT ![t] = @ + 1]
  /\ child' = [child EXCEPT ![t] = "none"]
  /\ Goto(t, IF round[t] + 1 < Rounds THEN Entry(t) ELSE "done")

LeaveAtOnce(t) ==
  /\ At(t, "leave")
  /\ NextRound(t)
  /\ UNCHANGED << lpp, mainVars, count, locks, probeVars >>

\* A thread other than 0 is let out of the round.
Leave(t) ==
  /\ At(t, "leave")
  /\ processEndLock > 0
  /\ processEndLock' = processEndLock - 1
  /\ NextRound(t)
  /\ UNCHANGED << lpp, mainVars, count, fatherLock, processLock, probeVars >>

\* Thread 0 stops the probes, keeps the measurement and leaves the round.
StopProbes ==
  /\ At(0, "stop")
  /\ measuring' = FALSE
  /\ results' = [results EXCEPT ![Program(round[0])] = @ + 1]
  /\ NextRound(0)
  /\ UNCHANGED << lpp, mainVars, count, locks >>

-----------------------------------------------------------------------------
(* The child of thread t, which outlives lpp.                              *)

ChildReady(t) ==
  /\ child[t] = "forked"
  /\ child' = [child EXCEPT ![t] = "ready"]
  /\ fatherLock' = fatherLock + 1
  /\ UNCHANGED << lpp, mainVars, pc, round, count, processLock,
                  processEndLock, probeVars >>

\* The child passes m_processLock; when execvp fails it exits, with success.
ChildStart(t) ==
  /\ child[t] = "ready"
  /\ processLock > 0
  /\ processLock' = processLock - 1
  /\ \E s \in {"running", "exited"} : child' = [child EXCEPT ![t] = s]
  /\ UNCHANGED << lpp, mainVars, pc, round, count, fatherLock,
                  processEndLock, probeVars >>

\* The measured program ends: it exits, or a signal kills it.
ChildEnd(t) ==
  /\ child[t] = "running"
  /\ \E s \in {"exited", "signaled"} : child' = [child EXCEPT ![t] = s]
  /\ UNCHANGED << lpp, mainVars, pc, round, count, locks, probeVars >>

-----------------------------------------------------------------------------
Main == CreateThread \/ CreateThreadFails \/ JoinThread \/ SaveResults

ThreadZero ==
  StartProbes \/ Gather \/ Release \/ Collect \/ Dismiss \/ StopProbes

Thread(t) ==
  Fork(t) \/ ForkFails(t) \/ Reap(t) \/ ReapSignaled(t) \/ PostFather(t)
    \/ Leave(t)

Child(t) == ChildReady(t) \/ ChildStart(t) \/ ChildEnd(t)

Next ==
  \/ Main
  \/ ThreadZero
  \/ \E t \in Threads : Thread(t) \/ Child(t)

Spec == Init /\ [][Next]_vars

\* The operating system runs every thread and every process that can run,
\* and the measured program ends.
Fairness ==
  /\ WF_vars(Main)
  /\ WF_vars(ThreadZero)
  /\ \A t \in Threads : WF_vars(Thread(t)) /\ WF_vars(Child(t))

FairSpec == Spec /\ Fairness
-----------------------------------------------------------------------------
(* Properties.                                                             *)

TypeOK ==
  /\ lpp \in {"running", "saved", "exited"}
  /\ created \in 0 .. NbProcess /\ joined \in 0 .. created
  /\ pc \in [Threads -> PCs]
  /\ round \in [Threads -> 0 .. Rounds]
  /\ count \in 0 .. NbProcess - 1
  /\ child \in [Threads -> Childs]
  /\ fatherLock \in Nat /\ processLock \in Nat /\ processEndLock \in Nat
  /\ measuring \in BOOLEAN
  /\ results \in [Programs -> 0 .. NbMetaRepet]

\* The child of t stands at the common start, or has gone through it.
LinedUp(t) == child[t] \notin {"none", "forked"}
Started(t) == child[t] \in {"running", "exited", "signaled"}

\* The copies of the program start together: none has started before the
\* children of all the threads stand at the start of the same round (a
\* thread that is a round ahead has passed it).
StartTogether ==
  \A t, u \in Threads :
    Started(t) => \/ round[u] > round[t]
                  \/ round[u] = round[t] /\ LinedUp(u)

\* The probes measure all of every copy's run: while a copy runs they are
\* started, and by the round of that copy.
MeasurementCoversRuns ==
  lpp # "exited" =>
    \A t \in Threads :
      child[t] = "running" => measuring /\ round[t] = round[0]

\* A thread leaves a round only when all the children of that round have
\* been waited for.
LeavesAfterAll ==
  \A t, u \in Threads :
    round'[t] # round[t] =>
      \/ round[u] > round[t]
      \/ round[u] = round[t] /\ child[u] = "exited" /\ pc[u] # "wait"

\* "ensure all the tasks finished before going to the next iteration": the
\* comment in evaluation on what the end of a round is for.
IterationBarrier == [][LeavesAfterAll]_vars

\* The results are saved when every measurement of both programs was kept,
\* with no child left behind and no token left in a semaphore.
CleanFinish ==
  lpp = "saved" =>
    /\ ~measuring
    /\ results = [p \in Programs |-> NbMetaRepet]
    /\ \A t \in Threads : child[t] = "none"
    /\ fatherLock = 0 /\ processLock = 0 /\ processEndLock = 0

\* The experiment comes to an end, with or without results.
Terminates == <>(lpp # "running")

-----------------------------------------------------------------------------
(* ProgramRunner implements SynchronizedRuns.                              *)

\* What the child of a copy that is in thread 0's round tells of the copy; a
\* copy that is a round ahead has ended, one that is a round behind is to wait.
CopyOf ==
  [none |-> "waiting", forked |-> "waiting", ready |-> "lined_up",
   running |-> "running", exited |-> "ended", signaled |-> "ended"]

CopyState(t) ==
  IF round[t] > round[0] THEN "ended"
  ELSE IF round[t] < round[0] THEN "waiting"
  ELSE CopyOf[child[t]]

Abstract == INSTANCE SynchronizedRuns WITH
  Copies <- Threads,
  state <- IF lpp = "exited" THEN "aborted" ELSE lpp,
  open <- measuring,
  copy <- [t \in Threads |-> CopyState(t)],
  finished <- results["overhead"] + results["exp"]

\* The semaphores and the probes' start and stop provide what
\* SynchronizedRuns promises.
Refinement == Abstract!Spec
=============================================================================
