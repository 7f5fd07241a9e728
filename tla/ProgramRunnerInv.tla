-------------------------- MODULE ProgramRunnerInv --------------------------
(***************************************************************************)
(* The inductive invariant of ProgramRunner. A round of thread 0 has three *)
(* stages: before the common start, while the copies run, and after they   *)
(* have all been collected. The invariant says, stage by stage, which      *)
(* round every other thread can be in and where the tokens of the three    *)
(* semaphores are.                                                         *)
(***************************************************************************)
EXTENDS ProgramRunner

Before == pc[0] \in {"idle", "start", "fork", "gather", "done"}
Running == pc[0] \in {"release", "wait", "collect"}
After == pc[0] \in {"dismiss", "stop"}

\* Threads that have not left the round thread 0 has left, and threads that
\* have left the round thread 0 is in.
Behind == {t \in Threads : round[t] < round[0]}
Ahead == {t \in Threads : round[t] > round[0]}

\* Children at the start, of thread 0's round and of the next one.
ReadyNow == {t \in Threads : round[t] = round[0] /\ child[t] = "ready"}
ReadyNext == {t \in Threads : round[t] > round[0] /\ child[t] = "ready"}

StartedNow == {t \in Threads : Started(t)}
Leaving == {t \in Threads : pc[t] = "leave"}

\* The passes thread 0 has made in its loop, if it is in the loop at label.
Passes(label) == IF pc[0] = label THEN count ELSE 0

-----------------------------------------------------------------------------
\* What the control point of a thread says of its child and of its round.
Consistent(t) ==
  /\ t # 0 => pc[t] \in {"idle", "fork", "wait", "post", "leave", "done"}
  /\ t = 0 => pc[t] \notin {"post", "leave"}
  /\ pc[t] \in {"idle", "start", "fork", "done"} <=> child[t] = "none"
  /\ pc[t] \in {"post", "leave", "collect", "dismiss", "stop"}
       => child[t] = "exited"
  /\ pc[t] = "done" <=> round[t] = Rounds
  /\ pc[t] = "idle" <=> t >= created
  /\ pc[t] = "idle" => round[t] = 0
  /\ t < joined => pc[t] = "done"

ThreadInv == \A t \in Threads : Consistent(t)

CountInv ==
  /\ pc[0] \notin {"gather", "release", "collect", "dismiss"} => count = 0
  /\ pc[0] \in {"collect", "dismiss"} => count < NbProcess - 1

\* The probes, and the measurements that were kept.
ProbeInv ==
  /\ measuring <=> pc[0] \notin {"idle", "start", "done"}
  /\ results["overhead"] =
       IF round[0] < NbMetaRepet THEN round[0] ELSE NbMetaRepet
  /\ results["exp"] =
       IF round[0] < NbMetaRepet THEN 0 ELSE round[0] - NbMetaRepet
  /\ lpp = "saved" => joined = NbProcess

\* What each thread can tell for itself...
LocalInv ==
  /\ TypeOK
  /\ ThreadInv
  /\ CountInv
  /\ ProbeInv

-----------------------------------------------------------------------------
\* Before the start: the other threads are in thread 0's round, with a child
\* that has not started, or on their way out of the round before it.
\* m_fatherLock holds the children that are ready, m_processEndLock the way
\* out for those who have not taken it.
BeforeInv ==
  /\ \A t \in Threads :
       \/ round[t] = round[0] /\ ~Started(t)
       \/ round[t] = round[0] - 1 /\ pc[t] = "leave"
  /\ fatherLock + Passes("gather") = Cardinality(ReadyNow)
  /\ processLock = 0
  /\ processEndLock = Cardinality(Behind)

\* From the start until all children are collected: all the threads are in
\* the round. m_processLock holds a start for each child that has not
\* started, m_fatherLock the threads that have finished.
RunningInv ==
  /\ \A t \in Threads : round[t] = round[0] /\ LinedUp(t)
  /\ fatherLock + Passes("collect") = Cardinality(Leaving)
  /\ processLock + Cardinality(StartedNow) =
       IF pc[0] = "release" THEN count ELSE NbProcess
  /\ processEndLock = 0

\* After that: the other threads wait to leave the round, or have left it
\* with a child that has not started. m_fatherLock holds the children that
\* are ready for the next round.
AfterInv ==
  /\ \A t \in Threads :
       \/ round[t] = round[0] /\ (t = 0 \/ pc[t] = "leave")
       \/ round[t] = round[0] + 1 /\ ~Started(t)
  /\ fatherLock = Cardinality(ReadyNext)
  /\ processLock = 0
  /\ processEndLock + Cardinality(Ahead) =
       IF pc[0] = "dismiss" THEN count ELSE NbProcess - 1

\* ... and what holds of the threads and the semaphores together. No token
\* is ever lost, doubled or taken by the wrong thread: the code depends on it
\* where it uses one semaphore for two purposes (m_fatherLock: a child is
\* ready, a thread has finished).
SyncInv ==
  /\ Before => BeforeInv
  /\ Running => RunningInv
  /\ After => AfterInv

\* The inductive invariant: the strengthening of the safety properties of
\* ProgramRunner that every step of the threads and children preserves.
IInv == LocalInv /\ SyncInv
=============================================================================
