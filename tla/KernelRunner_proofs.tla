------------------------ MODULE KernelRunner_proofs ------------------------
(***************************************************************************)
(* Proofs about KernelRunner, for any number of threads and measurements.  *)
(*                                                                         *)
(* The coordinator does not know in which round it is: its loops only      *)
(* count. The inductive invariant says that there is such a round, r, and, *)
(* for each loop, where the threads and the tokens of the semaphores are   *)
(* with respect to it. Only the last pass of the loop that lets the        *)
(* threads out takes the coordinator from r to r + 1.                      *)
(***************************************************************************)
EXTENDS KernelRunner, FiniteSetTheorems, TLAPS

Gathering == sync \in {"none", "gather"}
Running == sync \in {"release", "collect"}

\* Threads that stand at the start of their round, that are past it, that
\* wait for the way out, and that have left round r.
Waiting == {t \in Threads : pc[t] = "go"}
Started == {t \in Threads : Gone(t)}
Leaving == {t \in Threads : Finished(t)}
Ahead(r) == {t \in Threads : round[t] > r}

Over(t) == pc[t] \in {"kill", "done"}

-----------------------------------------------------------------------------
\* What the control point of a thread says of its round.
Consistent(t) ==
  /\ t # 0 => pc[t] \notin {"fork", "start", "stop", "kill"}
  /\ Over(t) <=> round[t] = Rounds
  /\ pc[t] = "idle" <=> t >= created
  /\ pc[t] \in {"idle", "fork"} => round[t] = 0
  /\ t < joined => pc[t] = "done"

ThreadInv == \A t \in Threads : Consistent(t)

\* The coordinator is there once thread 0 has forked it, and ends only when
\* thread 0 has told it to.
CoordinatorInv ==
  /\ sync = "none" <=> pc[0] \in {"idle", "fork"}
  /\ sync = "none" => passes = 0
  /\ sync = "killed" => sigterm
  /\ sigterm => pc[0] = "done"

\* The kernels that thread 0 has measured.
Measured == IF pc[0] \in {"finish", "leave"} THEN round[0] + 1 ELSE round[0]

ResultsInv ==
  /\ results["overhead"] =
       IF Measured < NbMetaRepet THEN Measured ELSE NbMetaRepet
  /\ results["exp"] =
       IF Measured < NbMetaRepet THEN 0 ELSE Measured - NbMetaRepet

LocalInv == TypeOK /\ ThreadInv /\ CoordinatorInv /\ ResultsInv

-----------------------------------------------------------------------------
\* While the threads of round r are gathered: they have not started, or are
\* on their way out of the round before. m_fatherLock holds those that have
\* arrived, m_processEndLock the way out of those that have not taken it.
GatherInv(r) ==
  /\ \A t \in Threads :
       \/ round[t] = r /\ ~Gone(t)
       \/ round[t] = r - 1 /\ Finished(t)
  /\ fatherLock + passes = Cardinality(Waiting)
  /\ processLock = 0
  /\ processEndLock = Cardinality(Leaving)

\* From the common start until the last kernel has returned: all threads are
\* in the round. m_processLock holds a start for each thread that waits for
\* it, m_fatherLock the threads that have finished.
RunningInv(r) ==
  /\ \A t \in Threads : round[t] = r /\ (pc[t] = "go" \/ Gone(t))
  /\ fatherLock + (IF sync = "collect" THEN passes ELSE 0)
       = Cardinality(Leaving)
  /\ processLock + Cardinality(Started)
       = (IF sync = "release" THEN passes ELSE NbProcess)
  /\ processEndLock = 0

\* While they are let out: they wait for it, or have left and may already
\* have arrived at the next round.
DismissInv(r) ==
  /\ \A t \in Threads :
       \/ round[t] = r /\ Finished(t)
       \/ round[t] = r + 1 /\ ~Gone(t) /\ pc[t] \notin {"idle", "fork"}
  /\ fatherLock = Cardinality(Waiting)
  /\ processLock = 0
  /\ processEndLock + Cardinality(Ahead(r)) = passes

\* Without the coordinator: nobody is left who could need a start.
KilledInv ==
  \A t \in Threads :
    \/ round[t] = Rounds
    \/ round[t] = Rounds - 1 /\ Finished(t)

SyncInv(r) ==
  /\ Gathering => GatherInv(r)
  /\ Running => RunningInv(r)
  /\ sync = "dismiss" => DismissInv(r)
  /\ sync = "killed" => KilledInv

IInv == LocalInv /\ \E r \in 0 .. Rounds : SyncInv(r)

-----------------------------------------------------------------------------
(* The invariant of each thread for itself.                                *)

LEMMA Constants ==
  /\ NbProcess \in Nat /\ NbProcess > 0
  /\ NbMetaRepet \in Nat /\ NbMetaRepet > 0
  /\ Rounds \in Nat /\ Rounds = NbMetaRepet + NbMetaRepet
  /\ 0 \in Threads /\ Threads \subseteq Nat
  BY NbProcessAssumption, NbMetaRepetAssumption DEF Rounds, Threads

LEMMA LocalInit == Init => LocalInv
  <1> SUFFICES ASSUME Init PROVE LocalInv
    OBVIOUS
  <1> USE Constants DEF Init
  <1>1. TypeOK
    <2>1. pc \in [Threads -> PCs] /\ sync \in Syncs
      BY DEF PCs, Syncs
    <2>2. round \in [Threads -> 0 .. Rounds]
      OBVIOUS
    <2>3. results \in [{"overhead", "exp"} -> 0 .. NbMetaRepet]
      OBVIOUS
    <2>4. /\ created \in 0 .. NbProcess /\ joined \in 0 .. created
          /\ passes \in 0 .. NbProcess - 1
      OBVIOUS
    <2>5. /\ lpp = "running" /\ sigterm \in BOOLEAN
          /\ fatherLock \in Nat /\ processLock \in Nat /\ processEndLock \in Nat
      OBVIOUS
    <2> HIDE DEF Init
    <2> QED
      BY <2>1, <2>2, <2>3, <2>4, <2>5 DEF TypeOK
  <1>2. ThreadInv
    BY DEF ThreadInv, Consistent, Over
  <1>3. CoordinatorInv
    BY DEF CoordinatorInv
  <1>4. ResultsInv
    BY DEF ResultsInv, Measured
  <1> QED
    BY <1>1, <1>2, <1>3, <1>4 DEF LocalInv

\* A thread that is leaving a round has a next one to go to.
LEMMA NotOver ==
  ASSUME LocalInv, NEW t \in Threads, ~Over(t)
  PROVE  round[t] \in 0 .. Rounds - 1 /\ round[t] + 1 \in 0 .. Rounds
  BY Constants DEF LocalInv, TypeOK, ThreadInv, Consistent

LEMMA LocalNext == LocalInv /\ [Next]_vars => LocalInv'
  <1> SUFFICES ASSUME LocalInv, [Next]_vars PROVE LocalInv'
    OBVIOUS
  <1> USE Constants
      DEF LocalInv, TypeOK, ThreadInv, Consistent, Over, CoordinatorInv,
          ResultsInv, Measured, Threads, PCs, Syncs, mainVars, syncVars,
          locks, At, Goto
  <1>1. CASE CreateThread
    BY <1>1 DEF CreateThread
  <1>2. CASE CreateThreadFails
    BY <1>2 DEF CreateThreadFails, ExitProcess
  <1>3. CASE JoinThread
    BY <1>3 DEF JoinThread
  <1>4. CASE SaveResults
    BY <1>4 DEF SaveResults
  <1>5. CASE ForkCoordinator
    BY <1>5 DEF ForkCoordinator
  <1>6. CASE ForkFails
    BY <1>6 DEF ForkFails, ExitProcess
  <1>7. CASE StartProbes
    BY <1>7 DEF StartProbes
  <1>8. CASE StopProbes
    <2>1. round[0] \in 0 .. Rounds - 1
      BY <1>8, NotOver DEF StopProbes
    <2> USE <1>8 DEF StopProbes, KernelOf
    <2>2. ResultsInv'
      BY <2>1
    <2>3. results' \in [{"overhead", "exp"} -> 0 .. NbMetaRepet]
      <3>1. Measured = round[0] /\ Measured + 1 <= Rounds
        BY <2>1
      <3> QED
        BY <3>1
    <2>4. TypeOK'
      BY <2>3
    <2>5. ThreadInv' /\ CoordinatorInv'
      OBVIOUS
    <2> QED
      BY <2>2, <2>4, <2>5
  <1>9. CASE KillCoordinator
    BY <1>9 DEF KillCoordinator
  <1>10. ASSUME NEW t \in Threads, Arrive(t) PROVE LocalInv'
    <2> USE <1>10 DEF Arrive, PostFather
    <2>1. TypeOK'
      OBVIOUS
    <2>2. ThreadInv'
      OBVIOUS
    <2>3. CoordinatorInv' /\ ResultsInv'
      OBVIOUS
    <2> QED
      BY <2>1, <2>2, <2>3
  <1>11. ASSUME NEW t \in Threads, Go(t) PROVE LocalInv'
    BY <1>11 DEF Go
  <1>12. ASSUME NEW t \in Threads, KernelReturns(t) PROVE LocalInv'
    BY <1>12 DEF KernelReturns
  <1>13. ASSUME NEW t \in Threads, Finish(t) PROVE LocalInv'
    <2> USE <1>13 DEF Finish, PostFather
    <2>1. TypeOK'
      OBVIOUS
    <2>2. ThreadInv'
      OBVIOUS
    <2>3. CoordinatorInv' /\ ResultsInv'
      OBVIOUS
    <2> QED
      BY <2>1, <2>2, <2>3
  <1>14. ASSUME NEW t \in Threads, Leave(t) PROVE LocalInv'
    <2>1. round[t] \in 0 .. Rounds - 1 /\ round[t] + 1 \in 0 .. Rounds
      BY <1>14, NotOver DEF Leave
    <2> USE <1>14, <2>1 DEF Leave, NextRound
    <2>2. TypeOK'
      <3>1. round' \in [Threads -> 0 .. Rounds]
        OBVIOUS
      <3>2. pc' \in [Threads -> PCs]
        OBVIOUS
      <3> QED
        BY <3>1, <3>2
    <2>3. ThreadInv'
      <3> SUFFICES ASSUME NEW u \in Threads PROVE Consistent(u)'
        OBVIOUS
      <3>1. CASE u = t
        <4>1. /\ round'[t] = round[t] + 1
              /\ pc'[t] \in {"arrive", "kill", "done"}
              /\ pc'[t] = "arrive" <=> round[t] + 1 # Rounds
              /\ t # 0 => pc'[t] # "kill"
          <5>1. /\ pc'[t] = IF round[t] + 1 < Rounds THEN "arrive"
                            ELSE IF t = 0 THEN "kill" ELSE "done"
                /\ round'[t] = round[t] + 1
            OBVIOUS
          <5>2. round[t] + 1 < Rounds <=> round[t] + 1 # Rounds
            BY ONLY <2>1, Constants
          <5> QED
            BY ONLY <5>1, <5>2
        <4>2. t < created /\ ~(t < joined)
          OBVIOUS
        <4>3. created' = created /\ joined' = joined /\ created \in Nat /\ t \in Nat
          OBVIOUS
        <4>4. ~(t >= created)
          BY <4>2, <4>3
        <4> QED
          BY ONLY <3>1, <4>1, <4>2, <4>3, <4>4 DEF Consistent, Over
      <3>2. CASE u # t
        BY <3>2
      <3> QED
        BY <3>1, <3>2
    <2>4. CoordinatorInv'
      OBVIOUS
    <2>5. ResultsInv'
      OBVIOUS
    <2> QED
      BY <2>2, <2>3, <2>4, <2>5
  <1>15. CASE Gather
    BY <1>15 DEF Gather, WaitFather, Pass
  <1>16. CASE Release
    BY <1>16 DEF Release, Pass
  <1>17. CASE Collect
    BY <1>17 DEF Collect, WaitFather, Pass
  <1>18. CASE Dismiss
    BY <1>18 DEF Dismiss, Pass
  <1>19. CASE Killed
    BY <1>19 DEF Killed
  <1>20. CASE UNCHANGED vars
    BY <1>20 DEF vars
  <1> QED
    BY <1>1, <1>2, <1>3, <1>4, <1>5, <1>6, <1>7, <1>8, <1>9, <1>10, <1>11,
       <1>12, <1>13, <1>14, <1>15, <1>16, <1>17, <1>18, <1>19, <1>20
       DEF Next, Main, ThreadZero, Thread, Coordinator

-----------------------------------------------------------------------------
(* Counting threads.                                                       *)

LEMMA CardThreads == IsFiniteSet(Threads) /\ Cardinality(Threads) = NbProcess
  BY Constants, FS_Interval DEF Threads

\* A set of threads of the size of all the threads is that of all threads.
LEMMA CardSubset ==
  ASSUME NEW S \in SUBSET Threads
  PROVE  /\ Cardinality(S) \in 0 .. NbProcess
         /\ Cardinality(S) = NbProcess => S = Threads
         /\ Cardinality(S) = 0 <=> S = {}
  <1>1. IsFiniteSet(S) /\ Cardinality(S) <= NbProcess
    BY CardThreads, FS_Subset
  <1>2. Cardinality(S) \in Nat
    BY <1>1, FS_CardinalityType
  <1>3. Cardinality(S) = NbProcess => S = Threads
    BY CardThreads, FS_Subset
  <1>4. Cardinality(S) = 0 <=> S = {}
    BY <1>1, FS_EmptySet
  <1> QED
    BY <1>1, <1>2, <1>3, <1>4, Constants

LEMMA CardAdd ==
  ASSUME NEW S \in SUBSET Threads, NEW t \in Threads, t \notin S
  PROVE  Cardinality(S \cup {t}) = Cardinality(S) + 1
  BY CardThreads, FS_Subset, FS_AddElement

LEMMA CardRemove ==
  ASSUME NEW S \in SUBSET Threads, NEW t \in S
  PROVE  Cardinality(S \ {t}) = Cardinality(S) - 1
  BY CardThreads, FS_Subset, FS_RemoveElement

LEMMA CardComplement ==
  ASSUME NEW S \in SUBSET Threads
  PROVE  Cardinality(Threads \ S) = NbProcess - Cardinality(S)
  <1>1. IsFiniteSet(S) /\ IsFiniteSet(Threads \ S)
    BY CardThreads, FS_Subset
  <1>2. S \cup (Threads \ S) = Threads /\ S \cap (Threads \ S) = {}
    OBVIOUS
  <1>3. Cardinality(S) \in Nat /\ Cardinality(Threads \ S) \in Nat
    BY <1>1, FS_CardinalityType
  <1>4. NbProcess = Cardinality(S) + Cardinality(Threads \ S) - Cardinality({})
    BY <1>1, <1>2, FS_Union, CardThreads
  <1> QED
    BY <1>3, <1>4, FS_EmptySet

LEMMA Sets ==
  /\ Waiting \in SUBSET Threads /\ Started \in SUBSET Threads
  /\ Leaving \in SUBSET Threads
  /\ \A r \in 0 .. Rounds : Ahead(r) \in SUBSET Threads
  BY DEF Waiting, Started, Leaving, Ahead

LEMMA Sizes ==
  /\ Cardinality(Waiting) \in 0 .. NbProcess
  /\ Cardinality(Started) \in 0 .. NbProcess
  /\ Cardinality(Leaving) \in 0 .. NbProcess
  /\ \A r \in 0 .. Rounds : Cardinality(Ahead(r)) \in 0 .. NbProcess
  BY Sets, CardSubset

-----------------------------------------------------------------------------
(* The invariant of the threads, the coordinator and the semaphores.       *)

\* What is needed of the types.
LEMMA Typed ==
  ASSUME LocalInv
  PROVE  /\ pc \in [Threads -> PCs] /\ round \in [Threads -> 0 .. Rounds]
         /\ \A t \in Threads : round[t] \in Nat
         /\ passes \in 0 .. NbProcess - 1
         /\ fatherLock \in Nat /\ processLock \in Nat /\ processEndLock \in Nat
         /\ 0 \in Threads
         /\ \A t \in Threads : Consistent(t)
         /\ Gathering \/ Running \/ sync \in {"dismiss", "killed"}
  BY Constants DEF LocalInv, TypeOK, ThreadInv, Gathering, Running, Syncs

LEMMA SyncInit == Init => SyncInv(0)
  <1> SUFFICES ASSUME Init PROVE SyncInv(0)
    OBVIOUS
  <1>1. \A t \in Threads : pc[t] = "idle" /\ round[t] = 0
    BY DEF Init
  <1>2. Waiting = {} /\ Leaving = {}
    BY <1>1 DEF Waiting, Leaving, Finished
  <1> QED
    BY <1>1, <1>2, FS_EmptySet
       DEF Init, SyncInv, Gathering, Running, GatherInv, Gone

\* Steps that change nothing of what SyncInv is about.
LEMMA SyncFrame ==
  ASSUME NEW r \in 0 .. Rounds, SyncInv(r),
         UNCHANGED << pc, round, sync, passes, locks >>
  PROVE  SyncInv(r)'
  BY DEF SyncInv, Gathering, Running, GatherInv, RunningInv, DismissInv,
         KilledInv, Waiting, Started, Leaving, Ahead, Gone, Finished, locks

\* Steps of a thread that do not touch a semaphore.
LEMMA SyncMove ==
  ASSUME NEW r \in 0 .. Rounds, LocalInv, SyncInv(r),
         NEW t \in Threads, NEW p,
         pc' = [pc EXCEPT ![t] = p], UNCHANGED << round, passes, locks >>,
         \A q \in {"go", "leave"} : pc[t] # q /\ p # q,
         p \in {"start", "kernel", "stop", "finish"} <=> Gone(t),
         p \in {"idle", "fork"} => Gathering,
         sync' = sync \/ (Gathering /\ Gathering')
  PROVE  SyncInv(r)'
  <1>1. /\ pc'[t] = p
        /\ \A u \in Threads : u # t => pc'[u] = pc[u]
    BY Typed
  <1>2. \A u \in Threads : /\ pc'[u] = "go" <=> pc[u] = "go"
                           /\ Gone(u)' <=> Gone(u)
                           /\ Finished(u)' <=> Finished(u)
    BY <1>1 DEF Gone, Finished
  <1>3. /\ Waiting' = Waiting /\ Started' = Started /\ Leaving' = Leaving
        /\ Ahead(r)' = Ahead(r)
    BY <1>2 DEF Waiting, Started, Leaving, Ahead
  <1>4. CASE Gathering
    <2>1. GatherInv(r)'
      BY <1>2, <1>3, <1>4 DEF SyncInv, GatherInv, locks
    <2> QED
      BY <1>4, <2>1 DEF SyncInv, Gathering, Running
  <1>5. CASE Running
    <2>1. RunningInv(r)' /\ sync' = sync
      BY <1>2, <1>3, <1>5
         DEF SyncInv, RunningInv, locks, Gathering, Running
    <2> QED
      BY <1>5, <2>1 DEF SyncInv, Gathering, Running
  <1>6. CASE sync = "dismiss"
    <2>1. DismissInv(r)' /\ sync' = sync
      BY <1>1, <1>2, <1>3, <1>6 DEF SyncInv, DismissInv, locks, Gathering
    <2> QED
      BY <1>6, <2>1 DEF SyncInv, Gathering, Running
  <1>7. CASE sync = "killed"
    <2>1. KilledInv' /\ sync' = sync
      BY <1>2, <1>7 DEF SyncInv, KilledInv, Gathering
    <2> QED
      BY <1>7, <2>1 DEF SyncInv, Gathering, Running
  <1> QED
    BY <1>4, <1>5, <1>6, <1>7, Typed

LEMMA SyncArrive ==
  ASSUME NEW r \in 0 .. Rounds, LocalInv, SyncInv(r),
         NEW t \in Threads, Arrive(t)
  PROVE  SyncInv(r)'
  <1>1. /\ pc[t] = "arrive" /\ pc'[t] = "go"
        /\ \A u \in Threads : u # t => pc'[u] = pc[u]
        /\ fatherLock' = fatherLock + 1
        /\ UNCHANGED << round, sync, passes, processLock, processEndLock >>
    BY Typed DEF Arrive, PostFather, At, Goto, syncVars
  <1>2. \A u \in Threads : /\ Gone(u)' <=> Gone(u)
                           /\ Finished(u)' <=> Finished(u)
    BY <1>1 DEF Gone, Finished
  <1>3. /\ Started' = Started /\ Leaving' = Leaving /\ Ahead(r)' = Ahead(r)
        /\ Waiting' = Waiting \cup {t} /\ t \notin Waiting
    BY <1>1, <1>2 DEF Waiting, Started, Leaving, Ahead
  <1>4. Cardinality(Waiting') = Cardinality(Waiting) + 1
    BY <1>3, CardAdd, Sets
  <1>5. CASE Gathering
    <2>1. GatherInv(r)'
      BY <1>1, <1>2, <1>3, <1>4, <1>5, Typed, Sizes DEF SyncInv, GatherInv
    <2> QED
      BY <1>1, <1>5, <2>1 DEF SyncInv, Gathering, Running
  <1>6. CASE Running
    BY <1>1, <1>6 DEF SyncInv, RunningInv, Gone
  <1>7. CASE sync = "dismiss"
    <2>1. DismissInv(r)'
      BY <1>1, <1>2, <1>3, <1>4, <1>7, Typed, Sizes DEF SyncInv, DismissInv
    <2> QED
      BY <1>1, <1>7, <2>1 DEF SyncInv, Gathering, Running
  <1>8. CASE sync = "killed"
    BY <1>1, <1>2, <1>8 DEF SyncInv, KilledInv, Gathering, Running
  <1> QED
    BY <1>5, <1>6, <1>7, <1>8, Typed

\* A thread past the start but not at the end of its round is there only
\* while the round runs.
LEMMA InRound ==
  ASSUME NEW r \in 0 .. Rounds, LocalInv, SyncInv(r), NEW t \in Threads,
         Gone(t), ~Finished(t)
  PROVE  Running
  <1>1. Consistent(t)
    BY Typed
  <1>2. round[t] # Rounds
    BY <1>1 DEF Consistent, Over, Gone
  <1> QED
    BY <1>2, Typed DEF SyncInv, GatherInv, DismissInv, KilledInv

LEMMA SyncGo ==
  ASSUME NEW r \in 0 .. Rounds, LocalInv, SyncInv(r),
         NEW t \in Threads, Go(t)
  PROVE  SyncInv(r)'
  <1>1. /\ pc[t] = "go" /\ pc'[t] \in {"start", "kernel"}
        /\ \A u \in Threads : u # t => pc'[u] = pc[u]
        /\ processLock > 0 /\ processLock' = processLock - 1
        /\ UNCHANGED << round, sync, passes, fatherLock, processEndLock >>
    BY Typed DEF Go, At, Goto, syncVars
  <1>2. Running
    <2>1. Consistent(t)
      BY Typed
    <2>2. sync # "killed"
      BY <1>1, <2>1 DEF SyncInv, KilledInv, Consistent, Over, Finished
    <2> QED
      BY <1>1, <2>2, Typed DEF SyncInv, GatherInv, DismissInv
  <1>3. RunningInv(r)
    BY <1>2 DEF SyncInv
  <1>4. /\ Leaving' = Leaving
        /\ Started' = Started \cup {t} /\ t \notin Started
    BY <1>1 DEF Started, Leaving, Gone, Finished
  <1>5. Cardinality(Started') = Cardinality(Started) + 1
    BY <1>4, CardAdd, Sets
  <1>6. \A u \in Threads : round'[u] = r /\ (pc'[u] = "go" \/ Gone(u)')
    BY <1>1, <1>3 DEF RunningInv, Gone
  <1>7. processLock' + Cardinality(Started')
          = (IF sync' = "release" THEN passes' ELSE NbProcess)
    BY <1>1, <1>3, <1>5, Typed, Sizes DEF RunningInv
  <1>8. RunningInv(r)'
    BY <1>1, <1>3, <1>4, <1>6, <1>7 DEF RunningInv
  <1> QED
    BY <1>1, <1>2, <1>8 DEF SyncInv, Gathering, Running

LEMMA SyncFinish ==
  ASSUME NEW r \in 0 .. Rounds, LocalInv, SyncInv(r),
         NEW t \in Threads, Finish(t)
  PROVE  SyncInv(r)'
  <1>1. /\ pc[t] = "finish" /\ pc'[t] = "leave"
        /\ \A u \in Threads : u # t => pc'[u] = pc[u]
        /\ fatherLock' = fatherLock + 1
        /\ UNCHANGED << round, sync, passes, processLock, processEndLock >>
    BY Typed DEF Finish, PostFather, At, Goto, syncVars
  <1>2. Running
    BY <1>1, InRound DEF Gone, Finished
  <1>3. RunningInv(r)
    BY <1>2 DEF SyncInv
  <1>4. /\ Started' = Started
        /\ Leaving' = Leaving \cup {t} /\ t \notin Leaving
    BY <1>1 DEF Started, Leaving, Gone, Finished
  <1>5. Cardinality(Leaving') = Cardinality(Leaving) + 1
    BY <1>4, CardAdd, Sets
  <1>6. \A u \in Threads : round'[u] = r /\ (pc'[u] = "go" \/ Gone(u)')
    BY <1>1, <1>3 DEF RunningInv, Gone
  <1>7. fatherLock' + (IF sync' = "collect" THEN passes' ELSE 0)
          = Cardinality(Leaving')
    BY <1>1, <1>3, <1>5, Typed, Sizes DEF RunningInv
  <1>8. RunningInv(r)'
    BY <1>1, <1>3, <1>4, <1>6, <1>7 DEF RunningInv
  <1> QED
    BY <1>1, <1>2, <1>8 DEF SyncInv, Gathering, Running

\* A thread that leaves takes one of the ways out that are left.
LEMMA SyncLeave ==
  ASSUME NEW r \in 0 .. Rounds, LocalInv, SyncInv(r),
         NEW t \in Threads, Leave(t)
  PROVE  SyncInv(r)'
  <1>1. /\ pc[t] = "leave" /\ pc'[t] \in {"arrive", "kill", "done"}
        /\ round'[t] = round[t] + 1
        /\ \A u \in Threads : u # t => pc'[u] = pc[u] /\ round'[u] = round[u]
        /\ processEndLock > 0 /\ processEndLock' = processEndLock - 1
        /\ UNCHANGED << sync, passes, fatherLock, processLock >>
    BY Typed DEF Leave, NextRound, At, Goto, syncVars
  <1>2. Gone(t) /\ Finished(t) /\ ~Gone(t)' /\ ~Finished(t)'
    BY <1>1 DEF Gone, Finished
  <1>3. /\ Waiting' = Waiting
        /\ Leaving' = Leaving \ {t} /\ t \in Leaving
    BY <1>1 DEF Waiting, Leaving, Finished
  <1>4. round[t] # Rounds
    BY <1>1, Typed DEF Consistent, Over
  <1>5. CASE Gathering
    <2>1. GatherInv(r)
      BY <1>5 DEF SyncInv
    <2>2. round[t] = r - 1
      BY <1>2, <2>1 DEF GatherInv
    <2>3. Cardinality(Leaving') = Cardinality(Leaving) - 1
      BY <1>3, CardRemove, Sets
    <2>4. ASSUME NEW u \in Threads
          PROVE  \/ round'[u] = r /\ ~Gone(u)'
                 \/ round'[u] = r - 1 /\ Finished(u)'
      BY <1>1, <2>1, <2>2 DEF GatherInv, Gone, Finished
    <2>5. GatherInv(r)'
      BY <1>1, <1>3, <2>1, <2>3, <2>4, Typed, Sizes DEF GatherInv
    <2> QED
      BY <1>1, <1>5, <2>5 DEF SyncInv, Gathering, Running
  <1>6. CASE Running
    BY <1>1, <1>6 DEF SyncInv, RunningInv
  <1>7. CASE sync = "dismiss"
    <2>1. DismissInv(r)
      BY <1>7 DEF SyncInv
    <2>2. round[t] = r
      BY <1>2, <2>1 DEF DismissInv
    <2>3. Ahead(r)' = Ahead(r) \cup {t} /\ t \notin Ahead(r)
      BY <1>1, <2>2 DEF Ahead
    <2>4. Cardinality(Ahead(r)') = Cardinality(Ahead(r)) + 1
      BY <2>3, CardAdd, Sets
    <2>5. ASSUME NEW u \in Threads
          PROVE  \/ round'[u] = r /\ Finished(u)'
                 \/ /\ round'[u] = r + 1 /\ ~Gone(u)'
                    /\ pc'[u] \notin {"idle", "fork"}
      BY <1>1, <2>1, <2>2 DEF DismissInv, Gone, Finished
    <2>6. DismissInv(r)'
      BY <1>1, <1>3, <2>1, <2>4, <2>5, Typed, Sizes DEF DismissInv
    <2> QED
      BY <1>1, <1>7, <2>6 DEF SyncInv, Gathering, Running
  <1>8. CASE sync = "killed"
    <2>1. KilledInv'
      BY <1>1, <1>4, <1>8, Constants DEF SyncInv, KilledInv, Finished
    <2> QED
      BY <1>1, <1>8, <2>1 DEF SyncInv, Gathering, Running
  <1> QED
    BY <1>5, <1>6, <1>7, <1>8, Typed

-----------------------------------------------------------------------------
(* The passes of the coordinator.                                          *)

\* A pass of a loop of the coordinator does not move a thread.
LEMMA PassFrame ==
  ASSUME LocalInv, NEW label, NEW next, Pass(label, NbProcess, next)
  PROVE  /\ pc' = pc /\ round' = round /\ sync = label
         /\ Waiting' = Waiting /\ Started' = Started /\ Leaving' = Leaving
         /\ \/ sync' = label /\ passes' = passes + 1 /\ passes + 1 < NbProcess
            \/ sync' = next /\ passes' = 0 /\ passes + 1 = NbProcess
  <1>1. pc' = pc /\ round' = round /\ sync = label
    BY DEF Pass
  <1>2. \/ sync' = label /\ passes' = passes + 1 /\ passes + 1 < NbProcess
        \/ sync' = next /\ passes' = 0 /\ passes + 1 = NbProcess
    BY Typed, Constants DEF Pass
  <1> QED
    BY <1>1, <1>2 DEF Waiting, Started, Leaving, Gone, Finished

\* The last thread is gathered: all of them wait for the start.
LEMMA SyncGather ==
  ASSUME NEW r \in 0 .. Rounds, LocalInv, SyncInv(r), Gather
  PROVE  SyncInv(r)'
  <1>1. /\ fatherLock > 0 /\ fatherLock' = fatherLock - 1
        /\ UNCHANGED << processLock, processEndLock >>
        /\ Pass("gather", NbProcess, "release")
    BY DEF Gather, WaitFather
  <1>2. sync = "gather"
    BY <1>1 DEF Pass
  <1>3. GatherInv(r)
    BY <1>2 DEF SyncInv, Gathering
  <1>4. CASE sync' = "gather" /\ passes' = passes + 1
    <2>1. GatherInv(r)'
      BY <1>1, <1>3, <1>4, PassFrame, Typed, Sizes
         DEF GatherInv, Gone, Finished
    <2> QED
      BY <1>4, <2>1 DEF SyncInv, Gathering, Running
  <1>5. CASE sync' = "release" /\ passes' = 0 /\ passes + 1 = NbProcess
    <2>1. Cardinality(Waiting) = NbProcess /\ fatherLock' = 0
      BY <1>1, <1>3, <1>5, Typed, Sizes, Constants DEF GatherInv
    <2>2. Waiting = Threads
      BY <2>1, CardSubset, Sets
    <2>3. \A u \in Threads : pc[u] = "go"
      BY <2>2 DEF Waiting
    <2>4. \A u \in Threads : ~Gone(u) /\ ~Finished(u)
      BY <2>3 DEF Gone, Finished
    <2>5. Started = {} /\ Leaving = {}
      BY <2>4 DEF Started, Leaving
    <2>6. \A u \in Threads : round[u] = r
      BY <1>3, <2>4 DEF GatherInv
    <2>7. /\ pc' = pc /\ round' = round /\ Started' = {} /\ Leaving' = {}
      BY <1>1, <2>5, PassFrame
    <2>8. Cardinality(Started') = 0 /\ Cardinality(Leaving') = 0
          /\ processEndLock = 0
      BY <1>3, <2>5, <2>7, FS_EmptySet DEF GatherInv
    <2>9. RunningInv(r)'
      BY <1>1, <1>3, <1>5, <2>1, <2>3, <2>6, <2>7, <2>8
         DEF RunningInv, GatherInv
    <2> QED
      BY <1>5, <2>9 DEF SyncInv, Gathering, Running
  <1> QED
    BY <1>1, <1>4, <1>5, PassFrame

LEMMA SyncRelease ==
  ASSUME NEW r \in 0 .. Rounds, LocalInv, SyncInv(r), Release
  PROVE  SyncInv(r)'
  <1>1. /\ processLock' = processLock + 1
        /\ UNCHANGED << fatherLock, processEndLock >>
        /\ Pass("release", NbProcess, "collect")
    BY DEF Release
  <1>2. sync = "release"
    BY <1>1 DEF Pass
  <1>3. RunningInv(r)
    BY <1>2 DEF SyncInv, Running
  <1>4. /\ pc' = pc /\ round' = round
        /\ Started' = Started /\ Leaving' = Leaving
        /\ \/ sync' = "release" /\ passes' = passes + 1
           \/ sync' = "collect" /\ passes' = 0 /\ passes + 1 = NbProcess
    BY <1>1, PassFrame
  <1>5. processLock' + Cardinality(Started')
          = (IF sync' = "release" THEN passes' ELSE NbProcess)
    BY <1>1, <1>2, <1>3, <1>4, Typed, Sizes DEF RunningInv
  <1>6. fatherLock' + (IF sync' = "collect" THEN passes' ELSE 0)
          = Cardinality(Leaving')
    BY <1>1, <1>2, <1>3, <1>4, Typed, Sizes DEF RunningInv
  <1>7. RunningInv(r)'
    BY <1>1, <1>3, <1>4, <1>5, <1>6 DEF RunningInv, Gone
  <1> QED
    BY <1>4, <1>7 DEF SyncInv, Gathering, Running

\* The last kernel has returned: all the threads wait for the way out.
LEMMA SyncCollect ==
  ASSUME NEW r \in 0 .. Rounds, LocalInv, SyncInv(r), Collect
  PROVE  SyncInv(r)'
  <1>1. /\ fatherLock > 0 /\ fatherLock' = fatherLock - 1
        /\ UNCHANGED << processLock, processEndLock >>
        /\ Pass("collect", NbProcess, "dismiss")
    BY DEF Collect, WaitFather
  <1>2. sync = "collect"
    BY <1>1 DEF Pass
  <1>3. RunningInv(r)
    BY <1>2 DEF SyncInv, Running
  <1>4. CASE sync' = "collect" /\ passes' = passes + 1
    <2>1. RunningInv(r)'
      BY <1>1, <1>2, <1>3, <1>4, PassFrame, Typed, Sizes
         DEF RunningInv, Gone
    <2> QED
      BY <1>4, <2>1 DEF SyncInv, Gathering, Running
  <1>5. CASE sync' = "dismiss" /\ passes' = 0 /\ passes + 1 = NbProcess
    <2>1. Cardinality(Leaving) = NbProcess /\ fatherLock' = 0
      BY <1>1, <1>2, <1>3, <1>5, Typed, Sizes, Constants DEF RunningInv
    <2>2. Leaving = Threads
      BY <2>1, CardSubset, Sets
    <2>3. \A u \in Threads : Finished(u) /\ pc[u] # "go" /\ round[u] = r
      BY <1>3, <2>2 DEF Leaving, Finished, RunningInv
    <2>4. Started = Threads
      BY <2>3 DEF Started, Finished, Gone
    <2>5. processLock = 0
      BY <1>2, <1>3, <2>4, CardThreads, Typed, Constants DEF RunningInv
    <2>6. pc' = pc /\ round' = round
      BY <1>1, PassFrame
    <2>7. Waiting' = {} /\ Ahead(r)' = {}
      BY <2>3, <2>6 DEF Waiting, Ahead
    <2>8. \A u \in Threads : round'[u] = r /\ Finished(u)'
      BY <2>3, <2>6 DEF Finished
    <2>9. DismissInv(r)'
      BY <1>1, <1>3, <1>5, <2>1, <2>5, <2>7, <2>8, FS_EmptySet
         DEF DismissInv, RunningInv
    <2> QED
      BY <1>5, <2>9 DEF SyncInv, Gathering, Running
  <1> QED
    BY <1>1, <1>4, <1>5, PassFrame

\* With the last pass the next round begins: the threads that have not taken
\* their way out yet are a round behind, and as many as the tokens left.
LEMMA SyncDismiss ==
  ASSUME NEW r \in 0 .. Rounds, LocalInv, SyncInv(r), Dismiss
  PROVE  \E q \in 0 .. Rounds : SyncInv(q)'
  <1>1. /\ processEndLock' = processEndLock + 1
        /\ UNCHANGED << fatherLock, processLock >>
        /\ Pass("dismiss", NbProcess, "gather")
    BY DEF Dismiss
  <1>2. sync = "dismiss" /\ pc' = pc /\ round' = round
    BY <1>1 DEF Pass
  <1>3. DismissInv(r)
    BY <1>2 DEF SyncInv
  <1>4. /\ Waiting' = Waiting /\ Leaving' = Leaving
        /\ \/ sync' = "dismiss" /\ passes' = passes + 1
           \/ sync' = "gather" /\ passes' = 0 /\ passes + 1 = NbProcess
    BY <1>1, PassFrame
  <1>5. Ahead(r)' = Ahead(r)
    BY <1>2 DEF Ahead
  <1>6. CASE sync' = "dismiss" /\ passes' = passes + 1
    <2>1. DismissInv(r)'
      BY <1>1, <1>2, <1>3, <1>4, <1>5, <1>6, Typed, Sizes
         DEF DismissInv, Gone, Finished
    <2> QED
      BY <1>6, <2>1 DEF SyncInv, Gathering, Running
  <1>7. CASE sync' = "gather" /\ passes' = 0 /\ passes + 1 = NbProcess
    <2>1. \A u \in Threads : u \in Ahead(r) <=> ~Finished(u)
      BY <1>3, Typed DEF Ahead, DismissInv, Gone, Finished
    <2>2. Leaving = Threads \ Ahead(r)
      BY <2>1 DEF Leaving, Ahead
    <2>3. Cardinality(Leaving) = NbProcess - Cardinality(Ahead(r))
      BY <2>2, CardComplement, Sets
    <2>4. processEndLock' = Cardinality(Leaving)
      BY <1>1, <1>3, <1>7, <2>3, Typed, Sizes, Constants DEF DismissInv
    <2>5. r + 1 \in 0 .. Rounds
      <3>1. Cardinality(Leaving) # 0
        BY <1>1, <2>4, Typed
      <3>2. PICK u \in Threads : Finished(u)
        BY <3>1, FS_EmptySet DEF Leaving
      <3>3. round[u] = r
        BY <1>3, <3>2 DEF DismissInv, Gone, Finished
      <3>4. round[u] # Rounds
        BY <3>2, Typed DEF Consistent, Over, Finished
      <3> QED
        BY <3>3, <3>4, Constants
    <2>6. ASSUME NEW u \in Threads
          PROVE  \/ round'[u] = r + 1 /\ ~Gone(u)'
                 \/ round'[u] = (r + 1) - 1 /\ Finished(u)'
      BY <1>2, <1>3 DEF DismissInv, Gone, Finished
    <2>7. GatherInv(r + 1)'
      BY <1>1, <1>3, <1>4, <1>7, <2>4, <2>6, Typed DEF GatherInv, DismissInv
    <2>8. SyncInv(r + 1)'
      BY <1>7, <2>7 DEF SyncInv, Gathering, Running
    <2> QED
      BY <2>5, <2>8
  <1> QED
    BY <1>4, <1>6, <1>7

\* SIGTERM ends the coordinator: thread 0 has sent it after its last round.
LEMMA SyncKilled ==
  ASSUME NEW r \in 0 .. Rounds, LocalInv, SyncInv(r), Killed
  PROVE  SyncInv(r)'
  <1>1. /\ sync' = "killed" /\ sync # "killed" /\ pc' = pc /\ round' = round
        /\ sigterm
    BY DEF Killed
  <1>2. pc[0] = "done" /\ round[0] = Rounds
    BY <1>1, Typed DEF LocalInv, CoordinatorInv, Consistent, Over
  <1>3. KilledInv
    BY <1>1, <1>2, Typed
       DEF SyncInv, GatherInv, RunningInv, DismissInv, KilledInv, Gone, Finished
  <1>4. KilledInv'
    BY <1>1, <1>3 DEF KilledInv, Finished
  <1> QED
    BY <1>1, <1>4 DEF SyncInv, Gathering, Running

LEMMA SyncNext ==
  ASSUME NEW r \in 0 .. Rounds, LocalInv, SyncInv(r), [Next]_vars
  PROVE  \E q \in 0 .. Rounds : SyncInv(q)'
  <1>1. CASE CreateThread
    <2>1. created \in Threads /\ pc[created] = "idle"
      BY <1>1, Typed, Constants
         DEF CreateThread, Threads, Consistent, LocalInv, TypeOK
    <2>2. PICK p \in {"fork", "arrive"} :
            /\ pc' = [pc EXCEPT ![created] = p]
            /\ p = "fork" <=> created = 0
      BY <1>1 DEF CreateThread, Goto
    <2>3. p = "fork" => Gathering
      BY <2>1, <2>2 DEF LocalInv, CoordinatorInv, Gathering
    <2> QED
      BY <1>1, <2>1, <2>2, <2>3, SyncMove DEF CreateThread, syncVars, Gone
  <1>2. CASE CreateThreadFails \/ JoinThread \/ SaveResults \/ ForkFails
    BY <1>2, SyncFrame
       DEF CreateThreadFails, ExitProcess, JoinThread, SaveResults, ForkFails,
           syncVars
  <1>3. CASE ForkCoordinator
    <2>1. Gathering /\ Gathering'
      BY <1>3 DEF ForkCoordinator, At, LocalInv, CoordinatorInv, Gathering
    <2> QED
      BY <1>3, <2>1, SyncMove, Constants DEF ForkCoordinator, At, Goto, Gone
  <1>4. CASE StartProbes
    BY <1>4, SyncMove, Constants DEF StartProbes, At, Goto, Gone, syncVars
  <1>5. CASE StopProbes
    BY <1>5, SyncMove, Constants DEF StopProbes, At, Goto, Gone, syncVars
  <1>6. CASE KillCoordinator
    BY <1>6, SyncMove, Constants DEF KillCoordinator, At, Goto, Gone
  <1>7. ASSUME NEW t \in Threads, KernelReturns(t)
        PROVE  \E q \in 0 .. Rounds : SyncInv(q)'
    BY <1>7, SyncMove DEF KernelReturns, At, Goto, Gone, syncVars
  <1>8. ASSUME NEW t \in Threads, Arrive(t) \/ Go(t) \/ Finish(t) \/ Leave(t)
        PROVE  \E q \in 0 .. Rounds : SyncInv(q)'
    BY <1>8, SyncArrive, SyncGo, SyncFinish, SyncLeave
  <1>9. CASE Gather \/ Release \/ Collect \/ Killed
    BY <1>9, SyncGather, SyncRelease, SyncCollect, SyncKilled
  <1>10. CASE Dismiss
    BY <1>10, SyncDismiss
  <1>11. CASE UNCHANGED vars
    BY <1>11, SyncFrame DEF vars, syncVars
  <1> QED
    BY <1>1, <1>2, <1>3, <1>4, <1>5, <1>6, <1>7, <1>8, <1>9, <1>10, <1>11
       DEF Next, Main, ThreadZero, Thread, Coordinator

-----------------------------------------------------------------------------
(* The theorems.                                                           *)

\* Whatever the number of threads and of measurements, at every moment there
\* is a round the coordinator is serving, with the threads and the tokens of
\* the three semaphores where its loop says they are.
THEOREM InductiveInvariant == Spec => []IInv
  <1>1. Init => IInv
    BY LocalInit, SyncInit, Constants DEF IInv
  <1>2. IInv /\ [Next]_vars => IInv'
    BY LocalNext, SyncNext DEF IInv
  <1> QED
    BY <1>1, <1>2, PTL DEF Spec

\* No loop counter, round, join count or number of kept measurements leaves
\* its range, and no semaphore is ever taken below zero.
THEOREM TypeCorrect == Spec => []TypeOK
  <1>1. IInv => TypeOK
    BY DEF IInv, LocalInv
  <1> QED
    BY <1>1, InductiveInvariant, PTL

\* Kernels start together: a thread is past the start of its round only when
\* every other thread has arrived at it too, or is a round ahead.
THEOREM StartsTogether == Spec => []StartTogether
  <1>1. ASSUME IInv PROVE StartTogether
    <2> SUFFICES ASSUME NEW t \in Threads, NEW u \in Threads, Gone(t)
                 PROVE  \/ round[u] > round[t]
                        \/ round[u] = round[t] /\ ~Coming(u)
      BY DEF StartTogether
    <2>1. PICK r \in 0 .. Rounds : SyncInv(r)
      BY <1>1 DEF IInv
    <2>2. LocalInv
      BY <1>1 DEF IInv
    <2>3. \A v \in Threads : Finished(v) \/ pc[v] = "go" \/ Gone(v) => ~Coming(v)
      BY DEF Coming, Finished, Gone
    <2>4. CASE Gathering
      BY <2>1, <2>2, <2>3, <2>4, Typed DEF SyncInv, GatherInv
    <2>5. CASE Running
      BY <2>1, <2>3, <2>5 DEF SyncInv, RunningInv
    <2>6. CASE sync = "dismiss"
      BY <2>1, <2>2, <2>3, <2>6, Typed DEF SyncInv, DismissInv
    <2>7. CASE sync = "killed"
      <3>1. round[t] # Rounds
        BY <2>2, Typed DEF Consistent, Over, Gone
      <3> QED
        BY <2>1, <2>2, <2>3, <2>7, <3>1, Typed, Constants
           DEF SyncInv, KilledInv
    <2> QED
      BY <2>2, <2>4, <2>5, <2>6, <2>7, Typed
  <1> QED
    BY <1>1, InductiveInvariant, PTL

\* Thread 0 tells the coordinator to end only when no kernel has still to
\* run, and all the measurements of both kernels are kept.
THEOREM KilledLast == Spec => []KilledAfterLastKernel
  <1>1. ASSUME IInv, sigterm
        PROVE  /\ KilledInv
               /\ results = [overhead |-> NbMetaRepet, exp |-> NbMetaRepet]
    <2>1. PICK r \in 0 .. Rounds : SyncInv(r)
      BY <1>1 DEF IInv
    <2>2. LocalInv
      BY <1>1 DEF IInv
    <2>3. pc[0] = "done" /\ round[0] = Rounds
      BY <1>1, <2>2, Typed DEF LocalInv, CoordinatorInv, Consistent, Over
    <2>4. KilledInv
      BY <2>1, <2>2, <2>3, Typed
         DEF SyncInv, GatherInv, RunningInv, DismissInv, KilledInv, Gone,
             Finished
    <2>5. results["overhead"] = NbMetaRepet /\ results["exp"] = NbMetaRepet
      BY <2>2, <2>3, Constants DEF LocalInv, ResultsInv, Measured
    <2>6. results \in [{"overhead", "exp"} -> 0 .. NbMetaRepet]
      BY <2>2 DEF LocalInv, TypeOK
    <2> QED
      BY <2>4, <2>5, <2>6
  <1>2. IInv => KilledAfterLastKernel
    BY <1>1 DEF KilledAfterLastKernel, KilledInv
  <1> QED
    BY <1>2, InductiveInvariant, PTL

\* When the coordinator gathers, the semaphores hold no token of an earlier
\* round but the ways out of the threads that have not taken them.
THEOREM TokensAreFresh == Spec => []NoStaleToken
  <1>1. ASSUME IInv PROVE NoStaleToken
    <2>1. PICK r \in 0 .. Rounds : SyncInv(r)
      BY <1>1 DEF IInv
    <2>2. LocalInv
      BY <1>1 DEF IInv
    <2> QED
      BY <2>1, <2>2, Typed, Sizes
         DEF NoStaleToken, SyncInv, Gathering, Running, GatherInv, RunningInv
  <1> QED
    BY <1>1, InductiveInvariant, PTL

\* A step by which a thread leaves its round.
LeavesAfterAll ==
  \A t, u \in Threads :
    round'[t] # round[t] =>
      \/ round[u] > round[t]
      \/ round[u] = round[t] /\ Finished(u)

\* A thread leaves a round only when the kernels of all the threads have
\* returned, and those of a round ahead have left it the same way.
THEOREM Barrier == Spec => RoundBarrier
  <1>1. ASSUME IInv, [Next]_vars, NEW t \in Threads, NEW u \in Threads,
               round'[t] # round[t]
        PROVE  \/ round[u] > round[t]
               \/ round[u] = round[t] /\ Finished(u)
    <2>1. PICK r \in 0 .. Rounds : SyncInv(r)
      BY <1>1 DEF IInv
    <2>2. LocalInv
      BY <1>1 DEF IInv
    <2>3. PICK v \in Threads : Leave(v)
      <3> SUFFICES ASSUME ~\E v \in Threads : Leave(v) PROVE round' = round
        BY <1>1
      <3> QED
        BY <1>1
           DEF Next, Main, ThreadZero, Thread, Coordinator, CreateThread,
               CreateThreadFails, ExitProcess, JoinThread, SaveResults,
               ForkCoordinator, ForkFails, StartProbes, StopProbes,
               KillCoordinator, Arrive, Go, KernelReturns, Finish, PostFather,
               Gather, Release, Collect, Dismiss, WaitFather, Pass, Killed, vars
    <2>4. v = t
      BY <1>1, <2>2, <2>3, Typed DEF Leave, NextRound
    <2>5. Finished(t) /\ Gone(t) /\ processEndLock # 0
      BY <2>2, <2>3, <2>4, Typed DEF Leave, At, Finished, Gone
    <2>6. CASE Gathering
      BY <2>1, <2>2, <2>5, <2>6, Typed DEF SyncInv, GatherInv
    <2>7. CASE Running
      BY <2>1, <2>5, <2>7 DEF SyncInv, RunningInv
    <2>8. CASE sync = "dismiss"
      BY <2>1, <2>2, <2>5, <2>8, Typed DEF SyncInv, DismissInv
    <2>9. CASE sync = "killed"
      <3>1. round[t] # Rounds
        BY <2>2, <2>5, Typed DEF Consistent, Over, Finished
      <3> QED
        BY <2>1, <2>2, <2>9, <3>1, Typed, Constants DEF SyncInv, KilledInv
    <2> QED
      BY <2>2, <2>6, <2>7, <2>8, <2>9, Typed
  <1>2. IInv /\ [Next]_vars => [LeavesAfterAll]_vars
    BY <1>1 DEF LeavesAfterAll
  <1> QED
    BY <1>2, InductiveInvariant, PTL DEF Spec, RoundBarrier, LeavesAfterAll
=============================================================================
