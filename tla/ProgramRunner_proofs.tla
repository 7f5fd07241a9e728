----------------------- MODULE ProgramRunner_proofs -----------------------
(***************************************************************************)
(* Proofs about ProgramRunner, for any number of threads and measurements. *)
(***************************************************************************)
EXTENDS ProgramRunnerInv, FiniteSetTheorems, TLAPS

-----------------------------------------------------------------------------
(* The invariant of each thread for itself.                                *)

LEMMA Constants ==
  /\ NbProcess \in Nat /\ NbProcess > 0
  /\ NbMetaRepet \in Nat /\ NbMetaRepet > 0
  /\ Rounds \in Nat /\ Rounds = NbMetaRepet + NbMetaRepet
  /\ 0 \in Threads
  BY NbProcessAssumption, NbMetaRepetAssumption DEF Rounds, Threads

LEMMA LocalInit == Init => LocalInv
  <1> SUFFICES ASSUME Init PROVE LocalInv
    OBVIOUS
  <1> USE Constants DEF Init
  <1>1. TypeOK
    <2>1. round \in [Threads -> 0 .. Rounds]
      OBVIOUS
    <2>2. pc \in [Threads -> PCs] /\ child \in [Threads -> Childs]
      BY DEF PCs, Childs
    <2>3. results \in [Programs -> 0 .. NbMetaRepet]
      OBVIOUS
    <2>4. created \in 0 .. NbProcess /\ joined \in 0 .. created
      OBVIOUS
    <2>5. measuring \in BOOLEAN
      OBVIOUS
    <2>6. count \in 0 .. NbProcess - 1
      OBVIOUS
    <2>7. /\ lpp \in {"running", "saved", "exited"}
          /\ fatherLock \in Nat /\ processLock \in Nat /\ processEndLock \in Nat
      OBVIOUS
    <2> HIDE DEF Init
    <2> QED
      BY <2>1, <2>2, <2>3, <2>4, <2>5, <2>6, <2>7 DEF TypeOK
  <1>2. ASSUME NEW t \in Threads PROVE Consistent(t)
    <2>1. pc[t] = "idle" /\ child[t] = "none" /\ round[t] = 0
      OBVIOUS
    <2>2. t \in Nat
      BY DEF Threads
    <2> QED
      BY <2>1, <2>2 DEF Consistent
  <1>3. CountInv
    BY DEF CountInv
  <1>4. ProbeInv
    BY DEF ProbeInv, Programs
  <1> QED
    BY <1>1, <1>2, <1>3, <1>4 DEF LocalInv, ThreadInv

\* A thread that is not done has a round to go through.
LEMMA NotDone ==
  ASSUME LocalInv, NEW t \in Threads, pc[t] # "done"
  PROVE  /\ round[t] \in 0 .. Rounds - 1
         /\ round[t] + 1 \in 0 .. Rounds
  BY Constants DEF LocalInv, TypeOK, ThreadInv, Consistent

\* Going to the next round keeps every thread consistent.
LEMMA NextRoundThreads ==
  ASSUME LocalInv, NEW t \in Threads, NextRound(t), UNCHANGED mainVars,
         pc[t] \in {"stop", "leave"}, t = 0 <=> pc[t] = "stop"
  PROVE  ThreadInv'
  <1> SUFFICES ASSUME NEW u \in Threads PROVE Consistent(u)'
    BY DEF ThreadInv
  <1>1. Consistent(u) /\ Consistent(t)
    BY DEF LocalInv, ThreadInv
  <1>2. /\ pc \in [Threads -> PCs] /\ round \in [Threads -> 0 .. Rounds]
        /\ child \in [Threads -> Childs]
    BY DEF LocalInv, TypeOK
  <1>3. round[t] + 1 \in 0 .. Rounds
    BY NotDone
  <1>4. CASE u # t
    <2>1. pc'[u] = pc[u] /\ round'[u] = round[u] /\ child'[u] = child[u]
      BY <1>2, <1>4 DEF NextRound, Goto
    <2> QED
      BY <1>1, <2>1 DEF Consistent, mainVars
  <1>5. CASE u = t
    <2>1. /\ pc'[t] = IF round[t] + 1 < Rounds THEN Entry(t) ELSE "done"
          /\ round'[t] = round[t] + 1
          /\ child'[t] = "none"
      BY <1>2 DEF NextRound, Goto
    <2>2. t < created /\ ~(t < joined)
      BY <1>1, Constants DEF Consistent, LocalInv, TypeOK, Threads
    <2>3. pc'[t] \in {"start", "fork", "done"} /\ (pc'[t] = "start" => t = 0)
      BY <2>1 DEF Entry
    <2>4. pc'[t] = "done" <=> round'[t] = Rounds
      BY <2>1, <1>3, Constants DEF Entry
    <2> QED
      BY <1>5, <2>1, <2>2, <2>3, <2>4, Constants
         DEF Consistent, mainVars, LocalInv, TypeOK, Threads
  <1> QED
    BY <1>4, <1>5

LEMMA LocalNext == LocalInv /\ [Next]_vars => LocalInv'
  <1> SUFFICES ASSUME LocalInv, [Next]_vars PROVE LocalInv'
    OBVIOUS
  <1> USE Constants
      DEF LocalInv, TypeOK, ThreadInv, Consistent, CountInv, ProbeInv, Threads,
          PCs, Childs, Programs, mainVars, locks, probeVars, At, Goto
  <1>1. CASE CreateThread
    BY <1>1 DEF CreateThread, Entry
  <1>2. CASE CreateThreadFails
    BY <1>2 DEF CreateThreadFails, ExitProcess
  <1>3. CASE JoinThread
    BY <1>3 DEF JoinThread
  <1>4. CASE SaveResults
    BY <1>4 DEF SaveResults
  <1>5. CASE StartProbes
    BY <1>5 DEF StartProbes
  <1>6. CASE Gather
    BY <1>6 DEF Gather, WaitFather, Pass
  <1>7. CASE Release
    BY <1>7 DEF Release, Pass
  <1>8. CASE Collect
    BY <1>8 DEF Collect, WaitFather, Pass
  <1>9. CASE Dismiss
    BY <1>9 DEF Dismiss, Pass
  <1>10. CASE StopProbes
    <2>1. round[0] \in 0 .. Rounds - 1 /\ round[0] + 1 \in 0 .. Rounds
      BY <1>10, NotDone DEF StopProbes
    <2> USE <2>1, <1>10 DEF StopProbes, NextRound, Entry
    <2>2. TypeOK'
      <3>1. round' \in [Threads -> 0 .. Rounds]
        OBVIOUS
      <3>2. pc' \in [Threads -> PCs] /\ child' \in [Threads -> Childs]
        OBVIOUS
      <3>3. results' \in [Programs -> 0 .. NbMetaRepet]
        BY DEF Program
      <3> QED
        BY <3>1, <3>2, <3>3
    <2>3. ThreadInv'
      BY NextRoundThreads
    <2>4. CountInv'
      OBVIOUS
    <2>5. ProbeInv'
      BY DEF Program
    <2> QED
      BY <2>2, <2>3, <2>4, <2>5
  <1>11. ASSUME NEW t \in Threads, Fork(t) PROVE LocalInv'
    BY <1>11 DEF Fork
  <1>12. ASSUME NEW t \in Threads, ForkFails(t) PROVE LocalInv'
    BY <1>12 DEF ForkFails, ExitProcess
  <1>13. ASSUME NEW t \in Threads, Reap(t) PROVE LocalInv'
    BY <1>13 DEF Reap, AfterWait
  <1>14. ASSUME NEW t \in Threads, ReapSignaled(t) PROVE LocalInv'
    BY <1>14 DEF ReapSignaled, ExitProcess
  <1>15. ASSUME NEW t \in Threads, PostFather(t) PROVE LocalInv'
    BY <1>15 DEF PostFather
  <1>16. ASSUME NEW t \in Threads, Leave(t) PROVE LocalInv'
    <2>1. /\ t # 0
          /\ round[t] \in 0 .. Rounds - 1 /\ round[t] + 1 \in 0 .. Rounds
      BY <1>16, NotDone DEF Leave
    <2> USE <2>1, <1>16 DEF Leave, NextRound, Entry
    <2>2. TypeOK'
      <3>1. round' \in [Threads -> 0 .. Rounds]
        OBVIOUS
      <3>2. pc' \in [Threads -> PCs] /\ child' \in [Threads -> Childs]
        OBVIOUS
      <3> QED
        BY <3>1, <3>2
    <2>3. ThreadInv'
      BY NextRoundThreads
    <2>4. CountInv'
      OBVIOUS
    <2>5. ProbeInv'
      OBVIOUS
    <2> QED
      BY <2>2, <2>3, <2>4, <2>5
  <1>17. ASSUME NEW t \in Threads, ChildReady(t) PROVE LocalInv'
    BY <1>17 DEF ChildReady
  <1>18. ASSUME NEW t \in Threads, ChildStart(t) PROVE LocalInv'
    BY <1>18 DEF ChildStart
  <1>19. ASSUME NEW t \in Threads, ChildEnd(t) PROVE LocalInv'
    BY <1>19 DEF ChildEnd
  <1>20. CASE UNCHANGED vars
    BY <1>20 DEF vars
  <1> QED
    BY <1>1, <1>2, <1>3, <1>4, <1>5, <1>6, <1>7, <1>8, <1>9, <1>10, <1>11,
       <1>12, <1>13, <1>14, <1>15, <1>16, <1>17, <1>18, <1>19, <1>20
       DEF Next, Main, ThreadZero, Thread, Child

-----------------------------------------------------------------------------
(* Counting threads.                                                       *)

LEMMA CardThreads ==
  /\ IsFiniteSet(Threads) /\ Cardinality(Threads) = NbProcess
  /\ IsFiniteSet(Threads \ {0}) /\ Cardinality(Threads \ {0}) = NbProcess - 1
  <1>1. IsFiniteSet(Threads) /\ Cardinality(Threads) = NbProcess
    BY Constants, FS_Interval DEF Threads
  <1> QED
    BY <1>1, Constants, FS_RemoveElement

\* A set of threads of the size of a set that contains it is that set.
LEMMA CardSubset ==
  ASSUME NEW S \in SUBSET Threads
  PROVE  /\ Cardinality(S) \in 0 .. NbProcess
         /\ Cardinality(S) = NbProcess => S = Threads
         /\ Cardinality(S) = 0 <=> S = {}
  <1>1. IsFiniteSet(S) /\ Cardinality(S) <= NbProcess
    BY CardThreads, FS_Subset
  <1>2. Cardinality(S) \in Nat
    BY <1>1, FS_CardinalityType
  <1> QED
    BY <1>1, <1>2, CardThreads, FS_Subset, FS_EmptySet, Constants

LEMMA CardOthers ==
  ASSUME NEW S \in SUBSET (Threads \ {0})
  PROVE  /\ Cardinality(S) \in 0 .. NbProcess - 1
         /\ Cardinality(S) = NbProcess - 1 => S = Threads \ {0}
  <1>1. IsFiniteSet(S) /\ Cardinality(S) <= NbProcess - 1
    BY CardThreads, FS_Subset
  <1>2. Cardinality(S) \in Nat
    BY <1>1, FS_CardinalityType
  <1> QED
    BY <1>1, <1>2, CardThreads, FS_Subset, Constants

LEMMA CardAdd ==
  ASSUME NEW S \in SUBSET Threads, NEW t \in Threads, t \notin S
  PROVE  Cardinality(S \cup {t}) = Cardinality(S) + 1
  <1>1. IsFiniteSet(S)
    BY CardThreads, FS_Subset
  <1> QED
    BY <1>1, FS_AddElement

LEMMA CardRemove ==
  ASSUME NEW S \in SUBSET Threads, NEW t \in S
  PROVE  Cardinality(S \ {t}) = Cardinality(S) - 1
  <1>1. IsFiniteSet(S)
    BY CardThreads, FS_Subset
  <1> QED
    BY <1>1, FS_RemoveElement

LEMMA Sets ==
  /\ Behind \in SUBSET Threads /\ Ahead \in SUBSET Threads
  /\ ReadyNow \in SUBSET Threads /\ ReadyNext \in SUBSET Threads
  /\ StartedNow \in SUBSET Threads /\ Leaving \in SUBSET Threads
  BY DEF Behind, Ahead, ReadyNow, ReadyNext, StartedNow, Leaving

-----------------------------------------------------------------------------
(* The invariant of the threads and the semaphores together.               *)

\* What is needed of the types.
LEMMA Typed ==
  ASSUME LocalInv
  PROVE  /\ pc \in [Threads -> PCs] /\ child \in [Threads -> Childs]
         /\ round \in [Threads -> 0 .. Rounds]
         /\ \A t \in Threads : round[t] \in Nat
         /\ count \in 0 .. NbProcess - 1
         /\ fatherLock \in Nat /\ processLock \in Nat /\ processEndLock \in Nat
         /\ 0 \in Threads
         /\ \A t \in Threads : Consistent(t)
  BY Constants DEF LocalInv, TypeOK, ThreadInv

\* Thread 0 is in exactly one of the three stages.
LEMMA Stages ==
  ASSUME LocalInv
  PROVE  /\ Before \/ Running \/ After
         /\ ~(Before /\ Running) /\ ~(Before /\ After) /\ ~(Running /\ After)
  BY Typed DEF Before, Running, After, PCs, Consistent

LEMMA SyncInit == Init => SyncInv
  <1> SUFFICES ASSUME Init PROVE SyncInv
    OBVIOUS
  <1>1. /\ \A t \in Threads : round[t] = 0 /\ child[t] = "none" /\ pc[t] = "idle"
        /\ 0 \in Threads
        /\ fatherLock = 0 /\ processLock = 0 /\ processEndLock = 0
    BY Constants DEF Init
  <1>2. Behind = {} /\ ReadyNow = {}
    BY <1>1 DEF Behind, ReadyNow
  <1>3. Cardinality(Behind) = 0 /\ Cardinality(ReadyNow) = 0
    BY <1>2, FS_EmptySet
  <1> QED
    BY <1>1, <1>3 DEF SyncInv, Before, Running, After, BeforeInv, Started, Passes

\* Steps that change nothing of what SyncInv is about.
LEMMA SyncFrame ==
  ASSUME SyncInv, UNCHANGED << pc, round, count, child, locks >>
  PROVE  SyncInv'
  BY DEF SyncInv, Before, Running, After, BeforeInv, RunningInv, AfterInv,
         Behind, Ahead, ReadyNow, ReadyNext, StartedNow, Leaving, Passes,
         Started, LinedUp, locks

LEMMA SyncChildReady ==
  ASSUME LocalInv, SyncInv, NEW t \in Threads, ChildReady(t)
  PROVE  SyncInv'
  <1>1. /\ child[t] = "forked" /\ child' = [child EXCEPT ![t] = "ready"]
        /\ fatherLock' = fatherLock + 1
        /\ pc' = pc /\ round' = round /\ count' = count
        /\ processLock' = processLock /\ processEndLock' = processEndLock
    BY DEF ChildReady
  <1>2. /\ child'[t] = "ready"
        /\ \A u \in Threads : u # t => child'[u] = child[u]
        /\ \A u \in Threads : Started(u)' <=> Started(u)
    BY <1>1, Typed DEF Started
  <1>3. (Before' <=> Before) /\ (Running' <=> Running) /\ (After' <=> After)
    BY <1>1 DEF Before, Running, After
  <1>4. CASE Before
    <2>1. BeforeInv
      BY <1>4 DEF SyncInv
    <2>2. round[t] = round[0]
      BY <2>1, <1>1, Typed DEF BeforeInv, Consistent
    <2>3. ReadyNow' = ReadyNow \cup {t} /\ t \notin ReadyNow
      BY <1>1, <1>2, <2>2 DEF ReadyNow
    <2>4. Behind' = Behind /\ Passes("gather")' = Passes("gather")
      BY <1>1 DEF Behind, Passes
    <2>5. Cardinality(ReadyNow') = Cardinality(ReadyNow) + 1
      BY <2>3, CardAdd, Sets
    <2>6. BeforeInv'
      BY <1>1, <1>2, <2>1, <2>4, <2>5, Typed, Sets, CardSubset
         DEF BeforeInv, Passes
    <2> QED
      BY <1>3, <1>4, <2>6, Stages DEF SyncInv
  <1>5. CASE Running
    BY <1>1, <1>5 DEF SyncInv, RunningInv, LinedUp
  <1>6. CASE After
    <2>1. AfterInv
      BY <1>6 DEF SyncInv
    <2>2. round[t] > round[0]
      BY <2>1, <1>1, <1>6, Typed DEF AfterInv, Consistent, After
    <2>3. ReadyNext' = ReadyNext \cup {t} /\ t \notin ReadyNext
      BY <1>1, <1>2, <2>2 DEF ReadyNext
    <2>4. Ahead' = Ahead
      BY <1>1 DEF Ahead
    <2>5. Cardinality(ReadyNext') = Cardinality(ReadyNext) + 1
      BY <2>3, CardAdd, Sets
    <2>6. AfterInv'
      BY <1>1, <1>2, <2>1, <2>4, <2>5 DEF AfterInv
    <2> QED
      BY <1>3, <1>6, <2>6, Stages DEF SyncInv
  <1> QED
    BY <1>4, <1>5, <1>6, Stages

\* The child passes the start, or ends after it.
LEMMA SyncChildStart ==
  ASSUME LocalInv, SyncInv, NEW t \in Threads, ChildStart(t)
  PROVE  SyncInv'
  <1>1. /\ child[t] = "ready" /\ processLock > 0
        /\ processLock' = processLock - 1
        /\ pc' = pc /\ round' = round /\ count' = count
        /\ fatherLock' = fatherLock /\ processEndLock' = processEndLock
    BY DEF ChildStart
  <1>2. PICK s \in {"running", "exited"} : child' = [child EXCEPT ![t] = s]
    BY DEF ChildStart
  <1>3. Running
    BY <1>1, Stages DEF SyncInv, BeforeInv, AfterInv
  <1>4. RunningInv
    BY <1>3 DEF SyncInv
  <1>5. /\ child'[t] \in {"running", "exited"}
        /\ \A u \in Threads : u # t => child'[u] = child[u]
    BY <1>2, Typed
  <1>6. StartedNow' = StartedNow \cup {t} /\ t \notin StartedNow
    BY <1>1, <1>5 DEF StartedNow, Started
  <1>7. Cardinality(StartedNow') = Cardinality(StartedNow) + 1
    BY <1>6, CardAdd, Sets
  <1>8. Leaving' = Leaving /\ Passes("collect")' = Passes("collect")
    BY <1>1 DEF Leaving, Passes
  <1>9. \A u \in Threads : LinedUp(u)'
    BY <1>4, <1>5 DEF RunningInv, LinedUp
  <1>10. RunningInv'
    BY <1>1, <1>4, <1>7, <1>8, <1>9, Typed, Sets, CardSubset, Constants
       DEF RunningInv
  <1> QED
    BY <1>1, <1>3, <1>10, Stages DEF SyncInv, Before, Running, After

LEMMA SyncChildEnd ==
  ASSUME LocalInv, SyncInv, NEW t \in Threads, ChildEnd(t)
  PROVE  SyncInv'
  <1>1. /\ child[t] = "running"
        /\ UNCHANGED << pc, round, count, locks >>
    BY DEF ChildEnd
  <1>2. PICK s \in {"exited", "signaled"} : child' = [child EXCEPT ![t] = s]
    BY DEF ChildEnd
  <1>3. /\ \A u \in Threads : Started(u)' <=> Started(u)
        /\ \A u \in Threads : LinedUp(u)' <=> LinedUp(u)
        /\ \A u \in Threads : child'[u] = "ready" <=> child[u] = "ready"
    BY <1>1, <1>2, Typed DEF Started, LinedUp
  <1>4. /\ StartedNow' = StartedNow /\ ReadyNow' = ReadyNow
        /\ ReadyNext' = ReadyNext
    BY <1>1, <1>3 DEF StartedNow, ReadyNow, ReadyNext
  <1>5. Behind' = Behind /\ Ahead' = Ahead /\ Leaving' = Leaving
    BY <1>1 DEF Behind, Ahead, Leaving
  <1> QED
    BY <1>1, <1>3, <1>4, <1>5
       DEF SyncInv, Before, Running, After, BeforeInv, RunningInv, AfterInv,
           Passes, locks

\* Steps of a thread that change neither a round nor a semaphore, nor who is
\* leaving, ready or started.
LEMMA SyncMove ==
  ASSUME LocalInv, SyncInv, NEW t \in Threads, NEW p, pc' = [pc EXCEPT ![t] = p],
         UNCHANGED << round, count, locks >>,
         pc[t] # "leave", p # "leave",
         \A u \in Threads : /\ child'[u] = "ready" <=> child[u] = "ready"
                            /\ Started(u)' <=> Started(u)
                            /\ LinedUp(u) => LinedUp(u)',
         t = 0 => \/ pc[0] \in {"idle", "start", "fork"}
                     /\ p \in {"start", "fork", "gather"}
                  \/ pc[0] = "wait" /\ p = "collect",
         t = 0 => count = 0
  PROVE  SyncInv'
  <1>1. /\ \A u \in Threads : u # t => pc'[u] = pc[u]
        /\ pc'[t] = p
        /\ \A u \in Threads : pc'[u] = "leave" <=> pc[u] = "leave"
    BY Typed
  <1>2. /\ StartedNow' = StartedNow /\ ReadyNow' = ReadyNow
        /\ ReadyNext' = ReadyNext /\ Leaving' = Leaving
    BY <1>1 DEF StartedNow, ReadyNow, ReadyNext, Leaving
  <1>3. Behind' = Behind /\ Ahead' = Ahead
    BY DEF Behind, Ahead
  <1>4. (Before' <=> Before) /\ (Running' <=> Running) /\ (After' <=> After)
    BY <1>1, Typed DEF Before, Running, After
  <1>5. CASE Before
    <2>1. BeforeInv /\ Passes("gather")' = Passes("gather")
      BY <1>1, <1>5, Typed, Constants DEF SyncInv, Before, Passes
    <2> QED
      BY <1>1, <1>2, <1>3, <1>4, <1>5, <2>1, Stages DEF SyncInv, BeforeInv, locks
  <1>6. CASE Running
    <2>1. /\ RunningInv /\ Passes("collect")' = Passes("collect")
          /\ pc'[0] = "release" <=> pc[0] = "release"
      BY <1>1, <1>6, Typed, Constants DEF SyncInv, Running, Passes
    <2> QED
      BY <1>1, <1>2, <1>3, <1>4, <1>6, <2>1, Stages
         DEF SyncInv, RunningInv, locks
  <1>7. CASE After
    <2>1. AfterInv /\ t # 0 /\ pc'[0] = pc[0]
      BY <1>1, <1>7, Typed, Constants DEF SyncInv, After
    <2> QED
      BY <1>1, <1>2, <1>3, <1>4, <1>7, <2>1, Stages DEF SyncInv, AfterInv, locks
  <1> QED
    BY <1>5, <1>6, <1>7, Stages

LEMMA SyncCreateThread ==
  ASSUME LocalInv, SyncInv, CreateThread
  PROVE  SyncInv'
  <1>1. created \in Threads
    BY Constants DEF CreateThread, LocalInv, TypeOK, Threads
  <1>2. pc[created] = "idle"
    BY <1>1, Typed, Constants DEF Consistent, Threads
  <1>3. /\ pc' = [pc EXCEPT ![created] = Entry(created)]
        /\ UNCHANGED << round, count, child, locks >>
    BY DEF CreateThread, Goto
  <1>4. /\ Entry(created) \in {"start", "fork"}
    BY DEF Entry
  <1>5. created = 0 => count = 0
    BY <1>2 DEF LocalInv, CountInv
  <1> QED
    BY <1>1, <1>2, <1>3, <1>4, <1>5, SyncMove DEF Started, LinedUp

LEMMA SyncStartProbes ==
  ASSUME LocalInv, SyncInv, StartProbes
  PROVE  SyncInv'
  <1>1. /\ pc[0] = "start" /\ pc' = [pc EXCEPT ![0] = "fork"]
        /\ UNCHANGED << round, count, child, locks >>
    BY DEF StartProbes, At, Goto
  <1>2. count = 0
    BY <1>1 DEF LocalInv, CountInv
  <1> QED
    BY <1>1, <1>2, SyncMove, Constants DEF Started, LinedUp

LEMMA SyncFork ==
  ASSUME LocalInv, SyncInv, NEW t \in Threads, Fork(t)
  PROVE  SyncInv'
  <1> DEFINE p == IF t = 0 THEN "gather" ELSE "wait"
  <1>1. /\ pc[t] = "fork" /\ pc' = [pc EXCEPT ![t] = p]
        /\ child' = [child EXCEPT ![t] = "forked"]
        /\ UNCHANGED << round, count, locks >>
    BY DEF Fork, At, Goto
  <1>2. child[t] = "none"
    BY <1>1, Typed DEF Consistent
  <1>3. /\ child'[t] = "forked"
        /\ \A u \in Threads : u # t => child'[u] = child[u]
    BY <1>1, Typed
  <1>4. \A u \in Threads : /\ child'[u] = "ready" <=> child[u] = "ready"
                           /\ Started(u)' <=> Started(u)
                           /\ LinedUp(u) => LinedUp(u)'
    BY <1>2, <1>3 DEF Started, LinedUp
  <1>5. t = 0 => count = 0
    BY <1>1 DEF LocalInv, CountInv
  <1>6. p # "leave" /\ (t = 0 => p = "gather")
    OBVIOUS
  <1> HIDE DEF p
  <1> QED
    BY <1>1, <1>4, <1>5, <1>6, SyncMove

\* Every child has started: no start is left over.
LEMMA AllStarted ==
  ASSUME LocalInv, RunningInv, pc[0] # "release",
         \A t \in Threads : child[t] = "exited"
  PROVE  processLock = 0
  <1>1. StartedNow = Threads
    BY DEF StartedNow, Started
  <1>2. Cardinality(StartedNow) = NbProcess
    BY <1>1, CardThreads
  <1> QED
    BY <1>2, Typed, Constants DEF RunningInv

LEMMA SyncReap ==
  ASSUME LocalInv, SyncInv, NEW t \in Threads, Reap(t)
  PROVE  SyncInv'
  <1>1. /\ pc[t] = "wait" /\ child[t] = "exited"
        /\ pc' = [pc EXCEPT ![t] = AfterWait(t)]
        /\ UNCHANGED << round, count, child, locks >>
    BY DEF Reap, At, Goto
  <1>2. t = 0 => count = 0
    BY <1>1 DEF LocalInv, CountInv
  <1>3. CASE t # 0 \/ NbProcess # 1
    <2>1. /\ AfterWait(t) # "leave"
          /\ t = 0 => AfterWait(t) = "collect"
      BY <1>3 DEF AfterWait
    <2> HIDE DEF AfterWait
    <2> QED
      BY <1>1, <1>2, <2>1, SyncMove DEF Started, LinedUp
  <1>4. CASE t = 0 /\ NbProcess = 1
    <2>1. Threads = {0}
      BY <1>4 DEF Threads
    <2>2. pc'[0] = "stop"
      BY <1>1, <1>4, Typed DEF AfterWait
    <2>3. RunningInv
      BY <1>1, <1>4 DEF SyncInv, Running
    <2>4. processLock = 0
      BY <1>1, <1>4, <2>1, <2>3, AllStarted
    <2>5. Leaving = {} /\ ReadyNext' = {} /\ Ahead' = {}
      BY <1>1, <1>4, <2>1, Typed DEF Leaving, ReadyNext, Ahead
    <2>6. fatherLock = 0
      BY <1>1, <1>4, <2>3, <2>5, FS_EmptySet, Typed DEF RunningInv, Passes
    <2>7. processEndLock = 0
      BY <2>3 DEF RunningInv
    <2>8. AfterInv'
      BY <1>1, <1>4, <2>1, <2>2, <2>4, <2>5, <2>6, <2>7, FS_EmptySet
         DEF AfterInv, locks
    <2> QED
      BY <2>2, <2>8 DEF SyncInv, Before, Running, After
  <1> QED
    BY <1>3, <1>4

LEMMA SyncPostFather ==
  ASSUME LocalInv, SyncInv, NEW t \in Threads, PostFather(t)
  PROVE  SyncInv'
  <1>1. /\ pc[t] = "post" /\ pc' = [pc EXCEPT ![t] = "leave"]
        /\ fatherLock' = fatherLock + 1
        /\ UNCHANGED << round, count, child, processLock, processEndLock >>
    BY DEF PostFather, At, Goto
  <1>2. t # 0 /\ child[t] = "exited"
    BY <1>1, Typed DEF Consistent
  <1>3. /\ pc'[t] = "leave" /\ pc'[0] = pc[0]
        /\ \A u \in Threads : u # t => pc'[u] = pc[u]
    BY <1>1, <1>2, Typed
  <1>4. Running
    BY <1>1, <1>2, Stages, Typed DEF SyncInv, BeforeInv, AfterInv, Started
  <1>5. RunningInv
    BY <1>4 DEF SyncInv
  <1>6. Leaving' = Leaving \cup {t} /\ t \notin Leaving
    BY <1>1, <1>3 DEF Leaving
  <1>7. Cardinality(Leaving') = Cardinality(Leaving) + 1
    BY <1>6, CardAdd, Sets
  <1>8. StartedNow' = StartedNow /\ Passes("collect")' = Passes("collect")
    BY <1>1, <1>3 DEF StartedNow, Started, Passes
  <1>9. \A u \in Threads : LinedUp(u)' <=> LinedUp(u)
    BY <1>1 DEF LinedUp
  <1>10. Passes("collect") \in Nat /\ Cardinality(Leaving) \in Nat
    BY Typed, Sets, CardSubset DEF Passes
  <1>11. RunningInv'
    BY <1>1, <1>3, <1>5, <1>7, <1>8, <1>9, <1>10, Typed DEF RunningInv
  <1> QED
    BY <1>3, <1>4, <1>11, Stages DEF SyncInv, Before, Running, After

LEMMA SyncLeave ==
  ASSUME LocalInv, SyncInv, NEW t \in Threads, Leave(t)
  PROVE  SyncInv'
  <1>1. /\ pc[t] = "leave" /\ processEndLock > 0
        /\ processEndLock' = processEndLock - 1
        /\ round' = [round EXCEPT ![t] = @ + 1]
        /\ child' = [child EXCEPT ![t] = "none"]
        /\ UNCHANGED << count, fatherLock, processLock >>
    BY DEF Leave, NextRound, At
  <1>2. t # 0 /\ child[t] = "exited"
    BY <1>1, Typed DEF Consistent
  <1>3. /\ pc'[0] = pc[0]
        /\ \A u \in Threads : u # t => pc'[u] = pc[u]
    BY <1>2, Typed DEF Leave, NextRound, Goto
  <1>4. /\ round'[t] = round[t] + 1 /\ child'[t] = "none"
        /\ \A u \in Threads : u # t => round'[u] = round[u] /\ child'[u] = child[u]
        /\ round'[0] = round[0]
    BY <1>1, <1>2, Typed
  <1>5. (Before' <=> Before) /\ (Running' <=> Running) /\ (After' <=> After)
    BY <1>3 DEF Before, Running, After
  <1>6. CASE Before
    <2>1. BeforeInv
      BY <1>6 DEF SyncInv
    <2>2. round[t] = round[0] - 1
      BY <1>2, <2>1 DEF BeforeInv, Started
    <2>3. Behind' = Behind \ {t} /\ t \in Behind
      BY <1>4, <2>2, Typed DEF Behind
    <2>4. Cardinality(Behind') = Cardinality(Behind) - 1
      BY <2>3, CardRemove, Sets
    <2>5. ReadyNow' = ReadyNow
      BY <1>2, <1>4, <2>2 DEF ReadyNow
    <2>6. Passes("gather")' = Passes("gather")
      BY <1>1, <1>3 DEF Passes
    <2>7. ASSUME NEW u \in Threads
          PROVE  \/ round'[u] = round'[0] /\ ~Started(u)'
                 \/ round'[u] = round'[0] - 1 /\ pc'[u] = "leave"
      BY <1>3, <1>4, <2>1, <2>2, Typed DEF BeforeInv, Started
    <2>8. BeforeInv'
      BY <1>1, <2>1, <2>4, <2>5, <2>6, <2>7 DEF BeforeInv
    <2> QED
      BY <1>5, <1>6, <2>8, Stages DEF SyncInv
  <1>7. CASE Running
    BY <1>1, <1>7 DEF SyncInv, RunningInv
  <1>8. CASE After
    <2>1. AfterInv
      BY <1>8 DEF SyncInv
    <2>2. round[t] = round[0]
      BY <1>2, <2>1 DEF AfterInv, Started
    <2>3. Ahead' = Ahead \cup {t} /\ t \notin Ahead
      BY <1>4, <2>2, Typed DEF Ahead
    <2>4. Cardinality(Ahead') = Cardinality(Ahead) + 1
      BY <2>3, CardAdd, Sets
    <2>5. ReadyNext' = ReadyNext
      BY <1>2, <1>4, <2>2, Typed DEF ReadyNext
    <2>6. ASSUME NEW u \in Threads
          PROVE  \/ round'[u] = round'[0] /\ (u = 0 \/ pc'[u] = "leave")
                 \/ round'[u] = round'[0] + 1 /\ ~Started(u)'
      BY <1>3, <1>4, <2>1, <2>2, Typed DEF AfterInv, Started
    <2>7. Cardinality(Ahead) \in Nat
      BY Sets, CardSubset
    <2>8. AfterInv'
      BY <1>1, <1>3, <2>1, <2>4, <2>5, <2>6, <2>7, Typed DEF AfterInv
    <2> QED
      BY <1>5, <1>8, <2>8, Stages DEF SyncInv
  <1> QED
    BY <1>6, <1>7, <1>8, Stages

\* Thread 0 takes the token of a ready child; with the last one all the
\* children are ready, and the stage changes.
LEMMA SyncGather ==
  ASSUME LocalInv, SyncInv, Gather
  PROVE  SyncInv'
  <1>1. /\ pc[0] = "gather" /\ fatherLock > 0
        /\ fatherLock' = fatherLock - 1
        /\ UNCHANGED << round, child, processLock, processEndLock >>
    BY DEF Gather, WaitFather, Pass, At
  <1>2. /\ \A u \in Threads : u # 0 => pc'[u] = pc[u]
        /\ pc'[0] = IF count + 1 = NbProcess THEN "release" ELSE "gather"
        /\ count' = IF count + 1 = NbProcess THEN 0 ELSE count + 1
    BY Typed DEF Gather, WaitFather, Pass, Goto
  <1>3. BeforeInv
    BY <1>1 DEF SyncInv, Before
  <1>4. fatherLock + count = Cardinality(ReadyNow)
    BY <1>1, <1>3 DEF BeforeInv, Passes
  <1>5. ReadyNow' = ReadyNow /\ Behind' = Behind
    BY <1>1 DEF ReadyNow, Behind
  <1>6. CASE count + 1 # NbProcess
    <2>1. pc'[0] = "gather" /\ Passes("gather")' = count + 1
      BY <1>2, <1>6 DEF Passes
    <2>2. \A u \in Threads : Started(u)' <=> Started(u)
      BY <1>1 DEF Started
    <2>3. ASSUME NEW u \in Threads
          PROVE  \/ round'[u] = round'[0] /\ ~Started(u)'
                 \/ round'[u] = round'[0] - 1 /\ pc'[u] = "leave"
      BY <1>1, <1>2, <1>3, <2>2, Typed DEF BeforeInv
    <2>4. BeforeInv'
      BY <1>1, <1>3, <1>4, <1>5, <2>1, <2>3, Typed DEF BeforeInv
    <2> QED
      BY <2>1, <2>4 DEF SyncInv, Before, Running, After
  <1>7. CASE count + 1 = NbProcess
    <2>1. pc'[0] = "release" /\ count' = 0
      BY <1>2, <1>7
    <2>2. Cardinality(ReadyNow) = NbProcess /\ fatherLock' = 0
      BY <1>1, <1>4, <1>7, Typed, Sets, CardSubset, Constants
    <2>3. ReadyNow = Threads
      BY <2>2, Sets, CardSubset
    <2>4. \A u \in Threads : round[u] = round[0] /\ child[u] = "ready"
      BY <2>3 DEF ReadyNow
    <2>5. \A u \in Threads : round'[u] = round'[0] /\ LinedUp(u)'
      BY <1>1, <2>4 DEF LinedUp
    <2>6. Behind = {} /\ StartedNow' = {}
      BY <1>1, <2>4, Typed DEF Behind, StartedNow, Started
    <2>7. Leaving' = {}
      BY <1>2, <2>1, <2>4, Typed DEF Leaving, Consistent
    <2>8. RunningInv'
      BY <1>1, <1>3, <2>1, <2>2, <2>5, <2>6, <2>7, FS_EmptySet
         DEF RunningInv, BeforeInv, Passes
    <2> QED
      BY <2>1, <2>8 DEF SyncInv, Before, Running, After
  <1> QED
    BY <1>6, <1>7

LEMMA SyncRelease ==
  ASSUME LocalInv, SyncInv, Release
  PROVE  SyncInv'
  <1>1. /\ pc[0] = "release" /\ processLock' = processLock + 1
        /\ UNCHANGED << round, child, fatherLock, processEndLock >>
    BY DEF Release, Pass, At
  <1>2. /\ \A u \in Threads : u # 0 => pc'[u] = pc[u]
        /\ pc'[0] = IF count + 1 = NbProcess THEN "wait" ELSE "release"
        /\ count' = IF count + 1 = NbProcess THEN 0 ELSE count + 1
    BY Typed DEF Release, Pass, Goto
  <1>3. RunningInv
    BY <1>1 DEF SyncInv, Running
  <1>4. Leaving' = Leaving
    BY <1>1, <1>2 DEF Leaving
  <1>5. StartedNow' = StartedNow /\ Cardinality(StartedNow) \in Nat
    BY <1>1, Sets, CardSubset DEF StartedNow, Started
  <1>6. Passes("collect")' = 0 /\ Passes("collect") = 0
    BY <1>1, <1>2 DEF Passes
  <1>7. \A u \in Threads : LinedUp(u)' <=> LinedUp(u)
    BY <1>1 DEF LinedUp
  <1>8. processLock' + Cardinality(StartedNow') =
          IF pc'[0] = "release" THEN count' ELSE NbProcess
    BY <1>1, <1>2, <1>3, <1>5, Typed DEF RunningInv
  <1>9. RunningInv'
    BY <1>1, <1>3, <1>4, <1>6, <1>7, <1>8 DEF RunningInv
  <1> QED
    BY <1>2, <1>9 DEF SyncInv, Before, Running, After

\* Thread 0 takes the token of a thread that has finished; with the last one
\* all the children have ended, and the stage changes.
LEMMA SyncCollect ==
  ASSUME LocalInv, SyncInv, Collect
  PROVE  SyncInv'
  <1>1. /\ pc[0] = "collect" /\ fatherLock > 0
        /\ fatherLock' = fatherLock - 1
        /\ UNCHANGED << round, child, processLock, processEndLock >>
    BY DEF Collect, WaitFather, Pass, At
  <1>2. /\ \A u \in Threads : u # 0 => pc'[u] = pc[u]
        /\ pc'[0] = IF count + 1 = NbProcess - 1 THEN "dismiss" ELSE "collect"
        /\ count' = IF count + 1 = NbProcess - 1 THEN 0 ELSE count + 1
    BY Typed DEF Collect, WaitFather, Pass, Goto
  <1>3. RunningInv
    BY <1>1 DEF SyncInv, Running
  <1>4. fatherLock + count = Cardinality(Leaving)
    BY <1>1, <1>3 DEF RunningInv, Passes
  <1>5. CASE count + 1 # NbProcess - 1
    <2>1. pc'[0] = "collect" /\ Passes("collect")' = count + 1
      BY <1>2, <1>5 DEF Passes
    <2>2. Leaving' = Leaving /\ StartedNow' = StartedNow
      BY <1>1, <1>2, <2>1 DEF Leaving, StartedNow, Started
    <2>3. \A u \in Threads : LinedUp(u)' <=> LinedUp(u)
      BY <1>1 DEF LinedUp
    <2>4. RunningInv'
      BY <1>1, <1>3, <1>4, <2>1, <2>2, <2>3, Typed DEF RunningInv
    <2> QED
      BY <2>1, <2>4 DEF SyncInv, Before, Running, After
  <1>6. CASE count + 1 = NbProcess - 1
    <2>1. pc'[0] = "dismiss" /\ count' = 0
      BY <1>2, <1>6
    <2>2. Leaving \in SUBSET (Threads \ {0})
      BY <1>1 DEF Leaving
    <2>3. Cardinality(Leaving) = NbProcess - 1 /\ fatherLock' = 0
      BY <1>1, <1>4, <1>6, <2>2, Typed, CardOthers, Constants
    <2>4. Leaving = Threads \ {0}
      BY <2>2, <2>3, CardOthers
    <2>5. \A u \in Threads : u # 0 => pc[u] = "leave"
      BY <2>4 DEF Leaving
    <2>6. \A u \in Threads : child[u] = "exited"
      BY <1>1, <2>5, Typed DEF Consistent
    <2>7. processLock = 0
      BY <1>1, <1>3, <2>6, AllStarted
    <2>8. ReadyNext' = {} /\ Ahead' = {}
      BY <1>1, <1>3, Typed DEF ReadyNext, Ahead, RunningInv
    <2>9. ASSUME NEW u \in Threads
          PROVE  round'[u] = round'[0] /\ (u = 0 \/ pc'[u] = "leave")
      BY <1>1, <1>2, <1>3, <2>5 DEF RunningInv
    <2>10. AfterInv'
      BY <1>1, <1>3, <2>1, <2>3, <2>7, <2>8, <2>9, FS_EmptySet
         DEF AfterInv, RunningInv
    <2> QED
      BY <2>1, <2>10 DEF SyncInv, Before, Running, After
  <1> QED
    BY <1>5, <1>6

LEMMA SyncDismiss ==
  ASSUME LocalInv, SyncInv, Dismiss
  PROVE  SyncInv'
  <1>1. /\ pc[0] = "dismiss" /\ processEndLock' = processEndLock + 1
        /\ UNCHANGED << round, child, fatherLock, processLock >>
    BY DEF Dismiss, Pass, At
  <1>2. /\ \A u \in Threads : u # 0 => pc'[u] = pc[u]
        /\ pc'[0] = IF count + 1 = NbProcess - 1 THEN "stop" ELSE "dismiss"
        /\ count' = IF count + 1 = NbProcess - 1 THEN 0 ELSE count + 1
    BY Typed DEF Dismiss, Pass, Goto
  <1>3. AfterInv
    BY <1>1 DEF SyncInv, After
  <1>4. /\ ReadyNext' = ReadyNext /\ Ahead' = Ahead
        /\ Cardinality(Ahead) \in Nat
    BY <1>1, Sets, CardSubset DEF ReadyNext, Ahead
  <1>5. \A u \in Threads : Started(u)' <=> Started(u)
    BY <1>1 DEF Started
  <1>6. ASSUME NEW u \in Threads
        PROVE  \/ round'[u] = round'[0] /\ (u = 0 \/ pc'[u] = "leave")
               \/ round'[u] = round'[0] + 1 /\ ~Started(u)'
    BY <1>1, <1>2, <1>3, <1>5 DEF AfterInv
  <1>7. processEndLock' + Cardinality(Ahead') =
          IF pc'[0] = "dismiss" THEN count' ELSE NbProcess - 1
    BY <1>1, <1>2, <1>3, <1>4, Typed DEF AfterInv
  <1>8. AfterInv'
    BY <1>1, <1>3, <1>4, <1>6, <1>7 DEF AfterInv
  <1> QED
    BY <1>2, <1>8 DEF SyncInv, Before, Running, After

\* Thread 0 goes to the next round: those it left behind are behind, and
\* those that were ahead are with it.
LEMMA SyncStopProbes ==
  ASSUME LocalInv, SyncInv, StopProbes
  PROVE  SyncInv'
  <1>1. /\ pc[0] = "stop"
        /\ round' = [round EXCEPT ![0] = @ + 1]
        /\ child' = [child EXCEPT ![0] = "none"]
        /\ UNCHANGED << count, locks >>
    BY DEF StopProbes, NextRound, At
  <1>2. /\ \A u \in Threads : u # 0 => pc'[u] = pc[u]
        /\ pc'[0] \in {"start", "done"}
    BY Typed DEF StopProbes, NextRound, Goto, Entry
  <1>3. /\ round'[0] = round[0] + 1 /\ child'[0] = "none"
        /\ \A u \in Threads : u # 0 => round'[u] = round[u] /\ child'[u] = child[u]
    BY <1>1, Typed
  <1>4. AfterInv
    BY <1>1 DEF SyncInv, After
  <1>5. child[0] = "exited"
    BY <1>1, Typed DEF Consistent
  <1>6. Behind' = (Threads \ {0}) \ Ahead
    BY <1>3, <1>4, Typed DEF Behind, Ahead, AfterInv
  <1>7. Cardinality(Behind') = NbProcess - 1 - Cardinality(Ahead)
    <2>1. Ahead \in SUBSET (Threads \ {0})
      BY Typed DEF Ahead
    <2>2. IsFiniteSet(Ahead) /\ IsFiniteSet(Behind')
      BY <1>6, <2>1, CardThreads, FS_Subset
    <2>3. Ahead \cup Behind' = Threads \ {0} /\ Ahead \cap Behind' = {}
      BY <1>6, <2>1
    <2>4. /\ Cardinality(Ahead) \in Nat /\ Cardinality(Behind') \in Nat
          /\ Cardinality(Threads \ {0}) =
               Cardinality(Ahead) + Cardinality(Behind') - Cardinality({})
      BY <2>2, <2>3, FS_Union, FS_CardinalityType
    <2> QED
      BY <2>4, CardThreads, FS_EmptySet, Constants
  <1>8. ReadyNow' = ReadyNext
    BY <1>3, <1>4, <1>5, Typed DEF ReadyNow, ReadyNext, AfterInv, Started
  <1>9. ASSUME NEW u \in Threads
        PROVE  \/ round'[u] = round'[0] /\ ~Started(u)'
               \/ round'[u] = round'[0] - 1 /\ pc'[u] = "leave"
    BY <1>2, <1>3, <1>4, Typed DEF AfterInv, Started
  <1>10. Passes("gather")' = 0
    BY <1>2 DEF Passes
  <1>11. processEndLock' = Cardinality(Behind')
    BY <1>1, <1>4, <1>7, Typed, Sets, CardSubset, Constants DEF AfterInv, locks
  <1>12. BeforeInv'
    BY <1>1, <1>4, <1>8, <1>9, <1>10, <1>11, Typed DEF BeforeInv, AfterInv, locks
  <1> QED
    BY <1>2, <1>12 DEF SyncInv, Before, Running, After

LEMMA SyncNext == LocalInv /\ SyncInv /\ [Next]_vars => SyncInv'
  <1> SUFFICES ASSUME LocalInv, SyncInv, [Next]_vars PROVE SyncInv'
    OBVIOUS
  <1>1. CASE CreateThread
    BY <1>1, SyncCreateThread
  <1>2. CASE CreateThreadFails \/ JoinThread \/ SaveResults
    BY <1>2, SyncFrame
       DEF CreateThreadFails, ExitProcess, JoinThread, SaveResults
  <1>3. CASE StartProbes
    BY <1>3, SyncStartProbes
  <1>4. CASE Gather
    BY <1>4, SyncGather
  <1>5. CASE Release
    BY <1>5, SyncRelease
  <1>6. CASE Collect
    BY <1>6, SyncCollect
  <1>7. CASE Dismiss
    BY <1>7, SyncDismiss
  <1>8. CASE StopProbes
    BY <1>8, SyncStopProbes
  <1>9. ASSUME NEW t \in Threads, Fork(t) PROVE SyncInv'
    BY <1>9, SyncFork
  <1>10. ASSUME NEW t \in Threads, ForkFails(t) \/ ReapSignaled(t)
         PROVE  SyncInv'
    BY <1>10, SyncFrame DEF ForkFails, ReapSignaled, ExitProcess
  <1>11. ASSUME NEW t \in Threads, Reap(t) PROVE SyncInv'
    BY <1>11, SyncReap
  <1>12. ASSUME NEW t \in Threads, PostFather(t) PROVE SyncInv'
    BY <1>12, SyncPostFather
  <1>13. ASSUME NEW t \in Threads, Leave(t) PROVE SyncInv'
    BY <1>13, SyncLeave
  <1>14. ASSUME NEW t \in Threads, ChildReady(t) PROVE SyncInv'
    BY <1>14, SyncChildReady
  <1>15. ASSUME NEW t \in Threads, ChildStart(t) PROVE SyncInv'
    BY <1>15, SyncChildStart
  <1>16. ASSUME NEW t \in Threads, ChildEnd(t) PROVE SyncInv'
    BY <1>16, SyncChildEnd
  <1>17. CASE UNCHANGED vars
    BY <1>17, SyncFrame DEF vars
  <1> QED
    BY <1>1, <1>2, <1>3, <1>4, <1>5, <1>6, <1>7, <1>8, <1>9, <1>10, <1>11,
       <1>12, <1>13, <1>14, <1>15, <1>16, <1>17
       DEF Next, Main, ThreadZero, Thread, Child

-----------------------------------------------------------------------------
(* The theorems.                                                           *)

\* Whatever the number of threads and of measurements, every step of the
\* threads, the children and the main thread preserves the invariant: what
\* each thread can tell for itself, and where the tokens of the three
\* semaphores are.
THEOREM InductiveInvariant == Spec => []IInv
  <1>1. Init => IInv
    BY LocalInit, SyncInit DEF IInv
  <1>2. IInv /\ [Next]_vars => IInv'
    BY LocalNext, SyncNext DEF IInv
  <1> QED
    BY <1>1, <1>2, PTL DEF Spec

\* No loop counter, round, join count or number of kept measurements leaves
\* its range, and no semaphore is ever taken below zero.
THEOREM TypeCorrect == Spec => []TypeOK
  <1>1. IInv => TypeOK
    BY DEF IInv, LocalInv
  <1> QED
    BY <1>1, InductiveInvariant, PTL

\* The copies start together: when the child of a thread has passed
\* m_processLock, the children of all the threads stand at the start of that
\* round, or their threads have already left it.
THEOREM StartsTogether == Spec => []StartTogether
  <1>1. ASSUME IInv PROVE StartTogether
    <2> SUFFICES ASSUME NEW t \in Threads, NEW u \in Threads, Started(t)
                 PROVE  \/ round[u] > round[t]
                        \/ round[u] = round[t] /\ LinedUp(u)
      BY DEF StartTogether
    <2>1. LocalInv /\ SyncInv
      BY <1>1 DEF IInv
    <2>2. Consistent(u) /\ round[u] \in Nat /\ round[t] \in Nat
          /\ round[0] \in Nat
      BY <2>1, Typed
    <2>3. CASE Before
      <3>1. BeforeInv
        BY <2>1, <2>3 DEF SyncInv
      <3>2. round[t] = round[0] - 1
        BY <3>1 DEF BeforeInv
      <3>3. \/ round[u] = round[0]
            \/ round[u] = round[0] - 1 /\ pc[u] = "leave"
        BY <3>1 DEF BeforeInv
      <3>4. pc[u] = "leave" => LinedUp(u)
        BY <2>2 DEF Consistent, LinedUp
      <3> QED
        BY <2>2, <3>2, <3>3, <3>4
    <2>4. CASE Running
      BY <2>1, <2>4 DEF SyncInv, RunningInv
    <2>5. CASE After
      <3>1. AfterInv
        BY <2>1, <2>5 DEF SyncInv
      <3>2. round[t] = round[0]
        BY <3>1 DEF AfterInv
      <3>3. \/ round[u] = round[0] /\ (u = 0 \/ pc[u] = "leave")
            \/ round[u] = round[0] + 1
        BY <3>1 DEF AfterInv
      <3>4. (u = 0 \/ pc[u] = "leave") => LinedUp(u)
        BY <2>2, <2>5 DEF Consistent, LinedUp, After
      <3> QED
        BY <2>2, <3>2, <3>3, <3>4
    <2> QED
      BY <2>1, <2>3, <2>4, <2>5, Stages
  <1> QED
    BY <1>1, InductiveInvariant, PTL

\* While a copy of the program runs, the probes are started, and by thread 0
\* in the round of that copy.
THEOREM MeasurementCovers == Spec => []MeasurementCoversRuns
  <1>1. ASSUME IInv PROVE MeasurementCoversRuns
    <2> SUFFICES ASSUME NEW t \in Threads, child[t] = "running"
                 PROVE  measuring /\ round[t] = round[0]
      BY DEF MeasurementCoversRuns
    <2>1. LocalInv /\ SyncInv
      BY <1>1 DEF IInv
    <2>2. Consistent(t) /\ Started(t)
      BY <2>1, Typed DEF Started
    <2>3. ~Before
      BY <2>1, <2>2 DEF SyncInv, BeforeInv, Consistent
    <2>4. ~After
      BY <2>1, <2>2 DEF SyncInv, After, AfterInv, Consistent
    <2>5. Running
      BY <2>1, <2>3, <2>4, Stages
    <2>6. measuring
      BY <2>1, <2>5 DEF Running, LocalInv, ProbeInv
    <2> QED
      BY <2>1, <2>5, <2>6 DEF SyncInv, RunningInv
  <1> QED
    BY <1>1, InductiveInvariant, PTL

\* When the results are saved they are complete: the probes are stopped,
\* NbMetaRepet measurements of both programs were kept, no child is left and
\* the three semaphores are empty.
THEOREM FinishesClean == Spec => []CleanFinish
  <1>1. ASSUME IInv PROVE CleanFinish
    <2> SUFFICES ASSUME lpp = "saved"
                 PROVE  /\ ~measuring
                        /\ results = [p \in Programs |-> NbMetaRepet]
                        /\ \A t \in Threads : child[t] = "none"
                        /\ fatherLock = 0 /\ processLock = 0
                        /\ processEndLock = 0
      BY DEF CleanFinish
    <2>1. LocalInv /\ SyncInv
      BY <1>1 DEF IInv
    <2>2. joined = NbProcess
      BY <2>1 DEF LocalInv, ProbeInv
    <2>3. \A t \in Threads : /\ pc[t] = "done" /\ child[t] = "none"
                             /\ round[t] = Rounds
      BY <2>1, <2>2, Typed, Constants DEF Consistent, Threads
    <2>4. ~measuring
      BY <2>1, <2>3, Typed DEF LocalInv, ProbeInv
    <2>5. results["overhead"] = NbMetaRepet /\ results["exp"] = NbMetaRepet
      BY <2>1, <2>3, Constants DEF LocalInv, ProbeInv
    <2>6. results \in [Programs -> 0 .. NbMetaRepet]
      BY <2>1 DEF LocalInv, TypeOK
    <2>7. results = [p \in Programs |-> NbMetaRepet]
      BY <2>5, <2>6 DEF Programs
    <2>8. BeforeInv
      BY <2>1, <2>3, Typed DEF SyncInv, Before
    <2>9. Behind = {} /\ ReadyNow = {}
      BY <2>3, Typed, <2>1 DEF Behind, ReadyNow
    <2>10. Passes("gather") = 0
      BY <2>3, Typed, <2>1 DEF Passes
    <2>11. fatherLock = 0 /\ processLock = 0 /\ processEndLock = 0
      BY <2>1, <2>8, <2>9, <2>10, FS_EmptySet, Typed DEF BeforeInv
    <2> QED
      BY <2>3, <2>4, <2>7, <2>11
  <1> QED
    BY <1>1, InductiveInvariant, PTL

\* A thread leaves a round only when the children of all the threads in that
\* round have ended and have been waited for.
THEOREM Barrier == Spec => IterationBarrier
  <1>1. ASSUME IInv, [Next]_vars, NEW t \in Threads, NEW u \in Threads,
               round'[t] # round[t]
        PROVE  \/ round[u] > round[t]
               \/ round[u] = round[t] /\ child[u] = "exited" /\ pc[u] # "wait"
    <2>1. LocalInv /\ SyncInv
      BY <1>1 DEF IInv
    <2>2. Leave(t) \/ (t = 0 /\ StopProbes)
      <3> SUFFICES ASSUME ~Leave(t), ~(t = 0 /\ StopProbes) PROVE FALSE
        OBVIOUS
      <3>1. \/ round' = round
            \/ \E v \in Threads : v # t /\ round' = [round EXCEPT ![v] = @ + 1]
        <4>1. CASE \E v \in Threads : Leave(v)
          BY <4>1 DEF Leave, NextRound
        <4>2. CASE StopProbes
          BY <4>2, Constants DEF StopProbes, NextRound
        <4>3. CASE ~StopProbes /\ ~\E v \in Threads : Leave(v)
          BY <1>1, <4>3
             DEF Next, Main, ThreadZero, Thread, Child, CreateThread,
                 CreateThreadFails, ExitProcess, JoinThread, SaveResults,
                 StartProbes, Gather, Release, Collect, Dismiss, WaitFather,
                 Pass, Fork, ForkFails, Reap, ReapSignaled, PostFather,
                 ChildReady, ChildStart, ChildEnd, vars
        <4> QED
          BY <4>1, <4>2, <4>3
      <3> QED
        BY <1>1, <2>1, <3>1, Typed
    <2>3. Consistent(t) /\ Consistent(u) /\ round[t] \in Nat
          /\ round[u] \in Nat /\ round[0] \in Nat
      BY <2>1, Typed
    <2>4. ~Running
      <3> SUFFICES ASSUME Running PROVE FALSE
        OBVIOUS
      <3>1. RunningInv
        BY <2>1 DEF SyncInv
      <3> QED
        BY <2>2, <3>1 DEF Leave, StopProbes, At, RunningInv, Running
    <2>5. pc[u] = "leave" \/ (u = 0 /\ After)
            => child[u] = "exited" /\ pc[u] # "wait"
      BY <2>3 DEF Consistent, After
    <2>6. CASE Before
      <3>1. BeforeInv
        BY <2>1, <2>6 DEF SyncInv
      <3>2. pc[t] = "leave" /\ child[t] = "exited"
        BY <2>2, <2>3, <2>6 DEF Leave, StopProbes, At, Before, Consistent
      <3>3. round[t] = round[0] - 1
        BY <3>1, <3>2 DEF BeforeInv, Started
      <3>4. \/ round[u] = round[0]
            \/ round[u] = round[0] - 1 /\ pc[u] = "leave"
        BY <3>1 DEF BeforeInv
      <3> QED
        BY <2>3, <2>5, <3>3, <3>4
    <2>7. CASE After
      <3>1. AfterInv
        BY <2>1, <2>7 DEF SyncInv
      <3>2. child[t] = "exited"
        BY <2>2, <2>3 DEF Leave, StopProbes, At, Consistent
      <3>3. round[t] = round[0]
        BY <3>1, <3>2 DEF AfterInv, Started
      <3>4. \/ round[u] = round[0] /\ (u = 0 \/ pc[u] = "leave")
            \/ round[u] = round[0] + 1
        BY <3>1 DEF AfterInv
      <3> QED
        BY <2>3, <2>5, <2>7, <3>3, <3>4
    <2> QED
      BY <2>1, <2>4, <2>6, <2>7, Stages
  <1>2. IInv /\ [Next]_vars => [LeavesAfterAll]_vars
    BY <1>1 DEF LeavesAfterAll
  <1> QED
    BY <1>2, InductiveInvariant, PTL DEF Spec, IterationBarrier

-----------------------------------------------------------------------------
(* The refinement. ProgramRunner implements SynchronizedRuns: its initial   *)
(* states map to the initial state of the abstract experiment, and every   *)
(* step of a thread, of a child or of main to a step of the experiment, or *)
(* to none.                                                                *)

\* The state of the experiment a state of the program stands for.
AState == IF lpp = "exited" THEN "aborted" ELSE lpp
ACopy == [t \in Threads |-> CopyState(t)]
AFinished == results["overhead"] + results["exp"]

-----------------------------------------------------------------------------
(* What the invariant says of that state.                                  *)

\* One measurement is kept per round thread 0 has left.
LEMMA FinishedRounds ==
  ASSUME LocalInv
  PROVE  AFinished = round[0] /\ round[0] \in 0 .. Rounds
  BY Typed, Constants DEF LocalInv, ProbeInv, AFinished

LEMMA FinishedNext ==
  ASSUME LocalInv'
  PROVE  AFinished' = round'[0]
  BY Constants DEF LocalInv, TypeOK, ProbeInv, AFinished

\* A copy is mapped to one of the four states, as its thread's round and its
\* child say.
LEMMA CopyStates ==
  ASSUME LocalInv, NEW t \in Threads
  PROVE  /\ ACopy[t] = CopyState(t)
         /\ round[t] > round[0] => CopyState(t) = "ended"
         /\ round[t] < round[0] => CopyState(t) = "waiting"
         /\ round[t] = round[0] /\ ~LinedUp(t) => CopyState(t) = "waiting"
         /\ round[t] = round[0] /\ child[t] = "ready"
              => CopyState(t) = "lined_up"
         /\ round[t] = round[0] /\ child[t] = "running"
              => CopyState(t) = "running"
         /\ round[t] = round[0] /\ child[t] \in {"exited", "signaled"}
              => CopyState(t) = "ended"
  <1>1. round[t] \in Nat /\ round[0] \in Nat /\ child[t] \in Childs
    BY Typed
  <1> QED
    BY <1>1 DEF ACopy, CopyState, CopyOf, LinedUp, Childs

\* The mapped copies depend on the rounds and the children only.
LEMMA CopyFrame ==
  ASSUME UNCHANGED << round, child >>
  PROVE  ACopy' = ACopy
  BY DEF ACopy, CopyState

LEMMA FinishedFrame ==
  ASSUME UNCHANGED results
  PROVE  AFinished' = AFinished
  BY DEF AFinished

-----------------------------------------------------------------------------
(* The steps that are steps of the experiment.                             *)

LEMMA MapOpen ==
  ASSUME LocalInv, StartProbes
  PROVE  Abstract!Open
  <1>1. /\ lpp = "running" /\ pc[0] = "start" /\ measuring' = TRUE
        /\ UNCHANGED << lpp, round, child, results >>
    BY DEF StartProbes, At
  <1>2. ~measuring
    BY <1>1 DEF LocalInv, ProbeInv
  <1>3. AFinished < Rounds
    BY <1>1, FinishedRounds, NotDone, Constants
  <1>4. ACopy' = ACopy /\ AFinished' = AFinished
    BY <1>1, CopyFrame, FinishedFrame
  <1> QED
    BY <1>1, <1>2, <1>3, <1>4 DEF Abstract!Open, ACopy, AFinished

LEMMA MapClose ==
  ASSUME LocalInv, SyncInv, LocalInv', StopProbes
  PROVE  Abstract!Close
  <1>1. /\ lpp = "running" /\ pc[0] = "stop" /\ measuring' = FALSE
        /\ round' = [round EXCEPT ![0] = @ + 1]
        /\ child' = [child EXCEPT ![0] = "none"]
        /\ lpp' = lpp
    BY DEF StopProbes, NextRound, At
  <1>2. AfterInv
    BY <1>1 DEF SyncInv, After
  <1>3. measuring
    BY <1>1 DEF LocalInv, ProbeInv
  <1>4. ASSUME NEW t \in Threads PROVE CopyState(t) = "ended"
    <2>1. Consistent(t) /\ round[t] \in Nat /\ round[0] \in Nat
      BY Typed
    <2>2. \/ round[t] = round[0] /\ child[t] = "exited"
          \/ round[t] = round[0] + 1
      BY <1>1, <1>2, <2>1 DEF AfterInv, Consistent
    <2> QED
      BY <2>1, <2>2, CopyStates
  <1>5. /\ round'[0] = round[0] + 1 /\ child'[0] = "none"
        /\ \A t \in Threads : t # 0 => round'[t] = round[t] /\ child'[t] = child[t]
    BY <1>1, Typed
  <1>6. ASSUME NEW t \in Threads PROVE CopyState(t)' \in {"waiting", "lined_up"}
    <2>1. round[t] \in Nat /\ round[0] \in Nat /\ child[t] \in Childs
      BY Typed
    <2>2. \/ round'[t] < round'[0]
          \/ round'[t] = round'[0] /\ child'[t] \in {"none", "forked", "ready"}
      BY <1>2, <1>5, <2>1 DEF AfterInv, Started, Childs
    <2> QED
      BY <1>5, <2>1, <2>2 DEF CopyState, CopyOf
  <1>7. AFinished' = AFinished + 1
    <2>1. AFinished = round[0] /\ AFinished' = round'[0]
      BY FinishedRounds, FinishedNext
    <2> QED
      BY <1>5, <2>1
  <1> QED
    BY <1>1, <1>3, <1>4, <1>6, <1>7 DEF Abstract!Close, ACopy, AFinished

LEMMA MapSave ==
  ASSUME LocalInv, SaveResults
  PROVE  Abstract!Save
  <1>1. /\ lpp = "running" /\ lpp' = "saved" /\ joined = NbProcess
        /\ UNCHANGED << round, child, measuring, results >>
    BY DEF SaveResults, probeVars
  <1>2. pc[0] = "done" /\ round[0] = Rounds
    BY <1>1, Typed, Constants DEF Consistent
  <1>3. ~measuring /\ AFinished = Rounds
    BY <1>2, FinishedRounds DEF LocalInv, ProbeInv
  <1>4. ACopy' = ACopy /\ AFinished' = AFinished
    BY <1>1, CopyFrame, FinishedFrame
  <1> QED
    BY <1>1, <1>3, <1>4 DEF Abstract!Save, ACopy, AFinished

\* exit, wherever it is called.
LEMMA MapAbort ==
  ASSUME LocalInv, lpp = "running", ExitProcess
  PROVE  Abstract!Abort
  <1>1. ACopy' = ACopy /\ AFinished' = AFinished
    BY CopyFrame, FinishedFrame DEF ExitProcess, probeVars
  <1> QED
    BY <1>1 DEF Abstract!Abort, ExitProcess, probeVars, ACopy, AFinished

\* The change of one child changes at most the copy it stands for.
LEMMA CopyOfChild ==
  ASSUME LocalInv, NEW t \in Threads, NEW s \in Childs, NEW a,
         UNCHANGED round, child' = [child EXCEPT ![t] = s],
         CopyState(t)' = a
  PROVE  ACopy' = [ACopy EXCEPT ![t] = a]
  <1>1. \A u \in Threads : u # t => CopyState(u)' = CopyState(u)
    BY Typed DEF CopyState
  <1>2. \A u \in Threads : ACopy[u] = CopyState(u) /\ ACopy'[u] = CopyState(u)'
    BY DEF ACopy
  <1>3. ACopy' = [u \in Threads |-> IF u = t THEN a ELSE CopyState(u)]
    BY <1>1 DEF ACopy
  <1>4. [ACopy EXCEPT ![t] = a]
          = [u \in Threads |-> IF u = t THEN a ELSE CopyState(u)]
    BY DEF ACopy
  <1> QED
    BY <1>3, <1>4

\* A child of the round thread 0 is in lines up; one that is a round ahead
\* stands for a copy that has not left its round.
LEMMA MapLineUp ==
  ASSUME LocalInv, SyncInv, NEW t \in Threads, ChildReady(t)
  PROVE  Abstract!LineUp(t) \/ UNCHANGED Abstract!vars
  <1>1. /\ child[t] = "forked" /\ child' = [child EXCEPT ![t] = "ready"]
        /\ UNCHANGED << lpp, round, measuring, results >>
    BY DEF ChildReady, probeVars
  <1>2. child'[t] = "ready" /\ round[t] \in Nat /\ round[0] \in Nat
    BY <1>1, Typed
  <1>3. AState' = AState /\ AFinished' = AFinished
    BY <1>1, FinishedFrame DEF AState
  <1>4. CASE round[t] = round[0]
    <2>1. CopyState(t) = "waiting" /\ CopyState(t)' = "lined_up"
      BY <1>1, <1>2, <1>4 DEF CopyState, CopyOf
    <2>2. ACopy[t] = "waiting" /\ ACopy' = [ACopy EXCEPT ![t] = "lined_up"]
      BY <1>1, <2>1, CopyOfChild DEF ACopy, Childs
    <2> QED
      BY <1>1, <1>3, <2>2 DEF Abstract!LineUp, ACopy, AFinished, AState
  <1>5. CASE round[t] # round[0]
    <2>1. CopyState(t)' = CopyState(t)
      BY <1>1, <1>2, <1>5 DEF CopyState
    <2>2. ACopy' = [ACopy EXCEPT ![t] = CopyState(t)]
      BY <1>1, <2>1, CopyOfChild DEF Childs
    <2>3. ACopy' = ACopy
      BY <2>2 DEF ACopy
    <2> QED
      BY <1>1, <1>3, <2>3 DEF Abstract!vars, ACopy, AFinished, AState
  <1> QED
    BY <1>4, <1>5

LEMMA MapStart ==
  ASSUME LocalInv, SyncInv, NEW t \in Threads, ChildStart(t)
  PROVE  Abstract!Start(t)
  <1>1. /\ child[t] = "ready" /\ processLock > 0
        /\ UNCHANGED << lpp, round, measuring, results >>
    BY DEF ChildStart, probeVars
  <1>2. PICK s \in {"running", "exited"} : child' = [child EXCEPT ![t] = s]
    BY DEF ChildStart
  <1>3. Running
    BY <1>1, Stages DEF SyncInv, BeforeInv, AfterInv
  <1>4. RunningInv /\ measuring
    BY <1>3 DEF SyncInv, LocalInv, ProbeInv, Running
  <1>5. \A u \in Threads : ACopy[u] # "waiting"
    <2> SUFFICES ASSUME NEW u \in Threads PROVE CopyState(u) # "waiting"
      BY DEF ACopy
    <2>1. round[u] = round[0] /\ child[u] \in {"ready", "running", "exited", "signaled"}
      BY <1>4, Typed DEF RunningInv, LinedUp, Childs
    <2> QED
      BY <2>1, CopyStates
  <1>6. ACopy[t] = "lined_up"
    BY <1>1, <1>4, CopyStates DEF RunningInv
  <1> DEFINE a == IF s = "running" THEN "running" ELSE "ended"
  <1>7. CopyState(t)' = a
    <2>1. child'[t] = s /\ round'[t] = round'[0] /\ round'[0] \in Nat
      BY <1>1, <1>2, <1>4, Typed DEF RunningInv
    <2> QED
      BY <2>1 DEF CopyState, CopyOf
  <1>8. ACopy' = [ACopy EXCEPT ![t] = a]
    <2> HIDE DEF a
    <2> QED
      BY <1>1, <1>2, <1>7, CopyOfChild DEF Childs
  <1>9. AState' = AState /\ AFinished' = AFinished
    BY <1>1, FinishedFrame DEF AState
  <1> QED
    BY <1>1, <1>4, <1>5, <1>6, <1>8, <1>9
       DEF Abstract!Start, ACopy, AFinished, AState

LEMMA MapEnd ==
  ASSUME LocalInv, SyncInv, NEW t \in Threads, ChildEnd(t)
  PROVE  Abstract!End(t)
  <1>1. /\ child[t] = "running"
        /\ UNCHANGED << lpp, round, measuring, results >>
    BY DEF ChildEnd, probeVars
  <1>2. PICK s \in {"exited", "signaled"} : child' = [child EXCEPT ![t] = s]
    BY DEF ChildEnd
  <1>3. Consistent(t) /\ round[t] \in Nat /\ round[0] \in Nat
    BY Typed
  <1>4. round[t] = round[0]
    <2>1. Started(t)
      BY <1>1 DEF Started
    <2> QED
      BY <1>1, <1>3, <2>1, Stages
         DEF SyncInv, BeforeInv, RunningInv, AfterInv, Consistent
  <1>5. ACopy[t] = "running"
    BY <1>1, <1>4, CopyStates
  <1>6. CopyState(t)' = "ended"
    <2>1. child'[t] = s /\ round'[t] = round'[0] /\ round'[0] \in Nat
      BY <1>1, <1>2, <1>3, <1>4, Typed
    <2> QED
      BY <2>1 DEF CopyState, CopyOf
  <1>7. ACopy' = [ACopy EXCEPT ![t] = "ended"]
    BY <1>1, <1>2, <1>6, CopyOfChild DEF Childs
  <1>8. AState' = AState /\ AFinished' = AFinished
    BY <1>1, FinishedFrame DEF AState
  <1> QED
    BY <1>1, <1>5, <1>7, <1>8 DEF Abstract!End, ACopy, AFinished, AState

-----------------------------------------------------------------------------
(* The steps the experiment does not see.                                  *)

\* A fork, and a thread that leaves its round: as soon as it is in the round
\* of thread 0 its copy is to wait, and ahead of it its copy has ended.
LEMMA MapFork ==
  ASSUME LocalInv, NEW t \in Threads, Fork(t)
  PROVE  UNCHANGED Abstract!vars
  <1>1. /\ pc[t] = "fork" /\ child' = [child EXCEPT ![t] = "forked"]
        /\ UNCHANGED << lpp, round, measuring, results >>
    BY DEF Fork, At, probeVars
  <1>2. child[t] = "none" /\ child'[t] = "forked"
    BY <1>1, Typed DEF Consistent
  <1>3. CopyState(t)' = CopyState(t)
    BY <1>1, <1>2 DEF CopyState, CopyOf
  <1>4. ACopy' = [ACopy EXCEPT ![t] = CopyState(t)]
    BY <1>1, <1>3, CopyOfChild DEF Childs
  <1>5. ACopy' = ACopy
    BY <1>4 DEF ACopy
  <1>6. AState' = AState /\ AFinished' = AFinished
    BY <1>1, FinishedFrame DEF AState
  <1> QED
    BY <1>1, <1>5, <1>6 DEF Abstract!vars, ACopy, AFinished, AState

LEMMA MapLeave ==
  ASSUME LocalInv, SyncInv, NEW t \in Threads, Leave(t)
  PROVE  UNCHANGED Abstract!vars
  <1>1. /\ pc[t] = "leave"
        /\ round' = [round EXCEPT ![t] = @ + 1]
        /\ child' = [child EXCEPT ![t] = "none"]
        /\ UNCHANGED << lpp, measuring, results >>
    BY DEF Leave, NextRound, At, probeVars
  <1>2. /\ t # 0 /\ child[t] = "exited"
        /\ round[t] \in Nat /\ round[0] \in Nat
    BY <1>1, Typed DEF Consistent
  <1>3. /\ round'[t] = round[t] + 1 /\ child'[t] = "none"
        /\ round'[0] = round[0]
        /\ \A u \in Threads : u # t => round'[u] = round[u] /\ child'[u] = child[u]
    BY <1>1, <1>2, Typed
  <1>4. round[t] = round[0] \/ round[t] = round[0] - 1
    BY <1>2, Stages DEF SyncInv, BeforeInv, RunningInv, AfterInv, Started
  <1>5. CopyState(t)' = CopyState(t)
    <2>1. CASE round[t] = round[0]
      <3>1. CopyState(t) = "ended"
        BY <1>2, <2>1, CopyStates
      <3>2. CopyState(t)' = "ended"
        BY <1>2, <1>3, <2>1 DEF CopyState
      <3> QED
        BY <3>1, <3>2
    <2>2. CASE round[t] = round[0] - 1
      <3>1. CopyState(t) = "waiting"
        BY <1>2, <2>2, CopyStates
      <3>2. CopyState(t)' = "waiting"
        BY <1>2, <1>3, <2>2 DEF CopyState, CopyOf
      <3> QED
        BY <3>1, <3>2
    <2> QED
      BY <1>4, <2>1, <2>2
  <1>6. \A u \in Threads : CopyState(u)' = CopyState(u)
    BY <1>3, <1>5 DEF CopyState
  <1>7. ACopy' = ACopy
    BY <1>6 DEF ACopy
  <1>8. AState' = AState /\ AFinished' = AFinished
    BY <1>1, FinishedFrame DEF AState
  <1> QED
    BY <1>1, <1>7, <1>8 DEF Abstract!vars, ACopy, AFinished, AState

\* The other steps: they change neither a round nor a child.
LEMMA MapFrame ==
  ASSUME UNCHANGED << lpp, round, child, measuring, results >>
  PROVE  UNCHANGED Abstract!vars
  <1>1. ACopy' = ACopy /\ AFinished' = AFinished /\ AState' = AState
    BY CopyFrame, FinishedFrame DEF AState
  <1> QED
    BY <1>1 DEF Abstract!vars, ACopy, AFinished, AState

-----------------------------------------------------------------------------
LEMMA MapInit == Init => Abstract!Init
  <1> SUFFICES ASSUME Init PROVE Abstract!Init
    OBVIOUS
  <1>1. \A t \in Threads : CopyState(t) = "waiting"
    BY Constants DEF Init, CopyState, CopyOf
  <1>2. lpp = "running" /\ measuring = FALSE
    BY DEF Init
  <1>3. results["overhead"] + results["exp"] = 0
    BY DEF Init, Programs
  <1> QED
    BY <1>1, <1>2, <1>3 DEF Abstract!Init

LEMMA MapNext ==
  IInv /\ IInv' /\ [Next]_vars => [Abstract!Next]_(Abstract!vars)
  <1> SUFFICES ASSUME LocalInv, SyncInv, LocalInv', [Next]_vars
               PROVE  Abstract!Next \/ UNCHANGED Abstract!vars
    BY DEF IInv
  <1>1. CASE StartProbes
    BY <1>1, MapOpen DEF Abstract!Next
  <1>2. CASE StopProbes
    BY <1>2, MapClose DEF Abstract!Next
  <1>3. CASE SaveResults
    BY <1>3, MapSave DEF Abstract!Next
  <1>4. CASE CreateThreadFails
    BY <1>4, MapAbort DEF Abstract!Next, CreateThreadFails
  <1>5. ASSUME NEW t \in Threads, ForkFails(t) \/ ReapSignaled(t)
        PROVE  Abstract!Next
    BY <1>5, MapAbort DEF Abstract!Next, ForkFails, ReapSignaled, At
  <1>6. ASSUME NEW t \in Threads, ChildReady(t)
        PROVE  Abstract!Next \/ UNCHANGED Abstract!vars
    BY <1>6, MapLineUp DEF Abstract!Next
  <1>7. ASSUME NEW t \in Threads, ChildStart(t) PROVE Abstract!Next
    BY <1>7, MapStart DEF Abstract!Next
  <1>8. ASSUME NEW t \in Threads, ChildEnd(t) PROVE Abstract!Next
    BY <1>8, MapEnd DEF Abstract!Next
  <1>9. ASSUME NEW t \in Threads, Fork(t) PROVE UNCHANGED Abstract!vars
    BY <1>9, MapFork
  <1>10. ASSUME NEW t \in Threads, Leave(t) PROVE UNCHANGED Abstract!vars
    BY <1>10, MapLeave
  <1>11. CASE CreateThread \/ JoinThread
    BY <1>11, MapFrame DEF CreateThread, JoinThread, probeVars
  <1>12. CASE Gather \/ Release \/ Collect \/ Dismiss
    BY <1>12, MapFrame
       DEF Gather, Release, Collect, Dismiss, WaitFather, Pass, probeVars
  <1>13. ASSUME NEW t \in Threads, Reap(t) \/ PostFather(t)
         PROVE  UNCHANGED Abstract!vars
    BY <1>13, MapFrame DEF Reap, PostFather, probeVars
  <1>14. CASE UNCHANGED vars
    BY <1>14, MapFrame DEF vars, probeVars
  <1> QED
    BY <1>1, <1>2, <1>3, <1>4, <1>5, <1>6, <1>7, <1>8, <1>9, <1>10, <1>11,
       <1>12, <1>13, <1>14
       DEF Next, Main, ThreadZero, Thread, Child

\* ProgramRunner's threads, forked children, three semaphores and probe calls
\* provide the experiment SynchronizedRuns promises, whatever NbProcess and
\* NbMetaRepet are.
THEOREM Implements == Spec => Refinement
  <1>1. Init => Abstract!Init
    BY MapInit
  <1>2. IInv /\ IInv' /\ [Next]_vars => [Abstract!Next]_(Abstract!vars)
    BY MapNext
  <1> QED
    BY <1>1, <1>2, InductiveInvariant, PTL DEF Spec, Refinement, Abstract!Spec
=============================================================================
