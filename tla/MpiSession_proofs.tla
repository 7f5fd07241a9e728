------------------------- MODULE MpiSession_proofs -------------------------
(***************************************************************************)
(* The daemon, for every number of signals: IInv is inductive, and its     *)
(* safety properties follow. Then a session of the scripts with the        *)
(* daemon, for every number of runs and of processes: its steps are steps  *)
(* of the daemon and of those who signal it, or leave both alone, so that  *)
(* the daemon's properties hold in a session. OneMeasurementEachRun and    *)
(* MovedIsComplete follow from an invariant of their own, SessionInv: its  *)
(* part OnTimeInv says at which point of a run each point of the daemon    *)
(* is, and RunsInv which runs it is notified of. The argument loops of     *)
(* mpirunLPP.sh are followed argument by argument.                         *)
(***************************************************************************)
EXTENDS MpiSession, FoldTheorems

-----------------------------------------------------------------------------
(* The daemon.                                                             *)

LEMMA InitInv == Init => IInv
  <1> SUFFICES ASSUME Init PROVE IInv
    OBVIOUS
  <1> USE MaxSignalsAssumption DEF Init
  <1>1. SignalsInv
    BY DEF SignalsInv, One
  <1>2. TypeOK
    <2>1. /\ pc \in PCs
          /\ handled \subseteq Signals /\ pending \subseteq Signals
          /\ end \in BOOLEAN /\ measuring \in BOOLEAN
          /\ saved \in BOOLEAN /\ known \in BOOLEAN
          /\ pidFile \in {"none", "stale", "empty", "pid"}
      BY Zenon DEF PCs
    <2>2. kept \in 0 .. MaxSignals /\ usr1 \in 0 .. MaxSignals
            /\ term \in 0 .. MaxSignals
      OBVIOUS
    <2> QED
      BY <2>1, <2>2 DEF TypeOK
  <1>3. HandledInv /\ KnownInv
    BY DEF HandledInv, KnownInv, Unknown, Ending, Working, PCs, Ended, Paused
  <1> QED
    BY <1>1, <1>2, <1>3 DEF IInv, Ending

\* The steps of the daemon itself.
LEMMA DaemonInv == IInv /\ Daemon => IInv'
  <1> SUFFICES ASSUME IInv, Daemon PROVE IInv'
    OBVIOUS
  <1> USE MaxSignalsAssumption
      DEF IInv, TypeOK, HandledInv, KnownInv, SignalsInv, One, Signals,
          Unknown, Ending, Working, PCs, Ended, Paused, At, Goto, sendVars,
          probeVars
  <1>1. CASE Install
    BY <1>1 DEF Install
  <1>2. CASE OpenPidFile
    BY <1>2 DEF OpenPidFile
  <1>3. CASE OpenPidFileFails
    BY <1>3 DEF OpenPidFileFails
  <1>4. CASE WritePidFile
    BY <1>4 DEF WritePidFile
  <1>5. CASE Overhead
    BY <1>5 DEF Overhead
  <1>6. CASE Loop
    BY <1>6 DEF Loop
  <1>7. CASE Pause
    BY <1>7 DEF Pause
  <1>8. CASE StartMeasurement
    <2>1. CASE end
      BY <1>8, <2>1 DEF StartMeasurement
    <2>2. CASE ~end
      <3>1. measuring = FALSE /\ measuring' = TRUE
        BY <1>8, <2>2 DEF StartMeasurement
      <3> QED
        BY <1>8, <2>2, <3>1 DEF StartMeasurement
    <2> QED
      BY <2>1, <2>2
  <1>9. CASE StopMeasurement
    <2>1. pc = "stop" /\ pc' = "loop" /\ pending = {} /\ pending' = {}
      BY <1>9 DEF StopMeasurement
    <2>2. measuring = TRUE /\ measuring' = FALSE
      BY <1>9, <2>1 DEF StopMeasurement
    <2>3. One(measuring) = 1 /\ One(measuring') = 0
      BY <2>2
    <2>4. SignalsInv' /\ kept' \in 0 .. MaxSignals
      <3>1. CASE end
        BY <1>9, <2>1, <2>3, <3>1 DEF StopMeasurement
      <3>2. CASE ~end
        BY <1>9, <2>1, <2>3, <3>2 DEF StopMeasurement
      <3> QED
        BY <3>1, <3>2
    <2>5. TypeOK' /\ HandledInv' /\ KnownInv'
      BY <1>9, <2>1, <2>2, <2>4 DEF StopMeasurement
    <2> QED
      BY <1>9, <2>1, <2>2, <2>4, <2>5 DEF StopMeasurement
  <1>10. CASE ResetEnd
    BY <1>10 DEF ResetEnd
  <1>11. CASE SaveResults
    BY <1>11 DEF SaveResults
  <1>12. CASE RestoreDefault
    BY <1>12 DEF RestoreDefault
  <1>13. CASE RemovePidFile
    BY <1>13 DEF RemovePidFile
  <1>14. CASE Exit
    BY <1>14 DEF Exit
  <1> QED
    BY <1>1, <1>2, <1>3, <1>4, <1>5, <1>6, <1>7, <1>8, <1>9, <1>10, <1>11,
       <1>12, <1>13, <1>14
    DEF Daemon

\* Handlers run, or a signal without handler kills the daemon.
LEMMA DeliverInv == IInv /\ Deliver => IInv'
  <1> SUFFICES ASSUME IInv, Deliver PROVE IInv'
    OBVIOUS
  <1> USE MaxSignalsAssumption
      DEF IInv, TypeOK, HandledInv, KnownInv, SignalsInv, One, Signals,
          Unknown, Ending, Working, PCs, Ended, Paused, Deliver, sendVars,
          probeVars
  <1>1. CASE pending \subseteq handled
    BY <1>1
  <1>2. CASE ~(pending \subseteq handled)
    BY <1>2
  <1> QED
    BY <1>1, <1>2

\* The other programs.
LEMMA OthersInv ==
  ASSUME IInv, ReadPidFile \/ \E s \in Signals : Send(s)
  PROVE  IInv'
  <1> USE MaxSignalsAssumption
      DEF IInv, TypeOK, HandledInv, KnownInv, SignalsInv, One, Signals,
          Unknown, Ending, Working, PCs, Ended, Paused, probeVars
  <1>1. CASE ReadPidFile
    BY <1>1 DEF ReadPidFile
  <1>2. ASSUME NEW s \in Signals, Send(s)
        PROVE  IInv'
    BY <1>2 DEF Send
  <1> QED
    BY <1>1, <1>2

\* The inductive invariant holds: what the daemon is, at every point, to the
\* signals and to those who read its pid file.
THEOREM InductiveInvariant == Spec => []IInv
  <1>1. Init => IInv
    BY InitInv
  <1>2. IInv /\ [Next]_vars => IInv'
    <2> SUFFICES ASSUME IInv, [Next]_vars PROVE IInv'
      OBVIOUS
    <2>1. CASE Next
      BY <2>1, DaemonInv, DeliverInv, OthersInv DEF Next
    <2>2. CASE UNCHANGED vars
      BY <2>2
      DEF vars, IInv, TypeOK, HandledInv, KnownInv, SignalsInv, probeVars,
          sendVars
    <2> QED
      BY <2>1, <2>2
  <1> QED
    BY <1>1, <1>2, PTL DEF Spec

\* The daemon never keeps more measurements, or measures more often, than
\* SIGUSR1 was sent for.
THEOREM KeepsBySignals == Spec => []KeptBySignals
  <1>1. IInv => KeptBySignals
    BY DEF IInv, TypeOK, SignalsInv, KeptBySignals, One
  <1> QED
    BY <1>1, InductiveInvariant, PTL

\* The pid is in the file only while signals are handled, or everything is
\* saved.
THEOREM PidHandled == Spec => []PidMeansHandled
  <1>1. IInv => PidMeansHandled
    BY DEF IInv, TypeOK, HandledInv, KnownInv, PidMeansHandled, Unknown,
           Ending, Working, PCs
  <1> QED
    BY <1>1, InductiveInvariant, PTL

\* A daemon that is killed by a signal has saved its results, and one that
\* ends by itself has saved them, stopped measuring and removed its pid.
THEOREM EndsSaved == Spec => []ResultsSaved
  <1>1. IInv => ResultsSaved
    BY DEF IInv, KnownInv, ResultsSaved, Ended, Unknown, Ending
  <1> QED
    BY <1>1, InductiveInvariant, PTL

-----------------------------------------------------------------------------
(* The session.                                                            *)

LEMMA SessionStep == SessionNext => [Next]_vars
  <1> SUFFICES ASSUME SessionNext PROVE [Next]_vars
    OBVIOUS
  <1>1. CASE DaemonRuns
    BY <1>1 DEF DaemonRuns, Next
  <1>2. CASE SignalsDelivered
    BY <1>2 DEF SignalsDelivered, Next
  <1>3. CASE Anyone
    BY <1>3 DEF Anyone, Next
  <1>4. CASE mpirunLPP
    BY <1>4
    DEF mpirunLPP, Refuse, SortArgs, StartDaemons, StartRun, EndRun, RunFails,
        StartKillers, Script
  <1>5. CASE Notifier
    <2>1. CASE ReadPid
      BY <2>1 DEF ReadPid, Next
    <2>2. ASSUME NEW p \in Ranks,
                 Preload(p) \/ MPI_Init(p) \/ ProgramDone(p) \/ MPI_Finalize(p)
          PROVE  [Next]_vars
      BY <2>2
      DEF Preload, MPI_Init, ProgramDone, MPI_Finalize, Signal, Signals, Next
    <2> QED
      BY <1>5, <2>1, <2>2 DEF Notifier
  <1>6. CASE lppMPIkiller
    BY <1>6
    DEF lppMPIkiller, NothingToKill, ReadPidToKill, Kill, Move, Signal,
        Signals, Next
  <1> QED
    BY <1>1, <1>2, <1>3, <1>4, <1>5, <1>6 DEF SessionNext

\* In a session the daemon behaves as DaemonRunner says: the scripts and the
\* preloaded library signal it, and do nothing else to it.
THEOREM SessionIsDaemon == SessionSpec => Spec
  <1>1. SessionInit => Init
    BY DEF SessionInit
  <1>2. [SessionNext]_sessionVars => [Next]_vars
    BY SessionStep DEF sessionVars
  <1> QED
    BY <1>1, <1>2, PTL DEF SessionSpec, Spec

\* However the scripts signal the daemon, it ends with its results saved.
COROLLARY SessionSaved == SessionSpec => []ResultsSaved
  BY SessionIsDaemon, EndsSaved, PTL

-----------------------------------------------------------------------------
(* The invariant.                                                          *)

LEMMA SessionInitInv == SessionInit => SessionInv
  <1> SUFFICES ASSUME SessionInit PROVE SessionInv
    OBVIOUS
  <1> USE SessionAssumption DEF SessionInit, Init
  <1>1. RanksInv
    BY DEF RanksInv, NoRun
  <1>2. OnTimeInv
    BY DEF OnTimeInv, InRun, NoRun, HasStarted, HasStopped, One, Ending
  <1>3. RunsInv
    BY DEF RunsInv, NoRun, One
  <1> QED
    BY <1>1, <1>2, <1>3 DEF SessionInv, SortedInv, MovedInv

LEMMA RanksStep == RanksInv /\ SessionNext => RanksInv'
  <1> SUFFICES ASSUME RanksInv, SessionNext PROVE RanksInv'
    OBVIOUS
  <1>1. CASE UNCHANGED << rank, script >>
    BY <1>1 DEF RanksInv, NoRun
  <1>2. CASE mpirunLPP
    BY <1>2
    DEF mpirunLPP, Refuse, SortArgs, StartDaemons, StartRun, EndRun, RunFails,
        StartKillers, Script, RanksInv, NoRun
  <1>3. ASSUME NEW p \in Ranks, NEW from, NEW to, Rank(p, from, to),
               from # "off", from # "ended",
               to \in {"MPI_Init", "real_MPI_Init", "program", "barrier",
                       "ended"},
               to = "ended" => \A q \in Ranks : rank[q] \in {"barrier", "ended"},
               from = "barrier" => to = "ended"
        PROVE  RanksInv'
    BY <1>3 DEF Rank, scriptVars, RanksInv, NoRun
  <1>4. CASE Notifier
    BY <1>3, <1>4, SessionAssumption
    DEF Notifier, ReadPid, Preload, MPI_Init, ProgramDone, MPI_Finalize
  <1> QED
    BY <1>1, <1>2, <1>4
    DEF SessionNext, DaemonRuns, SignalsDelivered, Anyone, lppMPIkiller,
        NothingToKill, ReadPidToKill, Kill, Move, Killer, environment,
        scriptVars, runVars

LEMMA SortedStep == SortedInv /\ SessionNext => SortedInv'
  <1> SUFFICES ASSUME SortedInv, SessionNext PROVE SortedInv'
    OBVIOUS
  <1>1. CASE UNCHANGED scriptVars
    BY <1>1 DEF scriptVars, SortedInv
  <1>2. CASE SortArgs
    BY <1>2 DEF SortArgs, Script, SortedInv
  <1>3. CASE mpirunLPP /\ ~SortArgs
    <2>1. UNCHANGED << args, largs, pargs >>
      BY <1>3
      DEF mpirunLPP, Refuse, StartDaemons, StartRun, EndRun, RunFails,
          StartKillers, Script
    <2>2. script \in {"config", "refused"} => script' = "refused"
      BY <1>3
      DEF mpirunLPP, Refuse, StartDaemons, StartRun, EndRun, RunFails,
          StartKillers, Script
    <2> QED
      BY <2>1, <2>2 DEF SortedInv
  <1> QED
    BY <1>1, <1>2, <1>3
    DEF SessionNext, DaemonRuns, SignalsDelivered, Anyone, Notifier, ReadPid,
        Preload, MPI_Init, ProgramDone, MPI_Finalize, Rank, lppMPIkiller,
        NothingToKill, ReadPidToKill, Kill, Move, Killer, environment

\* The steps of the daemon. A signal that is on time is handled in pause, so
\* that none kills the daemon.
LEMMA DaemonOnTime ==
  ASSUME SessionInv, IInv, ByScripts, ~late, DaemonRuns
  PROVE  OnTimeInv'
  <1> USE DEF SessionInv, OnTimeInv, HasStarted, HasStopped, InRun, One,
              DaemonRuns, environment, runVars, scriptVars, At, Goto, Paused,
              probeVars, Ending
  <1>1. kept \in Nat
    BY MaxSignalsAssumption DEF IInv, TypeOK
  <1>2. CASE StopMeasurement
    BY <1>1, <1>2 DEF StopMeasurement
  <1>3. CASE StartMeasurement \/ Pause \/ Loop \/ ResetEnd
    BY <1>1, <1>3 DEF StartMeasurement, Pause, Loop, ResetEnd
  <1>4. CASE \/ Install \/ OpenPidFile \/ OpenPidFileFails \/ WritePidFile
             \/ Overhead \/ SaveResults \/ RestoreDefault \/ RemovePidFile
             \/ Exit
    BY <1>1, <1>4
    DEF Install, OpenPidFile, OpenPidFileFails, WritePidFile, Overhead,
        SaveResults, RestoreDefault, RemovePidFile, Exit
  <1> QED
    BY <1>2, <1>3, <1>4 DEF Daemon

LEMMA DeliveredOnTime ==
  ASSUME SessionInv, IInv, ByScripts, ~late, SignalsDelivered
  PROVE  OnTimeInv'
  <1> USE DEF SessionInv, OnTimeInv, HasStarted, HasStopped, InRun, One,
              environment, runVars, scriptVars, Paused, probeVars, Ending
  <1>1. kept \in Nat /\ pending \subseteq handled
    BY MaxSignalsAssumption
    DEF IInv, TypeOK, HandledInv, Working, PCs, Unknown, Ended, Signals,
        SignalsDelivered, Deliver
  <1>2. /\ pending' = {} /\ kept' = kept /\ end' = (end \/ "TERM" \in pending)
        /\ pc' = CASE pc = "in_pause_1" -> "start"
                   [] pc = "in_pause_2" -> "stop"
                   [] OTHER -> pc
        /\ UNCHANGED << rank, lpp_pid, script, notified >>
    BY <1>1 DEF SignalsDelivered, Deliver
  <1>3. CASE pending = {"USR1"}
    BY <1>1, <1>2, <1>3
  <1>4. CASE pending = {"TERM"}
    BY <1>1, <1>2, <1>4
  <1>5. pending # {}
    BY DEF SignalsDelivered, Deliver
  <1> QED
    BY <1>3, <1>4, <1>5

\* A run that fails between its signals is late; otherwise no run has begun.
LEMMA mpirunOnTime ==
  ASSUME SessionInv, ByScripts, ~late', mpirunLPP
  PROVE  ~late /\ OnTimeInv'
  <1> USE SessionAssumption
      DEF SessionInv, OnTimeInv, HasStarted, HasStopped, Script, vars,
          probeVars, RanksInv
  <1>1. ~late /\ ~InRun /\ ~InRun'
    <2>1. NoRun[0] = "off"
      BY DEF NoRun
    <2>2. CASE RunFails
      BY <2>1, <2>2 DEF RunFails, InRun
    <2>3. CASE EndRun
      BY <2>1, <2>3 DEF EndRun, InRun
    <2>4. CASE StartRun
      <3>1. rank = NoRun /\ ~late
        BY <2>4 DEF StartRun
      <3>2. rank'[0] = "preloader" \/ rank' = rank
        BY <2>4 DEF StartRun
      <3> QED
        BY <2>1, <3>1, <3>2 DEF InRun
    <2>5. CASE Refuse \/ SortArgs \/ StartDaemons \/ StartKillers
      <3>1. rank = NoRun /\ rank' = rank /\ ~late
        BY <2>5 DEF Refuse, SortArgs, StartDaemons, StartKillers
      <3> QED
        BY <2>1, <3>1 DEF InRun
    <2> QED
      BY <2>2, <2>3, <2>4, <2>5 DEF mpirunLPP
  <1>2. script = "kill" => FALSE
    BY DEF mpirunLPP, Refuse, SortArgs, StartDaemons, StartRun, EndRun,
           RunFails, StartKillers
  <1>3. UNCHANGED << vars, notified >>
    BY DEF mpirunLPP, Refuse, SortArgs, StartDaemons, StartRun, EndRun,
           RunFails, StartKillers
  <1> QED
    BY <1>1, <1>2, <1>3

\* The first signal of a run finds the daemon in its first pause, the second
\* one in its second pause, unless it is late.
LEMMA NotifierOnTime ==
  ASSUME SessionInv, IInv, ByScripts, ~late', Notifier
  PROVE  ~late /\ OnTimeInv' /\ notified' \in Nat
  <1> USE SessionAssumption
      DEF SessionInv, OnTimeInv, HasStarted, HasStopped, Rank, One, Paused,
          OnTime, RanksInv, scriptVars, probeVars
  <1>0. kept \in Nat
    BY MaxSignalsAssumption DEF IInv, TypeOK
  <1>1. CASE ReadPid
    <2>1. /\ UNCHANGED << pc, pending, end, kept, script, notified, late >>
          /\ rank[0] = "MPI_Init" /\ rank'[0] = "real_MPI_Init"
      BY <1>1 DEF ReadPid, ReadPidFile, vars
    <2> QED
      BY <2>1 DEF InRun
  <1>2. ASSUME NEW p \in Ranks, Preload(p)
        PROVE  ~late /\ OnTimeInv' /\ notified' \in Nat
    <2>1. /\ UNCHANGED << pc, pending, end, kept, script, notified, late >>
          /\ UNCHANGED lpp_pid
          /\ rank[p] = "preloader" /\ rank' = [rank EXCEPT ![p] = "MPI_Init"]
      BY <1>2 DEF Preload, vars
    <2>2. InRun' <=> InRun
      BY <2>1 DEF InRun
    <2> QED
      BY <2>1, <2>2
  <1>3. ASSUME NEW p \in Ranks, ProgramDone(p)
        PROVE  ~late /\ OnTimeInv' /\ notified' \in Nat
    <2>1. /\ UNCHANGED << pc, pending, end, kept, script, notified, late >>
          /\ UNCHANGED lpp_pid
          /\ rank[p] = "program" /\ rank' = [rank EXCEPT ![p] = "barrier"]
      BY <1>3 DEF ProgramDone, vars
    <2>2. InRun' <=> InRun
      BY <2>1 DEF InRun
    <2> QED
      BY <2>1, <2>2
  <1>4. ASSUME NEW p \in Ranks, MPI_Init(p)
        PROVE  ~late /\ OnTimeInv' /\ notified' \in Nat
    <2>1. CASE p = 0 /\ lpp_pid = "pid"
      <3>1. /\ rank[0] = "real_MPI_Init" /\ rank'[0] = "program"
            /\ script' = script /\ notified' = notified /\ lpp_pid' = lpp_pid
        BY <1>4, <2>1 DEF MPI_Init
      <3>2. ~InRun /\ InRun'
        BY <2>1, <3>1 DEF InRun
      <3>3. /\ ~late /\ pc \in Paused /\ pending = {}
            /\ pending' = (IF pc \in Ended THEN pending
                           ELSE pending \cup {"USR1"})
            /\ UNCHANGED << pc, end, kept >>
        BY <1>4, <2>1 DEF MPI_Init, Signal, Send
      <3>4. pc = "in_pause_1" /\ pending' = {"USR1"}
        BY <3>2, <3>3 DEF Ended
      <3> QED
        BY <1>0, <3>1, <3>2, <3>3, <3>4
    <2>2. CASE ~(p = 0 /\ lpp_pid = "pid")
      <3>1. /\ UNCHANGED << pc, pending, end, kept, script, notified, late >>
            /\ UNCHANGED lpp_pid
            /\ rank' = [rank EXCEPT ![p] = "program"]
        BY <1>4, <2>2 DEF MPI_Init, Signal, vars
      <3>2. InRun' <=> InRun
        BY <2>2, <3>1 DEF InRun
      <3> QED
        BY <3>1, <3>2
    <2> QED
      BY <2>1, <2>2
  <1>5. ASSUME NEW p \in Ranks, MPI_Finalize(p)
        PROVE  ~late /\ OnTimeInv' /\ notified' \in Nat
    <2>1. CASE p = 0 /\ lpp_pid = "pid"
      <3>1. /\ rank[0] = "barrier" /\ rank'[0] = "ended"
            /\ script' = script /\ notified' = notified + 1
        BY <1>5, <2>1 DEF MPI_Finalize
      <3>2. InRun /\ ~InRun'
        BY <2>1, <3>1 DEF InRun
      <3>3. /\ ~late /\ pc \in Paused /\ pending = {}
            /\ pending' = (IF pc \in Ended THEN pending
                           ELSE pending \cup {"USR1"})
            /\ UNCHANGED << pc, end, kept >>
        BY <1>5, <2>1 DEF MPI_Finalize, Signal, Send
      <3>4. pc = "in_pause_2" /\ pending' = {"USR1"}
        BY <3>2, <3>3 DEF Ended
      <3> QED
        BY <1>0, <3>1, <3>2, <3>3, <3>4
    <2>2. CASE ~(p = 0 /\ lpp_pid = "pid")
      <3>1. /\ UNCHANGED << pc, pending, end, kept, script, notified, late >>
            /\ UNCHANGED lpp_pid
            /\ rank' = [rank EXCEPT ![p] = "ended"]
        BY <1>5, <2>2 DEF MPI_Finalize, Signal, vars
      <3>2. InRun' <=> InRun
        BY <2>2, <3>1 DEF InRun
      <3> QED
        BY <3>1, <3>2
    <2> QED
      BY <2>1, <2>2
  <1> QED
    BY <1>1, <1>2, <1>3, <1>4, <1>5 DEF Notifier

\* The killer comes after the runs.
LEMMA KillerOnTime ==
  ASSUME SessionInv, ByScripts, ~late', lppMPIkiller
  PROVE  ~late /\ OnTimeInv'
  <1> USE SessionAssumption
      DEF SessionInv, OnTimeInv, HasStarted, HasStopped, Killer, One, Paused,
          OnTime, RanksInv, scriptVars, runVars, probeVars
  <1>1. ~InRun /\ ~InRun' /\ script = "kill" /\ script' = "kill"
    <2>1. /\ rank = NoRun /\ rank' = rank
          /\ script = "kill" /\ script' = "kill"
      BY DEF lppMPIkiller, NothingToKill, ReadPidToKill, Kill, Move
    <2> QED
      BY <2>1 DEF InRun, NoRun
  <1>2. notified' = notified
    BY DEF lppMPIkiller, NothingToKill, ReadPidToKill, Kill, Move
  <1>3. CASE Killer("pid", "waiting") /\ Signal("TERM", "pid")
    <2>1. /\ ~late /\ pc \in Paused /\ pending = {}
          /\ pending' = (IF pc \in Ended THEN pending
                         ELSE pending \cup {"TERM"})
          /\ UNCHANGED << pc, end, kept >>
      BY <1>3 DEF Signal, Send
    <2>2. pc = "in_pause_1" /\ pending' = {"TERM"}
      BY <1>1, <2>1 DEF Ended
    <2> QED
      BY <1>1, <1>2, <2>1, <2>2
  <1>4. CASE ~(Killer("pid", "waiting") /\ Signal("TERM", "pid"))
    <2>1. UNCHANGED << pc, pending, end, kept, late >>
      BY <1>4
      DEF lppMPIkiller, NothingToKill, ReadPidToKill, Kill, Move, Signal,
          ReadPidFile, vars
    <2> QED
      BY <1>1, <1>2, <2>1
  <1> QED
    BY <1>3, <1>4

\* A daemon that has ended stays ended, and the killer waits for that.
LEMMA MovedStep ==
  ASSUME MovedInv, SessionNext
  PROVE  MovedInv'
  <1>0. (ByScripts => ByScripts') /\ (killer' # killer => ByScripts)
    BY DEF ByScripts, SessionNext, DaemonRuns, SignalsDelivered, Anyone,
       mpirunLPP, Refuse, SortArgs, StartDaemons, StartRun, EndRun, RunFails,
       StartKillers, Script, Notifier, ReadPid, Preload, MPI_Init,
       ProgramDone, MPI_Finalize, Rank, lppMPIkiller, NothingToKill,
       ReadPidToKill, Kill, Move, Killer, environment
  <1>1. pc \in Ended => pc' \in Ended
    <2>1. CASE DaemonRuns
      BY <2>1
      DEF DaemonRuns, Daemon, Install, OpenPidFile, OpenPidFileFails,
          WritePidFile, Overhead, Loop, Pause, StartMeasurement,
          StopMeasurement, ResetEnd, SaveResults, RestoreDefault,
          RemovePidFile, Exit, At, Ended
    <2>2. CASE SignalsDelivered
      BY <2>2 DEF SignalsDelivered, Deliver
    <2>3. CASE ~DaemonRuns /\ ~SignalsDelivered
      <3>1. pc' = pc
        BY <2>3, SessionStep DEF Next, vars, ReadPidFile, Send, SessionNext,
           DaemonRuns, SignalsDelivered, Anyone, mpirunLPP, Refuse, SortArgs,
           StartDaemons, StartRun, EndRun, RunFails, StartKillers, Script,
           Notifier, ReadPid, Preload, MPI_Init, ProgramDone, MPI_Finalize,
           lppMPIkiller, NothingToKill, ReadPidToKill, Kill, Move, Signal
      <3> QED
        BY <3>1
    <2> QED
      BY <2>1, <2>2, <2>3
  <1>2. CASE killer' = killer
    BY <1>0, <1>1, <1>2 DEF MovedInv
  <1>3. CASE lppMPIkiller
    <2>1. killer' = "moved" => pc \in Ended
      BY <1>3
      DEF lppMPIkiller, NothingToKill, ReadPidToKill, Kill, Move, Killer
    <2>2. ByScripts'
      BY <1>3 DEF lppMPIkiller, NothingToKill, ReadPidToKill, Kill, Move,
         Killer, ByScripts
    <2> QED
      BY <1>1, <2>1, <2>2 DEF MovedInv
  <1>4. killer' = killer \/ lppMPIkiller
    BY DEF SessionNext, DaemonRuns, SignalsDelivered, Anyone, mpirunLPP,
       Refuse, SortArgs, StartDaemons, StartRun, EndRun, RunFails,
       StartKillers, Script, Notifier, ReadPid, Preload, MPI_Init,
       ProgramDone, MPI_Finalize, Rank, environment
  <1> QED
    BY <1>2, <1>3, <1>4

LEMMA CountsStep ==
  ASSUME notified \in Nat, due \in Nat, finished \in Nat, ready \in BOOLEAN,
         SessionNext
  PROVE  /\ notified' \in Nat /\ due' \in Nat /\ finished' \in Nat
         /\ ready' \in BOOLEAN
  <1>1. CASE Notifier
    BY <1>1
    DEF Notifier, ReadPid, Preload, MPI_Init, ProgramDone, MPI_Finalize, Rank,
        scriptVars, runCounts
  <1>2. CASE mpirunLPP
    <2>1. CASE StartRun
      BY <2>1 DEF StartRun, Script
    <2>2. CASE EndRun
      <3>1. /\ notified' = notified /\ ready' = FALSE
            /\ due' = (IF ready THEN due + 1 ELSE due)
            /\ finished' = finished + 1
        BY <2>2 DEF EndRun, Script
      <3>2. due' \in Nat
        <4>1. due' = due \/ due' = due + 1
          BY <3>1
        <4> QED
          BY <4>1
      <3>3. finished' \in Nat
        BY <3>1
      <3>4. ready' \in BOOLEAN
        BY <3>1, Zenon
      <3> QED
        BY <3>1, <3>2, <3>3, <3>4
    <2>3. CASE ~StartRun /\ ~EndRun
      BY <1>2, <2>3
      DEF mpirunLPP, Refuse, SortArgs, StartDaemons, RunFails, StartKillers,
          Script, runCounts
    <2> QED
      BY <2>1, <2>2, <2>3
  <1>3. CASE ~Notifier /\ ~mpirunLPP
    BY <1>3
    DEF SessionNext, DaemonRuns, SignalsDelivered, Anyone, lppMPIkiller,
        NothingToKill, ReadPidToKill, Kill, Move, Killer, environment, runVars,
        scriptVars, runCounts
  <1> QED
    BY <1>1, <1>2, <1>3

\* The pid stays in the file until the killer has signalled the daemon.
LEMMA PidStays ==
  ASSUME SessionInv, IInv, SessionNext, ByScripts, ~late, ready
  PROVE  pidFile' = "pid"
  <1>1. pidFile = "pid" /\ script # "kill"
    BY DEF SessionInv, RunsInv
  <1>2. pc \notin {"publish", "write_pid", "remove"}
    BY <1>1 DEF SessionInv, OnTimeInv, Ending, IInv, KnownInv, Unknown
  <1>3. CASE Daemon
    BY <1>1, <1>2, <1>3
    DEF Daemon, Install, OpenPidFile, OpenPidFileFails, WritePidFile, Overhead,
        Loop, Pause, StartMeasurement, StopMeasurement, ResetEnd, SaveResults,
        RestoreDefault, RemovePidFile, Exit, At
  <1>4. CASE ~Daemon
    BY <1>1, <1>4, SessionStep DEF Next, vars, Deliver, ReadPidFile, Send
  <1> QED
    BY <1>3, <1>4

LEMMA RunsStep ==
  ASSUME SessionInv, IInv, SessionNext, ByScripts, ~late
  PROVE  RunsInv'
  <1> USE DEF SessionInv, RunsInv, One
  <1>1. ready => pidFile' = "pid"
    BY PidStays
  <1>2. CASE UNCHANGED << scriptVars, runVars >>
    BY <1>1, <1>2 DEF scriptVars, runCounts, runVars
  <1>3. CASE mpirunLPP
    <2>1. NoRun[0] = "off" /\ 0 \in Ranks
      BY SessionAssumption DEF NoRun
    <2>2. CASE RunFails
      <3>1. /\ rank[0] # "ended" /\ rank' = NoRun /\ ready' = FALSE
            /\ UNCHANGED << due, finished, notified >>
        BY <2>1, <2>2 DEF RunFails, Script, RanksInv
      <3> QED
        BY <2>1, <3>1
    <2>3. CASE EndRun
      <3>1. /\ rank[0] = "ended" /\ rank' = NoRun /\ ready' = FALSE
            /\ due' = (IF ready THEN due + 1 ELSE due)
            /\ finished' = finished + 1 /\ notified' = notified
        BY <2>1, <2>3 DEF EndRun, Script
      <3> QED
        BY <2>1, <3>1
    <2>4. CASE StartRun
      <3>1. /\ rank = NoRun /\ rank'[0] \in {"off", "preloader"}
            /\ ready' => script' = "mpirun" /\ pidFile' = "pid"
            /\ UNCHANGED << due, finished, notified >>
        BY <2>1, <2>4 DEF StartRun, Script, RanksInv, vars
      <3> QED
        BY <2>1, <3>1
    <2>5. CASE Refuse \/ SortArgs \/ StartDaemons \/ StartKillers
      <3>1. /\ script # "mpirun"
            /\ UNCHANGED << runCounts, rank, lpp_pid, notified >>
        BY <2>5 DEF Refuse, SortArgs, StartDaemons, StartKillers, Script
      <3> QED
        BY <3>1 DEF runCounts
    <2> QED
      BY <1>3, <2>2, <2>3, <2>4, <2>5 DEF mpirunLPP
  <1>4. CASE Notifier
    <2>1. UNCHANGED << script, ready, due, finished >>
      BY <1>4
      DEF Notifier, ReadPid, Preload, MPI_Init, ProgramDone, MPI_Finalize,
          Rank, scriptVars, runCounts
    <2>2. CASE ReadPid
      <3>1. /\ rank'[0] = "real_MPI_Init" /\ lpp_pid' = pidFile
            /\ rank[0] # "ended" /\ notified' = notified
        BY <2>2, SessionAssumption DEF ReadPid, Rank, RanksInv
      <3> QED
        BY <1>1, <2>1, <3>1
    <2>3. ASSUME NEW p \in Ranks, Preload(p) \/ MPI_Init(p) \/ ProgramDone(p)
          PROVE  RunsInv'
      <3>1. /\ rank'[0] = "ended" => rank[0] = "ended"
            /\ rank[0] = "ended" => rank'[0] = "ended"
            /\ UNCHANGED << lpp_pid, notified >>
            /\ rank'[0] \in {"real_MPI_Init", "program", "barrier", "ended"}
                 => rank[0] \in {"real_MPI_Init", "program", "barrier", "ended"}
        BY <2>3, SessionAssumption
        DEF Preload, MPI_Init, ProgramDone, Rank, RanksInv
      <3> QED
        BY <1>1, <2>1, <3>1
    <2>4. ASSUME NEW p \in Ranks, MPI_Finalize(p)
          PROVE  RunsInv'
      <3>1. CASE p = 0
        <4>1. /\ rank[0] = "barrier" /\ rank'[0] = "ended" /\ lpp_pid' = lpp_pid
              /\ notified' = IF lpp_pid = "pid" THEN notified + 1 ELSE notified
          BY <2>4, <3>1, SessionAssumption DEF MPI_Finalize, Rank, RanksInv
        <4> QED
          BY <1>1, <2>1, <4>1
      <3>2. CASE p # 0
        <4>1. rank'[0] = rank[0] /\ UNCHANGED << lpp_pid, notified >>
          BY <2>4, <3>2, SessionAssumption DEF MPI_Finalize, Rank, RanksInv
        <4> QED
          BY <1>1, <2>1, <4>1
      <3> QED
        BY <3>1, <3>2
    <2> QED
      BY <1>4, <2>2, <2>3, <2>4 DEF Notifier
  <1> QED
    BY <1>2, <1>3, <1>4
    DEF SessionNext, DaemonRuns, SignalsDelivered, Anyone, lppMPIkiller,
        NothingToKill, ReadPidToKill, Kill, Move, Killer, environment

LEMMA OnTimeStep ==
  ASSUME SessionInv, IInv, SessionNext, ByScripts', ~late'
  PROVE  OnTimeInv' /\ RunsInv'
  <1>1. ByScripts
    BY DEF ByScripts, SessionNext, DaemonRuns, SignalsDelivered, Anyone,
       mpirunLPP, Refuse, SortArgs, StartDaemons, StartRun, EndRun, RunFails,
       StartKillers, Script, Notifier, ReadPid, Preload, MPI_Init,
       ProgramDone, MPI_Finalize, Rank, lppMPIkiller, NothingToKill,
       ReadPidToKill, Kill, Move, Killer, environment
  <1>2. ~Anyone
    BY <1>1 DEF Anyone, ByScripts
  <1>3. ~late
    BY <1>1, <1>2, mpirunOnTime, NotifierOnTime, KillerOnTime
    DEF SessionNext, DaemonRuns, SignalsDelivered, environment
  <1>4. RunsInv'
    BY <1>1, <1>3, RunsStep
  <1>5. OnTimeInv'
    BY <1>1, <1>2, <1>3, DaemonOnTime, DeliveredOnTime, mpirunOnTime,
       NotifierOnTime, KillerOnTime DEF SessionNext
  <1> QED
    BY <1>4, <1>5

\* The inductive invariant of a session.
THEOREM SessionInvariant == SessionSpec => []SessionInv
  <1>1. SessionInit => SessionInv
    BY SessionInitInv
  <1>2. SessionInv /\ IInv /\ [SessionNext]_sessionVars => SessionInv'
    <2> SUFFICES ASSUME SessionInv, IInv, [SessionNext]_sessionVars
                 PROVE  SessionInv'
      OBVIOUS
    <2>1. CASE SessionNext
      <3>1. RanksInv'
        BY <2>1, RanksStep DEF SessionInv
      <3>2. /\ (notified \in Nat)' /\ (due \in Nat)' /\ (finished \in Nat)'
            /\ (ready \in BOOLEAN)'
        BY <2>1, CountsStep DEF SessionInv
      <3>3. (ByScripts /\ ~late => OnTimeInv /\ RunsInv)'
        BY <2>1, OnTimeStep
      <3>4. MovedInv'
        BY <2>1, MovedStep DEF SessionInv
      <3>5. SortedInv'
        BY <2>1, SortedStep DEF SessionInv
      <3> QED
        BY <3>1, <3>2, <3>3, <3>4, <3>5 DEF SessionInv
    <2>2. CASE UNCHANGED sessionVars
      BY <2>2
      DEF sessionVars, vars, environment, scriptVars, runCounts, runVars,
          probeVars, sendVars, SessionInv, RanksInv, NoRun, SortedInv,
          ByScripts, OnTimeInv, RunsInv, InRun, HasStarted, HasStopped, One,
          MovedInv
    <2> QED
      BY <2>1, <2>2
  <1>3. SessionSpec => []IInv
    BY SessionIsDaemon, InductiveInvariant, PTL
  <1> QED
    BY <1>1, <1>2, <1>3, PTL DEF SessionSpec

\* While every signal finds the daemon waiting, it measures exactly during
\* the runs that notify it and has kept one measurement of each of them; the
\* second signal of a run is sent when no process of it computes any more.
THEOREM OneMeasurement == SessionSpec => []OneMeasurementEachRun
  <1>1. SessionInv /\ IInv => OneMeasurementEachRun
    <2> SUFFICES ASSUME SessionInv, IInv PROVE OneMeasurementEachRun
      OBVIOUS
    <2>1. ASSUME ByScripts, ~late, OnTime
          PROVE  (measuring <=> InRun) /\ kept = notified
      <3>1. /\ measuring <=> pc = "in_pause_2"
            /\ HasStarted <=> pc = "in_pause_2"
        BY <2>1 DEF IInv, OnTime, Paused, HasStarted
      <3>2. ~HasStopped /\ kept \in Nat
        BY <2>1, MaxSignalsAssumption
        DEF IInv, TypeOK, OnTime, Paused, HasStopped
      <3> QED
        BY <2>1, <3>1, <3>2 DEF SessionInv, OnTimeInv, One
    <2>2. rank[0] = "ended" => \A p \in Ranks : rank[p] \in {"barrier", "ended"}
      BY SessionAssumption DEF SessionInv, RanksInv
    <2> QED
      BY <2>1, <2>2 DEF OneMeasurementEachRun
  <1>2. SessionSpec => []IInv
    BY SessionIsDaemon, InductiveInvariant, PTL
  <1> QED
    BY <1>1, <1>2, SessionInvariant, PTL

\* What lppMPIkiller.sh moves after its signal to this daemon was saved. If no
\* signal was late, it has a measurement of every run that did not fail and
\* began when the pid was in the file, and none of a run that failed.
THEOREM MovesSaved == SessionSpec => []MovedIsSaved
  <1>1. SessionInv /\ IInv => MovedIsSaved
    <2> SUFFICES ASSUME SessionInv, IInv, killer = "moved"
                 PROVE  saved /\ (~late => due <= kept /\ kept <= finished)
      BY DEF MovedIsSaved
    <2>1. ByScripts /\ pc \in Ended
      BY DEF SessionInv, MovedInv
    <2>2. saved
      BY <2>1 DEF IInv, Ended, Ending
    <2>3. ASSUME ~late
          PROVE  due <= kept /\ kept <= finished
      <3>1. ~HasStopped /\ kept \in Nat
        BY <2>1, MaxSignalsAssumption DEF IInv, TypeOK, HasStopped, Ended
      <3>2. kept = notified /\ notified \in Nat
        BY <2>1, <2>3, <3>1 DEF SessionInv, OnTimeInv, One
      <3>3. script = "kill"
        BY <2>1, <2>3 DEF SessionInv, OnTimeInv, Ended, Ending
      <3>4. rank[0] = "off"
        BY <3>3, SessionAssumption DEF SessionInv, RanksInv, NoRun
      <3>5. due + 0 <= notified /\ notified <= finished + 0
        BY <2>1, <2>3, <3>4 DEF SessionInv, RunsInv, One
      <3>6. due \in Nat /\ finished \in Nat
        BY DEF SessionInv
      <3> QED
        BY <3>2, <3>5, <3>6
    <2> QED
      BY <2>2, <2>3
  <1>2. SessionSpec => []IInv
    BY SessionIsDaemon, InductiveInvariant, PTL
  <1> QED
    BY <1>1, <1>2, SessionInvariant, PTL

-----------------------------------------------------------------------------
(* The argument loops of mpirunLPP.sh.                                     *)

\* What the loops keep between two arguments, and what they begin with.
Words == STRING \cup {"preloader.sh", "config.sh"}
Nexts == {"option", "ignored", "appended", "program", "refused"}
Sorted == [next : Nexts, args : Seq(Words)]
Unsorted == [next |-> "option", args |-> << >>]

LEMMA LightTyped ==
  ASSUME NEW x \in Sorted, NEW arg \in Words
  PROVE  LightArg(x, arg) \in Sorted
  <1> DEFINE longer == Append(x.args, arg)
  <1>1. x.next \in Nexts /\ x.args \in Seq(Words) /\ longer \in Seq(Words)
    BY DEF Sorted
  <1>2. \/ LightArg(x, arg) = x
        \/ \E y \in Nexts : \/ LightArg(x, arg) = [x EXCEPT !.next = y]
                            \/ LightArg(x, arg) =
                                 [x EXCEPT !.next = y, !.args = longer]
    <2> HIDE DEF longer
    <2>1. "option" \in Nexts /\ "ignored" \in Nexts /\ "appended" \in Nexts
      BY DEF Nexts
    <2>2. \/ LightArg(x, arg) = x
          \/ LightArg(x, arg) = [x EXCEPT !.next = "option"]
          \/ LightArg(x, arg) = [x EXCEPT !.next = "ignored"]
          \/ LightArg(x, arg) = [x EXCEPT !.next = "option", !.args = longer]
          \/ LightArg(x, arg) = [x EXCEPT !.next = "appended", !.args = longer]
      <3> DEFINE y == LightArg(x, arg)
      <3>1. CASE x.next = "ignored"
        BY <3>1 DEF LightArg
      <3>2. CASE x.next = "appended"
        BY <3>2 DEF LightArg, longer
      <3>3. CASE x.next = "option" /\ arg \in IgnOpts
        BY <3>3 DEF LightArg, IgnOpts, HostOpts
      <3>4. CASE x.next = "option" /\ arg \notin IgnOpts /\ arg \in HostOpts
        BY <3>4 DEF LightArg, longer
      <3>5. CASE ~(x.next \in {"ignored", "appended"})
                 /\ ~(x.next = "option" /\ arg \in IgnOpts \cup HostOpts)
        BY <3>5 DEF LightArg
      <3> QED
        BY <3>1, <3>2, <3>3, <3>4, <3>5
    <2> QED
      BY <2>1, <2>2
  <1> HIDE DEF longer
  <1> QED
    BY <1>1, <1>2 DEF Sorted

LEMMA LightSteps ==
  ASSUME NEW line \in Seq(Words)
  PROVE  \E acc \in [0 .. Len(line) -> Sorted] :
           /\ acc[0] = Unsorted /\ acc[Len(line)] = LightArgs(line)
           /\ \A k \in 1 .. Len(line) : acc[k] = LightArg(acc[k - 1], line[k])
  <1> DEFINE n == Len(line)
             Step(x, k) == LightArg(x, line[k])
             g == [k \in 1 .. n |-> [x \in Sorted |-> Step(x, k)]]
             base == Unsorted
             Is(iter) == iter = [s \in SUBSET (1 .. n) |-> IF s = {} THEN base
                                   ELSE Step(iter[s \ {Max(s)}], Max(s))]
             iter == CHOOSE iter : Is(iter)
  <1>1. LightArgs(line) = iter[1 .. n]
    <2>1. DOMAIN line = 1 .. n
      OBVIOUS
    <2> QED
      BY <2>1, Zenon DEF LightArgs, Unsorted, FoldLeft, MapThenFoldSet
  <1>2. n \in Nat /\ \A k \in 1 .. n : line[k] \in Words
    OBVIOUS
  <1>3. ASSUME NEW x \in Sorted, NEW k \in 1 .. n
        PROVE  Step(x, k) \in Sorted
    BY <1>2, LightTyped
  <1>4. base \in Sorted
    <2>1. "option" \in Nexts /\ << >> \in Seq(Words)
      BY DEF Nexts
    <2> QED
      BY <2>1, Zenon DEF Unsorted, Sorted
  <1> HIDE DEF n, Step, base
  <1>5. Is(iter) /\ g \in [1 .. n -> [Sorted -> Sorted]]
    <2>1. g \in [1 .. n -> [Sorted -> Sorted]]
      BY <1>3
    <2>2. PICK f : FoldsBy(f, n, Sorted, base, g)
      <3> HIDE DEF g
      <3> QED
        BY <1>2, <1>4, <2>1, FoldFunctionExists
    <2>3. ASSUME NEW s \in SUBSET (1 .. n), s # {}
          PROVE  g[Max(s)][f[s \ {Max(s)}]] = Step(f[s \ {Max(s)}], Max(s))
      <3>1. Max(s) \in 1 .. n /\ f[s \ {Max(s)}] \in Sorted
        BY <1>2, <2>2, <2>3, MaxOfPart DEF FoldsBy
      <3> QED
        BY <3>1
    <2>4. Is(f)
      <3> HIDE DEF g
      <3> QED
        BY <2>2, <2>3 DEF FoldsBy
    <2> HIDE DEF Is
    <2> QED
      BY <2>1, <2>4
  <1>6. FoldsWithin(iter, n, Sorted, base, g)
    <2> HIDE DEF iter
    <2>1. iter[{}] = base
      BY <1>5
    <2>2. ASSUME NEW s \in SUBSET (1 .. n), s # {},
                 iter[s \ {Max(s)}] \in Sorted
          PROVE  iter[s] = g[Max(s)][iter[s \ {Max(s)}]]
      <3>1. Max(s) \in 1 .. n
        BY <1>2, <2>2, MaxOfPart
      <3>2. iter[s] = Step(iter[s \ {Max(s)}], Max(s))
        BY <1>5, <2>2
      <3> QED
        BY <2>2, <3>1, <3>2
    <2> HIDE DEF g
    <2> QED
      BY <2>1, <2>2 DEF FoldsWithin
  <1> HIDE DEF iter
  <1>7. PICK acc : RecursBy(acc, n, Sorted, base, g) /\ acc[n] = iter[1 .. n]
    <2> HIDE DEF g, Is
    <2> QED
      BY <1>2, <1>4, <1>5, <1>6, FoldRecurs
  <1>8. ASSUME NEW k \in 1 .. n
        PROVE  acc[k] = LightArg(acc[k - 1], line[k])
    <2>1. acc[k] = g[k][acc[k - 1]] /\ acc[k - 1] \in Sorted
      BY <1>2, <1>7 DEF RecursBy
    <2> QED
      BY <2>1 DEF Step
  <1>9. acc \in [0 .. n -> Sorted] /\ acc[0] = Unsorted
    BY <1>7 DEF RecursBy, base
  <1> QED
    BY <1>1, <1>7, <1>8, <1>9 DEF n

LEMMA ProgramTyped ==
  ASSUME NEW x \in Sorted, NEW arg \in Words
  PROVE  ProgramArg(x, arg) \in Sorted
  <1> DEFINE longer == Append(x.args, arg)
             found == x.args \o << "preloader.sh", "config.sh", arg >>
  <1>1. /\ x.next \in Nexts /\ x.args \in Seq(Words)
        /\ longer \in Seq(Words) /\ found \in Seq(Words)
    <2>1. "preloader.sh" \in Words /\ "config.sh" \in Words
      BY DEF Words
    <2>2. << "preloader.sh", "config.sh", arg >> \in Seq(Words)
      BY <2>1
    <2> QED
      BY <2>2 DEF Sorted
  <1> HIDE DEF found
  <1>2. CASE x.next = "refused"
    BY <1>2 DEF ProgramArg
  <1>3. CASE x.next \in {"appended", "program"}
    <2>1. ProgramArg(x, arg) =
            [x EXCEPT !.next = IF x.next = "program" THEN x.next ELSE "option",
                      !.args = longer]
      BY <1>3 DEF ProgramArg
    <2>2. (IF x.next = "program" THEN x.next ELSE "option") \in Nexts
      BY DEF Nexts
    <2> HIDE DEF longer
    <2> QED
      BY <1>1, <2>1, <2>2 DEF Sorted
  <1>4. CASE x.next = "option" /\ arg \in Opts
    <2>1. ProgramArg(x, arg) = [x EXCEPT !.next = "appended", !.args = longer]
      BY <1>4 DEF ProgramArg, Opts, IgnOpts, HostOpts, Unsupported
    <2>2. "appended" \in Nexts
      BY DEF Nexts
    <2> HIDE DEF longer
    <2> QED
      BY <1>1, <2>1, <2>2 DEF Sorted
  <1>5. CASE x.next = "option" /\ arg \notin Opts /\ arg \in Unsupported
    BY <1>1, <1>5 DEF ProgramArg, Sorted, Nexts
  <1>6. CASE /\ ~(x.next \in {"refused", "appended", "program"})
             /\ ~(x.next = "option" /\ arg \in Opts \cup Unsupported)
    <2>1. ProgramArg(x, arg) = [next |-> "program", args |-> found]
      BY <1>6 DEF ProgramArg, found
    <2>2. "program" \in Nexts
      BY DEF Nexts
    <2> QED
      BY <1>1, <2>1, <2>2 DEF Sorted
  <1> QED
    BY <1>2, <1>3, <1>4, <1>5, <1>6

LEMMA ProgramSteps ==
  ASSUME NEW line \in Seq(Words)
  PROVE  \E acc \in [0 .. Len(line) -> Sorted] :
           /\ acc[0] = Unsorted /\ acc[Len(line)] = ProgramArgs(line)
           /\ \A k \in 1 .. Len(line) : acc[k] = ProgramArg(acc[k - 1], line[k])
  <1> DEFINE n == Len(line)
             Step(x, k) == ProgramArg(x, line[k])
             g == [k \in 1 .. n |-> [x \in Sorted |-> Step(x, k)]]
             base == Unsorted
             Is(iter) == iter = [s \in SUBSET (1 .. n) |-> IF s = {} THEN base
                                   ELSE Step(iter[s \ {Max(s)}], Max(s))]
             iter == CHOOSE iter : Is(iter)
  <1>1. ProgramArgs(line) = iter[1 .. n]
    <2>1. DOMAIN line = 1 .. n
      OBVIOUS
    <2> QED
      BY <2>1, Zenon DEF ProgramArgs, Unsorted, FoldLeft, MapThenFoldSet
  <1>2. n \in Nat /\ \A k \in 1 .. n : line[k] \in Words
    OBVIOUS
  <1>3. ASSUME NEW x \in Sorted, NEW k \in 1 .. n
        PROVE  Step(x, k) \in Sorted
    BY <1>2, ProgramTyped
  <1>4. base \in Sorted
    <2>1. "option" \in Nexts /\ << >> \in Seq(Words)
      BY DEF Nexts
    <2> QED
      BY <2>1, Zenon DEF Unsorted, Sorted
  <1> HIDE DEF n, Step, base
  <1>5. Is(iter) /\ g \in [1 .. n -> [Sorted -> Sorted]]
    <2>1. g \in [1 .. n -> [Sorted -> Sorted]]
      BY <1>3
    <2>2. PICK f : FoldsBy(f, n, Sorted, base, g)
      <3> HIDE DEF g
      <3> QED
        BY <1>2, <1>4, <2>1, FoldFunctionExists
    <2>3. ASSUME NEW s \in SUBSET (1 .. n), s # {}
          PROVE  g[Max(s)][f[s \ {Max(s)}]] = Step(f[s \ {Max(s)}], Max(s))
      <3>1. Max(s) \in 1 .. n /\ f[s \ {Max(s)}] \in Sorted
        BY <1>2, <2>2, <2>3, MaxOfPart DEF FoldsBy
      <3> QED
        BY <3>1
    <2>4. Is(f)
      <3> HIDE DEF g
      <3> QED
        BY <2>2, <2>3 DEF FoldsBy
    <2> HIDE DEF Is
    <2> QED
      BY <2>1, <2>4
  <1>6. FoldsWithin(iter, n, Sorted, base, g)
    <2> HIDE DEF iter
    <2>1. iter[{}] = base
      BY <1>5
    <2>2. ASSUME NEW s \in SUBSET (1 .. n), s # {},
                 iter[s \ {Max(s)}] \in Sorted
          PROVE  iter[s] = g[Max(s)][iter[s \ {Max(s)}]]
      <3>1. Max(s) \in 1 .. n
        BY <1>2, <2>2, MaxOfPart
      <3>2. iter[s] = Step(iter[s \ {Max(s)}], Max(s))
        BY <1>5, <2>2
      <3> QED
        BY <2>2, <3>1, <3>2
    <2> HIDE DEF g
    <2> QED
      BY <2>1, <2>2 DEF FoldsWithin
  <1> HIDE DEF iter
  <1>7. PICK acc : RecursBy(acc, n, Sorted, base, g) /\ acc[n] = iter[1 .. n]
    <2> HIDE DEF g, Is
    <2> QED
      BY <1>2, <1>4, <1>5, <1>6, FoldRecurs
  <1>8. ASSUME NEW k \in 1 .. n
        PROVE  acc[k] = ProgramArg(acc[k - 1], line[k])
    <2>1. acc[k] = g[k][acc[k - 1]] /\ acc[k - 1] \in Sorted
      BY <1>2, <1>7 DEF RecursBy
    <2> QED
      BY <2>1 DEF Step
  <1>9. acc \in [0 .. n -> Sorted] /\ acc[0] = Unsorted
    BY <1>7 DEF RecursBy, base
  <1> QED
    BY <1>1, <1>7, <1>8, <1>9 DEF n

\* An argument is appended.
Longer(opts, arg) == Append(opts, arg)

\* What the loop for the daemons does with each argument.
LEMMA LightCases ==
  ASSUME NEW x \in Sorted, NEW arg, NEW y, y = LightArg(x, arg)
  PROVE  /\ x.next = "ignored" => y.next = "option" /\ y.args = x.args
         /\ x.next = "appended" =>
              y.next = "option" /\ y.args = Longer(x.args, arg)
         /\ x.next = "option" /\ arg \in IgnOpts =>
              y.next = "ignored" /\ y.args = x.args
         /\ x.next = "option" /\ arg \in HostOpts =>
              y.next = "appended" /\ y.args = Longer(x.args, arg)
         /\ x.next = "option" /\ arg \notin Opts => y = x
  <1>1. CASE x.next = "ignored"
    BY <1>1 DEF LightArg, Sorted, Longer
  <1>2. CASE x.next = "appended"
    BY <1>2 DEF LightArg, Sorted, Longer
  <1>3. CASE x.next = "option" /\ arg \in IgnOpts
    BY <1>3 DEF LightArg, Sorted, Longer, Opts, IgnOpts, HostOpts
  <1>4. CASE x.next = "option" /\ arg \in HostOpts
    BY <1>4 DEF LightArg, Sorted, Longer, Opts, IgnOpts, HostOpts
  <1>5. CASE x.next = "option" /\ arg \notin Opts
    BY <1>5 DEF LightArg, Opts
  <1> QED
    BY <1>1, <1>2, <1>3, <1>4, <1>5

\* And the loop for the program.
LEMMA ProgramCases ==
  ASSUME NEW x \in Sorted, NEW arg, NEW y, y = ProgramArg(x, arg)
  PROVE  /\ x.next = "refused" => y.next = "refused"
         /\ x.next = "appended" =>
              y.next = "option" /\ y.args = Longer(x.args, arg)
         /\ x.next = "program" =>
              y.next = "program" /\ y.args = Longer(x.args, arg)
         /\ x.next = "option" /\ arg \in Opts =>
              y.next = "appended" /\ y.args = Longer(x.args, arg)
         /\ x.next = "option" /\ arg \in Unsupported => y.next = "refused"
         /\ x.next = "option" /\ arg \notin Opts \cup Unsupported =>
              /\ y.next = "program"
              /\ y.args = x.args \o << "preloader.sh", "config.sh", arg >>
  <1>1. CASE x.next = "refused"
    BY <1>1 DEF ProgramArg
  <1>2. CASE x.next = "appended"
    BY <1>2 DEF ProgramArg, Sorted, Longer
  <1>3. CASE x.next = "program"
    BY <1>3 DEF ProgramArg, Sorted, Longer
  <1>4. CASE x.next = "option" /\ arg \in Opts
    BY <1>4 DEF ProgramArg, Sorted, Longer, Opts, IgnOpts, HostOpts, Unsupported
  <1>5. CASE x.next = "option" /\ arg \in Unsupported
    BY <1>5 DEF ProgramArg, Sorted, Longer, Opts, IgnOpts, HostOpts, Unsupported
  <1>6. CASE x.next = "option" /\ arg \notin Opts \cup Unsupported
    BY <1>6 DEF ProgramArg
  <1> QED
    BY <1>1, <1>2, <1>3, <1>4, <1>5, <1>6

\* opts are options of mpirun, each with its value; and those with a value
\* that name nodes.
OnlyOptions(opts) == \A i \in 1 .. Len(opts) : i % 2 = 1 => opts[i] \in Opts
Named(opts) == NodesBefore(opts, Len(opts) + 1)

\* The preloader is at position c, behind options.
FoundAt(opts, c) ==
  /\ c \in 1 .. Len(opts) /\ c % 2 = 1 /\ opts[c] = "preloader.sh"
  /\ \A i \in 1 .. c - 1 : i % 2 = 1 => opts[i] \in Opts

\* No argument from position c on is an option.
NoOptionFrom(opts, c) == \A i \in c .. Len(opts) : opts[i] \notin Opts

LEMMA SameNodes ==
  ASSUME NEW s, NEW t, NEW c \in Nat, \A i \in 1 .. c - 1 : s[i] = t[i]
  PROVE  NodesBefore(s, c) = NodesBefore(t, c)
  <1>1. \A i \in 1 .. c - 2 : s[i] = t[i] /\ s[i + 1] = t[i + 1]
    OBVIOUS
  <1> QED
    BY <1>1 DEF NodesBefore

\* One more argument: an option after pairs, or the value of the last option.
LEMMA OneMore ==
  ASSUME NEW s \in Seq(Words), NEW arg \in Words, NEW t, t = Longer(s, arg)
  PROVE  /\ Len(t) = Len(s) + 1 /\ t[Len(t)] = arg
         /\ \A i \in 1 .. Len(s) : t[i] = s[i]
         /\ Len(s) % 2 = 0 =>
              /\ Len(t) % 2 = 1 /\ Named(t) = Named(s)
              /\ OnlyOptions(s) /\ arg \in Opts => OnlyOptions(t)
         /\ Len(s) % 2 = 1 =>
              /\ Len(t) % 2 = 0
              /\ Named(t) = Named(s) \cup
                   (IF s[Len(s)] \in HostOpts THEN {arg} ELSE {})
              /\ OnlyOptions(s) => OnlyOptions(t)
  <1> DEFINE n == Len(s)
  <1>1. n \in Nat
    OBVIOUS
  <1>2. Len(t) = n + 1 /\ t[n + 1] = arg /\ \A i \in 1 .. n : t[i] = s[i]
    BY DEF Longer
  <1> HIDE DEF n
  <1>3. NodesBefore(t, n + 1) = NodesBefore(s, n + 1)
    <2>1. n + 1 \in Nat /\ \A i \in 1 .. (n + 1) - 1 : t[i] = s[i]
      BY <1>1, <1>2
    <2> QED
      BY <2>1, SameNodes
  <1>4. ASSUME n % 2 = 0
        PROVE  /\ (n + 1) % 2 = 1
               /\ NodesBefore(t, n + 2) = NodesBefore(s, n + 1)
               /\ OnlyOptions(s) /\ arg \in Opts => OnlyOptions(t)
    <2>1. (n + 1) % 2 = 1
      BY <1>1, <1>4
    <2>2. {j \in 1 .. (n + 2) - 2 : j % 2 = 1 /\ t[j] \in HostOpts} =
            {j \in 1 .. (n + 1) - 2 : j % 2 = 1 /\ t[j] \in HostOpts}
      <3>1. \A j : j \in 1 .. (n + 2) - 2 /\ j % 2 = 1 <=>
                     j \in 1 .. (n + 1) - 2 /\ j % 2 = 1
        BY <1>1, <1>4
      <3> QED
        BY <3>1, Zenon
    <2>3. NodesBefore(t, n + 2) = NodesBefore(t, n + 1)
      BY <2>2 DEF NodesBefore
    <2>4. ASSUME OnlyOptions(s), arg \in Opts, NEW i \in 1 .. n + 1, i % 2 = 1
          PROVE  t[i] \in Opts
      BY <1>1, <1>2, <2>4 DEF OnlyOptions, n
    <2> QED
      BY <1>2, <1>3, <2>1, <2>3, <2>4 DEF OnlyOptions
  <1>5. ASSUME n % 2 = 1
        PROVE  /\ (n + 1) % 2 = 0
               /\ NodesBefore(t, n + 2) = NodesBefore(s, n + 1) \cup
                    (IF s[n] \in HostOpts THEN {arg} ELSE {})
               /\ OnlyOptions(s) => OnlyOptions(t)
    <2>1. (n + 1) % 2 = 0
      BY <1>1, <1>5
    <2>2. {j \in 1 .. (n + 2) - 2 : j % 2 = 1 /\ t[j] \in HostOpts} =
            {j \in 1 .. (n + 1) - 2 : j % 2 = 1 /\ t[j] \in HostOpts}
              \cup (IF t[n] \in HostOpts THEN {n} ELSE {})
      <3>1. \A j : j \in 1 .. (n + 2) - 2 <=> j \in 1 .. (n + 1) - 2 \/ j = n
        BY <1>1, <1>5
      <3> QED
        BY <1>5, <3>1
    <2>3. NodesBefore(t, n + 2) = NodesBefore(t, n + 1) \cup
            (IF t[n] \in HostOpts THEN {t[n + 1]} ELSE {})
      BY <2>2 DEF NodesBefore
    <2>4. n \in 1 .. n
      BY <1>1, <1>5
    <2>5. ASSUME OnlyOptions(s), NEW i \in 1 .. n + 1, i % 2 = 1
          PROVE  t[i] \in Opts
      BY <1>1, <1>2, <1>5, <2>5 DEF OnlyOptions, n
    <2> QED
      BY <1>2, <1>3, <2>1, <2>3, <2>4, <2>5 DEF OnlyOptions
  <1>6. (n + 1) + 1 = n + 2
    BY <1>1
  <1> QED
    BY <1>2, <1>4, <1>5, <1>6 DEF Named, n

LEMMA CommandFound ==
  ASSUME NEW s \in Seq(Words), NEW c, FoundAt(s, c)
  PROVE  CommandAt(s) = c
  <1> DEFINE at == {i \in 1 .. Len(s) : i % 2 = 1 /\ s[i] \notin Opts}
  <1>1. c \in at
    BY DEF FoundAt, Opts, IgnOpts, HostOpts
  <1>2. \A i \in at : c <= i
    BY DEF FoundAt
  <1>3. at \subseteq Int
    OBVIOUS
  <1>4. CommandAt(s) = IF at = {} THEN Len(s) + 1 ELSE Min(at)
    BY DEF CommandAt
  <1> HIDE DEF at
  <1>5. Min(at) = c
    <2> DEFINE m == Min(at)
    <2>1. m \in at /\ \A y \in at : m <= y
      BY <1>1, <1>2 DEF Min
    <2> HIDE DEF m
    <2>2. m \in Int /\ c \in Int /\ m <= c /\ c <= m
      BY <1>1, <1>2, <1>3, <2>1
    <2>3. m = c
      BY <2>2
    <2> QED
      BY <2>3 DEF m
  <1> QED
    BY <1>1, <1>4, <1>5

LEMMA NoCommand ==
  ASSUME NEW s \in Seq(Words), OnlyOptions(s)
  PROVE  CommandAt(s) = Len(s) + 1
  BY DEF CommandAt, OnlyOptions

\* Both loops, at one argument. Among the options of mpirun they go together;
\* the one for the daemons leaves out those that name no nodes, and adds
\* nothing behind the name of the program unless it meets an option there.
Aligned(light, program) ==
  /\ program.next \in {"option", "appended", "program", "refused"}
  /\ program.next = "option" =>
       /\ OnlyOptions(program.args) /\ Len(program.args) % 2 = 0
       /\ OnlyOptions(light.args) /\ Len(light.args) % 2 = 0
       /\ light.next = "option" /\ Named(light.args) = Named(program.args)
  /\ program.next = "appended" =>
       /\ OnlyOptions(program.args) /\ Len(program.args) % 2 = 1
       /\ OnlyOptions(light.args)
       /\ Named(light.args) = Named(program.args)
       /\ \/ /\ program.args[Len(program.args)] \in HostOpts
             /\ light.next = "appended" /\ Len(light.args) % 2 = 1
             /\ light.args[Len(light.args)] \in HostOpts
          \/ /\ program.args[Len(program.args)] \notin HostOpts
             /\ light.next = "ignored" /\ Len(light.args) % 2 = 0
  /\ program.next = "program" =>
       \E c : /\ FoundAt(program.args, c)
              /\ NoOptionFrom(program.args, c + 1) =>
                   /\ light.next = "option" /\ OnlyOptions(light.args)
                   /\ Named(light.args) = NodesBefore(program.args, c)

LEMMA AlignedInit == Aligned(Unsorted, Unsorted)
  BY DEF Aligned, Unsorted, OnlyOptions

LEMMA AlignedStep ==
  ASSUME NEW L \in Sorted, NEW P \in Sorted, NEW arg \in Words, Aligned(L, P),
         NEW L1, L1 = LightArg(L, arg), NEW P1, P1 = ProgramArg(P, arg)
  PROVE  Aligned(L1, P1)
  <1> DEFINE l == L.args
             l1 == L1.args
             p == P.args
             p1 == P1.args
  <1>1. l \in Seq(Words) /\ p \in Seq(Words)
    BY DEF Sorted
  <1> HIDE DEF l, l1, p, p1
  <1>2. CASE P.next = "refused"
    <2>1. P1.next = "refused"
      BY <1>2, ProgramCases DEF p, p1
    <2> QED
      BY <2>1 DEF Aligned, l, l1, p, p1
  <1>3. CASE P.next = "appended"
    <2>1. P1.next = "option" /\ p1 = Longer(p, arg)
      BY <1>3, ProgramCases DEF p, p1
    <2>2. /\ OnlyOptions(p) /\ Len(p) % 2 = 1 /\ OnlyOptions(l)
          /\ Named(l) = Named(p)
      BY <1>3 DEF Aligned, l, l1, p, p1
    <2>3. /\ OnlyOptions(p1) /\ Len(p1) % 2 = 0
          /\ Named(p1) =
               Named(p) \cup (IF p[Len(p)] \in HostOpts THEN {arg} ELSE {})
      BY <1>1, <2>1, <2>2, OneMore
    <2>4. CASE p[Len(p)] \in HostOpts
      <3>1. /\ L.next = "appended" /\ Len(l) % 2 = 1
            /\ l[Len(l)] \in HostOpts
        BY <1>3, <2>4 DEF Aligned, l, l1, p, p1
      <3>2. L1.next = "option" /\ l1 = Longer(l, arg)
        BY <3>1, LightCases DEF l, l1
      <3>3. /\ OnlyOptions(l1) /\ Len(l1) % 2 = 0
            /\ Named(l1) = Named(l) \cup {arg}
        BY <1>1, <2>2, <3>1, <3>2, OneMore
      <3> QED
        BY <2>1, <2>2, <2>3, <2>4, <3>2, <3>3 DEF Aligned, l, l1, p, p1
    <2>5. CASE p[Len(p)] \notin HostOpts
      <3>1. L.next = "ignored" /\ Len(l) % 2 = 0
        BY <1>3, <2>5 DEF Aligned, l, l1, p, p1
      <3>2. L1.next = "option" /\ l1 = l
        BY <3>1, LightCases DEF l, l1
      <3> QED
        BY <2>1, <2>2, <2>3, <2>5, <3>1, <3>2 DEF Aligned, l, l1, p, p1
    <2> QED
      BY <2>4, <2>5
  <1>4. CASE P.next = "option"
    <2>1. /\ OnlyOptions(p) /\ Len(p) % 2 = 0 /\ OnlyOptions(l)
          /\ Len(l) % 2 = 0 /\ L.next = "option" /\ Named(l) = Named(p)
      BY <1>4 DEF Aligned, l, l1, p, p1
    <2>2. CASE arg \in Opts
      <3>1. P1.next = "appended" /\ p1 = Longer(p, arg)
        BY <1>4, <2>2, ProgramCases DEF p, p1
      <3>2. /\ OnlyOptions(p1) /\ Len(p1) % 2 = 1 /\ Named(p1) = Named(p)
            /\ p1[Len(p1)] = arg
        BY <1>1, <2>1, <2>2, <3>1, OneMore
      <3>3. CASE arg \in HostOpts
        <4>1. L1.next = "appended" /\ l1 = Longer(l, arg)
          BY <2>1, <3>3, LightCases DEF l, l1
        <4>2. /\ OnlyOptions(l1) /\ Len(l1) % 2 = 1 /\ Named(l1) = Named(l)
              /\ l1[Len(l1)] = arg
          BY <1>1, <2>1, <2>2, <4>1, OneMore
        <4> QED
          BY <2>1, <3>1, <3>2, <3>3, <4>1, <4>2 DEF Aligned, l, l1, p, p1
      <3>4. CASE arg \notin HostOpts
        <4>1. L1.next = "ignored" /\ l1 = l
          BY <2>1, <2>2, <3>4, LightCases DEF Opts, l, l1
        <4> QED
          BY <2>1, <3>1, <3>2, <3>4, <4>1 DEF Aligned, l, l1, p, p1
      <3> QED
        BY <3>3, <3>4
    <2>3. CASE arg \in Unsupported
      <3>1. P1.next = "refused"
        BY <1>4, <2>3, ProgramCases DEF p, p1
      <3> QED
        BY <3>1 DEF Aligned, l, l1, p, p1
    <2>4. CASE arg \notin Opts \cup Unsupported
      <3> DEFINE c == Len(p) + 1
      <3>1. /\ P1.next = "program"
            /\ p1 = p \o << "preloader.sh", "config.sh", arg >>
        BY <1>4, <2>4, ProgramCases DEF p, p1
      <3>2. L1 = L
        BY <2>1, <2>4, LightCases DEF l, l1
      <3>3. /\ c \in Nat /\ c % 2 = 1
            /\ c \in 1 .. Len(p1) /\ p1[c] = "preloader.sh"
            /\ \A i \in 1 .. c - 1 : p1[i] = p[i] /\ i \in 1 .. Len(p)
        <4>1. Len(p) \in Nat /\ c % 2 = 1
          <5>1. Len(p) \in Nat /\ Len(p) % 2 = 0
            BY <1>1, <2>1
          <5> QED
            BY <5>1
        <4> DEFINE q == << "preloader.sh", "config.sh", arg >>
        <4>2. q \in Seq(Words) /\ Len(q) = 3 /\ q[1] = "preloader.sh"
          BY DEF Words
        <4> HIDE DEF q
        <4>3. /\ Len(p \o q) = Len(p) + Len(q)
              /\ \A j \in 1 .. Len(p) : (p \o q)[j] = p[j]
              /\ \A j \in 1 .. Len(p) + Len(q) :
                   ~(j <= Len(p)) => (p \o q)[j] = q[j - Len(p)]
          BY <1>1, <4>2, Concatenated
        <4>4. p1 = p \o q
          BY <3>1 DEF q
        <4>5. c \in 1 .. Len(p) + 3 /\ ~(c <= Len(p)) /\ c - Len(p) = 1
          BY <4>1
        <4>6. p1[c] = "preloader.sh"
          BY <4>2, <4>3, <4>4, <4>5
        <4> QED
          BY <4>1, <4>2, <4>3, <4>4, <4>5, <4>6
      <3>4. NodesBefore(p1, c) = Named(p)
        BY <3>3, SameNodes DEF Named
      <3>5. FoundAt(p1, c)
        BY <2>1, <3>3 DEF FoundAt, OnlyOptions
      <3> HIDE DEF c
      <3> QED
        BY <2>1, <3>1, <3>2, <3>4, <3>5 DEF Aligned, l, l1, p, p1
    <2> QED
      BY <2>2, <2>3, <2>4
  <1>5. CASE P.next = "program"
    <2>1. P1.next = "program" /\ p1 = Longer(p, arg)
      BY <1>5, ProgramCases DEF p, p1
    <2>2. PICK c : /\ FoundAt(p, c)
                   /\ NoOptionFrom(p, c + 1) =>
                        /\ L.next = "option" /\ OnlyOptions(l)
                        /\ Named(l) = NodesBefore(p, c)
      BY <1>5 DEF Aligned, l, l1, p, p1
    <2>3. Len(p1) = Len(p) + 1 /\ p1[Len(p1)] = arg
            /\ \A i \in 1 .. Len(p) : p1[i] = p[i]
      BY <1>1, <2>1, OneMore
    <2>4. c \in 1 .. Len(p) /\ Len(p) \in Nat
      BY <1>1, <2>2 DEF FoundAt
    <2>5. FoundAt(p1, c)
      BY <2>2, <2>3, <2>4 DEF FoundAt
    <2>6. NodesBefore(p1, c) = NodesBefore(p, c)
      <3>1. c \in Nat /\ \A i \in 1 .. c - 1 : p1[i] = p[i]
        BY <2>3, <2>4
      <3> QED
        BY <3>1, SameNodes
    <2>7. ASSUME NoOptionFrom(p1, c + 1)
          PROVE  NoOptionFrom(p, c + 1) /\ arg \notin Opts
      BY <2>3, <2>4, <2>7 DEF NoOptionFrom
    <2>8. ASSUME NoOptionFrom(p1, c + 1)
          PROVE  /\ L1.next = "option" /\ OnlyOptions(l1)
                 /\ Named(l1) = NodesBefore(p1, c)
      <3>1. L.next = "option" /\ OnlyOptions(l) /\ Named(l) = NodesBefore(p, c)
        BY <2>2, <2>7, <2>8
      <3>2. L1 = L
        BY <2>7, <2>8, <3>1, LightCases DEF l, l1
      <3> QED
        BY <2>6, <3>1, <3>2 DEF l, l1
    <2> QED
      BY <2>1, <2>5, <2>8 DEF Aligned, l, l1, p, p1
  <1> QED
    BY <1>2, <1>3, <1>4, <1>5 DEF Aligned, l, l1, p, p1

\* Both loops, at the end of the command line.
LEMMA ArgsAligned ==
  ASSUME NEW line \in Seq(Words)
  PROVE  /\ LightArgs(line) \in Sorted /\ ProgramArgs(line) \in Sorted
         /\ Aligned(LightArgs(line), ProgramArgs(line))
  <1> DEFINE n == Len(line)
  <1>1. n \in Nat /\ \A k \in 1 .. n : line[k] \in Words
    OBVIOUS
  <1>2. PICK l \in [0 .. n -> Sorted] :
          /\ l[0] = Unsorted /\ l[n] = LightArgs(line)
          /\ \A k \in 1 .. n : l[k] = LightArg(l[k - 1], line[k])
    BY LightSteps
  <1>3. PICK p \in [0 .. n -> Sorted] :
          /\ p[0] = Unsorted /\ p[n] = ProgramArgs(line)
          /\ \A k \in 1 .. n : p[k] = ProgramArg(p[k - 1], line[k])
    BY ProgramSteps
  <1> HIDE DEF n
  <1> DEFINE T == {k \in 0 .. n : Aligned(l[k], p[k])}
  <1>4. 0 .. n \subseteq T
    <2>1. 0 \in T
      BY <1>1, <1>2, <1>3, AlignedInit
    <2>2. ASSUME NEW k \in 1 .. n, k - 1 \in T
          PROVE  k \in T
      <3>1. /\ l[k - 1] \in Sorted /\ p[k - 1] \in Sorted /\ line[k] \in Words
            /\ Aligned(l[k - 1], p[k - 1])
        BY <1>1, <2>2
      <3>2. Aligned(l[k], p[k])
        BY <1>2, <1>3, <3>1, AlignedStep
      <3> QED
        BY <1>1, <3>2
    <2> HIDE DEF T
    <2> QED
      BY <1>1, <2>1, <2>2, UpTo
  <1> QED
    BY <1>1, <1>2, <1>3, <1>4

\* The daemons are started where the program is run.
LEMMA SameHosts ==
  ASSUME NEW line \in Seq(Words), ProgramArgs(line).next # "refused",
         NEW l, l = LightArgs(line).args, NEW p, p = ProgramArgs(line).args,
         CommandAt(p) <= Len(p), NoOptionFrom(p, CommandAt(p) + 1)
  PROVE  NodesOf(l) = NodesOf(p)
  <1> DEFINE L == LightArgs(line)
             P == ProgramArgs(line)
  <1>1. /\ Aligned(L, P) /\ l \in Seq(Words) /\ p \in Seq(Words)
        /\ l = L.args /\ p = P.args /\ P.next # "refused"
    BY ArgsAligned DEF Sorted
  <1> HIDE DEF L, P
  <1>2. ~OnlyOptions(p)
    <2>1. Len(p) \in Nat
      BY <1>1
    <2> QED
      BY <1>1, <2>1, NoCommand
  <1>3. PICK c : /\ FoundAt(p, c)
                 /\ NoOptionFrom(p, c + 1) =>
                      OnlyOptions(l) /\ Named(l) = NodesBefore(p, c)
    BY <1>1, <1>2 DEF Aligned
  <1>4. CommandAt(p) = c
    BY <1>1, <1>3, CommandFound
  <1>5. OnlyOptions(l) /\ Named(l) = NodesBefore(p, c)
    BY <1>3, <1>4
  <1>6. CommandAt(l) = Len(l) + 1
    BY <1>1, <1>5, NoCommand
  <1> QED
    BY <1>4, <1>5, <1>6 DEF NodesOf, Named

\* What is moved after the daemon was signalled is saved and has the
\* measurements of the runs, as above, and it is looked for wherever the program
\* was run: whatever the command line is, as long as no argument of the program
\* looks like an option of mpirun.
THEOREM MovesComplete == SessionSpec => []MovedIsComplete
  <1>1. SessionInv /\ MovedIsSaved => MovedIsComplete
    <2> SUFFICES ASSUME SessionInv, MovedIsSaved, script = "kill",
                        ProgramHere, ArgsOfProgram \cap Opts = {}
                 PROVE  DaemonHere
      BY DEF MovedIsComplete
    <2>1. /\ args \in Seq(Words) /\ ProgramArgs(args).next # "refused"
          /\ largs = LightArgs(args).args /\ pargs = ProgramArgs(args).args
      <3>1. args \in Seq(STRING)
        BY SessionAssumption DEF SessionInv, SortedInv
      <3>2. args \in Seq(Words)
        <4>1. \A i \in 1 .. Len(args) : args[i] \in Words
          BY <3>1 DEF Words
        <4> QED
          BY <3>1, <4>1, SeqMonotonic
      <3> QED
        BY <3>2 DEF SessionInv, SortedInv
    <2>2. NoOptionFrom(pargs, CommandAt(pargs) + 1)
      BY DEF ArgsOfProgram, NoOptionFrom
    <2>3. CommandAt(pargs) <= Len(pargs) /\ "here" \in NodesOf(pargs)
      BY DEF ProgramHere
    <2>4. NodesOf(largs) = NodesOf(pargs)
      BY <2>1, <2>2, <2>3, SameHosts
    <2> QED
      BY <2>3, <2>4 DEF DaemonHere
  <1> QED
    BY <1>1, SessionInvariant, MovesSaved, PTL
=============================================================================
