----------------------------- MODULE MpiSession -----------------------------
(***************************************************************************)
(* A daemon and those who signal it: anyone (as in DaemonRunner), or the   *)
(* scripts for MPI. mpirunLPP.sh starts a daemon on every node in the      *)
(* background, runs the program NREPET times, and then the script          *)
(* lppMPIkiller.sh on every node. The program is run with the library      *)
(* liblppMPInotifier, whose MPI_Init and MPI_Finalize signal the daemon    *)
(* from the process with local rank 0.                                     *)
(*                                                                         *)
(* The model looks at one node, "here". mpirun is external: it starts a    *)
(* command on the nodes its arguments name, on all if they name none, and  *)
(* ends the other processes of a run when one of them fails.               *)
(***************************************************************************)
EXTENDS DaemonRunner, Sequences, SequencesExt

CONSTANTS
  NREPET,       \* runs of the program
  Ranks,        \* local ranks of the program's processes on this node
  CommandLines  \* the arguments of mpirunLPP.sh behind the configuration

ASSUME SessionAssumption ==
  /\ NREPET \in Nat /\ 0 \in Ranks
  /\ CommandLines \subseteq Seq(STRING)
  /\ 2 * NREPET + 1 <= MaxSignals

VARIABLES
  sender,    \* who signals the daemon: "anyone" or "scripts"
  args,      \* the command line
  largs, pargs,   \* its arguments for the daemons and for the program
  script,    \* where mpirunLPP.sh is
  runs,      \* runs of the program so far
  ready,     \* the daemon's pid was in the file when this run began
  due,       \* runs that were ready and have ended without failing
  finished,  \* all runs on this node that have ended without failing
  rank,      \* where the processes of a run on this node are
  lpp_pid,   \* what the process with local rank 0 has read
  notified,  \* runs that have sent both signals to the daemon
  killer,    \* where lppMPIkiller.sh is on this node
  late       \* a signal has come to a daemon that was not in pause, or a run
             \* has failed between its two signals

runCounts == << ready, due, finished >>
scriptVars == << args, largs, pargs, script, runs, runCounts >>
runVars == << rank, lpp_pid, notified >>
environment == << sender, scriptVars, runVars, killer, late >>
sessionVars == << vars, environment >>

IgnOpts == {"-c", "-n", "--n", "-np"}
HostOpts == {"-hostfile", "--hostfile", "-machinefile", "--machinefile",
             "-H", "-host", "--host"}
Opts == IgnOpts \cup HostOpts
Unsupported == {"-x"}
Nodes == {"here", "there"}
NoRun == [p \in Ranks |-> "off"]

SessionInit ==
  /\ Init
  /\ sender \in {"anyone", "scripts"}
  /\ args \in CommandLines
  /\ largs = << >> /\ pargs = << >>
  /\ script = "config" /\ runs = 0
  /\ ready = FALSE /\ due = 0 /\ finished = 0
  /\ rank = NoRun /\ lpp_pid = "none" /\ notified = 0
  /\ killer = "off" /\ late = FALSE

-----------------------------------------------------------------------------
(* The arguments of mpirunLPP.sh. An option takes the argument behind it.  *)

\* For the daemons: the options that name nodes. The loop goes on behind the
\* name of the program.
LightArg(acc, arg) ==
  CASE acc.next = "ignored" -> [acc EXCEPT !.next = "option"]
    [] acc.next = "appended" ->
         [acc EXCEPT !.next = "option", !.args = Append(@, arg)]
    [] acc.next = "option" /\ arg \in IgnOpts -> [acc EXCEPT !.next = "ignored"]
    [] acc.next = "option" /\ arg \in HostOpts ->
         [acc EXCEPT !.next = "appended", !.args = Append(@, arg)]
    [] OTHER -> acc

LightArgs(line) == FoldLeft(LightArg, [next |-> "option", args |-> << >>], line)

\* For the program: all, with the preloader before its name, if there is no
\* option before it that the script does not know.
ProgramArg(acc, arg) ==
  CASE acc.next = "refused" -> acc
    [] acc.next \in {"appended", "program"} ->
         [acc EXCEPT !.next = IF @ = "program" THEN @ ELSE "option",
                     !.args = Append(@, arg)]
    [] acc.next = "option" /\ arg \in Opts ->
         [acc EXCEPT !.next = "appended", !.args = Append(@, arg)]
    [] acc.next = "option" /\ arg \in Unsupported ->
         [acc EXCEPT !.next = "refused"]
    [] OTHER -> [next |-> "program",
                 args |-> acc.args \o << "preloader.sh", "config.sh", arg >>]

ProgramArgs(line) ==
  FoldLeft(ProgramArg, [next |-> "option", args |-> << >>], line)

\* mpirun reads an option and its value, up to the command, which is behind
\* opts if they are nothing but options.
CommandAt(opts) ==
  LET at == {i \in 1 .. Len(opts) : i % 2 = 1 /\ opts[i] \notin Opts}
  IN IF at = {} THEN Len(opts) + 1 ELSE Min(at)

\* The nodes that are named before position i.
NodesBefore(opts, i) ==
  {opts[j + 1] : j \in {j \in 1 .. i - 2 : j % 2 = 1 /\ opts[j] \in HostOpts}}

NodesOf(opts) ==
  LET named == NodesBefore(opts, CommandAt(opts))
  IN IF named = {} THEN Nodes ELSE named

DaemonHere == "here" \in NodesOf(largs)
ProgramHere == CommandAt(pargs) <= Len(pargs) /\ "here" \in NodesOf(pargs)

-----------------------------------------------------------------------------
(* mpirunLPP.sh.                                                           *)

ByScripts == sender = "scripts"

Script(from, to) ==
  /\ ByScripts /\ script = from /\ script' = to
  /\ UNCHANGED << vars, sender, args, notified, killer >>

\* No configuration file, or an option that is not supported.
Refuse ==
  /\ Script("config", "refused")
  /\ UNCHANGED << largs, pargs, runs, runCounts, rank, lpp_pid, late >>

SortArgs ==
  /\ ProgramArgs(args).next # "refused"
  /\ Script("config", "sorted")
  /\ largs' = LightArgs(args).args /\ pargs' = ProgramArgs(args).args
  /\ UNCHANGED << runs, runCounts, rank, lpp_pid, late >>

\* The daemons start in the background: nothing waits for them.
StartDaemons ==
  /\ Script("sorted", "runs")
  /\ UNCHANGED << largs, pargs, runs, runCounts, rank, lpp_pid, late >>

StartRun ==
  /\ runs < NREPET
  /\ IF ProgramHere THEN Script("runs", "mpirun") ELSE Script("runs", "runs")
  /\ runs' = runs + 1
  /\ rank' = IF ProgramHere THEN [p \in Ranks |-> "preloader"] ELSE rank
  /\ lpp_pid' = "none"
  /\ ready' = (ProgramHere /\ pidFile = "pid")
  /\ UNCHANGED << largs, pargs, due, finished, late >>

EndRun ==
  /\ \A p \in Ranks : rank[p] = "ended"
  /\ Script("mpirun", "runs")
  /\ rank' = NoRun /\ ready' = FALSE
  /\ due' = (IF ready THEN due + 1 ELSE due) /\ finished' = finished + 1
  /\ UNCHANGED << largs, pargs, runs, lpp_pid, late >>

\* Between its two signals: the daemon measures on.
InRun == rank[0] \in {"program", "barrier"} /\ lpp_pid = "pid"

\* A process has failed, in the preloader, in MPI_Init or in the program. The
\* next run is made all the same.
RunFails ==
  /\ \E p \in Ranks : rank[p] \in {"preloader", "MPI_Init", "program"}
  /\ Script("mpirun", "runs")
  /\ rank' = NoRun /\ ready' = FALSE
  /\ late' = (late \/ InRun)
  /\ UNCHANGED << largs, pargs, runs, due, finished, lpp_pid >>

StartKillers ==
  /\ runs = NREPET
  /\ Script("runs", "kill")
  /\ UNCHANGED << largs, pargs, runs, runCounts, rank, lpp_pid, late >>

-----------------------------------------------------------------------------
(* preloader.sh and liblppMPInotifier.c.                                   *)

Rank(p, from, to) ==
  /\ ByScripts
  /\ rank[p] = from /\ rank' = [rank EXCEPT ![p] = to]
  /\ UNCHANGED << sender, scriptVars, killer >>

\* A signal for the daemon finds it waiting, and alone.
OnTime == pc \in Paused /\ pending = {}

\* To a pid that an earlier daemon has left, nothing happens to this one.
Signal(s, pid) ==
  IF pid = "pid"
    THEN Send(s) /\ late' = (late \/ ~OnTime)
    ELSE UNCHANGED << vars, late >>

\* LD_PRELOAD is set and the program runs up to MPI_Init.
Preload(p) ==
  /\ Rank(p, "preloader", "MPI_Init")
  /\ UNCHANGED << vars, lpp_pid, notified, late >>

\* A file that is missing (fscanf gets a null stream) or empty ends the
\* program: that is RunFails.
ReadPid ==
  /\ Rank(0, "MPI_Init", "real_MPI_Init")
  /\ pidFile \in {"stale", "pid"}
  /\ lpp_pid' = pidFile
  /\ IF pidFile = "pid" /\ ~known THEN ReadPidFile ELSE UNCHANGED vars
  /\ UNCHANGED << notified, late >>

\* The real MPI_Init returns, and only local rank 0 has a pid to signal.
MPI_Init(p) ==
  /\ IF p = 0
       THEN Rank(0, "real_MPI_Init", "program") /\ Signal("USR1", lpp_pid)
       ELSE Rank(p, "MPI_Init", "program") /\ UNCHANGED << vars, late >>
  /\ UNCHANGED << lpp_pid, notified >>

ProgramDone(p) ==
  /\ Rank(p, "program", "barrier")
  /\ UNCHANGED << vars, lpp_pid, notified, late >>

MPI_FinalizeAtOnce(p) ==
  /\ Rank(p, "barrier", "ended")
  /\ IF p = 0 THEN Signal("USR1", lpp_pid) ELSE UNCHANGED << vars, late >>
  /\ notified' = IF p = 0 /\ lpp_pid = "pid" THEN notified + 1 ELSE notified
  /\ UNCHANGED lpp_pid

\* The last process to leave the barrier would signal; it may have no pid.
MPI_FinalizeByLast(p) ==
  /\ \A q \in Ranks : rank[q] \in {"barrier", "ended"}
  /\ Rank(p, "barrier", "ended")
  /\ IF p = 0 /\ \A q \in Ranks \ {p} : rank[q] = "ended"
       THEN Signal("USR1", lpp_pid) ELSE UNCHANGED << vars, late >>
  /\ notified' = IF p = 0 /\ lpp_pid = "pid" THEN notified + 1 ELSE notified
  /\ UNCHANGED lpp_pid

\* MPI_Barrier lets the processes pass when all have come.
MPI_Finalize(p) ==
  /\ \A q \in Ranks : rank[q] \in {"barrier", "ended"}
  /\ Rank(p, "barrier", "ended")
  /\ IF p = 0 THEN Signal("USR1", lpp_pid) ELSE UNCHANGED << vars, late >>
  /\ notified' = IF p = 0 /\ lpp_pid = "pid" THEN notified + 1 ELSE notified
  /\ UNCHANGED lpp_pid

-----------------------------------------------------------------------------
(* lppMPIkiller.sh.                                                        *)

Killer(from, to) ==
  /\ ByScripts /\ script = "kill" /\ DaemonHere
  /\ killer = from /\ killer' = to
  /\ UNCHANGED << sender, scriptVars, runVars >>

NothingToKill ==
  /\ pidFile \in {"none", "empty"}
  /\ Killer("off", "left")
  /\ UNCHANGED << vars, late >>

ReadPidToKill ==
  /\ pidFile \in {"stale", "pid"}
  /\ Killer("off", pidFile)
  /\ IF pidFile = "pid" /\ ~known THEN ReadPidFile ELSE UNCHANGED vars
  /\ UNCHANGED late

\* The SIGTERM that it sends is the only one.
Kill ==
  \/ Killer("pid", "waiting") /\ Signal("TERM", "pid")
  \/ Killer("stale", "waiting_stale") /\ Signal("TERM", "stale")

\* The output is moved when the process has disappeared; one that has got the
\* pid of an earlier daemon may be there for ever.
Move ==
  /\ \/ pc \in Ended /\ Killer("waiting", "moved")
     \/ Killer("waiting_stale", "moved_stale")
  /\ UNCHANGED << vars, late >>

-----------------------------------------------------------------------------
Anyone ==
  /\ sender = "anyone"
  /\ ReadPidFile \/ \E s \in Signals : Send(s)
  /\ UNCHANGED environment

\* A daemon is started here, by hand or by the script.
DaemonStarted ==
  ByScripts => script \in {"runs", "mpirun", "kill"} /\ DaemonHere
DaemonRuns == DaemonStarted /\ Daemon /\ UNCHANGED environment
SignalsDelivered == Deliver /\ UNCHANGED environment

mpirunLPP ==
  \/ Refuse \/ SortArgs \/ StartDaemons
  \/ StartRun \/ EndRun \/ RunFails \/ StartKillers

Notifier ==
  \/ ReadPid
  \/ \E p \in Ranks :
       Preload(p) \/ MPI_Init(p) \/ ProgramDone(p) \/ MPI_Finalize(p)

lppMPIkiller == NothingToKill \/ ReadPidToKill \/ Kill \/ Move

SessionNext ==
  DaemonRuns \/ SignalsDelivered \/ Anyone \/ mpirunLPP \/ Notifier
    \/ lppMPIkiller

SessionSpec == SessionInit /\ [][SessionNext]_sessionVars

\* The daemon runs when it can, and signals are delivered; nobody has to
\* send any.
FairSessionSpec ==
  /\ SessionSpec
  /\ WF_sessionVars(DaemonRuns)
  /\ WF_sessionVars(SignalsDelivered)

-----------------------------------------------------------------------------
(* Properties.                                                             *)

SessionTypeOK ==
  /\ sender \in {"anyone", "scripts"}
  /\ args \in CommandLines
  /\ script \in {"config", "refused", "sorted", "runs", "mpirun", "kill"}
  /\ runs \in 0 .. NREPET /\ notified \in 0 .. runs
  /\ ready \in BOOLEAN /\ due \in 0 .. finished /\ finished \in 0 .. runs
  /\ rank \in [Ranks -> {"off", "preloader", "MPI_Init", "real_MPI_Init",
                         "program", "barrier", "ended"}]
  /\ lpp_pid \in {"none", "stale", "pid"}
  /\ killer \in {"off", "left", "stale", "pid", "waiting", "waiting_stale",
                 "moved", "moved_stale"}
  /\ late \in BOOLEAN

\* If every signal finds the daemon waiting, the measurements are the runs that
\* notify it: it measures between the two signals of a run and has kept one
\* measurement of every run that has sent it both. Wherever the signals go, the
\* second is sent when no process of the run computes any more.
OneMeasurementEachRun ==
  /\ ByScripts /\ ~late /\ OnTime => (measuring <=> InRun) /\ kept = notified
  /\ rank[0] = "ended" => \A p \in Ranks : rank[p] \in {"barrier", "ended"}

ArgsOfProgram == {pargs[i] : i \in CommandAt(pargs) + 1 .. Len(pargs)}

\* What is moved after the daemon was signalled is its saved results. If no
\* signal came late, they hold a measurement of every run that has not failed
\* and that began when the daemon's pid was in the file, and no other
\* measurements than of runs that have not failed.
MovedIsSaved ==
  killer = "moved" =>
    saved /\ (~late => due <= kept /\ kept <= finished)

\* What the killer moves after it has signalled this daemon is saved and has
\* the measurements of the runs. It looks for the output wherever the program
\* was run, if no argument of the program looks like an option of mpirun.
MovedIsComplete ==
  /\ MovedIsSaved
  /\ script = "kill" /\ ProgramHere /\ ArgsOfProgram \cap Opts = {}
       => DaemonHere

-----------------------------------------------------------------------------
(* The inductive invariant behind OneMeasurementEachRun and                *)
(* MovedIsComplete.                                                        *)

\* Outside a run no process is there; no process ends before all have come
\* to the barrier.
RanksInv ==
  /\ rank \in [Ranks -> {"off", "preloader", "MPI_Init", "real_MPI_Init",
                         "program", "barrier", "ended"}]
  /\ script # "mpirun" => rank = NoRun
  /\ (\E p \in Ranks : rank[p] = "ended") =>
       \A p \in Ranks : rank[p] \in {"barrier", "ended"}

\* The daemon has had, or is about to handle, the first signal of a run; and
\* the second one, whose measurement it has not kept yet.
HasStarted ==
  \/ pc = "start" /\ ~end
  \/ pc = "pause_2"
  \/ pc = "in_pause_2" /\ pending = {}
  \/ pc = "in_pause_1" /\ pending = {"USR1"}
HasStopped == pc = "stop" \/ (pc = "in_pause_2" /\ pending = {"USR1"})

\* While no signal is late, the daemon and the runs are at corresponding
\* points, and SIGTERM finds the daemon waiting for a run.
OnTimeInv ==
  /\ pending = {} \/ pending = {"USR1"} \/ pending = {"TERM"}
  /\ pending = {"USR1"} => pc \in Paused
  /\ pending = {"TERM"} => pc = "in_pause_1"
  /\ end => pc \in {"start", "reset"}
  /\ \/ pending = {"TERM"} \/ end
     \/ pc \in {"reset", "save"} \cup Ending \cup {"killed"}
     => script = "kill"
  /\ InRun <=> HasStarted
  /\ notified = kept + One(HasStopped)

\* A run that began when the pid was in the file finds it there, since only the
\* killer ends the daemon, and so it notifies the daemon if it does not fail.
RunsInv ==
  /\ ready =>
       /\ script = "mpirun" /\ pidFile = "pid"
       /\ rank[0] \in {"real_MPI_Init", "program", "barrier", "ended"} =>
            lpp_pid = "pid"
  /\ due + One(rank[0] = "ended" /\ ready) <= notified
  /\ notified <= finished + One(rank[0] = "ended" /\ lpp_pid = "pid")

\* The output is moved by the scripts, behind the end of the daemon.
MovedInv == killer = "moved" => ByScripts /\ pc \in Ended

\* From then on the arguments are what the loops make of the command line.
SortedInv ==
  /\ args \in CommandLines
  /\ script \notin {"config", "refused"} =>
       /\ ProgramArgs(args).next # "refused"
       /\ largs = LightArgs(args).args /\ pargs = ProgramArgs(args).args

SessionInv ==
  /\ RanksInv /\ SortedInv
  /\ notified \in Nat /\ due \in Nat /\ finished \in Nat
  /\ ready \in BOOLEAN
  /\ ByScripts /\ ~late => OnTimeInv /\ RunsInv
  /\ MovedInv
=============================================================================
