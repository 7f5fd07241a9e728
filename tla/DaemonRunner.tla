---------------------------- MODULE DaemonRunner ----------------------------
(***************************************************************************)
(* lPowerProbe as a daemon: DaemonExperimentation::start with its          *)
(* DaemonRunner. The daemon publishes its pid in a file and then waits in  *)
(* pause() for signals: a SIGUSR1 starts a measurement, the next one keeps *)
(* it, SIGTERM ends the daemon, which saves the results.                   *)
(*                                                                         *)
(* The other programs are abstracted to the signals they send; they find   *)
(* the daemon by the pid file (MpiSession has the scripts for MPI). As     *)
(* on Linux, a signal that is already pending is not queued again, and all *)
(* pending signals are handled before the daemon takes its next step.      *)
(* SIGINT, which has the handler of SIGTERM, is not told from it.          *)
(***************************************************************************)
EXTENDS Naturals

CONSTANT MaxSignals   \* bound: signals sent in a behaviour

ASSUME MaxSignalsAssumption == MaxSignals \in Nat

Signals == {"USR1", "TERM"}

VARIABLES
  pc,       \* where the daemon is; "gone" or "killed" when it has ended
  handled,  \* signals that have the handler (the others kill the process)
  pending,  \* signals sent and not yet delivered
  end,      \* DaemonRunner::end
  pidFile,  \* /tmp/lppDaemonPID: "none", "stale" (the pid of a daemon that
            \* was killed before), "empty" or "pid" (of this daemon)
  measuring,\* the probes are started
  kept,     \* measurements kept in the results
  saved,    \* the results were written to the output file
  known,    \* somebody has read the pid in the file
  usr1,     \* SIGUSR1 sent so far
  term      \* SIGTERM sent so far

probeVars == << measuring, kept, saved >>
sendVars == << known, usr1, term >>
vars == << pc, handled, pending, end, pidFile, probeVars, sendVars >>

Ended == {"gone", "killed"}
Paused == {"in_pause_1", "in_pause_2"}
PCs == Ended \cup Paused \cup
  {"install", "publish", "write_pid", "overhead", "loop", "pause_1", "start",
   "pause_2", "stop", "reset", "save", "restore", "remove", "exit"}

Init ==
  /\ pc = "install"
  /\ handled = {}
  /\ pending = {}
  /\ end = FALSE
  /\ pidFile \in {"none", "stale"}
  /\ measuring = FALSE /\ kept = 0 /\ saved = FALSE
  /\ known = FALSE /\ usr1 = 0 /\ term = 0

Goto(label) == pc' = label

\* The daemon only takes a step when no signal is pending for it.
At(label) == pc = label /\ pending = {}

-----------------------------------------------------------------------------
(* DaemonRunner::DaemonRunner                                              *)

InstallTermOnly ==
  /\ At("install")
  /\ handled' = {"TERM"}
  /\ Goto("publish")
  /\ UNCHANGED << pending, end, pidFile, probeVars, sendVars >>

\* One sigaction; the code installs them for SIGTERM first.
Install ==
  /\ At("install")
  /\ handled' = IF "TERM" \in handled THEN Signals ELSE {"TERM"}
  /\ Goto(IF "TERM" \in handled THEN "publish" ELSE "install")
  /\ UNCHANGED << pending, end, pidFile, probeVars, sendVars >>

\* Opening the file truncates it.
OpenPidFile ==
  /\ At("publish")
  /\ pidFile' = "empty"
  /\ Goto("write_pid")
  /\ UNCHANGED << handled, pending, end, probeVars, sendVars >>

\* The file cannot be opened: the daemon goes on.
OpenPidFileFails ==
  /\ At("publish")
  /\ Goto("overhead")
  /\ UNCHANGED << handled, pending, end, pidFile, probeVars, sendVars >>

WritePidFile ==
  /\ At("write_pid")
  /\ pidFile' = "pid"
  /\ Goto("overhead")
  /\ UNCHANGED << handled, pending, end, probeVars, sendVars >>

-----------------------------------------------------------------------------
(* DaemonRunner::start                                                     *)

\* The overhead measurement: start and stop.
Overhead ==
  /\ At("overhead")
  /\ Goto("loop")
  /\ UNCHANGED << handled, pending, end, pidFile, probeVars, sendVars >>

LoopForEver ==
  /\ At("loop")
  /\ Goto("pause_1")
  /\ UNCHANGED << handled, pending, end, pidFile, probeVars, sendVars >>

\* The loop condition.
Loop ==
  /\ At("loop")
  /\ Goto(IF end THEN "reset" ELSE "pause_1")
  /\ UNCHANGED << handled, pending, end, pidFile, probeVars, sendVars >>

\* pause(): a signal that was handled before the call does not end it.
Pause ==
  /\ \/ At("pause_1") /\ Goto("in_pause_1")
     \/ At("pause_2") /\ Goto("in_pause_2")
  /\ UNCHANGED << handled, pending, end, pidFile, probeVars, sendVars >>

StartMeasurement ==
  /\ At("start")
  /\ IF end
       THEN Goto("reset") /\ UNCHANGED measuring
       ELSE Goto("pause_2") /\ measuring' = TRUE
  /\ UNCHANGED << handled, pending, end, pidFile, kept, saved, sendVars >>

StopAlways ==
  /\ At("stop")
  /\ measuring' = FALSE
  /\ kept' = kept + 1
  /\ Goto("loop")
  /\ UNCHANGED << handled, pending, end, pidFile, saved, sendVars >>

\* The measurement is kept, or cancelled when the daemon has to end.
StopMeasurement ==
  /\ At("stop")
  /\ measuring' = FALSE
  /\ kept' = IF end THEN kept ELSE kept + 1
  /\ Goto("loop")
  /\ UNCHANGED << handled, pending, end, pidFile, saved, sendVars >>

ResetAndForget ==
  /\ At("reset")
  /\ end' = FALSE
  /\ Goto("restore")
  /\ UNCHANGED << handled, pending, pidFile, probeVars, sendVars >>

ResetEnd ==
  /\ At("reset")
  /\ end' = FALSE
  /\ Goto("save")
  /\ UNCHANGED << handled, pending, pidFile, probeVars, sendVars >>

-----------------------------------------------------------------------------
(* saveResults, DaemonRunner::~DaemonRunner and the end of the process     *)

SaveResults ==
  /\ At("save")
  /\ saved' = TRUE
  /\ Goto("restore")
  /\ UNCHANGED << handled, pending, end, pidFile, measuring, kept, sendVars >>

\* One sigaction; the code restores SIGTERM first.
RestoreDefault ==
  /\ At("restore")
  /\ handled' = IF "TERM" \in handled THEN {"USR1"} ELSE {}
  /\ Goto(IF "TERM" \in handled THEN "restore" ELSE "remove")
  /\ UNCHANGED << pending, end, pidFile, probeVars, sendVars >>

RemovePidFile ==
  /\ At("remove")
  /\ pidFile' = "none"
  /\ Goto("exit")
  /\ UNCHANGED << handled, pending, end, probeVars, sendVars >>

Exit ==
  /\ At("exit")
  /\ Goto("gone")
  /\ UNCHANGED << handled, pending, end, pidFile, probeVars, sendVars >>

-----------------------------------------------------------------------------
(* Signals                                                                 *)

\* The handlers of all the pending signals run (sighandler); pause returns.
\* A signal without handler kills the process.
Deliver ==
  /\ pc \notin Ended
  /\ pending # {}
  /\ pending' = {}
  /\ IF pending \subseteq handled
       THEN /\ end' = (end \/ "TERM" \in pending)
            /\ pc' = CASE pc = "in_pause_1" -> "start"
                       [] pc = "in_pause_2" -> "stop"
                       [] OTHER -> pc
       ELSE pc' = "killed" /\ UNCHANGED end
  /\ UNCHANGED << handled, pidFile, probeVars, sendVars >>

\* Somebody reads the pid that this daemon has published.
ReadPidFile ==
  /\ ~known
  /\ pidFile = "pid"
  /\ known' = TRUE
  /\ UNCHANGED << pc, handled, pending, end, pidFile, probeVars, usr1, term >>

\* A signal is sent to the pid that was read.
Send(s) ==
  /\ known
  /\ usr1 + term < MaxSignals
  /\ pending' = IF pc \in Ended THEN pending ELSE pending \cup {s}
  /\ usr1' = IF s = "USR1" THEN usr1 + 1 ELSE usr1
  /\ term' = IF s = "TERM" THEN term + 1 ELSE term
  /\ UNCHANGED << pc, handled, end, pidFile, probeVars, known >>

-----------------------------------------------------------------------------
Daemon ==
  \/ Install \/ OpenPidFile \/ OpenPidFileFails \/ WritePidFile
  \/ Overhead \/ Loop \/ Pause \/ StartMeasurement \/ StopMeasurement
  \/ ResetEnd \/ SaveResults \/ RestoreDefault \/ RemovePidFile \/ Exit

Next ==
  \/ Daemon
  \/ Deliver
  \/ ReadPidFile
  \/ \E s \in Signals : Send(s)

Spec == Init /\ [][Next]_vars

\* The daemon runs when it can, and signals are delivered; nobody has to
\* send any.
FairSpec == Spec /\ WF_vars(Daemon) /\ WF_vars(Deliver)
-----------------------------------------------------------------------------
(* Properties.                                                             *)

TypeOK ==
  /\ pc \in PCs
  /\ handled \subseteq Signals /\ pending \subseteq Signals
  /\ end \in BOOLEAN
  /\ pidFile \in {"none", "stale", "empty", "pid"}
  /\ measuring \in BOOLEAN /\ kept \in 0 .. MaxSignals /\ saved \in BOOLEAN
  /\ known \in BOOLEAN
  /\ usr1 \in 0 .. MaxSignals /\ term \in 0 .. MaxSignals

\* Every measurement that is kept was started by one SIGUSR1 and ended by
\* another; one that SIGTERM cut short is not kept.
KeptBySignals == 2 * kept + (IF measuring THEN 1 ELSE 0) <= usr1

\* Whoever finds the daemon's pid in the file can signal it: until the
\* results are saved, the handlers are installed while the pid is there.
PidMeansHandled ==
  pidFile = "pid" /\ pc # "killed" => handled = Signals \/ saved

\* No signal sent to the published pid costs the results: a daemon that a
\* signal kills has saved them. One that ends by itself has also stopped its
\* last measurement and removed its pid.
ResultsSaved ==
  /\ pc \in Ended => saved
  /\ pc = "gone" => ~measuring /\ pidFile # "pid"

\* Before anybody can know the pid; while the daemon works; and at its end.
Unknown == {"install", "publish", "write_pid"}
Ending == {"restore", "remove", "exit", "gone"}
Working == PCs \ (Unknown \cup Ending \cup {"killed"})

One(b) == IF b THEN 1 ELSE 0

\* The signals the daemon has handlers for, stage by stage.
HandledInv ==
  /\ pc \in {"publish", "write_pid"} \cup Working => handled = Signals
  /\ pc = "install" => handled \subseteq {"TERM"}
  /\ pc = "restore" => handled = Signals \/ handled = {"USR1"}

\* The pid is in the file, and known, only after it was written.
KnownInv ==
  /\ pidFile = "pid" => pc \notin Unknown \cup {"exit", "gone"}
  /\ pc \in Unknown => ~known
  /\ ~known => pending = {} /\ usr1 = 0 /\ term = 0

\* Every SIGUSR1 sent is still pending, was lost, or stands for one half of a
\* measurement: the daemon has just been woken by it, measures, or has kept
\* what it measured.
SignalsInv ==
  /\ usr1 + term <= MaxSignals
  /\ 2 * kept + One(measuring) + One(pc \in {"start", "stop"} /\ ~end)
       + One("USR1" \in pending) <= usr1

\* The inductive invariant behind the properties above: the daemon measures
\* only between its two pauses and has saved when it gives up its handlers.
IInv ==
  /\ TypeOK
  /\ HandledInv
  /\ KnownInv
  /\ SignalsInv
  /\ measuring <=> pc \in {"pause_2", "in_pause_2", "stop"}
  /\ saved <=> pc \in Ending \cup {"killed"}

\* The points at which the daemon still looks at end before it waits.
LooksAtEnd ==
  Paused \cup {"publish", "write_pid", "overhead", "loop", "start", "stop"}

\* A SIGTERM that comes at one of those points ends the daemon.
TermEndsDaemon == (pc \in LooksAtEnd /\ "TERM" \in pending) ~> (pc \in Ended)

\* What lppMPIkiller.sh waits for, without end: after its SIGTERM the
\* process of the daemon disappears.
TermAlwaysEnds == ("TERM" \in pending) ~> (pc \in Ended)
=============================================================================
