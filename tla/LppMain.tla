------------------------------ MODULE LppMain ------------------------------
(***************************************************************************)
(* lPowerProbe from main to its end: the options decide which experiment   *)
(* is made, the experiment loads its probes, makes room for its results,   *)
(* compiles its kernel, measures and writes, and deletes the probes.       *)
(*                                                                         *)
(* How the threads of an experiment agree, and when a daemon measures, is  *)
(* in ProgramRunner, KernelRunner and DaemonRunner; here an experiment is  *)
(* the sequence of its measurements. A measurement's values differ from    *)
(* those of every other one.                                               *)
(***************************************************************************)
EXTENDS Kernels, ProbeLoader, ExperimentationResults

CONSTANTS
  Memory,          \* the longest vector of results there is memory for
  MaxMeasurements  \* bound on the measurements of a daemon

\* Every path on the command line is one of Libraries, if only to be missing.
ASSUME LppMainAssumption ==
  /\ Memory \in Nat /\ MaxMeasurements \in Nat
  /\ \A path \in ProbesPaths : path \in Seq(Paths)

VARIABLES
  shared,    \* the names of the semaphores' memory
  pinned,    \* the core of each thread, in the order of their creation
  overhead, results,   \* m_pOverheadResults, m_pResults
  stopped,   \* the values that stop has returned for the two
  output     \* what was written, by the name of its file

ExperimentVars == << shared, pinned, overhead, results, stopped, output >>
vars == << OptionVars, LoaderVars, KernelVars, ExperimentVars >>

NoResults == [runs |-> << >>, nb |-> 0]
Outside == -1

Init ==
  /\ OptionsInit /\ LoaderInit /\ KernelsInit
  /\ shared = << >>
  /\ pinned = << >>
  /\ overhead = NoResults /\ results = NoResults
  /\ stopped = [overhead |-> << >>, results |-> << >>]
  /\ output = << >>

Ends == {"usage", "version", "returned", "aborted"}

-----------------------------------------------------------------------------
(* The constructors.                                                       *)

ParseOptions ==
  OptionsNext /\ UNCHANGED << LoaderVars, KernelVars, ExperimentVars >>

LoadProbes ==
  /\ stage = "create"
  /\ BeginLoad(options.probesPath) \/ Load
  /\ UNCHANGED << OptionVars, KernelVars, ExperimentVars >>

\* The program was ended while a probe was loaded or deleted.
Crash ==
  /\ loader = "crashed"
  /\ stage \in {"create", "delete"} /\ To(stage, "aborted")
  /\ UNCHANGED << LoaderVars, KernelVars, ExperimentVars >>

\* "No probes loaded": caught by main.
NoProbes ==
  /\ loader = "loaded" /\ probes = << >>
  /\ To("create", "returned")
  /\ UNCHANGED << LoaderVars, KernelVars, ExperimentVars >>

dims == [p \in DOMAIN probes |-> [nbDevices |-> nbDevices(probes[p]),
                                  nbChannels |-> nbChannels(probes[p])]]

CreateResults ==
  /\ loader = "loaded" /\ probes # << >>
  /\ options.nbRepet <= Memory
  /\ To("create", IF isExecKernel THEN "compile" ELSE "runner")
  /\ overhead' = NewResults(options.nbRepet, dims)
  /\ results' = NewResults(options.nbRepet, dims)
  /\ UNCHANGED << LoaderVars, KernelVars, shared, pinned, stopped, output >>

\* bad_alloc, which main does not catch.
NoMemory ==
  /\ loader = "loaded" /\ probes # << >>
  /\ options.nbRepet > Memory
  /\ To("create", "aborted")
  /\ UNCHANGED << LoaderVars, KernelVars, ExperimentVars >>

-----------------------------------------------------------------------------
(* The kernel, and the runner of every experiment.                         *)

KernelExperiment ==
  /\ \/ Compile \/ NoTemporaryFile
     \/ LoadFunctions \/ LoadFails \/ EntryPointMissing
     \/ AllocateMemory \/ NoKernelMemory
  /\ UNCHANGED << LoaderVars, ExperimentVars >>

Locks == << "shmFather", "shmProcess", "shmProcessEnd" >>

\* Runner::Runner makes them one after the other.
CreateLock ==
  /\ To("runner", IF Len(shared) < 2 THEN "runner"
                  ELSE IF isExecKernel THEN "memory" ELSE "start")
  /\ shared' = Append(shared, Locks[Len(shared) + 1])
  /\ UNCHANGED << LoaderVars, KernelVars, pinned, overhead, results, stopped,
                  output >>

\* exit: before or after the name was made.
CreateLockFails ==
  /\ To("runner", "aborted")
  /\ shared' \in {shared, Append(shared, Locks[Len(shared) + 1])}
  /\ UNCHANGED << LoaderVars, KernelVars, pinned, overhead, results, stopped,
                  output >>

\* The destructors of KernelRunner and Runner, at the end of start.
DestroyRunner ==
  /\ To("destroy", "delete")
  /\ FreeMemory
  /\ shared' = << >>
  /\ UNCHANGED << LoaderVars, files, functions, pinned, overhead, results,
                  stopped, output >>

-----------------------------------------------------------------------------
(* start of the experiments.                                               *)

NbThreads == IF isDaemon THEN 0 ELSE options.nbProcess

\* The core that thread t pins itself to, if there is a list of cores.
pinCPU(t) ==
  IF options.pinning = << >> THEN 0
  ELSE IF t + 1 \in DOMAIN options.pinning THEN options.pinning[t + 1]
  ELSE Outside

\* That a thread cannot be pinned or prioritised is only reported.
CreateThread ==
  /\ Len(pinned) < NbThreads
  /\ To("start", "start")
  /\ pinned' = Append(pinned, pinCPU(Len(pinned)))
  /\ UNCHANGED << LoaderVars, KernelVars, shared, overhead, results, stopped,
                  output >>

CreateThreadFails ==
  /\ Len(pinned) < NbThreads
  /\ To("start", "aborted")
  /\ UNCHANGED << LoaderVars, KernelVars, ExperimentVars >>

AllCreated ==
  /\ Len(pinned) = NbThreads
  /\ To("start", "overhead")
  /\ UNCHANGED << LoaderVars, KernelVars, ExperimentVars >>

\* The n-th values that a probe's stop returns.
Raw(n) == [p \in DOMAIN dims |->
  [i \in 1 .. dims[p].nbDevices * dims[p].nbChannels |-> n * (10 * p + i)]]
NextRaw == Raw(Len(stopped.overhead) + Len(stopped.results) + 1)

\* A daemon measures its overhead once.
NbOverhead == IF isDaemon THEN 1 ELSE options.nbRepet
NbResults == IF isDaemon THEN MaxMeasurements ELSE options.nbRepet

MeasureOverhead ==
  /\ To("overhead", "overhead")
  /\ overhead.nb < NbOverhead
  /\ overhead' = Stored(overhead, dims, NextRaw)
  /\ stopped' = [stopped EXCEPT !.overhead = Append(@, NextRaw)]
  /\ UNCHANGED << LoaderVars, KernelVars, shared, pinned, results, output >>

OverheadDone ==
  /\ overhead.nb = NbOverhead
  /\ To("overhead", "measure")
  /\ UNCHANGED << LoaderVars, KernelVars, ExperimentVars >>

Measure ==
  /\ To("measure", "measure")
  /\ results.nb < NbResults
  /\ results' = Stored(results, dims, NextRaw)
  /\ stopped' = [stopped EXCEPT !.results = Append(@, NextRaw)]
  /\ UNCHANGED << LoaderVars, KernelVars, shared, pinned, overhead, output >>

\* The last measurement of a daemon may be cancelled, and is not kept.
MeasurementsDone ==
  /\ isDaemon \/ results.nb = NbResults
  /\ To("measure", "save")
  /\ UNCHANGED << LoaderVars, KernelVars, ExperimentVars >>

saveResults ==
  /\ To("save", "destroy")
  /\ output' = [file \in {options.outputFile} |->
                  Written(overhead, results, dims)]
  /\ UNCHANGED << LoaderVars, KernelVars, shared, pinned, overhead, results,
                  stopped >>

DeleteExperiment ==
  /\ stage = "delete" /\ probes # << >>
  /\ DeleteProbe \/ DeleteFails
  /\ UNCHANGED << OptionVars, KernelVars, ExperimentVars >>

Return ==
  /\ probes = << >>
  /\ To("delete", "returned")
  /\ UNCHANGED << LoaderVars, KernelVars, ExperimentVars >>

-----------------------------------------------------------------------------
Next ==
  \/ ParseOptions
  \/ LoadProbes \/ Crash \/ NoProbes \/ CreateResults \/ NoMemory
  \/ KernelExperiment \/ CreateLock \/ CreateLockFails \/ DestroyRunner
  \/ CreateThread \/ CreateThreadFails \/ AllCreated
  \/ MeasureOverhead \/ OverheadDone \/ Measure \/ MeasurementsDone
  \/ saveResults \/ DeleteExperiment \/ Return

Spec == Init /\ [][Next]_vars

-----------------------------------------------------------------------------
(* Properties.                                                             *)

Measuring == stage \in {"overhead", "measure", "save"}

LppTypeOK ==
  /\ stage \in {"getopt", "defaults", "check", "create", "compile", "load",
                "runner", "memory", "start", "overhead", "measure", "save",
                "destroy", "delete"} \cup Ends
  /\ given \in 0 .. MaxOptions
  /\ loader \in {"off", "v2", "v1", "loaded", "crashed"}
  /\ options.nbProcess \in Nat /\ options.nbRepet \in Nat
  /\ options.pinning \in Seq(Nat)
  /\ paths \in Seq(Paths)
  /\ probes \in Seq([path : Paths, version : {1, 2}])

\* Whatever options come in whatever order and however often, every thread
\* that is created finds its own core in the list, if there is a list; more
\* than one process is only measured with exactly one core for each.
PinnedWithinList ==
  /\ options.pinning # << >> => \A i \in DOMAIN pinned : pinned[i] # Outside
  /\ Measuring /\ ~isDaemon => Len(pinned) \in {1, Len(options.pinning)}

\* A library's fini is called once for every init that gave a probe, and not
\* for one that gave none, whichever libraries could not be loaded; when main
\* returns, no probe is left without it, and no memory or name of the runner.
LeavesNothing ==
  /\ \A path \in Paths :
       /\ finis[path] <= inits[path]
       /\ stage = "returned" => finis[path] = inits[path]
  /\ stage = "returned" => shared = << >> /\ memory = << >>

\* No probe that is measured with lacks a function that the collector calls:
\* start and stop of its version, and update if it has a period.
NoMissingFunction ==
  Measuring =>
    /\ probes # << >>
    /\ \A i \in DOMAIN probes : Has(probes[i].path, CalledBy(probes[i]))

\* There is room for every measurement, of a daemon too, whose number nobody
\* knows; and there is a mean to subtract when the results are written. Both
\* depend on the defaults of the options.
RoomAndMean ==
  /\ stage = "overhead" /\ overhead.nb < NbOverhead => Fits(overhead, dims)
  /\ stage = "measure" /\ results.nb < NbResults => Fits(results, dims)
  /\ stage = "save" => HasMean(overhead)

SumOfColumn(j) ==
  FoldLeft(LAMBDA sum, raw : sum + FlattenSeq(raw)[j], 0, stopped.overhead)

\* The file has a row for every measurement, in their order, and a column for
\* every value of every probe: that value less the mean of the same value in
\* the overhead measurements. The header has as many columns.
RowsAreNet ==
  \A file \in DOMAIN output :
    LET written == output[file]
    IN /\ Len(written.rows) = Len(stopped.results)
       /\ \A i \in DOMAIN written.rows :
            LET raw == FlattenSeq(stopped.results[i])
            IN /\ Len(written.rows[i]) = Len(raw)
               /\ Len(raw) = FoldLeft(+, 0, written.header)
               /\ \A j \in DOMAIN raw :
                    written.rows[i][j] =
                      Len(stopped.overhead) * raw[j] - SumOfColumn(j)
=============================================================================
