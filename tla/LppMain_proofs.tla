--------------------------- MODULE LppMain_proofs ---------------------------
(***************************************************************************)
(* Proofs about lPowerProbe from main to its end, for all command lines,   *)
(* libraries and sizes. The invariant has a part for each component that   *)
(* LppMain composes: what the options are once they were checked, which    *)
(* core each thread has got, which probes are loaded and how often their   *)
(* libraries were called, the kernel and its buffers, and the vectors of   *)
(* the results.                                                            *)
(***************************************************************************)
EXTENDS LppMain, FoldTheorems, FiniteSetTheorems, SequenceTheorems, TLAPS

\* Before the experiment is created; before its threads are.
Parsing == {"getopt", "defaults", "check", "usage", "version"}
Making == Parsing \cup {"create", "compile", "load", "runner", "memory"}

-----------------------------------------------------------------------------
(* The options.                                                            *)

\* Names and arguments can be anything.
OptionRecords(opts) ==
  [nbProcess : Nat, nbRepet : Nat, iterationMemorySize : Nat,
   nbKernelIteration : Nat, pinning : Seq(Nat), probesPath : Seq(Paths),
   execName : {opts.execName}, args : {opts.args},
   outputFile : {opts.outputFile}]

IsOptions(opts) == opts \in OptionRecords(opts)

\* The defaults leave no number at 0 that has to be positive, and the check
\* lets no pinning pass that is too short.
OptionsInv ==
  /\ IsOptions(options)
  /\ stage \notin {"getopt", "defaults", "usage", "version"} =>
       options.nbRepet >= 1
  /\ stage \notin Parsing => EnoughPinned(options)

LEMMA OptionConstants ==
  /\ Numbers \subseteq Nat
  /\ \A pinning \in Pinnings : pinning \in Seq(Nat)
  /\ \A path \in ProbesPaths : path \in Seq(Paths)
  /\ DefaultProbes \in Seq(Paths)
  BY OptionsAssumption, LibrariesAssumption, LppMainAssumption

LEMMA OptionsInvInit == Init => OptionsInv
  <1> SUFFICES ASSUME Init
               PROVE  OptionsInv
    OBVIOUS
  <1>1. stage = "getopt" /\ options = Unset
    BY DEF Init, OptionsInit
  <1>2. << >> \in Seq(Nat) /\ << >> \in Seq(Paths)
    OBVIOUS
  <1>3. IsOptions(Unset)
    BY <1>2 DEF IsOptions, OptionRecords, Unset
  <1> QED
    BY <1>1, <1>3 DEF OptionsInv, Parsing

\* The setters keep the options what they are.
LEMMA SettersTyped ==
  ASSUME NEW opts, IsOptions(opts)
  PROVE  /\ \A n \in Nat :
              /\ IsOptions(setNbProcess(opts, n))
              /\ IsOptions(setNbRepetition(opts, n))
              /\ IsOptions(setIterationMemorySize(opts, n))
              /\ IsOptions(setNbKernelIteration(opts, n))
         /\ \A cores \in Seq(Nat) : IsOptions(setPinning(opts, cores))
         /\ \A path \in Seq(Paths) : IsOptions(setProbesPath(opts, path))
         /\ \A file : IsOptions(setOutputFile(opts, file))
  <1> USE DEF IsOptions, OptionRecords
  <1>1. \A n \in Nat : IsOptions(setNbProcess(opts, n))
    BY DEF setNbProcess
  <1>2. \A n \in Nat : IsOptions(setNbRepetition(opts, n))
    BY DEF setNbRepetition
  <1>3. \A n \in Nat : IsOptions(setIterationMemorySize(opts, n))
    BY DEF setIterationMemorySize
  <1>4. \A n \in Nat : IsOptions(setNbKernelIteration(opts, n))
    BY DEF setNbKernelIteration
  <1>5. ASSUME NEW cores \in Seq(Nat)
        PROVE  IsOptions(setPinning(opts, cores))
    <2>1. opts.pinning \o cores \in Seq(Nat)
      OBVIOUS
    <2> QED
      BY <2>1 DEF setPinning
  <1>6. ASSUME NEW path \in Seq(Paths)
        PROVE  IsOptions(setProbesPath(opts, path))
    <2>1. opts.probesPath \o path \in Seq(Paths)
      OBVIOUS
    <2> QED
      BY <2>1 DEF setProbesPath
  <1>7. \A file : IsOptions(setOutputFile(opts, file))
    BY DEF setOutputFile
  <1> QED
    BY <1>1, <1>2, <1>3, <1>4, <1>5, <1>6, <1>7

\* The name and the arguments of the program change no other option.
LEMMA ProgramTyped ==
  ASSUME NEW opts, IsOptions(opts), NEW words, NEW arguments
  PROVE  /\ IsOptions(setExecName(opts, words))
         /\ IsOptions(addArgs(opts, arguments))
  <1>1. IsOptions(addArgs(opts, arguments))
    BY DEF IsOptions, OptionRecords, addArgs
  <1>2. IsOptions(setExecName(opts, words))
    <2>1. ASSUME NEW name, NEW given_args
          PROVE  IsOptions([opts EXCEPT !.execName = name,
                                        !.args = given_args])
      BY DEF IsOptions, OptionRecords
    <2> QED
      BY <2>1 DEF setExecName
  <1> QED
    BY <1>1, <1>2

\* Only main's loop and the checks behind it write the options.
LEMMA OptionsKept ==
  ASSUME Next, ~ParseOptions
  PROVE  options' = options /\ stage \notin Parsing /\ stage' \notin Parsing
  <1> USE DEF Parsing, To
  <1>1. CASE LoadProbes \/ Crash \/ NoProbes \/ CreateResults \/ NoMemory
    BY <1>1
       DEF LoadProbes, Crash, NoProbes, CreateResults, NoMemory, OptionVars
  <1>2. CASE KernelExperiment \/ CreateLock \/ CreateLockFails \/ DestroyRunner
    BY <1>2
       DEF KernelExperiment, Compile, NoTemporaryFile, LoadFunctions,
           LoadFails,
           EntryPointMissing, AllocateMemory, NoKernelMemory, CreateLock,
           CreateLockFails, DestroyRunner
  <1>3. CASE CreateThread \/ CreateThreadFails \/ AllCreated
    BY <1>3 DEF CreateThread, CreateThreadFails, AllCreated
  <1>4. CASE MeasureOverhead \/ OverheadDone \/ Measure \/ MeasurementsDone
    BY <1>4 DEF MeasureOverhead, OverheadDone, Measure, MeasurementsDone
  <1>5. CASE saveResults \/ DeleteExperiment \/ Return
    BY <1>5 DEF saveResults, DeleteExperiment, Return, OptionVars
  <1> QED
    BY <1>1, <1>2, <1>3, <1>4, <1>5 DEF Next

LEMMA SetOptions ==
  ASSUME OptionsInv,
         Number \/ Pinning \/ ProbesPath \/ Output \/ Unreadable
           \/ HelpOrVersion
  PROVE  IsOptions(options') /\ stage' \in {"getopt", "usage", "version"}
  <1>1. IsOptions(options)
    BY DEF OptionsInv
  <1>2. CASE Number
    BY <1>1, <1>2, SettersTyped, OptionConstants DEF Number, Option
  <1>3. CASE Pinning
    BY <1>1, <1>3, SettersTyped, OptionConstants DEF Pinning, Option
  <1>4. CASE ProbesPath
    BY <1>1, <1>4, SettersTyped, OptionConstants DEF ProbesPath, Option
  <1>5. CASE Output
    BY <1>1, <1>5, SettersTyped DEF Output, Option
  <1>6. CASE Unreadable \/ HelpOrVersion
    BY <1>1, <1>6 DEF Unreadable, HelpOrVersion, usage, version
  <1> QED
    BY <1>2, <1>3, <1>4, <1>5, <1>6

LEMMA DefaultsSet ==
  ASSUME OptionsInv, setDefaultValues
  PROVE  IsOptions(options') /\ options'.nbRepet >= 1 /\ stage' = "check"
  <1> DEFINE file == Default(options.outputFile, "", DEFAULT_OUTPUT_FILE)
             process == Default(options.nbProcess, 0, DEFAULT_NUMBER_PROCESS)
             repet == Default(options.nbRepet, 0, DEFAULT_NUMBER_REPET)
             iterations ==
               IF isExecKernel /\ options.iterationMemorySize = 0
                 THEN DEFAULT_NUMBER_KERNELITER ELSE options.nbKernelIteration
  <1>1. IsOptions(options)
    BY DEF OptionsInv
  <1>2. /\ stage' = "check"
        /\ options' = [options EXCEPT !.nbProcess = process,
                         !.nbRepet = repet, !.nbKernelIteration = iterations,
                         !.outputFile = file]
    BY DEF setDefaultValues
  <1>3. process \in Nat /\ repet \in Nat /\ repet >= 1 /\ iterations \in Nat
    BY <1>1
       DEF IsOptions, OptionRecords, Default, DEFAULT_NUMBER_PROCESS,
           DEFAULT_NUMBER_REPET, DEFAULT_NUMBER_KERNELITER
  <1> HIDE DEF file, process, repet, iterations
  <1> QED
    BY <1>1, <1>2, <1>3 DEF IsOptions, OptionRecords

LEMMA OptionsChecked ==
  ASSUME OptionsInv, hasMissingOptions
  PROVE  OptionsInv'
  <1>1. IsOptions(options) /\ options.nbRepet >= 1
    BY DEF OptionsInv, hasMissingOptions
  <1>2. /\ options' = Ignored
        /\ \/ EnoughPinned(Ignored) /\ stage' = "create"
           \/ stage' = "usage"
    BY DEF hasMissingOptions, usage
  <1>3. IsOptions(Ignored) /\ Ignored.nbRepet >= 1
    <2>1. CASE isDaemon
      <3> DEFINE repet == IF options.nbRepet > 1 THEN 1 ELSE options.nbRepet
      <3>1. repet \in Nat /\ repet >= 1
        BY <1>1 DEF IsOptions, OptionRecords
      <3>2. Ignored = [options EXCEPT !.iterationMemorySize = 0,
                         !.nbKernelIteration = 0, !.nbProcess = 1,
                         !.nbRepet = repet]
        BY <2>1 DEF Ignored
      <3> HIDE DEF repet
      <3> QED
        BY <1>1, <3>1, <3>2 DEF IsOptions, OptionRecords
    <2>2. CASE ~isDaemon
      BY <1>1, <2>2 DEF Ignored, IsOptions, OptionRecords
    <2> QED
      BY <2>1, <2>2
  <1> QED
    BY <1>2, <1>3 DEF OptionsInv, Parsing

LEMMA OptionsInvStep == OptionsInv /\ [Next]_vars => OptionsInv'
  <1> SUFFICES ASSUME OptionsInv, [Next]_vars
               PROVE  OptionsInv'
    OBVIOUS
  <1>1. CASE OptionsNext
    <2>1. CASE Number \/ Pinning \/ ProbesPath \/ Output \/ Unreadable
                 \/ HelpOrVersion
      BY <2>1, SetOptions DEF OptionsInv, Parsing
    <2>2. ASSUME NEW arguments \in Programs, Program(arguments)
          PROVE  OptionsInv'
      <3>1. IsOptions(options') /\ stage' = "defaults"
        BY <2>2, ProgramTyped DEF Program, OptionsInv
      <3> QED
        BY <3>1 DEF OptionsInv, Parsing
    <2>3. CASE setDefaultValues
      BY <2>3, DefaultsSet DEF OptionsInv, Parsing
    <2>4. CASE hasMissingOptions
      BY <2>4, OptionsChecked
    <2> QED
      BY <1>1, <2>1, <2>2, <2>3, <2>4 DEF OptionsNext
  <1>2. CASE Next /\ ~OptionsNext
    BY <1>2, OptionsKept DEF ParseOptions, OptionsInv, Parsing, EnoughPinned
  <1>3. CASE UNCHANGED vars
    BY <1>3 DEF vars, OptionVars, OptionsInv, EnoughPinned
  <1> QED
    BY <1>1, <1>2, <1>3

-----------------------------------------------------------------------------
(* The threads and their cores.                                            *)

\* A thread has the core of its number, and there are as many threads as
\* there are processes once the experiment measures.
PinnedInv ==
  /\ pinned \in Seq(Int)
  /\ stage \in Making => pinned = << >>
  /\ Len(pinned) <= NbThreads
  /\ Measuring => Len(pinned) = NbThreads
  /\ \A i \in 1 .. Len(pinned) : pinned[i] = pinCPU(i - 1)

LEMMA ThreadsNat == ASSUME OptionsInv PROVE NbThreads \in Nat
  BY DEF OptionsInv, IsOptions, OptionRecords, NbThreads

LEMMA CoreIsInt == ASSUME OptionsInv, NEW t \in Nat PROVE pinCPU(t) \in Int
  <1>1. options.pinning \in Seq(Nat)
    BY DEF OptionsInv, IsOptions, OptionRecords
  <1>2. DOMAIN options.pinning = 1 .. Len(options.pinning)
    BY <1>1
  <1>3. \A i \in 1 .. Len(options.pinning) : options.pinning[i] \in Nat
    BY <1>1
  <1> QED
    BY <1>2, <1>3 DEF pinCPU, Outside

LEMMA PinnedInvInit == Init => PinnedInv
  <1> SUFFICES ASSUME Init
               PROVE  PinnedInv
    OBVIOUS
  <1>1. pinned = << >> /\ stage = "getopt"
    BY DEF Init, OptionsInit
  <1>2. << >> \in Seq(Int) /\ Len(<< >>) = 0
    OBVIOUS
  <1>3. NbThreads \in Nat
    BY OptionsInvInit, ThreadsNat
  <1> QED
    BY <1>1, <1>2, <1>3 DEF PinnedInv, Measuring

\* Steps that create no thread.
LEMMA PinnedKept ==
  ASSUME Next, ~CreateThread, ~AllCreated
  PROVE  /\ pinned' = pinned
         /\ stage \in Making \/ stage' \notin Making
         /\ stage' \in {"overhead", "measure", "save"} =>
              stage \in {"overhead", "measure", "save"}
  <1> USE DEF Making, Parsing, To, ExperimentVars
  <1>1. CASE ParseOptions
    BY <1>1
       DEF ParseOptions, OptionsNext, Number, Pinning, ProbesPath, Output,
           Option, Unreadable, HelpOrVersion, usage, version, Program,
           setDefaultValues, hasMissingOptions
  <1>2. CASE LoadProbes \/ Crash \/ NoProbes \/ CreateResults \/ NoMemory
    BY <1>2
       DEF LoadProbes, Crash, NoProbes, CreateResults, NoMemory, OptionVars
  <1>3. CASE KernelExperiment \/ CreateLock \/ CreateLockFails \/ DestroyRunner
    BY <1>3
       DEF KernelExperiment, Compile, NoTemporaryFile, LoadFunctions,
           LoadFails,
           EntryPointMissing, AllocateMemory, NoKernelMemory, CreateLock,
           CreateLockFails, DestroyRunner
  <1>4. CASE CreateThreadFails \/ MeasureOverhead \/ OverheadDone \/ Measure
               \/ MeasurementsDone
    BY <1>4
       DEF CreateThreadFails, MeasureOverhead, OverheadDone, Measure,
           MeasurementsDone
  <1>5. CASE saveResults \/ DeleteExperiment \/ Return
    BY <1>5 DEF saveResults, DeleteExperiment, Return, OptionVars
  <1> QED
    BY <1>1, <1>2, <1>3, <1>4, <1>5 DEF Next

LEMMA PinnedInvStep ==
  OptionsInv /\ PinnedInv /\ [Next]_vars => PinnedInv'
  <1> SUFFICES ASSUME OptionsInv, PinnedInv, [Next]_vars
               PROVE  PinnedInv'
    OBVIOUS
  <1>1. NbThreads \in Nat /\ NbThreads' \in Nat
    <2>1. OptionsInv'
      BY OptionsInvStep
    <2>2. NbThreads' \in Nat
      BY <2>1 DEF OptionsInv, IsOptions, OptionRecords, NbThreads
    <2> QED
      BY <2>2, ThreadsNat
  <1>2. CASE CreateThread
    <2>1. /\ stage = "start" /\ stage' = "start" /\ options' = options
          /\ Len(pinned) < NbThreads
          /\ pinned' = Append(pinned, pinCPU(Len(pinned)))
      BY <1>2 DEF CreateThread, To
    <2>2. pinned \in Seq(Int) /\ pinCPU(Len(pinned)) \in Int
      BY CoreIsInt DEF PinnedInv
    <2>3. /\ pinned' \in Seq(Int) /\ Len(pinned') = Len(pinned) + 1
          /\ \A i \in 1 .. Len(pinned) : pinned'[i] = pinned[i]
          /\ pinned'[Len(pinned) + 1] = pinCPU(Len(pinned))
      BY <2>1, <2>2
    <2>4. NbThreads' = NbThreads /\ \A t : pinCPU(t)' = pinCPU(t)
      BY <2>1 DEF NbThreads, pinCPU, isDaemon
    <2>5. ASSUME NEW i \in 1 .. Len(pinned')
          PROVE  pinned'[i] = pinCPU(i - 1)
      <3>1. Len(pinned) \in Nat
        BY <2>2
      <3>2. CASE i = Len(pinned) + 1
        <4>1. i - 1 = Len(pinned)
          BY <3>1, <3>2
        <4> QED
          BY <2>3, <3>2, <4>1
      <3>3. CASE i # Len(pinned) + 1
        <4>1. i \in 1 .. Len(pinned)
          BY <2>3, <3>1, <3>3
        <4>2. pinned'[i] = pinned[i]
          BY <2>3, <4>1
        <4>3. pinned[i] = pinCPU(i - 1)
          BY <4>1 DEF PinnedInv
        <4> QED
          BY <4>2, <4>3
      <3> QED
        BY <3>2, <3>3
    <2> QED
      BY <1>1, <2>1, <2>2, <2>3, <2>4, <2>5
         DEF PinnedInv, Making, Parsing, Measuring
  <1>3. CASE AllCreated
    <2>1. /\ stage' = "overhead" /\ Len(pinned) = NbThreads
          /\ pinned' = pinned /\ options' = options
      BY <1>3 DEF AllCreated, To, ExperimentVars
    <2>2. NbThreads' = NbThreads /\ \A t : pinCPU(t)' = pinCPU(t)
      BY <2>1 DEF NbThreads, pinCPU, isDaemon
    <2> QED
      BY <1>1, <2>1, <2>2 DEF PinnedInv, Making, Parsing
  <1>4. CASE Next /\ ~CreateThread /\ ~AllCreated
    <2>1. /\ pinned' = pinned
          /\ stage \in Making \/ stage' \notin Making
          /\ Measuring' => Measuring
      BY <1>4, PinnedKept DEF Measuring
    <2>2. CASE pinned = << >>
      <3>1. ~ Measuring' \/ options' = options
        BY <1>4, <2>1, OptionsKept
           DEF Measuring, Parsing, ParseOptions, OptionsNext, Number, Pinning,
               ProbesPath, Output, Option, Unreadable, HelpOrVersion, usage,
               version, Program, setDefaultValues, hasMissingOptions
      <3>2. options' = options => NbThreads' = NbThreads
        BY DEF NbThreads, isDaemon
      <3> QED
        BY <1>1, <2>1, <2>2, <3>1, <3>2 DEF PinnedInv
    <2>3. CASE pinned # << >>
      <3>1. stage \notin Making
        BY <2>3 DEF PinnedInv
      <3>2. options' = options
        BY <1>4, <3>1, OptionsKept
           DEF Making, Parsing, ParseOptions, OptionsNext, Number, Pinning,
               ProbesPath, Output, Option, Unreadable, HelpOrVersion, Program,
               setDefaultValues, hasMissingOptions
      <3>3. NbThreads' = NbThreads /\ \A t : pinCPU(t)' = pinCPU(t)
        BY <3>2 DEF NbThreads, pinCPU, isDaemon
      <3> QED
        BY <2>1, <3>1, <3>3 DEF PinnedInv
    <2> QED
      BY <2>2, <2>3
  <1>5. CASE UNCHANGED vars
    BY <1>5
       DEF vars, OptionVars, ExperimentVars, PinnedInv, Measuring, NbThreads,
           pinCPU, isDaemon
  <1> QED
    BY <1>2, <1>3, <1>4, <1>5

\* Every thread that is created has its own core, and more than one process
\* is measured with a core for each.
LEMMA CoresWithinList == OptionsInv /\ PinnedInv => PinnedWithinList
  <1> SUFFICES ASSUME OptionsInv, PinnedInv
               PROVE  PinnedWithinList
    OBVIOUS
  <1>1. /\ options.pinning \in Seq(Nat) /\ options.nbProcess \in Nat
        /\ Len(options.pinning) \in Nat
    BY DEF OptionsInv, IsOptions, OptionRecords
  <1>2. ASSUME options.pinning # << >>, NEW i \in DOMAIN pinned
        PROVE  pinned[i] # Outside
    <2>1. pinned \in Seq(Int) /\ i \in 1 .. Len(pinned) /\ pinned # << >>
      BY <1>2 DEF PinnedInv
    <2>2. EnoughPinned(options)
      BY <2>1 DEF OptionsInv, PinnedInv, Making
    <2>3. Len(pinned) <= options.nbProcess
      BY <1>1, <2>1 DEF PinnedInv, NbThreads
    <2>4. i \in 1 .. Len(options.pinning)
      BY <1>1, <1>2, <2>1, <2>2, <2>3 DEF EnoughPinned
    <2>5. options.pinning[i] \in Nat /\ i \in DOMAIN options.pinning
      BY <1>1, <2>4
    <2>6. (i - 1) + 1 = i
      BY <2>1
    <2>7. pinned[i] = options.pinning[i]
      BY <1>2, <2>1, <2>5, <2>6 DEF PinnedInv, pinCPU
    <2> QED
      BY <2>5, <2>7 DEF Outside
  <1>3. ASSUME Measuring, ~isDaemon
        PROVE  Len(pinned) \in {1, Len(options.pinning)}
    <2>1. EnoughPinned(options)
      BY <1>3 DEF OptionsInv, Measuring, Parsing
    <2> QED
      BY <1>3, <2>1 DEF PinnedInv, NbThreads, EnoughPinned
  <1> QED
    BY <1>2, <1>3 DEF PinnedWithinList

-----------------------------------------------------------------------------
(* The probes.                                                             *)

Loaded == [path : Paths, version : {1, 2}]

\* The probes of a sequence that come from a path.
From(s, path) == {i \in 1 .. Len(s) : s[i].path = path}

\* Every probe has what its constructor asks for. A library is closed as
\* often as it was opened, but for the probes that are there.
LoaderInv ==
  /\ loader \in {"off", "v2", "v1", "loaded", "crashed"}
  /\ paths \in Seq(Paths) /\ probes \in Seq(Loaded)
  /\ \A i \in 1 .. Len(probes) : Accepts(probes[i].path, probes[i].version)
  /\ inits \in [Paths -> Nat] /\ finis \in [Paths -> Nat]
  /\ \A path \in Paths :
       /\ finis[path] <= inits[path]
       /\ loader # "crashed" =>
            inits[path] = finis[path] + Cardinality(From(probes, path))

\* What the rest of the program may rely on.
LoadedInv ==
  /\ stage \in {"compile", "load", "runner", "memory", "start", "overhead",
                "measure", "save", "destroy"} =>
       loader = "loaded" /\ probes # << >>
  /\ stage = "delete" => loader = "loaded" \/ probes # << >>
  /\ stage = "returned" => loader = "loaded" /\ probes = << >>

LEMMA FromFinite ==
  ASSUME NEW s \in Seq(Loaded), NEW path
  PROVE  IsFiniteSet(From(s, path)) /\ Cardinality(From(s, path)) \in Nat
  <1>1. IsFiniteSet(1 .. Len(s)) /\ From(s, path) \subseteq 1 .. Len(s)
    BY FS_Interval DEF From
  <1> QED
    BY <1>1, FS_Subset, FS_CardinalityType

\* One probe more, from the path of that probe.
LEMMA FromAppended ==
  ASSUME NEW s \in Seq(Loaded), NEW probe \in Loaded, NEW path
  PROVE  Cardinality(From(Append(s, probe), path)) =
           Cardinality(From(s, path)) + (IF probe.path = path THEN 1 ELSE 0)
  <1> DEFINE t == Append(s, probe)
             n == Len(s) + 1
  <1>1. /\ Len(s) \in Nat /\ Len(t) = n /\ t[n] = probe
        /\ \A i \in 1 .. Len(s) : t[i] = s[i]
    OBVIOUS
  <1>2. 1 .. n = (1 .. Len(s)) \cup {n} /\ n \notin 1 .. Len(s)
    BY <1>1
  <1> HIDE DEF t, n
  <1>3. n \notin From(s, path)
    BY <1>2 DEF From
  <1>4. From(t, path) = IF probe.path = path THEN From(s, path) \cup {n}
                                             ELSE From(s, path)
    BY <1>1, <1>2 DEF From
  <1>5. /\ Cardinality(From(s, path) \cup {n}) = Cardinality(From(s, path)) + 1
        /\ Cardinality(From(s, path)) \in Nat
    BY <1>3, FromFinite, FS_AddElement
  <1>6. CASE probe.path = path
    BY <1>4, <1>5, <1>6 DEF t
  <1>7. CASE probe.path # path
    BY <1>4, <1>5, <1>7 DEF t
  <1> QED
    BY <1>6, <1>7

\* Without the first probe, one less from its path.
LEMMA FromTail ==
  ASSUME NEW s \in Seq(Loaded), s # << >>, NEW path
  PROVE  Cardinality(From(s, path)) =
           Cardinality(From(Tail(s), path))
             + (IF Head(s).path = path THEN 1 ELSE 0)
  <1> DEFINE rest == Tail(s)
             moved == {i \in 2 .. Len(s) : s[i].path = path}
             back == [i \in From(rest, path) |-> i + 1]
  <1>1. /\ rest \in Seq(Loaded) /\ Len(s) \in Nat /\ Len(s) >= 1
        /\ Len(rest) = Len(s) - 1 /\ Head(s) = s[1]
        /\ \A i \in 1 .. Len(rest) : rest[i] = s[i + 1]
    OBVIOUS
  <1> HIDE DEF rest
  <1>2. back \in Bijection(From(rest, path), moved)
    <2>1. back \in [From(rest, path) -> moved]
      BY <1>1 DEF From
    <2>2. \A i, j \in From(rest, path) : back[i] = back[j] => i = j
      BY <1>1 DEF From
    <2>3. ASSUME NEW k \in moved
          PROVE  \E i \in From(rest, path) : back[i] = k
      <3>1. k - 1 \in From(rest, path)
        BY <1>1 DEF From
      <3>2. (k - 1) + 1 = k
        OBVIOUS
      <3> QED
        BY <3>1, <3>2
    <2> HIDE DEF back, moved
    <2> QED
      BY <2>1, <2>2, <2>3 DEF Bijection, Injection, Surjection, IsInjective
  <1>3. /\ IsFiniteSet(moved)
        /\ Cardinality(moved) = Cardinality(From(rest, path))
        /\ Cardinality(moved) \in Nat
    BY <1>1, <1>2, FromFinite, FS_Bijection DEF ExistsBijection
  <1>4. /\ 1 \notin moved
        /\ From(s, path) = IF Head(s).path = path THEN moved \cup {1}
                                                  ELSE moved
    BY <1>1 DEF From
  <1> HIDE DEF moved
  <1>5. Cardinality(moved \cup {1}) = Cardinality(moved) + 1
    BY <1>3, <1>4, FS_AddElement
  <1>6. CASE Head(s).path = path
    BY <1>3, <1>4, <1>5, <1>6 DEF rest
  <1>7. CASE Head(s).path # path
    BY <1>3, <1>4, <1>7 DEF rest
  <1> QED
    BY <1>6, <1>7

LEMMA LoaderInvInit == Init => LoaderInv /\ LoadedInv
  <1> SUFFICES ASSUME Init
               PROVE  LoaderInv /\ LoadedInv
    OBVIOUS
  <1>1. /\ stage = "getopt" /\ loader = "off"
        /\ paths = << >> /\ probes = << >>
        /\ inits = [path \in Paths |-> 0] /\ finis = [path \in Paths |-> 0]
    BY DEF Init, OptionsInit, LoaderInit
  <1>2. << >> \in Seq(Paths) /\ << >> \in Seq(Loaded) /\ Len(<< >>) = 0
    OBVIOUS
  <1>3. \A path : From(<< >>, path) = {}
    BY <1>2 DEF From
  <1>4. Cardinality({}) = 0
    BY FS_EmptySet
  <1>5. \A path \in Paths : Cardinality(From(probes, path)) = 0
    BY <1>1, <1>3, <1>4
  <1> QED
    BY <1>1, <1>2, <1>5 DEF LoaderInv, LoadedInv

\* Steps that load or delete no probe.
LEMMA LoaderKept ==
  ASSUME Next, ~LoadProbes, ~DeleteExperiment
  PROVE  UNCHANGED LoaderVars
  <1>1. CASE ParseOptions \/ KernelExperiment \/ Crash \/ NoProbes
               \/ CreateResults \/ NoMemory
    BY <1>1
       DEF ParseOptions, KernelExperiment, Crash, NoProbes, CreateResults,
           NoMemory
  <1>2. CASE CreateLock \/ CreateLockFails \/ DestroyRunner \/ CreateThread
               \/ CreateThreadFails \/ AllCreated
    BY <1>2
       DEF CreateLock, CreateLockFails, DestroyRunner, CreateThread,
           CreateThreadFails, AllCreated, LoaderVars
  <1>3. CASE MeasureOverhead \/ OverheadDone \/ Measure \/ MeasurementsDone
               \/ saveResults \/ Return
    BY <1>3
       DEF MeasureOverhead, OverheadDone, Measure, MeasurementsDone,
           saveResults, Return, LoaderVars
  <1> QED
    BY <1>1, <1>2, <1>3 DEF Next

LEMMA HeadPath ==
  ASSUME LoaderInv, paths # << >>
  PROVE  Head(paths) \in Paths /\ Tail(paths) \in Seq(Paths)
  <1>1. paths \in Seq(Paths)
    BY DEF LoaderInv
  <1> QED
    BY <1>1

LEMMA LoadSteps ==
  ASSUME OptionsInv, LoaderInv, LoadProbes
  PROVE  LoaderInv'
  <1>1. options.probesPath \in Seq(Paths) /\ DefaultProbes \in Seq(Paths)
    BY OptionConstants DEF OptionsInv, IsOptions, OptionRecords
  <1>2. CASE BeginLoad(options.probesPath)
    BY <1>1, <1>2 DEF BeginLoad, LoaderInv, From
  <1>3. ASSUME NEW v \in {1, 2}, Rejects(v)
        PROVE  LoaderInv'
    <2>1. Tail(paths) \in Seq(Paths)
      BY <1>3, HeadPath DEF Rejects, Trying
    <2>2. /\ loader \in {"v2", "v1"} /\ loader' \in {"v2", "v1"}
          /\ paths' \in Seq(Paths)
          /\ UNCHANGED << probes, inits, finis >>
      BY <1>3, <2>1 DEF Rejects, Trying, LoaderInv
    <2> QED
      BY <2>2 DEF LoaderInv, From
  <1>4. ASSUME NEW v \in {1, 2}, InitReturnsNull(v)
        PROVE  LoaderInv'
    <2>1. Tail(paths) \in Seq(Paths)
      BY <1>4, HeadPath DEF InitReturnsNull, Trying
    <2>2. /\ loader \in {"v2", "v1"} /\ loader' = "v2"
          /\ paths' \in Seq(Paths)
          /\ UNCHANGED << probes, inits, finis >>
      BY <1>4, <2>1 DEF InitReturnsNull, Trying, fini
    <2> QED
      BY <2>2 DEF LoaderInv, From
  <1>5. CASE LabelMissing \/ LoadDone
    BY <1>5 DEF LabelMissing, LoadDone, Trying, LoaderInv, From
  <1>6. ASSUME NEW v \in {1, 2}, Loads(v)
        PROVE  LoaderInv'
    <2> DEFINE new == Head(paths)
               probe == [path |-> new, version |-> v]
    <2>1. /\ loader \in {"v2", "v1"} /\ loader' = "v2"
          /\ paths' = Tail(paths) /\ paths # << >>
          /\ Accepts(new, v)
          /\ probes' = Append(probes, probe)
          /\ inits' = [inits EXCEPT ![new] = @ + 1] /\ finis' = finis
      BY <1>6 DEF Loads, Trying
    <2>2. new \in Paths /\ paths' \in Seq(Paths) /\ probe \in Loaded
      BY <2>1, HeadPath DEF Loaded
    <2>3. probe.path = new /\ probe.version = v
      OBVIOUS
    <2> HIDE DEF new, probe
    <2>4. probes \in Seq(Loaded)
      BY DEF LoaderInv
    <2>5. /\ probes' \in Seq(Loaded) /\ Len(probes') = Len(probes) + 1
          /\ Len(probes) \in Nat
          /\ \A i \in 1 .. Len(probes) : probes'[i] = probes[i]
          /\ probes'[Len(probes) + 1] = probe
      BY <2>1, <2>2, <2>4
    <2>6. \A i \in 1 .. Len(probes') :
            Accepts(probes'[i].path, probes'[i].version)
      BY <2>1, <2>3, <2>5 DEF LoaderInv
    <2>7. /\ inits' \in [Paths -> Nat] /\ finis' \in [Paths -> Nat]
          /\ \A path \in Paths :
               inits'[path] = IF path = new THEN inits[path] + 1
                                            ELSE inits[path]
      BY <2>1, <2>2 DEF LoaderInv
    <2>8. ASSUME NEW path \in Paths
          PROVE  /\ finis'[path] <= inits'[path]
                 /\ inits'[path] =
                      finis'[path] + Cardinality(From(probes', path))
      <3>1. /\ finis[path] \in Nat /\ inits[path] \in Nat
            /\ Cardinality(From(probes, path)) \in Nat
            /\ finis[path] <= inits[path]
            /\ inits[path] = finis[path] + Cardinality(From(probes, path))
        BY <2>1, <2>4, FromFinite DEF LoaderInv
      <3>2. Cardinality(From(probes', path)) =
              Cardinality(From(probes, path))
                + (IF new = path THEN 1 ELSE 0)
        BY <2>1, <2>2, <2>3, <2>4, FromAppended
      <3>3. CASE new = path
        BY <2>1, <2>7, <3>1, <3>2, <3>3
      <3>4. CASE new # path
        BY <2>1, <2>7, <3>1, <3>2, <3>4
      <3> QED
        BY <3>3, <3>4
    <2> QED
      BY <2>1, <2>2, <2>5, <2>6, <2>7, <2>8 DEF LoaderInv
  <1> QED
    BY <1>2, <1>3, <1>4, <1>5, <1>6 DEF LoadProbes, Load

\* One fini more, of the first probe, whether its library can be closed or
\* not.
LEMMA DeleteSteps ==
  ASSUME LoaderInv, DeleteProbe \/ DeleteFails
  PROVE  LoaderInv'
  <1> DEFINE old == Head(probes).path
  <1>1. /\ loader = "loaded" /\ probes # << >>
        /\ finis' = [finis EXCEPT ![old] = @ + 1]
        /\ UNCHANGED << paths, inits >>
        /\ \/ probes' = Tail(probes) /\ loader' = loader
           \/ probes' = probes /\ loader' = "crashed"
    BY DEF DeleteProbe, DeleteFails, fini
  <1>2. probes \in Seq(Loaded)
    BY DEF LoaderInv
  <1>3. /\ Head(probes) \in Loaded /\ Tail(probes) \in Seq(Loaded)
        /\ Len(probes) \in Nat /\ Len(Tail(probes)) = Len(probes) - 1
        /\ \A i \in 1 .. Len(Tail(probes)) : Tail(probes)[i] = probes[i + 1]
    BY <1>1, <1>2
  <1>4. old \in Paths
    BY <1>3 DEF Loaded
  <1> HIDE DEF old
  <1>5. \A i \in 1 .. Len(probes') :
          Accepts(probes'[i].path, probes'[i].version)
    <2>1. \A i \in 1 .. Len(Tail(probes)) : i + 1 \in 1 .. Len(probes)
      BY <1>3
    <2>2. \A i \in 1 .. Len(Tail(probes)) :
            Accepts(Tail(probes)[i].path, Tail(probes)[i].version)
      BY <1>3, <2>1 DEF LoaderInv
    <2> QED
      BY <1>1, <2>2 DEF LoaderInv
  <1>6. /\ finis' \in [Paths -> Nat]
        /\ \A path \in Paths :
             finis'[path] = IF path = old THEN finis[path] + 1 ELSE finis[path]
    BY <1>1, <1>4 DEF LoaderInv
  <1>7. ASSUME NEW path \in Paths
        PROVE  /\ finis'[path] <= inits'[path]
               /\ loader' # "crashed" =>
                    inits'[path] =
                      finis'[path] + Cardinality(From(probes', path))
    <2>1. /\ finis[path] \in Nat /\ inits[path] \in Nat
          /\ Cardinality(From(probes, path)) \in Nat
          /\ Cardinality(From(Tail(probes), path)) \in Nat
          /\ inits[path] = finis[path] + Cardinality(From(probes, path))
      BY <1>1, <1>2, <1>3, FromFinite DEF LoaderInv
    <2>2. Cardinality(From(probes, path)) =
            Cardinality(From(Tail(probes), path))
              + (IF old = path THEN 1 ELSE 0)
      BY <1>1, <1>2, FromTail DEF old
    <2>3. /\ finis'[path] = finis[path] + (IF old = path THEN 1 ELSE 0)
          /\ inits'[path] = inits[path]
      BY <1>1, <1>6, <2>1
    <2>4. probes' = Tail(probes) =>
            Cardinality(From(probes', path)) =
              Cardinality(From(Tail(probes), path))
      OBVIOUS
    <2>5. loader' # "crashed" => probes' = Tail(probes)
      BY <1>1
    <2>6. CASE old = path
      BY <2>1, <2>2, <2>3, <2>4, <2>5, <2>6
    <2>7. CASE old # path
      BY <2>1, <2>2, <2>3, <2>4, <2>5, <2>7
    <2> QED
      BY <2>6, <2>7
  <1>8. probes' \in Seq(Loaded) /\ loader' \in {"loaded", "crashed"}
    BY <1>1, <1>2, <1>3
  <1> QED
    BY <1>1, <1>5, <1>6, <1>7, <1>8 DEF LoaderInv

LEMMA LoaderInvStep ==
  OptionsInv /\ LoaderInv /\ [Next]_vars => LoaderInv'
  <1> SUFFICES ASSUME OptionsInv, LoaderInv, [Next]_vars
               PROVE  LoaderInv'
    OBVIOUS
  <1>1. CASE LoadProbes
    BY <1>1, LoadSteps
  <1>2. CASE DeleteExperiment
    BY <1>2, DeleteSteps DEF DeleteExperiment
  <1>3. CASE UNCHANGED LoaderVars
    BY <1>3 DEF LoaderVars, LoaderInv, From
  <1> QED
    BY <1>1, <1>2, <1>3, LoaderKept DEF vars


\* What LoadedInv says of the probes was true when they were loaded, and they
\* stay as they are until they are deleted.
LEMMA LoadedInvStep ==
  LoadedInv /\ [Next]_vars => LoadedInv'
  <1> SUFFICES ASSUME LoadedInv, [Next]_vars
               PROVE  LoadedInv'
    OBVIOUS
  <1> USE DEF To
  <1>1. CASE ParseOptions
    BY <1>1
       DEF ParseOptions, OptionsNext, Number, Pinning, ProbesPath, Output,
           Option, Unreadable, HelpOrVersion, usage, version, Program,
           setDefaultValues, hasMissingOptions, LoaderVars, LoadedInv
  <1>2. CASE LoadProbes
    BY <1>2 DEF LoadProbes, OptionVars, LoadedInv
  <1>3. CASE Crash \/ NoProbes \/ CreateResults \/ NoMemory
    BY <1>3
       DEF Crash, NoProbes, CreateResults, NoMemory, LoaderVars, LoadedInv
  <1>4. CASE KernelExperiment
    BY <1>4
       DEF KernelExperiment, Compile, NoTemporaryFile, LoadFunctions,
           LoadFails,
           EntryPointMissing, AllocateMemory, NoKernelMemory, LoaderVars,
           LoadedInv
  <1>5. CASE CreateLock \/ CreateLockFails \/ DestroyRunner
    BY <1>5
       DEF CreateLock, CreateLockFails, DestroyRunner, LoaderVars, LoadedInv
  <1>6. CASE CreateThread \/ CreateThreadFails \/ AllCreated
    BY <1>6
       DEF CreateThread, CreateThreadFails, AllCreated, LoaderVars, LoadedInv
  <1>7. CASE MeasureOverhead \/ OverheadDone \/ Measure \/ MeasurementsDone
               \/ saveResults
    BY <1>7
       DEF MeasureOverhead, OverheadDone, Measure, MeasurementsDone,
           saveResults, LoaderVars, LoadedInv
  <1>8. CASE DeleteExperiment
    BY <1>8
       DEF DeleteExperiment, DeleteProbe, DeleteFails, OptionVars, LoadedInv
  <1>9. CASE Return
    BY <1>9 DEF Return, LoaderVars, LoadedInv
  <1>10. CASE UNCHANGED vars
    BY <1>10 DEF vars, OptionVars, LoaderVars, LoadedInv
  <1> QED
    BY <1>1, <1>2, <1>3, <1>4, <1>5, <1>6, <1>7, <1>8, <1>9, <1>10 DEF Next

-----------------------------------------------------------------------------
(* The kernel and its buffers, and the names of the semaphores.            *)

\* The functions are of a compiled library; the buffers are there between the
\* constructor of the runner and its destructor, as long as the options say.
KernelInv ==
  /\ functions \in {<< >>, << "library", "library" >>}
  /\ isExecKernel /\ stage \in {"runner", "memory", "start", "overhead",
                               "measure", "save"} => functions # << >>
  /\ stage \in Parsing \cup {"create", "compile", "load", "runner", "delete",
                           "returned"} => memory = << >>
  /\ stage \in Parsing \cup {"create", "compile", "load", "delete",
                           "returned"} => shared = << >>
  /\ stage \notin Parsing =>
       \A t \in DOMAIN memory : memory[t] = bufferSize

LEMMA KernelInvInit == Init => KernelInv
  BY DEF Init, OptionsInit, KernelsInit, KernelInv, Parsing

LEMMA KernelSteps ==
  ASSUME OptionsInv, KernelInv, KernelExperiment
  PROVE  KernelInv'
  <1> USE DEF To, KernelInv, Parsing
  <1>1. options' = options /\ bufferSize' = bufferSize
    BY DEF KernelExperiment, Compile, NoTemporaryFile, LoadFunctions,
           LoadFails, EntryPointMissing, AllocateMemory, NoKernelMemory,
           bufferSize
  <1>2. isExecKernel' = isExecKernel
    BY <1>1 DEF isExecKernel
  <1>3. shared' = shared
    BY DEF KernelExperiment, ExperimentVars
  <1>4. CASE Compile
    BY <1>1, <1>2, <1>3, <1>4 DEF Compile
  <1>5. CASE LoadFunctions
    <2>1. functions' = << "library", "library" >>
      BY <1>5 DEF LoadFunctions
    <2>2. functions' # << >>
      BY <2>1
    <2>3. stage = "load" /\ stage' = "runner" /\ memory' = memory
      BY <1>5 DEF LoadFunctions
    <2> QED
      BY <1>1, <1>3, <2>1, <2>2, <2>3
  <1>6. CASE AllocateMemory
    <2>1. /\ stage = "memory" /\ stage' = "start" /\ functions' = functions
          /\ memory' = [t \in 1 .. options.nbProcess |-> bufferSize]
      BY <1>6 DEF AllocateMemory
    <2>2. \A t \in DOMAIN memory' : memory'[t] = bufferSize'
      BY <1>1, <2>1
    <2> QED
      BY <1>2, <2>1, <2>2
  <1>7. CASE NoTemporaryFile \/ LoadFails \/ EntryPointMissing
               \/ NoKernelMemory
    BY <1>1, <1>2, <1>3, <1>7
       DEF NoTemporaryFile, LoadFails, EntryPointMissing, NoKernelMemory,
           KernelVars
  <1> QED
    BY <1>4, <1>5, <1>6, <1>7 DEF KernelExperiment

\* While the options are read there is no buffer, so that it does not matter
\* that its size changes.
LEMMA KernelKept ==
  ASSUME KernelInv, OptionsNext, UNCHANGED << KernelVars, shared >>
  PROVE  KernelInv'
  <1>1. /\ stage \in {"getopt", "defaults", "check"}
        /\ stage' \in Parsing \cup {"create"}
    BY DEF OptionsNext, Number, Pinning, ProbesPath, Output, Option,
           Unreadable, HelpOrVersion, usage, version, Program, setDefaultValues,
           hasMissingOptions, Parsing
  <1>2. memory' = << >> /\ shared' = << >> /\ functions' = functions
    BY <1>1 DEF KernelInv, KernelVars, Parsing
  <1>3. DOMAIN memory' = {}
    BY <1>2
  <1> QED
    BY <1>1, <1>2, <1>3 DEF KernelInv, Parsing

LEMMA KernelInvStep ==
  OptionsInv /\ KernelInv /\ [Next]_vars => KernelInv'
  <1> SUFFICES ASSUME OptionsInv, KernelInv, [Next]_vars
               PROVE  KernelInv'
    OBVIOUS
  <1>1. CASE KernelExperiment
    BY <1>1, KernelSteps
  <1>2. CASE ParseOptions
    BY <1>2, KernelKept DEF ParseOptions, ExperimentVars
  <1>3. CASE UNCHANGED vars
    BY <1>3
       DEF vars, OptionVars, KernelVars, ExperimentVars, KernelInv, Parsing,
           bufferSize, isExecKernel
  <1>4. ASSUME Next, ~KernelExperiment, ~ParseOptions
        PROVE  KernelInv'
    <2>1. options' = options /\ bufferSize' = bufferSize
      BY <1>4, OptionsKept DEF bufferSize
    <2>2. isExecKernel' = isExecKernel
      BY <2>1 DEF isExecKernel
    <2> USE <2>1, <2>2 DEF To, KernelInv, Parsing, KernelVars, ExperimentVars
    <2>3. CASE LoadProbes \/ Crash \/ NoProbes \/ CreateResults \/ NoMemory
      BY <2>3
         DEF LoadProbes, Crash, NoProbes, CreateResults, NoMemory, OptionVars
    <2>4. CASE CreateLock \/ CreateLockFails
      BY <2>4 DEF CreateLock, CreateLockFails
    <2>5. CASE DestroyRunner
      <3>1. memory' = << >> /\ shared' = << >> /\ functions' = functions
        BY <2>5 DEF DestroyRunner, FreeMemory
      <3>2. DOMAIN memory' = {}
        BY <3>1
      <3>3. stage' = "delete"
        BY <2>5 DEF DestroyRunner
      <3> QED
        BY <3>1, <3>2, <3>3
    <2>6. CASE CreateThread \/ CreateThreadFails \/ AllCreated
      BY <2>6 DEF CreateThread, CreateThreadFails, AllCreated
    <2>7. CASE MeasureOverhead \/ OverheadDone \/ Measure \/ MeasurementsDone
                 \/ saveResults
      BY <2>7
         DEF MeasureOverhead, OverheadDone, Measure, MeasurementsDone,
             saveResults
    <2>8. CASE DeleteExperiment \/ Return
      BY <2>8 DEF DeleteExperiment, Return, OptionVars
    <2> QED
      BY <1>4, <2>3, <2>4, <2>5, <2>6, <2>7, <2>8 DEF Next
  <1> QED
    BY <1>1, <1>2, <1>3, <1>4

-----------------------------------------------------------------------------
(* The vectors of the results.                                             *)

\* A vector is never empty and holds at least what was measured.
HasRoom(res) ==
  /\ res = [runs |-> res.runs, nb |-> res.nb]
  /\ res.nb \in Nat
  /\ Len(res.runs) \in Nat \ {0} /\ DOMAIN res.runs = 1 .. Len(res.runs)
  /\ res.nb <= Len(res.runs)

\* The vectors are there since the constructor of the experiment.
ResultsInv ==
  /\ stage \in {"compile", "load", "runner", "memory", "start", "overhead",
                "measure", "save"} => HasRoom(overhead) /\ HasRoom(results)
  /\ stage \in {"measure", "save"} => overhead.nb > 0

LEMMA NewHasRoom ==
  ASSUME NEW n \in Nat \ {0}, NEW ds
  PROVE  HasRoom(NewResults(n, ds))
  <1> DEFINE runs == [i \in 1 .. n |-> RunData(ds)]
  <1>1. runs \in Seq({RunData(ds)}) /\ DOMAIN runs = 1 .. n /\ Len(runs) = n
    OBVIOUS
  <1> HIDE DEF runs
  <1>2. NewResults(n, ds) = [runs |-> runs, nb |-> 0]
    BY DEF NewResults, runs
  <1> QED
    BY <1>1, <1>2 DEF HasRoom

\* A vector that is full is doubled, which makes room because it is not empty.
LEMMA RoomIsMade ==
  ASSUME NEW res, HasRoom(res), NEW ds
  PROVE  HasRoom(Room(res, ds)) /\ Fits(res, ds) /\ Room(res, ds).nb = res.nb
  <1> DEFINE runs == res.runs
             more == [i \in DOMAIN runs |-> RunData(ds)]
             n == Len(runs)
  <1>1. n \in Nat \ {0} /\ DOMAIN runs = 1 .. n /\ res.nb \in Nat
        /\ res.nb <= n
    BY DEF HasRoom
  <1>2. CASE isFull(res)
    <2>1. Len(more) = n
      BY <1>1
    <2> HIDE DEF more
    <2>2. /\ Len(runs \o more) = n + n
          /\ DOMAIN (runs \o more) = 1 .. (n + n)
      BY <1>1, <2>1
    <2>3. Room(res, ds) = [runs |-> runs \o more, nb |-> res.nb]
      BY <1>2 DEF Room, extend, HasRoom, more
    <2> HIDE DEF runs
    <2> DEFINE twice == runs \o more
    <2>4. Len(twice) = n + n /\ DOMAIN twice = 1 .. (n + n)
      BY <2>2
    <2> HIDE DEF twice
    <2> HIDE DEF n
    <2>5. Room(res, ds) = [runs |-> twice, nb |-> res.nb]
      BY <2>3 DEF twice
    <2> QED
      BY <1>1, <2>4, <2>5 DEF HasRoom, Fits
  <1>3. CASE ~isFull(res)
    BY <1>1, <1>3 DEF Room, isFull, Fits
  <1> QED
    BY <1>2, <1>3

LEMMA StoredHasRoom ==
  ASSUME NEW res, HasRoom(res), NEW ds, NEW raw
  PROVE  HasRoom(Stored(res, ds, raw))
  <1> DEFINE room == Room(res, ds)
             data == [p \in DOMAIN ds |-> setData(ds[p], raw[p])]
             runs == [room.runs EXCEPT ![room.nb + 1] = data]
             n == Len(room.runs)
  <1>1. /\ HasRoom(room) /\ room.nb < n
    BY RoomIsMade DEF Fits
  <1> HIDE DEF room, data
  <1>2. DOMAIN runs = 1 .. n /\ n \in Nat \ {0}
    BY <1>1 DEF HasRoom
  <1>3. Len(runs) = n
    BY <1>2
  <1>4. setAllData(room, ds, raw) = [runs |-> runs, nb |-> room.nb]
    <2>1. setAllData(room, ds, raw) =
            [room EXCEPT !.runs[room.nb + 1] = data]
      BY DEF setAllData, data
    <2>2. room = [runs |-> room.runs, nb |-> room.nb]
      BY <1>1 DEF HasRoom
    <2>3. \A a, b : [[runs |-> a, nb |-> b] EXCEPT !.runs[b + 1] = data] =
                     [runs |-> [a EXCEPT ![b + 1] = data], nb |-> b]
      OBVIOUS
    <2> QED
      BY <2>1, <2>2, <2>3
  <1>5. Stored(res, ds, raw) = [runs |-> runs, nb |-> room.nb + 1]
    <2> HIDE DEF runs
    <2> QED
      BY <1>4 DEF Stored, measurementDone, room
  <1> HIDE DEF runs, n
  <1> QED
    BY <1>1, <1>2, <1>3, <1>5 DEF HasRoom, n

LEMMA ResultsInvInit == Init => ResultsInv
  BY DEF Init, OptionsInit, ResultsInv

LEMMA ResultsInvStep ==
  OptionsInv /\ ResultsInv /\ [Next]_vars => ResultsInv'
  <1> SUFFICES ASSUME OptionsInv, ResultsInv, [Next]_vars
               PROVE  ResultsInv'
    OBVIOUS
  <1> USE DEF To, ExperimentVars
  <1>1. CASE CreateResults
    <2>1. /\ stage' \in {"compile", "runner"}
          /\ overhead' = NewResults(options.nbRepet, dims)
          /\ results' = NewResults(options.nbRepet, dims)
      BY <1>1 DEF CreateResults
    <2>2. options.nbRepet \in Nat \ {0}
      BY <1>1
         DEF CreateResults, OptionsInv, IsOptions, OptionRecords
    <2> QED
      BY <2>1, <2>2, NewHasRoom DEF ResultsInv
  <1>2. CASE MeasureOverhead
    <2>1. /\ stage = "overhead" /\ stage' = "overhead"
          /\ overhead' = Stored(overhead, dims, NextRaw) /\ results' = results
      BY <1>2 DEF MeasureOverhead
    <2> QED
      BY <2>1, StoredHasRoom DEF ResultsInv
  <1>3. CASE Measure
    <2>1. /\ stage = "measure" /\ stage' = "measure"
          /\ results' = Stored(results, dims, NextRaw) /\ overhead' = overhead
      BY <1>3 DEF Measure
    <2> QED
      BY <2>1, StoredHasRoom DEF ResultsInv
  <1>4. CASE OverheadDone
    <2>1. /\ stage = "overhead" /\ stage' = "measure"
          /\ overhead.nb = NbOverhead
          /\ UNCHANGED << overhead, results >>
      BY <1>4 DEF OverheadDone
    <2>2. NbOverhead > 0
      BY <2>1
         DEF NbOverhead, OptionsInv, IsOptions, OptionRecords
    <2> QED
      BY <2>1, <2>2 DEF ResultsInv
  <1>5. CASE ParseOptions
    BY <1>5
       DEF ParseOptions, OptionsNext, Number, Pinning, ProbesPath, Output,
           Option, Unreadable, HelpOrVersion, usage, version, Program,
           setDefaultValues, hasMissingOptions, ResultsInv
  <1>6. CASE LoadProbes \/ Crash \/ NoProbes \/ NoMemory
    BY <1>6
       DEF LoadProbes, Crash, NoProbes, NoMemory, OptionVars, ResultsInv
  <1>7. CASE KernelExperiment
    BY <1>7
       DEF KernelExperiment, Compile, NoTemporaryFile, LoadFunctions,
           LoadFails,
           EntryPointMissing, AllocateMemory, NoKernelMemory, ResultsInv
  <1>8. CASE CreateLock \/ CreateLockFails \/ DestroyRunner
    BY <1>8 DEF CreateLock, CreateLockFails, DestroyRunner, ResultsInv
  <1>9. CASE CreateThread \/ CreateThreadFails \/ AllCreated
    BY <1>9 DEF CreateThread, CreateThreadFails, AllCreated, ResultsInv
  <1>10. CASE MeasurementsDone \/ saveResults
    BY <1>10 DEF MeasurementsDone, saveResults, ResultsInv
  <1>11. CASE DeleteExperiment \/ Return
    BY <1>11 DEF DeleteExperiment, Return, OptionVars, ResultsInv
  <1>12. CASE UNCHANGED vars
    BY <1>12 DEF vars, OptionVars, ResultsInv
  <1> QED
    BY <1>1, <1>2, <1>3, <1>4, <1>5, <1>6, <1>7, <1>8, <1>9, <1>10, <1>11,
       <1>12 DEF Next

-----------------------------------------------------------------------------
(* The invariant.                                                          *)

Inv ==
  OptionsInv /\ PinnedInv /\ LoaderInv /\ LoadedInv /\ KernelInv /\ ResultsInv

\* The parts of the invariant together are inductive.
THEOREM InductiveInvariant == Spec => []Inv
  <1>1. Init => Inv
    BY OptionsInvInit, PinnedInvInit, LoaderInvInit, KernelInvInit,
       ResultsInvInit DEF Inv
  <1>2. Inv /\ [Next]_vars => Inv'
    BY OptionsInvStep, PinnedInvStep, LoaderInvStep, LoadedInvStep,
       KernelInvStep, ResultsInvStep DEF Inv
  <1> QED
    BY <1>1, <1>2, PTL DEF Spec

\* Whatever the options, every thread that is created has a core of the list
\* that -p gives, its own, and several processes are only measured with
\* exactly one core for each (hasMissingOptions, pinCPU).
THEOREM CoresAreListed == Spec => []PinnedWithinList
  <1>1. Inv => PinnedWithinList
    BY CoresWithinList DEF Inv
  <1> QED
    BY <1>1, InductiveInvariant, PTL

\* However many libraries there are and whichever of them cannot be loaded:
\* a library's fini is called once for every init that gave a probe, and when
\* main returns none is missing, the kernel's buffers are freed and the names
\* of the semaphores are removed (loadProbes, the destructors).
THEOREM NothingIsLeft == Spec => []LeavesNothing
  <1>1. ASSUME Inv
        PROVE  LeavesNothing
    <2>1. \A path \in Paths : finis[path] <= inits[path]
      BY <1>1 DEF Inv, LoaderInv
    <2>2. ASSUME stage = "returned", NEW path \in Paths
          PROVE  finis[path] = inits[path]
      <3>1. loader = "loaded" /\ probes = << >>
        BY <1>1, <2>2 DEF Inv, LoadedInv
      <3>2. Len(probes) = 0
        BY <3>1
      <3>3. From(probes, path) = {}
        BY <3>2 DEF From
      <3>4. Cardinality(From(probes, path)) = 0
        BY <3>3, FS_EmptySet
      <3>5. /\ inits[path] = finis[path] + Cardinality(From(probes, path))
            /\ finis[path] \in Nat
        BY <1>1, <3>1 DEF Inv, LoaderInv
      <3> QED
        BY <3>4, <3>5
    <2>3. stage = "returned" => shared = << >> /\ memory = << >>
      BY <1>1 DEF Inv, KernelInv
    <2> QED
      BY <2>1, <2>2, <2>3 DEF LeavesNothing
  <1> QED
    BY <1>1, InductiveInvariant, PTL

\* The collector calls no function that a probe's library does not have (the
\* constructors of ProbeV1 and ProbeV2).
THEOREM FunctionsAreThere == Spec => []NoMissingFunction
  <1>1. ASSUME Inv, Measuring
        PROVE  /\ probes # << >>
               /\ \A i \in DOMAIN probes :
                    Has(probes[i].path, CalledBy(probes[i]))
    <2>1. probes # << >>
      BY <1>1 DEF Inv, LoadedInv, Measuring
    <2>2. ASSUME NEW i \in DOMAIN probes
          PROVE  Has(probes[i].path, CalledBy(probes[i]))
      <3>1. /\ i \in 1 .. Len(probes) /\ probes[i] \in Loaded
            /\ Accepts(probes[i].path, probes[i].version)
        BY <1>1, <2>2 DEF Inv, LoaderInv
      <3>2. probes[i].version \in {1, 2}
        BY <3>1 DEF Loaded
      <3> QED
        BY <3>1, <3>2
           DEF Accepts, Has, CalledBy, getPeriod, Unasked
    <2> QED
      BY <2>1, <2>2
  <1>2. Inv => NoMissingFunction
    BY <1>1 DEF NoMissingFunction
  <1> QED
    BY <1>2, InductiveInvariant, PTL

\* Every measurement has its place in the vector, of a daemon too; and there
\* is a mean of the overhead to subtract (ProbeDataCollector::stop, extend,
\* ExperimentationResultsWriter).
THEOREM RoomForAll == Spec => []RoomAndMean
  <1>1. ASSUME Inv
        PROVE  RoomAndMean
    <2>1. stage = "overhead" => Fits(overhead, dims)
      BY <1>1, RoomIsMade DEF Inv, ResultsInv
    <2>2. stage = "measure" => Fits(results, dims)
      BY <1>1, RoomIsMade DEF Inv, ResultsInv
    <2>3. stage = "save" => HasMean(overhead)
      BY <1>1 DEF Inv, ResultsInv, HasMean
    <2> QED
      BY <2>1, <2>2, <2>3 DEF RoomAndMean
  <1> QED
    BY <1>1, InductiveInvariant, PTL

-----------------------------------------------------------------------------
(* What is written is what stop returned.                                  *)

\* The place of value i in the matrix of a probe with n channels.
LEMMA DeviceAndChannel ==
  ASSUME NEW m \in Nat, NEW n \in Nat, NEW i \in 1 .. m * n
  PROVE  /\ (i - 1) \div n \in 0 .. m - 1
         /\ (i - 1) % n \in 0 .. n - 1
         /\ (((i - 1) \div n) * n + ((i - 1) % n)) + 1 = i
  <1> DEFINE d == (i - 1) \div n
             c == (i - 1) % n
  <1>1. n # 0
    BY SMT
  <1>2. /\ d \in Int /\ c \in 0 .. n - 1 /\ i - 1 = n * d + c
    BY <1>1
  <1> HIDE DEF d, c
  <1>3. d >= 0
    <2>1. d <= -1 => n * d <= -n
      BY <1>1, <1>2
    <2> QED
      BY <1>2, <2>1
  <1>4. d <= m - 1
    <2>1. d >= m => n * d >= n * m
      BY <1>1, <1>2
    <2>2. n * m = m * n /\ i - 1 < m * n
      OBVIOUS
    <2> QED
      BY <1>2, <2>1, <2>2
  <1>5. d * n = n * d
    BY <1>2
  <1> QED
    BY <1>2, <1>3, <1>4, <1>5 DEF d, c

IsDim(dim) == dim.nbDevices \in Nat /\ dim.nbChannels \in Nat

Values(dim) == 1 .. dim.nbDevices * dim.nbChannels

\* The writer takes the values out of the matrix in the order in which the
\* collector put them there.
LEMMA CellsInOrder ==
  ASSUME NEW dim, IsDim(dim), NEW raw, NEW i \in Values(dim)
  PROVE  LET x == << (i - 1) \div dim.nbChannels, (i - 1) % dim.nbChannels >>
         IN x \in DOMAIN setData(dim, raw) /\ setData(dim, raw)[x] = raw[i]
  <1> DEFINE m == dim.nbDevices
             n == dim.nbChannels
             d == (i - 1) \div n
             c == (i - 1) % n
  <1>1. d \in 0 .. m - 1 /\ c \in 0 .. n - 1 /\ (d * n + c) + 1 = i
    BY DeviceAndChannel DEF IsDim, Values
  <1> HIDE DEF d, c
  <1>2. /\ << d, c >> \in DOMAIN setData(dim, raw)
        /\ setData(dim, raw)[<< d, c >>] = raw[(d * n + c) + 1]
    BY <1>1 DEF setData, Places, Devices, Channels
  <1> QED
    BY <1>1, <1>2 DEF d, c

\* A row has, for each probe and in their order, every value that its stop
\* returned, times the number of overhead measurements, less their sum.
LEMMA RowOfData ==
  ASSUME NEW ov, NEW ds, NEW raw, NEW p \in DOMAIN ds, IsDim(ds[p])
  PROVE  Cells(ds[p], Net(ov, ds, p, setData(ds[p], raw[p]))) =
           [i \in Values(ds[p]) |->
              ov.nb * raw[p][i] - Cells(ds[p], SumOf(ov, ds, p))[i]]
  <1> DEFINE dim == ds[p]
             pd == setData(dim, raw[p])
             sum == SumOf(ov, ds, p)
             at(i) == << (i - 1) \div dim.nbChannels,
                         (i - 1) % dim.nbChannels >>
  <1>1. \A i \in Values(dim) : at(i) \in DOMAIN pd /\ pd[at(i)] = raw[p][i]
    BY CellsInOrder
  <1>2. Net(ov, ds, p, pd) = [x \in DOMAIN pd |-> ov.nb * pd[x] - sum[x]]
    BY DEF Net
  <1> HIDE DEF pd, sum
  <1>3. Cells(dim, Net(ov, ds, p, pd)) =
          [i \in Values(dim) |-> Net(ov, ds, p, pd)[at(i)]]
    BY DEF Cells, Values
  <1>4. Cells(dim, sum) = [i \in Values(dim) |-> sum[at(i)]]
    BY DEF Cells, Values
  <1> HIDE DEF at
  <1>5. \A i \in Values(dim) :
          Net(ov, ds, p, pd)[at(i)] = ov.nb * raw[p][i] - Cells(dim, sum)[i]
    BY <1>1, <1>2, <1>4
  <1> HIDE DEF dim
  <1>6. Cells(dim, Net(ov, ds, p, pd)) =
          [i \in Values(dim) |-> ov.nb * raw[p][i] - Cells(dim, sum)[i]]
    BY <1>3, <1>5
  <1> QED
    BY <1>6 DEF dim, pd, sum

Data(ds, raw) == [p \in DOMAIN ds |-> setData(ds[p], raw[p])]

\* The vector has what stop returned, in that order.
Kept(res, ds, raws) ==
  /\ \E S : raws \in Seq(S)
  /\ res.nb = Len(raws)
  /\ \A i \in 1 .. Len(raws) : res.runs[i] = Data(ds, raws[i])

\* Making room moves nothing.
LEMMA RoomKeeps ==
  ASSUME NEW res, HasRoom(res), NEW ds, NEW i \in 1 .. res.nb
  PROVE  Room(res, ds).runs[i] = res.runs[i]
  <1> DEFINE runs == res.runs
             more == [j \in DOMAIN runs |-> RunData(ds)]
             n == Len(runs)
  <1>1. n \in Nat \ {0} /\ DOMAIN runs = 1 .. n /\ i \in 1 .. n
    BY DEF HasRoom
  <1>2. CASE isFull(res)
    <2>1. (runs \o more)[i] = runs[i]
      BY <1>1
    <2> DEFINE twice == runs \o more
    <2>2. Room(res, ds) = [runs |-> twice, nb |-> res.nb]
      BY <1>2 DEF Room, extend, HasRoom
    <2> HIDE DEF twice
    <2>3. Room(res, ds).runs = twice
      BY <2>2
    <2> QED
      BY <2>1, <2>3 DEF twice
  <1>3. CASE ~isFull(res)
    BY <1>3 DEF Room
  <1> QED
    BY <1>2, <1>3

\* stop adds its values behind those that are there.
LEMMA StoredKeeps ==
  ASSUME NEW res, HasRoom(res), NEW ds, NEW raws, Kept(res, ds, raws), NEW raw
  PROVE  Kept(Stored(res, ds, raw), ds, Append(raws, raw))
  <1> DEFINE room == Room(res, ds)
             data == Data(ds, raw)
             runs == [room.runs EXCEPT ![res.nb + 1] = data]
             n == Len(raws)
             more == Append(raws, raw)
             st == Stored(res, ds, raw)
  <1>1. /\ HasRoom(room) /\ room.nb < Len(room.runs) /\ room.nb = res.nb
    BY RoomIsMade DEF Fits
  <1>2. \A i \in 1 .. res.nb : room.runs[i] = res.runs[i]
    BY RoomKeeps
  <1>3. st = [runs |-> runs, nb |-> res.nb + 1]
    <2> HIDE DEF room
    <2>1. setAllData(room, ds, raw) = [room EXCEPT !.runs[room.nb + 1] = data]
      BY DEF setAllData, Data
    <2>2. room = [runs |-> room.runs, nb |-> room.nb]
      BY <1>1 DEF HasRoom
    <2> HIDE DEF data
    <2>3. \A a, b : [[runs |-> a, nb |-> b] EXCEPT !.runs[b + 1] = data] =
                     [runs |-> [a EXCEPT ![b + 1] = data], nb |-> b]
      OBVIOUS
    <2>4. setAllData(room, ds, raw) = [runs |-> runs, nb |-> res.nb]
      BY <1>1, <2>1, <2>2, <2>3
    <2> HIDE DEF runs
    <2> QED
      BY <2>4 DEF Stored, measurementDone, room
  <1>4. PICK S : raws \in Seq(S)
    BY DEF Kept
  <1>5. raws \in Seq(S \cup {raw}) /\ raw \in S \cup {raw}
    BY <1>4, SeqMonotonic
  <1>6. /\ more \in Seq(S \cup {raw}) /\ n \in Nat /\ Len(more) = n + 1
        /\ more[n + 1] = raw /\ \A i \in 1 .. n : more[i] = raws[i]
    BY <1>5
  <1>7. /\ res.nb = n /\ \A i \in 1 .. n : res.runs[i] = Data(ds, raws[i])
    BY DEF Kept
  <1>8. DOMAIN room.runs = 1 .. Len(room.runs) /\ Len(room.runs) \in Nat
    BY <1>1 DEF HasRoom
  <1> HIDE DEF room, data, more, st, n
  <1>9. /\ runs[n + 1] = data
        /\ \A i \in 1 .. n : runs[i] = room.runs[i]
    BY <1>1, <1>6, <1>7, <1>8
  <1>10. ASSUME NEW i \in 1 .. n + 1
         PROVE  runs[i] = Data(ds, more[i])
    <2>1. CASE i = n + 1
      BY <1>6, <1>9, <2>1 DEF data
    <2>2. CASE i # n + 1
      <3>1. i \in 1 .. n
        BY <1>6, <2>2
      <3> QED
        BY <1>2, <1>6, <1>7, <1>9, <3>1
    <2> QED
      BY <2>1, <2>2
  <1> HIDE DEF runs
  <1>11. Kept(st, ds, more)
    BY <1>3, <1>6, <1>7, <1>10 DEF Kept
  <1> QED
    BY <1>11 DEF st, more

LEMMA DimsAreNat == ASSUME LoaderInv PROVE \A p \in DOMAIN dims : IsDim(dims[p])
  <1> SUFFICES ASSUME LoaderInv, NEW p \in DOMAIN dims
               PROVE  IsDim(dims[p])
    OBVIOUS
  <1>1. p \in DOMAIN probes /\ probes[p] \in Loaded
    BY DEF LoaderInv, dims
  <1>2. probes[p].path \in Paths
    BY <1>1 DEF Loaded
  <1>3. /\ Libraries[probes[p].path].devices \in Nat
        /\ Libraries[probes[p].path].channels \in Nat
    BY <1>2, LibrariesAssumption
  <1>4. nbDevices(probes[p]) \in Nat /\ nbChannels(probes[p]) \in Nat
    BY <1>3 DEF nbDevices, nbChannels, Unasked
  <1> QED
    BY <1>1, <1>4 DEF dims, IsDim

\* The row for what stop returned in one measurement.
RowFor(raw) ==
  FlattenSeq([p \in DOMAIN dims |->
    [j \in Values(dims[p]) |->
       Len(stopped.overhead) * raw[p][j]
         - Cells(dims[p], SumOf(overhead, dims, p))[j]]])

\* Once the file is written it has a row for each measurement that was
\* stopped, in their order, with the values that stop returned.
WrittenInOrder ==
  stage = "destroy" =>
    \A file \in DOMAIN output :
      LET rows == output[file].rows
      IN /\ rows = [i \in 1 .. Len(stopped.results) |->
                      RowFor(stopped.results[i])]
         /\ Len(rows) = Len(stopped.results)

\* The vectors and what stop returned are the same from the constructor of
\* the experiment to its end.
WithVectors == {"compile", "load", "runner", "memory", "start", "overhead",
                "measure", "save", "destroy"}

KeptInv ==
  /\ stage \in Parsing \cup {"create"} =>
       stopped = [overhead |-> << >>, results |-> << >>]
  /\ stage \in WithVectors =>
       /\ Kept(overhead, dims, stopped.overhead)
       /\ Kept(results, dims, stopped.results)
  /\ WrittenInOrder

LEMMA NewIsKept == \A n, ds : Kept(NewResults(n, ds), ds, << >>)
  <1>1. << >> \in Seq({}) /\ Len(<< >>) = 0 /\ 1 .. 0 = {}
    OBVIOUS
  <1> QED
    BY <1>1 DEF Kept, NewResults

LEMMA SavedInOrder ==
  ASSUME Inv, KeptInv, saveResults
  PROVE  \A file \in DOMAIN output' :
           LET rows == output'[file].rows
           IN /\ rows = [i \in 1 .. Len(stopped.results) |->
                           RowFor(stopped.results[i])]
              /\ Len(rows) = Len(stopped.results)
  <1> DEFINE n == Len(stopped.results)
             rows == [i \in DOMAIN Valid(results) |->
                        Row(overhead, dims, Valid(results)[i])]
  <1>1. /\ stage = "save"
        /\ output' = [file \in {options.outputFile} |->
                        Written(overhead, results, dims)]
    BY DEF saveResults, To
  <1>2. /\ HasRoom(results) /\ Kept(results, dims, stopped.results)
        /\ Kept(overhead, dims, stopped.overhead)
    BY <1>1 DEF Inv, ResultsInv, KeptInv, WithVectors
  <1>3. n \in Nat
    BY <1>2 DEF Kept
  <1>4. /\ results.nb = n /\ overhead.nb = Len(stopped.overhead)
        /\ \A i \in 1 .. n : results.runs[i] = Data(dims, stopped.results[i])
    BY <1>2 DEF Kept
  <1>5. Valid(results) = [i \in 1 .. n |-> results.runs[i]]
    BY <1>3, <1>4 DEF Valid
  <1>6. ASSUME NEW i \in 1 .. n
        PROVE  Row(overhead, dims, Valid(results)[i])
                 = RowFor(stopped.results[i])
    <2> DEFINE raw == stopped.results[i]
    <2>1. Valid(results)[i] = Data(dims, raw)
      BY <1>4, <1>5
    <2> HIDE DEF raw
    <2>2. ASSUME NEW p \in DOMAIN dims
          PROVE  Cells(dims[p], Net(overhead, dims, p, Data(dims, raw)[p])) =
                   [j \in Values(dims[p]) |->
                      Len(stopped.overhead) * raw[p][j]
                        - Cells(dims[p], SumOf(overhead, dims, p))[j]]
      <3>1. IsDim(dims[p])
        BY DimsAreNat DEF Inv
      <3>2. Data(dims, raw)[p] = setData(dims[p], raw[p])
        BY DEF Data
      <3> QED
        BY <1>4, <3>1, <3>2, RowOfData
    <2>3. [p \in DOMAIN dims |->
             Cells(dims[p], Net(overhead, dims, p, Data(dims, raw)[p]))] =
          [p \in DOMAIN dims |->
             [j \in Values(dims[p]) |->
                Len(stopped.overhead) * raw[p][j]
                  - Cells(dims[p], SumOf(overhead, dims, p))[j]]]
      BY <2>2, Zenon
    <2>4. Row(overhead, dims, Data(dims, raw)) = RowFor(raw)
      BY <2>3, Zenon DEF Row, RowFor
    <2> QED
      BY <2>1, <2>4 DEF raw
  <1>7. rows = [i \in 1 .. n |-> RowFor(stopped.results[i])]
    <2>1. DOMAIN Valid(results) = 1 .. n
      BY <1>5
    <2> QED
      BY <1>6, <2>1, Zenon
  <1>8. Len(rows) = n
    BY <1>3, <1>7
  <1>9. \A file \in DOMAIN output' : output'[file].rows = rows
    <2>1. Written(overhead, results, dims).rows = rows
      BY DEF Written
    <2> QED
      BY <1>1, <2>1, Zenon
  <1> QED
    BY <1>7, <1>8, <1>9, Zenon

LEMMA KeptInvStep == Inv /\ KeptInv /\ [Next]_vars => KeptInv'
  <1> SUFFICES ASSUME Inv, KeptInv, [Next]_vars
               PROVE  KeptInv'
    OBVIOUS
  <1>1. ASSUME probes' = probes
        PROVE  dims' = dims
    BY <1>1 DEF dims, nbDevices, nbChannels
  <1> USE DEF To, ExperimentVars, LoaderVars, Parsing, WithVectors
  <1>2. CASE CreateResults
    <2>1. /\ stage = "create" /\ stage' \in {"compile", "runner"}
          /\ overhead' = NewResults(options.nbRepet, dims)
          /\ results' = NewResults(options.nbRepet, dims)
          /\ stopped' = stopped /\ probes' = probes
      BY <1>2 DEF CreateResults
    <2>2. stopped = [overhead |-> << >>, results |-> << >>]
      BY <2>1 DEF KeptInv
    <2>3. stopped.overhead = << >> /\ stopped.results = << >>
      BY <2>2
    <2>4. /\ Kept(overhead', dims', stopped'.overhead)
          /\ Kept(results', dims', stopped'.results)
      BY <1>1, <2>1, <2>3, NewIsKept
    <2> QED
      BY <2>1, <2>4 DEF KeptInv, WrittenInOrder
  <1>3. CASE MeasureOverhead
    <2> DEFINE raw == NextRaw
    <2>1. /\ stage = "overhead" /\ stage' = "overhead"
          /\ overhead' = Stored(overhead, dims, raw) /\ results' = results
          /\ stopped' = [stopped EXCEPT !.overhead =
                           Append(stopped.overhead, raw)]
          /\ probes' = probes
      BY <1>3 DEF MeasureOverhead
    <2> HIDE DEF raw
    <2>2. /\ HasRoom(overhead) /\ Kept(overhead, dims, stopped.overhead)
          /\ Kept(results, dims, stopped.results)
      BY <2>1 DEF Inv, ResultsInv, KeptInv
    <2>3. /\ stopped'.overhead = Append(stopped.overhead, raw)
          /\ stopped'.results = stopped.results
      BY <2>1
    <2>4. Kept(overhead', dims', stopped'.overhead)
      BY <1>1, <2>1, <2>2, <2>3, StoredKeeps
    <2> QED
      BY <1>1, <2>1, <2>2, <2>3, <2>4 DEF KeptInv, WrittenInOrder
  <1>4. CASE Measure
    <2> DEFINE raw == NextRaw
    <2>1. /\ stage = "measure" /\ stage' = "measure"
          /\ results' = Stored(results, dims, raw) /\ overhead' = overhead
          /\ stopped' = [stopped EXCEPT !.results =
                           Append(stopped.results, raw)]
          /\ probes' = probes
      BY <1>4 DEF Measure
    <2> HIDE DEF raw
    <2>2. /\ HasRoom(results) /\ Kept(overhead, dims, stopped.overhead)
          /\ Kept(results, dims, stopped.results)
      BY <2>1 DEF Inv, ResultsInv, KeptInv
    <2>3. /\ stopped'.results = Append(stopped.results, raw)
          /\ stopped'.overhead = stopped.overhead
      BY <2>1
    <2>4. Kept(results', dims', stopped'.results)
      BY <1>1, <2>1, <2>2, <2>3, StoredKeeps
    <2> QED
      BY <1>1, <2>1, <2>2, <2>3, <2>4 DEF KeptInv, WrittenInOrder
  <1>5. CASE saveResults
    <2>1. /\ stage = "save" /\ stage' = "destroy"
          /\ UNCHANGED << overhead, results, stopped, probes >>
      BY <1>5 DEF saveResults
    <2>2. /\ Kept(overhead, dims, stopped.overhead)
          /\ Kept(results, dims, stopped.results)
      BY <2>1 DEF KeptInv
    <2>3. dims' = dims
      BY <1>1, <2>1
    <2>4. WrittenInOrder'
      BY <1>5, <2>1, <2>3, SavedInOrder DEF WrittenInOrder, RowFor
    <2> QED
      BY <2>1, <2>2, <2>3, <2>4 DEF KeptInv
  <1> DEFINE Same == UNCHANGED << overhead, results, stopped, output >>
  <1>6. ASSUME Same, probes' = probes,
               stage' = stage \/ stage' \notin {"create", "destroy"},
               stage' \in Parsing \cup {"create"} =>
                 stage \in Parsing \cup {"create"},
               stage' \in WithVectors => stage \in WithVectors
        PROVE  KeptInv'
    BY <1>1, <1>6 DEF KeptInv, WrittenInOrder, RowFor
  <1>7. CASE ParseOptions
    <2>1. /\ Same /\ probes' = probes
          /\ stage \in Parsing /\ stage' \in Parsing \cup {"create"}
      BY <1>7
         DEF ParseOptions, OptionsNext, Number, Pinning, ProbesPath, Output,
             Option, Unreadable, HelpOrVersion, usage, version, Program,
             setDefaultValues, hasMissingOptions
    <2> QED
      BY <2>1 DEF KeptInv, WrittenInOrder
  <1>8. CASE LoadProbes
    <2>1. Same /\ stage = "create" /\ stage' = stage
      BY <1>8 DEF LoadProbes, OptionVars
    <2> QED
      BY <2>1 DEF KeptInv, WrittenInOrder
  <1>9. CASE Crash \/ NoProbes \/ NoMemory \/ DeleteExperiment \/ Return
    <2>1. Same /\ stage' \in {"aborted", "returned", "delete"}
      BY <1>9
         DEF Crash, NoProbes, NoMemory, DeleteExperiment, Return, OptionVars
    <2> QED
      BY <2>1 DEF KeptInv, WrittenInOrder
  <1>10. CASE KernelExperiment
    <2>1. /\ Same /\ probes' = probes /\ stage \in WithVectors
          /\ stage' \notin Parsing \cup {"create", "destroy"}
      BY <1>10
         DEF KernelExperiment, Compile, NoTemporaryFile, LoadFunctions,
             LoadFails, EntryPointMissing, AllocateMemory, NoKernelMemory
    <2> QED
      BY <1>6, <2>1
  <1>11. CASE CreateLock \/ CreateLockFails \/ DestroyRunner
    <2>1. /\ Same /\ probes' = probes /\ stage \in WithVectors
          /\ stage' \notin Parsing \cup {"create", "destroy"}
      BY <1>11 DEF CreateLock, CreateLockFails, DestroyRunner
    <2> QED
      BY <1>6, <2>1
  <1>12. CASE CreateThread \/ CreateThreadFails \/ AllCreated
              \/ OverheadDone \/ MeasurementsDone
    <2>1. /\ Same /\ probes' = probes /\ stage \in WithVectors
          /\ stage' \notin Parsing \cup {"create", "destroy"}
      BY <1>12
         DEF CreateThread, CreateThreadFails, AllCreated, OverheadDone,
             MeasurementsDone
    <2> QED
      BY <1>6, <2>1
  <1>13. CASE UNCHANGED vars
    BY <1>6, <1>13 DEF vars, OptionVars
  <1> QED
    BY <1>2, <1>3, <1>4, <1>5, <1>7, <1>8, <1>9, <1>10, <1>11, <1>12, <1>13
       DEF Next

\* The rows of the file are the measurements in the order in which they were
\* stopped, none missing and none of the empty ones with which the vector was
\* made or extended: each value that stop returned, from the place where the
\* collector put it, less the sum over the overhead in the same place.
THEOREM RowsInOrder == Spec => []WrittenInOrder
  <1>1. Init => KeptInv
    BY DEF Init, OptionsInit, KeptInv, WrittenInOrder, Parsing, WithVectors
  <1>2. KeptInv => WrittenInOrder
    BY DEF KeptInv
  <1> QED
    BY <1>1, <1>2, KeptInvStep, InductiveInvariant, PTL DEF Spec

-----------------------------------------------------------------------------
(* The rows are net of the overhead.                                       *)

AreDims(ds) == (\E S : ds \in Seq(S)) /\ \A p \in DOMAIN ds : IsDim(ds[p])

LEMMA HeaderOfDims ==
  ASSUME NEW ds, AreDims(ds)
  PROVE  /\ Header(ds) \in Seq(Nat) /\ Len(Header(ds)) = Len(ds)
         /\ \A p \in 1 .. Len(ds) :
              Header(ds)[p] = ds[p].nbDevices * ds[p].nbChannels
  <1>1. Len(ds) \in Nat /\ DOMAIN ds = 1 .. Len(ds)
    BY DEF AreDims
  <1>2. \A p \in DOMAIN ds : ds[p].nbDevices * ds[p].nbChannels \in Nat
    BY DEF AreDims, IsDim
  <1> QED
    BY <1>1, <1>2 DEF Header

ColumnSum(raws, j) ==
  FoldLeft(LAMBDA sum, raw : sum + FlattenSeq(raw)[j], 0, raws)

\* What the sum of a column goes through.
LEMMA ColumnSteps ==
  ASSUME NEW S, NEW raws \in Seq(S), NEW j,
         \A k \in 1 .. Len(raws) : FlattenSeq(raws[k])[j] \in Int
  PROVE  \E acc \in [0 .. Len(raws) -> Int] :
           /\ acc[0] = 0 /\ acc[Len(raws)] = ColumnSum(raws, j)
           /\ \A k \in 1 .. Len(raws) :
                acc[k] = acc[k - 1] + FlattenSeq(raws[k])[j]
  <1> DEFINE n == Len(raws)
             v(k) == FlattenSeq(raws[k])[j]
             g == [k \in 1 .. n |-> [x \in Int |-> x + v(k)]]
             Is(iter) == iter = [s \in SUBSET (1 .. n) |-> IF s = {} THEN 0
                                   ELSE iter[s \ {Max(s)}] + v(Max(s))]
             iter == CHOOSE iter : Is(iter)
  <1>1. ColumnSum(raws, j) = iter[1 .. n]
    <2>1. DOMAIN raws = 1 .. n
      OBVIOUS
    <2> QED
      BY <2>1 DEF ColumnSum, FoldLeft, MapThenFoldSet
  <1>2. n \in Nat /\ \A k \in 1 .. n : v(k) \in Int
    OBVIOUS
  <1> HIDE DEF n, v
  <1>3. Is(iter)
    <2> DEFINE I == Int
               zero == 0
    <2>1. g \in [1 .. n -> [I -> I]] /\ zero \in I
      BY <1>2
    <2>2. PICK f : FoldsBy(f, n, I, zero, g)
      <3> HIDE DEF g, I, zero
      <3> QED
        BY <1>2, <2>1, FoldFunctionExists
    <2>3. ASSUME NEW s \in SUBSET (1 .. n), s # {}
          PROVE  g[Max(s)][f[s \ {Max(s)}]] = f[s \ {Max(s)}] + v(Max(s))
      <3>1. Max(s) \in 1 .. n /\ f[s \ {Max(s)}] \in Int
        BY <1>2, <2>2, <2>3, MaxOfPart DEF FoldsBy
      <3> QED
        BY <3>1
    <2>4. Is(f)
      <3> HIDE DEF g
      <3> QED
        BY <2>2, <2>3 DEF FoldsBy
    <2> HIDE DEF Is
    <2> QED
      BY <2>4
  <1> DEFINE acc == [k \in 0 .. n |-> iter[1 .. k]]
  <1> HIDE DEF iter
  <1>4. acc[0] = 0 /\ acc[n] = iter[1 .. n]
    <2>1. iter[{}] = 0
      BY <1>2, <1>3, PartsOfInterval
    <2> QED
      BY <1>2, <2>1, PartsOfInterval
  <1>5. ASSUME NEW k \in 1 .. n
        PROVE  acc[k] = acc[k - 1] + v(k)
    <2>1. iter[1 .. k] = iter[(1 .. k) \ {Max(1 .. k)}] + v(Max(1 .. k))
      BY <1>2, <1>3, PartsOfInterval
    <2>2. iter[1 .. k] = iter[1 .. k - 1] + v(k)
      BY <1>2, <2>1, PartsOfInterval
    <2> QED
      BY <1>2, <2>2
  <1> HIDE DEF acc
  <1> DEFINE T == {k \in 0 .. n : acc[k] \in Int}
  <1>6. 0 .. n \subseteq T
    <2>1. 0 \in T
      BY <1>2, <1>4
    <2>2. ASSUME NEW k \in 1 .. n, k - 1 \in T
          PROVE  k \in T
      BY <1>2, <1>5, <2>2
    <2> HIDE DEF T
    <2> QED
      BY <1>2, <2>1, <2>2, UpTo
  <1>7. acc \in [0 .. n -> Int]
    <2>1. \A k \in 0 .. n : acc[k] \in Int
      BY <1>2, <1>6
    <2> QED
      BY <2>1 DEF acc
  <1>8. \A k \in 1 .. n : acc[k] = acc[k - 1] + FlattenSeq(raws[k])[j]
    BY <1>5 DEF v
  <1> QED
    BY <1>1, <1>4, <1>7, <1>8 DEF n

\* acc is what SumOf goes through for probe p, value by value.
SumsBy(acc, res, ds, p, n) ==
  /\ acc \in [0 .. n -> [Places(ds[p]) -> Int]]
  /\ acc[0] = ProbeData(ds[p]) /\ acc[n] = SumOf(res, ds, p)
  /\ \A k \in 1 .. n : \A x \in Places(ds[p]) :
       acc[k][x] = acc[k - 1][x] + Valid(res)[k][p][x]

LEMMA SumOfSteps ==
  ASSUME NEW res, NEW ds, NEW p \in DOMAIN ds, NEW n \in Nat,
         DOMAIN Valid(res) = 1 .. n,
         \A k \in 1 .. n : Valid(res)[k][p] \in [Places(ds[p]) -> Int]
  PROVE  \E acc : SumsBy(acc, res, ds, p, n)
  <1> DEFINE M == [Places(ds[p]) -> Int]
             none == ProbeData(ds[p])
             v(k) == Valid(res)[k][p]
             With(x, k) == Plus(x, v(k))
             g == [k \in 1 .. n |-> [x \in M |-> With(x, k)]]
             Is(iter) == iter = [s \in SUBSET (1 .. n) |-> IF s = {} THEN none
                                   ELSE With(iter[s \ {Max(s)}], Max(s))]
             iter == CHOOSE iter : Is(iter)
  <1>1. SumOf(res, ds, p) = iter[1 .. n]
    BY DEF SumOf, FoldLeft, MapThenFoldSet
  <1>2. none \in M
    BY DEF ProbeData
  <1>3. ASSUME NEW k \in 1 .. n, NEW x \in M
        PROVE  /\ With(x, k) \in M
               /\ \A y \in Places(ds[p]) : With(x, k)[y] = x[y] + v(k)[y]
    BY DEF Plus
  <1> HIDE DEF M, none, v, With
  <1>4. Is(iter)
    <2>1. g \in [1 .. n -> [M -> M]]
      BY <1>3
    <2>2. PICK f : FoldsBy(f, n, M, none, g)
      <3> HIDE DEF g
      <3> QED
        BY <1>2, <2>1, FoldFunctionExists
    <2>3. ASSUME NEW s \in SUBSET (1 .. n), s # {}
          PROVE  g[Max(s)][f[s \ {Max(s)}]] = With(f[s \ {Max(s)}], Max(s))
      <3>1. Max(s) \in 1 .. n /\ f[s \ {Max(s)}] \in M
        BY <2>2, <2>3, MaxOfPart DEF FoldsBy
      <3> QED
        BY <3>1
    <2>4. Is(f)
      <3> HIDE DEF g
      <3> QED
        BY <2>2, <2>3 DEF FoldsBy
    <2> HIDE DEF Is
    <2> QED
      BY <2>4
  <1> DEFINE acc == [k \in 0 .. n |-> iter[1 .. k]]
  <1> HIDE DEF iter
  <1>5. acc[0] = none /\ acc[n] = iter[1 .. n]
    <2>1. iter[{}] = none
      BY <1>4, PartsOfInterval
    <2> QED
      BY <2>1, PartsOfInterval
  <1>6. ASSUME NEW k \in 1 .. n
        PROVE  acc[k] = With(acc[k - 1], k)
    <2>1. iter[1 .. k] = With(iter[(1 .. k) \ {Max(1 .. k)}], Max(1 .. k))
      BY <1>4, PartsOfInterval, ZenonT(40)
    <2>2. iter[1 .. k] = With(iter[1 .. k - 1], k)
      BY <2>1, PartsOfInterval
    <2> QED
      BY <2>2
  <1> HIDE DEF acc
  <1> DEFINE T == {k \in 0 .. n : acc[k] \in M}
  <1>7. 0 .. n \subseteq T
    <2>1. 0 \in T
      BY <1>2, <1>5
    <2>2. ASSUME NEW k \in 1 .. n, k - 1 \in T
          PROVE  k \in T
      BY <1>3, <1>6, <2>2
    <2> HIDE DEF T
    <2> QED
      BY <2>1, <2>2, UpTo
  <1>8. \A k \in 0 .. n : acc[k] \in M
    BY <1>7
  <1>9. acc \in [0 .. n -> M]
    BY <1>8 DEF acc
  <1>10. \A k \in 1 .. n : \A x \in Places(ds[p]) :
           acc[k][x] = acc[k - 1][x] + v(k)[x]
    <2> SUFFICES ASSUME NEW k \in 1 .. n, NEW x \in Places(ds[p])
                 PROVE  acc[k][x] = acc[k - 1][x] + v(k)[x]
      OBVIOUS
    <2>1. acc[k - 1] \in M
      BY <1>8
    <2> QED
      BY <1>3, <1>6, <2>1
  <1> QED
    <2>1. SumsBy(acc, res, ds, p, n)
      BY <1>1, <1>5, <1>9, <1>10 DEF M, none, v, SumsBy
    <2> QED
      BY <2>1

\* raws are what the stops of probes with these dimensions return.
AreRaw(raws, ds) ==
  \A k \in 1 .. Len(raws) : HaveLengths(raws[k], Header(ds), Int)

LEMMA LengthOfKept ==
  ASSUME NEW res, NEW ds, NEW raws, Kept(res, ds, raws)
  PROVE  Len(raws) \in Nat
  BY DEF Kept

\* The place of value i in the matrix of a probe.
PlaceOf(dim, i) == << (i - 1) \div dim.nbChannels, (i - 1) % dim.nbChannels >>

LEMMA RawValue ==
  ASSUME NEW ds, AreDims(ds),
         NEW raw, HaveLengths(raw, Header(ds), Int), NEW p \in 1 .. Len(ds)
  PROVE  /\ p \in DOMAIN ds /\ IsDim(ds[p])
         /\ \A i \in Values(ds[p]) : raw[p][i] \in Int
         /\ raw \in Seq(Seq(Int)) /\ Len(raw) = Len(ds)
         /\ raw[p] \in Seq(Int)
         /\ Len(raw[p]) = ds[p].nbDevices * ds[p].nbChannels
  <1>1. /\ raw \in Seq(Seq(Int)) /\ Len(raw) = Len(Header(ds))
        /\ \A q \in 1 .. Len(Header(ds)) : Len(raw[q]) = Header(ds)[q]
    BY DEF HaveLengths
  <1>2. /\ Len(raw) = Len(ds)
        /\ Len(raw[p]) = ds[p].nbDevices * ds[p].nbChannels
    BY <1>1, HeaderOfDims
  <1>3. raw[p] \in Seq(Int)
    <2> DEFINE W == Seq(Int)
    <2>1. raw \in Seq(W) /\ p \in 1 .. Len(raw)
      BY <1>1, <1>2
    <2> HIDE DEF W
    <2>2. raw[p] \in W
      BY <2>1, ElementOfSeq
    <2> QED
      BY <2>2 DEF W
  <1>4. \A i \in Values(ds[p]) : raw[p][i] \in Int
    BY <1>2, <1>3 DEF Values
  <1>5. p \in DOMAIN ds /\ IsDim(ds[p])
    BY DEF AreDims
  <1> QED
    BY <1>1, <1>2, <1>3, <1>4, <1>5

\* The matrix of a measurement.
LEMMA MatrixOf ==
  ASSUME NEW dim, IsDim(dim), NEW raw, \A i \in Values(dim) : raw[i] \in Int
  PROVE  /\ setData(dim, raw) \in [Places(dim) -> Int]
         /\ \A i \in Values(dim) : /\ PlaceOf(dim, i) \in Places(dim)
                                   /\ setData(dim, raw)[PlaceOf(dim, i)] = raw[i]
  <1>1. DOMAIN setData(dim, raw) = Places(dim)
    BY DEF setData
  <1>2. ASSUME NEW i \in Values(dim)
        PROVE  /\ PlaceOf(dim, i) \in Places(dim)
               /\ setData(dim, raw)[PlaceOf(dim, i)] = raw[i]
    BY <1>1, CellsInOrder DEF PlaceOf
  <1>3. ASSUME NEW x \in Places(dim)
        PROVE  raw[(x[1] * dim.nbChannels + x[2]) + 1] \in Int
    <2> DEFINE d == x[1]
               c == x[2]
               m == dim.nbDevices
               n == dim.nbChannels
    <2>1. /\ m \in Nat /\ n \in Nat /\ d \in 0 .. m - 1 /\ c \in 0 .. n - 1
      BY DEF IsDim, Places, Devices, Channels
    <2> HIDE DEF d, c, m, n
    <2>2. d * n + c \in Nat /\ d * n + n <= m * n
      <3>1. d * n \in Nat /\ (m - 1) * n = m * n - n
        BY <2>1
      <3>2. d * n <= (m - 1) * n
        BY <2>1
      <3>3. m * n \in Nat
        BY <2>1
      <3> QED
        BY <2>1, <3>1, <3>2, <3>3
    <2>3. (d * n + c) + 1 \in 1 .. m * n
      <3>1. m * n \in Nat /\ d * n \in Nat
        BY <2>1
      <3> QED
        BY <2>1, <2>2, <3>1
    <2> QED
      BY <2>3 DEF Values, d, c, m, n
  <1>4. setData(dim, raw) \in [Places(dim) -> Int]
    BY <1>3 DEF setData
  <1> QED
    BY <1>2, <1>4

\* The sum of the matrices goes through those of what was returned.
LEMMA SumsOfRaw ==
  ASSUME NEW ds, AreDims(ds),
         NEW ov, NEW raws, Kept(ov, ds, raws), AreRaw(raws, ds),
         NEW p \in 1 .. Len(ds)
  PROVE  /\ Len(raws) \in Nat
         /\ \A k \in 1 .. Len(raws) :
              /\ Valid(ov)[k][p] = setData(ds[p], raws[k][p])
              /\ \A i \in Values(ds[p]) : raws[k][p][i] \in Int
         /\ \E mat : SumsBy(mat, ov, ds, p, Len(raws))
  <1> DEFINE n == Len(raws)
             dim == ds[p]
  <1>1. n \in Nat
    BY LengthOfKept
  <1>2. \A k \in 1 .. n : \A y \in Values(dim) : raws[k][p][y] \in Int
    BY RawValue DEF AreRaw
  <1>3. p \in DOMAIN ds /\ IsDim(dim)
    BY DEF AreDims
  <1>4. /\ DOMAIN Valid(ov) = 1 .. n
        /\ \A k \in 1 .. n : Valid(ov)[k][p] = setData(dim, raws[k][p])
    <2>1. /\ ov.nb = n
          /\ \A k \in 1 .. n : ov.runs[k] = Data(ds, raws[k])
      BY DEF Kept
    <2>2. Valid(ov) = [k \in 1 .. n |-> ov.runs[k]]
      BY <1>1, <2>1 DEF Valid
    <2>3. \A k \in 1 .. n : Data(ds, raws[k])[p] = setData(dim, raws[k][p])
      BY <1>3 DEF Data
    <2> HIDE DEF n
    <2> QED
      BY <2>1, <2>2, <2>3
  <1>5. \A k \in 1 .. n : Valid(ov)[k][p] \in [Places(ds[p]) -> Int]
    BY <1>2, <1>3, <1>4, MatrixOf
  <1> HIDE DEF n
  <1>6. \E mat : SumsBy(mat, ov, ds, p, n)
    BY <1>1, <1>3, <1>4, <1>5, SumOfSteps
  <1> QED
    BY <1>1, <1>2, <1>4, <1>6 DEF n

LEMMA CellsAreInt ==
  ASSUME NEW ds, AreDims(ds),
         NEW ov, NEW raws, Kept(ov, ds, raws), AreRaw(raws, ds),
         NEW p \in 1 .. Len(ds), NEW i \in Values(ds[p])
  PROVE  /\ PlaceOf(ds[p], i) \in Places(ds[p])
         /\ Cells(ds[p], SumOf(ov, ds, p))[i]
              = SumOf(ov, ds, p)[PlaceOf(ds[p], i)]
         /\ Cells(ds[p], SumOf(ov, ds, p))[i] \in Int
  <1> DEFINE n == Len(raws)
             dim == ds[p]
             x == PlaceOf(dim, i)
  <1>1. x \in Places(dim)
    <2>1. IsDim(dim)
      BY DEF AreDims
    <2> QED
      BY <2>1, CellsInOrder DEF setData, PlaceOf
  <1>2. Cells(dim, SumOf(ov, ds, p))[i] = SumOf(ov, ds, p)[x]
    BY DEF Cells, Values, PlaceOf
  <1>3. SumOf(ov, ds, p) \in [Places(dim) -> Int]
    <2>1. PICK mat : SumsBy(mat, ov, ds, p, n)
      BY SumsOfRaw
    <2>2. n \in Nat
      BY SumsOfRaw
    <2> HIDE DEF n
    <2>3. n \in 0 .. n
      BY <2>2
    <2> QED
      BY <2>1, <2>3 DEF SumsBy
  <1> HIDE DEF x
  <1>4. SumOf(ov, ds, p)[x] \in Int
    BY <1>1, <1>3
  <1> QED
    BY <1>1, <1>2, <1>4 DEF x

InColumn(raws, p, i, j) ==
  \A k \in 1 .. Len(raws) : FlattenSeq(raws[k])[j] = raws[k][p][i]

\* If value i of probe p is value j of what a stop returns flattened, the sum
\* of the matrices has the sum of column j there.
LEMMA ColumnOfCells ==
  ASSUME NEW ds, AreDims(ds),
         NEW ov, NEW raws, Kept(ov, ds, raws), AreRaw(raws, ds),
         NEW p \in 1 .. Len(ds), NEW i \in Values(ds[p]), NEW j,
         InColumn(raws, p, i, j)
  PROVE  ColumnSum(raws, j) = Cells(ds[p], SumOf(ov, ds, p))[i]
  <1> DEFINE n == Len(raws)
             dim == ds[p]
             x == PlaceOf(dim, i)
  <1>1. /\ n \in Nat /\ IsDim(dim)
        /\ \A k \in 1 .. n : /\ Valid(ov)[k][p] = setData(dim, raws[k][p])
                             /\ \A y \in Values(dim) : raws[k][p][y] \in Int
    <2>1. IsDim(dim)
      BY DEF AreDims
    <2>2. /\ Len(raws) \in Nat
          /\ \A k \in 1 .. Len(raws) :
               /\ Valid(ov)[k][p] = setData(ds[p], raws[k][p])
               /\ \A y \in Values(ds[p]) : raws[k][p][y] \in Int
      BY SumsOfRaw
    <2> QED
      BY <2>1, <2>2
  <1>2. \A k \in 1 .. n : Valid(ov)[k][p][x] = raws[k][p][i]
    BY <1>1, MatrixOf
  <1>3. x \in Places(dim) /\ Cells(dim, SumOf(ov, ds, p))[i] = SumOf(ov, ds, p)[x]
    BY CellsAreInt, SMTT(20)
  <1>4. PICK mat : SumsBy(mat, ov, ds, p, n)
    <2>1. \E m : SumsBy(m, ov, ds, p, Len(raws))
      BY SumsOfRaw, Zenon
    <2> QED
      BY <2>1
  <1>5. PICK acc \in [0 .. n -> Int] :
          /\ acc[0] = 0 /\ acc[n] = ColumnSum(raws, j)
          /\ \A k \in 1 .. n : acc[k] = acc[k - 1] + FlattenSeq(raws[k])[j]
    <2>1. \A k \in 1 .. n : FlattenSeq(raws[k])[j] \in Int
      BY <1>1 DEF InColumn
    <2>2. PICK R : raws \in Seq(R)
      BY DEF Kept
    <2> QED
      BY <2>1, <2>2, ColumnSteps
  <1>6. \A k \in 1 .. n : acc[k] = acc[k - 1] + raws[k][p][i]
    BY <1>5 DEF InColumn
  <1>7. /\ mat[0] = ProbeData(dim) /\ mat[n] = SumOf(ov, ds, p)
        /\ \A k \in 1 .. n : mat[k][x] = mat[k - 1][x] + raws[k][p][i]
    BY <1>2, <1>3, <1>4 DEF SumsBy
  <1> HIDE DEF n, dim, x
  <1> DEFINE T == {k \in 0 .. n : mat[k][x] = acc[k]}
  <1>8. 0 .. n \subseteq T
    <2>1. 0 \in T
      BY <1>1, <1>3, <1>5, <1>7 DEF ProbeData
    <2>2. ASSUME NEW k \in 1 .. n, k - 1 \in T
          PROVE  k \in T
      BY <1>6, <1>7, <2>2
    <2> HIDE DEF T
    <2> QED
      BY <1>1, <2>1, <2>2, UpTo
  <1>9. n \in 0 .. n
    BY <1>1
  <1>10. SumOf(ov, ds, p)[x] = ColumnSum(raws, j)
    BY <1>5, <1>7, <1>8, <1>9
  <1> QED
    BY <1>3, <1>10 DEF dim

\* A row of the file for what a stop has returned.
NetRow(ov, ds, raws, raw) ==
  FlattenSeq([p \in DOMAIN ds |->
    [j \in Values(ds[p]) |->
       Len(raws) * raw[p][j] - Cells(ds[p], SumOf(ov, ds, p))[j]]])

IsNetRow(row, raw, header, raws) ==
  /\ Len(row) = Len(FlattenSeq(raw))
  /\ IsSum(Len(FlattenSeq(raw)), header)
  /\ \A j \in DOMAIN FlattenSeq(raw) :
       row[j] = Len(raws) * FlattenSeq(raw)[j] - ColumnSum(raws, j)

LEMMA RowIsNet ==
  ASSUME NEW ds, AreDims(ds),
         NEW ov, NEW raws, Kept(ov, ds, raws), AreRaw(raws, ds),
         NEW raw, HaveLengths(raw, Header(ds), Int)
  PROVE  IsNetRow(NetRow(ov, ds, raws, raw), raw, Header(ds), raws)
  <1> DEFINE lens == Header(ds)
             val(p, i) == Len(raws) * raw[p][i] - Cells(ds[p], SumOf(ov, ds, p))[i]
             net == [p \in DOMAIN ds |-> [i \in Values(ds[p]) |-> val(p, i)]]
             total == FoldLeft(+, 0, lens)
  <1>1. /\ lens \in Seq(Nat) /\ Len(lens) = Len(ds)
        /\ Len(ds) \in Nat /\ DOMAIN ds = 1 .. Len(ds)
        /\ \A p \in 1 .. Len(ds) : /\ lens[p] \in Nat
                                   /\ Values(ds[p]) = 1 .. lens[p]
    <2>1. /\ lens \in Seq(Nat) /\ Len(lens) = Len(ds)
          /\ \A p \in 1 .. Len(ds) :
               lens[p] = ds[p].nbDevices * ds[p].nbChannels
      BY HeaderOfDims
    <2> HIDE DEF lens
    <2>2. \A p \in 1 .. Len(ds) : lens[p] \in Nat
      BY <2>1
    <2>3. Len(ds) \in Nat /\ DOMAIN ds = 1 .. Len(ds)
      BY DEF AreDims
    <2> QED
      BY <2>1, <2>2, <2>3 DEF Values
  <1>2. Len(raws) \in Nat
    BY LengthOfKept
  <1>3. \A p \in 1 .. Len(ds) : \A i \in Values(ds[p]) : val(p, i) \in Int
    <2> SUFFICES ASSUME NEW p \in 1 .. Len(ds), NEW i \in Values(ds[p])
                 PROVE  val(p, i) \in Int
      OBVIOUS
    <2>1. raw[p][i] \in Int
      BY RawValue
    <2>2. Cells(ds[p], SumOf(ov, ds, p))[i] \in Int
      BY CellsAreInt
    <2> QED
      BY <1>2, <2>1, <2>2
  <1> HIDE DEF lens, val
  <1>4. HaveLengths(net, lens, Int)
    <2>1. \A p \in 1 .. Len(ds) : net[p] \in Seq(Int) /\ Len(net[p]) = lens[p]
      <3> SUFFICES ASSUME NEW p \in 1 .. Len(ds)
                   PROVE  net[p] \in Seq(Int) /\ Len(net[p]) = lens[p]
        OBVIOUS
      <3>1. net[p] = [i \in 1 .. lens[p] |-> val(p, i)]
        BY <1>1
      <3>2. \A i \in 1 .. lens[p] : val(p, i) \in Int
        BY <1>1, <1>3
      <3> DEFINE m == lens[p]
                 s == [i \in 1 .. m |-> val(p, i)]
      <3> HIDE DEF net
      <3>3. m \in Nat
        BY <1>1
      <3> HIDE DEF m
      <3>4. s \in Seq(Int) /\ Len(s) = m
        BY <3>2, <3>3 DEF m
      <3> QED
        BY <3>1, <3>4 DEF m
    <2>2. net \in Seq(Seq(Int)) /\ Len(net) = Len(ds)
      <3> DEFINE W == Seq(Int)
      <3>1. \A p \in 1 .. Len(ds) : net[p] \in W
        BY <2>1
      <3>2. DOMAIN net = 1 .. Len(ds) /\ net = [p \in 1 .. Len(ds) |-> net[p]]
        BY <1>1
      <3> HIDE DEF net, W
      <3>3. net \in Seq(W) /\ Len(net) = Len(ds)
        BY <1>1, <3>1, <3>2
      <3> QED
        BY <3>3 DEF W
    <2> HIDE DEF net
    <2> QED
      BY <1>1, <2>1, <2>2 DEF HaveLengths
  <1>5. IsSum(total, lens)
    BY DEF IsSum
  <1> HIDE DEF total
  <1>6. PICK part, index : Placed(part, index, lens, Int, total)
    BY <1>1, <1>5, FlattenPlaces
  <1>7. HaveLengths(raw, lens, Int)
    BY DEF lens
  <1> DEFINE row == FlattenSeq(net)
  <1>8. ASSUME NEW j \in 1 .. total
        PROVE  row[j] = Len(raws) * FlattenSeq(raw)[j] - ColumnSum(raws, j)
    <2> DEFINE p == part[j]
               i == index[j]
    <2>1. p \in 1 .. Len(ds) /\ i \in Values(ds[p])
      BY <1>1, <1>6 DEF AreAt, Placed
    <2>2. row[j] = net[p][i] /\ FlattenSeq(raw)[j] = raw[p][i]
      BY <1>4, <1>6, <1>7 DEF Placed
    <2>3. InColumn(raws, p, i, j)
      BY <1>6 DEF AreRaw, lens, Placed, InColumn
    <2> HIDE DEF row, p, i
    <2>4. net[p][i] = val(p, i)
      BY <1>1, <2>1
    <2>5. ColumnSum(raws, j) = Cells(ds[p], SumOf(ov, ds, p))[i]
      BY <2>1, <2>3, ColumnOfCells
    <2> QED
      BY <2>2, <2>4, <2>5 DEF val
  <1>9. /\ Len(row) = total /\ Len(FlattenSeq(raw)) = total
        /\ DOMAIN FlattenSeq(raw) = 1 .. total
    BY <1>4, <1>6, <1>7 DEF Placed
  <1>10. NetRow(ov, ds, raws, raw) = row
    BY DEF NetRow, val
  <1> HIDE DEF row
  <1>11. IsNetRow(row, raw, Header(ds), raws)
    BY <1>5, <1>8, <1>9 DEF IsNetRow, lens
  <1> QED
    BY <1>10, <1>11

LEMMA DimensionsAre ==
  ASSUME LoaderInv
  PROVE  AreDims(dims)
  <1>1. Len(probes) \in Nat /\ DOMAIN dims = 1 .. Len(probes)
    BY DEF LoaderInv, dims
  <1> DEFINE S == {dims[p] : p \in DOMAIN dims}
  <1>2. dims = [p \in 1 .. Len(probes) |-> dims[p]]
    BY <1>1 DEF dims
  <1>3. \A p \in 1 .. Len(probes) : dims[p] \in S
    BY <1>1
  <1> HIDE DEF S
  <1>4. dims \in Seq(S)
    BY <1>1, <1>2, <1>3
  <1> QED
    BY <1>4, DimsAreNat DEF AreDims

\* A stop returns as many values as its probe has.
LEMMA NextIsRaw ==
  ASSUME LoaderInv, KeptInv, stage \in {"overhead", "measure"}
  PROVE  HaveLengths(NextRaw, Header(dims), Int)
  <1> DEFINE n == Len(stopped.overhead) + Len(stopped.results) + 1
             raw == Raw(n)
  <1>1. n \in Nat
    <2>1. /\ Len(stopped.overhead) \in Nat /\ Len(stopped.results) \in Nat
      <3>1. /\ Kept(overhead, dims, stopped.overhead)
            /\ Kept(results, dims, stopped.results)
        BY DEF KeptInv, WithVectors
      <3> QED
        BY <3>1, LengthOfKept
    <2>2. \A a, b \in Nat : a + b + 1 \in Nat
      OBVIOUS
    <2> QED
      BY <2>1, <2>2
  <1>2. AreDims(dims)
    BY DimensionsAre
  <1>4. /\ Header(dims) \in Seq(Nat) /\ Len(Header(dims)) = Len(dims)
        /\ \A p \in 1 .. Len(dims) :
             /\ Header(dims)[p] = dims[p].nbDevices * dims[p].nbChannels
             /\ Header(dims)[p] \in Nat
    BY <1>2, HeaderOfDims DEF AreDims, IsDim
  <1>5. DOMAIN dims = 1 .. Len(dims) /\ Len(dims) \in Nat
    BY <1>2 DEF AreDims
  <1> HIDE DEF n
  <1>6. \A p \in 1 .. Len(dims) :
          /\ raw[p] = [i \in 1 .. Header(dims)[p] |-> n * (10 * p + i)]
          /\ raw[p] \in Seq(Int) /\ Len(raw[p]) = Header(dims)[p]
    <2> SUFFICES ASSUME NEW p \in 1 .. Len(dims)
                 PROVE  /\ raw[p] = [i \in 1 .. Header(dims)[p] |->
                                       n * (10 * p + i)]
                        /\ raw[p] \in Seq(Int) /\ Len(raw[p]) = Header(dims)[p]
      OBVIOUS
    <2>1. raw[p] = [i \in 1 .. Header(dims)[p] |-> n * (10 * p + i)]
      BY <1>4, <1>5 DEF Raw
    <2>2. \A i \in 1 .. Header(dims)[p] : n * (10 * p + i) \in Int
      BY <1>1, <1>4
    <2> DEFINE m == Header(dims)[p]
               s == [i \in 1 .. m |-> n * (10 * p + i)]
    <2>3. m \in Nat
      BY <1>4
    <2> HIDE DEF raw, m
    <2>4. s \in Seq(Int) /\ Len(s) = m
      BY <2>2, <2>3 DEF m
    <2> QED
      BY <2>1, <2>4 DEF m
  <1>7. raw \in Seq(Seq(Int)) /\ Len(raw) = Len(dims)
    <2> DEFINE W == Seq(Int)
    <2>1. \A p \in 1 .. Len(dims) : raw[p] \in W
      BY <1>6
    <2>2. DOMAIN raw = 1 .. Len(dims) /\ raw = [p \in 1 .. Len(dims) |-> raw[p]]
      BY <1>5 DEF Raw
    <2> HIDE DEF raw, W
    <2>3. raw \in Seq(W) /\ Len(raw) = Len(dims)
      BY <1>5, <2>1, <2>2
    <2> QED
      BY <2>3 DEF W
  <1> HIDE DEF raw
  <1>8. HaveLengths(raw, Header(dims), Int)
    BY <1>4, <1>6, <1>7 DEF HaveLengths
  <1> QED
    BY <1>8 DEF raw, n, NextRaw

\* Before the file is written.
BeforeSave == (Parsing \cup {"create"} \cup WithVectors) \ {"destroy"}

FilesAreNet ==
  \A file \in DOMAIN output :
    /\ Len(output[file].rows) = Len(stopped.results)
    /\ \A i \in DOMAIN output[file].rows :
         IsNetRow(output[file].rows[i], stopped.results[i],
                  output[file].header, stopped.overhead)

LEMMA NetFilesHaveNetRows == FilesAreNet => RowsAreNet
  <1> SUFFICES ASSUME FilesAreNet
               PROVE  RowsAreNet
    OBVIOUS
  <1>1. \A total, seq : IsSum(total, seq) => total = FoldLeft(+, 0, seq)
    BY Zenon DEF IsSum
  <1>2. \A raws, j : ColumnSum(raws, j)
          = FoldLeft(LAMBDA sum, raw : sum + FlattenSeq(raw)[j], 0, raws)
    BY Zenon DEF ColumnSum
  <1>3. \A j : ColumnSum(stopped.overhead, j) = SumOfColumn(j)
    BY <1>2, Zenon DEF SumOfColumn
  <1> SUFFICES ASSUME NEW file \in DOMAIN output,
                      NEW i \in DOMAIN output[file].rows
               PROVE  /\ Len(output[file].rows[i])
                           = Len(FlattenSeq(stopped.results[i]))
                      /\ Len(FlattenSeq(stopped.results[i]))
                           = FoldLeft(+, 0, output[file].header)
                      /\ \A j \in DOMAIN FlattenSeq(stopped.results[i]) :
                           output[file].rows[i][j] =
                             Len(stopped.overhead)
                               * FlattenSeq(stopped.results[i])[j]
                               - SumOfColumn(j)
    BY Zenon DEF FilesAreNet, RowsAreNet
  <1>4. IsNetRow(output[file].rows[i], stopped.results[i],
                 output[file].header, stopped.overhead)
    BY DEF FilesAreNet
  <1>5. Len(FlattenSeq(stopped.results[i]))
          = FoldLeft(+, 0, output[file].header)
    BY <1>1, <1>4, Zenon DEF IsNetRow
  <1> QED
    BY <1>3, <1>4, <1>5, Zenon DEF IsNetRow

\* What the stops have returned is of the probes, and the file is written once.
NetInv ==
  /\ stopped = [overhead |-> stopped.overhead, results |-> stopped.results]
  /\ stage \in WithVectors =>
       AreRaw(stopped.overhead, dims) /\ AreRaw(stopped.results, dims)
  /\ stage \in BeforeSave => output = << >>
  /\ FilesAreNet

LEMMA AppendIsRaw ==
  ASSUME NEW res, NEW ds, NEW raws, Kept(res, ds, raws), AreRaw(raws, ds),
         NEW raw, HaveLengths(raw, Header(ds), Int)
  PROVE  AreRaw(Append(raws, raw), ds)
  <1> DEFINE n == Len(raws)
             more == Append(raws, raw)
  <1>1. PICK S : raws \in Seq(S)
    BY DEF Kept
  <1>2. raws \in Seq(S \cup {raw}) /\ raw \in S \cup {raw}
    BY <1>1, SeqMonotonic
  <1>3. /\ n \in Nat /\ Len(more) = n + 1
        /\ more[n + 1] = raw /\ \A k \in 1 .. n : more[k] = raws[k]
    BY <1>2
  <1> HIDE DEF more
  <1>4. \A k \in 1 .. n : HaveLengths(raws[k], Header(ds), Int)
    BY DEF AreRaw
  <1> HIDE DEF n
  <1>5. ASSUME NEW k \in 1 .. Len(more)
        PROVE  HaveLengths(more[k], Header(ds), Int)
    <2>1. CASE k = n + 1
      BY <1>3, <2>1
    <2>2. CASE k # n + 1
      <3>1. k \in 1 .. n
        BY <1>3, <2>2
      <3> QED
        BY <1>3, <1>4, <3>1
    <2> QED
      BY <2>1, <2>2
  <1>6. AreRaw(more, ds)
    BY <1>5 DEF AreRaw
  <1> QED
    BY <1>6 DEF more

\* What saveResults writes is net.
LEMMA SavedIsNet ==
  ASSUME Inv, KeptInv, NetInv, saveResults
  PROVE  FilesAreNet'
  <1> DEFINE written == Written(overhead, results, dims)
             raws == stopped.overhead
  <1>1. /\ stage = "save" /\ stopped' = stopped
        /\ output' = [file \in {options.outputFile} |-> written]
    BY DEF saveResults, To
  <1>2. /\ Kept(overhead, dims, raws) /\ AreRaw(raws, dims)
        /\ AreRaw(stopped.results, dims)
    BY <1>1 DEF KeptInv, NetInv, WithVectors
  <1>3. AreDims(dims)
    BY DimensionsAre DEF Inv
  <1>4. \A file \in DOMAIN output' :
          /\ output'[file].rows = [i \in 1 .. Len(stopped.results) |->
                                     RowFor(stopped.results[i])]
          /\ Len(output'[file].rows) = Len(stopped.results)
    BY SavedInOrder
  <1>5. \A file \in DOMAIN output' : output'[file].header = Header(dims)
    <2>1. written.header = Header(dims)
      BY DEF Written
    <2> HIDE DEF written
    <2> QED
      BY <1>1, <2>1
  <1>6. ASSUME NEW i \in 1 .. Len(stopped.results)
        PROVE  IsNetRow(RowFor(stopped.results[i]), stopped.results[i],
                        Header(dims), raws)
    <2>1. HaveLengths(stopped.results[i], Header(dims), Int)
      BY <1>2 DEF AreRaw
    <2>2. RowFor(stopped.results[i])
            = NetRow(overhead, dims, raws, stopped.results[i])
      BY DEF RowFor, NetRow
    <2> QED
      BY <1>2, <1>3, <2>1, <2>2, RowIsNet
  <1>7. ASSUME NEW file \in DOMAIN output',
               NEW i \in DOMAIN output'[file].rows
        PROVE  IsNetRow(output'[file].rows[i], stopped.results[i],
                        output'[file].header, raws)
    <2>1. /\ i \in 1 .. Len(stopped.results)
          /\ output'[file].rows[i] = RowFor(stopped.results[i])
      BY <1>4
    <2> QED
      BY <1>5, <1>6, <2>1
  <1> QED
    BY <1>1, <1>4, <1>7 DEF FilesAreNet

LEMMA NetInvStep == Inv /\ KeptInv /\ NetInv /\ [Next]_vars => NetInv'
  <1> SUFFICES ASSUME Inv, KeptInv, NetInv, [Next]_vars
               PROVE  NetInv'
    OBVIOUS
  <1>1. ASSUME probes' = probes
        PROVE  dims' = dims
    BY <1>1 DEF dims, nbDevices, nbChannels
  <1>2. ASSUME output' = << >>
        PROVE  FilesAreNet'
    BY <1>2 DEF FilesAreNet
  <1>3. ASSUME output' = output, stopped' = stopped
        PROVE  FilesAreNet'
    BY <1>3 DEF NetInv, FilesAreNet
  <1> USE DEF To, ExperimentVars, LoaderVars, Parsing, WithVectors, BeforeSave
  <1>4. CASE CreateResults
    <2>1. /\ stage = "create" /\ stage' \in BeforeSave
          /\ UNCHANGED << stopped, output, probes >>
      BY <1>4 DEF CreateResults
    <2>2. stopped.overhead = << >> /\ stopped.results = << >>
      BY <2>1 DEF KeptInv
    <2>3. AreRaw(<< >>, dims')
      BY DEF AreRaw
    <2>4. AreRaw(stopped'.overhead, dims') /\ AreRaw(stopped'.results, dims')
      BY <2>1, <2>2, <2>3
    <2>5. output = << >>
      BY <2>1 DEF NetInv
    <2>6. FilesAreNet'
      BY <1>3, <2>1
    <2> QED
      BY <2>1, <2>4, <2>5, <2>6 DEF NetInv
  <1>5. CASE MeasureOverhead \/ Measure
    <2> DEFINE raw == NextRaw
    <2>1. /\ stage \in {"overhead", "measure"} /\ stage' = stage
          /\ output' = output /\ probes' = probes
      BY <1>5 DEF MeasureOverhead, Measure
    <2>2. HaveLengths(raw, Header(dims), Int)
      BY <2>1, NextIsRaw DEF Inv
    <2>3. \/ stopped' = [stopped EXCEPT !.overhead = Append(stopped.overhead, raw)]
          \/ stopped' = [stopped EXCEPT !.results = Append(stopped.results, raw)]
      BY <1>5 DEF MeasureOverhead, Measure
    <2> HIDE DEF raw
    <2>4. /\ stopped'.overhead \in {stopped.overhead, Append(stopped.overhead, raw)}
          /\ stopped'.results \in {stopped.results, Append(stopped.results, raw)}
      <3>1. stopped = [overhead |-> stopped.overhead, results |-> stopped.results]
        BY DEF NetInv
      <3> QED
        BY <2>3, <3>1
    <2>5. /\ AreRaw(stopped.overhead, dims) /\ AreRaw(stopped.results, dims)
          /\ Kept(overhead, dims, stopped.overhead)
          /\ Kept(results, dims, stopped.results)
          /\ output = << >>
      BY <2>1 DEF KeptInv, NetInv
    <2>6. /\ AreRaw(Append(stopped.overhead, raw), dims)
          /\ AreRaw(Append(stopped.results, raw), dims)
      BY <2>2, <2>5, AppendIsRaw
    <2>7. AreRaw(stopped'.overhead, dims') /\ AreRaw(stopped'.results, dims')
      BY <1>1, <2>1, <2>4, <2>5, <2>6
    <2>8. stopped' = [overhead |-> stopped'.overhead,
                      results |-> stopped'.results]
      <3>1. stopped = [overhead |-> stopped.overhead, results |-> stopped.results]
        BY DEF NetInv
      <3> QED
        BY <2>3, <3>1
    <2>9. FilesAreNet'
      BY <1>2, <2>1, <2>5
    <2> QED
      BY <2>1, <2>5, <2>7, <2>8, <2>9 DEF NetInv
  <1>6. CASE saveResults
    <2>1. /\ stage = "save" /\ stage' = "destroy"
          /\ UNCHANGED << stopped, probes >>
      BY <1>6 DEF saveResults
    <2>2. /\ AreRaw(stopped.overhead, dims) /\ AreRaw(stopped.results, dims)
          /\ dims' = dims
      BY <1>1, <2>1 DEF NetInv
    <2>3. FilesAreNet'
      BY <1>6, SavedIsNet
    <2> QED
      BY <2>1, <2>2, <2>3 DEF NetInv
  <1> DEFINE Same == UNCHANGED << stopped, output >>
  <1>7. ASSUME Same, stage' \in WithVectors => stage \in WithVectors /\ probes' = probes,
               stage' \in BeforeSave => stage \in BeforeSave
        PROVE  NetInv'
    <2>1. FilesAreNet'
      BY <1>3, <1>7
    <2>2. stage' \in BeforeSave => output' = << >>
      BY <1>7 DEF NetInv
    <2>3. stage' \in WithVectors =>
            AreRaw(stopped'.overhead, dims') /\ AreRaw(stopped'.results, dims')
      BY <1>1, <1>7 DEF NetInv
    <2>4. stopped' = [overhead |-> stopped'.overhead,
                      results |-> stopped'.results]
      <3>1. stopped = [overhead |-> stopped.overhead, results |-> stopped.results]
        BY DEF NetInv
      <3> QED
        BY <1>7, <3>1
    <2> QED
      BY <2>1, <2>2, <2>3, <2>4 DEF NetInv
  <1>8. CASE ParseOptions
    <2>1. Same /\ stage \in Parsing /\ stage' \in Parsing \cup {"create"}
      BY <1>8
         DEF ParseOptions, OptionsNext, Number, Pinning, ProbesPath, Output,
             Option, Unreadable, HelpOrVersion, usage, version, Program,
             setDefaultValues, hasMissingOptions
    <2> QED
      BY <1>7, <2>1
  <1>9. CASE LoadProbes
    <2>1. Same /\ stage = "create" /\ stage' = stage
      BY <1>9 DEF LoadProbes, OptionVars
    <2> QED
      BY <1>7, <2>1
  <1>10. CASE Crash \/ NoProbes \/ NoMemory \/ DeleteExperiment \/ Return
    <2>1. Same /\ stage' \in {"aborted", "returned", "delete"}
      BY <1>10
         DEF Crash, NoProbes, NoMemory, DeleteExperiment, Return, OptionVars
    <2> QED
      BY <1>7, <2>1
  <1>11. CASE KernelExperiment
    <2>1. /\ Same /\ probes' = probes
          /\ stage \in {"compile", "load", "memory"}
      BY <1>11
         DEF KernelExperiment, Compile, NoTemporaryFile, LoadFunctions,
             LoadFails, EntryPointMissing, AllocateMemory, NoKernelMemory
    <2> QED
      BY <1>7, <2>1
  <1>12. CASE CreateLock \/ CreateLockFails
    <2>1. Same /\ probes' = probes /\ stage = "runner"
      BY <1>12 DEF CreateLock, CreateLockFails
    <2> QED
      BY <1>7, <2>1
  <1>13. CASE DestroyRunner
    <2>1. Same /\ stage' = "delete"
      BY <1>13 DEF DestroyRunner
    <2> QED
      BY <1>7, <2>1
  <1>14. CASE CreateThread \/ CreateThreadFails \/ AllCreated
              \/ OverheadDone \/ MeasurementsDone
    <2>1. /\ Same /\ probes' = probes
          /\ stage \in {"start", "overhead", "measure"}
      BY <1>14
         DEF CreateThread, CreateThreadFails, AllCreated, OverheadDone,
             MeasurementsDone
    <2> QED
      BY <1>7, <2>1
  <1>15. CASE UNCHANGED vars
    BY <1>7, <1>15 DEF vars, OptionVars
  <1> QED
    BY <1>4, <1>5, <1>6, <1>8, <1>9, <1>10, <1>11, <1>12, <1>13, <1>14, <1>15
       DEF Next

\* For all probes, dimensions and numbers of measurements: the file has a row
\* for every measurement, in their order, with a column for every value that
\* the stops returned, and that value less the mean over the overhead of the
\* same value. The header has as many columns.
THEOREM NetOfOverhead == Spec => []RowsAreNet
  <1>1. Init => KeptInv /\ NetInv
    <2>1. Init => KeptInv
      BY DEF Init, OptionsInit, KeptInv, WrittenInOrder, Parsing, WithVectors
    <2>2. Init => NetInv
      BY DEF Init, OptionsInit, NetInv, FilesAreNet, Parsing, WithVectors
    <2> QED
      BY <2>1, <2>2
  <1>2. NetInv => RowsAreNet
    BY NetFilesHaveNetRows DEF NetInv
  <1> QED
    BY <1>1, <1>2, KeptInvStep, NetInvStep, InductiveInvariant, PTL DEF Spec
=============================================================================
