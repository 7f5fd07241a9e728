------------------------------ MODULE Options ------------------------------
(***************************************************************************)
(* The command line: main hands every option that getopt_long finds to     *)
(* Options, then the name of the program, lets Options set the defaults,   *)
(* drop what the mode has no use for, and tell whether something is        *)
(* missing.                                                                *)
(*                                                                         *)
(* An option may come several times: a number replaces the earlier one,    *)
(* lists grow. What getopt_long does not know is ignored. The messages are *)
(* left out.                                                               *)
(***************************************************************************)
EXTENDS Integers, Sequences, SequencesExt

CONSTANTS
  Numbers,     \* the numbers that stand on the command line
  Pinnings,    \* what stands behind -p: sequences of cores
  ProbesPaths, \* what stands behind -l: sequences of libraries
  Programs,    \* what stands behind the options: sequences of arguments,
               \* each a sequence of words without blanks
  MaxOptions   \* bound on the options given

ASSUME OptionsAssumption ==
  /\ Numbers \subseteq Nat /\ MaxOptions \in Nat
  /\ \A pinning \in Pinnings : pinning \in Seq(Nat)

DEFAULT_NUMBER_PROCESS == 1
DEFAULT_NUMBER_REPET == 5
DEFAULT_NUMBER_KERNELITER == 1000
DEFAULT_OUTPUT_FILE == "output.csv"

VARIABLES
  stage,    \* what main is doing
  given,    \* how many options it has read
  options   \* the members of Options

OptionVars == << stage, given, options >>

OptionStages == {"getopt", "defaults", "check", "create"}
Exits == {"usage", "version"}    \* exit(EXIT_SUCCESS)

\* The members before an option is read.
Unset ==
  [nbProcess |-> 0, nbRepet |-> 0, iterationMemorySize |-> 0,
   nbKernelIteration |-> 0, pinning |-> << >>, probesPath |-> << >>,
   execName |-> "", args |-> << >>, outputFile |-> ""]

OptionsInit == stage = "getopt" /\ given = 0 /\ options = Unset

\* They print, and lPowerProbe ends: usage itself, version as -v.
usage == stage' = "usage"
version == stage' = "version"

To(from, to) ==
  /\ stage = from /\ stage' = to
  /\ UNCHANGED << given, options >>

-----------------------------------------------------------------------------
(* Options' setters.                                                       *)

setNbProcess(opts, n) == [opts EXCEPT !.nbProcess = n]
setNbRepetition(opts, n) == [opts EXCEPT !.nbRepet = n]
setIterationMemorySize(opts, n) == [opts EXCEPT !.iterationMemorySize = n]
setNbKernelIteration(opts, n) == [opts EXCEPT !.nbKernelIteration = n]
setOutputFile(opts, file) == [opts EXCEPT !.outputFile = file]

\* The cores and libraries come behind those of an earlier option.
setPinning(opts, cores) == [opts EXCEPT !.pinning = @ \o cores]
setProbesPath(opts, path) == [opts EXCEPT !.probesPath = @ \o path]

\* An argument of blanks only sets no name.
setExecName(opts, words) ==
  IF words = << >> THEN opts
  ELSE [opts EXCEPT
         !.execName = Head(words),
         !.args = @ \o [i \in 1 .. Len(words) - 1 |-> << words[i + 1] >>]]

\* addArg, for each of the arguments in turn.
addArgs(opts, arguments) == [opts EXCEPT !.args = @ \o arguments]

-----------------------------------------------------------------------------
(* The loop of main over the options.                                      *)

Option(opts) ==
  /\ stage = "getopt" /\ given < MaxOptions
  /\ given' = given + 1
  /\ options' = opts
  /\ UNCHANGED stage

\* What from_string can read.
Number ==
  \E n \in Numbers :
    \/ Option(setNbRepetition(options, n))
    \/ Option(setNbProcess(options, n))
    \/ Option(setIterationMemorySize(options, n))
    \/ Option(setNbKernelIteration(options, n))
Pinning == \E cores \in Pinnings : Option(setPinning(options, cores))
ProbesPath == \E path \in ProbesPaths : Option(setProbesPath(options, path))
Output == Option(setOutputFile(options, "results.csv"))

\* A number or a list of cores that cannot be read ("2x" is 2, and "-1" the
\* greatest number): usage ends lPowerProbe.
Unreadable ==
  /\ stage = "getopt" /\ given < MaxOptions
  /\ usage /\ given' = given + 1
  /\ UNCHANGED options

HelpOrVersion ==
  /\ stage = "getopt" /\ given < MaxOptions
  /\ usage \/ version
  /\ UNCHANGED << given, options >>

\* What is left is the program and its arguments. Whatever isFileExecutable
\* finds, main goes on.
Program(arguments) ==
  /\ stage = "getopt" /\ stage' = "defaults"
  /\ options' =
       IF arguments = << >> THEN options
       ELSE addArgs(setExecName(options, Head(arguments)), Tail(arguments))
  /\ UNCHANGED given

-----------------------------------------------------------------------------
(* Defaults and checks.                                                    *)

isDaemon == options.execName = ""
isExecKernel == options.execName = "kernel.s"

Default(value, unset, default) == IF value = unset THEN default ELSE value

\* As if 0 repetitions were a value like any other.
setSomeDefaults ==
  /\ stage = "defaults" /\ stage' = "check"
  /\ options' = [options EXCEPT
       !.nbProcess = Default(@, 0, DEFAULT_NUMBER_PROCESS)]
  /\ UNCHANGED given

\* The iterations get their default when the memory size is not set.
setDefaultValues ==
  /\ stage = "defaults" /\ stage' = "check"
  /\ options' = [options EXCEPT
       !.nbProcess = Default(@, 0, DEFAULT_NUMBER_PROCESS),
       !.nbRepet = Default(@, 0, DEFAULT_NUMBER_REPET),
       !.nbKernelIteration =
          IF isExecKernel /\ options.iterationMemorySize = 0
            THEN DEFAULT_NUMBER_KERNELITER ELSE @,
       !.outputFile = Default(@, "", DEFAULT_OUTPUT_FILE)]
  /\ UNCHANGED given

\* What a mode has no use for is reset.
Ignored ==
  IF isDaemon
    THEN [options EXCEPT !.iterationMemorySize = 0, !.nbKernelIteration = 0,
                         !.nbProcess = 1,
                         !.nbRepet = IF @ > 1 THEN 1 ELSE @]
  ELSE IF isExecKernel THEN options
  ELSE [options EXCEPT !.iterationMemorySize = 0, !.nbKernelIteration = 0]

\* As if a pinning that is too short were completed.
NothingMissing(opts) == opts.nbProcess = 1 \/ Len(opts.pinning) # 0

EnoughPinned(opts) ==
  opts.nbProcess = 1 \/ (Len(opts.pinning) # 0
                         /\ Len(opts.pinning) = opts.nbProcess)

hasMissingOptions ==
  /\ stage = "check"
  /\ options' = Ignored
  /\ IF EnoughPinned(Ignored) THEN stage' = "create" ELSE usage
  /\ UNCHANGED given

OptionsNext ==
  \/ Number \/ Pinning \/ ProbesPath \/ Output \/ Unreadable \/ HelpOrVersion
  \/ \E arguments \in Programs : Program(arguments)
  \/ setDefaultValues \/ hasMissingOptions
=============================================================================
