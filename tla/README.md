# A verification development for lPowerProbe

lPowerProbe measures how much energy (or time, or any counter a *probe* reads)
a program, a generated kernel or an MPI job takes. It runs the measured code in
several synchronised copies, starts and stops the probes around it, repeats the
measurement, and subtracts an overhead measured the same way. Most of its
difficulty is in the synchronisation: threads and forked processes that meet at
shared semaphores, a daemon driven by signals, a background thread that updates
the probes, and probes that talk to servers or to threads of their own.

This directory holds TLA+ modules translated from that code, TLC
configurations that check them on small instances, and TLAPS proofs for every
value of the constants. `PROJECT.json` has the machine-readable side: the lines
of code each definition stands for (`map`), the runs, the mutants that show that
each property can fail, the hazards and the findings. Paths below are relative
to the repository (`src/` holds its main program, `probes/` its probes).

To run: `tlc -config X.cfg M` for a run, `tlapm M.tla` for a proof module.

## 1. The system

### Inventory

| Component | State it keeps | Operations | Hard behaviours |
|---|---|---|---|
| Options and `main` | the members of `Options` | one setter per option, `setDefaultValues`, `hasMissingOptions`, the choice of the experiment | options repeated and in any order, defaults that depend on each other, exceptions nobody catches |
| Probes and their loading (`Probe`, `ProbeV1`, `ProbeV2`, `ProbeLoader`) | library handle, symbols, `is_initialized` | load as version 2, then 1; `init`, `start`, `stop`, `update`, `fini` | a constructor that fails half way, facultative symbols |
| Results and writer | vectors of measurements, their number | `stop` stores and `extend`s; `write` subtracts the mean overhead | growth, a mean of nothing, the order of devices and channels |
| Program experiments (`ProgramExperimentation`, `ProgramRunner`, `Runner`) | threads, one forked child per thread and round, semaphores `m_fatherLock`, `m_processLock`, `m_processEndLock` | create and join threads, `start`, `evaluation`, `processFather`, `processChild`, save | two uses of one semaphore, rounds that overlap, fork or exec that fails, a killed child |
| Kernel experiments (`KernelExperimentation`, `KernelRunner`, `KernelCompiler`, `Kernel`) | threads, a coordinator process (`syncLoop`), the same semaphores, buffers | compile, load, `start`, `evaluation`, `flushCaches`, `syncLoop`, the final `kill` | the coordinator may still be at work when it is killed; sizes that wrap or were never written |
| Daemon mode (`DaemonExperimentation`, `DaemonRunner`) | `end`, the pid file, the signal handlers | install handlers, publish the pid, loop of `pause`, start/stop/cancel, save, remove | signals at any point, merged while pending, lost when not in `pause` |
| MPI scripts and preload library (`scripts/`) | the arguments, the job's processes, `lpp_pid` | start daemons, make runs, read the pid file, send `SIGUSR1` and `SIGTERM`, wait for the daemon, move its output | stale, empty or missing pid file, a daemon that is not ready, runs that fail, a wait without a limit |
| `ProbeDataCollector` | `m_threadRunning`, `m_threadCollecting`, condition, update thread, period | `start`, `stop`, `cancel`, destructor, `updateThread` | a flag and a condition used without the mutex, update while a probe is started or stopped |
| Energy server and its client (`probes/libenergyserver`) | a shared segment with two semaphores and a value; the server's reference energy | server: init, serve, stop; client: init, start, stop, fini | shared answers, timeouts, a second server, killed clients |
| ARM timer (`probes/libtimerarm`) | one thread per core, a home-made barrier, cycle counts | init, start, stop, fini | barrier without a loop around its condition, reuse at once, a counter that wraps |
| MSR energy (`probes/libenergymsr`) | sockets, reference and last value, overflow count | init, start, stop, update | two threads without a lock, 32-bit wrap-around, reads that fail |
| Performance counters (`probes/pfmcounters`) | counters per core and name, their values | parse the ini file, init, start, stop, fini | sharing of counters, wrap-around, continuation lines |
| Yokogawa meter (`probes/libenergyyoko`) | the connection, `last_e` | connect, set up, request and answer, start, stop | reads that fail with the answer still to come, texts that are not numbers |
| Simple probes (`libtimer`, `libwallclock`, `libenergymic`) | a time; a mean and its thread | start, stop | a clock that is set, a counter that wraps, cancellation |
| CPU pinning and priorities (`CPUUtils`) | none | `pinCPU`, `setFifoMaxPriority` | the index into the list of cores |

Interactions: an experiment owns one runner, one `ProbeDataCollector` and its
results; thread 0 of a runner calls the collector's `start` and `stop` from
inside the synchronised region; the collector calls the probes, from two
threads if a probe has a period; the scripts reach the daemon only through the
pid file and signals; a client probe reaches its server only through shared
memory. `src/Datas`, `src/Experimentation` and `src/Probes` hold older copies
that the makefile does not build.

### What makes each component correct

* *Options and main*: in every mode there is room for the measurements and a
  mean to subtract, every thread finds its core in the list, `init` and `fini`
  come in pairs, no function is called that a library lacks.
* *Results*: a row per measurement, a column per value, less the mean of the
  same value.
* *Program experiments*: all copies start together, the measurement is open
  from before the first start until after the last end, rounds do not mix, every
  measurement is kept, the program ends on every path.
* *Kernel experiments*: kernels start together, rounds do not mix, every
  measurement is made before the coordinator is told to end, the program ends.
* *Daemon*: each measurement kept has its own two signals, the pid is public
  only while signals are handled, no end loses results, one `SIGTERM` ends it.
* *MPI scripts*: every run that finds the daemon's pid and does not fail is one
  measurement, and the output is moved when it is complete.
* *Collector*: no probe is touched after its deletion, the destructor ends, a
  probe with a period is updated with that period.
* *Energy server*: no answer without a request, a measurement holds all of its
  own energy and no other, requests are answered, a stop stops.
* *ARM timer*: all threads are in the measurement or none is, the result is that
  of the measurement just made, no cycle is lost at a wrap, calls return.
* *The other probes*: the result is what happened between start and stop.

## 2. The modules

| Module | Models | How it corresponds |
|---|---|---|
| `SynchronizedRuns` | the promise of an experiment | abstract: copies, rounds, an open or closed measurement; no threads, no semaphores |
| `ProgramRunner` | `ProgramExperimentation.cpp`, `ProgramRunner.cpp`, `Runner.cpp` | `pc[t]` is the point of thread *t*, `round[t]` its iteration over both programs, `child[t]` its child; the three locks are the semaphores' values; an action is the code between two blocking points. It ends with the refinement mapping to `SynchronizedRuns` |
| `ProgramRunnerInv` | - | the inductive invariant, by parts |
| `ProgramRunner_proofs` | - | the proofs, of the invariant first and then of the refinement |
| `KernelRunner` | `KernelExperimentation.cpp`, `KernelRunner.cpp` | as above with the coordinator `sync` instead of children; `Killed` is the delivery of the `SIGTERM` |
| `KernelRunner_proofs` | - | its inductive invariant and the proofs |
| `DaemonRunner` | `DaemonExperimentation.cpp`, `DaemonRunner.cpp` | `pc` is the daemon's point, `handled` the installed handlers, `pending` the signals sent and not delivered, `pidFile` the file, `known` whether somebody has read it |
| `MpiSession` (command lines in `MCMpiSession`) | `mpirunLPP.sh`, `preloader.sh`, `liblppMPInotifier.c`, `lppMPIkiller.sh` on one node, around `DaemonRunner` | `script` is the line of `mpirunLPP.sh`, `rank[p]` the point of the process with local rank *p*, `killer` that of the other script; the argument loops are folds over the command line. Its `sender` is either these scripts or anyone with the pid |
| `MpiSession_proofs`, `ProbeDataCollector_proofs` | - | the proofs, the first for `DaemonRunner` too |
| `Options` | `Options.cpp`, the option loop of `main.cpp` | `options` has the members, an action per setter; then the defaults and the checks |
| `Kernels` | `KernelCompiler.cpp`, `Kernel.cpp`, the constructor of `KernelRunner` | temporary files, looked-up functions and buffer sizes (a product modulo `Width`) |
| `ProbeLoader` | `ProbeLoader.cpp`, `Probe*.cpp` | a library is the set of its symbols and what they give; the constructor of each version accepts it or throws |
| `ExperimentationResults` | `ExperimentationResults.cpp`, `RunData.cpp`, `ProbeData.cpp`, the writer | operators only: vectors are sequences, matrices functions |
| `LppMain` (libraries and command lines in `MCLppMain`) | `main.cpp`, `Experimentation.cpp`, the factory, `Runner`'s memory, pinning; composes the four modules above | `stage` is where `main` is; an experiment is the sequence of its measurements |
| `LppMain_proofs` | - | an invariant with a part for each of the composed modules, and the proofs |
| `ProbeDataCollector` (with lists of periods in `MCProbeDataCollector`) | `ProbeDataCollector.cpp`, the order of destruction in `Experimentation.cpp` | `owner` is the call the owner is in, `pc` the update thread's point, `elapsed` its `elapsedTime` modulo a common multiple of the periods |
| `EnergyServer` | `libenergyserver.c`, `server/energyserver.c` | segments are numbered so that an old one and its successor are different; each has two semaphores and a value; each client is a record with its point and the segment it has mapped |
| `EnergyServer_proofs` | - | its inductive invariant and the proofs |
| `TimerArm` | `timer.c`, `threadFct.c`, `barrier.c` | threads and owner are parties of one barrier, with its counter; `init` with each of its failures |
| `CycleCounter` | the loop of `threadFct.c` on one core | the counter and its flag (external) against the cycles that have passed |
| `EnergyMsr` | `libenergymsr.c` | the measuring thread and the collector's thread, each socket by socket; a step is one access to what the two share, so that `lastE` and `ovfCnt` can be read or written with a step of the other thread in between |
| `PfmCounters` | `pfmcounters.c` and how it uses the parser of `ini.c` | the file line by line, then the counters of cores and names; products above `Exact` are rounded |
| `EnergyMic` | `mic_energy.c` | owner and sampling thread; a step per cancellation point |
| `Clocks` | `libwallclock.c`, `libtimer/timer.c` | two clocks and the difference of two readings |
| `Yoko` | `libenergyyoko.c`, `yokosrv.c` | the serial line as a sequence of answers, the meter (external) at its other end, numbers as the characters the parser loops over |
| `MCProbes` | - | composes the last six and `TimerArm` for one run; nothing connects them |
| `Probes_proofs` | - | an inductive invariant for each of these seven, and the proofs |
| `FoldTheorems` | - | what the folds of the community modules compute, for the proofs about loops over sequences |

Conventions. A step is the code between two points where other actors can see
or change something. A definition named `...Always`, `...OneLess`, `...Not`,
`...ForEver`, `...AtOnce` and the like, or commented "As if", next to a definition
with the same beginning is a mutated form of it, used only to show that a property can
fail. A few variables and record fields are not in the code and only remember what a
property has to speak about: `usr1`, `term` and `kept` in `DaemonRunner`; `late`,
`ready`, `due`, `finished`, `notified` and `runs` in `MpiSession`; `early`, `orphans`, `asleep` and the clients'
`alone`, `prompt`, `low` and `high` in `EnergyServer`; `early` in `TimerArm`; `true`,
`total` and `blurred` in `EnergyMsr`; `began`, `spoiled` and `rounded` in `PfmCounters`; `samples` in
`EnergyMic`; `since` in `Clocks`; `span`, `reported` and the counts in `Yoko`;
`elapsed`, `missed`, `wraps` and `unsure` in `CycleCounter`; `inits`, `finis`,
`opened` and `stopped` in `LppMain`. `exit` is one step that ends all
threads of the process; children and the coordinator outlive it.

Choices worth knowing:

* `sem_wait` is never interrupted: no handled signal reaches the threads that
  wait (only the daemon installs handlers, and it has no such threads).
* `SIGINT` has the handler and the effect of `SIGTERM` and is the same signal here.
* A signal that is pending and sent again is one signal. A pending signal is
  delivered, to a handler or to the default that kills, before the daemon's next step.
* A child that is killed makes lPowerProbe exit at once (`ProgramRunner.cpp:205`);
  one whose `execvp` fails ends at once with success, as in the code.
* `pthread_cond_wait` may return without a signal, as POSIX says. That is an
  action without fairness in `ProbeDataCollector` and `TimerArm`.
* Energy is counted in units. A measurement is a sum over units, so one unit
  shows wherever a unit can be lost or counted for the wrong client.
* Doubles are integers: the mean of `EnergyMic` and of the overhead is kept as a
  sum and a number of terms; constant factors (joules per unit) are left out; so is
  that the tick count of `libtimer` loses its lowest digits above 2^53. In
  `PfmCounters` the products that `start` and `stop` cut off to integers are rounded
  (`Inexact`, `Scaled`), and the constant 2^64 - 1, in a sum of doubles, is 2^64
  (`Difference`).
* A failure that needs an argument the code never passes is left out: another error of
  the energy server's `sem_timedwait` than the end of the period or a signal
  (`energyserver.c:176`), after which it would read and answer unasked.
* A power file without a third number is a power of 0 (`Powers` of `EnergyMic`).
* What a build leaves undefined is a choice: the size of the overhead buffer,
  memory from `malloc`, a register that could not be read.
* `mpirun`, `gcc`, the dynamic linker, `getopt_long`, the kernel's counters and
  the power meter are external: each may do whatever its callers in the code allow for.
  `mpirun` ends the other processes of a run when one fails.
* In `MpiSession` a run may fail until its processes are in `MPI_Finalize`.

## 3. The runs

| Run | Bounds | Shows |
|---|---|---|
| `program_runner` | 4 threads, 2 measurements of each program | `StartTogether`, `MeasurementCoversRuns`, `IterationBarrier`, `CleanFinish`, `Terminates` on every schedule, with forks that fail and copies that are killed; `Refinement` of `SynchronizedRuns` |
| `kernel_runner` | 3 threads, 2 measurements | `StartTogether`, `RoundBarrier`, `NoStaleToken`, `KilledAfterLastKernel`, and `AllMeasured`: unless lPowerProbe gives up, thread 0 comes to the end of the last measurement |
| `kernel_join` | 2 threads, 1 measurement | `Terminates` **fails**: the coordinator is killed before it has let all threads out |
| `daemon` | 7 signals from anyone; or the scripts with 3 runs of 3 processes and 7 command lines | `KeptBySignals`, `PidMeansHandled`, `ResultsSaved`; as long as no signal comes late, `OneMeasurementEachRun` (the measurements are the runs that notify the daemon) and `MovedIsComplete` (what is moved has every run that began when the pid was in the file and did not fail, and no other); `TermEndsDaemon`: a `SIGTERM` that comes where `end` will still be looked at ends the daemon |
| `daemon_term` | 2 signals | `TermAlwaysEnds` **fails**: a `SIGTERM` just before `pause` |
| `collector` | periods 0, 4, 6 | `NoUseAfterDelete`, `DestructorEnds` (unless the thread is about to wait for the condition), `UpdatedPeriodically` |
| `collector_destroy` | periods 0, 4, 6 | `DestructorAlwaysEnds` **fails**: the lost wake-up |
| `collector_update` | periods 0, 20, 30 | `UpdatedPeriodically` **fails**: the test for a due probe never holds |
| `energy_server` | 2 clients, 1 measurement each, 2 events (servers started and units of energy) | `NoAnswerUnasked`, `MeasuresOwn`, `RequestAnswered`, `StopEnds`, with clients and servers killed at any point |
| `energy_start` | 1 client, 1 measurement, 2 events | `MeasuresAll` **fails**: energy between the answer to `start` and the new reference |
| `probes` | `MCProbes.cfg` names them | `OwnEnergy`, `NoDoubleCount`, `RequestReturns` (Yoko); `ExactEnergy` (MSR); `CountsEvents` (pfm); `OwnMean` (mic); `ElapsedTime` (clocks); `CyclesAccounted`, `ResultIsOwn`, `CallsReturn`, and `InStep` as long as there has been no spurious wake-up (ARM) |
| `lpp_main` | 3 options of a few values, 6 libraries, 4 programs, 3 measurements of a daemon | `PinnedWithinList`, `LeavesNothing`, `NoMissingFunction`, `RoomAndMean`, `RowsAreNet` |

The largest runs are `probes` (some 969,000 states), `lpp_main` (245,000) and
`daemon` (217,000). No run checks the type invariants (`TypeOK`, `SessionTypeOK`,
`LppTypeOK`, `YokoTypeOK`, `TimerTypeOK`), which say little beside these properties;
they hold with the constants of the runs, and the inductive invariants of section 4
contain the types of every module that is proved about.

What the properties of the probes exclude is as telling as what they say. A result
is not promised when: a read of the meter has failed (`OwnEnergy`; `NoDoubleCount`
still holds); `update` is in the middle of a socket while `start`, `stop` or the sum of
`stop` is too, a read of `start` or `stop` failed, or no read fell into a wrap
(`blurred` in `EnergyMsr`; an update of the socket that lies between two of them, or
between the two loops of `stop`, is covered); a counter was shared or could
not be read (`spoiled` in `PfmCounters`; if a product was rounded, `rounded`, the
result may be wrong by one, and then a counter that saw nothing has wrapped); the sampling thread was cancelled before its
first sample (`EnergyMic`); the clock was set (`Clocks`); or the flag was set when
the measurement began (`unsure` in `CycleCounter`).

### Why these bounds

* *Four threads* let two threads be at different points of leaving a round while
  a third already lines up for the next and thread 0 is still posting. *Two
  measurements* of each of *two* programs cross a round border inside a program and
  between the programs. The proofs then hold for all numbers.
* *Three threads* in `kernel_runner` are one that is fast, one that is slow and
  thread 0; the coordinator is a fourth actor. Two threads are enough for
  `kernel_join`.
* *Seven signals* make three measurements, one that is cut short, and a last
  `SIGTERM`; and are what three runs (six) and the killer (one) send. Three
  runs are one before, one that fails and one after. *Three processes* are local rank 0
  and two that reach the barrier in either order. The proofs hold for any numbers.
* *Command lines*: no named node, this one, the other one, an unknown option, no
  program, and arguments of the program that look like options of `mpirun`.
* *Periods* 0, 4, 6 are a probe without updates and two whose common divisor (2)
  is below the tolerance of 5 microseconds; 0, 20, 30 have the divisor 10. What
  matters is on which side of 5 the divisor is; the repository's probes have
  periods of seconds.
* *Energy server*: with two events either two servers follow each other, on the
  old or a new segment, or one server sees a unit of energy. Two clients are enough
  for an answer to reach the wrong one. `MaxMeasures` counts measurements begun.
* *Probes*: counters of two or three values wrap within a measurement and between
  two; two measurements show what the first leaves to the second (of `PfmCounters`,
  whose counters go on for ever and whose `values` `start` sets anew, one measurement
  that begins at any count is enough), three requests of
  the meter what an answer left on the line does to the two after it, and its numbers
  of two digits have a leading zero, as a resolution that is not used up does; three
  cores are one thread ahead at the next barrier, one behind, one between.
* *Options*: two processes need two options (number and cores); the third is any
  other one, or one of them again. The numbers are unset, one, two, and one that is
  more than there is memory for. The libraries have each version, lack each
  kind of symbol, or do not exist; one has more than one device and channel.

### Fairness

* The operating system schedules every runnable thread and process: weak
  fairness of each thread, child, coordinator, server, daemon. A `sem_wait` step is
  weakly fair per waiter in the runners: there each token has a waiter for it, and a
  token once there stays enabled for those it is for.
* The measured program and the kernels end (they are part of `Child` and
  `Thread`): an experiment with a program that does not end does not end either.
* A signal that was sent is delivered (`Deliver`, `Killed`).
* In `EnergyServer`, `TakeRequest` is strongly fair: `sem_timedwait` takes a token
  that is there when it is called, even if its deadline is past, so the timeout
  cannot win for ever against a request.
* In `Yoko`, the meter does its work (`MeterStep`, `MeterUpdate`) and a read ends
  when there is a byte.
* No fairness for what others decide: starting a measurement, destroying the
  collector, sending a signal, starting or killing a client or a server, consuming
  energy; the scripts and the processes of a run; nor for faults and
  spurious wake-ups.

`CHECK_DEADLOCK FALSE` is in every configuration because each of these systems
may really stop: the program ends, or the environment does nothing more. The
liveness properties say where it must not.

## 4. What is proved

All safety properties that the passing runs check, state invariants and action
properties, are proved by TLAPS for all values of the constants, and so is the refinement.
Where two modules define a name twice (`InductiveInvariant`), the table has the module.

The proofs assume what the modules' `ASSUME`s say:

* `NbProcess` and `NbMetaRepet` are positive (`Options::setDefaultValues` gives both a
  default of at least one, 251-261), and so are the number of cores (`sysconf` counts
  the one that asks) and the number of values of a counter or a size.
* There are finitely many clients of the energy server (`ClientsAssumption`).
* A session has a process with local rank 0, and `MaxSignals` leaves two signals for
  each run and one for the killer. Its command lines are sequences of strings.
* The numbers and cores on the command line are natural numbers, and a path is that of
  some library, which may be missing. A library is described by a record of natural
  numbers and known symbols.
* The meter writes its numbers with `MaxDigits` digits, one or more, and its energy fits
  in them (`YokoAssumption`).
* The other bounds (on time, energy, signals, faults, measurements) are any natural
  numbers.

| Theorem | Statement |
|---|---|
| `ProgramRunner_proofs!InductiveInvariant`, `TypeCorrect` | `Spec => []IInv`, `Spec => []TypeOK` |
| `StartsTogether`, `MeasurementCovers`, `FinishesClean` | the state properties of `program_runner` |
| `Barrier` | `Spec => IterationBarrier`, an action property |
| `Implements` | `Spec => Refinement` |
| `KernelRunner_proofs!InductiveInvariant` | `Spec => []IInv` of kernel experiments |
| `StartsTogether`, `KilledLast`, `TokensAreFresh` | `StartTogether`, `KilledAfterLastKernel`, `NoStaleToken` |
| `Barrier` | `Spec => RoundBarrier`, an action property |
| `MpiSession_proofs!InductiveInvariant` | `Spec => []IInv` of the daemon |
| `KeepsBySignals`, `PidHandled`, `EndsSaved` | `KeptBySignals`, `PidMeansHandled`, `ResultsSaved` |
| `SessionIsDaemon`, `SessionSaved` | a session is a behaviour of the daemon, so all of the above holds in it |
| `SessionInvariant`, `OneMeasurement` | `SessionSpec => []SessionInv`, `SessionSpec => []OneMeasurementEachRun` |
| `MovesSaved`, `MovesComplete` | `SessionSpec => []MovedIsSaved`, its first part, and `SessionSpec => []MovedIsComplete` |
| `ProbeDataCollector_proofs!CollectorInvariant`, `ThreadGone` | `Spec => []CollectorInv`, `Spec => []NoUseAfterDelete` |
| `gcdIsGreatest`, `MinPeriodIsGreatest` | `gcd`, and the loop of the constructor, compute the greatest common divisor |
| `NeverUpdated` | with a common period of 5 or more no probe is ever updated |
| `EnergyServer_proofs!InductiveInvariant`, `TypeCorrect` | `Spec => []IInv`, `Spec => []TypeOK` of the energy server |
| `AnswersAsked`, `OwnMeasurement` | `NoAnswerUnasked`, `MeasuresOwn` |
| `Probes_proofs!CyclesAreAccounted` | `CyclesAccounted` (ARM cycle counter) |
| `MeasureInStep`, `CopiedResultIsOwn` | `InStep`, `ResultIsOwn` (threads of the ARM timer) |
| `TimeIsElapsed`, `MeanIsOwn` | `ElapsedTime` (clocks), `OwnMean` (mic) |
| `EnergyIsExact`, `EventsAreCounted` | `ExactEnergy` (MSR), `CountsEvents` (pfm) |
| `TextsAreRead` | `parse_float_str` reads each text for n, in any number of digits, as n |
| `YokoInductive`, `EnergyIsOwn`, `NoUnitTwice` | `YokoSpec => []YokoInv`, `OwnEnergy`, `NoDoubleCount` |
| `LppMain_proofs!InductiveInvariant` | `Spec => []Inv` of the whole program |
| `CoresAreListed`, `NothingIsLeft`, `FunctionsAreThere`, `RoomForAll` | `PinnedWithinList`, `LeavesNothing`, `NoMissingFunction`, `RoomAndMean` |
| `RowsInOrder` | what is written is what was stopped, in order |
| `NetOfOverhead` | `RowsAreNet`: a row has the header's length, and less the overhead is what was measured |
| `FoldTheorems!Induction` | induction over the natural numbers, without an operator parameter |
| `FoldTheorems!FlattenPlaces` | where a concatenation of sequences puts each of their elements |

**Program experiments.** `StartTogether` is far from inductive: it depends on
every token in the three semaphores being where it should. `IInv` is
`LocalInv /\ SyncInv`. `LocalInv` says what a thread's point says of its child, its
round and thread 0's counter. `SyncInv` splits a round of thread 0 into three
stages. *Before* the common start, every other thread is in the same round and has
not started, or is still leaving the one before; `m_fatherLock` plus the passes of
thread 0 is the number of children that are ready. While *Running*, all
threads are in one round; `m_processLock` plus the children that have started is the
number of passes of the releasing loop; `m_fatherLock` is now the number of
threads that have finished. *After* the collection, the others wait for their
way out or have left, and `m_fatherLock` holds children ready for the *next*
round. The equations are between a semaphore and the `Cardinality` of a set of
threads; the proof of a step says which set gains or loses one element, and the
key facts are that a loop with all its passes made implies that the set is all of
`Threads`. That is exactly where one pass more or less in a loop of the code
(`NbProcess` passes at 98, `NbProcess - 1` at 114) would break it.

**Refinement.** Thread 0 decides in which round the abstract experiment is. A copy
has the state of its thread's child if the thread is in thread 0's round; a thread
that is a round ahead has a copy that has ended, one that is a round behind has a
copy that is still to line up. Copies that lined up early therefore appear in the
abstract `Close`, and the one step of thread 0 that stops the probes maps to it. Each step maps to one step of `SynchronizedRuns` or to a stutter;
`IInv` supplies the guards (all lined up at `Start`, all ended at `Close`).

**Kernel experiments.** The coordinator counts passes and does not know in which
round it is. `IInv` says that there *is* a round r, and for each loop of `syncLoop` where
threads and tokens are with respect to it. While the coordinator gathers, each thread
is in round r and has not started, or is on its way out of r - 1, and
`m_fatherLock` plus the passes made is the number that waits; while it releases and
collects, all threads are in r; while it lets them out, a thread waits for that or is
already in r + 1. Only the last pass of the last loop takes r to r + 1. A thread that
runs ahead and posts `m_fatherLock` for the next round while the others still leave is
why the second and the fourth stage count different sets with the same semaphore.
`KilledInv` is the part that `kernel_join` shows the price of: it promises that nobody
needs a *start* any more, and no more than that.

**Daemon.** The invariant says which handlers are installed at each point, that nobody
can know the pid before both are, and accounts for every `SIGUSR1`:
`2 * kept`, plus one if measuring, plus one if just woken, plus one if pending, is
at most the number sent.

**Session.** A step of the scripts is a step of the daemon's environment (`ReadPidFile`
or `Send`) or leaves the daemon alone: `SessionIsDaemon` makes that precise, and what
was proved for arbitrary signals carries over. `OneMeasurementEachRun` needs more,
because it relates a run to the daemon: `SessionInv` says that the processes end
together (`RanksInv`), and, while no signal has been late, at which point of a run
each point of the daemon is (`OnTimeInv`): between its signals the run is exactly where
the daemon is about to start, waits or measures (`HasStarted`), and the runs notified
are the measurements kept plus the one about to be. `RunsInv` relates these to the runs
of the script: a run that began when the right pid was in the file (`ready`) finds it
there, because only the killer ends the daemon, and so notifies it if it does not fail;
the runs that ended so (`due`) are at most those notified, and these at most all that
ended without failing (`finished`). The proof goes through
the steps of the daemon, of the delivery, of `mpirunLPP.sh`, of the processes and
of the killer, and uses the daemon's own invariant in each.

`MovedIsComplete` has two parts. What is moved was saved, by the same invariant: the
line that moves the output is behind the wait for the daemon to be gone, and the daemon
goes with its results saved. If no signal was late, it goes without a measurement that
it has not kept, so that `RunsInv` bounds the measurements from both sides. And if `mpirun` runs the program on this node, a daemon was
started here, unless an argument of the program looks like an option of `mpirun` (section
6). The script decides about daemons in one loop over the arguments and about the
program in another, each with a state of its own. `Aligned` relates the two states
after the same number of arguments: the options that name nodes that both have kept are
the same, and behind the name of the program the first loop adds no more.
`ArgsAligned` follows both loops argument by argument (`LightSteps`, `ProgramSteps`,
`AlignedStep`) and proves that for every command line.

**Collector.** `NoUseAfterDelete` rests on the wait of the destructor for its thread.
`CollectorInv` says that there is a thread exactly if some probe is periodic, and that
it has ended once the destructor has come to the probes. Each action of the owner is
shown to keep it, only `JoinThread` and the case without a thread leading to the deletion;
no action of the thread leaves its end. The theorem holds with a lost signal too: the
destructor then never comes to the probes.

The run `collector_update` shows for two periods that they are never served.
`NeverUpdated` says it of all: `MinPeriod` divides every period (`MinPeriodIsGreatest`,
which rests on Euclid's algorithm, `gcdIsGreatest`), so `elapsed` stays a multiple of it
(`MultipleInv`) and its remainder by a period is at least `MinPeriod` below that period
(`NeverDue`). Its hypothesis is `MinPeriod >= Tolerance`, as with the 20 seconds that
`libenergymsr` asks for. `elapsedTime` is taken not to wrap: it has 64 bits.

**Energy server.** `NoAnswerUnasked` is an inequality over a set of clients: requests on
a segment, the one in service and the answers are at most the clients that wait, plus
those that were killed waiting. Together with where the server is and which segment
it serves (`ServerInv`, `ClientInv`) it is inductive, because a step moves one token
between two of the four places. `MeasuresOwn` then needs, for a client that was alone
all the time, the history of its measurement (`MeasureInv`): between the answer to
`start` and the call of `stop` the reference of the server is not older than the
call of `start` (`StartedAnew`); while `stop` waits, what the server holds, has computed
or has posted lies within the bounds of the measurement (`StopInv`). That nobody else
waits (`Sole`) is used in each step of the server: it shows that the token which
it takes is this client's.

**Probes.** Each has an invariant about the middle of its loops.
*Cycle counter*: elapsed cycles are the sum of those counted, wrapped, missed, in the
counter and in its flag; the reset drops one summand. *Clocks*: the difference of two values modulo
the counter's width is the difference of the times (`WrapsAndValue`). *mic*: the
sum lies between n times the least and n times the greatest sample, kept at
every cancellation point. *ARM timer*: as long as no wait ended early, the barrier's
counter is the number of parties that wait at it (`Together`), so the last one to come
finds all others there. *MSR*: the value kept, plus the width for every overflow seen,
is the true energy since `start` (`Exact`), for each socket that is not blurred; a read
whose result is not stored yet is not older than the value that it replaces
(`SocketSound`). The sum of `stop` may read its two operands around an update of another
socket, not around one of this one (`MainIn`, `Updating`). *pfm*: each channel holds the
count of its own counter when the loop passed it, modulo the width and less at most one
if the product was rounded (`ReadAs`); the difference of two such values is the
difference of the counts, with the errors (`DifferenceCounts`). *Yoko*: two arguments. `OwnEnergy` follows a
queue: without a fault, k of the nine commands are treated and the others are on the
line in their order, with the request behind them (`QueueInv`), so that the answer is
one that the meter gave after both updates. `NoDoubleCount` has to hold with faults: the
value kept and the answers on the line never fall and are at most what was consumed, and
what was reported is at most the value kept (`RisingInv`), so that an answer that comes
late only moves energy from one result to the next. Both need that texts are read as
the numbers they stand for (`TextsAreRead`). The loops of the parser are folds, which take
one step for each digit (`ValueSteps`); where the point and the E are, and which digits
each loop gets, comes from the lengths of the parts of a text (`PartsOfText`); and the
exponent takes the point to where the digits end (`Parsed`).

**Options to output.** The invariant of `LppMain` has six parts. `OptionsInv`: after the
defaults and the checks the numbers are positive and the list of cores is long enough.
`PinnedInv`: the thread of index i has core i. `LoaderInv`: every probe has what its
constructor asked for, and calls of `init` are those of `fini` plus the probes that
are there, for each library, however often it is listed. `LoadedInv`, `KernelInv`: what
is there at each stage. `ResultsInv`: a vector is never empty, which is what makes
room when it is doubled, and holds at least its count. On top of them `KeptInv` says that
each vector is what `stop` returned, in that order, and `CellsInOrder` that
the writer's division and remainder undo the row and column arithmetic of `setData` for all numbers of
devices and channels; `RowsInOrder` follows. For `RowsAreNet` a row, which the writer concatenates
probe by probe, is taken apart again: `FlattenPlaces` says where each value of each probe
comes to stand, and that the length is the sum of the lengths, which is the header's. The
overhead is a sum of so many measurements, and the value written is the product of their
number and what was measured less that sum.

**Induction over data.** The library's induction theorems have an operator as a parameter
and cannot be used. `FoldTheorems!Induction` states induction with a *set* instead, and
is proved from the least-element principle for sets of natural numbers (`WFMin` over
`OpToRel`), which has no such parameter. A recursive function is a `CHOOSE`, so that
something with its equation has to be shown to exist before it can be used: `Recursion`
and `FoldFunctionExists` build it from functions that are right up to n (by `Induction`).
`FoldRecurs` is what the other proofs use: a fold over a sequence takes one step per
element. `SumSteps` and `FlattenSteps` are its cases for sums and concatenations.

## 5. What is only model-checked

* Termination and all other liveness properties: fairness and `ENABLED` are out
  of the prover's reach.

## 6. Disagreements between the code and what it says

Five are shown by a run (the property that fails is what the quoted text says):

1. `server/energyserver.c:187`: the answer is posted before `start` of the counters;
   the energy in between is in no measurement (`energy_start`).
2. `KernelRunner.cpp:219`: thread 0 kills the coordinator that may still have to let
   other threads out; they wait for ever (`kernel_join`).
3. `DaemonRunner.cpp:103`: a `SIGTERM` between the test of `end` and `pause` does not
   end the daemon, for which `lppMPIkiller.sh` waits without a limit (`daemon_term`).
4. `ProbeDataCollector.cpp:165`: the destructor's signal can be lost and its `join`
   waits for ever (`collector_destroy`).
5. `ProbeDataCollector.cpp:282`: probes are never updated if their periods' common
   divisor is 5 microseconds or more (`collector_update`).

The others were met while modelling; the definition or the excluded case named in
`PROJECT.json` has them, with the texts:

* Daemon and scripts: a `SIGUSR1` handled outside `pause` exchanges starts and ends
  (`DaemonRunner.cpp:113`); arguments of the program decide where daemons start
  (`mpirunLPP.sh:22`).
* Core: `m_threadCollecting` is never read (`ProbeDataCollector.cpp:261`); the overhead
  is measured with the kernel itself, in a buffer of undefined size
  (`KernelExperimentation.cpp:97`); a missing label is read (`ProbeV2.cpp:41`); `-i` is lost
  without `-m`, and zero iterations with `-m` alone (`Options.cpp:263`); the library of a version 1
  probe stays open (`Probe.cpp:62`); an assertion compares a channel with the
  devices (`ProbeData.cpp:33`).
* Probes: a late answer of the meter is taken for the next one (`yokosrv.c:504`) and
  not-a-number is not recognised (`yokosrv.c:516`); a scaled count that falls is taken for an overflow
  (`pfmcounters.c:346`), and so is one that only seems to fall since a product is rounded
  (`pfmcounters.c:339`); continuation lines replace what was before them
  (`pfmcounters.c:79`); the result of `stop` may be torn by an update
  (`libenergymsr.c:235`); the barrier's wait is not in a loop (`barrier.c:65`), threads are not
  joined before their data is freed (`timer.c:150`), a flag means the opposite of its comment
  (`threadFct.h:25`), and an old overflow is counted (`threadFct.c:97`).

## 7. What is not modelled, and the plan

Not modelled: the superseded copies, which the makefile does not build; third-party
code (the ini parser is modelled by what it hands to `pfmcounters`, libpfm is
external); `deployLPP.sh` (a makefile and `scp`); `setFifoMaxPriority`, which changes
the timing only; Android's shared memory; two energy servers at the same time; the
traces of `libenergymic`; `flushCaches`, which only touches bytes; the rounding of
floating-point numbers but in `PfmCounters`; what is left of an
answer of the meter when a read is given up within it (any of its texts, and no property
says anything about it, `cut`); all messages, and the layout of numbers in the output file. What the
threads of the ARM timer do with memory freed by `fini` has no meaning to model.

Next: that `DaemonRunner` and `KernelRunner` implement `SynchronizedRuns`, or an abstract
specification of their own, as `ProgramRunner` does; and an abstract server
(requests answered one at a time with what was consumed) that `EnergyServer` implements for
a client that is alone.
