----------------------------- MODULE PfmCounters -----------------------------
(***************************************************************************)
(* The probe pfmcounters: it opens a hardware counter for every core and   *)
(* every name of its ini file, and gives what they have counted between    *)
(* start and stop. The kernel is external: it may let a counter run for    *)
(* only a part of the time (other processes share it), and tells both      *)
(* times with the count, which has Width values (2^64 in the code).        *)
(*                                                                         *)
(* A line of the ini file is what the parser (inih) makes of it: a name    *)
(* with a value, the continuation of a value, a section, or a line that it *)
(* skips.                                                                  *)
(*                                                                         *)
(* start and stop compute in doubles, whose integers are exact up to Exact *)
(* (2^53 in the code). That is modelled where they multiply a count by a   *)
(* time; that a double does not hold all digits of a count above Exact is  *)
(* left out.                                                               *)
(***************************************************************************)
EXTENDS Integers, SequencesExt, FiniteSetsExt

CONSTANTS
  MaxCores,    \* bound on nbCores
  Names,       \* what can stand between two ; of counters
  MaxNames,    \* bound on their number
  MaxLines,    \* bound on the lines of the ini file that are not skipped
  MaxChannels, \* bound on the counters of all cores
  Width,       \* values of a count
  Exact,       \* products up to it are exact in a double
  MaxTicks,    \* bound on the time the counters are seen
  MaxRounds    \* bound on the measurements

\* "good" is a counter of this processor, "bad" is none, "" an empty token.
ASSUME PfmAssumption ==
  /\ MaxCores \in Nat /\ MaxNames \in Nat /\ MaxLines \in Nat
  /\ MaxChannels \in Nat
  /\ Width \in Nat \ {0} /\ Exact \in Nat
  /\ MaxTicks \in Nat /\ MaxRounds \in Nat
  /\ Names \subseteq {"good", "bad", ""}

VARIABLES
  pfm,          \* what the probe does
  prevName, lines,   \* the parser: the last name, the lines it has read
  nbCores, nbCounters, counterNames,   \* SContext
  idx,          \* the loop over cores and counters: coreId*nbCounters + cntId
  pfmFds,       \* indices whose counter is open
  counter,      \* the kernel's counters
  values,       \* the values of SContext
  began,        \* the events each counter had seen when start read it
  spoiled,      \* indices that were read without success or while shared
  rounded,      \* indices with a read whose product was not exact
  rounds        \* measurements begun

fileVars == << prevName, lines, nbCores, nbCounters, counterNames >>
pfmVars == << pfm, fileVars, idx, pfmFds, counter, values, began, spoiled,
              rounded, rounds >>

Indices == 0 .. MaxChannels - 1
Used == 0 .. nbCores * nbCounters - 1
NewCounter == [count |-> 0, enabled |-> 0, running |-> 0, events |-> 0]

PfmInit ==
  /\ pfm = "off" /\ prevName = "" /\ lines = 0
  /\ nbCores = 0 /\ nbCounters = 0 /\ counterNames = << >>
  /\ idx = 0 /\ pfmFds = {}
  /\ counter = [i \in Indices |-> NewCounter]
  /\ values = [i \in Indices |-> 0] /\ began = [i \in Indices |-> 0]
  /\ spoiled = {} /\ rounded = {} /\ rounds = 0

-----------------------------------------------------------------------------
(* init and fini.                                                          *)

\* The names are counted with the empty ones between two ; and stored without
\* them, so that the last ones are never written. Each call replaces what an
\* earlier one has stored.
iniHandler(name) ==
  /\ \/ /\ name = "counters"
        /\ \E tokens \in SeqOf(Names, MaxNames) \ {<< >>} :
             /\ nbCounters' = Len(tokens)
             /\ LET stored == SelectSeq(tokens, LAMBDA t : t # "")
                IN counterNames' = [i \in DOMAIN tokens |->
                                      IF i \in DOMAIN stored THEN stored[i]
                                                             ELSE "unwritten"]
        /\ UNCHANGED nbCores
     \/ /\ name = "nbCores"
        /\ nbCores' \in 0 .. MaxCores
        /\ UNCHANGED << nbCounters, counterNames >>
     \/ name = "other" /\ UNCHANGED << nbCores, nbCounters, counterNames >>
  /\ nbCores' * nbCounters' <= MaxChannels

NextLine ==
  /\ pfm = "parse" /\ lines < MaxLines
  /\ lines' = lines + 1
  /\ UNCHANGED << pfm, idx, pfmFds, counter, values, began, spoiled, rounded,
                  rounds >>

PairLine ==
  /\ NextLine
  /\ prevName' \in {"counters", "nbCores", "other"}
  /\ iniHandler(prevName')

\* A line that begins with a blank goes to the last name.
ContinuationLine ==
  /\ NextLine
  /\ prevName # "" /\ UNCHANGED prevName
  /\ iniHandler(prevName)

SectionLine ==
  /\ NextLine
  /\ prevName' = ""
  /\ UNCHANGED << nbCores, nbCounters, counterNames >>

\* Lines that the parser skips or finds wrong change nothing: their number is
\* returned, and only a file that cannot be opened (-1) is an error.
Context_init ==
  /\ pfm = "parse" /\ pfm' = "init"
  /\ prevName' = "" /\ lines' = 0
  /\ UNCHANGED << nbCores, nbCounters, counterNames, idx, pfmFds, counter,
                  values, began, spoiled, rounded, rounds >>

OpenIni ==
  /\ pfm = "off" /\ pfm' = "parse"
  /\ UNCHANGED << fileVars, idx, pfmFds, counter, values, began, spoiled,
                  rounded, rounds >>

ParseFails ==
  /\ pfm = "off" /\ pfm' = "exit"
  /\ UNCHANGED << fileVars, idx, pfmFds, counter, values, began, spoiled,
                  rounded, rounds >>

\* pfm_initialize fails: init returns NULL.
InitializeFails ==
  /\ pfm = "init" /\ idx = 0 /\ pfm' = "failed"
  /\ UNCHANGED << fileVars, idx, pfmFds, counter, values, began, spoiled,
                  rounded, rounds >>

NameOf(i) == counterNames[(i % nbCounters) + 1]

\* A name that was never written can be anything.
OpenCounter ==
  /\ pfm = "init" /\ idx \in Used
  /\ NameOf(idx) \in {"good", "unwritten"}
  /\ pfmFds' = pfmFds \cup {idx}
  /\ idx' = idx + 1
  /\ UNCHANGED << pfm, fileVars, counter, values, began, spoiled, rounded,
                  rounds >>

\* The name has no encoding, or the open counter cannot be enabled: the
\* context is freed, and what is open stays open.
EncodeFails ==
  /\ pfm = "init" /\ idx \in Used
  /\ NameOf(idx) \in {"bad", "unwritten"}
  /\ pfm' = "failed"
  /\ UNCHANGED << fileVars, idx, pfmFds, counter, values, began, spoiled,
                  rounded, rounds >>

EnableFails ==
  /\ pfm = "init" /\ idx \in Used
  /\ NameOf(idx) # "bad"
  /\ pfm' = "failed" /\ pfmFds' = pfmFds \cup {idx}
  /\ UNCHANGED << fileVars, idx, counter, values, began, spoiled, rounded,
                  rounds >>

\* err ends lPowerProbe.
OpenCounterFails ==
  /\ pfm = "init" /\ idx \in Used
  /\ NameOf(idx) # "bad"
  /\ pfm' = "exit"
  /\ UNCHANGED << fileVars, idx, pfmFds, counter, values, began, spoiled,
                  rounded, rounds >>

\* From here on only messages use the names, which are forgotten.
PfmInitDone ==
  /\ pfm = "init" /\ idx \notin Used
  /\ pfm' = "idle" /\ idx' = 0
  /\ counterNames' = << >>
  /\ UNCHANGED << prevName, lines, nbCores, nbCounters, pfmFds, counter, values,
                  began, spoiled, rounded, rounds >>

PfmFini ==
  /\ pfm = "idle" /\ pfm' = "over"
  /\ pfmFds' = {}
  /\ UNCHANGED << fileVars, idx, counter, values, began, spoiled, rounded,
                  rounds >>

-----------------------------------------------------------------------------
(* start and stop.                                                         *)

Inexact(c) == c.count * c.enabled > Exact

\* The possible values of buf[0] * buf[1] / buf[2], cut off to an integer. A
\* product that is not exact can make it one less than the quotient, and of a
\* counter that did not run all the time also one more. A counter that never
\* ran has no quotient, and the conversion to an integer gives any.
Scaled(c) ==
  IF c.running = 0
    THEN {0, Width - 1}
    ELSE LET q == (c.count * c.enabled) \div c.running
         IN {q} \cup {n \in {q - 1, q + 1} :
                       /\ Inexact(c) /\ n >= 0
                       /\ n > q => c.running < c.enabled}

PfmBeginStart ==
  /\ pfm = "idle" /\ rounds < MaxRounds
  /\ rounds' = rounds + 1
  /\ spoiled' = {} /\ rounded' = {}
  /\ pfm' = IF nbCounters = 0 THEN "on" ELSE "start"
  /\ UNCHANGED << fileVars, idx, pfmFds, counter, values, began >>

\* Without a counter the assertion of stop fails.
PfmBeginStop ==
  /\ pfm = "on"
  /\ pfm' = IF nbCounters = 0 THEN "exit" ELSE "stop"
  /\ UNCHANGED << fileVars, idx, pfmFds, counter, values, began, spoiled,
                  rounded, rounds >>

\* One read: a failure is printed and buf used as it is.
ReadCounter(value) ==
  /\ idx \in Used
  /\ \/ /\ value \in Scaled(counter[idx])
        /\ spoiled' = IF counter[idx].running = counter[idx].enabled
                         /\ counter[idx].running > 0
                        THEN spoiled ELSE spoiled \cup {idx}
     \/ value \in {0, Width - 1} /\ spoiled' = spoiled \cup {idx}
  /\ rounded' = IF Inexact(counter[idx]) THEN rounded \cup {idx} ELSE rounded
  /\ idx' = idx + 1
  /\ UNCHANGED << pfm, fileVars, pfmFds, counter, rounds >>

StartReads ==
  /\ pfm = "start"
  /\ \E value \in 0 .. Width * MaxTicks :
       /\ ReadCounter(value)
       /\ values' = [values EXCEPT ![idx] = value]
  /\ began' = [began EXCEPT ![idx] = counter[idx].events]

\* With the constant of the source as an integer.
OneLess(first, last) ==
  IF first <= last THEN last - first ELSE (Width - 1) - first + last

\* 0xFFFFFFFFFFFFFFFF, in a sum of doubles, is 2^64.
Difference(first, last) ==
  IF first <= last THEN last - first ELSE Width - first + last

\* began becomes the number of events since then.
StopReads ==
  /\ pfm = "stop"
  /\ \E value \in 0 .. Width * MaxTicks :
       /\ ReadCounter(value)
       /\ values' = [values EXCEPT ![idx] = Difference(@, value)]
  /\ began' = [began EXCEPT ![idx] = counter[idx].events - @]

LoopDone ==
  /\ pfm \in {"start", "stop"} /\ idx \notin Used
  /\ pfm' = IF pfm = "start" THEN "on" ELSE "idle"
  /\ idx' = 0
  /\ UNCHANGED << fileVars, pfmFds, counter, values, began, spoiled, rounded,
                  rounds >>

-----------------------------------------------------------------------------
\* Time passes for an open counter: it runs or another one does, and an event
\* happens or not.
Tick(i) ==
  /\ i \in pfmFds
  /\ pfm \in {"idle", "start", "on", "stop"}
  /\ MapThenSumSet(LAMBDA j : counter[j].enabled, Indices) < MaxTicks
  /\ \E runs \in 0 .. 1, event \in 0 .. 1 :
       counter' = [counter EXCEPT
         ![i] = [count |-> (@.count + runs * event) % Width,
                 enabled |-> @.enabled + 1,
                 running |-> @.running + runs,
                 events |-> @.events + event]]
  /\ UNCHANGED << pfm, fileVars, idx, pfmFds, values, began, spoiled, rounded,
                  rounds >>

-----------------------------------------------------------------------------
PfmNext ==
  \/ OpenIni \/ ParseFails \/ PairLine \/ ContinuationLine \/ SectionLine
  \/ Context_init \/ InitializeFails
  \/ OpenCounter \/ EncodeFails \/ EnableFails \/ OpenCounterFails
  \/ PfmInitDone
  \/ PfmBeginStart \/ StartReads \/ PfmBeginStop \/ StopReads \/ LoopDone
  \/ PfmFini
  \/ \E i \in Indices : Tick(i)

PfmSpec == PfmInit /\ [][PfmNext]_pfmVars

-----------------------------------------------------------------------------
(* Properties.                                                             *)

\* Every channel counts the events of its own counter between start and stop,
\* modulo the values of a count and whether or not it has wrapped, unless a
\* read failed or the counter had to be shared. A read whose product is rounded
\* makes the result wrong by one: a counter that saw nothing then seems to have
\* wrapped, and gives Width - 1.
CountsEvents ==
  pfm = "idle" /\ rounds > 0 =>
    \A i \in Used \ spoiled :
      \E d \in -1 .. 1 :
        /\ values[i] = (began[i] + d) % Width
        /\ i \notin rounded => d = 0
=============================================================================
