----------------------------- MODULE EnergyMsr -----------------------------
(***************************************************************************)
(* The probe libenergymsr: it reads the energy counter of every socket,    *)
(* which has Wrap values (2^32 in the code), counts the overflows it sees  *)
(* and gives the energy between start and stop.                            *)
(*                                                                         *)
(* Two threads call it: the measuring thread calls start and stop, and the *)
(* collector's thread may call update at any time after init, or never, as *)
(* the periods of the probes decide (ProbeDataCollector), without a lock.  *)
(* A step is an access to the data that the two share: an update changes   *)
(* ovfCnt before lastE, and the sum of stop reads the one and then the     *)
(* other, in an order that the language leaves open. total is the same     *)
(* counter without a width; the sum is bounded by MaxEnergy.               *)
(***************************************************************************)
EXTENDS Integers, FiniteSetsExt

CONSTANTS
  NbCPUs,      \* cores the system has online
  NbSockets,   \* bound on the ids of their sockets
  Wrap,        \* values of a counter
  MaxEnergy,   \* bound on the energy of all sockets
  MaxMeasures  \* bound on the measurements

ASSUME MsrAssumption ==
  /\ NbCPUs \in Nat \ {0} /\ NbSockets \in Nat \ {0}
  /\ Wrap \in Nat \ {0} /\ MaxEnergy \in Nat /\ MaxMeasures \in Nat

CPUs == 0 .. NbCPUs - 1
Unreadable == NbSockets    \* fopen or fscanf fails: the core is skipped

VARIABLES
  found,      \* sockets of the cores that can be read
  nbCPUs,     \* sockets the probe works on
  fds,        \* sockets whose register is open
  main,       \* what the measuring thread does
  mainSocket, \* its loop variable
  updater,    \* what the collector's thread does in update
  updSocket,  \* its loop variable
  reading,    \* e_base of each of the two
  operand,    \* what the sum of stop has read first
  total,      \* the energy of each socket since the system started
  refE, lastE, ovfCnt, res,   \* libdata_t
  msrMeasures, \* measurements begun
  true,       \* total at the reads whose values are refE and lastE, and the
              \* difference of the two when stop made its result
  blurred     \* sockets whose result is not exact, by what happened to them

msrVars == << found, nbCPUs, fds, main, mainSocket, updater, updSocket,
              reading, operand, total, refE, lastE, ovfCnt, res, msrMeasures,
              true, blurred >>

Sockets == 0 .. nbCPUs - 1
Zero == [s \in 0 .. NbSockets - 1 |-> 0]
Callers == {"main", "updater"}
Nothing == [energy |-> 0, total |-> 0]

MsrInit ==
  /\ found = {} /\ nbCPUs = 0 /\ fds = {}
  /\ main = "off" /\ mainSocket = 0
  /\ updater = "none" /\ updSocket = 0
  /\ reading = [c \in Callers |-> Nothing] /\ operand = 0
  /\ total = Zero
  /\ refE = Zero /\ lastE = Zero /\ ovfCnt = Zero /\ res = Zero
  /\ msrMeasures = 0
  /\ true = [ref |-> Zero, last |-> Zero, sum |-> Zero]
  /\ blurred = {}

-----------------------------------------------------------------------------
(* init and fini.                                                          *)

\* The highest socket of a readable core, and at least one.
nbDevices(sockets) == Max({1} \cup {s + 1 : s \in sockets})

MsrBeginInit ==
  /\ main = "off"
  /\ \E socketOf \in [CPUs -> 0 .. NbSockets] :
       found' = {socketOf[c] : c \in CPUs} \ {Unreadable}
  /\ nbCPUs' = nbDevices(found')
  /\ main' = "init" /\ mainSocket' = 0
  /\ UNCHANGED << fds, updater, updSocket, reading, operand, total, refE,
                  lastE, ovfCnt, res, msrMeasures, true, blurred >>

OpenRegister ==
  /\ main = "init" /\ mainSocket \in Sockets /\ mainSocket \in found
  /\ fds' = fds \cup {mainSocket}
  /\ mainSocket' = mainSocket + 1
  /\ UNCHANGED << found, nbCPUs, main, updater, updSocket, reading, operand,
                  total, refE, lastE, ovfCnt, res, msrMeasures, true,
                  blurred >>

\* freeLibData closes what is open; init returns NULL, and the probe is not
\* used. A socket without a readable core always ends here.
MsrInitFails ==
  /\ main = "init" /\ mainSocket \in Sockets
  /\ main' = "failed" /\ fds' = {}
  /\ UNCHANGED << found, nbCPUs, mainSocket, updater, updSocket, reading,
                  operand, total, refE, lastE, ovfCnt, res, msrMeasures, true,
                  blurred >>

MsrInitDone ==
  /\ main = "init" /\ mainSocket \notin Sockets
  /\ main' = "idle" /\ mainSocket' = 0
  /\ UNCHANGED << found, nbCPUs, fds, updater, updSocket, reading, operand,
                  total, refE, lastE, ovfCnt, res, msrMeasures, true,
                  blurred >>

\* The collector's thread has been joined before.
MsrFini ==
  /\ main = "idle" /\ updater = "none"
  /\ main' = "over" /\ fds' = {}
  /\ UNCHANGED << found, nbCPUs, mainSocket, updater, updSocket, reading,
                  operand, total, refE, lastE, ovfCnt, res, msrMeasures, true,
                  blurred >>

-----------------------------------------------------------------------------
(* Reading a counter and storing what was read.                            *)

\* The 32 bits of MSR_PKG_ENERGY_STATUS.
ReadBy(caller, s) ==
  reading' = [reading EXCEPT ![caller] =
                [energy |-> total[s] % Wrap, total |-> total[s]]]

Forget(caller) == reading' = [reading EXCEPT ![caller] = Nothing]

\* Two wraps or more since the last read are seen as one or none.
Missed(caller, s) ==
  reading[caller].total - true.last[s] >= Wrap

\* Without the test for an overflow.
CountNone(caller, s) == UNCHANGED ovfCnt

CountOverflow(caller, s) ==
  ovfCnt' = IF reading[caller].energy < lastE[s]
              THEN [ovfCnt EXCEPT ![s] = @ + 1] ELSE ovfCnt

StoreLast(caller, s) ==
  /\ lastE' = [lastE EXCEPT ![s] = reading[caller].energy]
  /\ true' = [true EXCEPT !.last[s] = reading[caller].total]

\* An update of the socket has read the counter and has not stored yet; start,
\* stop or its sum are at work on the socket.
Updating(s) == updater \in {"count", "store"} /\ updSocket = s
MainIn(s) ==
  /\ main \in {"start_store", "stop_count", "stop_store",
               "sum_lastE", "sum_ovfCnt"}
  /\ mainSocket = s

BlurIf(condition, s) ==
  blurred' = IF condition THEN blurred \cup {s} ELSE blurred

-----------------------------------------------------------------------------
(* start and stop, by the measuring thread.                                *)

MsrBeginStart ==
  /\ main = "idle" /\ msrMeasures < MaxMeasures
  /\ msrMeasures' = msrMeasures + 1
  /\ main' = "start" /\ mainSocket' = 0
  /\ blurred' = {}
  /\ UNCHANGED << found, nbCPUs, fds, updater, updSocket, reading, operand,
                  total, refE, lastE, ovfCnt, res, true >>

MsrBeginStop ==
  /\ main = "measuring"
  /\ main' = "stop" /\ mainSocket' = 0
  /\ UNCHANGED << found, nbCPUs, fds, updater, updSocket, reading, operand,
                  total, refE, lastE, ovfCnt, res, msrMeasures, true,
                  blurred >>

MainReads ==
  /\ main \in {"start", "stop"} /\ mainSocket \in Sockets
  /\ ReadBy("main", mainSocket)
  /\ main' = IF main = "start" THEN "start_store" ELSE "stop_count"
  /\ BlurIf(Updating(mainSocket), mainSocket)
  /\ UNCHANGED << found, nbCPUs, fds, mainSocket, updater, updSocket, operand,
                  total, refE, lastE, ovfCnt, res, msrMeasures, true >>

\* The socket keeps the values it had.
MainReadFails ==
  /\ main \in {"start", "stop"} /\ mainSocket \in Sockets
  /\ mainSocket' = mainSocket + 1
  /\ blurred' = blurred \cup {mainSocket}
  /\ UNCHANGED << found, nbCPUs, fds, main, updater, updSocket, reading,
                  operand, total, refE, lastE, ovfCnt, res, msrMeasures,
                  true >>

\* One step: an update that comes between the assignments blurs the socket
\* wherever it comes.
StartStores ==
  /\ main = "start_store"
  /\ LET r == reading["main"] IN
       /\ refE' = [refE EXCEPT ![mainSocket] = r.energy]
       /\ lastE' = [lastE EXCEPT ![mainSocket] = r.energy]
       /\ true' = [true EXCEPT !.ref[mainSocket] = r.total,
                                !.last[mainSocket] = r.total,
                                !.sum[mainSocket] = 0]
  /\ ovfCnt' = [ovfCnt EXCEPT ![mainSocket] = 0]
  /\ res' = [res EXCEPT ![mainSocket] = 0]
  /\ main' = "start" /\ mainSocket' = mainSocket + 1
  /\ Forget("main")
  /\ UNCHANGED << found, nbCPUs, fds, updater, updSocket, operand, total,
                  msrMeasures, blurred >>

StopCounts ==
  /\ main = "stop_count" /\ main' = "stop_store"
  /\ CountOverflow("main", mainSocket)
  /\ BlurIf(Missed("main", mainSocket), mainSocket)
  /\ UNCHANGED << found, nbCPUs, fds, mainSocket, updater, updSocket, reading,
                  operand, total, refE, lastE, res, msrMeasures, true >>

StopStores ==
  /\ main = "stop_store"
  /\ StoreLast("main", mainSocket)
  /\ main' = "stop" /\ mainSocket' = mainSocket + 1
  /\ Forget("main")
  /\ UNCHANGED << found, nbCPUs, fds, updater, updSocket, operand, total, refE,
                  ovfCnt, res, msrMeasures, blurred >>

Started ==
  /\ main = "start" /\ mainSocket \notin Sockets
  /\ main' = "measuring" /\ mainSocket' = 0
  /\ UNCHANGED << found, nbCPUs, fds, updater, updSocket, reading, operand,
                  total, refE, lastE, ovfCnt, res, msrMeasures, true,
                  blurred >>

\* The second loop of stop. An update that the collector's thread makes here
\* may change the values between this loop and the first.
StopUpdated ==
  /\ main = "stop" /\ mainSocket \notin Sockets
  /\ main' = "sum" /\ mainSocket' = 0
  /\ UNCHANGED << found, nbCPUs, fds, updater, updSocket, reading, operand,
                  total, refE, lastE, ovfCnt, res, msrMeasures, true,
                  blurred >>

SumReads ==
  /\ main = "sum" /\ mainSocket \in Sockets
  /\ \/ main' = "sum_ovfCnt" /\ operand' = lastE[mainSocket]
     \/ main' = "sum_lastE" /\ operand' = ovfCnt[mainSocket]
  /\ BlurIf(Updating(mainSocket), mainSocket)
  /\ UNCHANGED << found, nbCPUs, fds, mainSocket, updater, updSocket,
                  reading, total, refE, lastE, ovfCnt, res, msrMeasures, true >>

\* The other operand is read, and the result made.
SumUp ==
  /\ main \in {"sum_lastE", "sum_ovfCnt"}
  /\ LET energy == IF main = "sum_lastE" THEN lastE[mainSocket] ELSE operand
         overflows == IF main = "sum_lastE" THEN operand ELSE ovfCnt[mainSocket]
     IN res' = [res EXCEPT ![mainSocket] =
                 energy + overflows * Wrap - refE[mainSocket]]
  /\ true' = [true EXCEPT !.sum[mainSocket] =
                true.last[mainSocket] - true.ref[mainSocket]]
  /\ main' = "sum" /\ mainSocket' = mainSocket + 1 /\ operand' = 0
  /\ UNCHANGED << found, nbCPUs, fds, updater, updSocket, reading, total,
                  refE, lastE, ovfCnt, msrMeasures, blurred >>

Stopped ==
  /\ main = "sum" /\ mainSocket \notin Sockets
  /\ main' = "idle" /\ mainSocket' = 0
  /\ UNCHANGED << found, nbCPUs, fds, updater, updSocket, reading, operand,
                  total, refE, lastE, ovfCnt, res, msrMeasures, true,
                  blurred >>

-----------------------------------------------------------------------------
(* update, by the collector's thread.                                      *)

BeginUpdate ==
  /\ main \notin {"off", "init", "failed", "over"}
  /\ updater = "none"
  /\ updater' = "read" /\ updSocket' = 0
  /\ UNCHANGED << found, nbCPUs, fds, main, mainSocket, reading, operand,
                  total, refE, lastE, ovfCnt, res, msrMeasures, true,
                  blurred >>

UpdateReads ==
  /\ updater = "read" /\ updSocket \in Sockets
  /\ ReadBy("updater", updSocket)
  /\ updater' = "count"
  /\ BlurIf(MainIn(updSocket), updSocket)
  /\ UNCHANGED << found, nbCPUs, fds, main, mainSocket, updSocket, operand,
                  total, refE, lastE, ovfCnt, res, msrMeasures, true >>

UpdateReadFails ==
  /\ updater = "read" /\ updSocket \in Sockets
  /\ updSocket' = updSocket + 1
  /\ UNCHANGED << found, nbCPUs, fds, main, mainSocket, updater, reading,
                  operand, total, refE, lastE, ovfCnt, res, msrMeasures, true,
                  blurred >>

UpdateCounts ==
  /\ updater = "count" /\ updater' = "store"
  /\ CountOverflow("updater", updSocket)
  /\ BlurIf(Missed("updater", updSocket), updSocket)
  /\ UNCHANGED << found, nbCPUs, fds, main, mainSocket, updSocket, reading,
                  operand, total, refE, lastE, res, msrMeasures, true >>

UpdateStores ==
  /\ updater = "store"
  /\ StoreLast("updater", updSocket)
  /\ updater' = "read" /\ updSocket' = updSocket + 1
  /\ Forget("updater")
  /\ UNCHANGED << found, nbCPUs, fds, main, mainSocket, operand, total, refE,
                  ovfCnt, res, msrMeasures, blurred >>

UpdateDone ==
  /\ updater = "read" /\ updSocket \notin Sockets
  /\ updater' = "none" /\ updSocket' = 0
  /\ UNCHANGED << found, nbCPUs, fds, main, mainSocket, reading, operand,
                  total, refE, lastE, ovfCnt, res, msrMeasures, true,
                  blurred >>

ConsumeSocket(s) ==
  /\ main \notin {"off", "init", "failed", "over"}
  /\ s \in Sockets
  /\ MapThenSumSet(LAMBDA t : total[t], DOMAIN total) < MaxEnergy
  /\ total' = [total EXCEPT ![s] = @ + 1]
  /\ UNCHANGED << found, nbCPUs, fds, main, mainSocket, updater, updSocket,
                  reading, operand, refE, lastE, ovfCnt, res, msrMeasures,
                  true, blurred >>

-----------------------------------------------------------------------------
Main ==
  \/ MsrBeginInit \/ OpenRegister \/ MsrInitFails \/ MsrInitDone \/ MsrFini
  \/ MsrBeginStart \/ MainReads \/ MainReadFails \/ StartStores \/ Started
  \/ MsrBeginStop \/ StopCounts \/ StopStores \/ StopUpdated
  \/ SumReads \/ SumUp \/ Stopped

Update == BeginUpdate \/ UpdateReads \/ UpdateReadFails \/ UpdateCounts
            \/ UpdateStores \/ UpdateDone

MsrNext == Main \/ Update \/ \E s \in 0 .. NbSockets - 1 : ConsumeSocket(s)

MsrSpec == MsrInit /\ [][MsrNext]_msrVars

-----------------------------------------------------------------------------
(* Properties.                                                             *)

\* A result is the energy between the read of start and the last one that was
\* stored, as long as a read falls into every wrap of the counter, the reads
\* succeed, and no update of the same socket overlaps the part of start, of
\* stop or of its sum that is about this socket; updates at other times, or
\* that fail, change nothing.
ExactEnergy ==
  main = "idle" /\ msrMeasures > 0 =>
    \A s \in Sockets \ blurred : res[s] = true.sum[s]
=============================================================================
