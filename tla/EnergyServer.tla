---------------------------- MODULE EnergyServer ----------------------------
(***************************************************************************)
(* The energy server (energyserver.c), a process with the right to read    *)
(* the energy counters, and its clients: lPowerProbe processes with the    *)
(* probe libenergyserver.c. They share a memory segment with two           *)
(* semaphores: a client posts "measure" and waits for "read", the server   *)
(* waits for "measure", reads the counters, posts "read" and starts its    *)
(* own measurement anew.                                                   *)
(*                                                                         *)
(* A server may end and another one be started (two at a time are not      *)
(* modelled); a client keeps the segment it has mapped, and may be killed  *)
(* at any time. Energy is a number that grows; the counters behind it      *)
(* belong to libenergymsr.                                                 *)
(***************************************************************************)
EXTENDS Integers, FiniteSets

CONSTANTS Clients,
          MaxMeasures,  \* bound: measurements a client begins
          MaxEvents     \* bound: servers started and units of energy
                        \* consumed, taken together

ASSUME ClientsAssumption == IsFiniteSet(Clients)
ASSUME BoundsAssumption == MaxMeasures \in Nat /\ MaxEvents \in Nat

Segments == 1 .. MaxEvents

VARIABLES
  name,       \* the segment behind ESRV_SHM_NAME, 0: there is none
  shm,        \* the content of each segment, see Empty
  server,     \* where the server is, "off" when there is none
  serving,    \* the segment of the server
  nbServers,  \* servers started so far
  wantsStop,  \* wants_stop
  base,       \* energy consumed when the server started its measurement
  client,     \* each client, see NoClient
  consumed    \* energy consumed so far

serverVars == << serving, nbServers, wantsStop, base >>
vars == << name, shm, server, serverVars, client, consumed >>

Serving == {"loop", "time", "wait", "read", "post", "restart"}
Servers == {"off", "init", "init_measure", "init_read", "publish"}
             \cup Serving
ClientPCs == {"off", "ready", "start_wait", "on", "stop_wait", "copy"}

Empty ==
  [measure |-> 0,       \* the semaphores
   read |-> 0,
   published |-> FALSE, \* nb_devices is set
   energy |-> 0,        \* what the server wrote last
   early |-> FALSE,     \* a client has mapped it before it was set up
   orphans |-> 0]       \* requests whose client was killed

NoClient ==
  [pc |-> "off",
   segment |-> 0,       \* the segment it has mapped
   asleep |-> FALSE,    \* it waits for "read" and will not be woken
   measures |-> 0,      \* measurements it has begun
   got |-> 0,           \* its last result
   low |-> 0,           \* energy consumed between its calls of start and stop
   high |-> 0,          \* ... and from the begin of start to the end of stop
                        \* (before stop: consumed at those points)
   prompt |-> FALSE,    \* the server was ready when start returned
   alone |-> FALSE]     \* no other client made a request meanwhile

Init ==
  /\ name = 0
  /\ shm = [s \in Segments |-> Empty]
  /\ server = "off" /\ serving = 0 /\ nbServers = 0
  /\ wantsStop = FALSE /\ base = 0
  /\ client = [c \in Clients |-> NoClient]
  /\ consumed = 0

Maps(c, s) == client[c].pc # "off" /\ client[c].segment = s
Waiting(c) == client[c].pc \in {"start_wait", "stop_wait"}
WaitingOn(s) == {c \in Clients : Waiting(c) /\ client[c].segment = s}

-----------------------------------------------------------------------------
(* The server: main of energyserver.c.                                     *)

ServerStep(from, to) == server = from /\ server' = to

\* The semaphores of segment s are set up anew: some of those who wait there
\* will not be woken any more.
ForgetWaiters(s) ==
  \E lost \in SUBSET WaitingOn(s) :
    client' = [c \in Clients |-> IF c \in lost
                                   THEN [client[c] EXCEPT !.asleep = TRUE]
                                   ELSE client[c]]

\* Creates a segment, or empties the one that a killed server has left.
Create ==
  /\ ServerStep("off", "init")
  /\ nbServers + consumed < MaxEvents
  /\ nbServers' = nbServers + 1
  /\ name' = IF name = 0 THEN nbServers + 1 ELSE name
  /\ serving' = name'
  /\ shm' = [shm EXCEPT ![name'] =
               [Empty EXCEPT !.early = \E c \in Clients : Maps(c, name')]]
  /\ ForgetWaiters(name')
  /\ UNCHANGED << wantsStop, base, consumed >>

\* Memory or counters are not available.
GiveUp ==
  /\ ServerStep("init", "off")
  /\ name' = 0
  /\ UNCHANGED << shm, serverVars, client, consumed >>

\* init and start of libenergymsr; then the handlers are installed.
InitEnergy ==
  /\ ServerStep("init", "init_measure")
  /\ base' = consumed
  /\ UNCHANGED << name, shm, serving, nbServers, wantsStop, client, consumed >>

InitMeasure ==
  /\ ServerStep("init_measure", "init_read")
  /\ shm' = [shm EXCEPT ![serving].measure = 0]
  /\ UNCHANGED << name, serverVars, client, consumed >>

InitRead ==
  /\ ServerStep("init_read", "publish")
  /\ shm' = [shm EXCEPT ![serving].read = 0]
  /\ ForgetWaiters(serving)
  /\ UNCHANGED << name, serverVars, consumed >>

Publish ==
  /\ ServerStep("publish", "loop")
  /\ shm' = [shm EXCEPT ![serving].published = TRUE, ![serving].energy = 0]
  /\ UNCHANGED << name, serverVars, client, consumed >>

Continue ==
  /\ ServerStep("loop", "time")
  /\ ~wantsStop
  /\ UNCHANGED << name, shm, serverVars, client, consumed >>

\* sem_timedwait is called, with the time at which it ends.
BeginWait ==
  /\ ServerStep("time", "wait")
  /\ UNCHANGED << name, shm, serverVars, client, consumed >>

Stop ==
  /\ ServerStep("loop", "off")
  /\ wantsStop
  /\ name' = 0
  /\ wantsStop' = FALSE
  /\ UNCHANGED << shm, serving, nbServers, base, client, consumed >>

TakeRequest ==
  /\ ServerStep("wait", "read")
  /\ shm[serving].measure > 0
  /\ shm' = [shm EXCEPT ![serving].measure = @ - 1]
  /\ UNCHANGED << name, serverVars, client, consumed >>

TimeoutWaitsOn ==
  /\ ServerStep("wait", "wait")
  /\ UNCHANGED << name, shm, serverVars, client, consumed >>

TimeoutFallsThrough ==
  /\ ServerStep("wait", "read")
  /\ UNCHANGED << name, shm, serverVars, client, consumed >>

\* Nothing was asked for a period: update of libenergymsr. (Errors other than
\* the end of the period and a signal, after which the server would read and
\* answer unasked, need a semaphore or a time that is not valid; left out.)
Timeout ==
  /\ ServerStep("wait", "loop")
  /\ UNCHANGED << name, shm, serverVars, client, consumed >>

\* stop of libenergymsr.
ReadEnergy ==
  /\ ServerStep("read", "post")
  /\ shm' = [shm EXCEPT ![serving].energy = consumed - base]
  /\ UNCHANGED << name, serverVars, client, consumed >>

PostMeasure ==
  /\ ServerStep("post", "restart")
  /\ shm' = [shm EXCEPT ![serving].measure = @ + 1]
  /\ UNCHANGED << name, serverVars, client, consumed >>

PostRead ==
  /\ ServerStep("post", "restart")
  /\ shm' = [shm EXCEPT ![serving].read = @ + 1]
  /\ UNCHANGED << name, serverVars, client, consumed >>

RestartNot ==
  /\ ServerStep("restart", "loop")
  /\ UNCHANGED << name, shm, serverVars, client, consumed >>

\* start of libenergymsr.
Restart ==
  /\ ServerStep("restart", "loop")
  /\ base' = consumed
  /\ UNCHANGED << name, shm, serving, nbServers, wantsStop, client, consumed >>

\* SIGTERM or SIGINT kills the server before it has its handlers...
KillServer ==
  /\ ServerStep("init", "off")
  /\ UNCHANGED << name, shm, serverVars, client, consumed >>

\* ... and only then makes it stop; it interrupts the wait.
Terminate ==
  /\ server \notin {"off", "init"}
  /\ ~wantsStop
  /\ wantsStop' = TRUE
  /\ server' = IF server = "wait" THEN "loop" ELSE server
  /\ UNCHANGED << name, shm, serving, nbServers, base, client, consumed >>

-----------------------------------------------------------------------------
(* The clients: libenergyserver.c.                                         *)

\* c goes from one point to another, with its record as changed.
ClientStep(c, from, changed) ==
  /\ client[c].pc = from
  /\ client' = [client EXCEPT ![c] = changed]
  /\ UNCHANGED << name, server, serverVars, consumed >>

\* init; with no segment of that name the client does without the probe.
ClientInit(c) ==
  /\ name # 0
  /\ ClientStep(c, "off", [client[c] EXCEPT !.pc = "ready",
                                            !.segment = name])
  /\ shm' = [shm EXCEPT ![name].early = @ \/ ~shm[name].published]

\* What remains of a client that is gone: it has begun measurements.
Gone(c) == [NoClient EXCEPT !.measures = client[c].measures]

\* fini, which frees nothing: freeLibData returns unless its argument is NULL.
ClientFini(c) ==
  /\ ClientStep(c, "ready", Gone(c))
  /\ UNCHANGED shm

\* c posts "measure" and goes on to wait; others are not alone any more.
Request(c, from, changed) ==
  /\ client[c].pc = from
  /\ shm' = [shm EXCEPT ![client[c].segment].measure = @ + 1]
  /\ client' = [d \in Clients |-> IF d = c THEN changed
                                  ELSE [client[d] EXCEPT !.alone = FALSE]]
  /\ UNCHANGED << name, server, serverVars, consumed >>

BeginStart(c) ==
  /\ client[c].measures < MaxMeasures
  /\ Request(c, "ready",
       [client[c] EXCEPT
          !.pc = "start_wait", !.measures = @ + 1,
          !.got = 0, !.low = 0, !.high = consumed,
          !.alone = /\ shm[client[c].segment].orphans = 0
                    /\ \A d \in Clients \ {c} : ~Waiting(d)])

BeginStop(c) ==
  Request(c, "on", [client[c] EXCEPT !.pc = "stop_wait",
                                     !.low = consumed - @])

\* c takes an answer.
Answered(c, from, changed) ==
  /\ client[c].pc = from /\ ~client[c].asleep
  /\ shm[client[c].segment].read > 0
  /\ ClientStep(c, from, changed)
  /\ shm' = [shm EXCEPT ![client[c].segment].read = @ - 1]

EndStart(c) ==
  Answered(c, "start_wait", [client[c] EXCEPT !.pc = "on", !.low = consumed,
                                              !.prompt = server # "restart"])

EndStop(c) ==
  Answered(c, "stop_wait", [client[c] EXCEPT !.pc = "copy",
                                             !.high = consumed - @])

Copy(c) ==
  /\ ClientStep(c, "copy",
       [client[c] EXCEPT !.pc = "ready",
                         !.got = shm[client[c].segment].energy])
  /\ UNCHANGED shm

\* lPowerProbe is killed. What it asked for is answered nevertheless.
KillClient(c) ==
  /\ client[c].pc # "off"
  /\ ClientStep(c, client[c].pc, Gone(c))
  /\ shm' = IF Waiting(c)
              THEN [shm EXCEPT ![client[c].segment].orphans = @ + 1]
              ELSE shm

\* Energy is consumed.
Consume ==
  /\ nbServers + consumed < MaxEvents
  /\ consumed' = consumed + 1
  /\ UNCHANGED << name, shm, server, serverVars, client >>

-----------------------------------------------------------------------------
Server ==
  \/ InitEnergy \/ InitMeasure \/ InitRead \/ Publish
  \/ Continue \/ BeginWait \/ Stop \/ TakeRequest \/ Timeout
  \/ ReadEnergy \/ PostRead \/ Restart

Wait(c) == EndStart(c) \/ EndStop(c)

Client(c) ==
  ClientInit(c) \/ ClientFini(c) \/ BeginStart(c) \/ BeginStop(c) \/ Wait(c)
    \/ Copy(c)

Next ==
  \/ Server
  \/ Create \/ GiveUp \/ KillServer \/ Terminate
  \/ \E c \in Clients : Client(c) \/ KillClient(c)
  \/ Consume

Spec == Init /\ [][Next]_vars

\* The server runs once it is started, sem_timedwait takes a request that is
\* there when it is called, and a client takes an answer that it can take.
\* That clients measure, and that servers start or end, is not assumed.
FairSpec ==
  /\ Spec
  /\ WF_vars(Server)
  /\ SF_vars(TakeRequest)
  /\ \A c \in Clients : WF_vars(Wait(c))

-----------------------------------------------------------------------------
(* Properties.                                                             *)

TypeOK ==
  /\ name \in 0 .. MaxEvents
  /\ shm \in [Segments -> [measure : Nat, read : Nat, published : BOOLEAN,
                           energy : 0 .. MaxEvents, early : BOOLEAN,
                           orphans : Nat]]
  /\ server \in Servers
  /\ serving \in 0 .. MaxEvents /\ nbServers \in 0 .. MaxEvents
  /\ wantsStop \in BOOLEAN
  /\ base \in 0 .. MaxEvents /\ consumed \in 0 .. MaxEvents
  /\ client \in [Clients ->
       [pc : ClientPCs, segment : 0 .. MaxEvents,
        asleep : BOOLEAN, measures : 0 .. MaxMeasures, got : 0 .. MaxEvents,
        low : 0 .. MaxEvents, high : 0 .. MaxEvents, prompt : BOOLEAN,
        alone : BOOLEAN]]

\* The request the server of segment s is serving.
InService(s) == IF serving = s /\ server \in {"read", "post"} THEN 1 ELSE 0

\* "post when request served": no answer without a request. Requests, the
\* one in service and answers are never more than the clients that wait for
\* one, killed ones included: else start or stop would return at once.
NoAnswerUnasked ==
  \A s \in Segments :
    shm[s].measure + InService(s) + shm[s].read
      <= Cardinality(WaitingOn(s)) + shm[s].orphans

\* What a client that was alone gets is the energy of its own measurement: at
\* most what was consumed from its call of start to the return of stop and,
\* if the server had started anew when start returned, at least what was
\* consumed between the two calls.
Measured(c) == client[c].pc = "ready" /\ client[c].alone

MeasuresOwn ==
  \A c \in Clients :
    Measured(c) =>
      /\ client[c].got <= client[c].high
      /\ client[c].prompt => client[c].low <= client[c].got

\* The answer to start says that the measurement runs: the result has all
\* that was consumed after start returned.
MeasuresAll ==
  \A c \in Clients : Measured(c) => client[c].low <= client[c].got

\* Every request is answered as long as the server is not told to stop, if
\* no client has mapped the segment before the server had set it up (such a
\* client may have lost its own request, and takes the answer to another).
RequestAnswered ==
  \A c \in Clients :
    (Waiting(c) /\ client[c].segment = serving /\ server \in Serving
       /\ ~shm[serving].early)
      ~> (~Waiting(c) \/ wantsStop \/ server = "off")

\* A server that is told to stop stops, wherever the signal finds it.
StopEnds == wantsStop ~> (server = "off")
=============================================================================
