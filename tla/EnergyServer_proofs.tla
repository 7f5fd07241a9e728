------------------------- MODULE EnergyServer_proofs -------------------------
(***************************************************************************)
(* Proofs about EnergyServer, for any clients, servers and measurements.   *)
(*                                                                         *)
(* What a client gets is its own energy because of three facts that hold   *)
(* only together: a request, its service and its answer are one token of   *)
(* the segment (NoAnswerUnasked); a segment that has given an answer is    *)
(* never set up again (Past); and a client that is alone finds in the      *)
(* segment no token but its own (MeasureInv).                              *)
(***************************************************************************)
EXTENDS EnergyServer, FiniteSetTheorems, TLAPS

\* Segment s is not going to be set up, nor set up again.
Past(s) == name = s => server \in Serving

ServerInv ==
  /\ nbServers + consumed <= MaxEvents
  /\ name <= nbServers
  /\ base <= consumed
  /\ server # "off" => serving = name /\ name # 0
  /\ \A s \in Segments : shm[s].read > 0 => s <= nbServers /\ Past(s)

ClientInv(c) ==
  /\ client[c].pc = "off" => ~client[c].alone
  /\ client[c].pc # "off" => client[c].segment \in 1 .. nbServers
  /\ client[c].pc \in {"on", "stop_wait", "copy"} => Past(client[c].segment)
  /\ client[c].pc \in {"start_wait", "on", "stop_wait"}
       => client[c].high <= consumed
  /\ client[c].pc = "on" => client[c].low <= consumed

LocalInv == TypeOK /\ ServerInv /\ \A c \in Clients : ClientInv(c)

-----------------------------------------------------------------------------
\* Nobody but c waits, and nobody who was killed did.
Sole(c) ==
  /\ shm[client[c].segment].orphans = 0
  /\ \A d \in Clients \ {c} : ~Waiting(d)

\* Where the server of the segment of c is.
ServedAt(c, where) == serving = client[c].segment /\ server \in where

\* The energy e is at most what was consumed since start was called and, if
\* the server was ready when start returned, at least what was consumed from
\* there to the call of stop.
Own(c, e) ==
  /\ e <= consumed - client[c].high
  /\ client[c].prompt => client[c].low <= e

\* The answer to start is there or taken: the server starts its measurement
\* anew after start was called.
StartedAnew(c) ==
  ServedAt(c, Serving \ {"restart"}) => client[c].high <= base

OnInv(c) ==
  /\ StartedAnew(c)
  /\ client[c].prompt =>
       /\ ~ServedAt(c, {"restart"})
       /\ ServedAt(c, Serving) => base <= client[c].low

StopInv(c) ==
  LET s == client[c].segment IN
    /\ shm[s].read > 0 \/ ServedAt(c, {"post"}) => Own(c, shm[s].energy)
    /\ shm[s].read = 0 /\ ServedAt(c, Serving \ {"restart", "post"})
         => Own(c, consumed - base)
    /\ shm[s].read = 0 /\ ServedAt(c, {"restart"}) => ~client[c].prompt

GotInv(c, e) ==
  /\ e <= client[c].high
  /\ client[c].prompt => client[c].low <= e

MeasureInv(c) ==
  client[c].alone =>
    /\ Sole(c)
    /\ client[c].pc = "start_wait" /\ shm[client[c].segment].read > 0
         => StartedAnew(c)
    /\ client[c].pc = "on" => OnInv(c)
    /\ client[c].pc = "stop_wait" => StopInv(c)
    /\ client[c].pc = "copy" => GotInv(c, shm[client[c].segment].energy)
    /\ client[c].pc = "ready" => GotInv(c, client[c].got)

IInv == LocalInv /\ NoAnswerUnasked /\ \A c \in Clients : MeasureInv(c)

-----------------------------------------------------------------------------
(* Types: what a segment and a client hold.                                *)

SegmentType ==
  [measure : Nat, read : Nat, published : BOOLEAN, energy : 0 .. MaxEvents,
   early : BOOLEAN, orphans : Nat]

ClientType ==
  [pc : ClientPCs, segment : 0 .. MaxEvents, asleep : BOOLEAN,
   measures : 0 .. MaxMeasures, got : 0 .. MaxEvents, low : 0 .. MaxEvents,
   high : 0 .. MaxEvents, prompt : BOOLEAN, alone : BOOLEAN]

ServerTyped ==
  /\ name \in 0 .. MaxEvents
  /\ server \in Servers
  /\ serving \in 0 .. MaxEvents /\ nbServers \in 0 .. MaxEvents
  /\ wantsStop \in BOOLEAN
  /\ base \in 0 .. MaxEvents /\ consumed \in 0 .. MaxEvents

LEMMA TypeParts ==
  TypeOK <=> /\ ServerTyped
             /\ shm \in [Segments -> SegmentType]
             /\ client \in [Clients -> ClientType]
  BY DEF TypeOK, ServerTyped, SegmentType, ClientType

LEMMA Typed ==
  ASSUME LocalInv
  PROVE  /\ ServerTyped /\ ServerInv
         /\ shm \in [Segments -> SegmentType]
         /\ client \in [Clients -> ClientType]
         /\ \A s \in Segments : shm[s] \in SegmentType
         /\ \A c \in Clients : client[c] \in ClientType /\ ClientInv(c)
         /\ MaxEvents \in Nat /\ MaxMeasures \in Nat
         /\ name # 0 => name \in Segments
         /\ server # "off" => serving \in Segments
         /\ \A c \in Clients :
              client[c].pc # "off" => client[c].segment \in Segments
  BY TypeParts, BoundsAssumption
     DEF LocalInv, ServerInv, ServerTyped, ClientInv, ClientType, Segments

LEMMA LocalInit == Init => LocalInv
  <1> SUFFICES ASSUME Init PROVE LocalInv
    OBVIOUS
  <1> USE BoundsAssumption DEF Init, Empty, NoClient
  <1>1. TypeOK
    <2>1. shm \in [Segments -> SegmentType]
      BY DEF SegmentType
    <2>2. client \in [Clients -> ClientType]
      BY DEF ClientType, ClientPCs
    <2>3. ServerTyped
      <3>1. /\ name = 0 /\ server = "off" /\ serving = 0 /\ nbServers = 0
            /\ wantsStop = FALSE /\ base = 0 /\ consumed = 0
        OBVIOUS
      <3>2. wantsStop \in BOOLEAN
        BY ONLY <3>1
      <3>3. server \in Servers
        BY ONLY <3>1 DEF Servers, Serving
      <3> QED
        BY ONLY <3>1, <3>2, <3>3, BoundsAssumption DEF ServerTyped
    <2> QED
      BY ONLY <2>1, <2>2, <2>3, TypeParts
  <1>2. ServerInv
    BY DEF ServerInv
  <1>3. \A c \in Clients : ClientInv(c)
    BY DEF ClientInv
  <1> QED
    BY <1>1, <1>2, <1>3 DEF LocalInv

LEMMA ServerTypeNext == LocalInv /\ [Next]_vars => ServerTyped'
  <1> SUFFICES ASSUME LocalInv, [Next]_vars PROVE ServerTyped'
    OBVIOUS
  <1> USE Typed
      DEF ServerTyped, ServerInv, Servers, Serving, ServerStep, serverVars,
          ClientStep, Request, Answered
  <1>1. CASE Server \/ GiveUp \/ KillServer \/ Terminate
    <2>1. server' \in Servers
      BY <1>1
         DEF Server, GiveUp, KillServer, Terminate, InitEnergy, InitMeasure,
             InitRead, Publish, Continue, BeginWait, Stop, TakeRequest,
             Timeout, ReadEnergy, PostRead, Restart
    <2>2. /\ name' \in {0, name} /\ wantsStop' \in BOOLEAN
          /\ base' \in {base, consumed}
          /\ UNCHANGED << serving, nbServers, consumed >>
      BY <1>1
         DEF Server, GiveUp, KillServer, Terminate, InitEnergy, InitMeasure,
             InitRead, Publish, Continue, BeginWait, Stop, TakeRequest,
             Timeout, ReadEnergy, PostRead, Restart
    <2> QED
      BY <2>1, <2>2
  <1>2. CASE Create
    BY <1>2 DEF Create
  <1>3. ASSUME NEW c \in Clients, Client(c) \/ KillClient(c)
        PROVE  ServerTyped'
    BY <1>3
       DEF Client, Wait, ClientInit, ClientFini, BeginStart, BeginStop,
           EndStart, EndStop, Copy, KillClient
  <1>4. CASE Consume
    BY <1>4 DEF Consume
  <1>5. CASE UNCHANGED vars
    BY <1>5 DEF vars
  <1> QED
    BY <1>1, <1>2, <1>3, <1>4, <1>5 DEF Next

\* A step changes at most one segment, and leaves it well-typed.
LEMMA SegmentStep ==
  ASSUME LocalInv, [Next]_vars
  PROVE  shm' = shm \/ \E s \in Segments, x \in SegmentType :
                         shm' = [shm EXCEPT ![s] = x]
  <1> USE Typed
      DEF ServerTyped, ServerStep, ClientStep, SegmentType
  <1>1. CASE InitMeasure
    BY <1>1 DEF InitMeasure
  <1>2. CASE InitRead
    BY <1>2 DEF InitRead
  <1>3. CASE Publish
    <2>1. /\ shm' = [shm EXCEPT ![serving] = [shm[serving] EXCEPT
                                               !.published = TRUE, !.energy = 0]]
          /\ serving \in Segments
      BY <1>3 DEF Publish
    <2>2. [shm[serving] EXCEPT !.published = TRUE, !.energy = 0] \in SegmentType
      <3>1. shm[serving] \in SegmentType /\ 0 \in 0 .. MaxEvents
        BY <2>1
      <3> QED
        BY ONLY <3>1 DEF SegmentType
    <2> HIDE DEF SegmentType
    <2> QED
      BY <2>1, <2>2
  <1>4. CASE TakeRequest
    <2>1. /\ shm' = [shm EXCEPT ![serving] =
                       [shm[serving] EXCEPT !.measure = shm[serving].measure - 1]]
          /\ serving \in Segments /\ shm[serving].measure > 0
      BY <1>4 DEF TakeRequest
    <2>2. [shm[serving] EXCEPT !.measure = shm[serving].measure - 1]
            \in SegmentType
      BY <2>1
    <2> HIDE DEF SegmentType
    <2> QED
      BY <2>1, <2>2
  <1>5. CASE ReadEnergy
    <2>1. /\ shm' = [shm EXCEPT ![serving] =
                       [shm[serving] EXCEPT !.energy = consumed - base]]
          /\ serving \in Segments /\ consumed - base \in 0 .. MaxEvents
      BY <1>5 DEF ReadEnergy, ServerInv
    <2>2. [shm[serving] EXCEPT !.energy = consumed - base] \in SegmentType
      BY <2>1
    <2> HIDE DEF SegmentType
    <2> QED
      BY <2>1, <2>2
  <1>6. CASE PostRead
    <2>1. /\ shm' = [shm EXCEPT ![serving] =
                       [shm[serving] EXCEPT !.read = shm[serving].read + 1]]
          /\ serving \in Segments
      BY <1>6 DEF PostRead
    <2>2. [shm[serving] EXCEPT !.read = shm[serving].read + 1] \in SegmentType
      BY <2>1
    <2> HIDE DEF SegmentType
    <2> QED
      BY <2>1, <2>2
  <1>7. CASE Create
    <2>1. name' \in Segments
      BY <1>7 DEF Create, Segments, ServerInv
    <2>2. Empty \in SegmentType
      BY DEF Empty
    <2>3. \A x \in SegmentType, b \in BOOLEAN :
            [x EXCEPT !.early = b] \in SegmentType
      BY ONLY TRUE DEF SegmentType
    <2>4. (\E c \in Clients : Maps(c, name')) \in BOOLEAN
      OBVIOUS
    <2> HIDE DEF SegmentType
    <2> QED
      BY <1>7, <2>1, <2>2, <2>3, <2>4 DEF Create
  <1>8. ASSUME NEW c \in Clients, ClientInit(c)
        PROVE  \E s \in Segments, x \in SegmentType :
                 shm' = [shm EXCEPT ![s] = x]
    BY <1>8 DEF ClientInit
  <1>9. ASSUME NEW c \in Clients, BeginStart(c) \/ BeginStop(c)
        PROVE  \E s \in Segments, x \in SegmentType :
                 shm' = [shm EXCEPT ![s] = x]
    <2> DEFINE s == client[c].segment
               x == [shm[s] EXCEPT !.measure = shm[s].measure + 1]
    <2>1. s \in Segments
      BY <1>9 DEF BeginStart, BeginStop, Request
    <2>2. shm' = [shm EXCEPT ![s] = x]
      BY <1>9 DEF BeginStart, BeginStop, Request
    <2>3. x \in SegmentType
      BY <2>1
    <2> HIDE DEF SegmentType, s, x
    <2> QED
      BY <2>1, <2>2, <2>3
  <1>10. ASSUME NEW c \in Clients, EndStart(c) \/ EndStop(c)
         PROVE  \E s \in Segments, x \in SegmentType :
                  shm' = [shm EXCEPT ![s] = x]
    BY <1>10 DEF EndStart, EndStop, Answered
  <1>11. ASSUME NEW c \in Clients, KillClient(c), Waiting(c)
         PROVE  \E s \in Segments, x \in SegmentType :
                  shm' = [shm EXCEPT ![s] = x]
    <2> DEFINE s == client[c].segment
               x == [shm[s] EXCEPT !.orphans = shm[s].orphans + 1]
    <2>1. s \in Segments
      BY <1>11 DEF KillClient
    <2>2. shm' = [shm EXCEPT ![s] = x]
      BY <1>11 DEF KillClient
    <2>3. x \in SegmentType
      BY <2>1
    <2> HIDE DEF SegmentType, s, x
    <2> QED
      BY <2>1, <2>2, <2>3
  <1>12. ASSUME NEW c \in Clients, KillClient(c), ~Waiting(c)
         PROVE  shm' = shm
    BY <1>12 DEF KillClient
  <1>13. ASSUME NEW c \in Clients, ClientFini(c) \/ Copy(c)
         PROVE  shm' = shm
    BY <1>13 DEF ClientFini, Copy
  <1>14. CASE \/ InitEnergy \/ Continue \/ BeginWait \/ Stop \/ Timeout
              \/ Restart \/ GiveUp \/ KillServer \/ Terminate \/ Consume
              \/ UNCHANGED vars
    BY <1>14
       DEF InitEnergy, Continue, BeginWait, Stop, Timeout, Restart, GiveUp,
           KillServer, Terminate, Consume, vars
  <1> QED
    BY <1>1, <1>2, <1>3, <1>4, <1>5, <1>6, <1>7, <1>8, <1>9, <1>10, <1>11,
       <1>12, <1>13, <1>14 DEF Next, Server, Client, Wait

\* A step that changes a client leaves it well-typed.
LEMMA ClientTypeNext == LocalInv /\ [Next]_vars => client' \in [Clients -> ClientType]
  <1> SUFFICES ASSUME LocalInv, [Next]_vars
               PROVE  client' \in [Clients -> ClientType]
    OBVIOUS
  <1> USE Typed
  <1>1. ASSUME NEW s, ForgetWaiters(s)
        PROVE  client' \in [Clients -> ClientType]
    <2>1. PICK lost \in SUBSET WaitingOn(s) :
            client' = [c \in Clients |-> IF c \in lost
                                           THEN [client[c] EXCEPT !.asleep = TRUE]
                                           ELSE client[c]]
      BY <1>1 DEF ForgetWaiters
    <2>2. \A x \in ClientType : [x EXCEPT !.asleep = TRUE] \in ClientType
      BY DEF ClientType
    <2> QED
      BY <2>1, <2>2
  <1>2. ASSUME NEW c \in Clients, ClientInit(c)
        PROVE  client' \in [Clients -> ClientType]
    <2>1. \A x \in ClientType :
            [x EXCEPT !.pc = "ready", !.segment = name] \in ClientType
      BY DEF ClientType, ServerTyped, ClientPCs
    <2> QED
      BY <1>2, <2>1 DEF ClientInit, ClientStep
  <1>3. ASSUME NEW c \in Clients, ClientFini(c) \/ KillClient(c)
        PROVE  client' \in [Clients -> ClientType]
    <2>1. client[c].measures \in 0 .. MaxMeasures
      BY DEF ClientType
    <2>2. NoClient \in ClientType
      BY DEF NoClient, ClientType, ClientPCs
    <2>3. \A n \in 0 .. MaxMeasures :
            [NoClient EXCEPT !.measures = n] \in ClientType
      BY <2>2 DEF ClientType
    <2> QED
      BY <1>3, <2>1, <2>3 DEF ClientFini, KillClient, ClientStep, Gone
  <1>4. ASSUME NEW c \in Clients, BeginStart(c)
        PROVE  client' \in [Clients -> ClientType]
    <2>1. client[c].measures + 1 \in 0 .. MaxMeasures
      BY <1>4 DEF BeginStart, ClientType
    <2>2. PICK a \in BOOLEAN, x \in ClientType :
            /\ x = [client[c] EXCEPT
                      !.pc = "start_wait", !.measures = client[c].measures + 1,
                      !.got = 0, !.low = 0, !.high = consumed, !.alone = a]
            /\ client' = [d \in Clients |->
                            IF d = c THEN x
                            ELSE [client[d] EXCEPT !.alone = FALSE]]
      <3> DEFINE a == /\ shm[client[c].segment].orphans = 0
                      /\ \A d \in Clients \ {c} : ~Waiting(d)
                 x == [client[c] EXCEPT
                      !.pc = "start_wait", !.measures = client[c].measures + 1,
                      !.got = 0, !.low = 0, !.high = consumed, !.alone = a]
      <3>1. client' = [d \in Clients |->
                            IF d = c THEN x
                            ELSE [client[d] EXCEPT !.alone = FALSE]]
        BY <1>4 DEF BeginStart, Request
      <3>2. a \in BOOLEAN
        OBVIOUS
      <3>3. \A y \in ClientType, n \in 0 .. MaxMeasures, b \in BOOLEAN :
              [y EXCEPT !.pc = "start_wait", !.measures = n, !.got = 0,
                        !.low = 0, !.high = consumed, !.alone = b]
                \in ClientType
        <4>1. /\ \A y \in ClientType : /\ [y EXCEPT !.pc = "start_wait"] \in ClientType
                                       /\ [y EXCEPT !.got = 0] \in ClientType
              /\ \A y \in ClientType, n \in 0 .. MaxMeasures :
                   [y EXCEPT !.measures = n] \in ClientType
          BY DEF ClientType, ClientPCs
        <4>2. \A y \in ClientType : [y EXCEPT !.low = 0] \in ClientType
          BY DEF ClientType
        <4>3. \A y \in ClientType : [y EXCEPT !.high = consumed] \in ClientType
          BY DEF ClientType, ServerTyped
        <4>4. \A y \in ClientType, b \in BOOLEAN :
                [y EXCEPT !.alone = b] \in ClientType
          BY DEF ClientType
        <4> QED
          BY <4>1, <4>2, <4>3, <4>4
      <3>4. x \in ClientType
        <4> HIDE DEF a
        <4> QED
          BY <2>1, <3>2, <3>3
      <3> QED
        BY <3>1, <3>2, <3>4
    <2>3. \A y \in ClientType : [y EXCEPT !.alone = FALSE] \in ClientType
      BY DEF ClientType
    <2> QED
      BY <2>2, <2>3
  <1>5. ASSUME NEW c \in Clients, BeginStop(c)
        PROVE  client' \in [Clients -> ClientType]
    <2>1. PICK x \in ClientType :
            client' = [d \in Clients |->
                         IF d = c THEN x
                         ELSE [client[d] EXCEPT !.alone = FALSE]]
      <3> DEFINE x == [client[c] EXCEPT !.pc = "stop_wait",
                                        !.low = consumed - client[c].low]
      <3>1. client[c].pc = "on"
        BY <1>5 DEF BeginStop, Request
      <3>2. consumed - client[c].low \in 0 .. MaxEvents
        BY <3>1 DEF ClientInv, ClientType, ServerTyped
      <3>3. x \in ClientType
        BY <3>2 DEF ClientType, ClientPCs
      <3>4. client' = [d \in Clients |->
                         IF d = c THEN x
                         ELSE [client[d] EXCEPT !.alone = FALSE]]
        BY <1>5 DEF BeginStop, Request
      <3> QED
        BY <3>3, <3>4
    <2>2. \A y \in ClientType : [y EXCEPT !.alone = FALSE] \in ClientType
      BY DEF ClientType
    <2> QED
      BY <2>1, <2>2
  <1>6. ASSUME NEW c \in Clients, EndStart(c)
        PROVE  client' \in [Clients -> ClientType]
    <2>1. (server # "restart") \in BOOLEAN
      OBVIOUS
    <2>2. \A x \in ClientType, b \in BOOLEAN :
            [x EXCEPT !.pc = "on", !.low = consumed, !.prompt = b]
              \in ClientType
      BY DEF ClientType, ClientPCs, ServerTyped
    <2> QED
      BY <1>6, <2>1, <2>2 DEF EndStart, Answered, ClientStep
  <1>7. ASSUME NEW c \in Clients, EndStop(c)
        PROVE  client' \in [Clients -> ClientType]
    <2>1. client[c].pc = "stop_wait"
      BY <1>7 DEF EndStop, Answered
    <2>2. consumed - client[c].high \in 0 .. MaxEvents
      BY <2>1 DEF ClientInv, ClientType, ServerTyped
    <2>3. [client[c] EXCEPT !.pc = "copy", !.high = consumed - client[c].high]
            \in ClientType
      BY <2>2 DEF ClientType, ClientPCs
    <2>4. client' = [client EXCEPT ![c] =
            [client[c] EXCEPT !.pc = "copy",
                              !.high = consumed - client[c].high]]
      BY <1>7 DEF EndStop, Answered, ClientStep
    <2> QED
      BY <2>3, <2>4
  <1>8. ASSUME NEW c \in Clients, Copy(c)
        PROVE  client' \in [Clients -> ClientType]
    <2>1. shm[client[c].segment].energy \in 0 .. MaxEvents
      BY <1>8 DEF Copy, ClientStep, SegmentType
    <2>2. \A x \in ClientType, e \in 0 .. MaxEvents :
            [x EXCEPT !.pc = "ready", !.got = e] \in ClientType
      BY DEF ClientType, ClientPCs
    <2> QED
      BY <1>8, <2>1, <2>2 DEF Copy, ClientStep
  <1>9. ASSUME UNCHANGED client PROVE client' \in [Clients -> ClientType]
    BY <1>9
  <1> QED
    BY <1>1, <1>2, <1>3, <1>4, <1>5, <1>6, <1>7, <1>8, <1>9
       DEF Next, Server, Client, Wait, Create, GiveUp, InitEnergy, InitMeasure,
           InitRead, Publish, Continue, BeginWait, Stop, TakeRequest, Timeout,
           ReadEnergy, PostRead, Restart, KillServer, Terminate, Consume, vars

LEMMA TypeNext == LocalInv /\ [Next]_vars => TypeOK'
  <1> SUFFICES ASSUME LocalInv, [Next]_vars PROVE TypeOK'
    OBVIOUS
  <1>1. shm' \in [Segments -> SegmentType]
    BY SegmentStep, Typed
  <1>2. client' \in [Clients -> ClientType] /\ ServerTyped'
    BY ClientTypeNext, ServerTypeNext
  <1> QED
    BY <1>1, <1>2
       DEF TypeOK, ServerTyped, SegmentType, ClientType

LEMMA ServerInvNext == LocalInv /\ [Next]_vars => ServerInv'
  <1> SUFFICES ASSUME LocalInv, [Next]_vars PROVE ServerInv'
    OBVIOUS
  <1> USE Typed
      DEF ServerTyped, ServerInv, Past, Serving, ServerStep, serverVars,
          ClientStep, SegmentType
  <1>1. CASE Create
    <2>1. name' \in Segments /\ name' <= nbServers' /\ server' = "init"
      BY <1>1 DEF Create, Segments
    <2>2. shm'[name'].read = 0
      BY <1>1, <2>1 DEF Create, Empty
    <2>3. \A s \in Segments : s # name' => shm'[s] = shm[s]
      BY <1>1, <2>1 DEF Create
    <2>4. ASSUME NEW s \in Segments, shm'[s].read > 0
          PROVE  s <= nbServers' /\ Past(s)'
      <3>1. s # name' /\ s <= nbServers
        BY <2>2, <2>3, <2>4
      <3>2. nbServers \in Nat /\ nbServers' = nbServers + 1 /\ s \in Nat
        BY <1>1 DEF Create, Segments
      <3> QED
        BY ONLY <3>1, <3>2 DEF Past
    <2>5. nbServers' + consumed' <= MaxEvents /\ base' <= consumed'
      BY <1>1 DEF Create
    <2>6. serving' = name' /\ name' # 0
      BY <1>1, <2>1 DEF Create, Segments
    <2> QED
      BY <2>1, <2>4, <2>5, <2>6
  <1>2. CASE GiveUp
    BY <1>2 DEF GiveUp, Segments
  <1>3. CASE InitEnergy
    BY <1>3 DEF InitEnergy
  <1>4. CASE InitMeasure
    BY <1>4 DEF InitMeasure
  <1>5. CASE InitRead
    BY <1>5 DEF InitRead
  <1>6. CASE Publish
    BY <1>6 DEF Publish
  <1>7. CASE Continue \/ BeginWait \/ Stop \/ Timeout \/ KillServer \/ Terminate
    <2>1. CASE Continue \/ BeginWait \/ Timeout \/ KillServer
      BY <2>1 DEF Continue, BeginWait, Timeout, KillServer
    <2>2. CASE Stop
      BY <2>2 DEF Stop, Segments
    <2>3. CASE Terminate
      BY <2>3 DEF Terminate
    <2> QED
      BY <1>7, <2>1, <2>2, <2>3
  <1>8. CASE TakeRequest
    BY <1>8 DEF TakeRequest
  <1>9. CASE ReadEnergy
    BY <1>9 DEF ReadEnergy
  <1>10. CASE PostRead
    BY <1>10 DEF PostRead
  <1>11. CASE Restart
    BY <1>11 DEF Restart
  <1>12. ASSUME NEW c \in Clients, ClientInit(c) PROVE ServerInv'
    BY <1>12 DEF ClientInit
  <1>13. ASSUME NEW c \in Clients, ClientFini(c) \/ Copy(c) PROVE ServerInv'
    BY <1>13 DEF ClientFini, Copy
  <1>14. ASSUME NEW c \in Clients, BeginStart(c) \/ BeginStop(c)
         PROVE  ServerInv'
    <2>1. shm' = [shm EXCEPT ![client[c].segment] =
                    [shm[client[c].segment] EXCEPT
                       !.measure = shm[client[c].segment].measure + 1]]
      BY <1>14 DEF BeginStart, BeginStop, Request
    <2>2. \A s \in Segments : shm'[s].read = shm[s].read
      BY <2>1
    <2>3. UNCHANGED << name, server, serverVars, consumed >>
      BY <1>14 DEF BeginStart, BeginStop, Request
    <2> QED
      BY <2>2, <2>3
  <1>15. ASSUME NEW c \in Clients, EndStart(c) \/ EndStop(c)
         PROVE  ServerInv'
    BY <1>15 DEF EndStart, EndStop, Answered
  <1>16. ASSUME NEW c \in Clients, KillClient(c) PROVE ServerInv'
    BY <1>16 DEF KillClient
  <1>17. CASE Consume
    BY <1>17 DEF Consume
  <1>18. CASE UNCHANGED vars
    BY <1>18 DEF vars
  <1> QED
    BY <1>1, <1>2, <1>3, <1>4, <1>5, <1>6, <1>7, <1>8, <1>9, <1>10, <1>11,
       <1>12, <1>13, <1>14, <1>15, <1>16, <1>17, <1>18
       DEF Next, Server, Client, Wait

\* A segment that has given an answer is never set up again; servers are
\* counted and energy is consumed, never the other way.
LEMMA PastNext ==
  ASSUME LocalInv, [Next]_vars
  PROVE  /\ \A s \in 1 .. nbServers : Past(s) => Past(s)'
         /\ nbServers <= nbServers' /\ consumed <= consumed'
  <1> USE Typed
      DEF ServerTyped, ServerInv, Past, Serving, ServerStep, serverVars,
          ClientStep, Request, Answered
  <1>1. CASE Create
    <2>1. /\ nbServers' = nbServers + 1 /\ consumed' = consumed
          /\ name' = IF name = 0 THEN nbServers + 1 ELSE name
          /\ server = "off"
      BY <1>1 DEF Create
    <2> QED
      BY <2>1
  <1>2. CASE GiveUp \/ KillServer
    BY <1>2 DEF GiveUp, KillServer
  <1>3. CASE Terminate
    BY <1>3 DEF Terminate
  <1>4. CASE Stop
    BY <1>4 DEF Stop
  <1>5. CASE InitEnergy \/ InitMeasure \/ InitRead \/ Publish
    BY <1>5 DEF InitEnergy, InitMeasure, InitRead, Publish
  <1>6. CASE Continue \/ BeginWait \/ Timeout \/ TakeRequest
    BY <1>6 DEF Continue, BeginWait, Timeout, TakeRequest
  <1>7. CASE ReadEnergy \/ PostRead \/ Restart
    BY <1>7 DEF ReadEnergy, PostRead, Restart
  <1>8. ASSUME NEW c \in Clients, Client(c) \/ KillClient(c)
        PROVE  UNCHANGED << name, server, nbServers, consumed >>
    BY <1>8
       DEF Client, Wait, ClientInit, ClientFini, BeginStart, BeginStop,
           EndStart, EndStop, Copy, KillClient
  <1>9. CASE Consume
    BY <1>9 DEF Consume
  <1>10. CASE UNCHANGED vars
    BY <1>10 DEF vars
  <1> QED
    BY <1>1, <1>2, <1>3, <1>4, <1>5, <1>6, <1>7, <1>8, <1>9, <1>10
       DEF Next, Server

\* What the steps of others leave of client d.
Same(d) ==
  /\ client'[d].pc = client[d].pc
  /\ client'[d].segment = client[d].segment
  /\ client'[d].got = client[d].got
  /\ client'[d].low = client[d].low
  /\ client'[d].high = client[d].high
  /\ client'[d].prompt = client[d].prompt

LEMMA Forgotten ==
  ASSUME LocalInv, NEW s, ForgetWaiters(s), NEW d \in Clients
  PROVE  Same(d) /\ client'[d].alone = client[d].alone
  <1>1. PICK lost \in SUBSET WaitingOn(s) :
          client' = [c \in Clients |-> IF c \in lost
                                         THEN [client[c] EXCEPT !.asleep = TRUE]
                                         ELSE client[c]]
    BY DEF ForgetWaiters
  <1>2. \A x \in ClientType :
          LET y == [x EXCEPT !.asleep = TRUE] IN
          /\ y.pc = x.pc /\ y.segment = x.segment /\ y.got = x.got
          /\ y.low = x.low /\ y.high = x.high /\ y.prompt = x.prompt
          /\ y.alone = x.alone
    BY DEF ClientType
  <1> QED
    BY <1>1, <1>2, Typed DEF Same

LEMMA Others ==
  ASSUME LocalInv, [Next]_vars, NEW d \in Clients, ~Client(d), ~KillClient(d)
  PROVE  Same(d) /\ (client'[d].alone => client[d].alone)
  <1>1. CASE UNCHANGED client
    BY <1>1 DEF Same
  <1>2. ASSUME NEW c \in Clients, NEW from, NEW x, ClientStep(c, from, x), c # d
        PROVE  client'[d] = client[d]
    BY <1>2, Typed DEF ClientStep
  <1>3. ASSUME NEW c \in Clients, NEW from, NEW x, Request(c, from, x), c # d
        PROVE  Same(d) /\ ~client'[d].alone
    <2>1. client'[d] = [client[d] EXCEPT !.alone = FALSE]
      BY <1>3 DEF Request
    <2> QED
      BY <2>1, Typed DEF Same, ClientType
  <1>4. CASE \E c \in Clients : Client(c) \/ KillClient(c)
    <2>1. PICK c \in Clients : Client(c) \/ KillClient(c)
      BY <1>4
    <2>2. c # d
      BY <2>1
    <2>3. CASE BeginStart(c) \/ BeginStop(c)
      BY <1>3, <2>2, <2>3 DEF BeginStart, BeginStop
    <2>4. CASE ~BeginStart(c) /\ ~BeginStop(c)
      <3>1. client'[d] = client[d]
        BY <1>2, <2>1, <2>2, <2>4
           DEF Client, Wait, ClientInit, ClientFini, EndStart, EndStop,
               Answered, Copy, KillClient
      <3> QED
        BY <3>1 DEF Same
    <2> QED
      BY <2>3, <2>4
  <1>5. CASE Create \/ InitRead
    BY <1>5, Forgotten DEF Create, InitRead
  <1> QED
    BY <1>1, <1>4, <1>5
       DEF Next, Server, GiveUp, InitEnergy, InitMeasure, Publish, Continue,
           BeginWait, Stop, TakeRequest, Timeout, ReadEnergy, PostRead,
           Restart, KillServer, Terminate, Consume, vars

-----------------------------------------------------------------------------
(* What the steps of a client do, field by field.                          *)

Kept == UNCHANGED << name, server, serving, nbServers, wantsStop, base, consumed >>

LEMMA ClientInitDoes ==
  ASSUME LocalInv, NEW c \in Clients, ClientInit(c)
  PROVE  /\ client[c].pc = "off" /\ client'[c].pc = "ready"
         /\ client'[c].segment = name /\ name \in 1 .. nbServers
         /\ client'[c].alone = client[c].alone
         /\ \A s \in Segments : /\ shm'[s].measure = shm[s].measure
                                /\ shm'[s].read = shm[s].read
                                /\ shm'[s].orphans = shm[s].orphans
                                /\ shm'[s].energy = shm[s].energy
         /\ Kept
  <1>1. /\ client[c].pc = "off" /\ name # 0
        /\ client' = [client EXCEPT ![c] = [client[c] EXCEPT !.pc = "ready",
                                                            !.segment = name]]
        /\ Kept
    BY DEF ClientInit, ClientStep, serverVars, Kept
  <1>2. \A s \in Segments : /\ shm'[s].measure = shm[s].measure
                            /\ shm'[s].read = shm[s].read
                            /\ shm'[s].orphans = shm[s].orphans
                            /\ shm'[s].energy = shm[s].energy
    BY Typed DEF ClientInit, SegmentType
  <1> QED
    BY <1>1, <1>2, Typed DEF ServerInv, ServerTyped, ClientType

LEMMA GoneDoes ==
  ASSUME LocalInv, NEW c \in Clients, ClientFini(c) \/ KillClient(c)
  PROVE  /\ client'[c].pc = "off" /\ client'[c].alone = FALSE
         /\ \A d \in Clients : d # c => client'[d] = client[d]
         /\ Kept
  BY Typed
     DEF ClientFini, KillClient, ClientStep, serverVars, Gone, NoClient, Kept

LEMMA RequestDoes ==
  ASSUME LocalInv, NEW c \in Clients, BeginStart(c) \/ BeginStop(c)
  PROVE  /\ client[c].segment \in Segments
         /\ shm' = [shm EXCEPT ![client[c].segment] =
                      [shm[client[c].segment] EXCEPT
                         !.measure = shm[client[c].segment].measure + 1]]
         /\ shm'[client[c].segment].measure
              = shm[client[c].segment].measure + 1
         /\ \A s \in Segments :
              /\ s # client[c].segment => shm'[s].measure = shm[s].measure
              /\ shm'[s].read = shm[s].read
              /\ shm'[s].orphans = shm[s].orphans
              /\ shm'[s].energy = shm[s].energy
         /\ client'[c].segment = client[c].segment
         /\ client[c].pc \in {"ready", "on"}
         /\ client'[c].pc \in {"start_wait", "stop_wait"}
         /\ \A d \in Clients : d # c => /\ client'[d].pc = client[d].pc
                                        /\ client'[d].segment = client[d].segment
                                        /\ client'[d].alone = FALSE
         /\ Kept
  <1>1. /\ client[c].pc \in {"ready", "on"}
        /\ shm' = [shm EXCEPT ![client[c].segment] =
                     [shm[client[c].segment] EXCEPT
                        !.measure = shm[client[c].segment].measure + 1]]
        /\ Kept
    BY DEF BeginStart, BeginStop, Request, serverVars, Kept
  <1>2. client[c].segment \in Segments
    BY <1>1, Typed
  <1>3. /\ shm'[client[c].segment].measure
             = shm[client[c].segment].measure + 1
        /\ \A s \in Segments :
             /\ s # client[c].segment => shm'[s].measure = shm[s].measure
             /\ shm'[s].read = shm[s].read
             /\ shm'[s].orphans = shm[s].orphans
             /\ shm'[s].energy = shm[s].energy
    BY <1>1, <1>2, Typed DEF SegmentType
  <1>4. ASSUME NEW d \in Clients, d # c
        PROVE  /\ client'[d].pc = client[d].pc
               /\ client'[d].segment = client[d].segment
               /\ client'[d].alone = FALSE
    <2>1. client'[d] = [client[d] EXCEPT !.alone = FALSE]
      BY <1>4 DEF BeginStart, BeginStop, Request
    <2> QED
      BY <2>1, Typed DEF ClientType
  <1>5. /\ client'[c].segment = client[c].segment
        /\ client'[c].pc \in {"start_wait", "stop_wait"}
    <2>1. CASE BeginStart(c)
      BY <2>1, Typed DEF BeginStart, Request, ClientType
    <2>2. CASE BeginStop(c)
      BY <2>2, Typed DEF BeginStop, Request, ClientType
    <2> QED
      BY <2>1, <2>2
  <1> QED
    BY <1>1, <1>2, <1>3, <1>4, <1>5

LEMMA BeginStartDoes ==
  ASSUME LocalInv, NEW c \in Clients, BeginStart(c)
  PROVE  /\ client[c].pc = "ready" /\ client'[c].pc = "start_wait"
         /\ client'[c].high = consumed
         /\ client'[c].alone = (/\ shm[client[c].segment].orphans = 0
                                /\ \A d \in Clients \ {c} : ~Waiting(d))
  BY Typed DEF BeginStart, Request, ClientType

LEMMA BeginStopDoes ==
  ASSUME LocalInv, NEW c \in Clients, BeginStop(c)
  PROVE  /\ client[c].pc = "on" /\ client'[c].pc = "stop_wait"
         /\ client'[c].low = consumed - client[c].low
         /\ client'[c].high = client[c].high
         /\ client'[c].prompt = client[c].prompt
         /\ client'[c].alone = client[c].alone
  BY Typed DEF BeginStop, Request, ClientType

LEMMA AnswerDoes ==
  ASSUME LocalInv, NEW c \in Clients, EndStart(c) \/ EndStop(c)
  PROVE  /\ client[c].segment \in Segments
         /\ shm[client[c].segment].read > 0
         /\ shm'[client[c].segment].read = shm[client[c].segment].read - 1
         /\ \A s \in Segments :
              /\ s # client[c].segment => shm'[s].read = shm[s].read
              /\ shm'[s].measure = shm[s].measure
              /\ shm'[s].orphans = shm[s].orphans
              /\ shm'[s].energy = shm[s].energy
         /\ client'[c].segment = client[c].segment
         /\ client'[c].alone = client[c].alone
         /\ Waiting(c)
         /\ client'[c].pc \in {"on", "copy"}
         /\ \A d \in Clients : d # c => client'[d] = client[d]
         /\ Kept
  <1>1. /\ Waiting(c) /\ shm[client[c].segment].read > 0
        /\ shm' = [shm EXCEPT ![client[c].segment] =
                     [shm[client[c].segment] EXCEPT
                        !.read = shm[client[c].segment].read - 1]]
        /\ \A d \in Clients : d # c => client'[d] = client[d]
        /\ Kept
    BY Typed
       DEF EndStart, EndStop, Answered, ClientStep, serverVars, Waiting, Kept
  <1>2. client[c].segment \in Segments
    BY <1>1, Typed DEF Waiting
  <1>3. /\ shm'[client[c].segment].read = shm[client[c].segment].read - 1
        /\ \A s \in Segments :
             /\ s # client[c].segment => shm'[s].read = shm[s].read
             /\ shm'[s].measure = shm[s].measure
             /\ shm'[s].orphans = shm[s].orphans
             /\ shm'[s].energy = shm[s].energy
    BY <1>1, <1>2, Typed DEF SegmentType
  <1>4. /\ client'[c].segment = client[c].segment
        /\ client'[c].alone = client[c].alone
        /\ client'[c].pc \in {"on", "copy"}
    <2>1. CASE EndStart(c)
      BY <2>1, Typed DEF EndStart, Answered, ClientStep, ClientType
    <2>2. CASE EndStop(c)
      BY <2>2, Typed DEF EndStop, Answered, ClientStep, ClientType
    <2> QED
      BY <2>1, <2>2
  <1> QED
    BY <1>1, <1>2, <1>3, <1>4

LEMMA EndStartDoes ==
  ASSUME LocalInv, NEW c \in Clients, EndStart(c)
  PROVE  /\ client[c].pc = "start_wait" /\ client'[c].pc = "on"
         /\ client'[c].low = consumed
         /\ client'[c].high = client[c].high
         /\ client'[c].prompt = (server # "restart")
  BY Typed DEF EndStart, Answered, ClientStep, ClientType

LEMMA EndStopDoes ==
  ASSUME LocalInv, NEW c \in Clients, EndStop(c)
  PROVE  /\ client[c].pc = "stop_wait" /\ client'[c].pc = "copy"
         /\ client'[c].high = consumed - client[c].high
         /\ client'[c].low = client[c].low
         /\ client'[c].prompt = client[c].prompt
  BY Typed DEF EndStop, Answered, ClientStep, ClientType

LEMMA CopyDoes ==
  ASSUME LocalInv, NEW c \in Clients, Copy(c)
  PROVE  /\ client[c].pc = "copy" /\ client'[c].pc = "ready"
         /\ client'[c].got = shm[client[c].segment].energy
         /\ client'[c].segment = client[c].segment
         /\ client'[c].alone = client[c].alone
         /\ client'[c].high = client[c].high
         /\ client'[c].low = client[c].low
         /\ client'[c].prompt = client[c].prompt
         /\ \A d \in Clients : d # c => client'[d] = client[d]
         /\ Kept /\ shm' = shm
  <1>1. /\ client[c].pc = "copy"
        /\ client' = [client EXCEPT ![c] =
             [client[c] EXCEPT !.pc = "ready",
                               !.got = shm[client[c].segment].energy]]
        /\ Kept /\ shm' = shm
    BY DEF Copy, ClientStep, serverVars, Kept
  <1> QED
    BY <1>1, Typed DEF ClientType

LEMMA ClientInvNext ==
  ASSUME LocalInv, [Next]_vars, NEW c \in Clients
  PROVE  ClientInv(c)'
  <1> DEFINE seg == client[c].segment
  <1>1. ClientInv(c) /\ nbServers \in Nat /\ nbServers' \in Nat
        /\ consumed \in Nat /\ consumed' \in Nat /\ client[c] \in ClientType
    BY Typed, ServerTypeNext DEF ServerTyped
  <1>2. /\ seg \in 1 .. nbServers /\ Past(seg)
             => (name' = seg => server' \in Serving)
        /\ nbServers <= nbServers' /\ consumed <= consumed'
    BY PastNext DEF Past
  <1>3. CASE ~Client(c) /\ ~KillClient(c)
    <2>1. Same(c) /\ (client'[c].alone => client[c].alone)
      BY <1>3, Others
    <2> QED
      BY <1>1, <1>2, <2>1 DEF ClientInv, Same, ClientType, Past
  <1>4. CASE ClientInit(c)
    BY <1>1, <1>4, ClientInitDoes DEF ClientInv, Kept
  <1>5. CASE ClientFini(c) \/ KillClient(c)
    BY <1>5, GoneDoes DEF ClientInv
  <1>6. CASE BeginStart(c)
    <2>1. /\ client[c].pc = "ready" /\ client'[c].pc = "start_wait"
          /\ client'[c].high = consumed /\ client'[c].segment = seg
          /\ Kept
      BY <1>6, RequestDoes, BeginStartDoes
    <2> QED
      BY <1>1, <2>1 DEF ClientInv, Kept
  <1>7. CASE BeginStop(c)
    BY <1>1, <1>7, RequestDoes, BeginStopDoes DEF ClientInv, Kept, Past
  <1>8. CASE EndStart(c)
    <2>1. Past(seg)
      BY <1>8, AnswerDoes, Typed DEF ServerInv
    <2> QED
      BY <1>1, <1>8, <2>1, AnswerDoes, EndStartDoes DEF ClientInv, Kept, Past
  <1>9. CASE EndStop(c)
    BY <1>1, <1>9, AnswerDoes, EndStopDoes DEF ClientInv, Kept, Past
  <1>10. CASE Copy(c)
    BY <1>1, <1>10, CopyDoes DEF ClientInv, Kept
  <1> QED
    BY <1>3, <1>4, <1>5, <1>6, <1>7, <1>8, <1>9, <1>10 DEF Client, Wait

LEMMA LocalNext == LocalInv /\ [Next]_vars => LocalInv'
  BY TypeNext, ServerInvNext, ClientInvNext DEF LocalInv

-----------------------------------------------------------------------------
(* Requests, the one in service and answers.                               *)

Tokens(s) == shm[s].measure + InService(s) + shm[s].read

TokenInv(s) == Tokens(s) <= Cardinality(WaitingOn(s)) + shm[s].orphans

LEMMA CardWaiting ==
  ASSUME NEW s
  PROVE  /\ IsFiniteSet(WaitingOn(s)) /\ Cardinality(WaitingOn(s)) \in Nat
         /\ WaitingOn(s) = {} => Cardinality(WaitingOn(s)) = 0
         /\ \A c : WaitingOn(s) \subseteq {c} => Cardinality(WaitingOn(s)) <= 1
  <1>1. IsFiniteSet(WaitingOn(s))
    BY ClientsAssumption, FS_Subset DEF WaitingOn
  <1>2. ASSUME NEW c, WaitingOn(s) \subseteq {c}
        PROVE  Cardinality(WaitingOn(s)) <= 1
    <2>1. IsFiniteSet({c}) /\ Cardinality({c}) = 1
      BY FS_Singleton
    <2> QED
      BY <1>2, <2>1, FS_Subset
  <1> QED
    BY <1>1, <1>2, FS_CardinalityType, FS_EmptySet

\* Waiters stay, and come and go one by one.
LEMMA WaitingSame ==
  ASSUME NEW s, \A d \in Clients : /\ client'[d].pc = client[d].pc
                                   /\ client'[d].segment = client[d].segment
  PROVE  WaitingOn(s)' = WaitingOn(s)
  BY DEF WaitingOn, Waiting

LEMMA TokenNext ==
  ASSUME LocalInv, [Next]_vars, NEW s \in Segments, TokenInv(s)
  PROVE  TokenInv(s)'
  <1>1. /\ shm[s] \in SegmentType /\ shm'[s] \in SegmentType
        /\ Cardinality(WaitingOn(s)) \in Nat
    BY Typed, CardWaiting, TypeNext, TypeParts DEF TypeOK, SegmentType
  <1> USE <1>1 DEF TokenInv, Tokens, InService
  <1>2. ASSUME UNCHANGED << client >> PROVE WaitingOn(s)' = WaitingOn(s)
    BY <1>2 DEF WaitingOn, Waiting
  <1>3. ASSUME NEW x, ForgetWaiters(x) PROVE WaitingOn(s)' = WaitingOn(s)
    BY <1>3, Forgotten, WaitingSame DEF Same
  <1>4. CASE Create
    <2>1. WaitingOn(s)' = WaitingOn(s) /\ server = "off" /\ server' = "init"
      BY <1>3, <1>4 DEF Create, ServerStep
    <2>2. CASE s = name'
      <3>1. /\ shm'[s].measure = 0 /\ shm'[s].read = 0
        BY <1>4, <2>2, Typed DEF Create, Empty
      <3> QED
        BY <2>1, <3>1 DEF SegmentType
    <2>3. CASE s # name'
      <3>1. shm'[s] = shm[s]
        BY <1>4, <2>3, Typed DEF Create
      <3> QED
        BY <2>1, <3>1 DEF SegmentType
    <2> QED
      BY <2>2, <2>3
  <1>5. CASE InitMeasure \/ InitRead
    <2>1. WaitingOn(s)' = WaitingOn(s)
      BY <1>2, <1>3, <1>5 DEF InitMeasure, InitRead
    <2>2. /\ shm'[s].measure \in {0, shm[s].measure}
          /\ shm'[s].read \in {0, shm[s].read}
          /\ shm'[s].orphans = shm[s].orphans
      <3>1. CASE InitMeasure
        BY <3>1, Typed DEF InitMeasure, SegmentType
      <3>2. CASE InitRead
        BY <3>2, Typed DEF InitRead, SegmentType
      <3> QED
        BY <1>5, <3>1, <3>2
    <2>3. InService(s) = 0 /\ InService(s)' = 0
      BY <1>5 DEF InitMeasure, InitRead, ServerStep
    <2> QED
      BY <2>1, <2>2, <2>3 DEF SegmentType
  <1>6. CASE Publish
    <2>1. WaitingOn(s)' = WaitingOn(s)
      BY <1>2, <1>6 DEF Publish
    <2>2. /\ shm'[s].measure = shm[s].measure
          /\ shm'[s].read = shm[s].read
          /\ shm'[s].orphans = shm[s].orphans
      BY <1>6, Typed DEF Publish, SegmentType
    <2> QED
      BY <1>6, <2>1, <2>2 DEF Publish, ServerStep, SegmentType
  <1>7. CASE TakeRequest
    <2>1. WaitingOn(s)' = WaitingOn(s)
      BY <1>2, <1>7 DEF TakeRequest
    <2>2. /\ shm'[s].read = shm[s].read /\ shm'[s].orphans = shm[s].orphans
          /\ shm'[s].measure =
               IF s = serving THEN shm[s].measure - 1 ELSE shm[s].measure
      BY <1>7, Typed DEF TakeRequest, SegmentType
    <2>3. server = "wait" /\ server' = "read" /\ serving' = serving
      BY <1>7 DEF TakeRequest, ServerStep, serverVars
    <2> QED
      BY <2>1, <2>2, <2>3 DEF SegmentType
  <1>8. CASE ReadEnergy
    <2>1. WaitingOn(s)' = WaitingOn(s)
      BY <1>2, <1>8 DEF ReadEnergy
    <2>2. /\ shm'[s].measure = shm[s].measure
          /\ shm'[s].read = shm[s].read
          /\ shm'[s].orphans = shm[s].orphans
      BY <1>8, Typed DEF ReadEnergy, SegmentType
    <2>3. server = "read" /\ server' = "post" /\ serving' = serving
      BY <1>8 DEF ReadEnergy, ServerStep, serverVars
    <2> QED
      BY <2>1, <2>2, <2>3 DEF SegmentType
  <1>9. CASE PostRead
    <2>1. WaitingOn(s)' = WaitingOn(s)
      BY <1>2, <1>9 DEF PostRead
    <2>2. /\ shm'[s].measure = shm[s].measure
          /\ shm'[s].orphans = shm[s].orphans
          /\ shm'[s].read =
               IF s = serving THEN shm[s].read + 1 ELSE shm[s].read
      BY <1>9, Typed DEF PostRead, SegmentType
    <2>3. server = "post" /\ server' = "restart" /\ serving' = serving
      BY <1>9 DEF PostRead, ServerStep, serverVars
    <2> QED
      BY <2>1, <2>2, <2>3 DEF SegmentType
  <1>10. CASE \/ InitEnergy \/ Continue \/ BeginWait \/ Stop \/ Timeout
              \/ Restart \/ GiveUp \/ KillServer \/ Terminate \/ Consume
              \/ UNCHANGED vars
    <2>1. shm' = shm /\ client' = client /\ serving' = serving
      BY <1>10
         DEF InitEnergy, Continue, BeginWait, Stop, Timeout, Restart, GiveUp,
             KillServer, Terminate, Consume, vars, serverVars
    <2>2. server' \in {"read", "post"} <=> server \in {"read", "post"}
      BY <1>10
         DEF InitEnergy, Continue, BeginWait, Stop, Timeout, Restart, GiveUp,
             KillServer, Terminate, Consume, vars, ServerStep
    <2> QED
      BY <1>2, <2>1, <2>2
  <1>11. ASSUME NEW c \in Clients, Client(c) \/ KillClient(c)
         PROVE  TokenInv(s)'
    <2>1. Kept
      BY <1>11, ClientInitDoes, GoneDoes, RequestDoes, AnswerDoes, CopyDoes
         DEF Client, Wait
    <2>2. InService(s)' = InService(s) /\ InService(s) \in {0, 1}
      BY <2>1 DEF Kept
    <2>3. CASE ClientInit(c) \/ Copy(c)
      <3>1. \A d \in Clients : d # c => client'[d] = client[d]
        <4>1. ASSUME ClientInit(c)
              PROVE  \A d \in Clients : d # c => client'[d] = client[d]
          BY <4>1, Typed DEF ClientInit, ClientStep
        <4> QED
          BY <2>3, <4>1, CopyDoes
      <3>2. ~Waiting(c) /\ ~Waiting(c)'
        BY <2>3, ClientInitDoes, CopyDoes DEF Waiting
      <3>3. \A d \in Clients :
              d \in WaitingOn(s)' <=> d \in WaitingOn(s)
        BY <3>1, <3>2 DEF WaitingOn, Waiting
      <3>4. WaitingOn(s)' = WaitingOn(s)
        BY <3>3 DEF WaitingOn
      <3> QED
        BY <2>2, <2>3, <3>4, ClientInitDoes, CopyDoes
    <2>4. CASE BeginStart(c) \/ BeginStop(c)
      <3>0. /\ ~Waiting(c) /\ Waiting(c)'
            /\ client'[c].segment = client[c].segment
            /\ \A d \in Clients \ {c} :
                 /\ client'[d].pc = client[d].pc
                 /\ client'[d].segment = client[d].segment
        BY <2>4, RequestDoes DEF Waiting
      <3>1. CASE s = client[c].segment
        <4>1. WaitingOn(s)' = WaitingOn(s) \cup {c} /\ c \notin WaitingOn(s)
          <5>1. \A d \in Clients :
                  d \in WaitingOn(s)' <=> d \in WaitingOn(s) \/ d = c
            BY <3>0, <3>1 DEF WaitingOn, Waiting
          <5> QED
            BY <3>0, <5>1 DEF WaitingOn
        <4>2. Cardinality(WaitingOn(s)') = Cardinality(WaitingOn(s)) + 1
          BY <4>1, CardWaiting, FS_AddElement
        <4>3. /\ shm'[s].measure = shm[s].measure + 1
              /\ shm'[s].read = shm[s].read
              /\ shm'[s].orphans = shm[s].orphans
          BY <2>4, <3>1, RequestDoes
        <4> QED
          BY <2>2, <4>2, <4>3 DEF SegmentType
      <3>2. CASE s # client[c].segment
        <4>1. WaitingOn(s)' = WaitingOn(s)
          <5>1. \A d \in Clients : d \in WaitingOn(s)' <=> d \in WaitingOn(s)
            BY <3>0, <3>2 DEF WaitingOn, Waiting
          <5> QED
            BY <5>1 DEF WaitingOn
        <4> QED
          BY <2>2, <2>4, <3>2, <4>1, RequestDoes
      <3> QED
        BY <3>1, <3>2
    <2>5. CASE EndStart(c) \/ EndStop(c)
      <3>1. CASE s = client[c].segment
        <4>1. WaitingOn(s)' = WaitingOn(s) \ {c} /\ c \in WaitingOn(s)
          BY <2>5, <3>1, AnswerDoes DEF WaitingOn, Waiting
        <4>2. Cardinality(WaitingOn(s)') = Cardinality(WaitingOn(s)) - 1
          BY <4>1, CardWaiting, FS_RemoveElement
        <4> QED
          BY <2>2, <2>5, <3>1, <4>2, AnswerDoes DEF SegmentType
      <3>2. CASE s # client[c].segment
        <4>1. WaitingOn(s)' = WaitingOn(s)
          BY <2>5, <3>2, AnswerDoes DEF WaitingOn, Waiting
        <4> QED
          BY <2>2, <2>5, <3>2, <4>1, AnswerDoes
      <3> QED
        BY <3>1, <3>2
    <2>6. CASE ClientFini(c) \/ KillClient(c)
      <3>1. CASE Waiting(c) /\ s = client[c].segment
        <4>1. WaitingOn(s)' = WaitingOn(s) \ {c} /\ c \in WaitingOn(s)
          BY <2>6, <3>1, GoneDoes DEF WaitingOn, Waiting
        <4>2. Cardinality(WaitingOn(s)') = Cardinality(WaitingOn(s)) - 1
          BY <4>1, CardWaiting, FS_RemoveElement
        <4>3. KillClient(c)
          BY <2>6, <3>1 DEF ClientFini, ClientStep, Waiting
        <4>4. /\ shm'[s].measure = shm[s].measure
              /\ shm'[s].read = shm[s].read
              /\ shm'[s].orphans = shm[s].orphans + 1
          BY <3>1, <4>3, Typed DEF KillClient, SegmentType
        <4> QED
          BY <2>2, <4>2, <4>4 DEF SegmentType
      <3>2. CASE ~(Waiting(c) /\ s = client[c].segment)
        <4>1. WaitingOn(s)' = WaitingOn(s)
          BY <2>6, <3>2, GoneDoes DEF WaitingOn, Waiting
        <4>2. shm'[s] = shm[s]
          BY <2>6, <3>2, Typed DEF KillClient, ClientFini, Waiting
        <4> QED
          BY <2>2, <4>1, <4>2
      <3> QED
        BY <3>1, <3>2
    <2> QED
      BY <1>11, <2>3, <2>4, <2>5, <2>6 DEF Client, Wait
  <1> QED
    BY <1>4, <1>5, <1>6, <1>7, <1>8, <1>9, <1>10, <1>11 DEF Next, Server

LEMMA TokensNext == LocalInv /\ NoAnswerUnasked /\ [Next]_vars => NoAnswerUnasked'
  <1> SUFFICES ASSUME LocalInv, NoAnswerUnasked, [Next]_vars,
                      NEW s \in Segments
               PROVE  TokenInv(s)'
    BY DEF NoAnswerUnasked, TokenInv, Tokens
  <1>1. TokenInv(s)
    BY DEF NoAnswerUnasked, TokenInv, Tokens
  <1> QED
    BY <1>1, TokenNext

\* In the segment of a client that is alone there is no token but its own.
LEMMA OwnToken ==
  ASSUME LocalInv, NoAnswerUnasked, NEW c \in Clients, Sole(c),
         client[c].pc # "off"
  PROVE  LET s == client[c].segment IN
         /\ s \in Segments
         /\ shm[s].read \in 0 .. 1
         /\ ~Waiting(c) => shm[s].read = 0 /\ ~ServedAt(c, {"read", "post"})
         /\ shm[s].read > 0 => ~ServedAt(c, {"read", "post"})
  <1> DEFINE s == client[c].segment
  <1>1. s \in Segments /\ shm[s] \in SegmentType
    BY Typed
  <1>2. WaitingOn(s) \subseteq {c} /\ (~Waiting(c) => WaitingOn(s) = {})
    BY DEF Sole, WaitingOn
  <1>3. Cardinality(WaitingOn(s)) \in 0 .. 1
        /\ (~Waiting(c) => Cardinality(WaitingOn(s)) = 0)
    BY <1>2, CardWaiting
  <1>4. Tokens(s) <= Cardinality(WaitingOn(s))
    <2>1. TokenInv(s)
      BY <1>1 DEF NoAnswerUnasked, TokenInv, Tokens
    <2> QED
      BY <1>1, <1>3, <2>1 DEF TokenInv, Sole, SegmentType, Tokens, InService
  <1>5. ServedAt(c, {"read", "post"}) <=> InService(s) = 1
    BY DEF ServedAt, InService
  <1>6. InService(s) \in {0, 1}
    BY DEF InService
  <1> QED
    BY <1>1, <1>3, <1>4, <1>5, <1>6 DEF Tokens, SegmentType

\* While the server sets the segment up, no answer has been given there.
LEMMA SetUp ==
  ASSUME LocalInv, NEW c \in Clients, client[c].pc # "off",
         name = client[c].segment, server \notin Serving
  PROVE  /\ client[c].pc \in {"ready", "start_wait"}
         /\ shm[client[c].segment].read = 0
  BY Typed DEF ServerInv, ClientInv, Past, ClientType, ClientPCs, SegmentType

-----------------------------------------------------------------------------
(* The measurement of a client that is alone.                              *)

\* Steps that touch neither the answer to the client nor the measurement of
\* its server, or where it has no server.
LEMMA MeasureKept ==
  ASSUME LocalInv, NEW c \in Clients, MeasureInv(c), client[c].alone,
         Same(c), Sole(c)',
         consumed' \in Nat, consumed <= consumed',
         \/ UNCHANGED << shm[client[c].segment].read,
                         shm[client[c].segment].energy >>
         \/ /\ client[c].pc \in {"ready", "start_wait"}
            /\ shm'[client[c].segment].read = 0,
         \/ serving' # client[c].segment
         \/ server' \notin Serving
         \/ /\ UNCHANGED << serving, base >>
            /\ server \in Serving
            /\ \A where \in {"restart", "post"} : server' = where <=> server = where
  PROVE  MeasureInv(c)'
  <1> DEFINE s == client[c].segment
  <1>1. /\ client[c] \in ClientType /\ ClientInv(c) /\ base \in Nat
        /\ consumed \in Nat
        /\ client[c].pc # "off" => s \in Segments /\ shm[s] \in SegmentType
    BY Typed DEF ServerTyped
  <1>2. \/ serving' # s
        \/ server' \notin Serving
        \/ /\ UNCHANGED << serving, base >>
           /\ server \in Serving
           /\ \A where \in {"restart", "post"} : server' = where <=> server = where
    OBVIOUS
  <1>3. ASSUME StartedAnew(c) PROVE StartedAnew(c)'
    BY <1>2, <1>3 DEF StartedAnew, ServedAt, Same, Serving
  <1>4. ASSUME OnInv(c) PROVE OnInv(c)'
    BY <1>2, <1>3, <1>4 DEF OnInv, ServedAt, Same, Serving
  <1>5. ASSUME NEW e \in Nat, client[c].pc = "stop_wait", Own(c, e)
        PROVE  /\ e <= consumed' - client'[c].high
               /\ client'[c].prompt => client'[c].low <= e
    BY <1>1, <1>5 DEF Own, Same, ClientInv, ClientType
  <1>6. ASSUME client[c].pc = "stop_wait", StopInv(c) PROVE StopInv(c)'
    <2>1. /\ shm'[s].read = shm[s].read /\ shm'[s].energy = shm[s].energy
          /\ client'[c].segment = s
      BY <1>6 DEF Same
    <2>2. ASSUME shm'[s].read > 0 \/ ServedAt(c, {"post"})'
          PROVE  Own(c, shm[client[c].segment].energy)'
      <3>1. shm[s].read > 0 \/ ServedAt(c, {"post"})
        BY <1>2, <2>1, <2>2 DEF ServedAt, Serving
      <3>2. Own(c, shm[s].energy) /\ shm[s].energy \in Nat
        BY <1>1, <1>6, <3>1 DEF StopInv, SegmentType
      <3> QED
        BY <1>5, <1>6, <2>1, <3>2 DEF Own
    <2>3. ASSUME shm'[s].read = 0, ServedAt(c, Serving \ {"restart", "post"})'
          PROVE  Own(c, consumed - base)'
      <3>1. /\ shm[s].read = 0 /\ ServedAt(c, Serving \ {"restart", "post"})
            /\ base' = base
        BY <1>2, <2>1, <2>3 DEF ServedAt
      <3>2. Own(c, consumed - base)
        BY <1>6, <3>1 DEF StopInv
      <3> QED
        BY <1>1, <1>6, <3>1, <3>2 DEF Own, Same, ClientInv, ClientType
    <2>4. ASSUME shm'[s].read = 0, ServedAt(c, {"restart"})'
          PROVE  ~client'[c].prompt
      BY <1>2, <1>6, <2>1, <2>4 DEF ServedAt, StopInv, Same, Serving
    <2> QED
      BY <2>1, <2>2, <2>3, <2>4 DEF StopInv
  <1>7. ASSUME client[c].pc = "copy", GotInv(c, shm[s].energy)
        PROVE  GotInv(c, shm[client[c].segment].energy)'
    BY <1>7 DEF GotInv, Same
  <1>8. ASSUME GotInv(c, client[c].got) PROVE GotInv(c, client[c].got)'
    BY <1>8 DEF GotInv, Same
  <1> QED
    BY <1>1, <1>3, <1>4, <1>6, <1>7, <1>8 DEF MeasureInv, Same, SegmentType

\* Whoever is alone after a step was alone before, or has just begun.
LEMMA SoleNext ==
  ASSUME LocalInv, [Next]_vars, NEW c \in Clients, MeasureInv(c),
         client'[c].alone
  PROVE  Sole(c)' /\ (BeginStart(c) \/ client[c].alone)
  <1> DEFINE seg == client[c].segment
  <1>1. CASE BeginStart(c)
    <2>1. shm[seg].orphans = 0 /\ \A d \in Clients \ {c} : ~Waiting(d)
      BY <1>1, BeginStartDoes
    <2>2. /\ client'[c].segment = seg /\ shm'[seg].orphans = shm[seg].orphans
          /\ \A d \in Clients \ {c} : client'[d].pc = client[d].pc
      BY <1>1, RequestDoes
    <2> QED
      BY <1>1, <2>1, <2>2 DEF Sole, Waiting
  <1>2. CASE ~BeginStart(c) /\ (Client(c) \/ KillClient(c))
    <2>1. ~ClientInit(c) /\ ~ClientFini(c) /\ ~KillClient(c)
      BY ClientInitDoes, GoneDoes, Typed DEF ClientInv
    <2>2. BeginStop(c) \/ EndStart(c) \/ EndStop(c) \/ Copy(c)
      BY <1>2, <2>1 DEF Client, Wait
    <2>3. client[c].alone
      BY <2>2, BeginStopDoes, AnswerDoes, CopyDoes
    <2>4. Sole(c)
      BY <2>3 DEF MeasureInv
    <2>5. /\ client'[c].segment = seg /\ shm'[seg].orphans = shm[seg].orphans
          /\ \A d \in Clients \ {c} : client'[d].pc = client[d].pc
      BY <2>2, RequestDoes, AnswerDoes, CopyDoes
    <2> QED
      BY <2>3, <2>4, <2>5 DEF Sole, Waiting
  <1>3. CASE ~Client(c) /\ ~KillClient(c)
    <2>1. Same(c) /\ client[c].alone
      BY <1>3, Others
    <2>2. Sole(c) /\ client[c].pc # "off" /\ seg \in Segments
      BY <2>1, Typed DEF MeasureInv, ClientInv
    <2>3. ASSUME NEW d \in Clients, Client(d) \/ KillClient(d)
          PROVE  Sole(c)'
      <3>1. d # c /\ ~Waiting(d)
        BY <1>3, <2>2, <2>3 DEF Sole
      <3>2. ~BeginStart(d) /\ ~BeginStop(d) /\ ~EndStart(d) /\ ~EndStop(d)
        BY <3>1, RequestDoes, AnswerDoes
      <3>3. client'[d].pc \in {"off", "ready"}
        BY <2>3, <3>2, ClientInitDoes, GoneDoes, CopyDoes DEF Client, Wait
      <3>4. \A e \in Clients : e # d => client'[e].pc = client[e].pc
        <4>1. CASE ClientInit(d)
          BY <4>1, Typed DEF ClientInit, ClientStep
        <4>2. CASE ClientFini(d) \/ KillClient(d)
          BY <4>2, GoneDoes
        <4>3. CASE Copy(d)
          BY <4>3, CopyDoes
        <4> QED
          BY <2>3, <3>2, <4>1, <4>2, <4>3 DEF Client, Wait
      <3>5. shm'[seg].orphans = shm[seg].orphans
        BY <2>2, <2>3, <3>1, <3>2, ClientInitDoes
           DEF Client, Wait, ClientFini, Copy, KillClient
      <3> QED
        BY <2>1, <2>2, <3>3, <3>4, <3>5 DEF Sole, Waiting, Same
    <2>4. ASSUME ~\E d \in Clients : Client(d) \/ KillClient(d)
          PROVE  Sole(c)'
      <3>1. \A d \in Clients : client'[d].pc = client[d].pc
        BY <2>4, Others DEF Same
      <3>2. shm'[seg].orphans = 0
        <4>1. shm[seg] \in SegmentType /\ shm[seg].orphans = 0
          BY <2>2, Typed DEF Sole
        <4>2. CASE Create
          <5>1. CASE seg = name'
            BY <2>2, <4>2, <5>1, Typed DEF Create, Empty
          <5>2. CASE seg # name'
            BY <2>2, <4>1, <4>2, <5>2, Typed DEF Create
          <5> QED
            BY <5>1, <5>2
        <4>3. CASE InitMeasure
          BY <2>2, <4>1, <4>3, Typed DEF InitMeasure, SegmentType
        <4>4. CASE InitRead
          BY <2>2, <4>1, <4>4, Typed DEF InitRead, SegmentType
        <4>5. CASE Publish
          BY <2>2, <4>1, <4>5, Typed DEF Publish, SegmentType
        <4>6. CASE TakeRequest
          BY <2>2, <4>1, <4>6, Typed DEF TakeRequest, SegmentType
        <4>7. CASE ReadEnergy
          BY <2>2, <4>1, <4>7, Typed DEF ReadEnergy, SegmentType
        <4>8. CASE PostRead
          BY <2>2, <4>1, <4>8, Typed DEF PostRead, SegmentType
        <4>9. CASE shm' = shm
          BY <4>1, <4>9
        <4> QED
          BY <2>4, <4>2, <4>3, <4>4, <4>5, <4>6, <4>7, <4>8, <4>9
             DEF Next, Server, InitEnergy, Continue, BeginWait, Stop, Timeout,
                 Restart, GiveUp, KillServer, Terminate, Consume, vars
      <3> QED
        BY <2>1, <2>2, <3>1, <3>2 DEF Sole, Waiting, Same
    <2> QED
      BY <2>1, <2>3, <2>4
  <1> QED
    BY <1>1, <1>2, <1>3

\* The steps of the client itself.
LEMMA MeasureClient ==
  ASSUME LocalInv, NoAnswerUnasked, NEW c \in Clients, MeasureInv(c),
         Client(c) \/ KillClient(c), client'[c].alone, Sole(c)'
  PROVE  MeasureInv(c)'
  <1> DEFINE seg == client[c].segment
  <1>1. /\ client[c] \in ClientType /\ ClientInv(c) /\ base \in Nat
        /\ consumed \in Nat /\ base <= consumed
        /\ client[c].pc # "off" => seg \in Segments /\ shm[seg] \in SegmentType
    BY Typed DEF ServerTyped, ServerInv
  <1>2. ~ClientInit(c) /\ ~ClientFini(c) /\ ~KillClient(c)
    BY ClientInitDoes, GoneDoes, Typed DEF ClientInv
  <1>3. CASE BeginStart(c)
    <2>1. /\ client[c].pc = "ready" /\ client'[c].pc = "start_wait"
          /\ client'[c].segment = seg /\ shm'[seg].read = shm[seg].read
          /\ shm[seg].orphans = 0 /\ \A d \in Clients \ {c} : ~Waiting(d)
      BY <1>3, BeginStartDoes, RequestDoes
    <2>2. Sole(c) /\ ~Waiting(c)
      BY <2>1 DEF Sole, Waiting
    <2>3. shm[seg].read = 0
      BY <2>1, <2>2, OwnToken
    <2> QED
      BY <2>1, <2>3 DEF MeasureInv
  <1>4. ASSUME client[c].pc # "ready"
        PROVE  client[c].alone /\ Sole(c) /\ client[c].pc # "off"
    BY <1>1, <1>2, <1>4, BeginStartDoes, BeginStopDoes, AnswerDoes, CopyDoes
       DEF Client, Wait, MeasureInv, ClientInv
  <1>5. CASE EndStart(c)
    <2>1. /\ client[c].pc = "start_wait" /\ client'[c].pc = "on"
          /\ client'[c].segment = seg /\ client'[c].high = client[c].high
          /\ client'[c].low = consumed
          /\ client'[c].prompt = (server # "restart")
          /\ shm[seg].read > 0 /\ Kept
      BY <1>5, EndStartDoes, AnswerDoes
    <2>2. StartedAnew(c)
      BY <1>4, <2>1 DEF MeasureInv
    <2>3. OnInv(c)'
      BY <1>1, <2>1, <2>2 DEF OnInv, StartedAnew, ServedAt, Kept
    <2> QED
      BY <2>1, <2>3 DEF MeasureInv
  <1>6. CASE BeginStop(c)
    <2>1. /\ client[c].pc = "on" /\ client'[c].pc = "stop_wait"
          /\ client'[c].segment = seg /\ client'[c].high = client[c].high
          /\ client'[c].low = consumed - client[c].low
          /\ client'[c].prompt = client[c].prompt
          /\ shm'[seg].read = shm[seg].read /\ Kept
      BY <1>6, BeginStopDoes, RequestDoes
    <2>2. OnInv(c)
      BY <1>4, <2>1 DEF MeasureInv
    <2>3. shm[seg].read = 0 /\ ~ServedAt(c, {"read", "post"})
      BY <1>4, <2>1, OwnToken DEF Waiting
    <2>4. ~(shm'[seg].read > 0) /\ ~ServedAt(c, {"post"})'
      BY <2>1, <2>3 DEF ServedAt, Kept
    <2>5. ASSUME ServedAt(c, Serving \ {"restart", "post"})'
          PROVE  Own(c, consumed - base)'
      <3>1. ServedAt(c, Serving \ {"restart"}) /\ ServedAt(c, Serving)
        BY <2>1, <2>5 DEF ServedAt, Kept
      <3>2. client[c].high <= base
        BY <2>2, <3>1 DEF OnInv, StartedAnew
      <3>3. client[c].prompt => base <= client[c].low
        BY <2>2, <3>1 DEF OnInv
      <3> QED
        BY <1>1, <2>1, <3>2, <3>3 DEF Own, Kept, ClientType
    <2>6. ServedAt(c, {"restart"})' => ~client'[c].prompt
      BY <2>1, <2>2 DEF OnInv, ServedAt, Kept
    <2>7. StopInv(c)'
      BY <2>1, <2>4, <2>5, <2>6 DEF StopInv
    <2> QED
      BY <2>1, <2>7 DEF MeasureInv
  <1>7. CASE EndStop(c)
    <2>1. /\ client[c].pc = "stop_wait" /\ client'[c].pc = "copy"
          /\ client'[c].segment = seg /\ client'[c].low = client[c].low
          /\ client'[c].high = consumed - client[c].high
          /\ client'[c].prompt = client[c].prompt
          /\ shm[seg].read > 0 /\ shm'[seg].energy = shm[seg].energy
      BY <1>7, EndStopDoes, AnswerDoes
    <2>2. Own(c, shm[seg].energy)
      BY <1>4, <2>1 DEF MeasureInv, StopInv
    <2>3. GotInv(c, shm[client[c].segment].energy)'
      BY <2>1, <2>2 DEF GotInv, Own
    <2> QED
      BY <2>1, <2>3 DEF MeasureInv
  <1>8. CASE Copy(c)
    <2>1. GotInv(c, shm[seg].energy)
      BY <1>4, <1>8, CopyDoes DEF MeasureInv
    <2>2. GotInv(c, client[c].got)'
      BY <1>8, <2>1, CopyDoes DEF GotInv
    <2> QED
      BY <1>8, <2>2, CopyDoes DEF MeasureInv
  <1> QED
    BY <1>2, <1>3, <1>5, <1>6, <1>7, <1>8 DEF Client, Wait

\* The steps of another client.
LEMMA MeasureOther ==
  ASSUME LocalInv, [Next]_vars, NEW c \in Clients, MeasureInv(c),
         client[c].alone, Sole(c), Sole(c)', ~Client(c), ~KillClient(c),
         NEW d \in Clients, Client(d) \/ KillClient(d), client'[c].alone
  PROVE  MeasureInv(c)'
  <1>1. client[c].segment \in Segments /\ Same(c)
    BY Others, Typed DEF ClientInv
  <1>2. d # c /\ ~Waiting(d)
    BY DEF Sole
  <1>3. ~BeginStart(d) /\ ~BeginStop(d) /\ ~EndStart(d) /\ ~EndStop(d)
    BY <1>2, RequestDoes, AnswerDoes
  <1>4. /\ shm'[client[c].segment].read = shm[client[c].segment].read
        /\ shm'[client[c].segment].energy = shm[client[c].segment].energy
    BY <1>1, <1>2, <1>3, ClientInitDoes
       DEF Client, Wait, ClientFini, Copy, KillClient
  <1>5. Kept
    BY <1>3, ClientInitDoes, GoneDoes, CopyDoes DEF Client, Wait
  <1>6. consumed \in Nat
    BY Typed DEF ServerTyped
  <1> QED
    BY <1>1, <1>4, <1>5, <1>6, MeasureKept DEF Kept, Same

\* The steps of the server by which it comes to the answer.
LEMMA MeasureServe ==
  ASSUME LocalInv, NoAnswerUnasked, NEW c \in Clients, MeasureInv(c),
         client[c].alone, Sole(c), Sole(c)', Same(c),
         ReadEnergy \/ PostRead \/ Restart
  PROVE  MeasureInv(c)'
  <1> DEFINE seg == client[c].segment
  <1>1. /\ client[c] \in ClientType /\ ClientInv(c) /\ client[c].pc # "off"
        /\ base \in Nat /\ consumed \in Nat /\ base <= consumed
        /\ seg \in Segments /\ shm[seg] \in SegmentType /\ serving \in Segments
    BY Typed
       DEF ServerTyped, ServerInv, ClientInv, ReadEnergy, PostRead, Restart,
           ServerStep
  <1>2. client'[c].segment = seg /\ client'[c].pc = client[c].pc
    BY DEF Same
  <1>3. CASE serving # seg
    <2>1. shm'[seg] = shm[seg] /\ serving' = serving /\ consumed' = consumed
      BY <1>1, <1>3, Typed DEF ReadEnergy, PostRead, Restart, serverVars
    <2> QED
      BY <1>1, <1>2, <1>3, <2>1, MeasureKept
  <1>4. CASE serving = seg /\ ReadEnergy
    <2>1. /\ server = "read" /\ server' = "post" /\ serving' = serving
          /\ consumed' = consumed
          /\ shm'[seg].energy = consumed - base
          /\ shm'[seg].read = shm[seg].read
      BY <1>1, <1>4, Typed DEF ReadEnergy, ServerStep, serverVars, SegmentType
    <2>2. ServedAt(c, {"read", "post"}) /\ Waiting(c) /\ shm[seg].read = 0
      BY <1>1, <1>4, <2>1, OwnToken DEF ServedAt
    <2>3. CASE client[c].pc = "stop_wait"
      <3>1. Own(c, consumed - base)
        BY <2>1, <2>2, <2>3, <1>4 DEF MeasureInv, StopInv, ServedAt, Serving
      <3>2. Own(c, shm[client[c].segment].energy)'
        BY <1>2, <2>1, <3>1 DEF Own, Same
      <3>3. StopInv(c)'
        BY <1>2, <2>1, <2>2, <3>2 DEF StopInv, ServedAt
      <3> QED
        BY <1>2, <2>3, <3>3 DEF MeasureInv
    <2>4. CASE client[c].pc = "start_wait"
      BY <1>2, <2>1, <2>2, <2>4 DEF MeasureInv
    <2> QED
      BY <2>2, <2>3, <2>4 DEF Waiting
  <1>5. CASE serving = seg /\ PostRead
    <2>1. /\ server = "post" /\ server' = "restart" /\ serving' = serving
          /\ consumed' = consumed
          /\ shm'[seg].energy = shm[seg].energy
          /\ shm'[seg].read = shm[seg].read + 1
      BY <1>1, <1>5, Typed DEF PostRead, ServerStep, serverVars, SegmentType
    <2>2. ServedAt(c, {"read", "post"}) /\ Waiting(c) /\ shm[seg].read = 0
      BY <1>1, <1>5, <2>1, OwnToken DEF ServedAt
    <2>3. CASE client[c].pc = "stop_wait"
      <3>1. Own(c, shm[seg].energy)
        BY <2>1, <2>3, <1>5 DEF MeasureInv, StopInv, ServedAt
      <3>2. Own(c, shm[client[c].segment].energy)'
        BY <1>2, <2>1, <3>1 DEF Own, Same
      <3>3. StopInv(c)'
        BY <1>2, <2>1, <2>2, <3>2 DEF StopInv
      <3> QED
        BY <1>2, <2>3, <3>3 DEF MeasureInv
    <2>4. CASE client[c].pc = "start_wait"
      <3>1. StartedAnew(c)'
        BY <2>1 DEF StartedAnew, ServedAt
      <3> QED
        BY <1>2, <2>4, <3>1 DEF MeasureInv
    <2> QED
      BY <2>2, <2>3, <2>4 DEF Waiting
  <1>6. CASE serving = seg /\ Restart
    <2>1. /\ server = "restart" /\ server' = "loop" /\ serving' = serving
          /\ consumed' = consumed /\ base' = consumed /\ shm' = shm
          /\ ServedAt(c, {"restart"}) /\ ServedAt(c, Serving)
      BY <1>6 DEF Restart, ServerStep, ServedAt, Serving
    <2>2. client[c].pc \in {"start_wait", "on", "stop_wait"} => StartedAnew(c)'
      BY <1>1, <2>1 DEF StartedAnew, ClientInv, Same
    <2>3. CASE client[c].pc = "on"
      <3>1. ~client[c].prompt
        BY <2>1, <2>3 DEF MeasureInv, OnInv
      <3>2. OnInv(c)'
        BY <2>2, <2>3, <3>1 DEF OnInv, Same
      <3> QED
        BY <1>2, <2>3, <3>2 DEF MeasureInv
    <2>4. CASE client[c].pc = "stop_wait"
      <3>1. StopInv(c)
        BY <2>4 DEF MeasureInv
      <3>2. ASSUME shm[seg].read > 0
            PROVE  Own(c, shm[client[c].segment].energy)'
        <4>1. Own(c, shm[seg].energy)
          BY <3>1, <3>2 DEF StopInv
        <4> QED
          BY <1>2, <2>1, <4>1 DEF Own, Same
      <3>3. ASSUME shm[seg].read = 0
            PROVE  Own(c, consumed - base)'
        <4>1. ~client[c].prompt
          BY <2>1, <3>1, <3>3 DEF StopInv
        <4>2. client[c].high <= consumed /\ client[c].high \in Nat
          BY <1>1, <2>4 DEF ClientInv, ClientType
        <4> QED
          BY <1>1, <2>1, <4>1, <4>2 DEF Own, Same
      <3>4. StopInv(c)'
        BY <1>2, <2>1, <3>2, <3>3 DEF StopInv, ServedAt
      <3> QED
        BY <1>2, <2>4, <3>4 DEF MeasureInv
    <2>5. CASE client[c].pc = "start_wait"
      BY <1>2, <2>2, <2>5 DEF MeasureInv
    <2>6. CASE client[c].pc \in {"copy", "ready"}
      BY <1>2, <2>1, <2>6 DEF MeasureInv, GotInv, Same
    <2> QED
      BY <1>1, <2>3, <2>4, <2>5, <2>6 DEF ClientType, ClientPCs
  <1> QED
    BY <1>3, <1>4, <1>5, <1>6

\* All other steps.
LEMMA MeasureRest ==
  ASSUME LocalInv, [Next]_vars, NEW c \in Clients, MeasureInv(c),
         client[c].alone, Sole(c)', Same(c),
         ~ReadEnergy, ~PostRead, ~Restart,
         ~\E d \in Clients : Client(d) \/ KillClient(d)
  PROVE  MeasureInv(c)'
  <1> DEFINE seg == client[c].segment
  <1>1. /\ client[c].pc # "off" /\ seg \in Segments /\ shm[seg] \in SegmentType
        /\ consumed \in Nat /\ consumed' \in Nat /\ consumed <= consumed'
        /\ seg <= nbServers /\ seg \in Nat /\ nbServers \in Nat
        /\ client'[c].segment = seg
    BY Typed, PastNext, ServerTypeNext DEF ClientInv, ServerTyped, Segments, Same
  <1>2. CASE Create
    <2>1. server = "off" /\ server' = "init"
          /\ name' = IF name = 0 THEN nbServers + 1 ELSE name
      BY <1>2 DEF Create, ServerStep
    <2>2. CASE name' = seg
      <3>1. name = seg
        BY <1>1, <2>1, <2>2
      <3>2. client[c].pc \in {"ready", "start_wait"}
        BY <1>1, <2>1, <3>1, SetUp DEF Serving
      <3>3. shm'[seg].read = 0
        BY <1>1, <1>2, <2>2, Typed DEF Create, Empty
      <3> QED
        BY <1>1, <2>1, <3>2, <3>3, MeasureKept DEF Serving
    <2>3. CASE name' # seg
      <3>1. shm'[seg] = shm[seg]
        BY <1>1, <1>2, <2>3, Typed DEF Create
      <3> QED
        BY <1>1, <2>1, <3>1, MeasureKept DEF Serving
    <2> QED
      BY <2>2, <2>3
  <1>3. CASE InitMeasure \/ InitRead \/ Publish
    <2>1. /\ server \notin Serving /\ server # "off" /\ serving' = serving
          /\ serving = name
      BY <1>3, Typed
         DEF InitMeasure, InitRead, Publish, ServerStep, Serving, serverVars,
             ServerInv
    <2>2. CASE serving = seg
      <3>1. client[c].pc \in {"ready", "start_wait"} /\ shm[seg].read = 0
        BY <1>1, <2>1, <2>2, SetUp
      <3>2. shm'[seg].read = 0
        <4>1. CASE InitMeasure
          BY <1>1, <3>1, <4>1, Typed DEF InitMeasure, SegmentType
        <4>2. CASE InitRead
          BY <1>1, <3>1, <4>2, Typed DEF InitRead, SegmentType
        <4>3. CASE Publish
          BY <1>1, <3>1, <4>3, Typed DEF Publish, SegmentType
        <4> QED
          BY <1>3, <4>1, <4>2, <4>3
      <3>3. client[c].pc = "start_wait" => MeasureInv(c)'
        BY <1>1, <3>2 DEF MeasureInv, Same
      <3>4. client[c].pc = "ready" => MeasureInv(c)'
        BY <1>1 DEF MeasureInv, GotInv, Same
      <3> QED
        BY <3>1, <3>3, <3>4
    <2>3. CASE serving # seg
      <3>1. shm'[seg] = shm[seg]
        BY <1>1, <1>3, <2>3, Typed DEF InitMeasure, InitRead, Publish
      <3> QED
        BY <1>1, <2>1, <2>3, <3>1, MeasureKept
    <2> QED
      BY <2>2, <2>3
  <1>4. CASE TakeRequest
    <2>1. /\ shm'[seg].read = shm[seg].read
          /\ shm'[seg].energy = shm[seg].energy
      BY <1>1, <1>4, Typed DEF TakeRequest, SegmentType
    <2>2. /\ server = "wait" /\ server' = "read"
          /\ UNCHANGED << serving, base >>
      BY <1>4 DEF TakeRequest, ServerStep, serverVars
    <2> QED
      BY <1>1, <2>1, <2>2, MeasureKept DEF Serving
  <1>5. CASE GiveUp \/ KillServer \/ InitEnergy \/ Stop
    <2>1. shm' = shm /\ server' \notin Serving
      BY <1>5 DEF GiveUp, KillServer, InitEnergy, Stop, ServerStep, Serving
    <2> QED
      BY <1>1, <2>1, MeasureKept
  <1>6. CASE \/ Continue \/ BeginWait \/ Timeout \/ Terminate \/ Consume
             \/ UNCHANGED vars
    <2>1. /\ shm' = shm /\ UNCHANGED << serving, base >>
          /\ \A where \in {"restart", "post"} : server' = where <=> server = where
          /\ server \notin Serving => server' \notin Serving
      BY <1>6
         DEF Continue, BeginWait, Timeout, Terminate, Consume, ServerStep,
             serverVars, vars, Serving
    <2> QED
      BY <1>1, <2>1, MeasureKept
  <1> QED
    BY <1>2, <1>3, <1>4, <1>5, <1>6 DEF Next, Server

LEMMA MeasureNext ==
  ASSUME LocalInv, NoAnswerUnasked, [Next]_vars, NEW c \in Clients,
         MeasureInv(c)
  PROVE  MeasureInv(c)'
  <1> SUFFICES ASSUME client'[c].alone PROVE MeasureInv(c)'
    BY DEF MeasureInv
  <1>1. Sole(c)' /\ (BeginStart(c) \/ client[c].alone)
    BY SoleNext
  <1>2. CASE Client(c) \/ KillClient(c)
    BY <1>1, <1>2, MeasureClient
  <1>3. CASE ~Client(c) /\ ~KillClient(c)
    <2>1. Same(c) /\ client[c].alone /\ Sole(c)
      BY <1>3, Others DEF MeasureInv
    <2>2. CASE \E d \in Clients : Client(d) \/ KillClient(d)
      BY <1>1, <1>3, <2>1, <2>2, MeasureOther
    <2>3. CASE ReadEnergy \/ PostRead \/ Restart
      BY <1>1, <2>1, <2>3, MeasureServe
    <2> QED
      BY <1>1, <2>1, <2>2, <2>3, MeasureRest
  <1> QED
    BY <1>2, <1>3

-----------------------------------------------------------------------------
(* The theorems.                                                           *)

\* Whatever the clients, the servers and the energy, a request is one token
\* of its segment until the client takes the answer, and the measurement of a
\* client that is alone is where the server's steps have brought it.
THEOREM InductiveInvariant == Spec => []IInv
  <1>1. Init => IInv
    <2> SUFFICES ASSUME Init PROVE IInv
      OBVIOUS
    <2>1. LocalInv
      BY LocalInit
    <2>2. NoAnswerUnasked
      <3> SUFFICES ASSUME NEW s \in Segments
                   PROVE  shm[s].measure + InService(s) + shm[s].read
                            <= Cardinality(WaitingOn(s)) + shm[s].orphans
        BY DEF NoAnswerUnasked
      <3>1. /\ shm[s].measure = 0 /\ shm[s].read = 0 /\ shm[s].orphans = 0
            /\ InService(s) = 0
        BY DEF Init, Empty, InService
      <3> QED
        BY <3>1, CardWaiting
    <2>3. \A c \in Clients : MeasureInv(c)
      BY DEF Init, NoClient, MeasureInv
    <2> QED
      BY <2>1, <2>2, <2>3 DEF IInv
  <1>2. IInv /\ [Next]_vars => IInv'
    BY LocalNext, TokensNext, MeasureNext DEF IInv
  <1> QED
    BY <1>1, <1>2, PTL DEF Spec

\* The bounds of the segments, of the energy and of the clients' results.
THEOREM TypeCorrect == Spec => []TypeOK
  <1>1. IInv => TypeOK
    BY DEF IInv, LocalInv
  <1> QED
    BY <1>1, InductiveInvariant, PTL

\* "post when request served": there is never an answer that was not asked
\* for, and no request without a client that waits for it or was killed.
THEOREM AnswersAsked == Spec => []NoAnswerUnasked
  <1>1. IInv => NoAnswerUnasked
    BY DEF IInv
  <1> QED
    BY <1>1, InductiveInvariant, PTL

\* What a client that was alone gets is the energy of its own measurement.
THEOREM OwnMeasurement == Spec => []MeasuresOwn
  <1>1. IInv => MeasuresOwn
    BY DEF IInv, MeasureInv, GotInv, MeasuresOwn, Measured
  <1> QED
    BY <1>1, InductiveInvariant, PTL
=============================================================================
