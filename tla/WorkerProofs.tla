------------------------------- MODULE WorkerProofs -------------------------------
(***********************************************************************************)
(* Proofs about Worker and the Runtime it is composed with, for any set of         *)
(* workers, of pipelines and of tasks: a native runtime lives exactly as long as   *)
(* it is needed, there is one of them at a time, and run() throws the first error. *)
(*                                                                                 *)
(* The properties about the Runtime are not inductive.  What makes them hold is    *)
(* that the two records of the Runtime agree at every await with where create(),   *)
(* runInternal() and connect() stand (Tracked), that the native runtime is live    *)
(* as long as a record is not empty (LiveInv), and that a worker has no connection *)
(* of its own before create() has counted the worker (Linked).                     *)
(***********************************************************************************)
EXTENDS Worker, TLAPS

(* Each record of a Runtime holds the objects whose creation or life it covers.    *)
Tracked ==
  \A r \in Runtimes :
    /\ \A w \in Workers :
         /\ Native(w) \in pendingCreations[r] <=> runtime[w] = r /\ stage[w] \in Creating
         /\ Native(w) \in backRefs[r] <=> runtime[w] = r /\ stage[w] \in Existing
    /\ \A c \in Connections :
         /\ Client(c) \in pendingCreations[r] <=>
              connRuntime[c] = r /\ connState[c] = "connecting"
         /\ Client(c) \in backRefs[r] <=> connRuntime[c] = r /\ connState[c] = "open"

(* The live native runtime is the singleton's, and some record of it is not empty. *)
LiveInv ==
  \A r \in Runtimes :
    /\ native[r] = "live" <=> r = instance
    /\ native[r] = "live" <=> pendingCreations[r] # {} \/ backRefs[r] # {}

(* What exists has a Runtime, and a worker shares that of its own connection.      *)
Linked ==
  /\ \A w \in Workers :
       /\ stage[w] = "absent" => connState[w] = "absent"
       /\ stage[w] # "absent" => runtime[w] \in Runtimes
       /\ connRuntime[w] # None => connRuntime[w] = runtime[w]
  /\ \A c \in Connections : connState[c] = "absent" <=> connRuntime[c] = None

(* Until run() fails, the first error reported is the one that is kept.            *)
ErrorInv ==
  \A w \in Workers :
    /\ state[w] \in {"RUNNING", "DRAINING"} <=> stage[w] = "running"
    /\ stage[w] \in {"created", "plugin"} \cup Creating \cup {"absent"} =>
         state[w] = "INITIALIZED"
    /\ state[w] \notin {"FAILED", "STOPPED"} => reported[w] = fatalError[w]

(* The types of the pipelines.                                                     *)
TasksInv ==
  /\ poller \in [Workers -> [Kinds -> {"off", "polling", "ended"}]]
  /\ inflight \in [Workers -> [Kinds -> 0..MaxTasks]]

(* What ends a worker's run: the errors are of their types, and the one that is    *)
(* thrown is the one that was reported first.                                      *)
EndsInv ==
  /\ state \in [Workers -> {"INITIALIZED", "RUNNING", "DRAINING", "STOPPED", "FAILED"}]
  /\ fatalError \in [Workers -> {"none", "unexpected"}]
  /\ reported \in [Workers -> Errors \cup {"none"}]
  /\ outcome \in [Workers -> Errors \cup {"none", "ok"}]
  /\ ErrorInv
  /\ FirstErrorThrown

IInv == TypeOK /\ TasksInv /\ Tracked /\ LiveInv /\ Linked /\ EndsInv

-----------------------------------------------------------------------------------
(* Types.                                                                          *)

(* What a creation or the end of an object does to the types of the records.       *)
LEMMA CountTypes ==
  ASSUME NEW r \in Runtimes, NEW obj \in Objects, RuntimeTypeOK,
         \/ BeginCreation(r, obj) \/ EndCreation(r, obj)
         \/ AbandonCreation(r, obj) \/ Forget(r, obj)
  PROVE  /\ instance' \in Runtimes \cup {None}
         /\ native' \in [Runtimes -> {"unborn", "live", "gone"}]
         /\ backRefs' \in [Runtimes -> SUBSET Objects]
         /\ pendingCreations' \in [Runtimes -> SUBSET Objects]
<1>1. /\ instance' \in Runtimes \cup {None}
      /\ native' \in [Runtimes -> {"unborn", "live", "gone"}]
  BY DEF BeginCreation, EndCreation, AbandonCreation, Forget, ShutdownIfIdle, RuntimeTypeOK
<1>2. backRefs' \in [Runtimes -> SUBSET Objects]
  BY DEF BeginCreation, EndCreation, AbandonCreation, Forget, RuntimeTypeOK
<1>3. pendingCreations' \in [Runtimes -> SUBSET Objects]
  BY DEF BeginCreation, EndCreation, AbandonCreation, Forget, RuntimeTypeOK
<1> QED
  BY <1>1, <1>2, <1>3

-----------------------------------------------------------------------------------
(* The live native runtime.                                                        *)

(* Instance() and createNativeNoBackRef: a creation makes or finds the live        *)
(* runtime.                                                                        *)
LEMMA BeginLive ==
  ASSUME NEW r \in Runtimes, NEW obj \in Objects, RuntimeTypeOK, LiveInv,
         Instance(r), BeginCreation(r, obj)
  PROVE  LiveInv'
  BY RuntimeAssumption DEF LiveInv, RuntimeTypeOK, Instance, BeginCreation

(* A creation that succeeds passes its object from one record to the other.        *)
LEMMA EndLive ==
  ASSUME NEW r \in Runtimes, NEW obj \in Objects, RuntimeTypeOK, LiveInv,
         obj \in pendingCreations[r], EndCreation(r, obj)
  PROVE  LiveInv'
  BY DEF LiveInv, RuntimeTypeOK, EndCreation

(* shutdownIfIdle: the runtime goes with its last pending creation...              *)
LEMMA AbandonLive ==
  ASSUME NEW r \in Runtimes, NEW obj \in Objects, RuntimeTypeOK, LiveInv,
         obj \in pendingCreations[r], AbandonCreation(r, obj)
  PROVE  LiveInv'
  BY RuntimeAssumption DEF LiveInv, RuntimeTypeOK, AbandonCreation, ShutdownIfIdle

(* ... or with its last object.                                                    *)
LEMMA ForgetLive ==
  ASSUME NEW r \in Runtimes, NEW obj \in Objects, RuntimeTypeOK, LiveInv,
         obj \in backRefs[r], Forget(r, obj)
  PROVE  LiveInv'
  BY RuntimeAssumption DEF LiveInv, RuntimeTypeOK, Forget, ShutdownIfIdle

-----------------------------------------------------------------------------------
(* The records.                                                                    *)

(* No worker begins or ends its creation or its life.                              *)
StagesKept ==
  /\ runtime' = runtime
  /\ \A w \in Workers : /\ stage'[w] \in Creating <=> stage[w] \in Creating
                        /\ stage'[w] \in Existing <=> stage[w] \in Existing

OtherStep == StagesKept /\ UNCHANGED <<countVars, connVars>>

ConnectionStep(c) == connect(c) \/ connected(c) \/ connectFails(c) \/ close(c)

WorkerStep(w) ==
  create(w) \/ createFails(w) \/ created(w) \/ (\E fails \in BOOLEAN : finalized(w, fails))

(* connect() and close(): the records follow the state of the connection.          *)
LEMMA ConnectionTracked ==
  ASSUME NEW c \in Connections, RuntimeTypeOK, Tracked, LiveInv, Linked,
         StagesKept, ConnectionStep(c)
  PROVE  Tracked' /\ LiveInv'
<1>1. Client(c) \in Objects
  BY DEF Objects
<1>2. connState[c] # "absent" => connRuntime[c] \in Runtimes
  BY DEF Linked, RuntimeTypeOK
<1>3. CASE connect(c)
  <2>1. PICK r \in Runtimes : /\ Instance(r) /\ BeginCreation(r, Client(c))
                             /\ connRuntime' = [connRuntime EXCEPT ![c] = r]
    BY <1>3 DEF connect
  <2>2. connState[c] = "absent" /\ connState' = [connState EXCEPT ![c] = "connecting"]
    BY <1>3 DEF connect
  <2>3. LiveInv'
    BY <1>1, <2>1, BeginLive
  <2>4. Tracked'
    BY <2>1, <2>2 DEF Tracked, StagesKept, BeginCreation, RuntimeTypeOK, Linked, Client, Native
  <2> QED
    BY <2>3, <2>4
<1>4. CASE connected(c)
  <2>1. Client(c) \in pendingCreations[connRuntime[c]]
    BY <1>2, <1>4 DEF connected, Tracked
  <2>2. LiveInv'
    BY <1>1, <1>2, <1>4, <2>1, EndLive DEF connected
  <2>3. Tracked'
    BY <1>2, <1>4 DEF connected, Tracked, StagesKept, EndCreation, RuntimeTypeOK, Client, Native
  <2> QED
    BY <2>2, <2>3
<1>5. CASE connectFails(c)
  <2>1. Client(c) \in pendingCreations[connRuntime[c]]
    BY <1>2, <1>5 DEF connectFails, Tracked
  <2>2. LiveInv'
    BY <1>1, <1>2, <1>5, <2>1, AbandonLive DEF connectFails
  <2>3. Tracked'
    BY <1>2, <1>5 DEF connectFails, Tracked, StagesKept, AbandonCreation, RuntimeTypeOK, Client,
                      Native
  <2> QED
    BY <2>2, <2>3
<1>6. CASE close(c)
  <2>1. Client(c) \in backRefs[connRuntime[c]]
    BY <1>2, <1>6 DEF close, Tracked
  <2>2. LiveInv'
    BY <1>1, <1>2, <1>6, <2>1, ForgetLive DEF close
  <2>3. Tracked'
    BY <1>2, <1>6 DEF close, Tracked, StagesKept, Forget, RuntimeTypeOK, Client, Native
  <2> QED
    BY <2>2, <2>3
<1> QED
  BY <1>3, <1>4, <1>5, <1>6 DEF ConnectionStep

(* registerWorker and deregisterWorker: the records follow the stage of a worker.  *)
LEMMA WorkerTracked ==
  ASSUME NEW w \in Workers, TypeOK, Tracked, LiveInv, Linked, WorkerStep(w)
  PROVE  Tracked' /\ LiveInv'
<1>1. Native(w) \in Objects
  BY DEF Objects
<1>2. UNCHANGED connVars
  BY DEF WorkerStep, create, createFails, created, finalized
<1>3. stage[w] # "absent" => runtime[w] \in Runtimes
  BY DEF Linked
<1>4. CASE create(w)
  <2>1. PICK r \in Runtimes : /\ Instance(r) /\ BeginCreation(r, Native(w))
                             /\ runtime' = [runtime EXCEPT ![w] = r]
    BY <1>4 DEF create
  <2>2. stage[w] = "absent" /\ stage' = [stage EXCEPT ![w] = "preparing"]
    BY <1>4 DEF create, Go
  <2>3. LiveInv'
    BY <1>1, <2>1, BeginLive DEF TypeOK
  <2>4. Tracked'
    BY <1>2, <2>1, <2>2 DEF Tracked, BeginCreation, TypeOK, RuntimeTypeOK, Client, Native,
                            Creating, Existing, connVars
  <2> QED
    BY <2>3, <2>4
<1>5. CASE createFails(w)
  <2>1. Native(w) \in pendingCreations[runtime[w]]
    BY <1>3, <1>5 DEF createFails, Tracked, Creating
  <2>2. LiveInv'
    BY <1>1, <1>3, <1>5, <2>1, AbandonLive DEF createFails, TypeOK
  <2>3. Tracked'
    BY <1>2, <1>3, <1>5 DEF createFails, Go, Tracked, AbandonCreation, TypeOK, RuntimeTypeOK,
                            Client, Native, Creating, Existing, connVars
  <2> QED
    BY <2>2, <2>3
<1>6. CASE created(w)
  <2>1. Native(w) \in pendingCreations[runtime[w]]
    BY <1>3, <1>6 DEF created, Tracked, Creating
  <2>2. LiveInv'
    BY <1>1, <1>3, <1>6, <2>1, EndLive DEF created, TypeOK
  <2>3. Tracked'
    BY <1>2, <1>3, <1>6 DEF created, Go, Tracked, EndCreation, TypeOK, RuntimeTypeOK,
                            Client, Native, Creating, Existing, connVars
  <2> QED
    BY <2>2, <2>3
<1>7. CASE \E fails \in BOOLEAN : finalized(w, fails)
  <2>1. /\ stage[w] = "finalizing" /\ Forget(runtime[w], Native(w))
        /\ stage' = [stage EXCEPT ![w] = IF connection[w] = w THEN "closing" ELSE "destroying"]
        /\ UNCHANGED runtime
    BY <1>7 DEF finalized, Go
  <2>2. Native(w) \in backRefs[runtime[w]]
    BY <1>3, <2>1 DEF Tracked, Existing
  <2>3. LiveInv'
    BY <1>1, <1>3, <2>1, <2>2, ForgetLive DEF TypeOK
  <2>4. Tracked'
    BY <1>2, <1>3, <2>1 DEF Tracked, Forget, TypeOK, RuntimeTypeOK, Client, Native, Creating,
                            Existing, connVars
  <2> QED
    BY <2>3, <2>4
<1> QED
  BY <1>4, <1>5, <1>6, <1>7 DEF WorkerStep

(* Everything else leaves the records and what they stand for alone.               *)
LEMMA OtherTracked ==
  ASSUME Tracked, LiveInv, OtherStep
  PROVE  Tracked' /\ LiveInv'
  BY DEF OtherStep, Tracked, LiveInv, StagesKept, countVars, connVars, Client, Native

(* run(), shutdown() and the end of the pipelines touch no record.                 *)
LEMMA RunIsOther ==
  ASSUME NEW w \in Workers, TypeOK, ErrorInv,
         Run(w) \/ (\E k \in Kinds : Pipeline(w, k)) \/ deregisters(w) \/ destroyed(w)
  PROVE  OtherStep
<1> USE DEF OtherStep, StagesKept, Go, Creating, Existing, TypeOK
<1>1. CASE \E until \in {"none", "pending"} : run(w, until)
  BY <1>1 DEF run, Start
<1>2. CASE pluginRuns(w)
  BY <1>2 DEF pluginRuns, Start
<1>3. CASE shutdown(w) \/ shutdownCallback(w) \/ innerSettles(w) \/ unexpectedError(w)
  <2>1. UNCHANGED <<runtime, countVars, connVars>>
    BY <1>3 DEF shutdown, shutdownCallback, innerSettles, unexpectedError, runtimeVars
  <2>2. stage' = stage \/ (stage[w] = "running" /\ stage' = [stage EXCEPT ![w] = "ending"])
    BY <1>3 DEF shutdown, shutdownCallback, innerSettles, unexpectedError, ShutdownIfRunning,
                Shutdown, Terminate, ErrorInv
  <2> QED
    BY <2>1, <2>2
<1>4. CASE forceTimeExpires(w)
  BY <1>4 DEF forceTimeExpires, Terminate, ErrorInv, runtimeVars
<1>5. CASE drained(w)
  BY <1>5 DEF drained, Terminate, runtimeVars
<1>6. CASE \E k \in Kinds : Pipeline(w, k)
  BY <1>6 DEF Pipeline, pollReturns, taskCompletes, pipelineFails, pollerEnds, Terminate,
              runtimeVars, lifeVars
<1>7. CASE deregisters(w) \/ destroyed(w)
  BY <1>7 DEF deregisters, destroyed, runtimeVars
<1> QED
  BY <1>1, <1>2, <1>3, <1>4, <1>5, <1>6, <1>7 DEF Run

(* The connection that a worker makes is connected and closed in its own stages.   *)
LEMMA OwnConnectionStep ==
  ASSUME NEW w \in Workers, TypeOK,
         \/ prepareConnects(w) \/ prepareConnected(w) \/ prepareConnectFails(w)
         \/ createCloses(w) \/ closesConnection(w) \/ setConnection(w)
  PROVE  StagesKept /\ ConnectionStep(w)
<1> USE DEF StagesKept, ConnectionStep, Go, Creating, Existing, TypeOK
<1>1. CASE prepareConnects(w) \/ prepareConnected(w) \/ prepareConnectFails(w)
  BY <1>1 DEF prepareConnects, prepareConnected, prepareConnectFails
<1>2. CASE createCloses(w) \/ closesConnection(w) \/ setConnection(w)
  BY <1>2 DEF createCloses, closesConnection, setConnection
<1> QED
  BY <1>1, <1>2

(* Every step is of one of the three kinds.                                        *)
LEMMA KindsOfSteps ==
  ASSUME TypeOK, ErrorInv, Next
  PROVE  \/ \E c \in Connections : ConnectionStep(c) /\ StagesKept
         \/ \E w \in Workers : WorkerStep(w)
         \/ OtherStep
<1>1. CASE UserConnection
  BY <1>1 DEF UserConnection, ConnectionStep, StagesKept, lifeVars, Connections
<1>2. CASE Signal
  BY <1>2 DEF Signal, startShutdownSequence, OtherStep, StagesKept, lifeVars
<1>3. ASSUME NEW w \in Workers,
             \/ Create(w) \/ setConnection(w) \/ Run(w) \/ Finalize(w)
             \/ \E k \in Kinds : Pipeline(w, k)
      PROVE  (ConnectionStep(w) /\ StagesKept) \/ WorkerStep(w) \/ OtherStep
  <2>1. CASE prepareUsesOption(w)
    BY <2>1 DEF prepareUsesOption, OtherStep, StagesKept, Go, Creating, Existing, TypeOK,
                runtimeVars
  <2> QED
    BY <1>3, <2>1, OwnConnectionStep, RunIsOther DEF Create, Finalize, WorkerStep
<1> QED
  BY <1>1, <1>2, <1>3 DEF Next, Connections

(* The records stay right.                                                         *)
LEMMA NextTracked ==
  ASSUME TypeOK, Tracked, LiveInv, Linked, ErrorInv, [Next]_vars
  PROVE  Tracked' /\ LiveInv'
<1>1. CASE UNCHANGED vars
  BY <1>1, OtherTracked DEF vars, runtimeVars, lifeVars, OtherStep, StagesKept
<1>2. CASE Next
  BY <1>2, KindsOfSteps, ConnectionTracked, WorkerTracked, OtherTracked
     DEF TypeOK
<1> QED
  BY <1>1, <1>2

-----------------------------------------------------------------------------------
(* Who has which Runtime.                                                          *)

(* No worker begins, no connection begins, and no Runtime is exchanged.            *)
LinksKept ==
  /\ runtime' = runtime /\ connRuntime' = connRuntime
  /\ \A w \in Workers : stage'[w] = "absent" <=> stage[w] = "absent"
  /\ \A c \in Connections : connState'[c] = "absent" <=> connState[c] = "absent"

(* A worker's own connection is made on the worker's Runtime: create() counted the *)
(* worker on the singleton, which is therefore still the one that connect() finds. *)
LEMMA NextLinked ==
  ASSUME TypeOK, Tracked, LiveInv, Linked, ErrorInv, [Next]_vars
  PROVE  Linked'
<1>0. ASSUME LinksKept PROVE Linked'
  BY <1>0 DEF LinksKept, Linked, Connections
<1>1. ASSUME NEW w \in Workers, create(w) PROVE Linked'
  BY <1>1 DEF create, Go, Linked, TypeOK, RuntimeTypeOK, connVars, Connections
<1>2. ASSUME NEW w \in Workers, prepareConnects(w) PROVE Linked'
  <2>1. PICK r \in Runtimes : Instance(r) /\ connRuntime' = [connRuntime EXCEPT ![w] = r]
    BY <1>2 DEF prepareConnects, connect
  <2>2. /\ stage[w] = "preparing" /\ stage' = [stage EXCEPT ![w] = "connecting"]
        /\ connState' = [connState EXCEPT ![w] = "connecting"] /\ UNCHANGED runtime
    BY <1>2 DEF prepareConnects, connect, Go
  <2>3. runtime[w] \in Runtimes /\ native[runtime[w]] = "live"
    BY <2>2 DEF Linked, Tracked, LiveInv, Creating
  <2>4. r = runtime[w]
    BY <2>1, <2>3, RuntimeAssumption DEF LiveInv, Instance
  <2> QED
    BY <2>1, <2>2, <2>3, <2>4, RuntimeAssumption DEF Linked, TypeOK, RuntimeTypeOK, Connections
<1>3. ASSUME connect(User), UNCHANGED lifeVars PROVE Linked'
  BY <1>3, RuntimeAssumption DEF connect, lifeVars, Linked, TypeOK, RuntimeTypeOK, Connections
<1>4. ASSUME NEW c \in Connections, connected(c) \/ connectFails(c) \/ close(c)
      PROVE  /\ connRuntime' = connRuntime
             /\ \A d \in Connections : connState'[d] = "absent" <=> connState[d] = "absent"
  BY <1>4 DEF connected, connectFails, close, TypeOK, RuntimeTypeOK
<1>5. CASE UNCHANGED vars
  BY <1>0, <1>5 DEF vars, runtimeVars, connVars, lifeVars, LinksKept
<1>6. CASE UserConnection
  BY <1>0, <1>3, <1>4, <1>6 DEF UserConnection, lifeVars, LinksKept, Connections
<1>7. CASE Signal
  BY <1>0, <1>7 DEF Signal, startShutdownSequence, lifeVars, connVars, LinksKept
<1>8. ASSUME NEW w \in Workers, Create(w) \/ setConnection(w) PROVE Linked'
  <2>1. CASE prepareUsesOption(w) \/ createFails(w) \/ created(w)
    BY <1>0, <2>1 DEF prepareUsesOption, createFails, created, Go, runtimeVars, connVars,
                      LinksKept, TypeOK
  <2>2. CASE \/ prepareConnected(w) \/ prepareConnectFails(w) \/ createCloses(w)
             \/ setConnection(w)
    <3>1. w \in Connections /\ (connected(w) \/ connectFails(w) \/ close(w))
      BY <2>2 DEF prepareConnected, prepareConnectFails, createCloses, setConnection, Connections
    <3>2. /\ UNCHANGED runtime
          /\ \A v \in Workers : stage'[v] = "absent" <=> stage[v] = "absent"
      BY <2>2 DEF prepareConnected, prepareConnectFails, createCloses, setConnection, Go, TypeOK
    <3> QED
      BY <1>0, <1>4, <3>1, <3>2 DEF LinksKept
  <2> QED
    BY <1>1, <1>2, <1>8, <2>1, <2>2 DEF Create
<1>9. ASSUME NEW w \in Workers, Run(w) \/ Finalize(w) \/ \E k \in Kinds : Pipeline(w, k)
      PROVE  Linked'
  <2>1. CASE closesConnection(w)
    <3>1. /\ w \in Connections /\ close(w) /\ UNCHANGED runtime
          /\ \A v \in Workers : stage'[v] = "absent" <=> stage[v] = "absent"
      BY <2>1 DEF closesConnection, Go, TypeOK, Connections
    <3> QED
      BY <1>0, <1>4, <3>1 DEF LinksKept
  <2>2. CASE \E fails \in BOOLEAN : finalized(w, fails)
    BY <1>0, <2>2 DEF finalized, Go, TypeOK, connVars, LinksKept
  <2>3. CASE Run(w) \/ (\E k \in Kinds : Pipeline(w, k)) \/ deregisters(w) \/ destroyed(w)
    <3>1. UNCHANGED <<runtime, connVars>>
      BY <2>3, RunIsOther DEF OtherStep, StagesKept
    <3>2. \A v \in Workers : stage'[v] = "absent" <=> stage[v] = "absent"
      <4>1. stage[w] # "absent" \/ stage' = stage
        BY <2>3 DEF Run, Pipeline, run, pluginRuns, shutdown, shutdownCallback, innerSettles,
           ShutdownIfRunning, unexpectedError, forceTimeExpires, drained, pollReturns,
           taskCompletes, pipelineFails, pollerEnds, deregisters, destroyed, lifeVars, ErrorInv
      <4>2. \E t \in Stages \ {"absent"} : stage' = [stage EXCEPT ![w] = t] \/ stage' = stage
        BY <2>3 DEF Run, Pipeline, run, Start, pluginRuns, shutdown, shutdownCallback,
           innerSettles, ShutdownIfRunning, Shutdown, Terminate, unexpectedError,
           forceTimeExpires, drained, pollReturns, taskCompletes, pipelineFails, pollerEnds,
           deregisters, destroyed, Go, lifeVars, Stages, Existing
      <4> QED
        BY <4>1, <4>2 DEF TypeOK
    <3> QED
      BY <1>0, <3>1, <3>2 DEF LinksKept, connVars
  <2> QED
    BY <1>9, <2>1, <2>2, <2>3 DEF Finalize
<1> QED
  BY <1>5, <1>6, <1>7, <1>8, <1>9 DEF Next

-----------------------------------------------------------------------------------
(* Types along a step, and the errors.                                             *)

(* The Runtime's state keeps its type.                                             *)
LEMMA NextRuntimeTypes ==
  ASSUME TypeOK, Linked, ErrorInv, [Next]_vars
  PROVE  RuntimeTypeOK'
<1> USE DEF RuntimeTypeOK
<1>1. ASSUME NEW c \in Connections, ConnectionStep(c) PROVE RuntimeTypeOK'
  <2>1. Client(c) \in Objects
    BY DEF Objects
  <2>2. connState[c] # "absent" => connRuntime[c] \in Runtimes
    BY DEF Linked, TypeOK
  <2>3. /\ instance' \in Runtimes \cup {None}
        /\ native' \in [Runtimes -> {"unborn", "live", "gone"}]
        /\ backRefs' \in [Runtimes -> SUBSET Objects]
        /\ pendingCreations' \in [Runtimes -> SUBSET Objects]
    BY <1>1, <2>1, <2>2, CountTypes
       DEF ConnectionStep, connect, connected, connectFails, close, TypeOK
  <2>4. connState' \in [Connections -> {"absent", "connecting", "open", "closed"}]
    <3>1. PICK v \in {"connecting", "open", "closed"} : connState' = [connState EXCEPT ![c] = v]
      BY <1>1 DEF ConnectionStep, connect, connected, connectFails, close
    <3> QED
      BY <3>1 DEF TypeOK
  <2>5. connRuntime' \in [Connections -> Runtimes \cup {None}]
    BY <1>1 DEF ConnectionStep, connect, connected, connectFails, close, TypeOK
  <2>6. UNCHANGED signalVars
    BY <1>1 DEF ConnectionStep, connect, connected, connectFails, close
  <2> QED
    BY <2>3, <2>4, <2>5, <2>6 DEF TypeOK, signalVars
<1>2. ASSUME NEW w \in Workers, WorkerStep(w) PROVE RuntimeTypeOK'
  <2>1. Native(w) \in Objects
    BY DEF Objects
  <2>2. stage[w] # "absent" => runtime[w] \in Runtimes
    BY DEF Linked
  <2>3. /\ instance' \in Runtimes \cup {None}
        /\ native' \in [Runtimes -> {"unborn", "live", "gone"}]
        /\ backRefs' \in [Runtimes -> SUBSET Objects]
        /\ pendingCreations' \in [Runtimes -> SUBSET Objects]
    BY <1>2, <2>1, <2>2, CountTypes
       DEF WorkerStep, create, created, createFails, finalized, TypeOK
  <2>4. UNCHANGED <<signalVars, connVars>>
    BY <1>2 DEF WorkerStep, create, created, createFails, finalized
  <2> QED
    BY <2>3, <2>4 DEF TypeOK, signalVars, connVars
<1>0. ASSUME NEW r, NEW w \in Workers,
             \/ callbacks' = [callbacks EXCEPT ![r] = @ \cup {w}]
             \/ callbacks' = [callbacks EXCEPT ![r] = @ \ {w}]
             \/ callbacks' = callbacks
      PROVE  callbacks' \in [Runtimes -> SUBSET Workers]
  <2>1. \A q \in Runtimes : /\ callbacks[q] \cup {w} \in SUBSET Workers
                            /\ callbacks[q] \ {w} \in SUBSET Workers
    BY DEF TypeOK
  <2> QED
    BY <1>0, <2>1 DEF TypeOK
<1>3. ASSUME NEW w \in Workers, RegisterCallback(runtime[w], w)
      PROVE  callbacks' \in [Runtimes -> SUBSET Workers] /\ microtasks' \subseteq Workers
  <2>1. callbacks' = [callbacks EXCEPT ![runtime[w]] = @ \cup {w}] \/ callbacks' = callbacks
    BY <1>3 DEF RegisterCallback
  <2>2. microtasks' \subseteq Workers
    BY <1>3 DEF RegisterCallback, TypeOK
  <2> QED
    BY <1>0, <2>1, <2>2
<1>4. ASSUME NEW w \in Workers, (\E until \in {"none", "pending"} : run(w, until)) \/ pluginRuns(w)
      PROVE  RuntimeTypeOK'
  <2>1. UNCHANGED <<countVars, rtState, connVars>>
    BY <1>4 DEF run, pluginRuns
  <2>2. RegisterCallback(runtime[w], w) \/ UNCHANGED <<callbacks, microtasks>>
    BY <1>4 DEF run, pluginRuns, Start
  <2> QED
    BY <1>3, <2>1, <2>2 DEF TypeOK, countVars, connVars
<1>5. ASSUME NEW w \in Workers, shutdownCallback(w) \/ deregisters(w) PROVE RuntimeTypeOK'
  <2>1. UNCHANGED <<countVars, rtState, connVars>> /\ microtasks' \subseteq Workers
    BY <1>5 DEF shutdownCallback, deregisters, TypeOK
  <2>2. callbacks' \in [Runtimes -> SUBSET Workers]
    <3>1. callbacks' = [callbacks EXCEPT ![runtime[w]] = @ \ {w}] \/ callbacks' = callbacks
      BY <1>5 DEF shutdownCallback, deregisters, DeregisterCallback
    <3> QED
      BY <1>0, <3>1
  <2> QED
    BY <2>1, <2>2 DEF TypeOK, countVars, connVars
<1>6. CASE Signal
  BY <1>6 DEF Signal, startShutdownSequence, TypeOK, countVars, connVars
<1>7. ASSUME UNCHANGED runtimeVars PROVE RuntimeTypeOK'
  BY <1>7 DEF TypeOK, runtimeVars, countVars, signalVars, connVars
<1>8. CASE UserConnection
  BY <1>1, <1>8 DEF UserConnection, ConnectionStep, Connections
<1>9. ASSUME NEW w \in Workers, Create(w) \/ setConnection(w) \/ Finalize(w) PROVE RuntimeTypeOK'
  <2>1. CASE prepareUsesOption(w) \/ destroyed(w)
    BY <1>7, <2>1 DEF prepareUsesOption, destroyed
  <2> QED
    BY <1>1, <1>2, <1>5, <1>9, <2>1, OwnConnectionStep DEF Create, Finalize, WorkerStep, Connections
<1>10. ASSUME NEW w \in Workers, Run(w) \/ \E k \in Kinds : Pipeline(w, k) PROVE RuntimeTypeOK'
  <2>1. CASE \/ shutdown(w) \/ innerSettles(w) \/ unexpectedError(w)
             \/ forceTimeExpires(w) \/ drained(w)
    BY <1>7, <2>1 DEF shutdown, innerSettles, unexpectedError, forceTimeExpires, drained
  <2>2. CASE \E k \in Kinds : Pipeline(w, k)
    BY <1>7, <2>2 DEF Pipeline, pollReturns, taskCompletes, pipelineFails, pollerEnds
  <2> QED
    BY <1>4, <1>5, <1>10, <2>1, <2>2 DEF Run
<1> QED
  BY <1>6, <1>7, <1>8, <1>9, <1>10 DEF Next, vars

(* A pipeline never has fewer tasks in flight than none, nor too many.             *)
LEMMA NextTasks ==
  ASSUME TasksInv, [Next]_vars
  PROVE  TasksInv'
<1> USE WorkerAssumption DEF TasksInv
<1>1. CASE UNCHANGED pipeVars
  BY <1>1 DEF pipeVars
<1>2. ASSUME NEW w \in Workers, UNCHANGED inflight,
             Start(w) \/ UNCHANGED poller
      PROVE  TasksInv'
  <2>1. [k \in Kinds |-> IF k \in Registered(w) THEN "polling" ELSE "off"]
          \in [Kinds -> {"off", "polling", "ended"}]
    OBVIOUS
  <2>2. poller' \in [Workers -> [Kinds -> {"off", "polling", "ended"}]]
    BY <1>2, <2>1 DEF Start
  <2> QED
    BY <1>2, <2>2
<1>3. ASSUME NEW w \in Workers, NEW k \in Kinds, pollReturns(w, k)
      PROVE  TasksInv'
  BY <1>3 DEF pollReturns
<1>4. ASSUME NEW w \in Workers, NEW k \in Kinds, taskCompletes(w, k)
      PROVE  TasksInv'
  BY <1>4 DEF taskCompletes
<1>5. ASSUME NEW w \in Workers, NEW k \in Kinds, pollerEnds(w, k)
      PROVE  TasksInv'
  BY <1>5 DEF pollerEnds
<1>6. ASSUME NEW w \in Workers, deregisters(w)
      PROVE  TasksInv'
  BY <1>6 DEF deregisters
<1> HIDE DEF TasksInv
<1>7. CASE UNCHANGED vars \/ UserConnection \/ Signal
  BY <1>1, <1>7 DEF vars, UserConnection, Signal
<1>8. ASSUME NEW w \in Workers, Create(w) \/ setConnection(w) PROVE UNCHANGED pipeVars
  BY <1>8 DEF Create, create, prepareConnects, prepareUsesOption, prepareConnected,
              prepareConnectFails, createFails, createCloses, created, setConnection
<1>9. ASSUME NEW w \in Workers, Finalize(w) PROVE deregisters(w) \/ UNCHANGED pipeVars
  BY <1>9 DEF Finalize, finalized, closesConnection, destroyed
<1>10. ASSUME NEW w \in Workers, Run(w)
       PROVE  UNCHANGED inflight /\ (Start(w) \/ UNCHANGED poller)
  BY <1>10 DEF Run, run, pluginRuns, shutdown, shutdownCallback, innerSettles, unexpectedError,
               forceTimeExpires, drained, pipeVars
<1>11. ASSUME NEW w \in Workers, NEW k \in Kinds, Pipeline(w, k)
       PROVE  pollReturns(w, k) \/ taskCompletes(w, k) \/ pollerEnds(w, k) \/ UNCHANGED pipeVars
  BY <1>11 DEF Pipeline, pipelineFails
<1> QED
  BY <1>1, <1>2, <1>3, <1>4, <1>5, <1>6, <1>7, <1>8, <1>9, <1>10, <1>11 DEF Next

(* What a step of a worker may do to where it stands.                              *)
LifeStep(w) ==
  /\ stage' = stage \/ \E t \in Stages : Go(w, t)
  /\ runtime' = runtime \/ \E r \in Runtimes : runtime' = [runtime EXCEPT ![w] = r]
  /\ \/ connection' = connection
     \/ \E c \in Connections : connection' = [connection EXCEPT ![w] = c]
  /\ \/ inner' = inner
     \/ \E i \in {"none", "pending", "settled"} : inner' = [inner EXCEPT ![w] = i]

(* Where the workers stand keeps its type.                                         *)
LEMMA NextLifeTypes ==
  ASSUME TypeOK, [Next]_vars
  PROVE  /\ stage' \in [Workers -> Stages]
         /\ runtime' \in [Workers -> Runtimes \cup {None}]
         /\ connection' \in [Workers -> Connections \cup {None}]
         /\ inner' \in [Workers -> {"none", "pending", "settled"}]
<1>1. ASSUME NEW w \in Workers, LifeStep(w)
      PROVE  /\ stage' \in [Workers -> Stages]
             /\ runtime' \in [Workers -> Runtimes \cup {None}]
             /\ connection' \in [Workers -> Connections \cup {None}]
             /\ inner' \in [Workers -> {"none", "pending", "settled"}]
  <2>1. stage' \in [Workers -> Stages]
    BY <1>1 DEF LifeStep, Go, TypeOK
  <2>2. runtime' \in [Workers -> Runtimes \cup {None}]
    BY <1>1 DEF LifeStep, TypeOK
  <2>3. connection' \in [Workers -> Connections \cup {None}]
    BY <1>1 DEF LifeStep, TypeOK
  <2>4. inner' \in [Workers -> {"none", "pending", "settled"}]
    BY <1>1 DEF LifeStep, TypeOK
  <2> QED
    BY <2>1, <2>2, <2>3, <2>4
<1>2. CASE UNCHANGED vars \/ UserConnection \/ Signal
  BY <1>2 DEF vars, UserConnection, Signal, lifeVars, TypeOK
<1> USE DEF LifeStep, Stages, Creating, Existing
<1>3. ASSUME NEW w \in Workers, Create(w) \/ setConnection(w) PROVE LifeStep(w)
  <2>1. CASE create(w)
    BY <2>1 DEF create
  <2>2. CASE prepareConnects(w) \/ prepareConnectFails(w) \/ createCloses(w) \/ created(w)
    BY <2>2 DEF prepareConnects, prepareConnectFails, createCloses, created
  <2>3. CASE prepareUsesOption(w) \/ prepareConnected(w) \/ setConnection(w)
    BY <2>3 DEF prepareUsesOption, prepareConnected, setConnection, Connections
  <2>4. CASE createFails(w)
    BY <2>4 DEF createFails
  <2> QED
    BY <1>3, <2>1, <2>2, <2>3, <2>4 DEF Create
<1>4. ASSUME NEW w \in Workers, Run(w) PROVE LifeStep(w)
  <2>1. CASE (\E until \in {"none", "pending"} : run(w, until)) \/ pluginRuns(w)
    BY <2>1 DEF run, Start, pluginRuns
  <2>2. CASE shutdown(w) \/ shutdownCallback(w) \/ innerSettles(w) \/ unexpectedError(w)
    <3>1. stage' = stage \/ Go(w, "ending")
      BY <2>2 DEF shutdown, shutdownCallback, innerSettles, unexpectedError, ShutdownIfRunning,
                  Shutdown, Terminate
    <3>2. UNCHANGED <<runtime, connection>>
      BY <2>2 DEF shutdown, shutdownCallback, innerSettles, unexpectedError
    <3>3. inner' = inner \/ inner' = [inner EXCEPT ![w] = "settled"]
      BY <2>2 DEF shutdown, shutdownCallback, innerSettles, unexpectedError
    <3> QED
      BY <3>1, <3>2, <3>3
  <2>3. CASE forceTimeExpires(w) \/ drained(w)
    BY <2>3 DEF forceTimeExpires, drained, Terminate
  <2> QED
    BY <1>4, <2>1, <2>2, <2>3 DEF Run
<1>5. ASSUME NEW w \in Workers, Finalize(w) PROVE LifeStep(w)
  BY <1>5 DEF Finalize, deregisters, finalized, closesConnection, destroyed
<1>6. ASSUME NEW w \in Workers, NEW k \in Kinds, Pipeline(w, k) PROVE LifeStep(w)
  BY <1>6 DEF Pipeline, pollReturns, taskCompletes, pipelineFails, pollerEnds, Terminate, lifeVars
<1> HIDE DEF LifeStep, Stages
<1> QED
  BY <1>1, <1>2, <1>3, <1>4, <1>5, <1>6 DEF Next

(* An error, a shutdown and the end of a run keep the first error.                 *)
LEMMA NextEnds ==
  ASSUME TypeOK, EndsInv, [Next]_vars
  PROVE  EndsInv'
<1> USE DEF EndsInv, ErrorInv, FirstErrorThrown, Errors, Go, Creating
<1>0. stage \in [Workers -> Stages]
  BY DEF TypeOK
<1>1. ASSUME UNCHANGED <<stage, endVars>> PROVE EndsInv'
  BY <1>1 DEF endVars
<1>2. ASSUME NEW w \in Workers, NEW t, UNCHANGED endVars, Go(w, t), t # "running",
             stage[w] # "running",
             t \in {"created", "plugin"} \cup Creating => state[w] = "INITIALIZED", t # "absent"
      PROVE  EndsInv'
  BY <1>2 DEF TypeOK, endVars
<1>3. ASSUME NEW w \in Workers, stage[w] \in {"created", "plugin"}, Start(w),
             UNCHANGED <<fatalError, reported, outcome>>
      PROVE  EndsInv'
  BY <1>3 DEF TypeOK, Start
<1>4. ASSUME NEW w \in Workers, state[w] = "RUNNING", Shutdown(w, "none"), UNCHANGED fatalError
      PROVE  EndsInv'
  <2>1. CASE Terminate(w, "initiate")
    BY <1>4, <2>1, <1>0 DEF Shutdown, Terminate, First
  <2>2. CASE ~Terminate(w, "initiate")
    BY <1>4, <2>2, <1>0 DEF Shutdown, First
  <2> QED
    BY <2>1, <2>2
<1>5. ASSUME NEW w \in Workers, ShutdownIfRunning(w, "none"), UNCHANGED fatalError
      PROVE  EndsInv'
  <2>1. CASE state[w] = "RUNNING"
    BY <1>4, <1>5, <2>1 DEF ShutdownIfRunning
  <2>2. CASE state[w] # "RUNNING"
    BY <1>5, <2>2 DEF ShutdownIfRunning, First
  <2> QED
    BY <2>1, <2>2
<1>6. ASSUME NEW w \in Workers, unexpectedError(w) PROVE EndsInv'
  <2>1. /\ stage[w] = "running" /\ fatalError[w] = "none"
        /\ fatalError' = [fatalError EXCEPT ![w] = "unexpected"]
        /\ ShutdownIfRunning(w, "unexpected")
    BY <1>6 DEF unexpectedError
  <2>2. reported' = [reported EXCEPT ![w] = "unexpected"]
    BY <2>1 DEF ShutdownIfRunning, Shutdown, First
  <2>3. \/ stage' = stage /\ outcome' = outcome /\ state' = [state EXCEPT ![w] = "DRAINING"]
        \/ /\ stage' = [stage EXCEPT ![w] = "ending"] /\ state' = [state EXCEPT ![w] = "FAILED"]
           /\ outcome' = [outcome EXCEPT ![w] = "initiate"]
        \/ stage' = stage /\ outcome' = outcome /\ state' = state
    BY <2>1 DEF ShutdownIfRunning, Shutdown, Terminate
  <2> QED
    BY <1>0, <2>1, <2>2, <2>3
<1>7. ASSUME NEW w \in Workers, NEW e \in Errors, state[w] \in {"RUNNING", "DRAINING"},
             Terminate(w, e), reported' = [reported EXCEPT ![w] = First(w, e)],
             UNCHANGED fatalError
      PROVE  EndsInv'
  BY <1>7 DEF TypeOK, Terminate, First
<1>8. ASSUME NEW w \in Workers, drained(w) PROVE EndsInv'
  <2>1. CASE fatalError[w] = "none"
    BY <1>0, <1>8, <2>1 DEF drained
  <2>2. CASE fatalError[w] # "none"
    BY <1>0, <1>8, <2>2 DEF drained, Terminate
  <2> QED
    BY <2>1, <2>2
<1>9. ASSUME NEW w \in Workers, NEW fails \in BOOLEAN, finalized(w, fails) PROVE EndsInv'
  <2>1. /\ stage[w] = "finalizing" /\ UNCHANGED <<state, fatalError, reported>>
        /\ \E t \in {"closing", "destroying"} : stage' = [stage EXCEPT ![w] = t]
    BY <1>9 DEF finalized
  <2>2. outcome' = [outcome EXCEPT ![w] = IF fails /\ @ = "ok" THEN "finalize" ELSE @]
    BY <1>9 DEF finalized
  <2>3. CASE fails /\ outcome[w] = "ok"
    <3>1. outcome' = [outcome EXCEPT ![w] = "finalize"]
      BY <2>2, <2>3
    <3> QED
      BY <1>0, <2>1, <2>3, <3>1
  <2>4. CASE ~(fails /\ outcome[w] = "ok")
    <3>1. outcome' = outcome
      BY <2>2, <2>4
    <3> QED
      BY <1>0, <2>1, <3>1
  <2> QED
    BY <2>3, <2>4
<1> HIDE DEF EndsInv, FirstErrorThrown, Go, Creating
<1>10. CASE UNCHANGED vars \/ UserConnection \/ Signal
  BY <1>1, <1>10 DEF vars, UserConnection, Signal, lifeVars
<1>11. ASSUME NEW w \in Workers, Create(w) \/ setConnection(w) PROVE EndsInv'
  <2>1. CASE setConnection(w)
    BY <1>1, <2>1 DEF setConnection
  <2>2. CASE Create(w)
    <3>1. UNCHANGED endVars
      BY <2>2 DEF Create, create, prepareConnects, prepareUsesOption, prepareConnected,
         prepareConnectFails, createFails, createCloses, created
    <3>2. stage[w] \in Creating \cup {"absent"} \/ (stage[w] = "uncreated" /\ Go(w, "failed"))
      BY <2>2 DEF Create, create, prepareConnects, prepareUsesOption, prepareConnected,
         prepareConnectFails, createFails, createCloses, created, Creating
    <3>3. PICK t \in Creating \cup {"created", "uncreated", "failed"} : Go(w, t)
      BY <2>2 DEF Create, create, prepareConnects, prepareUsesOption, prepareConnected,
         prepareConnectFails, createFails, createCloses, created, Creating
    <3>4. CASE stage[w] \in Creating \cup {"absent"}
      BY <1>2, <3>1, <3>3, <3>4 DEF Creating, EndsInv, ErrorInv
    <3>5. CASE stage[w] = "uncreated" /\ Go(w, "failed")
      BY <1>2, <3>1, <3>5 DEF Creating
    <3> QED
      BY <3>2, <3>4, <3>5
  <2> QED
    BY <1>11, <2>1, <2>2
<1>12. ASSUME NEW w \in Workers, Run(w) PROVE EndsInv'
  <2>1. CASE (\E until \in {"none", "pending"} : run(w, until)) \/ pluginRuns(w)
    <3>1. stage[w] \in {"created", "plugin"} /\ UNCHANGED <<fatalError, reported, outcome>>
      BY <2>1 DEF run, pluginRuns
    <3>2. Start(w) \/ (Go(w, "plugin") /\ UNCHANGED endVars)
      BY <2>1 DEF run, pluginRuns, endVars
    <3> QED
      BY <1>2, <1>3, <3>1, <3>2 DEF EndsInv, ErrorInv
  <2>2. CASE shutdown(w)
    BY <1>4, <2>2 DEF shutdown
  <2>3. CASE shutdownCallback(w) \/ innerSettles(w)
    BY <1>5, <2>3 DEF shutdownCallback, innerSettles
  <2>4. CASE forceTimeExpires(w)
    BY <1>7, <2>4 DEF forceTimeExpires
  <2> QED
    BY <1>6, <1>8, <1>12, <2>1, <2>2, <2>3, <2>4 DEF Run
<1>13. ASSUME NEW w \in Workers, Finalize(w) PROVE EndsInv'
  <2>1. CASE deregisters(w) \/ closesConnection(w) \/ destroyed(w)
    <3>1. /\ UNCHANGED endVars /\ stage[w] # "running"
          /\ \E t \in {"finalizing", "destroying", "returned"} : Go(w, t)
      BY <2>1 DEF deregisters, closesConnection, destroyed
    <3> QED
      BY <1>2, <3>1 DEF Creating
  <2> QED
    BY <1>9, <1>13, <2>1 DEF Finalize
<1>14. ASSUME NEW w \in Workers, NEW k \in Kinds, Pipeline(w, k) PROVE EndsInv'
  <2>1. CASE pipelineFails(w, k)
    BY <1>7, <2>1 DEF pipelineFails, EndsInv, ErrorInv
  <2>2. CASE pollReturns(w, k) \/ taskCompletes(w, k) \/ pollerEnds(w, k)
    BY <1>1, <2>2 DEF pollReturns, taskCompletes, pollerEnds, lifeVars
  <2> QED
    BY <1>14, <2>1, <2>2 DEF Pipeline
<1> QED
  BY <1>10, <1>11, <1>12, <1>13, <1>14 DEF Next

-----------------------------------------------------------------------------------
(* The theorems.                                                                   *)

(* The inductive invariant.                                                        *)
LEMMA InitInv == Init => IInv
<1> SUFFICES ASSUME Init PROVE IInv
  OBVIOUS
<1> USE RuntimeAssumption, WorkerAssumption DEF Init, RuntimeInit
<1>1. TypeOK
  BY DEF TypeOK, RuntimeTypeOK, Stages, Connections
<1>2. TasksInv
  BY DEF TasksInv
<1>3. Tracked /\ LiveInv /\ Linked
  BY DEF Tracked, LiveInv, Linked, Creating, Existing, Connections
<1>4. EndsInv
  BY DEF EndsInv, ErrorInv, FirstErrorThrown, Creating
<1> QED
  BY <1>1, <1>2, <1>3, <1>4 DEF IInv

LEMMA NextInv == IInv /\ [Next]_vars => IInv'
<1> SUFFICES ASSUME IInv, [Next]_vars PROVE IInv'
  OBVIOUS
<1>1. TasksInv' /\ EndsInv'
  BY NextTasks, NextEnds DEF IInv
<1>2. Tracked' /\ LiveInv' /\ Linked'
  BY NextTracked, NextLinked DEF IInv, EndsInv
<1>3. TypeOK'
  BY <1>1, NextRuntimeTypes, NextLifeTypes DEF IInv, EndsInv, TasksInv, TypeOK
<1> QED
  BY <1>1, <1>2, <1>3 DEF IInv

(* The invariant holds in every execution, for any workers, pipelines and tasks.   *)
THEOREM WorkerInvariant == Spec => []IInv
  BY InitInv, NextInv, PTL DEF Spec

(* shutdownIfIdle: a native runtime is live exactly as long as a worker, a         *)
(* connection or a creation needs it.                                              *)
THEOREM RuntimeLivesAsNeeded == Spec => []RuntimeAsNeeded
<1>1. IInv => RuntimeAsNeeded
  <2> SUFFICES ASSUME IInv, NEW r \in Runtimes PROVE native[r] = "live" <=> Needed(r)
    BY DEF RuntimeAsNeeded
  <2>1. native[r] = "live" <=> pendingCreations[r] # {} \/ backRefs[r] # {}
    BY DEF IInv, LiveInv
  <2>2. pendingCreations[r] \subseteq Objects /\ backRefs[r] \subseteq Objects
    BY DEF IInv, TypeOK, RuntimeTypeOK
  <2>3. (\E obj \in Objects : obj \in pendingCreations[r] \/ obj \in backRefs[r]) <=> Needed(r)
    BY DEF IInv, Tracked, Objects, Needed
  <2> QED
    BY <2>1, <2>2, <2>3
<1> QED
  BY <1>1, WorkerInvariant, PTL

(* Runtime.instance() and shutdown() keep one live native runtime, and a worker's  *)
(* own connection is made on it.                                                   *)
THEOREM OneRuntimeAtATime == Spec => []OneRuntime
<1>1. IInv => OneRuntime
  BY DEF IInv, LiveInv, Linked, OneRuntime
<1> QED
  BY <1>1, WorkerInvariant, PTL

(* run() throws the error that was reported first, whatever follows it.            *)
THEOREM RunThrowsFirstError == Spec => []FirstErrorThrown
<1>1. IInv => FirstErrorThrown
  BY DEF IInv, EndsInv
<1> QED
  BY <1>1, WorkerInvariant, PTL
=====================================================================================
