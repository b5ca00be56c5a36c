---------------------------------- MODULE Worker ----------------------------------
(***********************************************************************************)
(* The life of Workers (packages/worker/src/worker.ts), composed with the Runtime  *)
(* they share: Worker.create, run and runUntil, shutdown requested by a signal,    *)
(* by the application or by an error, draining, the force timer, and the           *)
(* finalization that gives the Runtime back.                                       *)
(*                                                                                 *)
(* "stage" is where the async functions create and runInternal of a worker stand;  *)
(* "state" is the State that the code itself keeps.  STOPPING and DRAINED are      *)
(* never seen between two actions: the code leaves them in the same turn, or is    *)
(* failed by the error that kept it there.                                         *)
(*                                                                                 *)
(* A task that is in flight stands for whatever its pipeline has open: a cached    *)
(* workflow, a running activity, a Nexus handler (their inside is the subject of   *)
(* the modules WorkflowCache and ActivityTasks).                                   *)
(***********************************************************************************)
EXTENDS Runtime

CONSTANTS
  Kinds,             \* the pipelines: workflow, activity and Nexus tasks
  Registered(_),     \* the pipelines for which a worker has something registered
  Internal,          \* the workers created without options.connection
  HasForceTime,      \* the workers with shutdownForceTimeMs
  InitiateMayFail,   \* the workers whose native initiateShutdown may throw
  Delayed,           \* the workers with a plugin that may await before runInternal
  MaxTasks           \* bound: tasks that a pipeline has in flight (maxConcurrent...)

ASSUME WorkerAssumption ==
  /\ \A w \in Workers : Registered(w) \subseteq Kinds
  /\ Internal \subseteq Workers
  /\ HasForceTime \subseteq Workers
  /\ InitiateMayFail \subseteq Workers
  /\ Delayed \subseteq Workers
  /\ MaxTasks \in Nat

VARIABLES
  stage,             \* where create() and runInternal() stand
  state,             \* Worker.state
  runtime,           \* Worker.runtime
  connection,        \* Worker._connection
  inner,             \* runUntil's fnOrPromise: "none", "pending" or "settled"
  poller,            \* per pipeline: "off", "polling" or "ended"
  inflight,          \* per pipeline: tasks not finished yet
  fatalError,        \* runInternal's fatalError
  reported,          \* ghost: the first error reported since run() was called
  outcome            \* what run() settles with: "ok" or an error

lifeVars == <<stage, runtime, connection, inner>>
pipeVars == <<poller, inflight>>
endVars == <<state, fatalError, reported, outcome>>
vars == <<runtimeVars, lifeVars, pipeVars, endVars>>

Creating == {"preparing", "connecting", "unprepared", "validating"}
Existing == {"created", "plugin", "running", "ending", "finalizing"}
Stages == {"absent", "uncreated", "closing", "destroying", "returned", "failed"}
            \cup Creating \cup Existing
Errors == {"unexpected", "initiate", "expired", "pipeline", "finalize"}

(* Worker.referenceHolders of a connection.                                        *)
ReferenceHolders(c) ==
  {w \in Workers : connection[w] = c /\ stage[w] \in Existing}

(* Types of the runtime's and of the workers' state.                               *)
TypeOK ==
  /\ RuntimeTypeOK
  /\ stage \in [Workers -> Stages]
  /\ state \in [Workers -> {"INITIALIZED", "RUNNING", "DRAINING", "STOPPED", "FAILED"}]
  /\ runtime \in [Workers -> Runtimes \cup {None}]
  /\ connection \in [Workers -> Connections \cup {None}]
  /\ inner \in [Workers -> {"none", "pending", "settled"}]
  /\ poller \in [Workers -> [Kinds -> {"off", "polling", "ended"}]]
  /\ inflight \in [Workers -> [Kinds -> 0..MaxTasks]]
  /\ fatalError \in [Workers -> {"none", "unexpected"}]
  /\ reported \in [Workers -> Errors \cup {"none"}]
  /\ outcome \in [Workers -> Errors \cup {"none", "ok"}]

Init ==
  /\ RuntimeInit
  /\ stage = [w \in Workers |-> "absent"]
  /\ state = [w \in Workers |-> "INITIALIZED"]
  /\ runtime = [w \in Workers |-> None]
  /\ connection = [w \in Workers |-> None]
  /\ inner = [w \in Workers |-> "none"]
  /\ poller = [w \in Workers |-> [k \in Kinds |-> "off"]]
  /\ inflight = [w \in Workers |-> [k \in Kinds |-> 0]]
  /\ fatalError = [w \in Workers |-> "none"]
  /\ reported = [w \in Workers |-> "none"]
  /\ outcome = [w \in Workers |-> "none"]

Go(w, s) == stage' = [stage EXCEPT ![w] = s]

-----------------------------------------------------------------------------------
(* Worker.create.                                                                  *)

(* create() up to the first await of prepare(): Runtime.instance() and             *)
(* registerWorker, which counts the creation before it prepares anything.          *)
create(w) ==
  /\ stage[w] = "absent"
  /\ \E r \in Runtimes :
       /\ Instance(r)
       /\ BeginCreation(r, Native(w))
       /\ runtime' = [runtime EXCEPT ![w] = r]
  /\ Go(w, "preparing")
  /\ UNCHANGED <<signalVars, connVars, connection, inner, pipeVars, endVars>>

(* prepare() has its bundle and its WorkflowCreator, and needs a connection: its   *)
(* own, or options.connection, whose native client must still be there.            *)
prepareConnects(w) ==
  /\ stage[w] = "preparing"
  /\ w \in Internal
  /\ connect(w)
  /\ Go(w, "connecting")
  /\ UNCHANGED <<runtime, connection, inner, pipeVars, endVars>>

prepareUsesOption(w) ==
  /\ stage[w] = "preparing"
  /\ w \notin Internal
  /\ connState[User] = "open"
  /\ connection' = [connection EXCEPT ![w] = User]
  /\ Go(w, "validating")
  /\ UNCHANGED <<runtimeVars, runtime, inner, pipeVars, endVars>>

prepareConnected(w) ==
  /\ stage[w] = "connecting"
  /\ connected(w)
  /\ connection' = [connection EXCEPT ![w] = w]
  /\ Go(w, "validating")
  /\ UNCHANGED <<runtime, inner, pipeVars, endVars>>

prepareConnectFails(w) ==
  /\ stage[w] = "connecting"
  /\ connectFails(w)
  /\ Go(w, "unprepared")
  /\ UNCHANGED <<runtime, connection, inner, pipeVars, endVars>>

(* prepare() or the native validation fails: create() closes the connection that   *)
(* it made, if it got that far.                                                    *)
createFails(w) ==
  /\ stage[w] \in {"preparing", "unprepared", "validating"}
  /\ AbandonCreation(runtime[w], Native(w))
  /\ Go(w, IF connection[w] = w THEN "uncreated" ELSE "failed")
  /\ UNCHANGED <<signalVars, connVars, runtime, connection, inner, pipeVars, endVars>>

createCloses(w) ==
  /\ stage[w] = "uncreated"
  /\ close(w)
  /\ Go(w, "failed")
  /\ UNCHANGED <<runtime, connection, inner, pipeVars, endVars>>

created(w) ==
  /\ stage[w] = "validating"
  /\ EndCreation(runtime[w], Native(w))
  /\ Go(w, "created")
  /\ UNCHANGED <<signalVars, connVars, runtime, connection, inner, pipeVars, endVars>>

Create(w) ==
  \/ create(w) \/ prepareConnects(w) \/ prepareUsesOption(w)
  \/ prepareConnected(w) \/ prepareConnectFails(w)
  \/ createFails(w) \/ createCloses(w) \/ created(w)

(* The setter of Worker.connection: the new connection is referenced, and the      *)
(* previous one closed if this worker made it.                                     *)
setConnection(w) ==
  /\ stage[w] \in {"created", "plugin", "running"}
  /\ connState[User] = "open"
  /\ connection[w] # User
  /\ connection' = [connection EXCEPT ![w] = User]
  /\ close(w)
  /\ UNCHANGED <<stage, runtime, inner, pipeVars, endVars>>

-----------------------------------------------------------------------------------
(* run, runUntil and shutdown.                                                     *)

(* runInternal() up to its await: the state, the callback, the merged pipelines.   *)
Start(w) ==
  /\ state' = [state EXCEPT ![w] = "RUNNING"]
  /\ RegisterCallback(runtime[w], w)
  /\ poller' = [poller EXCEPT ![w] =
                  [k \in Kinds |-> IF k \in Registered(w) THEN "polling" ELSE "off"]]
  /\ Go(w, "running")

(* run(), or runUntil() with until = "pending": plugins may delay runInternal.     *)
run(w, until) ==
  /\ stage[w] = "created"
  /\ inner' = [inner EXCEPT ![w] = until]
  /\ \/ Start(w)
     \/ /\ w \in Delayed
        /\ Go(w, "plugin")
        /\ UNCHANGED <<state, callbacks, microtasks, poller>>
  /\ UNCHANGED <<countVars, rtState, connVars, runtime, connection, inflight,
                 fatalError, reported, outcome>>

pluginRuns(w) ==
  /\ stage[w] = "plugin"
  /\ Start(w)
  /\ UNCHANGED <<countVars, rtState, connVars, runtime, connection, inner,
                 inflight, fatalError, reported, outcome>>

First(w, e) == IF reported[w] = "none" THEN e ELSE reported[w]

(* Mutant: termination with the error that came last.                              *)
TerminateMasking(w, e) ==
  /\ state' = [state EXCEPT ![w] = "FAILED"]
  /\ outcome' = [outcome EXCEPT ![w] = e]
  /\ Go(w, "ending")

(* An error ends the merged pipelines at once; fatalError takes precedence.        *)
Terminate(w, e) ==
  /\ state' = [state EXCEPT ![w] = "FAILED"]
  /\ outcome' = [outcome EXCEPT ![w] = IF fatalError[w] = "none" THEN e ELSE fatalError[w]]
  /\ Go(w, "ending")

(* shutdown() called because of error e ("none" when there is no error): STOPPING, *)
(* then DRAINING, or termination if the native call throws.                        *)
Shutdown(w, e) ==
  \/ /\ state' = [state EXCEPT ![w] = "DRAINING"]
     /\ reported' = [reported EXCEPT ![w] = First(w, e)]
     /\ UNCHANGED <<stage, outcome>>
  \/ /\ w \in InitiateMayFail
     /\ reported' = [reported EXCEPT ![w] = First(w, IF e = "none" THEN "initiate" ELSE e)]
     /\ Terminate(w, "initiate")

ShutdownIfRunning(w, e) ==
  IF state[w] = "RUNNING"
    THEN Shutdown(w, e)
    ELSE /\ reported' = [reported EXCEPT ![w] = First(w, e)]
         /\ UNCHANGED <<stage, state, outcome>>

(* shutdown() called by the application.                                           *)
shutdown(w) ==
  /\ state[w] = "RUNNING"
  /\ Shutdown(w, "none")
  /\ UNCHANGED <<runtimeVars, runtime, connection, inner, pipeVars, fatalError>>

(* shutdownCallback in the microtask that the Runtime queued for it.               *)
shutdownCallback(w) ==
  /\ w \in microtasks
  /\ microtasks' = microtasks \ {w}
  /\ ShutdownIfRunning(w, "none")
  /\ UNCHANGED <<countVars, rtState, callbacks, connVars, runtime, connection, inner,
                 pipeVars, fatalError>>

(* The promise given to runUntil() settles: its finally block.                     *)
innerSettles(w) ==
  /\ inner[w] = "pending"
  /\ inner' = [inner EXCEPT ![w] = "settled"]
  /\ ShutdownIfRunning(w, "none")
  /\ UNCHANGED <<runtimeVars, runtime, connection, pipeVars, fatalError>>

-----------------------------------------------------------------------------------
(* The pipelines while run() waits for them.                                       *)

pollReturns(w, k) ==
  /\ stage[w] = "running"
  /\ poller[w][k] = "polling"
  /\ inflight[w][k] < MaxTasks
  /\ inflight' = [inflight EXCEPT ![w][k] = @ + 1]
  /\ UNCHANGED <<runtimeVars, lifeVars, poller, endVars>>

taskCompletes(w, k) ==
  /\ stage[w] = "running"
  /\ inflight[w][k] > 0
  /\ inflight' = [inflight EXCEPT ![w][k] = @ - 1]
  /\ UNCHANGED <<runtimeVars, lifeVars, poller, endVars>>

(* A workflow task meets an UnexpectedError, or Core refuses its completion: the   *)
(* first time, the subscription of unexpectedErrorSubject shuts the worker down    *)
(* and then keeps the error.                                                       *)
unexpectedError(w) ==
  /\ stage[w] = "running"
  /\ inflight[w]["workflow"] > 0
  /\ fatalError[w] = "none"
  /\ ShutdownIfRunning(w, "unexpected")
  /\ fatalError' = [fatalError EXCEPT ![w] = "unexpected"]
  /\ UNCHANGED <<runtimeVars, runtime, connection, inner, pipeVars>>

(* A poll or a completion fails in a way that its pipeline does not handle.        *)
pipelineFails(w, k) ==
  /\ stage[w] = "running"
  /\ poller[w][k] = "polling" \/ inflight[w][k] > 0
  /\ Terminate(w, "pipeline")
  /\ reported' = [reported EXCEPT ![w] = First(w, "pipeline")]
  /\ UNCHANGED <<runtimeVars, runtime, connection, inner, pipeVars, fatalError>>

(* Core, asked to shut down, answers a poll with ShutdownError.                    *)
pollerEnds(w, k) ==
  /\ stage[w] = "running"
  /\ state[w] = "DRAINING"
  /\ poller[w][k] = "polling"
  /\ poller' = [poller EXCEPT ![w][k] = "ended"]
  /\ UNCHANGED <<runtimeVars, lifeVars, inflight, endVars>>

(* The delay of forceShutdown$ passes.                                             *)
forceTimeExpires(w) ==
  /\ w \in HasForceTime
  /\ state[w] = "DRAINING"
  /\ Terminate(w, "expired")
  /\ reported' = [reported EXCEPT ![w] = First(w, "expired")]
  /\ UNCHANGED <<runtimeVars, runtime, connection, inner, pipeVars, fatalError>>

(* The last pipeline completes: DRAINED, and with it everything that is merged.    *)
drained(w) ==
  /\ stage[w] = "running"
  /\ \A k \in Kinds : poller[w][k] # "polling" /\ inflight[w][k] = 0
  /\ IF fatalError[w] = "none"
       THEN /\ state' = [state EXCEPT ![w] = "STOPPED"]
            /\ outcome' = [outcome EXCEPT ![w] = "ok"]
            /\ Go(w, "ending")
       ELSE Terminate(w, "none")
  /\ UNCHANGED <<runtimeVars, runtime, connection, inner, pipeVars, fatalError, reported>>

-----------------------------------------------------------------------------------
(* The finally blocks of runInternal.                                              *)

(* The await has ended, and with it every subscription to a pipeline.              *)
deregisters(w) ==
  /\ stage[w] = "ending"
  /\ DeregisterCallback(runtime[w], w)
  /\ poller' = [poller EXCEPT ![w] = [k \in Kinds |-> "off"]]
  /\ inflight' = [inflight EXCEPT ![w] = [k \in Kinds |-> 0]]
  /\ Go(w, "finalizing")
  /\ UNCHANGED <<countVars, rtState, microtasks, connVars, runtime, connection, inner,
                 endVars>>

(* Mutant: the worker is forgotten only if its finalization succeeds.              *)
finalizedOrLeft(w, fails) ==
  /\ stage[w] = "finalizing"
  /\ IF fails THEN UNCHANGED countVars ELSE Forget(runtime[w], Native(w))
  /\ outcome' = [outcome EXCEPT ![w] = IF fails /\ @ = "ok" THEN "finalize" ELSE @]
  /\ Go(w, IF connection[w] = w THEN "closing" ELSE "destroying")
  /\ UNCHANGED <<signalVars, connVars, runtime, connection, inner, pipeVars,
                 state, fatalError, reported>>

(* finalizeShutdown() settles: deregisterWorker forgets the worker either way, and *)
(* a failure is thrown only if run() has no error yet.                             *)
finalized(w, fails) ==
  /\ stage[w] = "finalizing"
  /\ Forget(runtime[w], Native(w))
  /\ outcome' = [outcome EXCEPT ![w] = IF fails /\ @ = "ok" THEN "finalize" ELSE @]
  /\ Go(w, IF connection[w] = w THEN "closing" ELSE "destroying")
  /\ UNCHANGED <<signalVars, connVars, runtime, connection, inner, pipeVars,
                 state, fatalError, reported>>

closesConnection(w) ==
  /\ stage[w] = "closing"
  /\ close(w)
  /\ Go(w, "destroying")
  /\ UNCHANGED <<runtime, connection, inner, pipeVars, endVars>>

(* workflowCreator.destroy() is done, and run() settles.                           *)
destroyed(w) ==
  /\ stage[w] = "destroying"
  /\ Go(w, "returned")
  /\ UNCHANGED <<runtimeVars, runtime, connection, inner, pipeVars, endVars>>

-----------------------------------------------------------------------------------
(* The specification.                                                              *)

(* The application's own connection, which close() refuses while it is referenced. *)
UserConnection ==
  /\ \/ connect(User) \/ connected(User) \/ connectFails(User)
     \/ ReferenceHolders(User) = {} /\ close(User)
  /\ UNCHANGED <<lifeVars, pipeVars, endVars>>

Signal ==
  /\ \E r \in Runtimes : startShutdownSequence(r)
  /\ UNCHANGED <<lifeVars, pipeVars, endVars>>

Pipeline(w, k) ==
  \/ pollReturns(w, k) \/ taskCompletes(w, k) \/ pipelineFails(w, k) \/ pollerEnds(w, k)

Run(w) ==
  \/ run(w, "none") \/ run(w, "pending") \/ pluginRuns(w)
  \/ shutdown(w) \/ shutdownCallback(w) \/ innerSettles(w)
  \/ unexpectedError(w) \/ forceTimeExpires(w) \/ drained(w)

Finalize(w) ==
  \/ deregisters(w) \/ finalized(w, FALSE) \/ finalized(w, TRUE)
  \/ closesConnection(w) \/ destroyed(w)

Next ==
  \/ UserConnection
  \/ Signal
  \/ \E w \in Workers :
       \/ Create(w) \/ setConnection(w) \/ Run(w) \/ Finalize(w)
       \/ \E k \in Kinds : Pipeline(w, k)

Spec == Init /\ [][Next]_vars

(* What runs without anybody's help: microtasks and plugins, the force timer, the  *)
(* native calls of the finally blocks, and Core, which answers the polls once it   *)
(* has been asked to shut down.  Tasks need to finish only where no force timer    *)
(* would end the wait for them.                                                    *)
Fairness ==
  \A w \in Workers :
    /\ WF_vars(shutdownCallback(w) \/ pluginRuns(w) \/ forceTimeExpires(w) \/ drained(w)
               \/ Finalize(w))
    /\ w \notin HasForceTime =>
         \A k \in Kinds : WF_vars(pollerEnds(w, k)) /\ WF_vars(taskCompletes(w, k))

FairSpec == Spec /\ Fairness

-----------------------------------------------------------------------------------
(* Properties.                                                                     *)

(* A Runtime is needed from the moment a creation on it begins until the last      *)
(* native object made on it has been given back.                                   *)
Needed(r) ==
  \/ \E w \in Workers : runtime[w] = r /\ stage[w] \in Creating \cup Existing
  \/ \E c \in Connections : connRuntime[c] = r /\ connState[c] \in {"connecting", "open"}

(* shutdownIfIdle: a native runtime is live exactly as long as it is needed.  It   *)
(* is never shut down under a connection, a worker or a creation that still waits  *)
(* (pendingCreations and backRefs cover all of them at every await), and never     *)
(* left behind idle, whatever fails on the way.                                    *)
RuntimeAsNeeded ==
  \A r \in Runtimes : native[r] = "live" <=> Needed(r)

(* Runtime.instance() and shutdown() keep one native runtime in the process, and a *)
(* worker's own connection is made on the worker's Runtime although connect()      *)
(* asks for the singleton again after the awaits of prepare().                     *)
OneRuntime ==
  /\ \A r \in Runtimes : native[r] = "live" <=> r = instance
  /\ \A w \in Workers : connRuntime[w] # None => connRuntime[w] = runtime[w]

(* run() resolves only if no error was reported, and throws the first one          *)
(* otherwise, so that the cause of a shutdown is not masked by what the shutdown   *)
(* meets later: a poller that fails, or the force time.  The exception is the      *)
(* handler of unexpectedErrorSubject, which calls shutdown() before it keeps its   *)
(* error: an initiateShutdown that throws there takes precedence.                  *)
FirstErrorThrown ==
  \A w \in Workers :
    /\ state[w] = "FAILED" => \/ outcome[w] = reported[w]
                              \/ outcome[w] = "initiate" /\ reported[w] = "unexpected"
    /\ state[w] = "STOPPED" => reported[w] = "none"

(* The shutdown of a running worker has been asked for: by shutdown(), by a signal *)
(* to its Runtime, before or after run(), or by the promise given to runUntil(),   *)
(* unless a plugin delays runInternal: a promise that settles meanwhile finds a    *)
(* worker that is not running yet, and asks nobody.                                *)
Asked(w) ==
  \/ state[w] = "DRAINING"
  \/ \E r \in Runtimes : runtime[w] = r /\ rtState[r] # "RUNNING"
  \/ inner[w] = "settled" /\ w \notin Delayed

(* run() settles once its shutdown has been asked for, even if its tasks and polls *)
(* never end where there is a force time: callbacks, drained pipelines, the force  *)
(* timer and the finally blocks leave no state in which it waits forever.          *)
RunSettles ==
  \A w \in Workers : (stage[w] = "running" /\ Asked(w)) ~> stage[w] = "returned"
=====================================================================================
