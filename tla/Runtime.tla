---------------------------------- MODULE Runtime ----------------------------------
(***********************************************************************************)
(* The process-wide Runtime singleton (packages/worker/src/runtime.ts) and the     *)
(* native connections that keep it alive (packages/worker/src/connection.ts).      *)
(*                                                                                 *)
(* A Runtime owns a native runtime that must be shut down when the last native     *)
(* object is gone, and not before.  It keeps two records for that: the native      *)
(* objects that exist (backRefs) and the creations that are under way              *)
(* (pendingCreations; the code counts them, and as every increment is paired with  *)
(* one decrement in a finally block, the model keeps the set that is counted).     *)
(* Runtime.instance() makes a new Runtime when the previous one has been shut      *)
(* down, so several Runtime objects may exist one after another.                   *)
(*                                                                                 *)
(* JavaScript runs to completion between awaits: everything a function does        *)
(* between two awaits of a native call is one action here.                         *)
(***********************************************************************************)
EXTENDS Naturals, FiniteSets

CONSTANTS
  Runtimes,       \* identities of Runtime objects, natural numbers taken in order
  Workers,        \* identities of Worker objects
  User,           \* the NativeConnection that the application makes for itself
  None            \* "undefined"

ASSUME RuntimeAssumption ==
  /\ Runtimes \subseteq Nat
  /\ None \notin Runtimes \cup Workers \cup {User}
  /\ User \notin Workers

VARIABLES
  instance,          \* Runtime._instance
  native,            \* per Runtime: "unborn", "live" or "gone" (native === undefined)
  rtState,           \* Runtime.state
  backRefs,          \* Runtime.backRefs
  pendingCreations,  \* Runtime.pendingCreations, as the set that is counted
  callbacks,         \* Runtime.shutdownSignalCallbacks
  microtasks,        \* the callbacks handed to queueMicrotask and not run yet
  connState,         \* per connection: "absent", "connecting", "open" or "closed"
  connRuntime        \* NativeConnection.runtime

countVars == <<instance, native, backRefs, pendingCreations>>
signalVars == <<rtState, callbacks, microtasks>>
connVars == <<connState, connRuntime>>
runtimeVars == <<countVars, signalVars, connVars>>

(* Connection w is the InternalNativeConnection that worker w makes for itself.    *)
Connections == Workers \cup {User}
Client(c) == <<"client", c>>
Native(w) == <<"worker", w>>
Objects == {Client(c) : c \in Connections} \cup {Native(w) : w \in Workers}

RuntimeTypeOK ==
  /\ instance \in Runtimes \cup {None}
  /\ native \in [Runtimes -> {"unborn", "live", "gone"}]
  /\ rtState \in [Runtimes -> {"RUNNING", "SHUTTING_DOWN"}]
  /\ backRefs \in [Runtimes -> SUBSET Objects]
  /\ pendingCreations \in [Runtimes -> SUBSET Objects]
  /\ callbacks \in [Runtimes -> SUBSET Workers]
  /\ microtasks \subseteq Workers
  /\ connState \in [Connections -> {"absent", "connecting", "open", "closed"}]
  /\ connRuntime \in [Connections -> Runtimes \cup {None}]

RuntimeInit ==
  /\ instance = None
  /\ native = [r \in Runtimes |-> "unborn"]
  /\ rtState = [r \in Runtimes |-> "RUNNING"]
  /\ backRefs = [r \in Runtimes |-> {}]
  /\ pendingCreations = [r \in Runtimes |-> {}]
  /\ callbacks = [r \in Runtimes |-> {}]
  /\ microtasks = {}
  /\ connState = [c \in Connections |-> "absent"]
  /\ connRuntime = [c \in Connections |-> None]

-----------------------------------------------------------------------------------
(* Creation and idle shutdown.                                                     *)

(* Runtime.instance() returns r: the singleton, or a new Runtime.                  *)
Instance(r) ==
  IF instance # None
    THEN r = instance
    ELSE /\ native[r] = "unborn"
         /\ \A q \in Runtimes : q < r => native[q] # "unborn"

(* createNativeNoBackRef before its await, on the Runtime that Instance returned.  *)
BeginCreation(r, obj) ==
  /\ instance' = r
  /\ native' = [native EXCEPT ![r] = IF instance = None THEN "live" ELSE @]
  /\ pendingCreations' = [pendingCreations EXCEPT ![r] = @ \cup {obj}]
  /\ UNCHANGED backRefs

(* The creation succeeded: the object is tracked, then no longer pending.          *)
EndCreation(r, obj) ==
  /\ backRefs' = [backRefs EXCEPT ![r] = @ \cup {obj}]
  /\ pendingCreations' = [pendingCreations EXCEPT ![r] = @ \ {obj}]
  /\ UNCHANGED <<instance, native>>

(* Mutant: a shutdown that leaves Runtime._instance alone.                         *)
ShutdownIfIdleKept(r, pending, refs) ==
  /\ native' = [native EXCEPT ![r] = IF pending = {} /\ refs = {} THEN "gone" ELSE @]
  /\ UNCHANGED instance

(* shutdownIfIdle() once pending and refs are what r has left, with shutdown().    *)
ShutdownIfIdle(r, pending, refs) ==
  LET idle == pending = {} /\ refs = {}
  IN  /\ native' = [native EXCEPT ![r] = IF idle THEN "gone" ELSE @]
      /\ instance' = IF idle /\ instance = r THEN None ELSE instance

(* The creation failed: the catch block of createNativeNoBackRef.                  *)
AbandonCreation(r, obj) ==
  /\ pendingCreations' = [pendingCreations EXCEPT ![r] = @ \ {obj}]
  /\ UNCHANGED backRefs
  /\ ShutdownIfIdle(r, pendingCreations[r] \ {obj}, backRefs[r])

(* closeNativeClient, and deregisterWorker after its await.                        *)
Forget(r, obj) ==
  /\ backRefs' = [backRefs EXCEPT ![r] = @ \ {obj}]
  /\ UNCHANGED pendingCreations
  /\ ShutdownIfIdle(r, pendingCreations[r], backRefs[r] \ {obj})

-----------------------------------------------------------------------------------
(* NativeConnection.                                                               *)

(* connect(): Runtime.instance() and createNativeClient up to its await.           *)
connect(c) ==
  /\ connState[c] = "absent"
  /\ \E r \in Runtimes :
       /\ Instance(r)
       /\ BeginCreation(r, Client(c))
       /\ connRuntime' = [connRuntime EXCEPT ![c] = r]
  /\ connState' = [connState EXCEPT ![c] = "connecting"]
  /\ UNCHANGED signalVars

connected(c) ==
  /\ connState[c] = "connecting"
  /\ EndCreation(connRuntime[c], Client(c))
  /\ connState' = [connState EXCEPT ![c] = "open"]
  /\ UNCHANGED <<connRuntime, signalVars>>

connectFails(c) ==
  /\ connState[c] = "connecting"
  /\ AbandonCreation(connRuntime[c], Client(c))
  /\ connState' = [connState EXCEPT ![c] = "closed"]
  /\ UNCHANGED <<connRuntime, signalVars>>

(* close(), for a connection that no Worker refers to.                             *)
close(c) ==
  /\ connState[c] = "open"
  /\ Forget(connRuntime[c], Client(c))
  /\ connState' = [connState EXCEPT ![c] = "closed"]
  /\ UNCHANGED <<connRuntime, signalVars>>

-----------------------------------------------------------------------------------
(* Shutdown signals.                                                               *)

(* Mutant: registration that forgets that the signal may have come before.         *)
RegisterCallbackLate(r, w) ==
  /\ callbacks' = [callbacks EXCEPT ![r] = @ \cup {w}]
  /\ UNCHANGED microtasks

(* registerShutdownSignalCallback: at once when the signal has already come.       *)
RegisterCallback(r, w) ==
  IF rtState[r] = "RUNNING"
    THEN /\ callbacks' = [callbacks EXCEPT ![r] = @ \cup {w}]
         /\ UNCHANGED microtasks
    ELSE /\ microtasks' = microtasks \cup {w}
         /\ UNCHANGED callbacks

DeregisterCallback(r, w) ==
  callbacks' = [callbacks EXCEPT ![r] = @ \ {w}]

(* A signal of the process while the hook is set up: startShutdownSequence.        *)
startShutdownSequence(r) ==
  /\ native[r] = "live"
  /\ rtState[r] = "RUNNING"
  /\ rtState' = [rtState EXCEPT ![r] = "SHUTTING_DOWN"]
  /\ microtasks' = microtasks \cup callbacks[r]
  /\ callbacks' = [callbacks EXCEPT ![r] = {}]
  /\ UNCHANGED <<countVars, connVars>>
=====================================================================================
