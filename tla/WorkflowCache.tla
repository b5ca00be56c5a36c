------------------------------- MODULE WorkflowCache -------------------------------
(***********************************************************************************)
(* Workflow activations in the worker (packages/worker/src/worker.ts:              *)
(* workflowPoll$, workflow$, handleWorkflowActivations, handleActivation,          *)
(* createWorkflow), composed with the worker threads that run the workflows.       *)
(*                                                                                 *)
(* Activations are grouped by run id.  A group handles one activation at a time    *)
(* (mergeScan with concurrency 1) and carries the workflow from one to the next;   *)
(* an eviction closes it.  When the poller ends, every open group gets one         *)
(* synthetic eviction and the pipeline completes once all groups have closed.      *)
(*                                                                                 *)
(* Core (external) has at most one activation outstanding per run, evicts a run    *)
(* in an activation of its own, never activates a run after a failed completion    *)
(* without evicting it first, and ends the poller when it has been asked to shut   *)
(* down and nothing is outstanding.                                                *)
(***********************************************************************************)
EXTENDS WorkerThreads, Sequences

CONSTANTS
  MaxActivations,   \* bound: activations that Core delivers for a run
  MaxExits          \* bound: threads that die by themselves

ASSUME CacheAssumption == MaxActivations \in Nat /\ MaxExits \in Nat

VARIABLES
  core,             \* Core's view of a run: "absent", "cached", "failed", or the
                    \* outstanding activation: "init", "jobs" or "evict"
  delivered,        \* per run: activations delivered so far
  poller,           \* workflowPollerStateSubject: "POLLING" or "SHUTDOWN"
  open,             \* the runs that have a group
  queue,            \* per run: the group's activations; the head is being
                    \* handled while a request is awaited
  workflow,         \* the group's state: the thread of its workflow, or NoThread
  activated,        \* whether activate() has succeeded, while sinks are processed
  unexpected,       \* whether unexpectedErrorSubject has errored
  stopping,         \* whether Core has been asked to shut down
  abandoned         \* ghost: workflows whose disposal threw in their thread

cacheVars == <<core, delivered, poller, open, queue, workflow, activated, unexpected,
               stopping, abandoned>>
vars == <<threadVars, cacheVars>>

NoThread == 0
ASSUME NoThreadIsNone == NoThread \notin Threads

Activations == {"init", "jobs", "evict", "synthetic"}

(* Types of the state of the groups and of the threads.                            *)
TypeOK ==
  /\ ThreadsTypeOK
  /\ core \in [Runs -> {"absent", "cached", "failed", "init", "jobs", "evict"}]
  /\ delivered \in [Runs -> 0..MaxActivations]
  /\ poller \in {"POLLING", "SHUTDOWN"}
  /\ open \subseteq Runs
  /\ queue \in [Runs -> Seq(Activations)]
  /\ workflow \in [Runs -> Threads \cup {NoThread}]
  /\ activated \in [Runs -> BOOLEAN]
  /\ unexpected \in BOOLEAN
  /\ stopping \in BOOLEAN
  /\ abandoned \in SUBSET (Threads \X Runs)

Init ==
  /\ ThreadsInit
  /\ core = [r \in Runs |-> "absent"]
  /\ delivered = [r \in Runs |-> 0]
  /\ poller = "POLLING"
  /\ open = {}
  /\ queue = [r \in Runs |-> <<>>]
  /\ workflow = [r \in Runs |-> NoThread]
  /\ activated = [r \in Runs |-> FALSE]
  /\ unexpected = FALSE
  /\ stopping = FALSE
  /\ abandoned = {}

Outstanding(r) == core[r] \in {"init", "jobs", "evict"}

-----------------------------------------------------------------------------------
(* Core and the poller.                                                            *)

(* workflowPoll$ emits an activation of run r, and groupBy hands it to the run's   *)
(* group, a new one if there is none.                                              *)
pollWorkflowActivation(r, a) ==
  /\ poller = "POLLING"
  /\ delivered[r] < MaxActivations
  /\ \/ a = "init" /\ core[r] = "absent" /\ ~stopping
     \/ a = "jobs" /\ core[r] = "cached"
     \/ a = "evict" /\ core[r] \in {"cached", "failed"}
  /\ core' = [core EXCEPT ![r] = a]
  /\ delivered' = [delivered EXCEPT ![r] = @ + 1]
  /\ open' = open \cup {r}
  /\ queue' = [queue EXCEPT ![r] = Append(@, a)]
  /\ UNCHANGED <<threadVars, poller, workflow, activated, unexpected, stopping,
                 abandoned>>

(* Worker.shutdown(), by the application or by the subscription of                 *)
(* unexpectedErrorSubject.                                                         *)
initiateShutdown ==
  /\ ~stopping
  /\ stopping' = TRUE
  /\ UNCHANGED <<threadVars, core, delivered, poller, open, queue, workflow, activated,
                 unexpected, abandoned>>

(* Mutant: the end of the poller without synthetic evictions.                      *)
pollerEndsQuietly ==
  /\ poller = "POLLING"
  /\ stopping
  /\ \A r \in Runs : ~Outstanding(r)
  /\ poller' = "SHUTDOWN"
  /\ UNCHANGED <<threadVars, core, delivered, open, queue, workflow, activated,
                 unexpected, stopping, abandoned>>

(* The poll fails with ShutdownError: the poller's state changes, on which every   *)
(* open group receives its synthetic eviction.                                     *)
pollerEnds ==
  /\ poller = "POLLING"
  /\ stopping
  /\ \A r \in Runs : ~Outstanding(r)
  /\ poller' = "SHUTDOWN"
  /\ queue' = [r \in Runs |-> IF r \in open THEN Append(queue[r], "synthetic") ELSE queue[r]]
  /\ UNCHANGED <<threadVars, core, delivered, open, workflow, activated, unexpected,
                 stopping, abandoned>>

-----------------------------------------------------------------------------------
(* The ends of handleActivation.                                                   *)

(* A completion is emitted and Core receives it: the group takes its next item.    *)
Answer(r, ok) ==
  /\ core' = [core EXCEPT ![r] = IF ok THEN "cached" ELSE "failed"]
  /\ queue' = [queue EXCEPT ![r] = Tail(@)]
  /\ activated' = [activated EXCEPT ![r] = FALSE]
  /\ request' = [request EXCEPT ![r] = NoRequest]
  /\ UNCHANGED <<open, activeWorkflowCount>>

(* The catch block: a failed completion, and the shutdown of the worker for an     *)
(* UnexpectedError.  The workflow, if it exists, is kept until Core evicts it.     *)
Fail(r, isUnexpected) ==
  /\ Answer(r, FALSE)
  /\ unexpected' = (unexpected \/ isUnexpected)
  /\ stopping' = (stopping \/ isUnexpected)

(* Mutant: an eviction that is answered but leaves the group open.                 *)
CloseNothing(r) ==
  /\ core' = [core EXCEPT ![r] = IF Head(queue[r]) = "evict" THEN "absent" ELSE @]
  /\ queue' = [queue EXCEPT ![r] = Tail(@)]
  /\ workflow' = [workflow EXCEPT ![r] = NoThread]
  /\ request' = [request EXCEPT ![r] = NoRequest]
  /\ UNCHANGED <<open, activeWorkflowCount, activated, unexpected, stopping>>

(* An eviction closes the group, and with it whatever is still queued there; Core  *)
(* gets a completion unless the eviction is synthetic.                             *)
Close(r) ==
  /\ core' = [core EXCEPT ![r] = IF Head(queue[r]) = "evict" THEN "absent" ELSE @]
  /\ open' = open \ {r}
  /\ queue' = [queue EXCEPT ![r] = <<>>]
  /\ workflow' = [workflow EXCEPT ![r] = NoThread]
  /\ request' = [request EXCEPT ![r] = NoRequest]
  /\ UNCHANGED <<activeWorkflowCount, activated, unexpected, stopping>>

(* A request to thread t once activate() has been successful or not (ok): awaited, *)
(* or failed at once with an UnexpectedError if the thread is gone.                *)
Ask(r, type, t, ok) ==
  IF thread[t] = "up"
    THEN /\ Send(r, type, t)
         /\ activated' = [activated EXCEPT ![r] = ok]
         /\ UNCHANGED <<core, open, queue, unexpected, stopping>>
    ELSE Fail(r, TRUE)

-----------------------------------------------------------------------------------
(* The steps of handleActivation.                                                  *)

(* The group takes up an activation with jobs.  It may fail in the codec or in     *)
(* external storage, which is also what an activation of an untracked workflow     *)
(* would amount to; otherwise it needs a workflow, which only an init job makes.   *)
Ready(r, kinds) == ~Waiting(r) /\ queue[r] # <<>> /\ Head(queue[r]) \in kinds

decodeFails(r) ==
  /\ Ready(r, {"init", "jobs"})
  /\ Fail(r, FALSE)
  /\ UNCHANGED <<thread, workflowByRunId, destroying, delivered, poller, workflow, abandoned>>

createWorkflow(r) ==
  /\ Ready(r, {"init"})
  /\ workflow[r] = NoThread
  /\ \E t \in Threads : IsLeastBusy(t) /\ Ask(r, "create", t, FALSE)
  /\ UNCHANGED <<thread, workflowByRunId, destroying, delivered, poller, workflow, abandoned>>

activate(r) ==
  /\ Ready(r, {"init", "jobs"})
  /\ workflow[r] # NoThread
  /\ Ask(r, "activate", workflow[r], FALSE)
  /\ UNCHANGED <<thread, workflowByRunId, destroying, delivered, poller, workflow, abandoned>>

(* The thread has created the workflow, which is activated next, or has failed to. *)
created(r) ==
  /\ request[r].type = "create"
  /\ Handled(r, TRUE)
  /\ workflow' = [workflow EXCEPT ![r] = request[r].to]
  /\ abandoned' = abandoned \ {<<request[r].to, r>>}
  /\ Ask(r, "activate", request[r].to, FALSE)
  /\ UNCHANGED <<thread, destroying, delivered, poller>>

createFails(r) ==
  /\ request[r].type = "create"
  /\ Handled(r, FALSE)
  /\ Fail(r, FALSE)
  /\ UNCHANGED <<thread, destroying, delivered, poller, workflow, abandoned>>

(* activate() has settled; sink calls are fetched before its result is used.       *)
activateSettles(r, ok) ==
  /\ request[r].type = "activate"
  /\ Handled(r, ok)
  /\ Ask(r, "sinks", request[r].to, ok)
  /\ UNCHANGED <<thread, destroying, delivered, poller, workflow, abandoned>>

sinksProcessed(r) ==
  /\ request[r].type = "sinks"
  /\ Handled(r, TRUE)
  /\ Answer(r, activated[r])
  /\ UNCHANGED <<thread, destroying, delivered, poller, workflow, unexpected, stopping,
                 abandoned>>

(* The thread has exited under a request: an UnexpectedError, without sink calls.  *)
rejected(r) ==
  /\ Rejected(r)
  /\ request[r].type # "dispose"
  /\ Fail(r, TRUE)
  /\ UNCHANGED <<thread, workflowByRunId, destroying, delivered, poller, workflow, abandoned>>

-----------------------------------------------------------------------------------
(* Evictions.                                                                      *)

(* Mutant: an eviction that forgets to dispose of the workflow.                    *)
evictUndisposed(r) ==
  /\ Ready(r, {"evict", "synthetic"})
  /\ Close(r)
  /\ UNCHANGED <<thread, workflowByRunId, destroying, delivered, poller, abandoned>>

(* An eviction of a run that has no workflow, or whose thread is gone (dispose()   *)
(* ignores every error), closes the group at once.                                 *)
evictWithoutDisposal(r) ==
  /\ Ready(r, {"evict", "synthetic"})
  /\ workflow[r] # NoThread => thread[workflow[r]] # "up"
  /\ Close(r)
  /\ UNCHANGED <<thread, workflowByRunId, destroying, delivered, poller, abandoned>>

dispose(r) ==
  /\ Ready(r, {"evict", "synthetic"})
  /\ workflow[r] # NoThread
  /\ thread[workflow[r]] = "up"
  /\ Send(r, "dispose", workflow[r])
  /\ UNCHANGED <<thread, workflowByRunId, destroying, cacheVars>>

disposed(r, ok) ==
  /\ Waiting(r)
  /\ request[r].type = "dispose"
  /\ Handled(r, ok)
  /\ abandoned' = IF ok THEN abandoned ELSE abandoned \cup {<<request[r].to, r>>}
  /\ Close(r)
  /\ UNCHANGED <<thread, destroying, delivered, poller>>

disposeRejected(r) ==
  /\ Rejected(r)
  /\ request[r].type = "dispose"
  /\ Close(r)
  /\ UNCHANGED <<thread, workflowByRunId, destroying, delivered, poller, abandoned>>

-----------------------------------------------------------------------------------
(* The specification.                                                              *)

(* A thread dies by itself, at most MaxExits times.                                *)
MayDie(t) == thread[t] = "up" /\ Cardinality({u \in Threads : thread[u] # "up"}) < MaxExits

threadFails(t) ==
  /\ MayDie(t)
  /\ threadError(t)
  /\ UNCHANGED cacheVars

threadExits(t) ==
  /\ MayDie(t) \/ thread[t] = "failing" \/ destroying[t] = "terminating"
  /\ threadExit(t)
  /\ UNCHANGED cacheVars

(* The pipeline has completed, run() goes on to workflowCreator.destroy().         *)
Drained == poller = "SHUTDOWN" /\ open = {}

destroyCreator ==
  /\ Drained
  /\ \A t \in Threads : destroying[t] = "no"
  /\ destroyAll
  /\ UNCHANGED cacheVars

threadDestroyed(t) ==
  /\ destroyAnswered(t)
  /\ UNCHANGED cacheVars

Handle(r) ==
  \/ decodeFails(r) \/ createWorkflow(r) \/ activate(r)
  \/ created(r) \/ createFails(r)
  \/ activateSettles(r, TRUE) \/ activateSettles(r, FALSE) \/ sinksProcessed(r)
  \/ rejected(r)
  \/ evictWithoutDisposal(r) \/ dispose(r)
  \/ disposed(r, TRUE) \/ disposed(r, FALSE) \/ disposeRejected(r)

Pool(t) == threadExits(t) \/ threadDestroyed(t)

Next ==
  \/ \E r \in Runs : Handle(r) \/ \E a \in Activations : pollWorkflowActivation(r, a)
  \/ \E t \in Threads : threadFails(t) \/ Pool(t)
  \/ initiateShutdown \/ pollerEnds \/ destroyCreator

Spec == Init /\ [][Next]_vars

(* Promises that are resolved resume, threads answer or exit, Core ends the poller *)
(* once it may; nothing obliges Core to deliver anything.                          *)
Fairness ==
  /\ \A r \in Runs : WF_vars(Handle(r))
  /\ \A t \in Threads : WF_vars(threadDestroyed(t))
                        /\ WF_vars(thread[t] # "up" /\ threadExits(t))
                        /\ WF_vars(destroying[t] = "terminating" /\ threadExits(t))
  /\ WF_vars(pollerEnds)
  /\ WF_vars(destroyCreator)

FairSpec == Spec /\ Fairness

-----------------------------------------------------------------------------------
(* Properties.                                                                     *)

(* handleActivation and closeableGroupBy keep in step with Core: a run that Core   *)
(* has evicted has no group, and a run that Core has cached or sends jobs to has a *)
(* group with a workflow.  The "untracked workflow" error is thus out of reach,    *)
(* whatever was failed, evicted and created anew before.                           *)
CacheMirrorsCore ==
  \A r \in Runs :
    /\ core[r] = "absent" => r \notin open
    /\ core[r] \in {"cached", "jobs"} /\ poller = "POLLING" =>
         r \in open /\ workflow[r] # NoThread

(* A thread is asked to activate, to drain the sinks of, or to dispose only a      *)
(* workflow that it holds ("Tried to activate non running workflow" is out of      *)
(* reach), and holds only workflows that some group will dispose, except those     *)
(* whose own disposal threw, which VMWorkflowThreadProxy.dispose() ignores.        *)
ThreadsHoldTheWorkflows ==
  \A t \in Threads : thread[t] = "up" =>
    \A r \in Runs :
      /\ Waiting(r) /\ request[r].to = t /\ request[r].type # "create" =>
           r \in workflowByRunId[t]
      /\ r \in workflowByRunId[t] => workflow[r] = t \/ <<t, r>> \in abandoned

(* Every activation is answered, even when threads die under it: by a completion,  *)
(* or by the closing of its group.                                                 *)
ActivationsAnswered ==
  \A r \in Runs : Outstanding(r) ~> ~Outstanding(r)

(* Once Core has been asked to shut down, by the application or because of an      *)
(* UnexpectedError, every group closes and every thread of the pool exits, even if *)
(* the destruction of one of them fails.                                           *)
PoolTerminates ==
  stopping ~> (open = {} /\ \A t \in Threads : thread[t] = "exited")
=====================================================================================
