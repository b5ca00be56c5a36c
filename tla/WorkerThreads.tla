------------------------------- MODULE WorkerThreads -------------------------------
(***********************************************************************************)
(* The pool of Node worker threads in which workflows run, and the clients that    *)
(* talk to them (packages/worker/src/workflow/threaded-vm.ts,                      *)
(* workflow-worker-thread.ts, reusable-vm.ts and vm.ts).                           *)
(*                                                                                 *)
(* A request is settled by the response with its id or, when the thread exits, by  *)
(* a rejection of everything that is pending.  The caller is a workflow's group    *)
(* (module WorkflowCache), which awaits each request before it makes the next:     *)
(* requests are therefore kept per workflow.  Requests of different workflows are  *)
(* answered in any order, as the thread's handlers are async.                      *)
(***********************************************************************************)
EXTENDS Integers, FiniteSets

CONSTANTS
  Threads,      \* the pool, natural numbers in the order of workerThreadClients
  Runs          \* run ids of the workflows

ASSUME ThreadsAssumption == Threads \subseteq Nat /\ Threads # {} /\ IsFiniteSet(Threads)

VARIABLES
  thread,               \* "up", "failing" (exitError is set) or "exited"
  activeWorkflowCount,  \* WorkerThreadClient.activeWorkflowCount
  workflowByRunId,      \* in the thread: the keys of WorkflowCreator.workflowByRunId
  request,              \* per workflow: the request that is awaited
  destroying            \* clients in destroy(): "no", "asked", "terminating", "done"
                        \* or "rejected"

threadVars == <<thread, activeWorkflowCount, workflowByRunId, request, destroying>>

RequestTypes == {"create", "activate", "sinks", "dispose"}
NoRequest == [type |-> "none"]
Request(type, t) == [type |-> type, to |-> t, rejected |-> FALSE]

ThreadsTypeOK ==
  /\ thread \in [Threads -> {"up", "failing", "exited"}]
  /\ activeWorkflowCount \in [Threads -> Int]
  /\ workflowByRunId \in [Threads -> SUBSET Runs]
  /\ request \in [Runs -> [type : RequestTypes, to : Threads, rejected : BOOLEAN]
                            \cup {NoRequest}]
  /\ destroying \in [Threads -> {"no", "asked", "terminating", "done", "rejected"}]

ThreadsInit ==
  /\ thread = [t \in Threads |-> "up"]
  /\ activeWorkflowCount = [t \in Threads |-> 0]
  /\ workflowByRunId = [t \in Threads |-> {}]
  /\ request = [r \in Runs |-> NoRequest]
  /\ destroying = [t \in Threads |-> "no"]

Waiting(r) == request[r] # NoRequest

-----------------------------------------------------------------------------------
(* Requests.                                                                       *)

(* createWorkflow: the client with the lowest count, the last one among equals.    *)
IsLeastBusy(t) ==
  \A u \in Threads : \/ activeWorkflowCount[u] > activeWorkflowCount[t]
                     \/ activeWorkflowCount[u] = activeWorkflowCount[t] /\ u <= t

(* send() to a thread that is up; the caller handles the throw of the other case.  *)
Send(r, type, t) ==
  /\ request' = [request EXCEPT ![r] = Request(type, t)]
  /\ activeWorkflowCount' =
       [activeWorkflowCount EXCEPT ![t] = CASE type = "create"  -> @ + 1
                                            [] type = "dispose" -> @ - 1
                                            [] OTHER            -> @]

(* The thread handles the request of r and its response settles it.  The creator   *)
(* registers a workflow only when all of its creation has succeeded, and dispose   *)
(* removes it only when the workflow's own disposal has not thrown.                *)
Handled(r, ok) ==
  LET t == request[r].to
  IN  /\ Waiting(r)
      /\ ~request[r].rejected
      /\ thread[t] # "exited"
      /\ workflowByRunId' =
           [workflowByRunId EXCEPT ![t] =
              CASE request[r].type = "create" /\ ok  -> @ \cup {r}
                [] request[r].type = "dispose" /\ ok -> @ \ {r}
                [] OTHER                             -> @]

(* The await of a request that the thread's exit has rejected resumes.             *)
Rejected(r) == Waiting(r) /\ request[r].rejected

-----------------------------------------------------------------------------------
(* Threads that die, and threads that are destroyed.                               *)

(* The 'error' event: an exception that the thread did not catch.                  *)
threadError(t) ==
  /\ thread[t] = "up"
  /\ thread' = [thread EXCEPT ![t] = "failing"]
  /\ UNCHANGED <<activeWorkflowCount, workflowByRunId, request, destroying>>

(* Mutant: an exit that leaves the pending requests unsettled.                     *)
threadExitSilent(t) ==
  /\ thread[t] # "exited"
  /\ thread' = [thread EXCEPT ![t] = "exited"]
  /\ workflowByRunId' = [workflowByRunId EXCEPT ![t] = {}]
  /\ destroying' = [destroying EXCEPT ![t] = IF @ = "terminating" THEN "done" ELSE @]
  /\ UNCHANGED <<activeWorkflowCount, request>>

(* The 'exit' event: every pending completion is rejected, that of destroy() too.  *)
threadExit(t) ==
  /\ thread[t] # "exited"
  /\ thread' = [thread EXCEPT ![t] = "exited"]
  /\ request' = [r \in Runs |->
                   IF Waiting(r) /\ request[r].to = t
                     THEN [request[r] EXCEPT !.rejected = TRUE]
                     ELSE request[r]]
  /\ workflowByRunId' = [workflowByRunId EXCEPT ![t] = {}]
  /\ destroying' = [destroying EXCEPT ![t] =
                      CASE @ = "asked"       -> "rejected"
                        [] @ = "terminating" -> "done"
                        [] OTHER             -> @]
  /\ UNCHANGED activeWorkflowCount

(* ThreadedVMWorkflowCreator.destroy() calls destroy() on every client: nothing to *)
(* do for a thread that has exited, a throw for one with an exitError.             *)
destroyAll ==
  /\ destroying' = [t \in Threads |-> CASE thread[t] = "exited"  -> "done"
                                        [] thread[t] = "failing" -> "rejected"
                                        [] OTHER                 -> "asked"]
  /\ UNCHANGED <<thread, activeWorkflowCount, workflowByRunId, request>>

(* The thread has destroyed its creator; the client terminates the thread.         *)
destroyAnswered(t) ==
  /\ destroying[t] = "asked"
  /\ thread[t] # "exited"
  /\ destroying' = [destroying EXCEPT ![t] = "terminating"]
  /\ UNCHANGED <<thread, activeWorkflowCount, workflowByRunId, request>>
=====================================================================================
