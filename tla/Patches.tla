---------------------------------- MODULE Patches ----------------------------------
(***********************************************************************************)
(* patched() in a workflow that is evicted and replayed, and the worker's patch    *)
(* activation callback, which the workflow's thread calls synchronously on the     *)
(* main thread (packages/workflow/src/internals.ts: notifyHasPatch, patchInternal; *)
(* packages/worker/src/workflow/patch-activation-callback.ts, threaded-vm.ts and   *)
(* workflow-worker-thread.ts).                                                     *)
(*                                                                                 *)
(* One patch id: ids share no state.  The workflow is a sequence of tasks, in each *)
(* of which its code calls patched() a number of times.  History (external: the    *)
(* server and Core) records per task the answers its calls had, which the code     *)
(* acts on, and whether the task left a marker.  On replay the code makes the same *)
(* calls, and Core announces a marker with the task that left it.  The calls are   *)
(* made after the workflow has started.                                            *)
(***********************************************************************************)
EXTENDS Naturals, Sequences

CONSTANTS
  Deprecating,   \* the calls of a task, by number, that are of deprecatePatch()
  MaxTasks,      \* bound: workflow tasks that are recorded
  MaxCalls       \* bound: calls in a task

ASSUME PatchesAssumption == MaxTasks \in Nat /\ MaxCalls \in Nat

VARIABLES
  history,              \* per task recorded: [answers, marker]
  applied,              \* tasks that the cached workflow has run
  task,                 \* "none", "replay" or "live": the activation in progress
  answers,              \* the answers of its calls so far
  pushed,               \* whether it has pushed a setPatchMarker command
  knownPresentPatches,  \* whether the patch is in Activator.knownPresentPatches
  patchDecision,        \* Activator.patchDecisions: "unset", "yes" or "no"
  sentPatches,          \* whether the patch is in Activator.sentPatches
  hasCallback,          \* whether the worker has a patchActivationCallback
  asking,               \* whether the thread waits for the callback's result
  callback,             \* the main thread: "idle", "requested" or "written"
  buffer                \* the shared result buffer: [done, status]

vmVars == <<knownPresentPatches, patchDecision, sentPatches, hasCallback>>
taskVars == <<applied, task, answers, pushed>>
callVars == <<asking, callback, buffer>>
patchesVars == <<history, vmVars, taskVars, callVars>>

(* What the callback's result, or its error, is written as.                        *)
Statuses == {"True", "False", "Error"}

EmptyBuffer == [done |-> FALSE, status |-> "Pending"]

PatchesInit ==
  /\ history = <<>>
  /\ applied = 0
  /\ task = "none"
  /\ answers = <<>>
  /\ pushed = FALSE
  /\ knownPresentPatches = FALSE
  /\ patchDecision = "unset"
  /\ sentPatches = FALSE
  /\ hasCallback \in BOOLEAN
  /\ asking = FALSE
  /\ callback = "idle"
  /\ buffer = EmptyBuffer

-----------------------------------------------------------------------------------
(* Activations.                                                                    *)

(* The next task of history is replayed, its marker announced first.               *)
replayTask ==
  /\ task = "none"
  /\ applied < Len(history)
  /\ task' = "replay"
  /\ knownPresentPatches' = (knownPresentPatches \/ history[applied + 1].marker)
  /\ UNCHANGED <<history, applied, answers, pushed, patchDecision, sentPatches, hasCallback, callVars>>

(* A new task, once the cached workflow is up to date.                             *)
liveTask ==
  /\ task = "none"
  /\ applied = Len(history)
  /\ Len(history) < MaxTasks
  /\ task' = "live"
  /\ UNCHANGED <<history, applied, answers, pushed, vmVars, callVars>>

(* The code makes another call: on replay, the calls it made before.               *)
MayCall ==
  /\ task # "none"
  /\ ~asking
  /\ Len(answers) < IF task = "live" THEN MaxCalls ELSE Len(history[applied + 1].answers)

(* The task ends; a live one is recorded.                                          *)
concludes ==
  /\ task # "none"
  /\ ~asking
  /\ task = "replay" => Len(answers) = Len(history[applied + 1].answers)
  /\ history' = IF task = "live"
                  THEN Append(history, [answers |-> answers, marker |-> pushed])
                  ELSE history
  /\ applied' = applied + 1
  /\ task' = "none"
  /\ answers' = <<>>
  /\ pushed' = FALSE
  /\ UNCHANGED <<vmVars, callVars>>

(* The workflow and its Activator are dropped; another worker, with or without a   *)
(* callback, may replay it.                                                        *)
Evict ==
  /\ applied' = 0
  /\ task' = "none"
  /\ answers' = <<>>
  /\ pushed' = FALSE
  /\ knownPresentPatches' = FALSE
  /\ patchDecision' = "unset"
  /\ sentPatches' = FALSE
  /\ hasCallback' \in BOOLEAN

(* Core evicts the workflow: between tasks, or because its live task failed.       *)
evicted ==
  /\ task # "replay"
  /\ ~asking
  /\ Evict
  /\ UNCHANGED <<history, callVars>>

-----------------------------------------------------------------------------------
(* patchInternal.                                                                  *)

Return(answer) == answers' = Append(answers, answer)

(* A decision has been made before.                                                *)
patchedBefore ==
  /\ MayCall
  /\ patchDecision # "unset"
  /\ Return(patchDecision = "yes")
  /\ UNCHANGED <<history, applied, task, pushed, vmVars, callVars>>

(* No marker on replay: not the patch, but no decision either.                     *)
patchedOnReplay ==
  /\ MayCall
  /\ patchDecision = "unset"
  /\ task = "replay" /\ ~knownPresentPatches
  /\ Return(FALSE)
  /\ UNCHANGED <<history, applied, task, pushed, vmVars, callVars>>

(* Mutant: the decision without memory of a refusal.                               *)
DecideUnlessRefused(usePatch) ==
  /\ patchDecision' = IF usePatch THEN "yes" ELSE patchDecision
  /\ pushed' = (pushed \/ (usePatch /\ ~sentPatches))
  /\ sentPatches' = (sentPatches \/ usePatch)
  /\ Return(usePatch)

(* Mutant: the decision without memory of a consent.                               *)
DecideUnlessAccepted(usePatch) ==
  /\ patchDecision' = IF usePatch THEN patchDecision ELSE "no"
  /\ pushed' = (pushed \/ (usePatch /\ ~sentPatches))
  /\ sentPatches' = (sentPatches \/ usePatch)
  /\ Return(usePatch)

(* The decision is kept, and a marker sent unless it has been.                     *)
Decide(usePatch) ==
  /\ patchDecision' = IF usePatch THEN "yes" ELSE "no"
  /\ pushed' = (pushed \/ (usePatch /\ ~sentPatches))
  /\ sentPatches' = (sentPatches \/ usePatch)
  /\ Return(usePatch)

(* A decision is to be made: at once if the patch is present or nobody is to be    *)
(* asked.                                                                          *)
Undecided == patchDecision = "unset" /\ (task = "live" \/ knownPresentPatches)
Asks == ~knownPresentPatches /\ Len(answers) + 1 \notin Deprecating /\ hasCallback

patchedWithoutAsking ==
  /\ MayCall
  /\ Undecided
  /\ ~Asks
  /\ Decide(TRUE)
  /\ UNCHANGED <<history, applied, task, knownPresentPatches, hasCallback, callVars>>

(* requestPatchActivation: a fresh buffer, a message, and Atomics.wait.            *)
requestPatchActivation ==
  /\ MayCall
  /\ Undecided
  /\ Asks
  /\ asking' = TRUE
  /\ callback' = "requested"
  /\ buffer' = EmptyBuffer
  /\ UNCHANGED <<history, taskVars, vmVars>>

(* waitForPatchActivationCallbackResult after the wait: the answer, or an error    *)
(* that fails the task (the code does not catch it).                               *)
callbackAnswered ==
  /\ asking
  /\ buffer.done
  /\ buffer.status \in {"True", "False"}
  /\ asking' = FALSE
  /\ Decide(buffer.status = "True")
  /\ UNCHANGED <<history, applied, task, knownPresentPatches, hasCallback, callback, buffer>>

callbackThrew ==
  /\ asking
  /\ buffer.done
  /\ buffer.status \notin {"True", "False"}
  /\ asking' = FALSE
  /\ Evict
  /\ UNCHANGED <<history, callback, buffer>>

-----------------------------------------------------------------------------------
(* The main thread: handlePatchActivationCallback.                                 *)

(* The callback returns a boolean, or throws or returns something else; the status *)
(* is stored.                                                                      *)
callbackWrites(status) ==
  /\ callback = "requested"
  /\ buffer' = [buffer EXCEPT !.status = status]
  /\ callback' = "written"
  /\ UNCHANGED <<history, vmVars, taskVars, asking>>

(* Mutant: a callback that fails is called again.                                  *)
callbackRetries ==
  /\ callback = "written"
  /\ buffer' = [buffer EXCEPT !.done = (buffer.status # "Error")]
  /\ callback' = IF buffer.status = "Error" THEN "requested" ELSE "idle"
  /\ UNCHANGED <<history, vmVars, taskVars, asking>>

(* completePatchActivationCallback, in the finally block.                          *)
callbackCompletes ==
  /\ callback = "written"
  /\ buffer' = [buffer EXCEPT !.done = TRUE]
  /\ callback' = "idle"
  /\ UNCHANGED <<history, vmVars, taskVars, asking>>

-----------------------------------------------------------------------------------
PatchesNext ==
  \/ replayTask \/ liveTask \/ concludes \/ evicted
  \/ patchedBefore \/ patchedOnReplay \/ patchedWithoutAsking
  \/ requestPatchActivation \/ callbackAnswered \/ callbackThrew
  \/ \E status \in Statuses : callbackWrites(status)
  \/ callbackCompletes

PatchesSpec == PatchesInit /\ [][PatchesNext]_patchesVars

(* Both threads run.                                                               *)
PatchesFairness ==
  /\ WF_patchesVars(\E status \in Statuses : callbackWrites(status))
  /\ WF_patchesVars(callbackCompletes)
  /\ WF_patchesVars(callbackAnswered)
  /\ WF_patchesVars(callbackThrew)

PatchesFairSpec == PatchesSpec /\ PatchesFairness

-----------------------------------------------------------------------------------
(* Properties.                                                                     *)

(* Replay is deterministic: while a task is replayed, after any number of          *)
(* evictions and whatever the callback has answered meanwhile, patched() gives     *)
(* each call the answer that is recorded, and the task pushes a marker command     *)
(* exactly if it did the first time.                                               *)
ReplayAgrees ==
  task = "replay" =>
    LET recorded == history[applied + 1]
    IN  /\ \A i \in 1..Len(answers) : answers[i] = recorded.answers[i]
        /\ pushed => recorded.marker
        /\ Len(answers) = Len(recorded.answers) => pushed = recorded.marker

(* A workflow records at most one marker for a patch, and every answer from then   *)
(* on is yes: sentPatches and patchDecisions survive as long as the workflow, and  *)
(* knownPresentPatches restores them after an eviction.                            *)
PatchSticks ==
  \A i, j \in 1..Len(history) : i < j /\ history[i].marker =>
    /\ ~history[j].marker
    /\ \A k \in 1..Len(history[j].answers) : history[j].answers[k]

(* The workflow's thread does not stay blocked in patched(), even if the callback  *)
(* throws or returns something that is no boolean, and never reads a result that   *)
(* has not been written.                                                           *)
CallbackReturns ==
  /\ asking ~> ~asking
  /\ [](asking /\ buffer.done => buffer.status # "Pending")
=====================================================================================
