------------------------------ MODULE Activator ------------------------------
(***************************************************************************)
(* The workflow Activator: how operations started by workflow code become  *)
(* commands, how their promises wait in the `completions` maps, how the    *)
(* jobs of an activation settle them, and how cancelling a scope turns     *)
(* pending operations into cancel commands.                                *)
(*                                                                         *)
(* One behaviour is the life of one cached workflow execution.  An         *)
(* activation is: a batch of jobs handled synchronously, then microtasks   *)
(* until there are none (vm-shared.ts; workflow code only runs inside a    *)
(* handler or in a microtask), possibly a second batch, and the command    *)
(* buffer handed to Core.                                                  *)
(*                                                                         *)
(* Payloads, options, headers and failures are left out.  A promise is     *)
(* named by its completion type and sequence number.                       *)
(***************************************************************************)
EXTENDS Naturals, Sequences, FiniteSets

CONSTANTS
  Operations,            \* the workflow APIs the workflow code calls
  Scopes,                \* cancellation scopes of the execution
  RootScope,             \* activator.rootScope
  Cancellable,           \* the scopes created with cancellable: true
  MaxOperations,         \* bound: operations numbered before workflow code calls no more
  MaxBackoffs,           \* bound: backoff answers to local activities
  MaxJobs,               \* bound: jobs in one activation
  ExternalCancelPatched  \* patched(EXTERNAL_WF_CANCEL_PATCH) in this execution

AllOperations ==
  {"sleep", "scheduleActivity", "scheduleLocalActivity", "startChild",
   "signalExternal", "cancelExternal", "startNexusOperation"}

ASSUME OperationsAssumption == Operations \subseteq AllOperations
ASSUME ScopesAssumption == RootScope \in Cancellable /\ Cancellable \subseteq Scopes
ASSUME BoundsAssumption == MaxOperations \in Nat /\ MaxBackoffs \in Nat /\ MaxJobs \in Nat \ {0}
ASSUME PatchAssumption == ExternalCancelPatched \in BOOLEAN

\* The counters of nextSeqs that number commands Core answers.
Kinds == {"timer", "activity", "childWorkflow", "signalWorkflow", "cancelWorkflow",
          "nexusOperation"}

\* The keys of activator.completions.
CompletionTypes ==
  {"timer", "activity", "childWorkflowStart", "childWorkflowComplete", "signalWorkflow",
   "cancelWorkflow", "nexusOperationStart", "nexusOperationComplete"}

Seqs == Nat \ {0}

\* What a scheduled operation is for: a local activity and the timer of its
\* backoff share maps and counters with the other activities and timers.
Roles == {"plain", "local", "backoff"}
Op == [kind : Kinds, seq : Seqs, scope : Scopes, role : Roles]

\* The commands that end the execution; failing it and continuing as new have the effect
\* of completing it on the state kept here.
Terminals == {"completeWorkflowExecution", "cancelWorkflowExecution"}
Command == [cmd : {"start", "cancel"}, kind : Kinds, seq : Seqs]
             \cup [cmd : {"terminal"}, kind : Terminals, seq : {0}]

\* A microtask the SDK itself has queued: the cancelRequested callback of a
\* scheduled operation ("cancel") or of one that was not scheduled because its
\* scope was cancelled ("reject"), and the continuations of scheduleLocalActivity
\* after a backoff answer ("sleep") and after the backoff timer ("retry").
Microtask == [act : {"cancel", "reject", "sleep", "retry"}, op : Op]

\* A job Core answers an operation with.  "settled" is any final answer (completed,
\* failed, cancelled, timed out), "started" a successful start of a child or a Nexus
\* operation, "backoff" the request to retry a local activity after a timer.
Answer == [type : CompletionTypes, seq : Seqs, result : {"settled", "started", "backoff"}]
Event == [type : {"signal", "cancel", "initialize"}, seq : {0}, result : {"none"}]
Job == Answer \cup Event

SignalJob == [type |-> "signal", seq |-> 0, result |-> "none"]
CancelJob == [type |-> "cancel", seq |-> 0, result |-> "none"]
InitializeJob == [type |-> "initialize", seq |-> 0, result |-> "none"]

VARIABLES
  nextSeqs,           \* activator.nextSeqs
  completions,        \* activator.completions: the sequence numbers in each map
  commands,           \* activator.commands
  cancelRequested,    \* the scopes whose cancelRequested promise is rejected
  cancelled,          \* activator.cancelled
  completed,          \* activator.completed
  error,              \* workflowTaskError, or the IllegalStateError of consumeCompletion
  issued,             \* operations that pushed their start command, with their scope
  settled,            \* per completion type, the promises resolved or rejected
  microtasks,         \* microtasks queued by the SDK
  jobs,               \* jobs of the current batch not handled yet
  laterJobs,          \* jobs of the second batch (nonSignals in vm-shared.ts)
  singleBatch,        \* doSingleBatch of the current activation
  phase,              \* where the activation is
  outstanding,        \* Core: per completion type, what it has still to answer
  cancelSent          \* history: operations whose cancel command reached Core

activatorVars == <<nextSeqs, completions, commands, cancelled, completed, error>>
loopVars == <<jobs, laterJobs, singleBatch, phase>>
coreVars == <<outstanding, cancelSent>>
vars == <<nextSeqs, completions, commands, cancelRequested, cancelled, completed, error,
          issued, settled, microtasks, jobs, laterJobs, singleBatch, phase, outstanding,
          cancelSent>>

Phases == {"new", "idle", "jobs", "handler", "microtasks", "failed", "done"}

TypeOK ==
  /\ nextSeqs \in [Kinds -> Seqs]
  /\ completions \in [CompletionTypes -> SUBSET Seqs]
  /\ commands \in Seq(Command)
  /\ cancelRequested \in SUBSET Scopes
  /\ cancelled \in BOOLEAN /\ completed \in BOOLEAN
  /\ error \in {"none", "workflowTaskError", "IllegalStateError"}
  /\ issued \in SUBSET Op
  /\ settled \in [CompletionTypes -> SUBSET Seqs]
  /\ microtasks \in SUBSET Microtask
  /\ jobs \in SUBSET Job /\ laterJobs \in SUBSET Job
  /\ singleBatch \in BOOLEAN
  /\ phase \in Phases
  /\ outstanding \in [CompletionTypes -> SUBSET Seqs]
  /\ cancelSent \in SUBSET (Kinds \X Seqs)

(***************************************************************************)
(* Helpers                                                                 *)
(***************************************************************************)

\* completions[type].set / .delete
Put(f, types, n) == [t \in CompletionTypes |-> IF t \in types THEN f[t] \cup {n} ELSE f[t]]
Drop(f, types, n) == [t \in CompletionTypes |-> IF t \in types THEN f[t] \ {n} ELSE f[t]]

\* pushCommand(cmd, complete)
pushCommand(c) ==
  /\ commands' = Append(commands, c)
  /\ completed' = (completed \/ c.cmd = "terminal")

Cmd(c, k, n) == [cmd |-> c, kind |-> k, seq |-> n]

\* The sequence numbers of the buffered commands c of kind k.
Buffered(c, k) ==
  {commands[i].seq : i \in {j \in DOMAIN commands : commands[j].cmd = c /\ commands[j].kind = k}}

\* CancellationScope.consideredCancelled
consideredCancelled(s) == s \in cancelRequested /\ s \in Cancellable

\* Workflow code runs inside a signal handler or the workflow function, or as a
\* continuation in the microtask queue.
WorkflowCodeRuns == phase \in {"handler", "microtasks"}

(***************************************************************************)
(* Operations of workflow code.  Each one takes the next number of its     *)
(* counter.  In a cancelled scope nothing is scheduled and the promise is  *)
(* rejected by a microtask; otherwise the start command is pushed and the  *)
(* completions are registered.  The callback on scope.cancelRequested is   *)
(* implied by membership in `issued` (see Cancel).                         *)
(***************************************************************************)

\* Mutant: in a cancelled scope nothing rejects the promise.
StartUnrejected(k, s, role, registered, always, queue) ==
  LET n  == nextSeqs[k]
      op == [kind |-> k, seq |-> n, scope |-> s, role |-> role]
  IN  /\ nextSeqs' = [nextSeqs EXCEPT ![k] = @ + 1]
      /\ microtasks' = queue
      /\ \/ /\ consideredCancelled(s)
            /\ completions' = Put(completions, always, n)
            /\ UNCHANGED <<commands, completed, issued>>
         \/ /\ ~consideredCancelled(s)
            /\ pushCommand(Cmd("start", k, n))
            /\ completions' = Put(completions, registered \cup always, n)
            /\ issued' = issued \cup {op}
      /\ UNCHANGED <<cancelRequested, cancelled, error, settled, loopVars, coreVars>>

\* n takes the next sequence number of counter k; queue is the microtask queue without
\* the microtask that is running.  `registered` are the completions set with the start
\* command and `always` the ones set even when the scope is cancelled.
Start(k, s, role, registered, always, queue) ==
  LET n  == nextSeqs[k]
      op == [kind |-> k, seq |-> n, scope |-> s, role |-> role]
  IN  /\ nextSeqs' = [nextSeqs EXCEPT ![k] = @ + 1]
      /\ \/ /\ consideredCancelled(s)
            /\ microtasks' = queue \cup {[act |-> "reject", op |-> op]}
            /\ completions' = Put(completions, always, n)
            /\ UNCHANGED <<commands, completed, issued>>
         \/ /\ ~consideredCancelled(s)
            /\ pushCommand(Cmd("start", k, n))
            /\ completions' = Put(completions, registered \cup always, n)
            /\ issued' = issued \cup {op}
            /\ microtasks' = queue
      /\ UNCHANGED <<cancelRequested, cancelled, error, settled, loopVars, coreVars>>

\* The operations that have got a sequence number, by kind.
NumberedOperations == UNION {{k} \X (1 .. nextSeqs[k] - 1) : k \in Kinds}

\* An operation called by workflow code, within the bound.
Called(o) ==
  o \in Operations /\ WorkflowCodeRuns /\ Cardinality(NumberedOperations) < MaxOperations

sleep(s) ==
  Called("sleep") /\ Start("timer", s, "plain", {"timer"}, {}, microtasks)

scheduleActivity(s) ==
  /\ Called("scheduleActivity")
  /\ Start("activity", s, "plain", {"activity"}, {}, microtasks)

scheduleLocalActivity(s) ==
  /\ Called("scheduleLocalActivity")
  /\ Start("activity", s, "local", {"activity"}, {}, microtasks)

startChild(s) ==
  /\ Called("startChild")
  /\ Start("childWorkflow", s, "plain", {"childWorkflowStart"}, {"childWorkflowComplete"},
           microtasks)

signalExternal(s) ==
  /\ Called("signalExternal")
  /\ Start("signalWorkflow", s, "plain", {"signalWorkflow"}, {}, microtasks)

startNexusOperation(s) ==
  /\ Called("startNexusOperation")
  /\ Start("nexusOperation", s, "plain", {"nexusOperationStart"}, {}, microtasks)

\* ExternalWorkflowHandle.cancel.  In a cancelled scope nothing happens when the
\* patch applies, and the request is sent all the same when it does not.
cancelExternal(s) ==
  /\ Called("cancelExternal")
  /\ ~(consideredCancelled(s) /\ ExternalCancelPatched)
  /\ LET n == nextSeqs["cancelWorkflow"]
     IN  /\ nextSeqs' = [nextSeqs EXCEPT !["cancelWorkflow"] = @ + 1]
         /\ pushCommand(Cmd("start", "cancelWorkflow", n))
         /\ completions' = Put(completions, {"cancelWorkflow"}, n)
         /\ issued' = issued \cup {[kind |-> "cancelWorkflow", seq |-> n, scope |-> s,
                                    role |-> "plain"]}
  /\ UNCHANGED <<cancelRequested, cancelled, error, settled, microtasks, loopVars, coreVars>>

\* Mutant: every call runs the callbacks.
CancelAgain(s) ==
  /\ cancelRequested' = cancelRequested \cup {s}
  /\ microtasks' = IF s \in Cancellable
                   THEN microtasks \cup {[act |-> "cancel", op |-> o] :
                                           o \in {i \in issued : i.scope = s}}
                   ELSE microtasks

\* CancellationScope.cancel: the first call rejects the cancelRequested promise, which
\* queues the callback of every operation started in the scope, settled or not.
Cancel(s) ==
  /\ cancelRequested' = cancelRequested \cup {s}
  /\ microtasks' = IF s \in Cancellable \ cancelRequested
                   THEN microtasks \cup {[act |-> "cancel", op |-> o] :
                                           o \in {i \in issued : i.scope = s}}
                   ELSE microtasks

cancelScope(s) ==
  /\ WorkflowCodeRuns
  /\ Cancel(s)
  /\ UNCHANGED <<activatorVars, issued, settled, loopVars, coreVars>>

\* completeWorkflow and the branches of handleWorkflowFailure that end the execution.
\* Both are then/catch callbacks, of the workflow function or of a handler.
endWorkflow(terminal) ==
  /\ phase = "microtasks"
  /\ terminal = "cancelWorkflowExecution" => cancelled
  /\ Len(SelectSeq(commands, LAMBDA c : c.cmd = "terminal")) < 2   \* bound
  /\ pushCommand(Cmd("terminal", terminal, 0))
  /\ UNCHANGED <<nextSeqs, completions, cancelRequested, cancelled, error, issued, settled,
                 microtasks, loopVars, coreVars>>

\* The last branch of handleWorkflowFailure; only the first error is kept.
recordWorkflowTaskError ==
  /\ phase = "microtasks"
  /\ error = "none"
  /\ error' = "workflowTaskError"
  /\ UNCHANGED <<nextSeqs, completions, commands, cancelRequested, cancelled, completed, issued,
                 settled, microtasks, loopVars, coreVars>>

(***************************************************************************)
(* Microtasks of the SDK                                                   *)
(***************************************************************************)

\* Microtask m of kind act runs.
Runs(m, act) ==
  /\ phase = "microtasks"
  /\ m \in microtasks
  /\ m.act = act
  /\ UNCHANGED <<cancelRequested, cancelled, error, loopVars, coreVars>>

\* Mutant: the callback does not look whether the timer fired.
onCancelTimerBlindly(m) ==
  /\ Runs(m, "cancel")
  /\ m.op.kind = "timer"
  /\ microtasks' = microtasks \ {m}
  /\ completions' = Drop(completions, {"timer"}, m.op.seq)
  /\ pushCommand(Cmd("cancel", "timer", m.op.seq))
  /\ settled' = Put(settled, {"timer"}, m.op.seq)
  /\ UNCHANGED <<nextSeqs, issued>>

\* The cancelRequested callback of a timer: it settles the promise without waiting for
\* Core, unless the timer fired.
onCancelTimer(m) ==
  /\ Runs(m, "cancel")
  /\ m.op.kind = "timer"
  /\ microtasks' = microtasks \ {m}
  /\ \/ /\ m.op.seq \in completions["timer"]
        /\ completions' = Drop(completions, {"timer"}, m.op.seq)
        /\ pushCommand(Cmd("cancel", "timer", m.op.seq))
        /\ settled' = Put(settled, {"timer"}, m.op.seq)
     \/ /\ m.op.seq \notin completions["timer"]
        /\ UNCHANGED <<completions, commands, completed, settled>>
  /\ UNCHANGED <<nextSeqs, issued>>

\* Mutant: a Nexus operation is cancelled only once it has started.
PendingTypesStarted(k) ==
  CASE k = "activity"       -> {"activity"}
    [] k = "childWorkflow"  -> {"childWorkflowComplete"}
    [] k = "signalWorkflow" -> {"signalWorkflow"}
    [] k = "nexusOperation" -> {"nexusOperationComplete"}
    [] OTHER                -> {}

\* The cancelRequested callback of the other commands: the promise keeps waiting for
\* Core's answer.
PendingTypes(k) ==
  CASE k = "activity"       -> {"activity"}
    [] k = "childWorkflow"  -> {"childWorkflowComplete"}
    [] k = "signalWorkflow" -> {"signalWorkflow"}
    [] k = "nexusOperation" -> {"nexusOperationStart", "nexusOperationComplete"}
    [] OTHER                -> {}

onCancelOperation(m) ==
  /\ Runs(m, "cancel")
  /\ m.op.kind \notin {"timer", "cancelWorkflow"}
  /\ microtasks' = microtasks \ {m}
  /\ IF \E t \in PendingTypes(m.op.kind) : m.op.seq \in completions[t]
     THEN pushCommand(Cmd("cancel", m.op.kind, m.op.seq))
     ELSE UNCHANGED <<commands, completed>>
  /\ UNCHANGED <<nextSeqs, completions, issued, settled>>

\* The cancelRequested callback of ExternalWorkflowHandle.cancel: no command, the
\* completion stays registered.
onCancelExternal(m) ==
  /\ Runs(m, "cancel")
  /\ m.op.kind = "cancelWorkflow"
  /\ microtasks' = microtasks \ {m}
  /\ settled' = IF ExternalCancelPatched THEN Put(settled, {"cancelWorkflow"}, m.op.seq)
                                         ELSE settled
  /\ UNCHANGED <<nextSeqs, completions, commands, completed, issued>>

\* scope.cancelRequested.catch(reject): the promise of an operation that was never
\* scheduled, and with a child's start promise its completion promise.
PromisesOf(k) ==
  CASE k = "childWorkflow"  -> {"childWorkflowStart", "childWorkflowComplete"}
    [] k = "nexusOperation" -> {"nexusOperationStart"}
    [] OTHER                -> {k}

\* Mutant: the callback queues itself again.
rejectUnscheduledAgain(m) ==
  /\ Runs(m, "reject")
  /\ settled' = Put(settled, PromisesOf(m.op.kind), m.op.seq)
  /\ UNCHANGED <<nextSeqs, completions, commands, completed, issued, microtasks>>

rejectUnscheduled(m) ==
  /\ Runs(m, "reject")
  /\ microtasks' = microtasks \ {m}
  /\ settled' = Put(settled, PromisesOf(m.op.kind), m.op.seq)
  /\ UNCHANGED <<nextSeqs, completions, commands, completed, issued>>

\* scheduleLocalActivity after LocalActivityDoBackoff: sleep, then the next attempt.
localActivityBackoff(m) ==
  /\ phase = "microtasks" /\ m \in microtasks /\ m.act = "sleep"
  /\ Start("timer", m.op.scope, "backoff", {"timer"}, {}, microtasks \ {m})

localActivityRetry(m) ==
  /\ phase = "microtasks" /\ m \in microtasks /\ m.act = "retry"
  /\ Start("activity", m.op.scope, "local", {"activity"}, {}, microtasks \ {m})

(***************************************************************************)
(* Jobs                                                                    *)
(***************************************************************************)

\* Job j of the current batch is handled: initializeWorkflow comes last (the workflow
\* function starts after the other jobs), and Core orders a start before its completion.
Before(t) == CASE t = "childWorkflowComplete"  -> "childWorkflowStart"
               [] t = "nexusOperationComplete" -> "nexusOperationStart"
               [] OTHER                        -> "none"

Handles(j) ==
  /\ phase = "jobs"
  /\ j \in jobs
  /\ jobs' = jobs \ {j}
  /\ UNCHANGED <<cancelSent, laterJobs, singleBatch, issued, commands, completed, nextSeqs>>

HandlesAnswer(j, t) ==
  /\ Handles(j)
  /\ j.type = t
  /\ ~\E i \in jobs : i.type = Before(t) /\ i.seq = j.seq
  /\ UNCHANGED <<cancelRequested, cancelled>>

\* fireTimer: the completion may be gone, cancelled without waiting for Core.
fireTimer(j) ==
  /\ HandlesAnswer(j, "timer")
  /\ outstanding' = Drop(outstanding, {"timer"}, j.seq)
  /\ \/ /\ j.seq \in completions["timer"]
        /\ completions' = Drop(completions, {"timer"}, j.seq)
        /\ settled' = Put(settled, {"timer"}, j.seq)
        /\ microtasks' = microtasks \cup
             {[act |-> "retry", op |-> o] :
                o \in {i \in issued : i.kind = "timer" /\ i.seq = j.seq /\ i.role = "backoff"}}
     \/ /\ j.seq \notin completions["timer"]
        /\ UNCHANGED <<completions, settled, microtasks>>
  /\ UNCHANGED <<error, phase>>

\* consumeCompletion of type t throws; the activation fails.
throwIllegalState ==
  /\ error' = "IllegalStateError"
  /\ phase' = "failed"
  /\ UNCHANGED <<completions, settled, microtasks>>

resolveActivity(j) ==
  /\ HandlesAnswer(j, "activity")
  /\ outstanding' = Drop(outstanding, {"activity"}, j.seq)
  /\ IF j.seq \in completions["activity"]
     THEN /\ completions' = Drop(completions, {"activity"}, j.seq)
          /\ settled' = Put(settled, {"activity"}, j.seq)
          /\ microtasks' = microtasks \cup
               {[act |-> "sleep", op |-> o] :
                  o \in {i \in issued : /\ i.kind = "activity" /\ i.seq = j.seq
                                        /\ j.result = "backoff"}}
          /\ UNCHANGED <<error, phase>>
     ELSE throwIllegalState

\* Mutant: a start takes both completions.
resolveChildStartDropsBoth(j) ==
  /\ HandlesAnswer(j, "childWorkflowStart")
  /\ LET out == Drop(outstanding, {"childWorkflowStart"}, j.seq)
     IN  outstanding' = IF j.result = "started" THEN Put(out, {"childWorkflowComplete"}, j.seq)
                                                ELSE out
  /\ completions' = Drop(completions, {"childWorkflowStart", "childWorkflowComplete"}, j.seq)
  /\ settled' = Put(settled, {"childWorkflowStart"}, j.seq)
  /\ UNCHANGED <<microtasks, error, phase>>

\* Mutant: a child that failed to start keeps its completion.
resolveChildStartKeeps(j) ==
  /\ HandlesAnswer(j, "childWorkflowStart")
  /\ LET out == Drop(outstanding, {"childWorkflowStart"}, j.seq)
     IN  outstanding' = IF j.result = "started" THEN Put(out, {"childWorkflowComplete"}, j.seq)
                                                ELSE out
  /\ completions' = Drop(completions, {"childWorkflowStart"}, j.seq)
  /\ settled' = Put(settled, {"childWorkflowStart"}, j.seq)
  /\ UNCHANGED <<microtasks, error, phase>>

resolveChildWorkflowExecutionStart(j) ==
  /\ HandlesAnswer(j, "childWorkflowStart")
  /\ LET out == Drop(outstanding, {"childWorkflowStart"}, j.seq)
     IN  outstanding' = IF j.result = "started" THEN Put(out, {"childWorkflowComplete"}, j.seq)
                                                ELSE out
  /\ IF j.seq \in completions["childWorkflowStart"]
     THEN LET gone == IF j.result = "started"
                      THEN {"childWorkflowStart"}
                      ELSE {"childWorkflowStart", "childWorkflowComplete"}
          IN  /\ completions' = Drop(completions, gone, j.seq)
              /\ settled' = Put(settled, gone, j.seq)
              /\ UNCHANGED <<microtasks, error, phase>>
     ELSE throwIllegalState

\* resolveChildWorkflowExecution, resolveSignalExternalWorkflow and
\* resolveRequestCancelExternalWorkflow: consume the completion and settle its promise.
ConsumeAndSettle(j, t) ==
  /\ HandlesAnswer(j, t)
  /\ outstanding' = Drop(outstanding, {t}, j.seq)
  /\ IF j.seq \in completions[t]
     THEN /\ completions' = Drop(completions, {t}, j.seq)
          /\ settled' = Put(settled, {t}, j.seq)
          /\ UNCHANGED <<microtasks, error, phase>>
     ELSE throwIllegalState

resolveChildWorkflowExecution(j) == ConsumeAndSettle(j, "childWorkflowComplete")

resolveSignalExternalWorkflow(j) == ConsumeAndSettle(j, "signalWorkflow")

resolveRequestCancelExternalWorkflow(j) == ConsumeAndSettle(j, "cancelWorkflow")

\* A successful start registers the completion of the result promise.
resolveNexusOperationStart(j) ==
  /\ HandlesAnswer(j, "nexusOperationStart")
  /\ LET Moved(f) == IF j.result = "started"
                     THEN Put(Drop(f, {"nexusOperationStart"}, j.seq),
                              {"nexusOperationComplete"}, j.seq)
                     ELSE Drop(f, {"nexusOperationStart"}, j.seq)
     IN  /\ outstanding' = Moved(outstanding)
         /\ IF j.seq \in completions["nexusOperationStart"]
            THEN /\ completions' = Moved(completions)
                 /\ settled' = Put(settled, {"nexusOperationStart"}, j.seq)
                 /\ UNCHANGED <<microtasks, error, phase>>
            ELSE throwIllegalState

\* The start completion if the operation was answered without a start, the result
\* completion otherwise.
resolveNexusOperation(j) ==
  /\ HandlesAnswer(j, "nexusOperationComplete")
  /\ LET t == IF j.seq \in completions["nexusOperationStart"] THEN "nexusOperationStart"
                                                               ELSE "nexusOperationComplete"
     IN  /\ outstanding' = Drop(outstanding, {t}, j.seq)
         /\ IF j.seq \in completions[t]
            THEN /\ completions' = Drop(completions, {t}, j.seq)
                 /\ settled' = Put(settled, {t}, j.seq)
                 /\ UNCHANGED <<microtasks, error, phase>>
            ELSE throwIllegalState

cancelWorkflow ==
  /\ Handles(CancelJob)
  /\ cancelled' = TRUE
  /\ Cancel(RootScope)
  /\ UNCHANGED <<completions, error, settled, phase, outstanding>>

\* signalWorkflow and startWorkflow call workflow code, which runs synchronously up to
\* its first await.
CallsWorkflowCode(j) ==
  /\ Handles(j)
  /\ phase' = "handler"
  /\ UNCHANGED <<completions, cancelRequested, cancelled, error, settled, microtasks,
                 outstanding>>

signalWorkflow == CallsWorkflowCode(SignalJob)

startWorkflow == jobs = {InitializeJob} /\ CallsWorkflowCode(InitializeJob)

handlerReturns ==
  /\ phase = "handler"
  /\ phase' = "jobs"
  /\ UNCHANGED <<activatorVars, cancelRequested, issued, settled, microtasks, jobs, laterJobs,
                 singleBatch, coreVars>>

(***************************************************************************)
(* The activation: BaseVMWorkflow.activate                                 *)
(***************************************************************************)

\* External: the jobs Core may answer with.
Results(t) == IF t \in {"childWorkflowStart", "nexusOperationStart"}
              THEN {"settled", "started"}
              ELSE IF t = "activity" THEN {"settled", "backoff"} ELSE {"settled"}

AnswersTo(t) == {[type |-> t, seq |-> n, result |-> r] : n \in outstanding[t], r \in Results(t)}

\* External: a completion that comes with its start, or instead of it.
Unstarted(t, start) ==
  {[type |-> t, seq |-> n, result |-> "settled"] : n \in outstanding[start]}

CoreAnswers ==
  (UNION {AnswersTo(t) : t \in CompletionTypes})
    \cup Unstarted("childWorkflowComplete", "childWorkflowStart")
    \cup Unstarted("nexusOperationComplete", "nexusOperationStart")

\* External: one answer per promise, a child's completion only after its start, a Nexus
\* operation's result after its start or instead of it, backoff only for local activities.
CoreMaySend(J) ==
  /\ \A i, j \in J : i.type = j.type /\ i.seq = j.seq => i = j
  /\ \A j \in J : j.type = "childWorkflowComplete" /\ j.seq \in outstanding["childWorkflowStart"]
        => [type |-> "childWorkflowStart", seq |-> j.seq, result |-> "started"] \in J
  /\ \A j \in J : j.type = "nexusOperationComplete"
        => [type |-> "nexusOperationStart", seq |-> j.seq, result |-> "settled"] \notin J
  /\ \A j \in J : j.result = "backoff"
        => \E o \in issued : o.kind = "activity" /\ o.seq = j.seq /\ o.role = "local"
  /\ Cardinality({j \in J : j.result = "backoff"})
       + Cardinality({o \in issued : o.role = "backoff"}) <= MaxBackoffs

\* activate: all jobs in one batch, or the signals first when there are some and the
\* flag ProcessWorkflowActivationJobsAsSingleBatch is off.
activate(J, single) ==
  /\ singleBatch' = (single \/ SignalJob \notin J)
  /\ jobs' = IF singleBatch' THEN J ELSE {SignalJob}
  /\ laterJobs' = IF singleBatch' THEN {} ELSE J \ {SignalJob}
  /\ phase' = "jobs"
  /\ UNCHANGED <<activatorVars, cancelRequested, issued, settled, microtasks, coreVars>>

firstActivation ==
  /\ phase = "new"
  /\ \E J \in SUBSET {SignalJob, CancelJob}, single \in BOOLEAN :
       activate(J \cup {InitializeJob}, single)

nextActivation ==
  /\ phase = "idle"
  /\ \E J \in SUBSET CoreAnswers, single \in BOOLEAN,
        E \in SUBSET ({SignalJob} \cup IF cancelled THEN {} ELSE {CancelJob}) :
       /\ Cardinality(J) + Cardinality(E) \in 1 .. MaxJobs
       /\ CoreMaySend(J)
       /\ activate(J \cup E, single)

\* workflowModule.activate returns and the queued microtasks run.
batchReturns ==
  /\ phase = "jobs" /\ jobs = {}
  /\ phase' = "microtasks"
  /\ UNCHANGED <<activatorVars, cancelRequested, issued, settled, microtasks, jobs, laterJobs,
                 singleBatch, coreVars>>

\* The microtask queue is empty.  tryUnblockConditions rethrows a recorded error.
failActivation ==
  /\ phase = "microtasks" /\ microtasks = {}
  /\ error # "none"
  /\ phase' = "failed"
  /\ UNCHANGED <<activatorVars, cancelRequested, issued, settled, microtasks, jobs, laterJobs,
                 singleBatch, coreVars>>

nextBatch ==
  /\ phase = "microtasks" /\ microtasks = {}
  /\ error = "none"
  /\ laterJobs # {}
  /\ jobs' = laterJobs
  /\ laterJobs' = {}
  /\ phase' = "jobs"
  /\ UNCHANGED <<activatorVars, cancelRequested, issued, settled, microtasks, singleBatch,
                 coreVars>>

\* External: what Core has to answer once it has taken the buffer.  A cancelled timer
\* needs no answer.
StartType(k) == CASE k = "childWorkflow"  -> "childWorkflowStart"
                  [] k = "nexusOperation" -> "nexusOperationStart"
                  [] OTHER                -> k

CoreTakes ==
  LET started == [t \in CompletionTypes |->
                    outstanding[t] \cup
                      UNION {Buffered("start", k) : k \in {i \in Kinds : StartType(i) = t}}]
  IN  /\ outstanding' = [started EXCEPT !["timer"] = @ \ Buffered("cancel", "timer")]
      /\ cancelSent' = cancelSent \cup
           UNION {{k} \X Buffered("cancel", k) : k \in Kinds}

\* concludeActivation: the commands are spliced out of the buffer.
concludeActivation ==
  /\ phase = "microtasks" /\ microtasks = {}
  /\ error = "none"
  /\ laterJobs = {}
  /\ commands' = <<>>
  /\ CoreTakes
  /\ phase' = IF completed THEN "done" ELSE "idle"
  /\ UNCHANGED <<nextSeqs, completions, cancelRequested, cancelled, completed, error, issued,
                 settled, microtasks, jobs, laterJobs, singleBatch>>

\* A completed or failed execution is evicted from the cache: nothing more happens.
Evicted ==
  /\ phase \in {"failed", "done"}
  /\ UNCHANGED vars

WorkflowCode ==
  \/ \E s \in Scopes : \/ sleep(s) \/ scheduleActivity(s) \/ scheduleLocalActivity(s)
                       \/ startChild(s) \/ signalExternal(s) \/ cancelExternal(s)
                       \/ startNexusOperation(s) \/ cancelScope(s)
  \/ \E t \in Terminals : endWorkflow(t)
  \/ recordWorkflowTaskError

RunMicrotask ==
  \E m \in microtasks :
    \/ onCancelTimer(m) \/ onCancelOperation(m) \/ onCancelExternal(m)
    \/ rejectUnscheduled(m) \/ localActivityBackoff(m) \/ localActivityRetry(m)

HandleJob ==
  \/ \E j \in jobs :
       \/ fireTimer(j) \/ resolveActivity(j)
       \/ resolveChildWorkflowExecutionStart(j) \/ resolveChildWorkflowExecution(j)
       \/ resolveNexusOperationStart(j) \/ resolveNexusOperation(j)
       \/ resolveSignalExternalWorkflow(j) \/ resolveRequestCancelExternalWorkflow(j)
  \/ cancelWorkflow \/ signalWorkflow \/ startWorkflow

Loop ==
  \/ handlerReturns \/ batchReturns \/ failActivation \/ nextBatch \/ concludeActivation


Init ==
  /\ nextSeqs = [k \in Kinds |-> 1]
  /\ completions = [t \in CompletionTypes |-> {}]
  /\ commands = <<>>
  /\ cancelRequested = {}
  /\ cancelled = FALSE /\ completed = FALSE
  /\ error = "none"
  /\ issued = {}
  /\ settled = [t \in CompletionTypes |-> {}]
  /\ microtasks = {}
  /\ jobs = {} /\ laterJobs = {}
  /\ singleBatch = TRUE
  /\ phase = "new"
  /\ outstanding = [t \in CompletionTypes |-> {}]
  /\ cancelSent = {}

Next ==
  \/ firstActivation \/ nextActivation
  \/ WorkflowCode \/ RunMicrotask \/ HandleJob \/ Loop
  \/ Evicted

Spec == Init /\ [][Next]_vars

\* Core keeps answering, the event loop keeps running jobs and microtasks; workflow code
\* is under no obligation.
Fairness == WF_vars(RunMicrotask) /\ WF_vars(HandleJob) /\ WF_vars(Loop)

FairSpec == Spec /\ Fairness

\* The completion types through which an operation of kind k is answered.
AnswerTypes(k) ==
  {StartType(k)} \cup (IF k = "childWorkflow" THEN {"childWorkflowComplete"} ELSE {})
                 \cup (IF k = "nexusOperation" THEN {"nexusOperationComplete"} ELSE {})

(***************************************************************************)
(* Properties                                                              *)
(***************************************************************************)

\* Every job that consumes a completion (resolveActivity and the other resolve*
\* handlers) finds it: consumeCompletion never throws IllegalStateError, whatever the
\* order of jobs, cancellations, batches and backoffs.
NoIllegalState == error # "IllegalStateError"

\* Between activations the completions maps and Core agree: an entry is there exactly when
\* Core still owes an answer.  (A child started in a cancelled scope leaves an entry in
\* childWorkflowComplete that no one consumes, but its promise is settled.)
AgreesWithCore ==
  phase = "idle" =>
    /\ \A t \in CompletionTypes \ {"childWorkflowComplete"} : completions[t] = outstanding[t]
    /\ completions["childWorkflowComplete"] \ settled["childWorkflowComplete"]
         = outstanding["childWorkflowStart"] \cup outstanding["childWorkflowComplete"]

(***************************************************************************)
(* Why they hold: the inductive invariant behind NoIllegalState and        *)
(* AgreesWithCore.                                                         *)
(***************************************************************************)

\* Everything in use was numbered below the counter of its kind.
Numbered ==
  \A k \in Kinds :
    /\ \A n \in Buffered("start", k) \cup Buffered("cancel", k) : n < nextSeqs[k]
    /\ \A t \in AnswerTypes(k) : \A n \in outstanding[t] \cup completions[t] : n < nextSeqs[k]

\* An operation is in one stage at a time: its start command is buffered, or Core owes its
\* start, or Core owes its completion.
OneStage ==
  /\ \A k \in Kinds : \A t \in AnswerTypes(k) : Buffered("start", k) \cap outstanding[t] = {}
  /\ outstanding["childWorkflowStart"] \cap outstanding["childWorkflowComplete"] = {}
  /\ outstanding["nexusOperationStart"] \cap outstanding["nexusOperationComplete"] = {}

\* During an activation an entry is there when Core owes the answer or will owe it once it
\* takes the buffer; a cancelled timer has given its entry up.
StartsAgree ==
  \A k \in Kinds \ {"timer"} :
    completions[StartType(k)] = outstanding[StartType(k)] \cup Buffered("start", k)

TimersAgree ==
  completions["timer"] =
    (outstanding["timer"] \cup Buffered("start", "timer")) \ Buffered("cancel", "timer")

NexusAgree == completions["nexusOperationComplete"] = outstanding["nexusOperationComplete"]

\* A live child has its entry and its promise is pending; the other entries belong to
\* children never scheduled, whose promises are rejected or about to be.
LiveChildren == Buffered("start", "childWorkflow") \cup outstanding["childWorkflowStart"]
                  \cup outstanding["childWorkflowComplete"]

RejectedChildren ==
  {m.op.seq : m \in {i \in microtasks : i.act = "reject" /\ i.op.kind = "childWorkflow"}}

ChildrenAgree ==
  /\ \A n \in settled["childWorkflowComplete"] \cup RejectedChildren :
       n < nextSeqs["childWorkflow"]
  /\ LiveChildren \subseteq completions["childWorkflowComplete"]
  /\ LiveChildren \cap (settled["childWorkflowComplete"] \cup RejectedChildren) = {}
  /\ completions["childWorkflowComplete"] \subseteq
       LiveChildren \cup settled["childWorkflowComplete"] \cup RejectedChildren

\* Each job of the activation answers what Core owes, once.
Answering(J) ==
  /\ \A i, j \in J : i.type = j.type /\ i.seq = j.seq => i = j
  /\ \A j \in J : j.type \in CompletionTypes \ {"childWorkflowComplete", "nexusOperationComplete"}
                    => j.seq \in outstanding[j.type]
  /\ \A j \in J : j.type = "childWorkflowComplete" =>
       \/ j.seq \in outstanding["childWorkflowComplete"]
       \/ \E i \in J : i.type = "childWorkflowStart" /\ i.seq = j.seq /\ i.result = "started"
  /\ \A j \in J : j.type = "nexusOperationComplete" =>
       /\ j.seq \in outstanding["nexusOperationStart"] \cup outstanding["nexusOperationComplete"]
       /\ \A i \in J : i.type = "nexusOperationStart" /\ i.seq = j.seq => i.result = "started"

\* The jobs in hand do, and only signals come ahead of a second batch.
JobsAnswer ==
  /\ Answering(jobs \cup laterJobs)
  /\ laterJobs # {} => jobs \subseteq {SignalJob}

\* What is empty in each phase.
LoopShape ==
  /\ phase = "microtasks" => jobs = {}
  /\ phase \in {"new", "idle", "done"} =>
       jobs = {} /\ laterJobs = {} /\ microtasks = {} /\ commands = <<>>
  /\ error # "IllegalStateError"

CoreInv == /\ TypeOK /\ Numbered /\ OneStage /\ StartsAgree /\ TimersAgree /\ NexusAgree
           /\ ChildrenAgree /\ JobsAnswer /\ LoopShape

(***************************************************************************)
(* What cancellation and promises see                                      *)
(***************************************************************************)

\* No promise hangs: between activations, every operation workflow code started either
\* has its promise settled or has an entry through which Core's answer will settle it.
NoPromiseHangs ==
  phase = "idle" =>
    \A k \in Kinds : \A n \in 1 .. nextSeqs[k] - 1 :
      n \in settled[StartType(k)] \cup completions[StartType(k)]

\* At the end of an activation a cancelled scope has no running timer, and every other
\* operation still pending in it has had its cancel command sent to Core.
CancellationReachesCore ==
  phase = "idle" =>
    \A o \in issued :
      consideredCancelled(o.scope) /\ o.kind # "cancelWorkflow" =>
        /\ o.kind = "timer" => o.seq \notin completions["timer"]
        /\ \A t \in AnswerTypes(o.kind) :
             o.seq \in completions[t] => <<o.kind, o.seq>> \in cancelSent

\* An operation is cancelled at most once in the life of the execution, and its cancel
\* command comes after its start command.
CancelOnceAfterStart ==
  \A i \in DOMAIN commands : commands[i].cmd = "cancel" =>
    LET c == commands[i]
    IN  /\ <<c.kind, c.seq>> \notin cancelSent
        /\ \A j \in DOMAIN commands : commands[j] = c => j = i
        /\ \A j \in DOMAIN commands : commands[j] = Cmd("start", c.kind, c.seq) => j < i

\* When an activation is handled as one batch, a cancel command only ever names an
\* operation Core still has: one that is started by the same buffer or not answered yet.
CancelTargetsLive ==
  singleBatch =>
    \A k \in Kinds : \A n \in Buffered("cancel", k) :
      n \in Buffered("start", k) \cup UNION {outstanding[t] : t \in AnswerTypes(k)}

\* Every activation ends: once a batch is started Core gets an answer, unless workflow
\* code never stops scheduling (which the bounds exclude).
ActivationEnds == (phase = "jobs") ~> (phase \in {"idle", "failed", "done"})
=============================================================================
