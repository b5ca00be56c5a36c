--------------------------- MODULE MessageHandlers ---------------------------
(***************************************************************************)
(* Signals, updates and conditions of one workflow execution: delivery to  *)
(* handlers that workflow code sets, replaces and deletes while messages   *)
(* arrive, buffering of the messages that have no handler yet, the         *)
(* responses to updates, and the conditions that are tested after every    *)
(* job.                                                                    *)
(*                                                                         *)
(* Workflow code runs synchronously inside a handler, or in microtasks     *)
(* once the batch of jobs has returned.  Setting a handler dispatches the  *)
(* buffered messages before it returns, so the handlers of those messages  *)
(* run nested in the code that set it: `loops` is the stack of dispatch    *)
(* loops and `code` tells whether control is in workflow code.             *)
(*                                                                         *)
(* Arguments, results, validators' text and unfinished policies are left   *)
(* out.  Of the commands only the update responses are kept, per update.   *)
(***************************************************************************)
EXTENDS Naturals, Sequences, FiniteSets, Functions

CONSTANTS
  Signals, Updates,    \* the messages sent to the execution
  Names,               \* signal and update names
  NameOf,              \* the name of each message
  Conditions,          \* "value": condition(() => value) somewhere in workflow code;
                       \* "drained": condition(allHandlersFinished) in the workflow function
  InterceptorYields    \* a handleSignal interceptor awaits before calling next

Messages == Signals \cup Updates

ASSUME MessagesAssumption ==
  /\ IsFiniteSet(Signals) /\ IsFiniteSet(Updates) /\ Signals \cap Updates = {}
  /\ {"initialize", "other"} \cap Messages = {}   \* the other jobs
ASSUME NamesAssumption == NameOf \in [Messages -> Names]
ASSUME ConditionsAssumption == Conditions \subseteq {"value", "drained"}
ASSUME YieldsAssumption == InterceptorYields \in BOOLEAN

Types == {"signal", "update"}
TypeOf(m) == IF m \in Signals THEN "signal" ELSE "update"

VARIABLES
  handlers,         \* signalHandlers and updateHandlers: the names that have one
  default,          \* defaultSignalHandler and defaultUpdateHandler are set
  buffered,         \* bufferedSignals and bufferedUpdates
  inProgress,       \* inProgressSignals and inProgressUpdates
  intercepted,      \* signals an interceptor holds before signalWorkflowNextHandler
  running,          \* messages whose handler's promise is pending
  finalizing,       \* messages whose finally callback is queued
  conditions,       \* blockedConditions, and the conditions resolved but not resumed
  value,            \* the state the condition on `value` reads
  checkConditions,  \* activator.checkConditions
  main,             \* the workflow function
  completed,        \* activator.completed
  error,            \* workflowTaskError is set
  jobs, laterJobs,  \* jobs of this batch and of the next one; "other" is any job that
                    \* resumes workflow code and is neither a message nor "initialize"
  singleBatch,      \* doSingleBatch of this activation
  phase,            \* where the activation is
  loops,            \* the stack of dispatchBuffered* loops
  code,             \* control is in workflow code
  awake,            \* workflow code has run in this activation
  answers,          \* history: the update responses pushed, per update
  arrived,          \* history: the messages in the order Core sent them
  started,          \* history: the messages in the order their handlers started
  waited,           \* history: the messages that were buffered
  recorded          \* history: this activation leaves an event in the workflow's history

handlerVars == <<handlers, default>>
runVars == <<inProgress, intercepted, running, finalizing>>
conditionVars == <<conditions, value>>
loopVars == <<jobs, laterJobs, singleBatch, phase>>
historyVars == <<arrived, started, waited, recorded>>
vars == <<handlers, default, buffered, inProgress, intercepted, running, finalizing, conditions,
          value, checkConditions, main, completed, error, jobs, laterJobs, singleBatch, phase,
          loops, code, awake, answers, arrived, started, waited, recorded>>

\* Mutant: allHandlersFinished forgets the updates.
HoldsSignalsOnly(c) == IF c = "drained" THEN inProgress \cap Signals = {} ELSE value

\* The predicate of a condition; allHandlersFinished for "drained".
Holds(c) == IF c = "drained" THEN inProgress = {} ELSE value

HasHandler(m) == NameOf[m] \in handlers[TypeOf(m)] \/ default[TypeOf(m)]

(***************************************************************************)
(* Delivery of one message.  buf is the buffers without the message; runs  *)
(* tells whether a handler's synchronous part is running afterwards.       *)
(***************************************************************************)
pushResponse(u, r) == answers' = [answers EXCEPT ![u] = Append(@, r)]

ToBuffer(m, buf) ==
  /\ ~HasHandler(m)
  /\ buffered' = [buf EXCEPT ![TypeOf(m)] = Append(@, m)]
  /\ waited' = waited \cup {m}
  /\ code' = FALSE
  /\ UNCHANGED <<runVars, checkConditions, recorded, awake, answers, started>>

Runs(m) ==
  /\ running' = running \cup {m}
  /\ started' = Append(started, m)
  /\ code' = TRUE
  /\ awake' = TRUE

signalWorkflow(m, buf) ==
  /\ m \in Signals
  /\ \/ ToBuffer(m, buf)
     \/ /\ HasHandler(m)
        /\ buffered' = buf
        /\ inProgress' = inProgress \cup {m}
        /\ IF InterceptorYields
           THEN /\ intercepted' = intercepted \cup {m}
                /\ code' = FALSE /\ awake' = TRUE
                /\ UNCHANGED <<running, started>>
           ELSE Runs(m) /\ UNCHANGED intercepted
        /\ UNCHANGED <<finalizing, checkConditions, recorded, waited, answers>>

\* Decoding and validation reject the update; otherwise it is accepted and its handler
\* is called at once.
acceptUpdate(m) ==
  /\ checkConditions' = TRUE
  /\ recorded' = TRUE
  /\ pushResponse(m, "accepted")

doUpdate(m, buf) ==
  /\ m \in Updates
  /\ \/ ToBuffer(m, buf)
     \/ /\ HasHandler(m)
        /\ buffered' = buf
        /\ pushResponse(m, "rejected")
        /\ code' = FALSE
        /\ UNCHANGED <<runVars, checkConditions, recorded, waited, awake, started>>
     \/ /\ HasHandler(m)
        /\ buffered' = buf
        /\ acceptUpdate(m)
        /\ inProgress' = inProgress \cup {m}
        /\ Runs(m)
        /\ UNCHANGED <<intercepted, finalizing, waited>>

(***************************************************************************)
(* Setting handlers, and the dispatch loops                                *)
(***************************************************************************)
codeUnchanged == UNCHANGED <<buffered, runVars, checkConditions, completed, error, loopVars,
                             awake, answers, arrived, started, waited, recorded, main>>

\* dispatchBufferedSignals / dispatchBufferedUpdates is entered.
EnterLoop(t) ==
  IF buffered[t] = <<>> THEN UNCHANGED <<loops, code>>
                        ELSE loops' = Append(loops, t) /\ code' = FALSE

setHandler(t, n) ==
  /\ code
  /\ handlers' = [handlers EXCEPT ![t] = @ \cup {n}]
  /\ EnterLoop(t)
  /\ codeUnchanged /\ UNCHANGED <<default, conditionVars>>

deleteHandler(t, n) ==
  /\ code
  /\ n \in handlers[t]
  /\ handlers' = [handlers EXCEPT ![t] = @ \ {n}]
  /\ codeUnchanged /\ UNCHANGED <<default, conditionVars, loops, code>>

\* Mutant: the buffered messages are not dispatched.
setDefaultHandlerOnly(t) ==
  /\ code
  /\ default' = [default EXCEPT ![t] = TRUE]
  /\ codeUnchanged /\ UNCHANGED <<handlers, conditionVars, loops, code>>

setDefaultHandler(t) ==
  /\ code
  /\ default' = [default EXCEPT ![t] = TRUE]
  /\ EnterLoop(t)
  /\ codeUnchanged /\ UNCHANGED <<handlers, conditionVars>>

unsetDefaultHandler(t) ==
  /\ code
  /\ default[t]
  /\ default' = [default EXCEPT ![t] = FALSE]
  /\ codeUnchanged /\ UNCHANGED <<handlers, conditionVars, loops, code>>

\* The positions of the buffered messages of type t that have a handler: all of them
\* when there is a default one.
Dispatchable(t) == {i \in DOMAIN buffered[t] : HasHandler(buffered[t][i])}

\* Mutant: the buffer is searched from its end.
FirstFromEnd(t, i) == \A j \in Dispatchable(t) : i >= j

\* findIndex: the buffer is searched from its beginning.
First(t, i) == \A j \in Dispatchable(t) : i <= j

\* splice(i, 1): the rest of a buffer.
splice(s, i) == SubSeq(s, 1, i - 1) \o SubSeq(s, i + 1, Len(s))

InLoop(t) == ~code /\ loops # <<>> /\ loops[Len(loops)] = t

dispatchNext(t) ==
  /\ InLoop(t)
  /\ \E i \in Dispatchable(t) :
       /\ First(t, i)
       /\ LET m   == buffered[t][i]
              buf == [buffered EXCEPT ![t] = splice(@, i)]
          IN  signalWorkflow(m, buf) \/ doUpdate(m, buf)
  /\ UNCHANGED <<handlerVars, conditionVars, main, completed, error, loopVars, loops, arrived>>

\* The loop finds nothing more: setHandler returns to the code that called it.
dispatchEnds(t) ==
  /\ InLoop(t)
  /\ Dispatchable(t) = {}
  /\ loops' = SubSeq(loops, 1, Len(loops) - 1)
  /\ code' = TRUE
  /\ UNCHANGED <<handlerVars, buffered, runVars, conditionVars, checkConditions, main,
                 completed, error, loopVars, awake, answers, historyVars>>

\* A handler called by a loop reaches its first await.
handlerAwaits ==
  /\ code /\ loops # <<>>
  /\ code' = FALSE
  /\ UNCHANGED <<handlerVars, buffered, runVars, conditionVars, checkConditions, main,
                 completed, error, loopVars, loops, awake, answers, historyVars>>

(***************************************************************************)
(* Other steps of workflow code                                            *)
(***************************************************************************)
changeValue ==
  /\ code /\ "value" \in Conditions
  /\ value' = ~value
  /\ codeUnchanged /\ UNCHANGED <<handlerVars, conditions, loops, code>>

\* The workflow function runs: its first part inside startWorkflow, the rest in microtasks.
MainRuns == /\ code /\ loops = <<>>
            /\ \/ main = "starting"
               \/ /\ main = "running" /\ phase = "microtasks"
                  /\ "drained" \in Conditions => conditions["drained"] = "idle"

\* await condition(fn): evaluated at once, blocked if it is false.
condition(c) ==
  /\ code
  /\ c = "drained" => MainRuns
  /\ conditions[c] = "idle"
  /\ conditions' = [conditions EXCEPT ![c] = IF Holds(c) THEN "resolved" ELSE "blocked"]
  /\ codeUnchanged /\ UNCHANGED <<handlerVars, value, loops, code>>

(***************************************************************************)
(* Microtasks                                                              *)
(***************************************************************************)
InMicrotasks == phase = "microtasks" /\ loops = <<>>

\* The code awaiting a resolved condition resumes.
resume(c) ==
  /\ InMicrotasks
  /\ conditions[c] = "resolved"
  /\ conditions' = [conditions EXCEPT ![c] = "idle"]
  /\ codeUnchanged /\ UNCHANGED <<handlerVars, value, loops, code>>

\* handleWorkflowFailure: cancelWorkflowExecution or continueAsNew ("end"),
\* failWorkflowExecution, which forgets the handlers in progress ("fail"), or a recorded
\* workflow task error ("error").
handleWorkflowFailure(how) ==
  CASE how = "end"   -> completed' = TRUE /\ UNCHANGED <<error, inProgress>>
    [] how = "fail"  -> completed' = TRUE /\ inProgress' = {} /\ UNCHANGED error
    [] how = "error" -> error' = TRUE /\ UNCHANGED <<completed, inProgress>>

Failures == {"end", "fail", "error"}

\* The workflow function returns or throws.
mainEnds(how) ==
  /\ main = "running" /\ MainRuns
  /\ main' = "ended"
  /\ handleWorkflowFailure(how)   \* "end" is completeWorkflow as well
  /\ UNCHANGED <<handlerVars, buffered, intercepted, running, finalizing, conditionVars,
                 checkConditions, loopVars, loops, code, awake, answers, historyVars>>

\* The promise of m's handler settles, and its then and catch callbacks run.
Settles(m) ==
  /\ InMicrotasks /\ awake
  /\ m \in running
  /\ running' = running \ {m}
  /\ finalizing' = finalizing \cup {m}
  /\ UNCHANGED <<handlerVars, buffered, intercepted, conditionVars, checkConditions, main,
                 loopVars, loops, code, awake, historyVars>>

handlerReturns(m) ==
  /\ Settles(m)
  /\ IF m \in Updates THEN pushResponse(m, "completed") ELSE UNCHANGED answers
  /\ UNCHANGED <<inProgress, completed, error>>

\* A TemporalFailure only rejects an update.
updateFails(m) ==
  /\ Settles(m)
  /\ m \in Updates
  /\ pushResponse(m, "rejected")
  /\ UNCHANGED <<inProgress, completed, error>>

handlerThrows(m, how) ==
  /\ Settles(m)
  /\ handleWorkflowFailure(how)
  /\ UNCHANGED answers

\* finally: the handler is no longer in progress.
finalize(m) ==
  /\ InMicrotasks
  /\ m \in finalizing
  /\ finalizing' = finalizing \ {m}
  /\ inProgress' = inProgress \ {m}
  /\ UNCHANGED <<handlerVars, buffered, intercepted, running, conditionVars, checkConditions,
                 main, completed, error, loopVars, loops, code, awake, answers, historyVars>>

\* signalWorkflowNextHandler, called late by an interceptor: the handler is looked up now.
signalWorkflowNextHandler(m) ==
  /\ InMicrotasks /\ awake
  /\ m \in intercepted
  /\ intercepted' = intercepted \ {m}
  /\ IF HasHandler(m)
     THEN Runs(m) /\ UNCHANGED <<inProgress, finalizing, completed, error>>
     ELSE /\ \E how \in {"fail", "error"} : handleWorkflowFailure(how)
          /\ finalizing' = finalizing \cup {m}
          /\ UNCHANGED <<running, started, code, awake>>
  /\ UNCHANGED <<handlerVars, buffered, conditionVars, checkConditions, main, loopVars, loops,
                 answers, arrived, waited, recorded>>

(***************************************************************************)
(* Jobs and the activation loop                                            *)
(***************************************************************************)

\* tryUnblockConditions: every blocked condition that holds is resolved.
Ready == {c \in Conditions : conditions[c] = "blocked" /\ Holds(c)}

tryUnblockConditions ==
  IF checkConditions
  THEN /\ conditions' = [c \in Conditions |-> IF c \in Ready THEN "resolved" ELSE conditions[c]]
       /\ awake' = (awake \/ Ready # {})
  ELSE UNCHANGED <<conditions, awake>>

TakesJob == phase = "jobs" /\ jobs # <<>> /\ phase' = "handler" /\ jobs' = Tail(jobs)

messageJob ==
  /\ TakesJob
  /\ signalWorkflow(Head(jobs), buffered) \/ doUpdate(Head(jobs), buffered)
  /\ UNCHANGED <<handlerVars, conditionVars, main, completed, error, laterJobs, singleBatch,
                 loops, arrived>>

\* A job that settles a promise: its continuation is workflow code, in a microtask.
otherJob ==
  /\ TakesJob
  /\ Head(jobs) = "other"
  /\ awake' = TRUE
  /\ UNCHANGED <<handlerVars, buffered, runVars, conditionVars, checkConditions, main,
                 completed, error, laterJobs, singleBatch, loops, code, answers, historyVars>>

startWorkflow ==
  /\ TakesJob
  /\ Head(jobs) = "initialize"
  /\ main' = "starting"
  /\ code' = TRUE /\ awake' = TRUE
  /\ UNCHANGED <<handlerVars, buffered, runVars, conditionVars, checkConditions, completed,
                 error, laterJobs, singleBatch, loops, answers, historyVars>>

\* The handler of the job returns and the conditions are tested.
jobReturns ==
  /\ phase = "handler" /\ loops = <<>>
  /\ phase' = "jobs"
  /\ code' = FALSE
  /\ main' = IF main = "starting" THEN "running" ELSE main
  /\ tryUnblockConditions
  /\ UNCHANGED <<handlerVars, buffered, runVars, value, checkConditions, completed, error, jobs,
                 laterJobs, singleBatch, loops, answers, historyVars>>

\* workflowModule.activate returns; microtasks run.
batchReturns ==
  /\ phase = "jobs" /\ jobs = <<>>
  /\ phase' = "microtasks"
  /\ code' = awake
  /\ UNCHANGED <<handlerVars, buffered, runVars, conditionVars, checkConditions, main,
                 completed, error, jobs, laterJobs, singleBatch, loops, awake, answers, historyVars>>

\* No callback is queued: control is back in tryUnblockConditionsAndMicrotasks, outside
\* the VM.
Drained == InMicrotasks /\ finalizing = {} /\ \A c \in Conditions : conditions[c] # "resolved"

\* Mutant: the conditions are not tested after the microtasks.
CannotUnblock == FALSE

CanUnblock == checkConditions /\ Ready # {}

failActivation ==
  /\ Drained /\ error
  /\ phase' = "failed"
  /\ code' = FALSE
  /\ UNCHANGED <<handlerVars, buffered, runVars, conditionVars, checkConditions, main,
                 completed, error, jobs, laterJobs, singleBatch, loops, awake, answers,
                 historyVars>>

unblock ==
  /\ Drained /\ ~error
  /\ CanUnblock
  /\ tryUnblockConditions
  /\ code' = TRUE
  /\ UNCHANGED <<handlerVars, buffered, runVars, value, checkConditions, main, completed, error,
                 loopVars, loops, answers, historyVars>>

nextBatch ==
  /\ Drained /\ ~error /\ ~CanUnblock
  /\ laterJobs # <<>>
  /\ jobs' = laterJobs /\ laterJobs' = <<>>
  /\ phase' = "jobs"
  /\ code' = FALSE
  /\ UNCHANGED <<handlerVars, buffered, runVars, conditionVars, checkConditions, main,
                 completed, error, singleBatch, loops, awake, answers, historyVars>>

\* Mutant: the buffer is not emptied.
rejectBufferedUpdatesKeep ==
  /\ answers' = [u \in Updates |-> IF u \in Range(buffered["update"])
                                   THEN Append(answers[u], "rejected") ELSE answers[u]]
  /\ UNCHANGED buffered

\* Mutant: the buffered updates are dropped without a response.
dropBufferedUpdates ==
  /\ buffered' = [buffered EXCEPT !["update"] = <<>>]
  /\ UNCHANGED answers

\* At the end of an activation the updates that found no handler are rejected.
rejectBufferedUpdates ==
  /\ answers' = [u \in Updates |-> IF u \in Range(buffered["update"])
                                   THEN Append(answers[u], "rejected") ELSE answers[u]]
  /\ buffered' = [buffered EXCEPT !["update"] = <<>>]

concludeActivation ==
  /\ Drained /\ ~error /\ ~CanUnblock
  /\ laterJobs = <<>>
  /\ rejectBufferedUpdates
  /\ phase' = IF completed THEN "done" ELSE "idle"
  /\ code' = FALSE
  /\ UNCHANGED <<handlerVars, runVars, conditionVars, checkConditions, main, completed, error,
                 jobs, laterJobs, singleBatch, loops, awake, historyVars>>

\* Mutant: the batches are swapped.
activateSignalsLast(S, U, rest, single) ==
  /\ singleBatch' = (single \/ S = <<>>)
  /\ jobs' = IF singleBatch' THEN S \o U \o rest ELSE U \o rest
  /\ laterJobs' = IF singleBatch' THEN <<>> ELSE S
  /\ checkConditions' = (S # <<>> \/ rest # <<>>)
  /\ phase' = "jobs"
  /\ awake' = FALSE
  /\ arrived' = arrived \o S \o U
  /\ recorded' = (S # <<>> \/ rest # <<>>)
  /\ UNCHANGED <<handlerVars, buffered, runVars, conditions, main, completed, error, loops, code,
                 answers, started, waited>>

\* Mutant: conditions are tested in every activation.
activateAlwaysChecking(S, U, rest, single) ==
  /\ singleBatch' = (single \/ S = <<>>)
  /\ jobs' = IF singleBatch' THEN S \o U \o rest ELSE S
  /\ laterJobs' = IF singleBatch' THEN <<>> ELSE U \o rest
  /\ checkConditions' = TRUE
  /\ phase' = "jobs"
  /\ awake' = FALSE
  /\ arrived' = arrived \o S \o U
  /\ recorded' = (S # <<>> \/ rest # <<>>)
  /\ UNCHANGED <<handlerVars, buffered, runVars, conditions, main, completed, error, loops, code,
                 answers, started, waited>>

\* Core's order: signals, updates, the rest.  Without the single-batch flag the signals
\* are a batch of their own.
activate(S, U, rest, single) ==
  /\ singleBatch' = (single \/ S = <<>>)
  /\ jobs' = IF singleBatch' THEN S \o U \o rest ELSE S
  /\ laterJobs' = IF singleBatch' THEN <<>> ELSE U \o rest
  /\ checkConditions' = (S # <<>> \/ rest # <<>>)
  /\ phase' = "jobs"
  /\ awake' = FALSE
  /\ arrived' = arrived \o S \o U
  /\ recorded' = (S # <<>> \/ rest # <<>>)
  /\ UNCHANGED <<handlerVars, buffered, runVars, conditions, main, completed, error, loops, code,
                 answers, started, waited>>

\* The sequences of messages Core has not sent yet.
Unsent(M) ==
  LET unsent == M \ Range(arrived)
  IN UNION {Injection(1 .. n, unsent) : n \in 0 .. Cardinality(unsent)}

firstActivation ==
  /\ phase = "new"
  /\ \E S \in Unsent(Signals), U \in Unsent(Updates), single \in BOOLEAN :
       activate(S, U, <<"initialize">>, single)
  /\ UNCHANGED value

\* What a condition reads may differ in each activation (the time, the history length).
nextActivation ==
  /\ phase = "idle"
  /\ \E S \in Unsent(Signals), U \in Unsent(Updates), rest \in {<<>>, <<"other">>},
        single \in BOOLEAN :
       S \o U \o rest # <<>> /\ activate(S, U, rest, single)
  /\ value' \in {value, "value" \in Conditions /\ ~value}

\* A completed or failed execution is evicted: nothing more happens.
Evicted == phase \in {"failed", "done"} /\ UNCHANGED vars

Init ==
  /\ handlers = [t \in Types |-> {}]
  /\ default = [t \in Types |-> FALSE]
  /\ buffered = [t \in Types |-> <<>>]
  /\ inProgress = {} /\ intercepted = {} /\ running = {} /\ finalizing = {}
  /\ conditions = [c \in Conditions |-> "idle"]
  /\ value = FALSE /\ checkConditions = TRUE
  /\ main = "none" /\ completed = FALSE /\ error = FALSE
  /\ jobs = <<>> /\ laterJobs = <<>> /\ singleBatch = TRUE /\ phase = "new"
  /\ loops = <<>> /\ code = FALSE /\ awake = FALSE
  /\ answers = [u \in Updates |-> <<>>]
  /\ arrived = <<>> /\ started = <<>> /\ waited = {} /\ recorded = FALSE

\* Handlers of a type no message has would change nothing.
WorkflowCode ==
  \/ \E t \in {TypeOf(m) : m \in Messages} :
       \/ \E n \in Names : setHandler(t, n) \/ deleteHandler(t, n)
       \/ setDefaultHandler(t) \/ unsetDefaultHandler(t)
  \/ changeValue
  \/ \E c \in Conditions : condition(c)
  \/ \E how \in Failures : mainEnds(how)
  \/ \E m \in Messages : handlerReturns(m) \/ updateFails(m)
  \/ \E m \in Messages, how \in Failures : handlerThrows(m, how)

Dispatch == handlerAwaits \/ \E t \in Types : dispatchNext(t) \/ dispatchEnds(t)

Microtasks ==
  \/ \E c \in Conditions : resume(c)
  \/ \E m \in Messages : finalize(m) \/ signalWorkflowNextHandler(m)

Loop ==
  \/ messageJob \/ otherJob \/ startWorkflow \/ jobReturns \/ batchReturns
  \/ failActivation \/ unblock \/ nextBatch \/ concludeActivation

Next ==
  \/ firstActivation \/ nextActivation
  \/ WorkflowCode \/ Dispatch \/ Microtasks \/ Loop
  \/ Evicted

Spec == Init /\ [][Next]_vars

(***************************************************************************)
(* Properties                                                              *)
(***************************************************************************)

\* The update protocol: an update is rejected, or accepted and then completed or rejected
\* once; never completed unaccepted, never answered twice, whether it is delivered from a
\* job, from the buffer, or rejected at the end of the activation.
UpdateProtocol ==
  \A u \in Updates :
    answers[u] \in {<<>>, <<"rejected">>, <<"accepted">>, <<"accepted", "completed">>,
                    <<"accepted", "rejected">>}

\* No update is left without a response: when an activation is concluded every update that
\* arrived has been rejected or accepted, and one accepted without a final response still
\* has its handler running (or the handler's failure has ended the execution).
UpdatesAnswered ==
  phase \in {"idle", "done"} =>
    \A u \in Updates \cap Range(arrived) :
      /\ answers[u] # <<>>
      /\ answers[u] = <<"accepted">> => u \in running \/ completed

\* A message stays buffered only while no handler can take it: whatever handlers are set,
\* replaced and deleted, also by the handlers the dispatch loops call, once the loops have
\* returned no buffered message has a handler.
BufferedHaveNoHandler ==
  loops = <<>> => \A t \in Types : Dispatchable(t) = {}

\* Messages of one name and type reach their handlers in the order Core sent them, the
\* ones that waited in the buffer included.
InOrderPerName ==
  \A i, j \in DOMAIN started :
    LET m == started[i]
        n == started[j]
    IN  /\ TypeOf(m) = TypeOf(n) /\ NameOf[m] = NameOf[n]
        /\ \E a, b \in DOMAIN arrived : a < b /\ arrived[a] = m /\ arrived[b] = n
        => i < j

\* The execution never ends with a signal of the current activation not delivered yet;
\* in a single batch the same holds of its updates (flags.ts).
MessagesBeforeEnd ==
  completed => \A m \in Messages \cap (Range(jobs) \cup Range(laterJobs)) :
                 m \in Updates /\ ~singleBatch

\* An activation that leaves nothing in history runs no workflow code: when all its jobs
\* are updates and all are rejected, no handler and no condition resumes, so that replay
\* sees the same execution.
UnrecordedRunsNothing == awake => recorded

\* No condition is left blocked although it holds, unless the activation left nothing in
\* history.
ConditionsQuiesce ==
  phase \in {"idle", "done"} /\ checkConditions => Ready = {}

\* `await condition(allHandlersFinished)` resumes with no handler in progress, except for
\* messages that were buffered before and got their handler just then.
DrainedOnResume ==
  "drained" \in Conditions /\ conditions["drained"] = "resolved" => inProgress \subseteq waited
=============================================================================
