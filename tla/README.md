# Verification of the Temporal TypeScript SDK

TLA+ specifications of the parts of this repository whose correctness depends on
order: what the workflow sandbox does with the jobs Core sends it, how cancellation
travels, how signals and updates meet handlers that come and go, how patched code
replays, how a worker lives and dies with the runtime it shares, how it caches workflows
in threads and carries activities to their answers, and how workflow streams deliver.
TLC checks the specifications on small instances; TLAPS proves the central invariants
for every instance.

Paths are relative to `packages/` of the repository. `PROJECT.json` holds the
machine-readable side: the components, the map from definitions to source lines, the
runs, the mutants, the hazards, the findings and the theorems.

## The system and its parts

A *worker* (`worker/`) polls Core (Rust, behind `core-bridge/`) for workflow
activations, activity tasks and Nexus tasks. Workers and client connections of a process
share one `Runtime`, which must live exactly as long as one of them needs it.

A workflow activation is a list of jobs for one execution. The worker groups activations
by run id. The group of a run creates the execution's VM in one of a pool of worker
threads (`worker/src/workflow/`), hands it one activation at a time, and disposes of it
when Core evicts the run. Inside the VM, `workflow/` runs the jobs against the
execution's `Activator`, lets microtasks run, and returns the commands that workflow code
has buffered. Core answers those commands in later activations. An evicted execution is
rebuilt by replaying its history.

Activity tasks are grouped by task token. A group handles its start and its cancels in
order, runs the activity, and answers Core once. Heartbeats go through a stream of their
own.

A *workflow stream* (`contrib/workflow-streams/`) is a log kept by a workflow. Clients
publish to it with signals and read it with updates, while the workflow truncates it and
continues as new.

| Part | Source | Module |
| --- | --- | --- |
| Operations, commands, completions | `workflow/src/internals.ts`, `workflow.ts`, `nexus.ts` | `Activator` |
| Activation loop | `worker/src/workflow/vm-shared.ts`, `workflow/src/worker-interface.ts` | in `Activator` and `MessageHandlers` |
| Cancellation scopes | `workflow/src/cancellation-scope.ts`, `flags.ts` | `CancellationScope` |
| Signals, updates, conditions | `workflow/src/internals.ts`, `workflow.ts` | `MessageHandlers` |
| Patches and the patch activation callback | `workflow/src/internals.ts`, `worker/src/workflow/patch-activation-callback.ts` | `Patches` |
| Runtime and native connections | `worker/src/runtime.ts`, `connection.ts` | `Runtime` |
| Worker lifecycle | `worker/src/worker.ts` | `Worker`, which extends `Runtime` |
| Worker threads | `worker/src/workflow/threaded-vm.ts`, `workflow-worker-thread.ts` | `WorkerThreads` |
| Workflow activations and the cache | `worker/src/worker.ts` | `WorkflowCache`, which extends `WorkerThreads` |
| Activity tasks and heartbeats | `worker/src/worker.ts`, `activity.ts`, `rxutils.ts` | `ActivityTasks` |
| Workflow streams, what they promise | `../contrib/workflow-streams/` | `StreamLog` |
| Workflow streams, workflow side | `../contrib/workflow-streams/src/workflow.ts` | `WorkflowStream` |
| Workflow streams, client side | `../contrib/workflow-streams/src/client.ts` | `StreamClient`, which extends `WorkflowStream` |
| Clients, converters, testing, tooling | `client/`, `common/`, `testing/`, ... | see "Not modelled" |

Modules that are checked have a module `MCX` that instantiates them for TLC, and
`XProofs` where there are proofs. Operators under a comment `Mutant` are variants of the
definition that follows them, each with one plausible bug; `PROJECT.json` says which
property must catch which variant. No specification uses them.

## The modules

### Activator

One behaviour is the life of one cached workflow execution, with Core as its
environment. State: the counters (`nextSeqs`), the maps of pending promises
(`completions`, as sets of sequence numbers), the command buffer (`commands`), the
cancelled scopes, the microtasks the SDK has queued, the jobs of the activation in
progress, and on Core's side what it still has to answer (`outstanding`).

- *Workflow code* (`WorkflowCode`) starts timers, activities, local activities, child
  workflows, external signals and cancels, and Nexus operations in any scope, cancels
  scopes, and completes. It runs whenever control is in a handler or in a microtask. An
  operation started in a cancelled scope pushes no command; its promise is rejected in a
  microtask.
- *Microtasks* (`RunMicrotask`) are the `cancelRequested` callbacks, one per operation
  pending in a cancelled scope, and the two continuations of a local activity that backs
  off. They run in any order, which includes the real one.
- *Jobs* (`HandleJob`) are the `resolve*` handlers, `fireTimer`, `cancelWorkflow`,
  signals and the start.
- *The loop* (`Loop`) is `BaseVMWorkflow.activate`: one or two batches, microtasks after
  each, and the conclusion, which hands the buffer to Core.
- *Core* is external. It answers only what it owes, at most once, a child or a Nexus
  operation in two steps. Of an operation it was told to cancel it still owes the answer,
  except for timers, which it forgets.

Scopes are a fixed set here, each cancellable or not; the tree is `CancellationScope`.

### CancellationScope

The tree itself. A scope has a synchronous flag (`requested`) and a promise
(`rejected`); a request reaches the children one microtask per level. Workflow code
creates scopes under any scope, cancels any scope, and runs code with a timeout while
those microtasks are queued. `hasFlag` models the SDK flag that turns on shielding by
non-cancellable scopes: it is off while a history without it is replayed, and the first
test outside replay turns it on. Before that, behaviour is the old one.

### MessageHandlers

Signals and updates against handlers that workflow code sets, replaces and deletes. A
call of `setHandler` dispatches buffered messages before it returns, and a handler it
calls may set other handlers; `loops` is the stack of those nested dispatch loops. Jobs
are a sequence here, since order is what the properties are about. Conditions are
`condition(() => value)` for a value any code may change, and
`condition(allHandlersFinished)` in the workflow function.

### Patches

One patch id in a workflow that is run task by task, evicted at any time and replayed.
History records per task the answers that its `patched()` calls had and whether the task
left a marker. The state of the `Activator` is the three sets of patch ids, reduced to
this id: known from markers, sent, and the memoised decision. A live task may ask the
worker's patch activation callback; the workflow's thread then blocks on a shared buffer
while the main thread runs the callback, writes a status and wakes it (`callback`,
`buffer`). The callback may answer differently each time, or throw.

### Runtime and Worker

`Runtime` is the singleton with its two records, the native objects that exist
(`backRefs`) and the creations under way (`pendingCreations`), the shutdown callbacks,
and the native connections. `Worker` adds any number of workers: `create` with its
awaits, failures and clean-up, `run` and `runUntil`, a plugin that may await before
`runInternal`, shutdown by a call, a signal, an unexpected error or the promise of
`runUntil`, one pipeline per kind of task, the force timer, and the finally blocks.
What a function does between two awaits is one action, so the modules have every
interleaving of these functions and no other. `stage` is where `create` and `runInternal`
stand, `state` is the `State` of the code.

### WorkerThreads and WorkflowCache

`WorkerThreads` is the pool: requests and answers, the choice of the thread with the
fewest workflows, a thread that fails and exits under its requests, and `destroy`.
`WorkflowCache` is `workflow$`, `handleActivation` and `createWorkflow`: a group per run
with its queue, which creates, activates, drains sinks and disposes by requests to the
threads; failures of each of them; eviction; the synthetic evictions at shutdown. Core is
external: it keeps at most one activation outstanding per run, evicts alone, and evicts a
run after a failed completion before it activates it again.

### ActivityTasks

Any number of task tokens, each with its group of `activityOperator` and its stream of
`activityHeartbeat$`.
The stages of a task are

    absent -> running -> ending -> (flushing ->) storing -> completing -> done

`running` is the activity's function, `ending` the encoding of its result,
`flushing` the wait of a failed activity for its heartbeats, `storing` the offload to
external storage, and `completing` the call to Core. The heartbeat state mapper is
translated function by function (`process`, `storePending`, `complete`, `onHeartbeat`,
`onFlush`, `onCompletion`). Each heartbeat is encoded at its own speed, and encoding may
fail, which cancels the activity. `ResultOf` is the decision table of `Activity.run`.

### StreamLog, WorkflowStream and StreamClient

`StreamLog` is the promise: an append-only log of distinct items with stable offsets, a
base below which items are gone, and a subscriber that is given the wanted items in order,
with no gap but discarded ones. `WorkflowStream` is the workflow side over a chain of
runs: `onPublish` with its sequence numbers, the poll update and its wait, truncation,
`getState` with the pruning of silent publishers, and continue-as-new. `StreamClient` is
the publisher, with its buffer, the pending batch it retries under one sequence number,
`maxRetryDuration`, the background flusher, `flush()` and dispose, and the subscription,
which follows the chain. The server is external: a signal arrives at most once, and the
call may fail whether it did or not.

## The runs

| Run | Question | Answer |
| --- | --- | --- |
| `activator_operations` | Any two operations, of any kinds: does every answer find its completion, does every promise settle, is everything pending in a cancelled scope cancelled once, while Core has it? | yes |
| `activator_ends` | Does every activation end? | yes |
| `scopes` | Do shields hold, does no scope miss a request, does no timeout timer outlive its body, does a request reach every child? | yes |
| `messages_signals` | Does no signal stay buffered with a handler set, and is order kept per name? | yes |
| `messages_updates` | Is an update answered, once, by the protocol; do messages run before the end; do rejected updates unblock nothing; is no condition that holds left blocked? | yes |
| `patches` | Does a replay give every `patched()` its recorded answer, does a marker stick, does the callback's result reach the blocked thread? | yes |
| `activity_tasks` | Are heartbeats ordered and flushed before a failure, is no cancel lost, does the stream end, is every activity whose function ends answered? | yes |
| `worker` | Does the native runtime live exactly as long as it is needed, one at a time; does `run()` throw the first error; does it settle once asked to? | yes |
| `workflow_cache` | Do the groups stay in step with Core, do threads hold just the workflows they will be asked for, is every activation answered and does the pool terminate, although threads die? | yes |
| `streams` | Do client and workflow implement `StreamLog`; is nothing lost silently; is `flush()` a barrier; do calls settle and items reach the subscriber? | yes |
| `streams_end` | Does a subscription end when the workflow has completed? | no, see Findings |
| `streams_loss` | Is nothing lost silently when a payload cannot be converted? | no, see Findings |

### Bounds

- `Activator`: two operations (`MaxOperations`), of the same kind or of two of the seven
  kinds, plus the timer and the retry of a local activity that backs off once
  (`MaxBackoffs`), two jobs per activation (`MaxJobs`), and two scopes, one of them
  non-cancellable. Two jobs are enough for an answer to meet a signal, a cancellation or
  the other answer of the same operation in one activation, in one batch or two. Two
  operations are enough for each pair of kinds that share a map or a counter to be in
  different stages. The theorems remove these bounds for the invariants they cover.
- `CancellationScope`: four scopes, which gives every tree of depth three below the root,
  or two with a timer scope.
- `MessageHandlers`: three signals of two names, or a signal and an update with two
  conditions. Updates go through the same dispatch loop as signals. Order per name needs
  two messages of one name, and a third of another name is what a nested dispatch can
  pass over.
- `Patches`: four tasks with three calls each (`MaxTasks`, `MaxCalls`), the second call of
  a task by `deprecatePatch()`: a marker may be recorded before, in and after any task,
  and a replay may end before, at and after it.
- `ActivityTasks`: four heartbeats (one being sent, one pending, one that replaces it,
  one after the end) and two cancels, each a cancellation, a pause or a reset. One task:
  tasks share nothing but counters, and the theorems are about any number of them.
- `Worker`: two workers that differ in everything that matters (own connection or the
  application's, force time or none, plugin or none, one pipeline or two), two Runtime
  objects, and one task in flight per pipeline; tasks come without end. Two workers are
  what it takes for one to be created while the other gives the Runtime back.
- `WorkflowCache`: two runs on two threads, four activations per run, which are a
  creation, jobs, an eviction and a second creation, and one thread that dies by itself.
- Streams: two items of the client and three of the workflow over three runs, a response
  limit of one item, two signals in the workflow's inbox (a batch and its retry), one poll
  that times out, and a clock just long enough for a publisher to be pruned. A client
  publishes or subscribes: the two meet only in the log, to which the workflow publishes
  as well.

The only symmetry is that of `messages_signals`, which permutes the two signals of one
name; no property or initial state tells them apart, and the run checks no liveness.

### Fairness

Workflow code, activity code, the application and Core's deliveries get no fairness.

- `Activator`: weak fairness of microtasks, of the handlers and of the activation loop.
  All three are driven by synchronous code and V8's microtask queue, which is drained
  before control leaves the VM. Workflow code stops scheduling because the sequence
  numbers are bounded.
- `CancellationScope`: weak fairness of the return from the jobs and of each queued
  callback, for the same reason.
- `Patches`: both threads run.
- `ActivityTasks`: weak fairness of the worker's own steps for a task, that is, promises
  of the data converter, the storage driver and Core settle. The bound on heartbeats
  matters here: each heartbeat emitted after a failure, while one is being sent, delays
  the answer by one more send, so the property is about activities that stop heartbeating.
- `Worker`: weak fairness of callbacks, plugins, the force timer, the end of a drained
  pipeline and the finally blocks. Polls end and tasks complete fairly only for workers
  without a force time, so `RunSettles` also says that the force time is enough.
- `WorkflowCache`: promises that are settled resume, threads answer or exit, and Core ends
  the poller once it may.
- Streams: the worker handles what the server hands it, calls come back, and the event
  loop runs every continuation.

Deadlock is checked in the runs of the workflow side, where an evicted execution stutters
explicitly, and in `patches`. It is off where the system may stop: tasks that are done,
workers that have returned, a pool that is destroyed, a stream whose workflow completed.

## What is proved

`ActivatorProofs`, for every set of operations and scopes and every bound (assuming only
that the root scope is cancellable and that the bounds are natural numbers,
`MaxJobs` not zero):

- `ActivatorTypeCorrect`: `TypeOK` is an invariant.
- `NoCompletionMissing`: `consumeCompletion` never throws, since every job Core may send
  finds its entry.
- `CompletionsAgreeWithCore`: between activations the entries are exactly what Core
  still owes.
- `PromisesDoNotHang`: between activations every operation that got a number has its
  promise settled, or an entry through which an answer will settle it.
- `CancelsReachCore`: when an activation has ended, a cancelled scope has no running
  timer and every other operation pending in it has had its cancel command sent.
- `CancelsFollowStarts`: an operation is cancelled at most once, after its start.
- `CancelsNameLiveOperations`: in an activation of one batch, what is cancelled is
  something Core still has.

None of these is inductive. Take the first three. Between activations the agreement is
with `outstanding`, but during one it is with `outstanding` and the buffered start
commands, minus the timers whose cancel is buffered, and it must hold for jobs in hand as
well. `CoreInv` says that:

- `Numbered`: every number in use is below its counter, so a new operation is new
  everywhere.
- `OneStage`: an operation is buffered, or Core owes its start, or Core owes its
  completion, never two of them.
- `StartsAgree`, `TimersAgree`, `NexusAgree`, `ChildrenAgree`: the mid-activation
  agreement per kind. The last one has to account for children that were never
  scheduled because their scope was cancelled: their completion entry stays behind with
  a rejected promise.
- `JobsAnswer`: each job in hand answers something Core owes, no two answer the same
  thing, a child's completion may rest on a start in the same activation, and a second
  batch exists only behind signals.
- `LoopShape`: what is empty in which phase.

The proof has a lemma per handler (`...Keeps`), with the effect on the jobs in hand
separated out (`JobsLeft`, `StartJobsLeft`, `EventJobsLeft`), because that conjunct is
the only one that every handler disturbs.

The other four rest on `CoreInv` and on two more inductive invariants, of the proof module.
`PromisesKept` adds to `NoPromiseHangs` what is true during an activation: the promise of
an operation refused by a cancelled scope may be waiting for the callback that rejects it.
`CancelInv` follows an operation from the request to Core:

- `IssuedInv`: a kind and a number name one operation, and the completion entry of a
  scheduled child is there only while the child is. So a callback that finds the entry
  cancels a child that Core has. (Entries left behind by children that were never
  scheduled have no such callback.)
- `CallbacksInv` and `RequestedInv`: a queued callback belongs to an operation of a scope
  with a request, and has no cancel command yet; a cancel command exists only where there
  was a request. So the first request of a scope, the only one that queues callbacks,
  finds no operation in it cancelled.
- `ReachedInv`: an operation of a cancelled scope has its callback queued, or is answered,
  or (not a timer) has its cancel command in the buffer or with Core.
- `BatchInv`: in a single batch no cancel command is buffered while a job can still take
  an operation from Core. In an activation of two batches one can be, and
  `CancelTargetsLive` is about single batches for that reason.

`ScopesAndPatchesProofs` extends two modules that have nothing in common but their size and
that a replay must repeat them. For every set of scopes:

- `ScopesTypeCorrect`: `TypeOK` is an invariant.
- `ShieldingHolds`: with the flag on, no request passes a non-cancellable scope.
  `ShieldedInv` strengthens it with two facts: a callback is queued only if the parent's
  promise is rejected (`QueuedByParent`), and a scope whose callback does not test the
  flag again has a cancellable parent (`UnguardedFollow`).
- `RequestsAreDelivered`: when no callback is left, no scope has a flag and no rejected
  promise, and every child that should follow its parent did. A flag runs ahead of its
  promise only in a scope that copied it from its parent (`Copied`); with no callback left
  the parent is such a scope too (`Notified`), and so on up to the root, which copies
  nothing. That parents lead to the root is an invariant about sets of scopes (`Rooted`).
- `TimersAreCleanedUp`: `withTimeout` leaves no timer behind (`TimersInv`).

For any number of tasks and calls of `patched()`:

- `ReplayIsDeterministic`, `RecordedPatchSticks`, and `ResultIsWritten` (the blocked
  thread is woken only after a status was written). The invariant relates the three sets
  of the `Activator` to history: a marker among the tasks applied means the decision is
  yes, a yes means such a marker or one about to be recorded, a refusal means no marker at
  all, and a patch is known only from a marker. Every recorded answer then equals the
  presence of a marker up to its task, which a replay reproduces.

`MessageHandlersProofs`, for any finite sets of signals and updates, any names and
conditions (finite because the activations of a run carry finitely many messages):

- `UpdatesFollowTheProtocol`, `UpdatesAreAnswered`, `BuffersAreDispatched`,
  `MessagesComeBeforeTheEnd`, `UnrecordedActivationsRunNothing`,
  `ConditionsAreUnblocked`, `DrainsBeforeResuming`. `MessagesInv` is built in layers: the
  shape of the activation loop, what it records and what its batches hold (`LoopInv`,
  `RecordInv`, `BatchInv`); each message waits in one place at a time (`PlaceInv`); a
  buffered message with a handler has a dispatch loop of its type under way somewhere on
  the stack (`LoopsInv`), which is what the nested loops come down to; an update has no
  response exactly as long as it waits (`AnswerInv`); and what is in progress while the
  workflow waits for its handlers (`DrainedInv`).
- `MessagesStayInOrder`, where no interceptor awaits before it calls `next`: of one name
  and type, the messages started come before the buffered ones, and these before those
  of the jobs left (`OrderInv`).

`WorkerProofs`, for any workers, runtimes, pipelines and options (assuming only that
identities differ and that Runtime objects are numbered):

- `RuntimeLivesAsNeeded`, `OneRuntimeAtATime` and `RunThrowsFirstError`. The two records
  of a Runtime agree at every await with where `create`, `runInternal` and `connect` stand
  (`Tracked`), the native runtime is live as long as a record is not empty (`LiveInv`), a
  worker shares the Runtime of its own connection (`Linked`), and until `run()` fails the
  error that is kept is the first one reported (`ErrorInv`).

`WorkflowCacheProofs`, for any runs and activations and any finite pool of threads:

- `CacheInStep` and `ThreadsAskedForTheirs`. For each run, its queue is what Core has
  outstanding, or a synthetic eviction (`GroupInv`), the request that is awaited fits the
  head of the queue and the group's workflow (`RequestInv`), and a workflow is held by its
  thread until the thread exits (`HeldInv`). A step of one group leaves the other runs
  alone, which is proved once and used for every action.

`ActivityTasksProofs`, for any tasks and any number of heartbeats and cancels:

- `FailureAfterHeartbeats`, `CancelReachesActivity`, `StreamsEnd` and the action property
  `RecordedInOrder`. While the mapper is `processing` exactly one heartbeat is being
  encoded, and until the activity has ended well the newest heartbeat is the pending one,
  or the one being encoded, or out (`StreamInv`); `EndInv` says what the stream waits for
  at each stage, `GroupInv` that a start comes first in its group. What the mapper's
  functions return is stated once per function (`OnHeartbeat`, `OnFlush`,
  `OnCompletion`).

`StreamPublisherProofs` and `StreamClientProofs`, for any topics, limits, timeouts and
number of runs, where every item can be encoded (`Unencodable = {}`; without this
`streams_loss` is a counterexample):

- `LossIsNeverSilent` and `FlushWaitsForAll`. The invariant is about all the batches on
  their way, in the buffer, pending, or in the workflow's inbox, each with the sequence
  number it has or will get: batches with different numbers share no item (`BatchInv`),
  the number the workflow remembers tells those it has from those it has not
  (`SeenInv`), and it remembers it for as long as a batch can still arrive (`TimeInv`, from
  the assumption that `maxRetryDuration` and the time of a call are shorter than
  `publisherTtl`). `LogInv` says that offsets are stable and items distinct, `FlushInv`
  who runs a flush, `LossInv` and `BarrierInv` what became of each item.
- `ImplementsStreamLog`: client and workflow implement `StreamLog`, for a subscription
  that starts at the beginning, as it does by default (`FromOffset = 0`; see "Other
  disagreements"). What a poll returns is a recursive function over the log;
  `PageCollected` shows by the least counterexample that a page has the wanted items in
  order, and all of them up to the offset it says to go on from. `SubInv` says what the
  subscription has still to be given.
- `StreamsTypeCorrect`: the type invariant.

Each of these invariants contains the type invariant of its module, and each was checked
by TLC on the instance of its run before it was proved.

Only model-checked: the liveness properties, since fairness is out of the prover's reach.

## Findings

Places where the code and what is written about it disagree, each shown by a
counterexample.

- `streams_end`: the comments of `subscribe()` say that it exits cleanly when the workflow
  is done (`../contrib/workflow-streams/src/client.ts:503`). A poll was admitted by a run
  that then continued as new, and the next run completes before it admits one: the client
  asks about the first run, sees that it continued, and polls again, for ever.
- `streams_loss`: the background flusher promises that data loss is never silent
  (`../contrib/workflow-streams/src/client.ts:338`). `_doFlush` empties the buffer before
  it encodes the batch, and the flusher swallows the error of an item that no payload
  converter takes, with the batch.

### Other disagreements

Met while modelling; the modules have the behaviour of the code, and no run is spent on
them.

- `pushCommand` is documented to prevent commands after the completion of the workflow
  (`workflow/src/internals.ts:655`); it appends them. What Core is sent is still
  consistent: `NoIllegalState` and `AgreesWithCore` hold for such activations too.
- Deleting a handler is said not to affect the jobs it was handling
  (`workflow/src/workflow.ts:1544`). A signal whose interceptor awaits before it calls
  `next` looks the handler up again (`workflow/src/internals.ts:1169`), and is dropped if
  it is gone. `messages_signals` is about interceptors that call `next` at once.
- `Activity.run` says that a pause or a reset gives an application failure
  (`worker/src/activity.ts:235`). It does for a `CancelledFailure`; an activity that throws
  an `AbortError` is reported as cancelled (line 261).
- `numHeartbeatingActivities` is documented as the number of running activities that have
  emitted a heartbeat (`worker/src/worker.ts:428`). It counts every started activity, and
  a heartbeat after the end makes it negative (line 2046).
- `numCachedWorkflows` (`worker/src/worker.ts:423`) becomes negative when a workflow whose
  creation failed is evicted (line 1576), and a thread's `activeWorkflowCount` is not
  decremented after a failed creation (`worker/src/workflow/threaded-vm.ts:163`), so that
  the choice of a thread is skewed from then on. No property depends on that choice.
- A workflow whose `dispose` throws stays in the thread's `workflowByRunId`
  (`ThreadsHoldTheWorkflows` names these as `abandoned`).
- `runUntil` is documented to shut the worker down when its promise completes
  (`worker/src/worker.ts:2262`). With a plugin that awaits before `runInternal`, a promise
  that completes meanwhile finds a worker that is not running (line 2296), and nobody is
  shut down. `RunSettles` leaves this case out (`Asked`).
- `run()` is said to throw the first error (`worker/src/worker.ts:484`). The handler of an
  unexpected error calls `shutdown()` before it keeps the error (line 2383), so that an
  `initiateShutdown` that throws there is thrown instead. `FirstErrorThrown` names this
  exception.
- `NativeConnection.close()` is documented to throw while a worker uses the connection
  (`worker/src/connection.ts:254`). It succeeds while such a worker is being created, since
  the reference is taken after the native call (`worker/src/worker.ts:606`).
- A subscription is given the offset to start at, `fromOffset`
  (`../contrib/workflow-streams/src/client.ts:448`). When that is beyond the end of the log,
  a poll that is parked while the run drains is answered with the end of the log as the
  next offset (`../contrib/workflow-streams/src/workflow.ts:366`), so the subscription goes
  back and yields items below `fromOffset`. The run `streams` and the proof of the
  refinement are about the default, 0.
- A cancel task that arrives after the answer of its activity opens a group that nothing
  closes (`worker/src/worker.ts:1103`). It has no effect on any task.

## Abstractions to keep in mind

- Payloads, options, headers, failures and their conversion are left out, except that
  a conversion may fail where the code handles that.
- Microtasks are a set and run in any order; JavaScript runs them in the order they were
  queued. Safety therefore holds for more behaviours than the program has.
- `Activator` and `MessageHandlers` share the activation loop and are not composed: the
  first keeps jobs as a set and has no handlers, the second has no operations but
  "some other job". Likewise a task in flight in `Worker` is one step, whose inside is
  `WorkflowCache` or `ActivityTasks`.
- Scopes are a fixed set in `Activator`; the tree is `CancellationScope`.
- In `ActivityTasks` a heartbeat emitted in the very turn in which its stream closes is
  treated as one emitted after it.
- `pendingCreations` is a number in the code and the set that is counted in `Runtime`.
- Time in the streams is a clock of ticks. That a retry never comes after its record has
  expired rests on `maxRetryDuration` being shorter than `publisherTtl`, which is an
  assumption of the model (`ClientAssumption`) as it is advice in the code
  (`../contrib/workflow-streams/src/client.ts:52`).

## Not modelled

- *Queries* run alone and change nothing. The flush loop for Bun is a variant of the
  microtask drain.
- *Global timers* (`setTimeout`, `clearTimeout`): a cancellable scope and a timer, whose
  steps are those of `CancellationScope` and `Activator`, behind a map from ids.
- *Triggers, logs, sinks, update scopes, activity context*: thin wrappers around promises
  and async-local storage.
- *Nexus tasks* inside: an abort controller and one answer; the pipeline is in `Worker`.
- *The runtime's logging, telemetry and ephemeral servers*: buffers of output, and
  processes that a test starts.
- *The payload cache and external storage*: a synchronous map with a byte limit, and
  batches of calls to a driver whose failure is a step of `ActivityTasks` and
  `WorkflowCache`.
- *Clients, converters, failures, options, plugins and configuration*: requests awaited one
  at a time, and pure data.
- *The native bridge and Core* are external; Core is modelled from how the SDK uses it.
- *Generated protos, test servers, the project generator, tracing interceptors, and the
  adapters for AI SDKs and object stores* have no state whose order matters here.

The map covers the concurrent core of the repository and a small share of all its lines
for this reason: most of the code is type declarations, options, documentation comments,
converters, clients, adapters and tests' tooling. What remains of it has no interleaving,
failure between two steps or protocol that a model would explore, and a transcription
would only restate it.
