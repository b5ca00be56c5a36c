-------------------------- MODULE CancellationScope --------------------------
(***************************************************************************)
(* The tree of cancellation scopes of one workflow execution.              *)
(*                                                                         *)
(* A scope has a synchronous flag (#cancelRequested) and a promise         *)
(* (cancelRequested).  cancel() sets the flag and rejects the promise; the *)
(* children hear of it in a later microtask.  Workflow code runs between   *)
(* those microtasks, so it sees flags that are ahead of the promises and   *)
(* children that have not heard yet.  A scope created with a timeout owns  *)
(* a timer scope, whose timer cancels the scope when it fires.             *)
(***************************************************************************)
EXTENDS Naturals, FiniteSets

CONSTANTS
  Scopes,     \* scopes the execution may create
  Root,       \* activator.rootScope
  Replaying   \* the first activations replay a history without the shielding flag

ASSUME RootAssumption == Root \in Scopes
ASSUME ReplayingAssumption == Replaying \in BOOLEAN

NoParent == Root   \* parent of the root scope: never followed

VARIABLES
  created,      \* the scopes constructed so far
  parent,       \* scope.parent
  cancellable,  \* scope.cancellable
  requested,    \* scope.#cancelRequested
  rejected,     \* the scopes whose cancelRequested promise is rejected
  guarded,      \* children whose callback on the parent's promise tests the flag again
  microtasks,   \* children whose callback on the parent's promise is queued
  phase,        \* jobs being handled, or microtasks
  replaying,    \* info.unsafe.isReplaying
  flag,         \* knownFlags has NonCancellableScopesAreShieldedFromPropagation
  timerOf,      \* the scope a timer scope was created for by runInContext
  timer,        \* the timer in a timer scope
  body,         \* the function passed to run(): running or done
  explicit,     \* history: scopes on which cancel() was called
  unshielded    \* history: the flag was once found off

vars == <<created, parent, cancellable, requested, rejected, guarded, microtasks, phase,
          replaying, flag, timerOf, timer, body, explicit, unshielded>>

timeoutVars == <<timerOf, timer, body>>

TypeOK ==
  /\ created \in SUBSET Scopes /\ Root \in created
  /\ parent \in [Scopes -> created]
  /\ cancellable \in [Scopes -> BOOLEAN]
  /\ requested \in SUBSET created
  /\ rejected \in SUBSET requested
  /\ guarded \in SUBSET created
  /\ microtasks \in SUBSET created
  /\ phase \in {"jobs", "microtasks"}
  /\ replaying \in BOOLEAN /\ flag \in BOOLEAN
  /\ timerOf \in [Scopes -> created]
  /\ timer \in [Scopes -> {"none", "running", "due", "fired", "cancelled"}]
  /\ \A t \in Scopes \ created : timer[t] = "none"
  /\ body \in [Scopes -> {"none", "running", "done"}]
  /\ explicit \in SUBSET created
  /\ unshielded \in BOOLEAN

\* hasFlag(NonCancellableScopesAreShieldedFromPropagation): on once known, and turned on
\* by the first test outside replay.
hasFlag == flag \/ ~replaying
testsFlag ==
  /\ flag' = hasFlag
  /\ unshielded' = (unshielded \/ ~hasFlag)

consideredCancelled(s) == s \in requested /\ cancellable[s]

Children(s) == {c \in created \ {Root} : parent[c] = s}

(***************************************************************************)
(* Constructor.  The first branch copies the parent's flag at once and     *)
(* will follow the parent's promise; the second one follows it unless the  *)
(* shielding flag is on by then.  A callback on a promise that is already  *)
(* rejected is queued immediately.                                         *)
(***************************************************************************)
\* Mutant: every scope follows its parent.
FollowsAlways(p) == TRUE

Follows(p) == cancellable[p] \/ (p \in requested /\ ~hasFlag)

\* Mutant: a promise that is already rejected calls no late callback.
constructUnnotified(s, p, c) ==
  /\ s \in Scopes \ created
  /\ p \in created
  /\ created' = created \cup {s}
  /\ parent' = [parent EXCEPT ![s] = p]
  /\ cancellable' = [cancellable EXCEPT ![s] = c]
  /\ requested' = IF Follows(p) /\ p \in requested THEN requested \cup {s} ELSE requested
  /\ guarded' = IF Follows(p) THEN guarded ELSE guarded \cup {s}
  /\ IF ~cancellable[p] /\ p \in requested THEN testsFlag ELSE UNCHANGED <<flag, unshielded>>
  /\ UNCHANGED <<rejected, microtasks, phase, replaying, explicit>>

construct(s, p, c) ==
  /\ s \in Scopes \ created
  /\ p \in created
  /\ created' = created \cup {s}
  /\ parent' = [parent EXCEPT ![s] = p]
  /\ cancellable' = [cancellable EXCEPT ![s] = c]
  /\ requested' = IF Follows(p) /\ p \in requested THEN requested \cup {s} ELSE requested
  /\ guarded' = IF Follows(p) THEN guarded ELSE guarded \cup {s}
  /\ microtasks' = IF p \in rejected THEN microtasks \cup {s} ELSE microtasks
  /\ IF ~cancellable[p] /\ p \in requested THEN testsFlag ELSE UNCHANGED <<flag, unshielded>>
  /\ UNCHANGED <<rejected, phase, replaying, explicit>>

\* new CancellationScope({ cancellable }) by workflow code.
newScope(s, p, c) == construct(s, p, c) /\ UNCHANGED timeoutVars

\* this.reject(err): the flag is set; the promise is rejected once, queueing the callbacks
\* of the children.
reject(s, queue) ==
  /\ requested' = requested \cup {s}
  /\ rejected' = rejected \cup {s}
  /\ microtasks' = IF s \in rejected THEN queue ELSE queue \cup Children(s)

\* Mutant: the callback waits for the scope's own flag, which is still to be set.
propagateWaiting(s) ==
  /\ phase = "microtasks"
  /\ s \in microtasks
  /\ IF s \in requested
     THEN reject(s, microtasks \ {s})
     ELSE UNCHANGED <<microtasks, requested, rejected>>
  /\ UNCHANGED <<created, parent, cancellable, guarded, phase, replaying, flag, unshielded,
                 timeoutVars, explicit>>

\* The callback on parent.cancelRequested.
propagate(s) ==
  /\ phase = "microtasks"
  /\ s \in microtasks
  /\ IF s \in guarded
     THEN /\ testsFlag
          /\ IF hasFlag
             THEN /\ microtasks' = microtasks \ {s}
                  /\ UNCHANGED <<requested, rejected>>
             ELSE reject(s, microtasks \ {s})
     ELSE reject(s, microtasks \ {s}) /\ UNCHANGED <<flag, unshielded>>
  /\ UNCHANGED <<created, parent, cancellable, guarded, phase, replaying, timeoutVars, explicit>>

\* scope.cancel(): by workflow code, or by the cancelWorkflow job for the root scope.
CancelBy(s) ==
  /\ reject(s, microtasks)
  /\ explicit' = explicit \cup {s}

cancel(s) ==
  /\ s \in created
  /\ CancelBy(s)
  /\ UNCHANGED <<created, parent, cancellable, guarded, phase, replaying, flag, unshielded,
                 timeoutVars>>

(***************************************************************************)
(* withTimeout: runInContext                                               *)
(***************************************************************************)

\* run() of a scope s created with a timeout: t is the timer scope, with its timer
\* started unless t is cancelled already (sleep in a cancelled scope starts nothing).
runWithTimeout(s, t) ==
  /\ s \in created /\ body[s] = "none" /\ s # Root
  /\ construct(t, s, TRUE)
  /\ timerOf' = [timerOf EXCEPT ![t] = s]
  /\ timer' = [timer EXCEPT ![t] = IF t \in requested' THEN "cancelled" ELSE "running"]
  /\ body' = [body EXCEPT ![s] = "running"]

\* The fireTimer job resolves the promise of the timer, whose callback has not run yet.
fireTimer(t) ==
  /\ phase = "jobs"
  /\ timer[t] = "running"
  /\ timer' = [timer EXCEPT ![t] = "due"]
  /\ UNCHANGED <<created, parent, cancellable, requested, rejected, guarded, microtasks, phase,
                 replaying, flag, timerOf, body, explicit, unshielded>>

\* The continuation of sleep cancels the scope.
timeoutExpires(t) ==
  /\ phase = "microtasks"
  /\ timer[t] = "due"
  /\ timer' = [timer EXCEPT ![t] = "fired"]
  /\ CancelBy(timerOf[t])
  /\ UNCHANGED <<created, parent, cancellable, guarded, phase, replaying, flag, unshielded,
                 timerOf, body>>

\* The cancelRequested callback of the timer (timerNextHandler).
timeoutCancelled(t) ==
  /\ phase = "microtasks"
  /\ timer[t] = "running"
  /\ t \in rejected
  /\ timer' = [timer EXCEPT ![t] = "cancelled"]
  /\ UNCHANGED <<created, parent, cancellable, requested, rejected, guarded, microtasks,
                 phase, replaying, flag, timerOf, body, explicit, unshielded>>

\* Mutant: no finally block.
bodyEndsWithoutFinally(s, t) ==
  /\ phase = "microtasks"
  /\ body[s] = "running" /\ timerOf[t] = s /\ timer[t] # "none"
  /\ body' = [body EXCEPT ![s] = "done"]
  /\ UNCHANGED <<created, parent, cancellable, requested, rejected, guarded, microtasks, phase,
                 replaying, flag, timerOf, timer, explicit, unshielded>>

\* The finally block: with the flag on, a timer scope not cancelled yet is cancelled.
bodyEnds(s, t) ==
  /\ phase = "microtasks"
  /\ body[s] = "running" /\ timerOf[t] = s /\ timer[t] # "none"
  /\ body' = [body EXCEPT ![s] = "done"]
  /\ IF consideredCancelled(t)
     THEN UNCHANGED <<requested, rejected, microtasks, explicit, flag, unshielded>>
     ELSE /\ testsFlag
          /\ IF hasFlag THEN CancelBy(t)
                        ELSE UNCHANGED <<requested, rejected, microtasks, explicit>>
  /\ UNCHANGED <<created, parent, cancellable, guarded, phase, replaying, timerOf, timer>>

(***************************************************************************)
(* The activation loop: jobs are handled without running microtasks, then  *)
(* microtasks run until there are none.                                    *)
(***************************************************************************)
Quiet == /\ microtasks = {}
         /\ \A t \in created : timer[t] # "due" /\ ~(timer[t] = "running" /\ t \in rejected)

jobsReturn ==
  /\ phase = "jobs"
  /\ phase' = "microtasks"
  /\ UNCHANGED <<created, parent, cancellable, requested, rejected, guarded, microtasks,
                 replaying, flag, timeoutVars, explicit, unshielded>>

\* The next activation, which may be the first one past the end of the history.
nextActivation ==
  /\ phase = "microtasks" /\ Quiet
  /\ phase' = "jobs"
  /\ replaying' \in {replaying, FALSE}
  /\ UNCHANGED <<created, parent, cancellable, requested, rejected, guarded, microtasks, flag,
                 timeoutVars, explicit, unshielded>>

Init ==
  /\ created = {Root}
  /\ parent = [s \in Scopes |-> NoParent]
  /\ cancellable = [s \in Scopes |-> TRUE]
  /\ requested = {} /\ rejected = {} /\ guarded = {} /\ microtasks = {}
  /\ phase = "jobs"
  /\ replaying = Replaying /\ flag = FALSE
  /\ timerOf = [s \in Scopes |-> NoParent]
  /\ timer = [s \in Scopes |-> "none"]
  /\ body = [s \in Scopes |-> "none"]
  /\ explicit = {} /\ unshielded = FALSE

WorkflowCode ==
  \/ \E s \in Scopes, p \in created, c \in BOOLEAN : newScope(s, p, c)
  \/ \E s \in created : cancel(s)
  \/ \E s, t \in Scopes : runWithTimeout(s, t) \/ bodyEnds(s, t)

EventLoop ==
  \/ \E s \in created : propagate(s) \/ timeoutCancelled(s) \/ timeoutExpires(s)
  \/ jobsReturn \/ nextActivation

Next == WorkflowCode \/ EventLoop \/ \E t \in created : fireTimer(t)

Spec == Init /\ [][Next]_vars

\* The VM drains its microtask queue and returns to the activation loop.
Fairness ==
  /\ WF_vars(jobsReturn)
  /\ \A s \in Scopes : WF_vars(propagate(s)) /\ WF_vars(timeoutCancelled(s))

FairSpec == Spec /\ Fairness

(***************************************************************************)
(* Properties                                                              *)
(***************************************************************************)

\* Shielding: with the flag on, a scope receives a request only by its own cancel() or
\* from a parent that is itself considered cancelled; so a non-cancellable scope stops
\* every request made above it or on it.
Shielded ==
  ~unshielded =>
    \A s \in requested : s \in explicit \/ (s # Root /\ consideredCancelled(parent[s]))

\* Why shielding holds, whatever the order of microtasks: a callback is queued only when
\* the parent's promise is rejected, and one that does not test the flag again belongs to
\* a cancellable parent unless the flag was found off.
QueuedByParent == \A s \in microtasks : s # Root /\ parent[s] \in rejected

UnguardedFollow ==
  ~unshielded => \A s \in created \ ({Root} \cup guarded) : cancellable[parent[s]]

ShieldedInv == TypeOK /\ QueuedByParent /\ UnguardedFollow /\ Shielded

\* When the microtask queue is empty every request has been delivered: flags and promises
\* agree, and the children of a cancelled scope are all rejected, those created after
\* the cancellation included.
RequestsDelivered ==
  Quiet =>
    /\ requested = rejected
    /\ \A s \in created : consideredCancelled(s) => Children(s) \subseteq rejected

\* withTimeout leaves no timer behind: once the body has ended and the callbacks have run,
\* its timer is fired or cancelled (with the flag on).
NoTimerLeftBehind ==
  Quiet /\ ~unshielded => \A t \in created : timer[t] = "running" => body[timerOf[t]] = "running"

\* A cancellation reaches the children of the scope, whatever is created, cancelled or
\* timed out meanwhile.
CancellationPropagates ==
  \A c \in Scopes \ {Root} :
    (c \in created /\ consideredCancelled(parent[c])) ~> (c \in rejected)
=============================================================================
