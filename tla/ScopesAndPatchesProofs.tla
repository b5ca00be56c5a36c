----------------------- MODULE ScopesAndPatchesProofs ------------------------
(***************************************************************************)
(* Proofs about two small components whose answers a replay must repeat.   *)
(*                                                                         *)
(* CancellationScope: shielding of non-cancellable scopes, delivery of     *)
(* requests and clean-up of timers, for every set of scopes.  ShieldedInv  *)
(* is the inductive invariant of the first, DeliveryInv and TimersInv      *)
(* those of the others; each action is shown to keep them on its own.      *)
(*                                                                         *)
(* Patches: for any number of tasks and calls, replay gives                *)
(* every call of patched() its recorded answer, a patch sticks once its    *)
(* marker is recorded, and the workflow's thread reads only results that   *)
(* were written.  PatchInv is the inductive invariant.  What makes it hold *)
(* is how the three sets of the Activator relate to history: a marker up   *)
(* to the tasks applied means that the decision is yes, a yes means such a *)
(* marker or one about to be recorded, a refusal means that there is no    *)
(* marker at all, and the patch is known only from a marker.  Every        *)
(* recorded answer then equals the presence of a marker up to its task,    *)
(* which a replay reproduces.                                              *)
(***************************************************************************)
EXTENDS CancellationScope, Patches, TLAPS

\* The root scope satisfies the invariant before anything is created.
LEMMA InitShielded == Init => ShieldedInv
  BY RootAssumption, ReplayingAssumption, Zenon
     DEF Init, ShieldedInv, TypeOK, QueuedByParent, UnguardedFollow, Shielded, NoParent

\* The constructor keeps the invariant: a scope that copies the flag of its parent has a
\* parent that is considered cancelled, or the flag was found off.
LEMMA ConstructShielded ==
  ASSUME ShieldedInv, NEW s \in Scopes, NEW p \in created, NEW c \in BOOLEAN,
         construct(s, p, c), timerOf' \in [Scopes -> created'],
         timer' \in [Scopes -> {"none", "running", "due", "fired", "cancelled"}],
         \A t \in Scopes \ created' : timer'[t] = "none",
         body' \in [Scopes -> {"none", "running", "done"}]
  PROVE  ShieldedInv'
  <1> USE RootAssumption DEF ShieldedInv, construct, Follows, testsFlag, hasFlag
  <1>1. TypeOK'
    <2>1. created' \in SUBSET Scopes /\ Root \in created' BY DEF TypeOK
    <2>2. parent' \in [Scopes -> created'] BY DEF TypeOK
    <2>3. cancellable' \in [Scopes -> BOOLEAN] BY DEF TypeOK
    <2>4. requested' \in SUBSET created' /\ rejected' \in SUBSET requested' BY DEF TypeOK
    <2>5. guarded' \in SUBSET created' /\ microtasks' \in SUBSET created' BY DEF TypeOK
    <2>6. phase' \in {"jobs", "microtasks"} /\ replaying' \in BOOLEAN BY DEF TypeOK
    <2>7. flag' \in BOOLEAN BY Zenon DEF TypeOK
    <2>8. unshielded' \in BOOLEAN BY DEF TypeOK
    <2>9. explicit' \in SUBSET created' BY DEF TypeOK
    <2> QED BY <2>1, <2>2, <2>3, <2>4, <2>5, <2>6, <2>7, <2>8, <2>9 DEF TypeOK
  <1>2. QueuedByParent' BY DEF TypeOK, QueuedByParent
  <1>3. UnguardedFollow' BY DEF TypeOK, UnguardedFollow
  <1>4. Shielded' BY DEF TypeOK, Shielded, consideredCancelled
  <1> QED BY <1>1, <1>2, <1>3, <1>4

\* reject(s) keeps the invariant when s was cancelled explicitly, or its parent is
\* considered cancelled, or the flag was found off.
LEMMA RejectShielded ==
  ASSUME ShieldedInv, NEW s \in created, NEW queue \in SUBSET microtasks, reject(s, queue),
         \/ s \in explicit'
         \/ s # Root /\ consideredCancelled(parent[s])
         \/ unshielded',
         unshielded => unshielded', unshielded' \in BOOLEAN, flag' \in BOOLEAN,
         explicit \in SUBSET explicit', explicit' \in SUBSET created,
         timer' \in [Scopes -> {"none", "running", "due", "fired", "cancelled"}],
         \A t \in Scopes \ created : timer'[t] = "none",
         body' \in [Scopes -> {"none", "running", "done"}],
         UNCHANGED <<created, parent, cancellable, guarded, phase, replaying, timerOf>>
  PROVE  ShieldedInv'
  <1> USE DEF ShieldedInv, reject, Children
  <1>1. TypeOK' BY DEF TypeOK
  <1>2. QueuedByParent' BY DEF TypeOK, QueuedByParent
  <1>3. UnguardedFollow' BY DEF TypeOK, UnguardedFollow
  <1>4. Shielded' BY DEF TypeOK, Shielded, consideredCancelled
  <1> QED BY <1>1, <1>2, <1>3, <1>4

\* Every step of workflow code and of the event loop keeps the invariant.
LEMMA NextShielded == ShieldedInv /\ [Next]_vars => ShieldedInv'
  <1> SUFFICES ASSUME ShieldedInv, [Next]_vars PROVE ShieldedInv' OBVIOUS
  <1>T. TypeOK BY DEF ShieldedInv
  <1>1. ASSUME NEW s \in Scopes, NEW p \in created, NEW c \in BOOLEAN, newScope(s, p, c)
        PROVE  ShieldedInv'
    <2>1. construct(s, p, c) /\ UNCHANGED timeoutVars BY <1>1 DEF newScope
    <2>2. created \in SUBSET created' BY <2>1 DEF construct
    <2>3. timerOf' \in [Scopes -> created'] BY <2>1, <2>2, <1>T DEF timeoutVars, TypeOK
    <2>4. /\ timer' \in [Scopes -> {"none", "running", "due", "fired", "cancelled"}]
          /\ \A t \in Scopes \ created' : timer'[t] = "none"
          /\ body' \in [Scopes -> {"none", "running", "done"}]
      BY <2>1, <2>2, <1>T DEF timeoutVars, TypeOK
    <2> QED BY <2>1, <2>3, <2>4, ConstructShielded
  <1>2. ASSUME NEW s \in created, cancel(s) PROVE ShieldedInv'
    BY <1>2, <1>T, RejectShielded DEF cancel, CancelBy, TypeOK, timeoutVars
  <1>3. ASSUME NEW s \in Scopes, NEW t \in Scopes, runWithTimeout(s, t) PROVE ShieldedInv'
    <2>1. s \in created /\ t \notin created /\ created' = created \cup {t}
      BY <1>3 DEF runWithTimeout, construct
    <2>2. construct(t, s, TRUE) BY <1>3, Zenon DEF runWithTimeout
    <2>3. timerOf' \in [Scopes -> created'] BY <1>3, <2>1, <1>T DEF runWithTimeout, TypeOK
    <2>4. /\ timer' \in [Scopes -> {"none", "running", "due", "fired", "cancelled"}]
          /\ \A u \in Scopes \ created' : timer'[u] = "none"
          /\ body' \in [Scopes -> {"none", "running", "done"}]
      BY <1>3, <2>1, <1>T DEF runWithTimeout, TypeOK
    <2> QED BY <2>1, <2>2, <2>3, <2>4, ConstructShielded, Zenon
  <1>4. ASSUME NEW s \in Scopes, NEW t \in Scopes, bodyEnds(s, t) PROVE ShieldedInv'
    <2>0. t \in created BY <1>4, <1>T DEF bodyEnds, TypeOK
    <2>1. CASE consideredCancelled(t) \/ ~hasFlag
      <3>1. UNCHANGED <<created, parent, cancellable, guarded, requested, rejected, microtasks,
                        phase, replaying, timerOf, timer, explicit>>
        BY <1>4, <2>1 DEF bodyEnds
      <3>2. flag' \in BOOLEAN /\ unshielded' \in BOOLEAN /\ (unshielded => unshielded')
        BY <1>4, <1>T, Zenon DEF bodyEnds, testsFlag, hasFlag, TypeOK
      <3>3. body' \in [Scopes -> {"none", "running", "done"}] BY <1>4, <1>T DEF bodyEnds, TypeOK
      <3> QED BY <3>1, <3>2, <3>3
              DEF ShieldedInv, TypeOK, QueuedByParent, UnguardedFollow, Shielded,
                  consideredCancelled
    <2>2. CASE ~consideredCancelled(t) /\ hasFlag
      <3>1. CancelBy(t) /\ testsFlag BY <1>4, <2>2 DEF bodyEnds
      <3>2. unshielded' = unshielded /\ flag' \in BOOLEAN
        BY <3>1, <2>2, <1>T DEF testsFlag, hasFlag, TypeOK
      <3>3. body' \in [Scopes -> {"none", "running", "done"}] BY <1>4, <1>T DEF bodyEnds, TypeOK
      <3> QED BY <3>1, <3>2, <3>3, <2>0, <1>4, <1>T, RejectShielded
              DEF CancelBy, bodyEnds, TypeOK
    <2> QED BY <2>1, <2>2
  <1>5. ASSUME NEW s \in created, propagate(s) PROVE ShieldedInv'
    <2>1. CASE s \in guarded /\ hasFlag
      <3>1. UNCHANGED <<created, parent, cancellable, guarded, requested, rejected, phase,
                        replaying, timeoutVars, explicit>> /\ microtasks' = microtasks \ {s}
        BY <1>5, <2>1 DEF propagate
      <3>2. flag' \in BOOLEAN /\ unshielded' = unshielded
        BY <1>5, <2>1, <1>T DEF propagate, testsFlag, hasFlag, TypeOK
      <3> QED BY <3>1, <3>2
              DEF ShieldedInv, TypeOK, QueuedByParent, UnguardedFollow, Shielded,
                  consideredCancelled, timeoutVars
    <2>2. CASE ~(s \in guarded /\ hasFlag)
      <3>1. reject(s, microtasks \ {s}) BY <1>5, <2>2 DEF propagate
      <3>2. /\ flag' \in BOOLEAN /\ unshielded' \in BOOLEAN
            /\ unshielded => unshielded'
            /\ s \in guarded => unshielded'
        BY <1>5, <2>2, <1>T DEF propagate, testsFlag, hasFlag, TypeOK
      <3>3. s # Root /\ parent[s] \in rejected
        BY <1>5 DEF propagate, ShieldedInv, QueuedByParent
      <3>4. s \notin guarded => unshielded' \/ consideredCancelled(parent[s])
        BY <3>2, <3>3, <1>T DEF ShieldedInv, UnguardedFollow, consideredCancelled, TypeOK
      <3> QED BY <3>1, <3>2, <3>3, <3>4, <1>5, <1>T, RejectShielded
              DEF propagate, TypeOK, timeoutVars
    <2> QED BY <2>1, <2>2
  <1>6. ASSUME NEW t \in created, timeoutExpires(t) PROVE ShieldedInv'
    <2>1. timerOf[t] \in created BY <1>T DEF TypeOK
    <2>2. /\ timer' \in [Scopes -> {"none", "running", "due", "fired", "cancelled"}]
          /\ \A u \in Scopes \ created : timer'[u] = "none"
      BY <1>6, <1>T DEF timeoutExpires, TypeOK
    <2> QED BY <1>6, <2>1, <2>2, <1>T, RejectShielded DEF timeoutExpires, CancelBy, TypeOK
  <1>7. ASSUME NEW t \in created, timeoutCancelled(t) \/ fireTimer(t) PROVE ShieldedInv'
    BY <1>7 DEF timeoutCancelled, fireTimer, ShieldedInv, TypeOK, QueuedByParent,
                UnguardedFollow, Shielded, consideredCancelled
  <1>8. CASE jobsReturn \/ nextActivation \/ UNCHANGED vars
    BY <1>8, Zenon DEF jobsReturn, nextActivation, vars, timeoutVars, ShieldedInv, TypeOK,
                QueuedByParent, UnguardedFollow, Shielded, consideredCancelled
  <1> QED BY <1>1, <1>2, <1>3, <1>4, <1>5, <1>6, <1>7, <1>8
          DEF Next, WorkflowCode, EventLoop

\* In every execution, with any number of scopes, requests are shielded: a scope receives
\* a cancellation request only by its own cancel() or from a parent considered cancelled,
\* as long as the shielding flag was never found off (CancellationScope's constructor and
\* its cancelRequested callbacks).
THEOREM ShieldingHolds == Spec => []Shielded
  <1>1. ShieldedInv => Shielded BY DEF ShieldedInv
  <1> QED BY InitShielded, NextShielded, <1>1, PTL DEF Spec

\* The state of the scopes keeps its type; in particular parents, timers and queued
\* callbacks only ever refer to scopes that exist.
THEOREM ScopesTypeCorrect == Spec => []TypeOK
  <1>1. ShieldedInv => TypeOK BY DEF ShieldedInv
  <1> QED BY InitShielded, NextShielded, <1>1, PTL DEF Spec

-----------------------------------------------------------------------------
(***************************************************************************)
(* Delivery.  A flag may be ahead of its promise only in a scope that      *)
(* copied the flag of its parent.  When no callback is queued such a scope *)
(* has a parent of the same kind; the tree is rooted and the root copies   *)
(* nothing, so there is none.                                              *)
(***************************************************************************)

\* Parents lead to the root: a set of scopes that contains the parents of its members,
\* and is not empty, contains the root.
Rooted ==
  \A U \in SUBSET created :
    U # {} /\ (\A s \in U \ {Root} : parent[s] \in U) => Root \in U

\* A callback that tests the flag again belongs to a parent that is not cancellable.
GuardedParent == \A s \in guarded : s # Root /\ ~cancellable[parent[s]]

\* The callback of an unguarded child of a rejected scope has run or is queued.
Notified ==
  \A s \in created \ ({Root} \cup guarded) :
    parent[s] \in rejected => s \in rejected \cup microtasks

\* A flag ahead of its promise was copied from the parent.
Copied ==
  \A s \in requested \ rejected : s # Root /\ s \notin guarded /\ parent[s] \in requested

DeliveryInv == Rooted /\ GuardedParent /\ Notified /\ Copied

\* A timer has a body, and a body one timer; a timer still running when its body is done
\* belongs to a scope with a request, as long as the flag was never found off.
TimersInv ==
  /\ \A t \in Scopes : timer[t] # "none" => body[timerOf[t]] # "none"
  /\ \A t, u \in Scopes :
       timer[t] # "none" /\ timer[u] # "none" /\ timerOf[t] = timerOf[u] => t = u
  /\ ~unshielded =>
       \A t \in Scopes : timer[t] = "running" => body[timerOf[t]] = "running" \/ t \in requested

\* Before anything is created there is only the root, without a request.
LEMMA InitDelivery == Init => DeliveryInv /\ TimersInv
  BY RootAssumption
     DEF Init, DeliveryInv, Rooted, GuardedParent, Notified, Copied, TimersInv, NoParent

\* The constructor hangs the new scope below an existing one: parents still lead to the
\* root.
LEMMA ConstructRooted ==
  ASSUME TypeOK, Rooted, NEW s \in Scopes, NEW p \in created, NEW c \in BOOLEAN,
         construct(s, p, c)
  PROVE  Rooted'
  <1>0. /\ s \notin created /\ s # Root /\ s # p /\ created' = created \cup {s}
        /\ parent'[s] = p /\ \A x \in created : parent'[x] = parent[x] /\ parent[x] \in created
    BY DEF construct, TypeOK
  <1> SUFFICES ASSUME NEW U \in SUBSET created', U # {},
                      \A x \in U \ {Root} : parent'[x] \in U
               PROVE  Root \in U
    BY DEF Rooted
  <1> DEFINE V == U \ {s}
  <1>1. V \in SUBSET created BY <1>0
  <1>2. \A x \in V \ {Root} : parent[x] \in V BY <1>0, <1>1
  <1>3. V # {} BY <1>0
  <1>4. Root \in V BY <1>1, <1>2, <1>3, Zenon DEF Rooted
  <1> QED BY <1>4

\* The constructor: a scope that follows its parent copies the flag of its parent, and is
\* queued at once when the promise is rejected already; a guarded one has a parent that is
\* not cancellable.
LEMMA ConstructDelivery ==
  ASSUME ShieldedInv, DeliveryInv, NEW s \in Scopes, NEW p \in created, NEW c \in BOOLEAN,
         construct(s, p, c)
  PROVE  DeliveryInv'
  <1>T. TypeOK BY DEF ShieldedInv
  <1>0. /\ s \notin created /\ s # Root /\ s # p /\ created' = created \cup {s}
        /\ parent'[s] = p /\ \A x \in created : parent'[x] = parent[x] /\ parent[x] \in created
        /\ \A x \in created : cancellable'[x] = cancellable[x]
    BY <1>T DEF construct, TypeOK
  <1>1. Rooted' BY <1>T, ConstructRooted DEF DeliveryInv
  <1>2. GuardedParent'
    <2>1. guarded' = IF Follows(p) THEN guarded ELSE guarded \cup {s} BY DEF construct
    <2>2. ~Follows(p) => ~cancellable[p] BY DEF Follows
    <2> QED BY <2>1, <2>2, <1>0, <1>T DEF DeliveryInv, GuardedParent, TypeOK
  <1>3. Notified'
    <2>1. /\ rejected' = rejected /\ guarded \subseteq guarded'
          /\ microtasks' = IF p \in rejected THEN microtasks \cup {s} ELSE microtasks
      BY DEF construct
    <2> QED BY <2>1, <1>0, <1>T DEF DeliveryInv, Notified, TypeOK
  <1>4. Copied'
    <2>1. /\ rejected' = rejected
          /\ requested' = IF Follows(p) /\ p \in requested THEN requested \cup {s} ELSE requested
          /\ guarded' = IF Follows(p) THEN guarded ELSE guarded \cup {s}
      BY DEF construct
    <2> QED BY <2>1, <1>0, <1>T DEF DeliveryInv, Copied, TypeOK
  <1> QED BY <1>1, <1>2, <1>3, <1>4 DEF DeliveryInv

\* reject(s) queues the children of s when its promise is newly rejected; the callback of
\* s itself may leave the queue.
LEMMA RejectDelivery ==
  ASSUME ShieldedInv, DeliveryInv, NEW s \in created, NEW queue \in SUBSET microtasks,
         microtasks \ {s} \subseteq queue, reject(s, queue),
         UNCHANGED <<created, parent, cancellable, guarded>>
  PROVE  DeliveryInv'
  <1>T. TypeOK BY DEF ShieldedInv
  <1>1. Rooted' BY DEF DeliveryInv, Rooted
  <1>2. GuardedParent' BY DEF DeliveryInv, GuardedParent
  <1>3. Notified' BY <1>T DEF DeliveryInv, Notified, reject, Children, TypeOK
  <1>4. Copied' BY <1>T DEF DeliveryInv, Copied, reject, TypeOK
  <1> QED BY <1>1, <1>2, <1>3, <1>4 DEF DeliveryInv

\* Every step keeps the delivery invariant.
LEMMA NextDelivery == ShieldedInv /\ DeliveryInv /\ [Next]_vars => DeliveryInv'
  <1> SUFFICES ASSUME ShieldedInv, DeliveryInv, [Next]_vars PROVE DeliveryInv' OBVIOUS
  <1>T. TypeOK BY DEF ShieldedInv
  <1> DEFINE Same == UNCHANGED <<created, parent, cancellable, requested, rejected, guarded,
                                 microtasks>>
  <1>0. ASSUME Same PROVE DeliveryInv'
    BY <1>0 DEF DeliveryInv, Rooted, GuardedParent, Notified, Copied
  <1> HIDE DEF Same
  <1>1. ASSUME NEW s \in Scopes, NEW p \in created, NEW c \in BOOLEAN, newScope(s, p, c)
        PROVE  DeliveryInv'
    BY <1>1, ConstructDelivery DEF newScope
  <1>2. ASSUME NEW s \in created, cancel(s) PROVE DeliveryInv'
    BY <1>2, RejectDelivery DEF cancel, CancelBy
  <1>3. ASSUME NEW s \in Scopes, NEW t \in Scopes, runWithTimeout(s, t) PROVE DeliveryInv'
    BY <1>3, ConstructDelivery, Zenon DEF runWithTimeout
  <1>4. ASSUME NEW s \in Scopes, NEW t \in Scopes, bodyEnds(s, t) PROVE DeliveryInv'
    <2>0. t \in created BY <1>4, <1>T DEF bodyEnds, TypeOK
    <2>1. CASE consideredCancelled(t) \/ ~hasFlag
      <3>1. Same BY <1>4, <2>1 DEF bodyEnds, Same
      <3> QED BY <3>1, <1>0
    <2>2. CASE ~consideredCancelled(t) /\ hasFlag
      BY <1>4, <2>0, <2>2, RejectDelivery DEF bodyEnds, CancelBy
    <2> QED BY <2>1, <2>2
  <1>5. ASSUME NEW s \in created, propagate(s) PROVE DeliveryInv'
    <2>1. CASE s \in guarded /\ hasFlag
      <3>1. /\ UNCHANGED <<created, parent, cancellable, guarded, requested, rejected>>
            /\ microtasks' = microtasks \ {s}
        BY <1>5, <2>1 DEF propagate
      <3> QED BY <3>1, <2>1 DEF DeliveryInv, Rooted, GuardedParent, Notified, Copied
    <2>2. CASE ~(s \in guarded /\ hasFlag)
      <3>1. reject(s, microtasks \ {s}) BY <1>5, <2>2 DEF propagate
      <3>2. UNCHANGED <<created, parent, cancellable, guarded>> BY <1>5 DEF propagate
      <3> QED BY <3>1, <3>2, RejectDelivery
    <2> QED BY <2>1, <2>2
  <1>6. ASSUME NEW t \in created, timeoutExpires(t) PROVE DeliveryInv'
    <2>1. timerOf[t] \in created BY <1>T DEF TypeOK
    <2> QED BY <1>6, <2>1, RejectDelivery DEF timeoutExpires, CancelBy
  <1>7. ASSUME NEW t \in created, timeoutCancelled(t) \/ fireTimer(t) PROVE DeliveryInv'
    BY <1>7, <1>0 DEF timeoutCancelled, fireTimer, Same
  <1>8. CASE jobsReturn \/ nextActivation \/ UNCHANGED vars
    BY <1>8, <1>0, Zenon DEF jobsReturn, nextActivation, vars, Same
  <1> QED BY <1>1, <1>2, <1>3, <1>4, <1>5, <1>6, <1>7, <1>8
          DEF Next, WorkflowCode, EventLoop

\* With no callback queued, flags and promises agree and the children of a cancelled scope
\* are rejected.
LEMMA DeliveredWhenQuiet == ShieldedInv /\ DeliveryInv => RequestsDelivered
  <1> SUFFICES ASSUME ShieldedInv, DeliveryInv, microtasks = {}
               PROVE  /\ requested = rejected
                      /\ \A s \in created : consideredCancelled(s) => Children(s) \subseteq rejected
    BY DEF RequestsDelivered, Quiet
  <1>T. TypeOK BY DEF ShieldedInv
  <1> DEFINE U == requested \ rejected
  <1>1. U \in SUBSET created /\ Root \notin U BY <1>T DEF TypeOK, DeliveryInv, Copied
  <1>2. \A s \in U \ {Root} : parent[s] \in U
    BY <1>1, <1>T DEF TypeOK, DeliveryInv, Copied, Notified
  <1>3. U = {} BY <1>1, <1>2, Zenon DEF DeliveryInv, Rooted
  <1>4. requested = rejected BY <1>3, <1>T, Zenon DEF TypeOK
  <1>5. ASSUME NEW s \in created, consideredCancelled(s), NEW x \in Children(s)
        PROVE  x \in rejected
    <2>1. x \in created \ {Root} /\ parent[x] = s /\ s \in rejected /\ cancellable[s]
      BY <1>4, <1>5 DEF Children, consideredCancelled
    <2>2. x \notin guarded BY <2>1 DEF DeliveryInv, GuardedParent
    <2> QED BY <2>1, <2>2 DEF DeliveryInv, Notified
  <1> QED BY <1>4, <1>5

\* A step that leaves the timers, the bodies and their links alone, withdraws no request
\* and forgets no flag found off keeps the timers' invariant.
LEMMA TimersKept ==
  ASSUME TimersInv, UNCHANGED timeoutVars, requested \subseteq requested',
         unshielded => unshielded'
  PROVE  TimersInv'
  BY DEF TimersInv, timeoutVars

\* Every step keeps the timers' invariant: the finally block of runInContext cancels the
\* timer scope of a body that ends, unless it is cancelled already or the flag is off.
LEMMA NextTimers == ShieldedInv /\ TimersInv /\ [Next]_vars => TimersInv'
  <1> SUFFICES ASSUME ShieldedInv, TimersInv, [Next]_vars PROVE TimersInv' OBVIOUS
  <1>T. TypeOK BY DEF ShieldedInv
  <1>1. ASSUME NEW s \in Scopes, NEW p \in created, NEW c \in BOOLEAN, newScope(s, p, c)
        PROVE  TimersInv'
    <2>1. requested \subseteq requested' /\ (unshielded => unshielded') /\ UNCHANGED timeoutVars
      BY <1>1, Zenon DEF newScope, construct, testsFlag
    <2> QED BY <2>1, TimersKept
  <1>2. ASSUME NEW s \in created, cancel(s) PROVE TimersInv'
    <2>1. requested \subseteq requested' /\ (unshielded => unshielded') /\ UNCHANGED timeoutVars
      BY <1>2 DEF cancel, CancelBy, reject
    <2> QED BY <2>1, TimersKept
  <1>3. ASSUME NEW s \in Scopes, NEW t \in Scopes, runWithTimeout(s, t) PROVE TimersInv'
    <2>1. /\ s \in created /\ t \notin created /\ s # t /\ timer[t] = "none" /\ body[s] = "none"
          /\ requested \subseteq requested' /\ (unshielded => unshielded')
      BY <1>3, <1>T DEF runWithTimeout, construct, testsFlag, TypeOK
    <2>2. /\ timerOf'[t] = s /\ body'[s] = "running" /\ timer'[t] \in {"cancelled", "running"}
          /\ \A u \in Scopes \ {t} : timerOf'[u] = timerOf[u] /\ timer'[u] = timer[u]
          /\ \A u \in Scopes \ {s} : body'[u] = body[u]
      BY <1>3, <1>T DEF runWithTimeout, TypeOK
    <2>3. \A u \in Scopes : timer[u] # "none" => timerOf[u] # s /\ timerOf[u] \in Scopes
      BY <2>1, <1>T DEF TimersInv, TypeOK
    <2>4. \A u \in Scopes : timer'[u] # "none" => body'[timerOf'[u]] # "none"
      BY <2>1, <2>2, <2>3 DEF TimersInv
    <2>5. \A u, v \in Scopes :
            timer'[u] # "none" /\ timer'[v] # "none" /\ timerOf'[u] = timerOf'[v] => u = v
      BY <2>1, <2>2, <2>3 DEF TimersInv
    <2>6. ~unshielded' =>
            \A u \in Scopes :
              timer'[u] = "running" => body'[timerOf'[u]] = "running" \/ u \in requested'
      BY <2>1, <2>2, <2>3 DEF TimersInv
    <2> QED BY <2>4, <2>5, <2>6 DEF TimersInv
  <1>4. ASSUME NEW s \in Scopes, NEW t \in Scopes, bodyEnds(s, t) PROVE TimersInv'
    <2>1. /\ timerOf[t] = s /\ timer[t] # "none" /\ UNCHANGED <<timerOf, timer>>
          /\ body'[s] = "done" /\ \A u \in Scopes \ {s} : body'[u] = body[u]
      BY <1>4, <1>T DEF bodyEnds, TypeOK
    <2>2. requested \subseteq requested' /\ (unshielded => unshielded')
      BY <1>4, Zenon DEF bodyEnds, testsFlag, CancelBy, reject
    <2>3. ~unshielded' => t \in requested'
      BY <1>4, Zenon DEF bodyEnds, testsFlag, CancelBy, reject, consideredCancelled
    <2>4. \A u \in Scopes : timer[u] # "none" /\ u # t => timerOf[u] # s
      BY <2>1 DEF TimersInv
    <2>5. \A u \in Scopes : timerOf[u] \in Scopes BY <1>T DEF TypeOK
    <2> QED BY <2>1, <2>2, <2>3, <2>4, <2>5 DEF TimersInv
  <1>5. ASSUME NEW s \in created, propagate(s) PROVE TimersInv'
    <2>1. requested \subseteq requested' /\ (unshielded => unshielded') /\ UNCHANGED timeoutVars
      BY <1>5, Zenon DEF propagate, reject, testsFlag
    <2> QED BY <2>1, TimersKept
  <1>6. ASSUME NEW t \in created, timeoutExpires(t) \/ timeoutCancelled(t) \/ fireTimer(t)
        PROVE  TimersInv'
    <2>1. requested \subseteq requested' /\ UNCHANGED <<timerOf, body, unshielded>>
      BY <1>6 DEF timeoutExpires, timeoutCancelled, fireTimer, CancelBy, reject
    <2>2. /\ t \in Scopes /\ timer[t] # "none" /\ timer'[t] # "running" /\ timer'[t] # "none"
          /\ \A u \in Scopes \ {t} : timer'[u] = timer[u]
      BY <1>6, <1>T DEF timeoutExpires, timeoutCancelled, fireTimer, TypeOK
    <2> QED BY <2>1, <2>2 DEF TimersInv
  <1>7. CASE jobsReturn \/ nextActivation \/ UNCHANGED vars
    <2>1. UNCHANGED <<requested, unshielded, timeoutVars>>
      BY <1>7, Zenon DEF jobsReturn, nextActivation, vars, timeoutVars
    <2> QED BY <2>1, TimersKept
  <1> QED BY <1>1, <1>2, <1>3, <1>4, <1>5, <1>6, <1>7 DEF Next, WorkflowCode, EventLoop

\* The three invariants hold together in every execution.
LEMMA ScopesInvariant == Spec => [](ShieldedInv /\ DeliveryInv /\ TimersInv)
  BY InitShielded, NextShielded, InitDelivery, NextDelivery, NextTimers, PTL DEF Spec

\* In every execution, with any number of scopes, requests are delivered: when the
\* microtask queue is empty the #cancelRequested flags and the cancelRequested promises
\* agree, and the children of a cancelled scope are all rejected.
THEOREM RequestsAreDelivered == Spec => []RequestsDelivered
  BY ScopesInvariant, DeliveredWhenQuiet, PTL

\* In every execution withTimeout leaves no timer behind: with the flag on, a timer still
\* running when no callback is left belongs to a body that is still running (runInContext
\* and its finally block).
THEOREM TimersAreCleanedUp == Spec => []NoTimerLeftBehind
  <1>1. ASSUME ShieldedInv, RequestsDelivered, TimersInv PROVE NoTimerLeftBehind
    <2> SUFFICES ASSUME Quiet, ~unshielded, NEW t \in created, timer[t] = "running"
                 PROVE  body[timerOf[t]] = "running"
      BY DEF NoTimerLeftBehind
    <2>1. t \in Scopes BY <1>1 DEF ShieldedInv, TypeOK
    <2>2. t \notin requested BY <1>1 DEF RequestsDelivered, Quiet
    <2> QED BY <1>1, <2>1, <2>2 DEF TimersInv
  <1> QED BY ScopesInvariant, RequestsAreDelivered, <1>1, PTL

-----------------------------------------------------------------------------
(* Patches                                                                 *)

(* The types; whether the worker has a callback matters to no proof.               *)
PatchTypes ==
  /\ history \in Seq([answers : Seq(BOOLEAN), marker : BOOLEAN])
  /\ applied \in 0..Len(history)
  /\ task \in {"none", "replay", "live"}
  /\ answers \in Seq(BOOLEAN)
  /\ pushed \in BOOLEAN
  /\ knownPresentPatches \in BOOLEAN
  /\ patchDecision \in {"unset", "yes", "no"}
  /\ sentPatches \in BOOLEAN
  /\ asking \in BOOLEAN
  /\ callback \in {"idle", "requested", "written"}
  /\ buffer \in [done : BOOLEAN, status : Statuses \cup {"Pending"}]

(* A marker is recorded in one of the first n tasks.                               *)
Present(n) == \E j \in 1..n : history[j].marker

(* Where the tasks stand.                                                          *)
TasksInStep ==
  /\ task = "none" => Len(answers) = 0 /\ ~pushed
  /\ task = "replay" => applied < Len(history)
  /\ task = "live" => applied = Len(history)
  /\ asking => task = "live" /\ patchDecision = "unset"

(* What is recorded.                                                               *)
HistoryInv ==
  /\ \A i \in 1..Len(history) : \A k \in 1..Len(history[i].answers) :
       history[i].answers[k] <=> Present(i)
  /\ \A i \in 1..Len(history) : history[i].marker => Len(history[i].answers) > 0
  /\ \A i, j \in 1..Len(history) : i < j /\ history[i].marker => ~history[j].marker

(* What the cached workflow knows of it.                                           *)
DecisionInv ==
  /\ sentPatches <=> patchDecision = "yes"
  /\ patchDecision = "no" =>
       task # "replay" /\ applied = Len(history) /\ ~Present(Len(history))
  /\ Present(applied) => patchDecision = "yes"
  /\ patchDecision = "yes" => Present(applied) \/ pushed
  /\ pushed => patchDecision = "yes" /\ ~Present(applied) /\ Len(answers) > 0

KnownInv ==
  /\ knownPresentPatches =>
       Present(applied) \/ (task = "replay" /\ history[applied + 1].marker)
  /\ task = "replay" /\ history[applied + 1].marker => knownPresentPatches

(* The answers of the task in progress.                                            *)
LiveInv ==
  task = "live" =>
    /\ \A k \in 1..Len(answers) : answers[k] <=> patchDecision = "yes"
    /\ Len(answers) > 0 => patchDecision # "unset"

ReplayInv ==
  task = "replay" =>
    /\ Len(answers) <= Len(history[applied + 1].answers)
    /\ \A k \in 1..Len(answers) : answers[k] <=> Present(applied + 1)
    /\ pushed => history[applied + 1].marker
    /\ history[applied + 1].marker /\ Len(answers) > 0 => pushed

(* The shared buffer.                                                              *)
BufferInv ==
  /\ ~asking => callback = "idle"
  /\ callback = "requested" => ~buffer.done
  /\ callback = "written" => ~buffer.done /\ buffer.status # "Pending"
  /\ buffer.done => buffer.status # "Pending"

PatchInv ==
  /\ PatchTypes
  /\ TasksInStep
  /\ HistoryInv
  /\ DecisionInv
  /\ KnownInv
  /\ LiveInv
  /\ ReplayInv
  /\ BufferInv

-----------------------------------------------------------------------------------
(* Nothing is recorded or known at first.                                          *)
LEMMA InitInv == PatchesInit => PatchInv
<1> SUFFICES ASSUME PatchesInit PROVE PatchInv
  OBVIOUS
<1>1. PatchTypes
  <2>1. history \in Seq([answers : Seq(BOOLEAN), marker : BOOLEAN]) /\ answers \in Seq(BOOLEAN)
    BY DEF PatchesInit
  <2>2. applied \in 0..Len(history)
    BY DEF PatchesInit
  <2>3. buffer \in [done : BOOLEAN, status : Statuses \cup {"Pending"}]
    BY DEF PatchesInit, Statuses, EmptyBuffer
  <2>4. /\ pushed \in BOOLEAN /\ asking \in BOOLEAN
        /\ knownPresentPatches \in BOOLEAN /\ sentPatches \in BOOLEAN
    BY Zenon DEF PatchesInit
  <2> QED
    BY <2>1, <2>2, <2>3, <2>4, Zenon DEF PatchesInit, PatchTypes
<1>2. TasksInStep /\ HistoryInv /\ DecisionInv /\ KnownInv
  BY DEF PatchesInit, TasksInStep, HistoryInv, DecisionInv, KnownInv, Present
<1>3. LiveInv /\ ReplayInv /\ BufferInv
  BY DEF PatchesInit, LiveInv, ReplayInv, BufferInv, EmptyBuffer
<1> QED
  BY <1>1, <1>2, <1>3 DEF PatchInv

(* The replay of the next task: its marker becomes known before its calls. *)
LEMMA ReplayTaskInv == PatchInv /\ replayTask => PatchInv'
<1> SUFFICES ASSUME PatchInv, replayTask PROVE PatchInv'
  OBVIOUS
<1> USE DEF PatchInv, vmVars, taskVars, callVars
<1>1. PatchTypes'
  BY DEF replayTask, PatchTypes, Statuses
<1>2. TasksInStep'
  BY DEF replayTask, PatchTypes, TasksInStep
<1>3. HistoryInv'
  BY DEF replayTask, HistoryInv, Present
<1>4. DecisionInv'
  BY DEF replayTask, PatchTypes, TasksInStep, DecisionInv, KnownInv, Present
<1>5. KnownInv'
  BY Zenon DEF replayTask, PatchTypes, TasksInStep, DecisionInv, KnownInv, Present
<1>6. LiveInv'
  BY DEF replayTask, PatchTypes, TasksInStep, LiveInv
<1>7. ReplayInv'
  BY DEF replayTask, PatchTypes, TasksInStep, HistoryInv, DecisionInv, KnownInv, ReplayInv, Present
<1>8. BufferInv'
  BY DEF replayTask, BufferInv
<1> QED
  BY <1>1, <1>2, <1>3, <1>4, <1>5, <1>6, <1>7, <1>8

(* A new task of a workflow that is up to date. *)
LEMMA LiveTaskInv == PatchInv /\ liveTask => PatchInv'
<1> SUFFICES ASSUME PatchInv, liveTask PROVE PatchInv'
  OBVIOUS
<1> USE DEF PatchInv, vmVars, taskVars, callVars
<1>1. PatchTypes'
  BY DEF liveTask, PatchTypes, Statuses
<1>2. TasksInStep'
  BY DEF liveTask, PatchTypes, TasksInStep
<1>3. HistoryInv'
  BY DEF liveTask, HistoryInv, Present
<1>4. DecisionInv'
  BY DEF liveTask, PatchTypes, TasksInStep, DecisionInv, KnownInv, Present
<1>5. KnownInv'
  BY DEF liveTask, PatchTypes, TasksInStep, DecisionInv, KnownInv, Present
<1>6. LiveInv'
  BY DEF liveTask, PatchTypes, TasksInStep, LiveInv
<1>7. ReplayInv'
  BY DEF liveTask, PatchTypes, TasksInStep, HistoryInv, DecisionInv, KnownInv, ReplayInv, Present
<1>8. BufferInv'
  BY DEF liveTask, BufferInv
<1> QED
  BY <1>1, <1>2, <1>3, <1>4, <1>5, <1>6, <1>7, <1>8

(* An eviction forgets everything but history. *)
LEMMA EvictedInv == PatchInv /\ evicted => PatchInv'
<1> SUFFICES ASSUME PatchInv, evicted PROVE PatchInv'
  OBVIOUS
<1> USE DEF PatchInv, Evict, vmVars, taskVars, callVars
<1>1. PatchTypes'
  <2>1. answers' \in Seq(BOOLEAN) /\ applied' \in 0..Len(history')
    BY DEF evicted, PatchTypes
  <2>2. /\ pushed' \in BOOLEAN /\ asking' \in BOOLEAN
        /\ knownPresentPatches' \in BOOLEAN /\ sentPatches' \in BOOLEAN
    BY Zenon DEF evicted, PatchTypes
  <2> QED
    BY <2>1, <2>2, Zenon DEF evicted, PatchTypes
<1>2. TasksInStep'
  BY DEF evicted, PatchTypes, TasksInStep
<1>3. HistoryInv'
  BY DEF evicted, HistoryInv, Present
<1>4. DecisionInv'
  BY DEF evicted, PatchTypes, TasksInStep, DecisionInv, KnownInv, Present
<1>5. KnownInv'
  BY DEF evicted, PatchTypes, TasksInStep, DecisionInv, KnownInv, Present
<1>6. LiveInv'
  BY DEF evicted, PatchTypes, TasksInStep, LiveInv
<1>7. ReplayInv'
  BY DEF evicted, PatchTypes, TasksInStep, HistoryInv, DecisionInv, KnownInv, ReplayInv, Present
<1>8. BufferInv'
  BY DEF evicted, PatchTypes, BufferInv
<1> QED
  BY <1>1, <1>2, <1>3, <1>4, <1>5, <1>6, <1>7, <1>8

(* A decision made before is repeated. *)
LEMMA BeforeInv == PatchInv /\ patchedBefore => PatchInv'
<1> SUFFICES ASSUME PatchInv, patchedBefore PROVE PatchInv'
  OBVIOUS
<1> USE DEF PatchInv, MayCall, Return, vmVars, taskVars, callVars
<1>1. PatchTypes'
  BY DEF patchedBefore, PatchTypes, Statuses
<1>2. TasksInStep'
  BY DEF patchedBefore, PatchTypes, TasksInStep
<1>3. HistoryInv'
  BY DEF patchedBefore, HistoryInv, Present
<1>4. DecisionInv'
  BY DEF patchedBefore, PatchTypes, TasksInStep, DecisionInv, KnownInv, Present
<1>5. KnownInv'
  BY DEF patchedBefore, PatchTypes, TasksInStep, DecisionInv, KnownInv, Present
<1>6. LiveInv'
  <2>0. task' = task /\ patchDecision' = patchDecision
    BY DEF patchedBefore
  <2>1. CASE patchDecision = "yes"
    <3>1. answers' = Append(answers, TRUE)
      BY <2>1, Zenon DEF patchedBefore
    <3> QED
      BY <2>0, <2>1, <3>1 DEF PatchTypes, LiveInv
  <2>2. CASE patchDecision = "no"
    <3>1. answers' = Append(answers, FALSE)
      BY <2>2, Zenon DEF patchedBefore
    <3> QED
      BY <2>0, <2>2, <3>1 DEF PatchTypes, LiveInv
  <2> QED
    BY <2>1, <2>2 DEF patchedBefore, PatchTypes
<1>7. ReplayInv'
  <2> SUFFICES ASSUME task = "replay" PROVE ReplayInv'
    BY DEF patchedBefore, ReplayInv
  <2>1. patchDecision = "yes"
    BY DEF patchedBefore, PatchTypes, DecisionInv
  <2>2. answers' = Append(answers, TRUE)
    BY <2>1, Zenon DEF patchedBefore
  <2>3. Present(applied + 1)
    BY <2>1 DEF PatchTypes, TasksInStep, DecisionInv, ReplayInv, Present
  <2>4. ASSUME history[applied + 1].marker, ~pushed PROVE FALSE
    <3>1. PICK j \in 1..applied : history[j].marker
      BY <2>1, <2>4 DEF DecisionInv, Present
    <3>2. \A i, k \in 1..Len(history) : i < k /\ history[i].marker => ~history[k].marker
      BY DEF HistoryInv
    <3>3. j \in 1..Len(history) /\ applied + 1 \in 1..Len(history) /\ j < applied + 1
      BY DEF PatchTypes, TasksInStep
    <3> QED
      BY <2>4, <3>1, <3>2, <3>3, Zenon
  <2>5. UNCHANGED <<history, applied, task, pushed>> /\ Len(answers) < Len(history[applied + 1].answers)
    BY DEF patchedBefore
  <2> QED
    BY <2>2, <2>3, <2>4, <2>5 DEF PatchTypes, TasksInStep, ReplayInv, Present
<1>8. BufferInv'
  BY DEF patchedBefore, BufferInv
<1> QED
  BY <1>1, <1>2, <1>3, <1>4, <1>5, <1>6, <1>7, <1>8

(* A call on replay without a marker: there is none up to this task. *)
LEMMA OnReplayInv == PatchInv /\ patchedOnReplay => PatchInv'
<1> SUFFICES ASSUME PatchInv, patchedOnReplay PROVE PatchInv'
  OBVIOUS
<1> USE DEF PatchInv, MayCall, Return, vmVars, taskVars, callVars
<1>1. PatchTypes'
  BY DEF patchedOnReplay, PatchTypes, Statuses
<1>2. TasksInStep'
  BY DEF patchedOnReplay, PatchTypes, TasksInStep
<1>3. HistoryInv'
  BY DEF patchedOnReplay, HistoryInv, Present
<1>4. DecisionInv'
  BY DEF patchedOnReplay, PatchTypes, TasksInStep, DecisionInv, KnownInv, Present
<1>5. KnownInv'
  BY DEF patchedOnReplay, PatchTypes, TasksInStep, DecisionInv, KnownInv, Present
<1>6. LiveInv'
  BY DEF patchedOnReplay, PatchTypes, TasksInStep, LiveInv
<1>7. ReplayInv'
  BY DEF patchedOnReplay, PatchTypes, TasksInStep, HistoryInv, DecisionInv, KnownInv, ReplayInv, Present
<1>8. BufferInv'
  BY DEF patchedOnReplay, BufferInv
<1> QED
  BY <1>1, <1>2, <1>3, <1>4, <1>5, <1>6, <1>7, <1>8

(* A decision on a patch that is undecided: on replay, only a marker of this very   *)
(* task can have made the patch known.                                             *)
LEMMA DecideInv ==
  ASSUME PatchInv, NEW usePatch \in BOOLEAN, Decide(usePatch), patchDecision = "unset",
         \/ task = "live"
         \/ task = "replay" /\ knownPresentPatches /\ usePatch
            /\ Len(answers) < Len(history[applied + 1].answers),
         UNCHANGED <<history, applied, task, knownPresentPatches, hasCallback>>
  PROVE  (HistoryInv /\ DecisionInv /\ KnownInv /\ LiveInv /\ ReplayInv)'
<1> USE DEF PatchInv
<1>1. ~sentPatches /\ ~pushed /\ ~Present(applied)
  BY DEF DecisionInv
<1>2. HistoryInv' /\ KnownInv'
  BY DEF HistoryInv, KnownInv, Present
<1>3. task = "live" => Len(answers) = 0
  BY DEF PatchTypes, LiveInv
<1>4. CASE usePatch = TRUE
  <2>1. patchDecision' = "yes" /\ pushed' = TRUE /\ sentPatches' = TRUE
        /\ answers' = Append(answers, TRUE)
    BY <1>1, <1>4, Zenon DEF Decide, Return
  <2>2. DecisionInv'
    BY <1>1, <2>1 DEF PatchTypes, TasksInStep, DecisionInv, Present
  <2>3. LiveInv'
    BY <1>3, <2>1 DEF PatchTypes, LiveInv
  <2>4. ReplayInv'
    <3> SUFFICES ASSUME task = "replay" PROVE ReplayInv'
      BY DEF ReplayInv
    <3>1. history[applied + 1].marker /\ Present(applied + 1)
      BY <1>1 DEF PatchTypes, KnownInv, Present
    <3>2. /\ answers \in Seq(BOOLEAN) /\ Len(answers) < Len(history[applied + 1].answers)
          /\ \A k \in 1..Len(answers) : answers[k] <=> Present(applied + 1)
      BY DEF PatchTypes, ReplayInv
    <3>3. /\ Len(answers') = Len(answers) + 1 /\ answers'[Len(answers) + 1] = TRUE
          /\ \A k \in 1..Len(answers) : answers'[k] = answers[k]
      BY <2>1, <3>2
    <3>4. \A k \in 1..Len(answers') : answers'[k]
      BY <3>1, <3>2, <3>3
    <3>5. Len(answers') <= Len(history[applied + 1].answers)
      BY <3>2, <3>3 DEF PatchTypes, TasksInStep
    <3>6. Present(applied + 1)'
      BY <3>1 DEF Present
    <3> QED
      BY <2>1, <3>1, <3>4, <3>5, <3>6 DEF ReplayInv
  <2> QED
    BY <1>2, <2>2, <2>3, <2>4
<1>5. CASE usePatch = FALSE
  <2>1. patchDecision' = "no" /\ pushed' = FALSE /\ sentPatches' = FALSE
        /\ answers' = Append(answers, FALSE)
    BY <1>1, <1>5, Zenon DEF Decide, Return, PatchTypes
  <2>2. DecisionInv'
    BY <1>1, <1>5, <2>1 DEF PatchTypes, TasksInStep, DecisionInv, Present
  <2>3. LiveInv'
    BY <1>3, <2>1 DEF PatchTypes, LiveInv
  <2>4. ReplayInv'
    BY <1>5 DEF ReplayInv
  <2> QED
    BY <1>2, <2>2, <2>3, <2>4
<1> QED
  BY <1>4, <1>5, Zenon

(* A decision that needs nobody's consent. *)
LEMMA WithoutAskingInv == PatchInv /\ patchedWithoutAsking => PatchInv'
<1> SUFFICES ASSUME PatchInv, patchedWithoutAsking PROVE PatchInv'
  OBVIOUS
<1> USE DEF PatchInv, MayCall, Undecided, Asks, Decide, Return, vmVars, taskVars, callVars
<1>1. PatchTypes'
  BY DEF patchedWithoutAsking, PatchTypes, Statuses
<1>2. TasksInStep'
  BY DEF patchedWithoutAsking, PatchTypes, TasksInStep
<1>3. (HistoryInv /\ DecisionInv /\ KnownInv /\ LiveInv /\ ReplayInv)'
  BY DecideInv, Zenon DEF patchedWithoutAsking, PatchTypes, TasksInStep
<1>4. BufferInv'
  BY DEF patchedWithoutAsking, BufferInv
<1> QED
  BY <1>1, <1>2, <1>3, <1>4

(* A request to the main thread. *)
LEMMA RequestInv == PatchInv /\ requestPatchActivation => PatchInv'
<1> SUFFICES ASSUME PatchInv, requestPatchActivation PROVE PatchInv'
  OBVIOUS
<1> USE DEF PatchInv, MayCall, Undecided, Asks, EmptyBuffer, vmVars, taskVars, callVars
<1>1. PatchTypes'
  BY DEF requestPatchActivation, PatchTypes, Statuses
<1>2. TasksInStep'
  BY DEF requestPatchActivation, PatchTypes, TasksInStep
<1>3. HistoryInv'
  BY DEF requestPatchActivation, HistoryInv, Present
<1>4. DecisionInv'
  BY DEF requestPatchActivation, PatchTypes, TasksInStep, DecisionInv, KnownInv, Present
<1>5. KnownInv'
  BY DEF requestPatchActivation, PatchTypes, TasksInStep, DecisionInv, KnownInv, Present
<1>6. LiveInv'
  BY DEF requestPatchActivation, PatchTypes, TasksInStep, LiveInv
<1>7. ReplayInv'
  BY DEF requestPatchActivation, PatchTypes, TasksInStep, HistoryInv, DecisionInv, KnownInv, ReplayInv, Present
<1>8. BufferInv'
  BY DEF requestPatchActivation, BufferInv
<1> QED
  BY <1>1, <1>2, <1>3, <1>4, <1>5, <1>6, <1>7, <1>8

(* The callback's answer becomes the decision. *)
LEMMA AnsweredInv == PatchInv /\ callbackAnswered => PatchInv'
<1> SUFFICES ASSUME PatchInv, callbackAnswered PROVE PatchInv'
  OBVIOUS
<1> USE DEF PatchInv, Decide, Return, vmVars, taskVars, callVars
<1>1. PatchTypes'
  <2>1. answers' \in Seq(BOOLEAN)
    <3>1. CASE buffer.status = "True"
      BY <3>1 DEF callbackAnswered, PatchTypes
    <3>2. CASE buffer.status = "False"
      BY <3>2 DEF callbackAnswered, PatchTypes
    <3> QED
      BY <3>1, <3>2 DEF callbackAnswered
  <2>2. /\ pushed' \in BOOLEAN /\ asking' \in BOOLEAN
        /\ knownPresentPatches' \in BOOLEAN /\ sentPatches' \in BOOLEAN
    BY Zenon DEF callbackAnswered, PatchTypes
  <2>3. patchDecision' \in {"unset", "yes", "no"}
    BY DEF callbackAnswered
  <2> QED
    BY <2>1, <2>2, <2>3, Zenon DEF callbackAnswered, PatchTypes
<1>2. TasksInStep'
  BY DEF callbackAnswered, PatchTypes, TasksInStep
<1>3. (HistoryInv /\ DecisionInv /\ KnownInv /\ LiveInv /\ ReplayInv)'
  BY DecideInv, Zenon DEF callbackAnswered, PatchTypes, TasksInStep
<1>4. BufferInv'
  BY DEF callbackAnswered, PatchTypes, BufferInv
<1> QED
  BY <1>1, <1>2, <1>3, <1>4

(* An error of the callback fails the task. *)
LEMMA ThrewInv == PatchInv /\ callbackThrew => PatchInv'
<1> SUFFICES ASSUME PatchInv, callbackThrew PROVE PatchInv'
  OBVIOUS
<1> USE DEF PatchInv, Evict, vmVars, taskVars, callVars
<1>1. PatchTypes'
  <2>1. answers' \in Seq(BOOLEAN) /\ applied' \in 0..Len(history')
    BY DEF callbackThrew, PatchTypes
  <2>2. /\ pushed' \in BOOLEAN /\ asking' \in BOOLEAN
        /\ knownPresentPatches' \in BOOLEAN /\ sentPatches' \in BOOLEAN
    BY Zenon DEF callbackThrew, PatchTypes
  <2> QED
    BY <2>1, <2>2, Zenon DEF callbackThrew, PatchTypes
<1>2. TasksInStep'
  BY DEF callbackThrew, PatchTypes, TasksInStep
<1>3. HistoryInv'
  BY DEF callbackThrew, HistoryInv, Present
<1>4. DecisionInv'
  BY DEF callbackThrew, PatchTypes, TasksInStep, DecisionInv, KnownInv, Present
<1>5. KnownInv'
  BY DEF callbackThrew, PatchTypes, TasksInStep, DecisionInv, KnownInv, Present
<1>6. LiveInv'
  BY DEF callbackThrew, PatchTypes, TasksInStep, LiveInv
<1>7. ReplayInv'
  BY DEF callbackThrew, PatchTypes, TasksInStep, HistoryInv, DecisionInv, KnownInv, ReplayInv, Present
<1>8. BufferInv'
  BY DEF callbackThrew, PatchTypes, BufferInv
<1> QED
  BY <1>1, <1>2, <1>3, <1>4, <1>5, <1>6, <1>7, <1>8

(* The result is published to the waiting thread. *)
LEMMA CompletesInv == PatchInv /\ callbackCompletes => PatchInv'
<1> SUFFICES ASSUME PatchInv, callbackCompletes PROVE PatchInv'
  OBVIOUS
<1> USE DEF PatchInv, vmVars, taskVars, callVars
<1>1. PatchTypes'
  BY Zenon DEF callbackCompletes, PatchTypes, Statuses
<1>2. TasksInStep'
  BY DEF callbackCompletes, PatchTypes, TasksInStep
<1>3. HistoryInv'
  BY DEF callbackCompletes, HistoryInv, Present
<1>4. DecisionInv'
  BY DEF callbackCompletes, PatchTypes, TasksInStep, DecisionInv, KnownInv, Present
<1>5. KnownInv'
  BY DEF callbackCompletes, PatchTypes, TasksInStep, DecisionInv, KnownInv, Present
<1>6. LiveInv'
  BY DEF callbackCompletes, PatchTypes, TasksInStep, LiveInv
<1>7. ReplayInv'
  BY DEF callbackCompletes, PatchTypes, TasksInStep, HistoryInv, DecisionInv, KnownInv, ReplayInv, Present
<1>8. BufferInv'
  BY DEF callbackCompletes, BufferInv
<1> QED
  BY <1>1, <1>2, <1>3, <1>4, <1>5, <1>6, <1>7, <1>8

(* The callback's result, or its error, is stored before it is published.          *)
LEMMA WritesInv == ASSUME NEW status \in Statuses PROVE PatchInv /\ callbackWrites(status) => PatchInv'
<1> SUFFICES ASSUME PatchInv, callbackWrites(status) PROVE PatchInv'
  OBVIOUS
<1> USE DEF PatchInv, vmVars, taskVars
<1>1. PatchTypes'
  BY DEF callbackWrites, PatchTypes, Statuses
<1>2. (TasksInStep /\ HistoryInv /\ DecisionInv /\ KnownInv /\ LiveInv /\ ReplayInv)'
  BY DEF callbackWrites, TasksInStep, HistoryInv, DecisionInv, KnownInv, LiveInv, ReplayInv,
         Present
<1>3. BufferInv'
  BY DEF callbackWrites, PatchTypes, BufferInv, Statuses
<1> QED
  BY <1>1, <1>2, <1>3

(* The end of a replayed task: its marker, if any, has been decided on.            *)
LEMMA ReplayConcludesInv == PatchInv /\ concludes /\ task = "replay" => PatchInv'
<1> SUFFICES ASSUME PatchInv, concludes, task = "replay" PROVE PatchInv'
  OBVIOUS
<1> USE DEF PatchInv, vmVars, callVars
<1>0. /\ UNCHANGED <<history, vmVars, callVars>>
      /\ applied' = applied + 1 /\ task' = "none" /\ answers' = <<>> /\ pushed' = FALSE
      /\ ~asking /\ Len(answers) = Len(history[applied + 1].answers)
  BY DEF concludes
<1>1. PatchTypes'
  <2>1. applied' \in 0..Len(history') /\ answers' \in Seq(BOOLEAN)
    BY <1>0 DEF PatchTypes, TasksInStep
  <2>2. task' \in {"none", "replay", "live"} /\ pushed' \in BOOLEAN
    BY <1>0, Zenon
  <2> QED
    BY <1>0, <2>1, <2>2, Zenon DEF PatchTypes
<1>2. TasksInStep' /\ HistoryInv' /\ LiveInv' /\ ReplayInv' /\ BufferInv'
  BY <1>0 DEF TasksInStep, HistoryInv, LiveInv, ReplayInv, BufferInv, Present
<1>3. Present(applied + 1) <=> Present(applied) \/ history[applied + 1].marker
  BY DEF PatchTypes, TasksInStep, Present
<1>4. history[applied + 1].marker => pushed
  BY <1>0 DEF PatchTypes, TasksInStep, HistoryInv, ReplayInv
<1>5. Present(applied)' <=> Present(applied + 1)
  BY <1>0 DEF Present
<1>6. DecisionInv'
  BY <1>0, <1>3, <1>4, <1>5 DEF PatchTypes, DecisionInv, ReplayInv
<1>7. KnownInv'
  BY <1>0, <1>3, <1>5 DEF KnownInv
<1> QED
  BY <1>1, <1>2, <1>6, <1>7

(* The end of a live task: its answers and its marker are recorded.                *)
LEMMA LiveConcludesInv == PatchInv /\ concludes /\ task = "live" => PatchInv'
<1> SUFFICES ASSUME PatchInv, concludes, task = "live" PROVE PatchInv'
  OBVIOUS
<1> USE DEF PatchInv, vmVars, callVars
<1> DEFINE n == Len(history)
           new == [answers |-> answers, marker |-> pushed]
<1>0. /\ history' = Append(history, new) /\ UNCHANGED <<vmVars, callVars>>
      /\ applied' = applied + 1 /\ task' = "none" /\ answers' = <<>> /\ pushed' = FALSE
      /\ ~asking
  BY DEF concludes
<1>a. applied = n /\ n \in Nat
  BY DEF PatchTypes, TasksInStep
<1>b. new \in [answers : Seq(BOOLEAN), marker : BOOLEAN]
  BY DEF PatchTypes
<1>c. /\ Len(history') = n + 1
      /\ \A i \in 1..n : history'[i] = history[i]
      /\ history'[n + 1] = new
  BY <1>0, <1>b DEF PatchTypes
<1>1. PatchTypes'
  <2>1. history' \in Seq([answers : Seq(BOOLEAN), marker : BOOLEAN])
    BY <1>0, <1>b DEF PatchTypes
  <2>2. applied' \in 0..Len(history') /\ answers' \in Seq(BOOLEAN)
    BY <1>0, <1>a, <1>c
  <2> QED
    BY <1>0, <2>1, <2>2, Zenon DEF PatchTypes
<1>2. TasksInStep' /\ LiveInv' /\ ReplayInv' /\ BufferInv'
  BY <1>0 DEF TasksInStep, LiveInv, ReplayInv, BufferInv
<1>3. \A i \in 1..n : Present(i)' <=> Present(i)
  BY <1>a, <1>c DEF Present
<1>4. Present(applied)' <=> Present(applied) \/ pushed
  <2>1. Present(applied)' <=> \E j \in 1..(n + 1) : history'[j].marker
    BY <1>0, <1>a DEF Present
  <2>2. history'[n + 1].marker = pushed
    BY <1>c
  <2>3. Present(applied) <=> \E j \in 1..n : history'[j].marker
    BY <1>a, <1>c DEF Present
  <2> HIDE DEF n, new
  <2>4. (\E j \in 1..(n + 1) : history'[j].marker)
          <=> (\E j \in 1..n : history'[j].marker) \/ history'[n + 1].marker
    BY <1>a
  <2> QED
    BY <2>1, <2>2, <2>3, <2>4
<1>5. HistoryInv'
  <2>1. \A i \in 1..n : \A k \in 1..Len(history'[i].answers) : history'[i].answers[k] <=> Present(i)'
    BY <1>c, <1>3 DEF HistoryInv
  <2>2. \A k \in 1..Len(answers) : answers[k] <=> Present(applied)'
    BY <1>4 DEF PatchTypes, DecisionInv, LiveInv
  <2>3. \A i \in 1..n : history'[i].marker => Len(history'[i].answers) > 0
    BY <1>c DEF HistoryInv
  <2>4. pushed => Len(answers) > 0
    BY DEF DecisionInv
  <2>5. \A i, j \in 1..n : i < j /\ history'[i].marker => ~history'[j].marker
    BY <1>c DEF HistoryInv
  <2>6. \A i \in 1..n : history'[i].marker => ~pushed
    BY <1>a, <1>c DEF DecisionInv, Present
  <2>7. \A i \in 1..Len(history') : i \in 1..n \/ i = n + 1
    BY <1>a, <1>c
  <2>8. \A i \in 1..Len(history') : \A k \in 1..Len(history'[i].answers) :
          history'[i].answers[k] <=> Present(i)'
    <3>1. Present(applied)' <=> \E j \in 1..(n + 1) : history'[j].marker
      BY <1>0, <1>a DEF Present
    <3>2. ASSUME NEW i, i = n + 1, NEW k \in 1..Len(history'[i].answers)
          PROVE  history'[i].answers[k] <=> Present(i)'
      BY <1>c, <2>2, <3>1, <3>2 DEF Present
    <3> QED
      BY <2>1, <2>7, <3>2
  <2>9. \A i \in 1..Len(history') : history'[i].marker => Len(history'[i].answers) > 0
    BY <1>c, <2>3, <2>4, <2>7
  <2>10. \A i, j \in 1..Len(history') : i < j /\ history'[i].marker => ~history'[j].marker
    BY <1>a, <1>c, <2>5, <2>6, <2>7
  <2> QED
    BY <2>8, <2>9, <2>10 DEF HistoryInv
<1>6. DecisionInv'
  <2>1. Present(Len(history))' <=> Present(applied)'
    BY <1>0, <1>a, <1>c DEF Present
  <2>2. task' # "replay" /\ applied' = Len(history')
    BY <1>0, <1>a, <1>c
  <2>3. sentPatches' = sentPatches /\ patchDecision' = patchDecision /\ pushed' = FALSE
    BY <1>0
  <2>4. Present(Len(history)) <=> Present(applied)
    BY <1>a
  <2> QED
    BY <2>1, <2>2, <2>3, <2>4, <1>4, Zenon DEF DecisionInv
<1>7. KnownInv'
  BY <1>0, <1>4 DEF KnownInv
<1> QED
  BY <1>1, <1>2, <1>5, <1>6, <1>7

(* The invariant is inductive.                                                     *)
LEMMA NextInv == PatchInv /\ [PatchesNext]_patchesVars => PatchInv'
<1> SUFFICES ASSUME PatchInv, [PatchesNext]_patchesVars PROVE PatchInv'
  OBVIOUS
<1>1. CASE UNCHANGED patchesVars
  BY <1>1, Zenon DEF PatchInv, PatchTypes, TasksInStep, HistoryInv, DecisionInv, KnownInv, LiveInv, ReplayInv,
              BufferInv, Present, patchesVars, vmVars, taskVars, callVars
<1>2. CASE concludes
  BY <1>2, ReplayConcludesInv, LiveConcludesInv DEF concludes, PatchInv, PatchTypes
<1>3. CASE \E status \in Statuses : callbackWrites(status)
  BY <1>3, WritesInv
<1> QED
  BY <1>1, <1>2, <1>3, ReplayTaskInv, LiveTaskInv, EvictedInv, BeforeInv, OnReplayInv,
     WithoutAskingInv, RequestInv, AnsweredInv, ThrewInv, CompletesInv DEF PatchesNext

(* The inductive invariant is an invariant of every execution of patched().        *)
THEOREM PatchesInvariant == PatchesSpec => []PatchInv
  BY InitInv, NextInv, PTL DEF PatchesSpec

\* An index of a sequence leads to one of its elements.
LEMMA SeqElement == ASSUME NEW S, NEW s \in Seq(S), NEW i \in 1 .. Len(s) PROVE s[i] \in S
  OBVIOUS

(* Replay is deterministic, for any number of tasks, calls and evictions: see      *)
(* ReplayAgrees.                                                                   *)
THEOREM ReplayIsDeterministic == PatchesSpec => []ReplayAgrees
<1>1. PatchInv => ReplayAgrees
  <2> SUFFICES ASSUME PatchInv, task = "replay" PROVE ReplayAgrees
    BY DEF ReplayAgrees
  <2>1. applied + 1 \in 1..Len(history)
    BY DEF PatchInv, PatchTypes, TasksInStep
  <2>a. history[applied + 1] \in [answers : Seq(BOOLEAN), marker : BOOLEAN]
    BY <2>1, SeqElement, Zenon DEF PatchInv, PatchTypes
  <2>2. ASSUME NEW k \in 1..Len(answers) PROVE answers[k] = history[applied + 1].answers[k]
    <3>1. k \in 1..Len(history[applied + 1].answers)
      BY <2>1 DEF PatchInv, PatchTypes, ReplayInv
    <3>2. answers[k] <=> history[applied + 1].answers[k]
      BY <2>1, <3>1 DEF PatchInv, HistoryInv, ReplayInv
    <3>3. answers \in Seq(BOOLEAN) /\ history[applied + 1].answers \in Seq(BOOLEAN)
      BY <2>a, Zenon DEF PatchInv, PatchTypes
    <3>4. answers[k] \in BOOLEAN /\ history[applied + 1].answers[k] \in BOOLEAN
      BY <3>1, <3>3, SeqElement, Zenon
    <3> QED
      BY <3>2, <3>4, Zenon
  <2>3. pushed => history[applied + 1].marker
    BY DEF PatchInv, ReplayInv
  <2>4. ASSUME Len(answers) = Len(history[applied + 1].answers) PROVE pushed = history[applied + 1].marker
    <3>1. history[applied + 1].marker <=> pushed
      BY <2>1, <2>3, <2>4 DEF PatchInv, PatchTypes, HistoryInv, ReplayInv
    <3>2. pushed \in BOOLEAN /\ history[applied + 1].marker \in BOOLEAN
      BY <2>a, Zenon DEF PatchInv, PatchTypes
    <3> QED
      BY <3>1, <3>2, Zenon
  <2> QED
    BY <2>2, <2>3, <2>4 DEF ReplayAgrees
<1> QED
  BY <1>1, PatchesInvariant, PTL

(* A recorded patch stays, for any number of tasks, calls and evictions: see       *)
(* PatchSticks.                                                                    *)
THEOREM RecordedPatchSticks == PatchesSpec => []PatchSticks
<1>1. PatchInv => PatchSticks
  BY DEF PatchInv, PatchTypes, HistoryInv, Present, PatchSticks
<1> QED
  BY <1>1, PatchesInvariant, PTL

(* The workflow's thread never reads a status that the main thread has not         *)
(* written: the second half of CallbackReturns.                                    *)
THEOREM ResultIsWritten == PatchesSpec => [](asking /\ buffer.done => buffer.status # "Pending")
<1>1. PatchInv => (asking /\ buffer.done => buffer.status # "Pending")
  BY DEF PatchInv, BufferInv
<1> QED
  BY <1>1, PatchesInvariant, PTL

=============================================================================
