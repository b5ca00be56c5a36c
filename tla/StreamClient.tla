----------------------------- MODULE StreamClient -----------------------------
(***************************************************************************)
(* A WorkflowStreamClient against the workflow side of WorkflowStream: the *)
(* publisher with its buffer, the pending batch it retries, the background *)
(* flusher and the caller's flush() and dispose, and one subscription that *)
(* follows the chain of runs.                                              *)
(*                                                                         *)
(* A signal reaches the server at most once, while the call is under way   *)
(* and within RpcTime ticks of being sent; the call may fail whether it    *)
(* did or not.  The two continuations of a settled flush, its owner's and  *)
(* its waiter's, run in either order, but before anything from outside.    *)
(* The batch interval, the batch size, forced flushes and poll cooldowns   *)
(* only decide when the flusher or the subscription goes on, which is at   *)
(* any time here.                                                          *)
(***************************************************************************)
EXTENDS WorkflowStream

CONSTANTS
  Uses,              \* what a client may be used for: sets of "publish", "subscribe"
  MaxItems,          \* bound on the items the client publishes
  Unencodable,       \* the numbers of the items no payload converter takes
  MaxRetryDuration,  \* maxRetryDuration, in ticks
  MaxInbox,          \* bound on the signals the workflow has not handled yet
  RpcTime,           \* how long a signal call may take to reach the server
  FromOffset,        \* fromOffset of the subscription
  MaxTimeouts        \* bound on the timeouts of poll calls

ASSUME ClientAssumption ==
  /\ Uses \subseteq SUBSET {"publish", "subscribe"}
  /\ {MaxItems, MaxInbox, MaxRetryDuration, RpcTime, FromOffset, MaxTimeouts} \subseteq Nat
  /\ Unencodable \subseteq Nat
  /\ MaxRetryDuration + RpcTime < Ttl

VARIABLES
  use,               \* what this client is used for
  published,         \* how many items the client has been given
  buffer,            \* .buffer
  pending,           \* .pending, .pendingSeq and .pendingStartedAt; no items for null
  sequence,          \* .sequence
  flusher,           \* .flusherTask: where the background flusher is
  flusherStopped, flusherError,
  currentFlush,      \* .currentFlush: who runs _doFlush, and how far it is
  call,              \* the caller's flush() or dispose under way
  sub,               \* the subscription
  polledRunId,       \* .polledRunId, 0 for undefined
  timeouts,          \* how many poll calls have timed out
  given,             \* history: what the subscription has yielded
  dropped, told,     \* history: items taken from the buffer and given up, and
                     \* those of them some call has thrown an error for
  confirmed          \* history: items for which a flush() has returned

publisherVars == <<published, buffer, pending, sequence, flusher, flusherStopped, flusherError,
                   currentFlush, call, dropped, told, confirmed>>
subscriberVars == <<sub, polledRunId, timeouts, given, use>>
vars == <<streamVars, publisherVars, subscriberVars>>

NoPending == [items |-> <<>>, seq |-> 0, startedAt |-> 0]
NoFlush == [owner |-> "none", stage |-> "none", arrived |-> FALSE, sentAt |-> 0]
NoCall == [op |-> "none", at |-> "none", target |-> 0, barrier |-> {}]
Ready == [state |-> "ready", offset |-> FromOffset, items |-> <<>>, next |-> 0]

Init ==
  /\ StreamInit
  /\ use \in Uses
  /\ published = 0
  /\ buffer = <<>> /\ pending = NoPending /\ sequence = 0
  /\ flusher = "undefined" /\ flusherStopped = FALSE /\ flusherError = FALSE
  /\ currentFlush = NoFlush
  /\ call = NoCall
  /\ dropped = {} /\ told = {} /\ confirmed = {}
  /\ sub = Ready /\ polledRunId = 0 /\ timeouts = 0 /\ given = <<>>

-----------------------------------------------------------------------------
(* Publishing                                                              *)

\* The first publish starts the flusher.
publish(topic) ==
  /\ "publish" \in use /\ published < MaxItems
  /\ published' = published + 1
  /\ buffer' = Append(buffer, [by |-> "client", n |-> published + 1, topic |-> topic])
  /\ flusher' = IF flusher = "undefined" /\ ~flusherStopped THEN "sleeping" ELSE flusher
  /\ UNCHANGED <<streamVars, subscriberVars, pending, sequence, flusherStopped, flusherError,
                 currentFlush, call, dropped, told, confirmed>>

\* _doFlush up to the signal call, run by `owner`: a retry of the pending
\* batch unless it has been retried for too long, or a new batch.
Flushing(owner, stage) == [owner |-> owner, stage |-> stage, arrived |-> FALSE, sentAt |-> now]

\* Mutant: the number of the batch that is given up is used again.
ExpireReusing ==
  /\ pending' = NoPending
  /\ dropped' = dropped \cup Range(pending.items)
  /\ UNCHANGED <<buffer, sequence>>

\* The batch is given up, its number is not.
Expire ==
  /\ sequence' = pending.seq
  /\ pending' = NoPending
  /\ dropped' = dropped \cup Range(pending.items)
  /\ UNCHANGED buffer

_doFlush(owner) ==
  \/ /\ pending.items # <<>>
     /\ now - pending.startedAt > MaxRetryDuration
     /\ Expire
     /\ currentFlush' = Flushing(owner, "expired")
  \/ /\ pending.items # <<>>
     /\ now - pending.startedAt <= MaxRetryDuration
     /\ currentFlush' = Flushing(owner, "sending")
     /\ UNCHANGED <<buffer, pending, sequence, dropped>>
  \/ /\ pending.items = <<>> /\ buffer # <<>>
     /\ buffer' = <<>>
     /\ IF \E i \in Range(buffer) : i.n \in Unencodable
        THEN /\ currentFlush' = Flushing(owner, "unencodable")
             /\ dropped' = dropped \cup Range(buffer)
             /\ UNCHANGED pending
        ELSE /\ currentFlush' = Flushing(owner, "sending")
             /\ pending' = [items |-> buffer, seq |-> sequence + 1, startedAt |-> now]
             /\ UNCHANGED dropped
     /\ UNCHANGED sequence
  \/ /\ pending.items = <<>> /\ buffer = <<>>
     /\ currentFlush' = Flushing(owner, "nothing")
     /\ UNCHANGED <<buffer, pending, sequence, dropped>>

Idle == currentFlush.owner = "none"

Succeeded == currentFlush.stage \in {"done", "nothing"}
Settled == Succeeded \/ currentFlush.stage \in {"failed", "expired", "unencodable"}

\* No continuation of the client is queued: what comes from outside, answers,
\* timers and calls, waits for this.
Quiet == ~Settled /\ flusher # "ready" /\ call.at # "ready"

\* The call reaches the server, or comes back.
signalArrives ==
  /\ currentFlush.stage = "sending" /\ ~currentFlush.arrived /\ ~closed /\ Len(inbox) < MaxInbox
  /\ inbox' = Append(inbox, [items |-> pending.items, sequence |-> pending.seq])
  /\ currentFlush' = [currentFlush EXCEPT !.arrived = TRUE]
  /\ UNCHANGED <<log, baseOffset, publisher, draining, run, closed, poll, now, appended, subscriberVars,
                 published, buffer, pending, sequence, flusher, flusherStopped, flusherError, call,
                 dropped, told, confirmed>>

signalReturns ==
  /\ currentFlush.stage = "sending" /\ Quiet
  /\ \/ /\ currentFlush.arrived
        /\ currentFlush' = [currentFlush EXCEPT !.stage = "done"]
        /\ sequence' = pending.seq
        /\ pending' = NoPending
     \/ /\ currentFlush' = [currentFlush EXCEPT !.stage = "failed"]
        /\ UNCHANGED <<sequence, pending>>
  /\ UNCHANGED <<streamVars, subscriberVars, published, buffer, flusher, flusherStopped, flusherError,
                 call, dropped, told, confirmed>>

-----------------------------------------------------------------------------
(* Who flushes                                                             *)

\* The background flusher goes on after its own flush, or after one it waited
\* for that failed; a wait that succeeded tries again.
FlusherAfter ==
  CASE flusher = "waiting" /\ Succeeded -> "ready"
    [] flusher \in {"flushing", "waiting"} /\ ~(flusher = "waiting" /\ Succeeded) ->
         IF currentFlush.stage = "expired" \/ flusherStopped THEN "ended" ELSE "sleeping"
    [] OTHER -> flusher
FlusherHit == flusher \in {"flushing", "waiting"} /\ currentFlush.stage = "expired"

\* The caller's flush() or dispose goes on with its loop, or throws.
CallerHit == call.at \in {"flushing", "waiting"} /\ ~Succeeded

\* The promise of _doFlush settles: its owner and those who wait for it resume.
settle ==
  /\ Settled
  /\ currentFlush' = NoFlush
  /\ flusher' = FlusherAfter
  /\ flusherError' = (flusherError \/ FlusherHit)
  /\ call' = CASE CallerHit -> NoCall
               [] call.at \in {"flushing", "waiting"} /\ Succeeded -> [call EXCEPT !.at = "ready"]
               [] OTHER -> call
  /\ told' = IF CallerHit THEN dropped ELSE told
  /\ UNCHANGED <<streamVars, subscriberVars, published, buffer, pending, sequence, flusherStopped,
                 dropped, confirmed>>

\* flushOnce: run _doFlush, or wait for the one under way.
flusherFlushes ==
  /\ flusher = "ready" \/ (flusher = "sleeping" /\ ~flusherStopped /\ Quiet)
  /\ \/ Idle /\ _doFlush("flusher") /\ flusher' = "flushing"
     \/ ~Idle /\ flusher' = "waiting" /\ UNCHANGED <<buffer, pending, sequence, dropped, currentFlush>>
  /\ UNCHANGED <<streamVars, subscriberVars, published, flusherStopped, flusherError, call, told, confirmed>>

\* Mutant: only a flush notices that the flusher is to stop.
flusherEndsLate ==
  /\ flusher = "ready" /\ flusherStopped
  /\ flusher' = "ended"
  /\ UNCHANGED <<streamVars, subscriberVars, published, buffer, pending, sequence, flusherStopped,
                 flusherError, currentFlush, call, dropped, told, confirmed>>

\* The flusher wakes up and finds that it is to stop.
flusherEnds ==
  /\ flusher = "sleeping" /\ flusherStopped
  /\ flusher' = "ended"
  /\ UNCHANGED <<streamVars, subscriberVars, published, buffer, pending, sequence, flusherStopped,
                 flusherError, currentFlush, call, dropped, told, confirmed>>

\* throwPendingFlusherError, or the end of the call.
Return(barrier) ==
  /\ call' = NoCall
  /\ flusherError' = FALSE
  /\ told' = IF flusherError THEN dropped ELSE told
  /\ confirmed' = IF flusherError THEN confirmed ELSE confirmed \cup barrier

Unsent == Range(buffer) \cup Range(pending.items)

\* Mutant: waits for nothing.
TargetAtOnce == sequence

\* The number under which the last of the unsent items will have been sent.
Target ==
  LET baseSeq == IF pending.items # <<>> THEN pending.seq ELSE sequence
  IN IF buffer # <<>> THEN baseSeq + 1 ELSE baseSeq

flush ==
  /\ published > 0 /\ call.op = "none" /\ Quiet
  /\ IF flusherError \/ Unsent = {}
     THEN Return({})
     ELSE /\ call' = [op |-> "flush", at |-> "ready", target |-> Target, barrier |-> Unsent]
          /\ UNCHANGED <<flusherError, told, confirmed>>
  /\ UNCHANGED <<streamVars, subscriberVars, published, buffer, pending, sequence, flusher,
                 flusherStopped, currentFlush, dropped>>

\* [Symbol.asyncDispose]: stop the flusher and wait for it, then drain.
dispose ==
  /\ published > 0 /\ call.op = "none" /\ Quiet
  /\ IF flusher = "undefined"
     THEN call' = [NoCall EXCEPT !.op = "flushOnce", !.at = "ready"] /\ UNCHANGED flusherStopped
     ELSE call' = [NoCall EXCEPT !.op = "join", !.at = "joining"] /\ flusherStopped' = TRUE
  /\ UNCHANGED <<streamVars, subscriberVars, published, buffer, pending, sequence, flusher, flusherError,
                 currentFlush, dropped, told, confirmed>>

disposeJoins ==
  /\ call.op = "join" /\ flusher = "ended"
  /\ flusher' = "undefined"
  /\ call' = [NoCall EXCEPT !.op = "drain", !.at = "ready"]
  /\ UNCHANGED <<streamVars, subscriberVars, published, buffer, pending, sequence, flusherStopped,
                 flusherError, currentFlush, dropped, told, confirmed>>

\* What the loop of the call under way waits for has happened.
CallDone ==
  CASE call.op = "flush" -> sequence >= call.target
    [] call.op = "drain" -> Unsent = {}
    [] call.op = "flushOnce" -> call.target = 1

callFlushes ==
  /\ call.at = "ready" /\ ~CallDone
  /\ \/ /\ Idle /\ _doFlush("caller")
        /\ call' = [call EXCEPT !.at = "flushing", !.target = IF call.op = "flushOnce" THEN 1 ELSE @]
     \/ /\ ~Idle
        /\ call' = [call EXCEPT !.at = "waiting"]
        /\ UNCHANGED <<buffer, pending, sequence, dropped, currentFlush>>
  /\ UNCHANGED <<streamVars, subscriberVars, published, flusher, flusherStopped, flusherError, told,
                 confirmed>>

callReturns ==
  /\ call.at = "ready" /\ CallDone
  /\ Return(call.barrier)
  /\ UNCHANGED <<streamVars, subscriberVars, published, buffer, pending, sequence, flusher,
                 flusherStopped, currentFlush, dropped>>
-----------------------------------------------------------------------------
(* Subscribing                                                             *)

startPoll ==
  /\ "subscribe" \in use /\ sub.state = "ready"
  /\ poll' = [NoPoll EXCEPT !.stage = "sent", !.from = sub.offset]
  /\ sub' = [sub EXCEPT !.state = "waiting"]
  /\ UNCHANGED <<log, baseOffset, publisher, draining, run, closed, inbox, now, appended, publisherVars,
                 polledRunId, timeouts, given, use>>

\* describePolledRun: the run the last poll was admitted to, or the latest.
Describe(polled) == CASE polled \in 1 .. run - 1 -> "CONTINUED_AS_NEW"
                      [] polled \notin 1 .. run - 1 -> IF closed THEN "COMPLETED" ELSE "RUNNING"

Stop(state) == [sub EXCEPT !.state = state]
Again(offset) == [sub EXCEPT !.state = "ready", !.offset = offset]

\* followContinueAsNew, and what the caller does otherwise: the run has not
\* continued as new, or the describe call has failed.
FollowOr(polled, Otherwise) ==
  \/ Describe(polled) = "CONTINUED_AS_NEW" /\ sub' = Again(sub.offset)
  \/ Otherwise

\* isInTerminalState, which is false as well if its describe call fails.
EndOrFail(polled) ==
  \/ Describe(polled) = "COMPLETED" /\ sub' = Stop("ended")
  \/ sub' = Stop("failed")

receivePoll ==
  /\ sub.state = "waiting" /\ poll.stage = "replied"
  /\ LET reply == poll.reply
         polled == IF reply.kind = "notFound" THEN polledRunId ELSE poll.run
     IN /\ polledRunId' = polled
        /\ CASE reply.kind = "items" ->
                  sub' = [sub EXCEPT !.state = "yielding", !.items = reply.items, !.next = reply.next]
             [] reply.kind = "truncated" -> sub' = Again(0)
             [] reply.kind = "draining" -> sub' = Again(sub.offset)
             [] reply.kind = "completed" -> FollowOr(polled, sub' = Stop("ended"))
             [] reply.kind = "notFound" -> FollowOr(polled, EndOrFail(polled))
  /\ poll' = NoPoll
  /\ UNCHANGED <<log, baseOffset, publisher, draining, run, closed, inbox, now, appended, publisherVars,
                 timeouts, given, use>>

\* WorkflowUpdateRPCTimeoutOrCancelledError, before or after startUpdate has
\* returned the run id.
pollTimesOut ==
  /\ sub.state = "waiting" /\ timeouts < MaxTimeouts
  /\ timeouts' = timeouts + 1
  /\ \E polled \in {polledRunId, IF poll.run = 0 THEN polledRunId ELSE poll.run} :
       /\ polledRunId' = polled
       /\ FollowOr(polled, sub' = Stop("ended"))
  /\ poll' = NoPoll
  /\ UNCHANGED <<log, baseOffset, publisher, draining, run, closed, inbox, now, appended, publisherVars,
                 given, use>>

yield ==
  /\ sub.state = "yielding"
  /\ IF sub.items # <<>>
     THEN given' = Append(given, Head(sub.items)) /\ sub' = [sub EXCEPT !.items = Tail(@)]
     ELSE sub' = Again(sub.next) /\ UNCHANGED given
  /\ UNCHANGED <<streamVars, publisherVars, polledRunId, timeouts, use>>

-----------------------------------------------------------------------------
(* The whole                                                               *)

\* Time passes, though not beyond RpcTime while a signal is on its way.
tick ==
  /\ published > 0 /\ now < MaxTime /\ Quiet
  /\ (currentFlush.stage = "sending" /\ ~currentFlush.arrived) => now - currentFlush.sentAt < RpcTime
  /\ now' = now + 1
  /\ UNCHANGED <<log, baseOffset, publisher, draining, run, closed, inbox, poll, appended, publisherVars,
                 subscriberVars>>

\* Topics, and items of the workflow's own, matter to a subscription only.
UsedTopics == IF "subscribe" \in use THEN Topics ELSE {CHOOSE t \in Topics : TRUE}

Workflow ==
  /\ StreamStep \/ ("subscribe" \in use /\ \E t \in Topics : publishToTopic(t))
  /\ UNCHANGED <<publisherVars, subscriberVars>>
Publisher == signalReturns \/ settle \/ flusherFlushes \/ flusherEnds \/ disposeJoins \/ callFlushes
             \/ callReturns
Subscriber == startPoll \/ receivePoll \/ yield

Next ==
  \/ Workflow \/ tick
  \/ \E t \in UsedTopics : publish(t)
  \/ flush \/ dispose
  \/ signalArrives
  \/ Publisher
  \/ Subscriber \/ pollTimesOut

Spec == Init /\ [][Next]_vars

\* The worker handles what the server hands it, a call that was sent comes
\* back, and the event loop runs every continuation.  Nothing says that
\* anybody publishes, flushes, truncates, continues as new or completes.
Others == UNCHANGED <<publisherVars, subscriberVars>>
Fairness ==
  /\ WF_vars(onPublish /\ Others)
  /\ WF_vars((acceptPoll \/ refusePoll \/ wakePoll \/ answerPoll) /\ Others)
  /\ WF_vars(continueAsNew /\ Others)
  /\ WF_vars(signalReturns \/ settle)
  /\ WF_vars(flusherFlushes \/ flusherEnds)
  /\ WF_vars(disposeJoins \/ callFlushes \/ callReturns)
  /\ WF_vars(Subscriber)

FairSpec == Spec /\ Fairness

-----------------------------------------------------------------------------
(* Properties                                                              *)

\* What the stream promises (StreamLog): every item is appended at most once,
\* keeps its offset through truncation and continue-as-new, and is yielded in
\* order, with no gap but truncated or unwanted items.  Retried signals, polls
\* that lose their run and rollovers are steps that nobody can see.
Promise == INSTANCE StreamLog WITH items <- appended, base <- baseOffset, Wanted <- Wants
IsStreamLog == Promise!LogSpec

\* An item the client was given is in its buffer or its pending batch, or the
\* server has accepted it for good (_doFlush keeps its sequence numbers apart,
\* onPublish drops only what it has), or some call has thrown, or will throw,
\* a FlushTimeoutError for it: data loss is never silent.
Accepted == Range(appended) \cup UNION {Range(inbox[i].items) : i \in DOMAIN inbox}
Surfacing == flusherError \/ Settled
Numbers(items) == {i.n : i \in {j \in items : j.by = "client"}}
NoSilentLoss ==
  1 .. published \subseteq Numbers(Unsent \cup Accepted \cup told \cup (IF Surfacing THEN dropped ELSE {}))

\* When flush() returns without an error, everything that had been published
\* when it was called has been accepted by the server, whoever sent it.
FlushIsBarrier == confirmed \subseteq Accepted \cup told

\* flush() and dispose always come back, although they wait for the background
\* flusher and for each other's sends.
CallsSettle == (call.op # "none") ~> (call.op = "none")

\* Whenever the log holds items the subscription has not yielded, it eventually
\* catches up with the log, across truncations, drains and continue-as-new,
\* unless it has stopped or the workflow has completed.
Yielded(o) ==
  \/ ~Wants(appended[o]) \/ baseOffset >= o
  \/ \E i \in DOMAIN given : given[i].offset = o - 1
CaughtUp == \A o \in DOMAIN appended : Yielded(o)
ItemsReachSubscriber ==
  "subscribe" \in use => ~CaughtUp ~> (CaughtUp \/ closed \/ sub.state \in {"ended", "failed"})

\* Once the workflow has completed the subscription ends.
SubscriptionEnds == closed ~> sub.state \in {"ended", "failed"}
=============================================================================
