---------------------------- MODULE WorkflowStream ----------------------------
(***************************************************************************)
(* The workflow side of a workflow stream over a chain of runs: the log    *)
(* with its base offset, the publishers' sequence numbers, the poll update *)
(* that waits for items, truncation, and the state that continue-as-new    *)
(* hands to the next run.                                                  *)
(*                                                                         *)
(* Signals wait in `inbox` between the server's acknowledgement and the    *)
(* workflow task that handles them.  The server accepts the end of a run   *)
(* only when no signal is left (it fails the workflow task otherwise, and  *)
(* the code runs again with the signals), so ending a run needs an empty   *)
(* inbox.  One subscriber polls at a time; a poll is an update that the    *)
(* server has, then one that a handler works on, then a reply.  An update  *)
(* whose caller has given up goes on, but it only reads: it is dropped.    *)
(*                                                                         *)
(* Payloads are left out: an item is its publisher, a number and a topic,  *)
(* every item has size one, and times are ticks of one clock.              *)
(***************************************************************************)
EXTENDS Integers, Sequences, FiniteSets, Functions, FiniteSetsExt

CONSTANTS
  Topics,            \* the topics items are published to
  SubscribedTopics,  \* `topics` of the poll input; empty for all
  ResponseLimit,     \* MAX_POLL_RESPONSE_BYTES, in items
  Ttl,               \* publisherTtl, in ticks
  MaxRuns,           \* bound on the runs of the chain
  MaxTime,           \* bound on the clock
  MaxWorkflowItems   \* bound on the items the workflow publishes itself

ASSUME StreamAssumption ==
  /\ Topics # {} /\ SubscribedTopics \subseteq Topics
  /\ {ResponseLimit, MaxTime, MaxWorkflowItems} \subseteq Nat
  /\ {Ttl, MaxRuns} \subseteq Nat \ {0}

VARIABLES
  log, baseOffset,   \* WorkflowStream.log and .baseOffset
  publisher,         \* .publisherSequences and .publisherLastSeen of the one
                     \* client that publishes; seq 0 is an absent entry
  draining,          \* .draining
  run, closed,       \* the latest run of the chain, and whether it has completed
  inbox,             \* signals the server has acknowledged
  poll,              \* the subscriber's poll update
  now,               \* Date.now()
  appended           \* history: every item ever pushed to the log, by offset

streamVars == <<log, baseOffset, publisher, draining, run, closed, inbox, poll, now, appended>>

End == baseOffset + Len(log)
NoReply == [kind |-> "none", items |-> <<>>, next |-> 0, more |-> FALSE]
NoPoll == [stage |-> "none", from |-> 0, run |-> 0, reply |-> NoReply]
Failure(kind) == [NoReply EXCEPT !.kind = kind]
Wants(item) == SubscribedTopics = {} \/ item.topic \in SubscribedTopics

StreamInit ==
  /\ log = <<>> /\ baseOffset = 0
  /\ publisher = [seq |-> 0, seen |-> 0]
  /\ draining = FALSE
  /\ run = 1 /\ closed = FALSE
  /\ inbox = <<>>
  /\ poll = NoPoll
  /\ now = 0
  /\ appended = <<>>

-----------------------------------------------------------------------------
(* Publishing                                                              *)

Push(items) == log' = log \o items /\ appended' = appended \o items

\* Mutant: the last sequence number is taken again.
onPublishTwice ==
  /\ inbox # <<>> /\ ~closed
  /\ LET input == Head(inbox) IN
       IF input.sequence < publisher.seq
       THEN UNCHANGED <<log, appended, publisher>>
       ELSE publisher' = [seq |-> input.sequence, seen |-> now] /\ Push(input.items)
  /\ inbox' = Tail(inbox)
  /\ UNCHANGED <<baseOffset, draining, run, closed, poll, now>>

\* A workflow task delivers the next signal.
onPublish ==
  /\ inbox # <<>> /\ ~closed
  /\ LET input == Head(inbox) IN
       IF input.sequence <= publisher.seq
       THEN UNCHANGED <<log, appended, publisher>>
       ELSE publisher' = [seq |-> input.sequence, seen |-> now] /\ Push(input.items)
  /\ inbox' = Tail(inbox)
  /\ UNCHANGED <<baseOffset, draining, run, closed, poll, now>>

\* Its items are numbered by their place in the log.
publishToTopic(topic) ==
  /\ ~closed
  /\ Cardinality({i \in DOMAIN appended : appended[i].by = "workflow"}) < MaxWorkflowItems
  /\ Push(<<[by |-> "workflow", n |-> Len(appended) + 1, topic |-> topic]>>)
  /\ UNCHANGED <<baseOffset, publisher, draining, run, closed, inbox, poll, now>>

\* Offsets that are already gone are ignored; offsets past the end throw.
truncate(upToOffset) ==
  /\ ~closed
  /\ upToOffset \in baseOffset + 1 .. End
  /\ log' = SubSeq(log, upToOffset - baseOffset + 1, Len(log))
  /\ baseOffset' = upToOffset
  /\ UNCHANGED <<publisher, draining, run, closed, inbox, poll, now, appended>>

-----------------------------------------------------------------------------
(* Polling                                                                 *)

Reply(reply) == poll' = [poll EXCEPT !.stage = "replied", !.run = run, !.reply = reply]

Truncated(from) == from # 0 /\ from - baseOffset < 0

\* The server admits the update to the latest run: the validator, then the
\* handler up to its condition.
acceptPoll ==
  /\ poll.stage = "sent" /\ ~closed
  /\ CASE draining -> Reply(Failure("draining"))
       [] ~draining /\ Truncated(poll.from) -> Reply(Failure("truncated"))
       [] OTHER -> poll' = [poll EXCEPT !.stage = "parked", !.run = run]
  /\ UNCHANGED <<log, baseOffset, publisher, draining, run, closed, inbox, now, appended>>

\* The latest run is over: WorkflowNotFoundError.
refusePoll ==
  /\ poll.stage = "sent" /\ closed
  /\ poll' = [poll EXCEPT !.stage = "replied", !.reply = Failure("notFound")]
  /\ UNCHANGED <<log, baseOffset, publisher, draining, run, closed, inbox, now, appended>>

\* Mutant: waits for one item more.
BlockedLonger(from) ==
  ~(draining \/ Truncated(from) \/ Len(log) > Max({from - baseOffset, 0}) + 1)

\* The condition of onPoll does not hold.
Blocked(from) == ~(draining \/ Truncated(from) \/ Len(log) > Max({from - baseOffset, 0}))

wakePoll ==
  /\ poll.stage = "parked" /\ ~closed
  /\ ~Blocked(poll.from)
  /\ poll' = [poll EXCEPT !.stage = "woken"]
  /\ UNCHANGED <<log, baseOffset, publisher, draining, run, closed, inbox, now, appended>>

\* The items from a log index on that the subscriber asked for, a page of
\* them, and where the next poll resumes.
Candidates(logOffset) ==
  LET upTo[i \in 0 .. Len(log)] ==
        IF i <= logOffset THEN <<>>
        ELSE IF Wants(log[i]) THEN Append(upTo[i - 1], [offset |-> baseOffset + i - 1, item |-> log[i]])
        ELSE upTo[i - 1]
  IN upTo[Len(log)]

Page(logOffset) ==
  LET all == Candidates(logOffset)
      page == SubSeq(all, 1, Min({Max({ResponseLimit, 1}), Len(all)}))
      more == Len(page) < Len(all)
  IN [kind |-> "items", items |-> page, more |-> more,
      next |-> IF more THEN all[Len(page) + 1].offset ELSE End]

\* The rest of onPoll, once its condition has been resolved.
answerPoll ==
  /\ poll.stage = "woken" /\ ~closed
  /\ Reply(IF Truncated(poll.from) THEN Failure("truncated")
                                   ELSE Page(Max({poll.from - baseOffset, 0})))
  /\ UNCHANGED <<log, baseOffset, publisher, draining, run, closed, inbox, now, appended>>

-----------------------------------------------------------------------------
(* Runs                                                                    *)

InHandler == poll.stage \in {"parked", "woken"}

\* The run ends: AcceptedUpdateCompletedWorkflow for an accepted update.  One
\* that was not accepted yet finds the next run.
PollAtEnd == IF InHandler THEN Reply(Failure("completed")) ELSE poll' = poll

\* getState, pruning a publisher that has been silent for publisherTtl.
Prune == IF publisher.seq # 0 /\ now - publisher.seen < Ttl
         THEN publisher ELSE [seq |-> 0, seen |-> 0]

\* getState in one run and the constructor in the next: everything but the
\* flag is carried over.
RollOver ==
  /\ ~closed /\ inbox = <<>> /\ run < MaxRuns
  /\ run' = run + 1
  /\ draining' = FALSE
  /\ publisher' = Prune
  /\ PollAtEnd
  /\ UNCHANGED <<log, baseOffset, closed, inbox, now, appended>>

detachPollers ==
  /\ ~closed /\ ~draining /\ run < MaxRuns
  /\ draining' = TRUE
  /\ UNCHANGED <<log, baseOffset, publisher, run, closed, inbox, poll, now, appended>>

\* continueAsNew after detachPollers, once allHandlersFinished holds.
continueAsNew == draining /\ ~InHandler /\ RollOver

\* A workflow that hands getState() to the next run without waiting for the
\* handlers.
continueAsNewAtOnce == InHandler /\ RollOver

\* The workflow function returns.
complete ==
  /\ ~closed /\ inbox = <<>> /\ ~draining
  /\ closed' = TRUE
  /\ PollAtEnd
  /\ UNCHANGED <<log, baseOffset, publisher, draining, run, inbox, now, appended>>

StreamStep ==
  \/ onPublish
  \/ \E o \in 0 .. End : truncate(o)
  \/ acceptPoll \/ refusePoll \/ wakePoll \/ answerPoll
  \/ detachPollers \/ continueAsNew \/ continueAsNewAtOnce \/ complete
=============================================================================
