------------------------ MODULE StreamPublisherProofs ------------------------
(***************************************************************************)
(* The publisher's invariant, and that every step keeps it, for every      *)
(* value of the constants where every item can be encoded                  *)
(* (Unencodable = {}).  StreamClientProofs shows the types and states the  *)
(* theorems.                                                               *)
(*                                                                         *)
(* The heart of the invariant is the set of batches that are anywhere on   *)
(* their way, in the buffer, pending, or in the workflow's inbox, each     *)
(* with the number it has or will get: batches with different numbers      *)
(* share no item (BatchInv), and the number the workflow remembers tells   *)
(* those it has from those it has not (SeenInv), for as long as a batch    *)
(* can still arrive (TimeInv).  Around it stand the log (LogInv), who runs *)
(* a flush (FlushInv), and what became of each item (LossInv, BarrierInv). *)
(***************************************************************************)
EXTENDS StreamClient, TLAPS

-----------------------------------------------------------------------------
(* Types                                                                   *)

\* An item by where it was published: n is its number, or its place in the log.
Item == [by : {"client", "workflow"}, n : Nat, topic : Topics]
Batch == [items : Seq(Item), sequence : Nat]
Entry == [offset : Nat, item : Item]
Replies == [kind : {"none", "draining", "truncated", "notFound", "completed", "items"},
            items : Seq(Entry), next : Nat, more : BOOLEAN]

\* The poll on its way, and the workflow's part of the state.
PollType == [stage : {"none", "sent", "parked", "woken", "replied"}, from : Nat, run : Nat,
             reply : Replies]

StreamTypes ==
  /\ log \in Seq(Item) /\ appended \in Seq(Item) /\ baseOffset \in Nat
  /\ publisher \in [seq : Nat, seen : Nat]
  /\ inbox \in Seq(Batch)
  /\ poll \in PollType /\ (poll.stage = "replied" => poll.reply.kind # "none")
  /\ run \in Nat /\ now \in Nat

\* The publisher's part.
PendingType == [items : Seq(Item), seq : Nat, startedAt : Nat]
FlushType == [owner : {"none", "flusher", "caller"},
              stage : {"none", "sending", "done", "failed", "expired", "nothing"},
              arrived : BOOLEAN, sentAt : Nat]
CallType == [op : {"none", "flush", "flushOnce", "join", "drain"},
             at : {"none", "ready", "flushing", "waiting", "joining"},
             target : Nat, barrier : SUBSET Item]
PublisherTypes ==
  /\ published \in Nat /\ sequence \in Nat
  /\ buffer \in Seq(Item)
  /\ pending \in PendingType
  /\ flusher \in {"undefined", "sleeping", "ready", "flushing", "waiting", "ended"}
  /\ flusherError \in BOOLEAN
  /\ currentFlush \in FlushType
  /\ call \in CallType
  /\ dropped \in SUBSET Item /\ told \in SUBSET Item /\ confirmed \in SUBSET Item

\* The subscription's part, and all of it.
SubType == [state : {"ready", "waiting", "yielding", "ended", "failed"}, offset : Nat,
            items : Seq(Entry), next : Nat]
SubscriberTypes ==
  /\ sub \in SubType
  /\ given \in Seq(Entry)

TypeOK == StreamTypes /\ PublisherTypes /\ SubscriberTypes

-----------------------------------------------------------------------------
(* The invariant                                                           *)

\* Two sequences have no element in common.
Disjoint(q, r) == Range(q) \cap Range(r) = {}

\* The batches on their way.  What is in the buffer will be sent under the
\* number after those that are taken.
Taken == IF pending.items # <<>> THEN pending.seq ELSE sequence
Pending == IF pending.items # <<>> THEN {[items |-> pending.items, sequence |-> pending.seq]} ELSE {}
Buffered == [items |-> buffer, sequence |-> Taken + 1]
Batches == Range(inbox) \cup Pending \cup {Buffered}

\* A number is of one batch, and no item is in two; a batch holds items published so far, none twice.
Apart(batches) ==
  \A a, b \in batches : IF a.sequence = b.sequence THEN a = b ELSE Disjoint(a.items, b.items)
Published(q, count) ==
  IsInjective(q) /\ \A i \in Range(q) : i.by = "client" /\ i.n \in 1 .. count

\* The batches in the inbox come in the order of their numbers, which are those taken so far.
BatchInv ==
  /\ Apart(Batches)
  /\ \A a \in Batches : Published(a.items, published)
  /\ \A i, j \in DOMAIN inbox : i <= j => inbox[i].sequence <= inbox[j].sequence
  /\ \A a \in Range(inbox) : a.sequence \in 1 .. Taken
  /\ publisher.seq <= Taken
  /\ pending.items # <<>> => pending.seq = sequence + 1

\* Every item has its offset for good, and no item has two.
LogInv ==
  /\ baseOffset <= Len(appended)
  /\ log = SubSeq(appended, baseOffset + 1, Len(appended))
  /\ IsInjective(appended)
  /\ \A i \in DOMAIN appended :
       IF appended[i].by = "workflow" THEN appended[i].n = i ELSE appended[i].n \in 1 .. published

\* A signal is sent while its batch may be retried, and arrives, if at all, within RpcTime.
TimeInv ==
  /\ pending.items # <<>> => pending.startedAt <= now
  /\ currentFlush.stage = "sending" =>
       /\ pending.items # <<>>
       /\ currentFlush.sentAt \in pending.startedAt .. pending.startedAt + MaxRetryDuration
       /\ ~currentFlush.arrived => now <= currentFlush.sentAt + RpcTime

\* The workflow has the batches up to the number it remembers and no others.
\* It may have forgotten the pending one, but not while that can arrive again.
SeenInv ==
  /\ \A a \in Batches : a.sequence <= publisher.seq => Range(a.items) \subseteq Range(appended)
  /\ \A a \in Range(inbox) \cup {Buffered} : a.sequence > publisher.seq => Disjoint(a.items, appended)
  /\ pending.items # <<>> =>
       IF pending.seq <= publisher.seq THEN pending.startedAt <= publisher.seen
       ELSE now < pending.startedAt + Ttl => Disjoint(pending.items, appended)

\* One flush at a time, of the flusher or of a call; its batch is pending until it succeeds, and the
\* flusher does not wait for more with a batch left pending.
FlushInv ==
  /\ (call.op = "none" <=> call.at = "none") /\ (call.op = "join" <=> call.at = "joining")
  /\ (currentFlush.owner = "none" <=> currentFlush.stage = "none")
  /\ (currentFlush.owner = "flusher" <=> flusher = "flushing")
  /\ (currentFlush.owner = "caller" <=> call.at = "flushing")
  /\ Succeeded => pending.items = <<>>
  /\ currentFlush.stage = "sending" /\ currentFlush.arrived => Range(pending.items) \subseteq Accepted
  /\ flusher = "ready" => pending.items = <<>> \/ currentFlush.stage = "sending"
  /\ call.op = "flush" /\ call.at = "ready" => currentFlush.stage # "expired"

\* What was given up is told, or will be told, and every number published is accounted for.
LossInv ==
  /\ told \subseteq dropped
  /\ flusherError \/ currentFlush.stage = "expired" \/ dropped \subseteq told
  /\ 1 .. published \subseteq Numbers(Unsent \cup Accepted \cup dropped)

\* What a flush() waits for is done with, or will have been sent under a number
\* it waits for.
Awaited(i, target) ==
  \/ i \in Accepted \cup dropped
  \/ i \in Range(pending.items) /\ pending.items # <<>> /\ pending.seq <= target
  \/ i \in Range(buffer) /\ Taken < target
Awaits(c) ==
  /\ c.op # "flush" => c.barrier = {}
  /\ c.op = "flush" => \A i \in c.barrier : Awaited(i, c.target)
BarrierInv == confirmed \subseteq Accepted \cup told /\ Awaits(call)

\* The invariant of the publisher and the workflow's log.
ClientInv ==
  TypeOK /\ TimeInv /\ BatchInv /\ LogInv /\ SeenInv /\ FlushInv /\ LossInv /\ BarrierInv

-----------------------------------------------------------------------------
\* The actions, by what they may change.
ClientStep == signalArrives \/ Publisher \/ flush \/ dispose \/ \E t \in Topics : publish(t)
WorkflowStep == StreamStep \/ \E t \in Topics : publishToTopic(t)

\* A step is of the workflow, of the publisher, of the subscription, or of time.
LEMMA StepKinds ==
  ASSUME [Next]_vars
  PROVE  \/ WorkflowStep /\ UNCHANGED <<publisherVars, subscriberVars>>
         \/ ClientStep /\ UNCHANGED subscriberVars
         \/ tick \/ Subscriber \/ pollTimesOut \/ UNCHANGED vars
  <1>1. UsedTopics \subseteq Topics BY StreamAssumption, Zenon DEF UsedTopics
  <1>2. ClientStep => UNCHANGED subscriberVars
    BY Zenon DEF ClientStep, Publisher, signalArrives, flush, dispose, publish, signalReturns, settle,
           flusherFlushes, flusherEnds, disposeJoins, callFlushes, callReturns
  <1> QED BY <1>1, <1>2, Zenon DEF Next, Workflow, WorkflowStep, ClientStep

-----------------------------------------------------------------------------
(* The elements of sequences                                               *)

\* Range of what the code builds with push and concat, and takes with shift.
LEMMA RangeEmpty == Range(<<>>) = {}
  BY DEF Range

\* Append adds its element.
LEMMA RangeAppend ==
  ASSUME NEW S, NEW s \in Seq(S), NEW e \in S
  PROVE  Range(Append(s, e)) = Range(s) \cup {e}
  <1>1. /\ DOMAIN Append(s, e) = 1 .. Len(s) + 1 /\ DOMAIN s = 1 .. Len(s) /\ Len(s) \in Nat
        /\ \A i \in 1 .. Len(s) : Append(s, e)[i] = s[i]
        /\ Append(s, e)[Len(s) + 1] = e
    OBVIOUS
  <1>2. Range(s) \cup {e} \subseteq Range(Append(s, e)) BY <1>1 DEF Range
  <1>3. Range(Append(s, e)) \subseteq Range(s) \cup {e} BY <1>1 DEF Range
  <1> QED BY <1>2, <1>3, Zenon

\* A sequence consists of its head and its tail.
LEMMA RangeTail ==
  ASSUME NEW S, NEW s \in Seq(S), s # <<>>
  PROVE  Range(s) = Range(Tail(s)) \cup {Head(s)}
  <1>1. /\ Tail(s) \in Seq(S) /\ Len(Tail(s)) = Len(s) - 1 /\ Head(s) = s[1]
        /\ \A i \in 1 .. Len(Tail(s)) : Tail(s)[i] = s[i + 1]
        /\ DOMAIN s = 1 .. Len(s) /\ Len(s) \in Nat /\ Len(s) > 0
    OBVIOUS
  <1>2. DOMAIN Tail(s) = 1 .. Len(s) - 1 BY <1>1
  <1>3. ASSUME NEW i \in DOMAIN s PROVE s[i] \in Range(Tail(s)) \cup {Head(s)}
    <2>1. CASE i = 1 BY <1>1, <2>1, Zenon
    <2>2. CASE i # 1
      <3>1. i - 1 \in DOMAIN Tail(s) /\ Tail(s)[i - 1] = s[i] BY <1>1, <1>2, <2>2
      <3> QED BY <3>1, Zenon DEF Range
    <2> QED BY <2>1, <2>2, Zenon
  <1>4. Range(Tail(s)) \cup {Head(s)} \subseteq Range(s) BY <1>1, <1>2 DEF Range
  <1> QED BY <1>3, <1>4, Zenon DEF Range

\* Concatenation has the elements of both.
LEMMA RangeConcat ==
  ASSUME NEW S, NEW s \in Seq(S), NEW t \in Seq(S)
  PROVE  Range(s \o t) = Range(s) \cup Range(t)
  <1>1. /\ DOMAIN (s \o t) = 1 .. Len(s) + Len(t)
        /\ DOMAIN s = 1 .. Len(s) /\ DOMAIN t = 1 .. Len(t) /\ Len(s) \in Nat /\ Len(t) \in Nat
        /\ \A i \in 1 .. Len(s) + Len(t) : (s \o t)[i] = IF i <= Len(s) THEN s[i] ELSE t[i - Len(s)]
    OBVIOUS
  <1>2. ASSUME NEW i \in 1 .. Len(s) + Len(t) PROVE (s \o t)[i] \in Range(s) \cup Range(t)
    <2>1. CASE i <= Len(s) BY <1>1, <2>1 DEF Range
    <2>2. CASE i > Len(s)
      <3>1. i - Len(s) \in DOMAIN t /\ (s \o t)[i] = t[i - Len(s)] BY <1>1, <2>2
      <3> QED BY <3>1, Zenon DEF Range
    <2> QED BY <1>1, <2>1, <2>2
  <1>3. Range(s) \subseteq Range(s \o t) BY <1>1 DEF Range
  <1>4. ASSUME NEW i \in DOMAIN t PROVE t[i] \in Range(s \o t)
    <2>1. i + Len(s) \in DOMAIN (s \o t) /\ (s \o t)[i + Len(s)] = t[i] BY <1>1
    <2> QED BY <2>1, Zenon DEF Range
  <1> QED BY <1>1, <1>2, <1>3, <1>4, Zenon DEF Range

-----------------------------------------------------------------------------
(* The steps that bear on the batches                                      *)

serverVars == <<log, baseOffset, publisher, inbox, now, appended>>
batchVars == <<published, buffer, pending, sequence, currentFlush>>

\* What _doFlush does.
GivesUp(owner) ==
  /\ pending.items # <<>> /\ now - pending.startedAt > MaxRetryDuration
  /\ sequence' = pending.seq /\ pending' = NoPending /\ buffer' = buffer
  /\ dropped' = dropped \cup Range(pending.items)
  /\ currentFlush' = Flushing(owner, "expired")
SendsAgain(owner) ==
  /\ pending.items # <<>> /\ now - pending.startedAt <= MaxRetryDuration
  /\ currentFlush' = Flushing(owner, "sending")
  /\ UNCHANGED <<buffer, pending, sequence, dropped>>
SendsNew(owner) ==
  /\ pending.items = <<>> /\ buffer # <<>>
  /\ pending' = [items |-> buffer, seq |-> sequence + 1, startedAt |-> now] /\ buffer' = <<>>
  /\ currentFlush' = Flushing(owner, "sending")
  /\ UNCHANGED <<sequence, dropped>>
FindsNothing(owner) ==
  /\ pending.items = <<>> /\ buffer = <<>>
  /\ currentFlush' = Flushing(owner, "nothing")
  /\ UNCHANGED <<buffer, pending, sequence, dropped>>
FlushStep(owner) ==
  Idle /\ (GivesUp(owner) \/ SendsAgain(owner) \/ SendsNew(owner) \/ FindsNothing(owner))

\* _doFlush does one of these, where nothing fails to be encoded.
LEMMA FlushCases ==
  ASSUME Unencodable = {}, NEW owner, Idle, _doFlush(owner)
  PROVE  FlushStep(owner)
  BY Zenon DEF FlushStep, _doFlush, Expire, GivesUp, SendsAgain, SendsNew, FindsNothing

\* What the workflow does to its log and its memory of publishers.
ServerStep ==
  onPublish \/ (\E t \in Topics : publishToTopic(t)) \/ (\E o \in 0 .. End : truncate(o)) \/ RollOver

\* The steps that touch the batches, the workflow's log or time; all others leave them alone.
LEMMA BatchSteps ==
  ASSUME Unencodable = {}, [Next]_vars
  PROVE  \/ UNCHANGED <<serverVars, batchVars, dropped>>
         \/ ServerStep /\ UNCHANGED <<batchVars, dropped>>
         \/ (\E t \in Topics : publish(t)) /\ UNCHANGED <<serverVars, dropped>>
         \/ /\ \E owner \in {"flusher", "caller"} : FlushStep(owner)
            /\ UNCHANGED <<serverVars, published>>
         \/ signalArrives
         \/ (signalReturns \/ settle) /\ UNCHANGED <<serverVars, dropped>>
         \/ tick
  <1> USE DEF serverVars, batchVars, streamVars, publisherVars, subscriberVars
  <1>1. CASE WorkflowStep /\ UNCHANGED <<publisherVars, subscriberVars>>
    <2>1. CASE ServerStep BY <1>1, <2>1, Zenon
    <2>2. CASE ~ServerStep
      <3>1. acceptPoll \/ refusePoll \/ wakePoll \/ answerPoll \/ detachPollers \/ complete
        BY <1>1, <2>2, Zenon DEF ServerStep, WorkflowStep, StreamStep, continueAsNew, continueAsNewAtOnce
      <3>2. UNCHANGED serverVars
        BY <3>1, Zenon DEF acceptPoll, refusePoll, wakePoll, answerPoll, detachPollers, complete
      <3> QED BY <1>1, <3>2, Zenon
    <2> QED BY <2>1, <2>2, Zenon
  <1>2. CASE \E t \in Topics : publish(t) BY <1>2, Zenon DEF publish
  <1>3. CASE flusherFlushes
    <2>1. CASE Idle BY <1>3, <2>1, FlushCases, Zenon DEF flusherFlushes
    <2>2. CASE ~Idle BY <1>3, <2>2, Zenon DEF flusherFlushes
    <2> QED BY <2>1, <2>2, Zenon
  <1>4. CASE callFlushes
    <2>1. CASE Idle BY <1>4, <2>1, FlushCases, Zenon DEF callFlushes
    <2>2. CASE ~Idle BY <1>4, <2>2, Zenon DEF callFlushes
    <2> QED BY <2>1, <2>2, Zenon
  <1>5. CASE flusherEnds BY <1>5, Zenon DEF flusherEnds
  <1>6. CASE disposeJoins BY <1>6, Zenon DEF disposeJoins
  <1>7. CASE callReturns BY <1>7, Zenon DEF callReturns
  <1>8. CASE flush BY <1>8, Zenon DEF flush
  <1>9. CASE dispose BY <1>9, Zenon DEF dispose
  <1>10. CASE signalReturns BY <1>10, Zenon DEF signalReturns
  <1>11. CASE settle BY <1>11, Zenon DEF settle
  <1>12. CASE Subscriber \/ pollTimesOut
    BY <1>12, Zenon DEF Subscriber, startPoll, receivePoll, yield, pollTimesOut
  <1>13. CASE UNCHANGED vars BY <1>13, Zenon DEF vars
  <1>14. CASE ClientStep
    BY <1>2, <1>3, <1>4, <1>5, <1>6, <1>7, <1>8, <1>9, <1>10, <1>11, <1>14, Zenon
       DEF ClientStep, Publisher
  <1> QED BY <1>1, <1>12, <1>13, <1>14, StepKinds, Zenon

-----------------------------------------------------------------------------
(* Times                                                                   *)

\* Time passes no further than a signal on its way allows, and a retry starts in time.
LEMMA TimeStep ==
  ASSUME Unencodable = {}, TypeOK, TimeInv, [Next]_vars
  PROVE  TimeInv'
  <1>1. /\ pending.startedAt \in Nat /\ now \in Nat /\ currentFlush.sentAt \in Nat
        /\ MaxRetryDuration \in Nat /\ RpcTime \in Nat
        /\ currentFlush \in FlushType /\ pending \in PendingType
    BY ClientAssumption, Zenon DEF TypeOK, StreamTypes, PublisherTypes, PendingType, FlushType
  <1> USE DEF TimeInv
  <1>2. CASE UNCHANGED batchVars /\ now' = now BY <1>2, Zenon DEF batchVars
  <1>3. CASE UNCHANGED <<serverVars, pending, currentFlush>> BY <1>3, Zenon DEF serverVars
  <1>4. ASSUME NEW owner, FlushStep(owner), UNCHANGED serverVars PROVE TimeInv'
    <2> USE DEF Flushing, serverVars
    <2>1. CASE GivesUp(owner)
      <3>1. currentFlush'.stage = "expired" /\ pending'.items = <<>> BY <2>1, Zenon DEF GivesUp, NoPending
      <3> QED BY <3>1, Zenon
    <2>2. CASE SendsAgain(owner)
      <3>1. /\ currentFlush'.sentAt = now /\ pending' = pending /\ now' = now
            /\ pending.items # <<>> /\ now - pending.startedAt <= MaxRetryDuration
        BY <1>4, <2>2, Zenon DEF SendsAgain
      <3>2. now \in pending.startedAt .. pending.startedAt + MaxRetryDuration BY <1>1, <3>1
      <3> QED BY <1>1, <3>1, <3>2
    <2>3. CASE SendsNew(owner)
      <3>1. /\ currentFlush'.sentAt = now /\ now' = now
            /\ pending'.items = buffer /\ buffer # <<>> /\ pending'.startedAt = now
        BY <1>4, <2>3, Zenon DEF SendsNew
      <3> QED BY <1>1, <3>1
    <2>4. CASE FindsNothing(owner)
      <3>1. /\ currentFlush'.stage = "nothing" /\ pending' = pending /\ now' = now
        BY <1>4, <2>4, Zenon DEF FindsNothing
      <3> QED BY <3>1, Zenon
    <2> QED BY <1>4, <2>1, <2>2, <2>3, <2>4, Zenon DEF FlushStep
  <1>5. CASE signalArrives
    <2>1. /\ currentFlush'.stage = "sending" /\ currentFlush'.arrived = TRUE
          /\ currentFlush'.sentAt = currentFlush.sentAt /\ currentFlush.stage = "sending"
          /\ pending' = pending /\ now' = now
      BY <1>1, <1>5, Zenon DEF signalArrives, FlushType
    <2> QED BY <1>1, <2>1, Zenon
  <1>6. CASE signalReturns
    <2>1. /\ currentFlush'.stage \in {"done", "failed"} /\ now' = now
          /\ pending' = NoPending \/ pending' = pending
      BY <1>1, <1>6, Zenon DEF signalReturns, FlushType, streamVars
    <2> QED BY <2>1 DEF NoPending
  <1>7. CASE settle
    <2>1. currentFlush'.stage = "none" /\ pending' = pending /\ now' = now
      BY <1>7, Zenon DEF settle, NoFlush, streamVars
    <2> QED BY <2>1, Zenon
  <1>8. CASE tick
    <2>1. /\ now' = now + 1 /\ pending' = pending /\ currentFlush' = currentFlush
          /\ (currentFlush.stage = "sending" /\ ~currentFlush.arrived) => now - currentFlush.sentAt < RpcTime
      BY <1>8, Zenon DEF tick, publisherVars
    <2> QED BY <1>1, <2>1
  <1>9. CASE ServerStep /\ UNCHANGED batchVars
    <2>1. now' = now BY <1>9, Zenon DEF ServerStep, onPublish, publishToTopic, truncate, RollOver
    <2> QED BY <1>2, <1>9, <2>1, Zenon
  <1>10. ASSUME NEW t \in Topics, publish(t) PROVE TimeInv'
    BY <1>3, <1>10, Zenon DEF publish, streamVars, serverVars
  <1> QED BY <1>2, <1>4, <1>5, <1>6, <1>7, <1>8, <1>9, <1>10, BatchSteps, Zenon DEF serverVars

-----------------------------------------------------------------------------
(* Batches                                                                 *)

\* The batches on their way are batches.
LEMMA BatchTypes ==
  ASSUME TypeOK
  PROVE  /\ Taken \in Nat /\ Batches \subseteq Batch
         /\ \A a \in Batches : a.items \in Seq(Item) /\ a.sequence \in Nat
  <1>1. Taken \in Nat BY Zenon DEF Taken, TypeOK, PublisherTypes, PendingType
  <1>2. Range(inbox) \subseteq Batch BY DEF Range, TypeOK, StreamTypes
  <1>3. Pending \subseteq Batch BY DEF Pending, TypeOK, PublisherTypes, PendingType, Batch
  <1>4. Buffered \in Batch BY <1>1 DEF Buffered, TypeOK, PublisherTypes, Batch
  <1>5. Batches \subseteq Batch BY <1>2, <1>3, <1>4, Zenon DEF Batches
  <1> QED BY <1>1, <1>5, Zenon DEF Batch

\* The flush that is under way has a batch, which is pending.
LEMMA PendingIn ==
  ASSUME pending.items # <<>>
  PROVE  [items |-> pending.items, sequence |-> pending.seq] \in Batches /\ Taken = pending.seq
  BY Zenon DEF Batches, Pending, Taken

\* What is in the inbox is in order.
LEMMA InboxTail ==
  ASSUME TypeOK, BatchInv, inbox # <<>>, inbox' = Tail(inbox)
  PROVE  /\ Range(inbox) = Range(inbox') \cup {Head(inbox)} /\ Head(inbox) \in Batch
         /\ \A i, j \in DOMAIN inbox' : i <= j => inbox'[i].sequence <= inbox'[j].sequence
         /\ \A a \in Range(inbox') : Head(inbox).sequence <= a.sequence
         /\ Head(inbox).sequence \in 1 .. Taken
  <1>1. inbox \in Seq(Batch) BY Zenon DEF TypeOK, StreamTypes
  <1>2. Range(inbox) = Range(inbox') \cup {Head(inbox)} BY <1>1, RangeTail, Zenon
  <1>3. /\ Tail(inbox) \in Seq(Batch) /\ Len(Tail(inbox)) = Len(inbox) - 1 /\ Head(inbox) = inbox[1]
        /\ \A i \in 1 .. Len(Tail(inbox)) : Tail(inbox)[i] = inbox[i + 1]
        /\ DOMAIN inbox = 1 .. Len(inbox) /\ Len(inbox) \in Nat /\ Len(inbox) > 0
    BY <1>1
  <1>4. DOMAIN inbox' = 1 .. Len(inbox) - 1 BY <1>3
  <1>5. \A i \in DOMAIN inbox' : inbox'[i] = inbox[i + 1] /\ i + 1 \in DOMAIN inbox BY <1>3, <1>4
  <1>6. ASSUME NEW i \in DOMAIN inbox', NEW j \in DOMAIN inbox', i <= j
        PROVE  inbox'[i].sequence <= inbox'[j].sequence
    BY <1>4, <1>5, <1>6 DEF BatchInv
  <1>7. ASSUME NEW i \in DOMAIN inbox' PROVE Head(inbox).sequence <= inbox'[i].sequence
    <2>1. 1 \in DOMAIN inbox /\ 1 <= i + 1 BY <1>3, <1>4
    <2> QED BY <1>3, <1>5, <2>1, Zenon DEF BatchInv
  <1>8. Head(inbox) \in Batch /\ Head(inbox).sequence \in 1 .. Taken BY <1>1, <1>2 DEF BatchInv, Range
  <1> QED BY <1>2, <1>6, <1>7, <1>8, Zenon DEF Range

\* The buffer becomes the pending batch.
LEMMA SendBatches ==
  ASSUME TypeOK, BatchInv, NEW owner, SendsNew(owner), UNCHANGED <<inbox, published>>
  PROVE  /\ Apart(Batches') /\ \A a \in Batches' : Published(a.items, published')
         /\ Taken' = Taken + 1 /\ Taken = sequence /\ Buffered' = [items |-> <<>>, sequence |-> Taken + 2]
         /\ Batches' = Batches \cup {Buffered'} /\ Pending' = {Buffered}
  <1>1. /\ pending.items = <<>> /\ buffer # <<>> /\ buffer' = <<>> /\ sequence' = sequence
        /\ pending' = [items |-> buffer, seq |-> sequence + 1, startedAt |-> now]
    BY Zenon DEF SendsNew
  <1>2. Taken = sequence /\ Taken' = sequence + 1 /\ Taken \in Nat BY <1>1, BatchTypes, Zenon DEF Taken
  <1>3. Buffered' = [items |-> <<>>, sequence |-> Taken + 2] BY <1>1, <1>2 DEF Buffered
  <1>4. Pending = {} /\ Pending' = {Buffered} BY <1>1, <1>2, Zenon DEF Pending, Buffered
  <1>5. Batches' = Batches \cup {Buffered'} BY <1>4, Zenon DEF Batches
  <1>6. \A a \in Batches : a.sequence \in Nat /\ a.sequence <= Taken + 1
    <2>1. \A a \in Range(inbox) : a.sequence \in Nat /\ a.sequence <= Taken BY <1>2 DEF BatchInv
    <2>2. Buffered.sequence = Taken + 1 BY Zenon DEF Buffered
    <2> QED BY <1>2, <1>4, <2>1, <2>2 DEF Batches
  <1>7. Buffered'.items = <<>> /\ Buffered'.sequence = Taken + 2 BY <1>3, Zenon
  <1>8. \A a \in Batches : a.sequence # Buffered'.sequence BY <1>2, <1>6, <1>7
  <1>9. \A s : Disjoint(s, <<>>) /\ Disjoint(<<>>, s) BY RangeEmpty, Zenon DEF Disjoint
  <1>10. Apart(Batches') BY <1>5, <1>7, <1>8, <1>9 DEF BatchInv, Apart
  <1>11. Published(<<>>, published) BY RangeEmpty DEF Published, IsInjective
  <1>12. \A a \in Batches' : Published(a.items, published') BY <1>5, <1>7, <1>11, Zenon DEF BatchInv
  <1> QED BY <1>2, <1>3, <1>4, <1>5, <1>10, <1>12, Zenon

\* Every step keeps the batches apart, under the numbers taken.
LEMMA BatchStep ==
  ASSUME Unencodable = {}, TypeOK, TimeInv, BatchInv, [Next]_vars
  PROVE  BatchInv'
  \* An element that is new leaves the others single.
  <1>InjectiveAppend. ASSUME NEW S, NEW s \in Seq(S), NEW e \in S, IsInjective(s), e \notin Range(s)
                      PROVE  IsInjective(Append(s, e))
    <2> USE <1>InjectiveAppend
    <2>1. /\ DOMAIN Append(s, e) = 1 .. Len(s) + 1 /\ DOMAIN s = 1 .. Len(s) /\ Len(s) \in Nat
          /\ \A i \in 1 .. Len(s) : Append(s, e)[i] = s[i]
          /\ Append(s, e)[Len(s) + 1] = e
      OBVIOUS
    <2>2. \A i \in 1 .. Len(s) : s[i] # e BY <2>1, Zenon DEF Range
    <2> QED BY <2>1, <2>2 DEF IsInjective
  \* Steps that only take batches away, or leave them as they are.
  <1>FewerBatches. ASSUME TypeOK, BatchInv, Batches' \subseteq Batches, published' = published
                   PROVE  Apart(Batches') /\ \A a \in Batches' : Published(a.items, published')
    BY <1>FewerBatches, Zenon DEF BatchInv, Apart
  \* A new item belongs to the batch that is in the buffer.
  <1>PublishBatches. ASSUME TypeOK, BatchInv, NEW t \in Topics, publish(t)
                     PROVE  Apart(Batches') /\ \A a \in Batches' : Published(a.items, published')
    <2> USE <1>PublishBatches
    <2> DEFINE i == [by |-> "client", n |-> published + 1, topic |-> t]
               old == Range(inbox) \cup Pending
    <2>1. /\ published' = published + 1 /\ buffer' = Append(buffer, i)
          /\ inbox' = inbox /\ pending' = pending /\ sequence' = sequence
      BY Zenon DEF publish, streamVars
    <2>2. /\ published \in Nat /\ buffer \in Seq(Item) /\ i \in Item /\ Taken \in Nat
          /\ i.by = "client" /\ i.n = published + 1
      BY BatchTypes DEF TypeOK, PublisherTypes, Item
    <2>3. Buffered' = [items |-> Append(buffer, i), sequence |-> Taken + 1]
      BY <2>1, Zenon DEF Buffered, Taken
    <2>4. Batches' = old \cup {Buffered'} /\ Batches = old \cup {Buffered}
      BY <2>1, Zenon DEF Batches, Pending
    <2>5. Range(buffer') = Range(buffer) \cup {i} BY <2>1, <2>2, RangeAppend
    <2> HIDE DEF i
    <2>6. \A a \in Batches : i \notin Range(a.items) BY <2>2 DEF BatchInv, Published
    <2>7. \A a \in old : a.sequence \in Nat /\ a.sequence <= Taken
      <3>1. \A a \in Range(inbox) : a.sequence \in Nat /\ a.sequence <= Taken BY <2>2 DEF BatchInv
      <3>2. \A a \in Pending : a.sequence = Taken BY DEF Pending, Taken
      <3> QED BY <2>2, <3>1, <3>2
    <2>8. Buffered.items = buffer /\ Buffered.sequence = Taken + 1 BY Zenon DEF Buffered
    <2>9. Buffered'.items = buffer' /\ Buffered'.sequence = Taken + 1 BY <2>1, <2>3, Zenon
    <2> HIDE DEF old
    <2>10. \A a \in old : a.sequence # Taken + 1 BY <2>2, <2>7
    <2>11. \A a \in old : Disjoint(a.items, buffer')
      <3>1. \A a \in old : Disjoint(a.items, buffer) BY <2>4, <2>8, <2>10, Zenon DEF BatchInv, Apart
      <3> QED BY <2>4, <2>5, <2>6, <3>1, Zenon DEF Disjoint
    <2>12. Apart(Batches')
      <3>1. SUFFICES ASSUME NEW a \in Batches', NEW b \in Batches'
                     PROVE  IF a.sequence = b.sequence THEN a = b ELSE Disjoint(a.items, b.items)
        BY Zenon DEF Apart
      <3>2. CASE a \in old /\ b \in old BY <2>4, <3>2, Zenon DEF BatchInv, Apart
      <3>3. CASE a \in old /\ b = Buffered' BY <2>9, <2>10, <2>11, <3>3, Zenon
      <3>4. CASE a = Buffered' /\ b \in old BY <2>9, <2>10, <2>11, <3>4, Zenon DEF Disjoint
      <3> QED BY <2>4, <3>2, <3>3, <3>4, Zenon
    <2>13. ASSUME NEW a \in Batches' PROVE Published(a.items, published')
      <3>1. CASE a \in old
        <4>1. Published(a.items, published) BY <2>4, <3>1, Zenon DEF BatchInv
        <4> QED BY <2>1, <2>2, <4>1 DEF Published
      <3>2. CASE a = Buffered'
        <4>1. Published(buffer, published) BY <2>4, <2>8, Zenon DEF BatchInv
        <4>2. IsInjective(buffer')
          BY <2>1, <2>2, <2>4, <2>6, <2>8, <4>1, <1>InjectiveAppend, Zenon DEF Published
        <4>3. \A e \in Range(buffer') : e.by = "client" /\ e.n \in 1 .. published + 1
          BY <2>2, <2>5, <4>1 DEF Published
        <4> QED BY <2>1, <2>9, <3>2, <4>2, <4>3, Zenon DEF Published
      <3> QED BY <2>4, <3>1, <3>2, Zenon
    <2> QED BY <2>12, <2>13, Zenon
  <1>0. /\ Taken \in Nat /\ published \in Nat /\ sequence \in Nat /\ pending.seq \in Nat
        /\ publisher.seq \in Nat /\ inbox \in Seq(Batch)
    BY BatchTypes, Zenon DEF TypeOK, PublisherTypes, PendingType, StreamTypes
  <1>1. CASE UNCHANGED <<inbox, publisher, published, buffer, pending, sequence>>
    <2>1. Batches' = Batches /\ Taken' = Taken BY <1>1, Zenon DEF Batches, Pending, Buffered, Taken
    <2> QED BY <1>1, <2>1, Zenon DEF BatchInv
  <1>2. CASE onPublish /\ UNCHANGED batchVars
    <2>1. /\ UNCHANGED <<published, buffer, pending, sequence>> /\ inbox # <<>> /\ inbox' = Tail(inbox)
          /\ publisher' = publisher \/ publisher' = [seq |-> Head(inbox).sequence, seen |-> now]
      BY <1>2, Zenon DEF onPublish, batchVars
    <2>2. Taken' = Taken /\ Batches' \subseteq Batches
      BY <2>1, InboxTail, Zenon DEF Batches, Pending, Buffered, Taken
    <2>3. publisher'.seq <= Taken BY <1>0, <2>1, InboxTail DEF BatchInv
    <2>4. \A i, j \in DOMAIN inbox' : i <= j => inbox'[i].sequence <= inbox'[j].sequence
      BY <2>1, InboxTail, Zenon
    <2>5. \A a \in Range(inbox') : a.sequence \in 1 .. Taken BY <2>1, InboxTail, Zenon DEF BatchInv
    <2> QED BY <2>1, <2>2, <2>3, <2>4, <2>5, <1>FewerBatches, Zenon DEF BatchInv
  <1>3. CASE RollOver /\ UNCHANGED batchVars
    <2>1. /\ UNCHANGED <<published, buffer, pending, sequence, inbox>>
          /\ publisher'.seq = publisher.seq \/ publisher'.seq = 0
      BY <1>3, Zenon DEF RollOver, Prune, batchVars
    <2>2. Batches' = Batches /\ Taken' = Taken BY <2>1, Zenon DEF Batches, Pending, Buffered, Taken
    <2>3. publisher'.seq <= Taken BY <1>0, <2>1 DEF BatchInv
    <2> QED BY <2>1, <2>2, <2>3, Zenon DEF BatchInv
  <1>4. ASSUME NEW t \in Topics, publish(t) PROVE BatchInv'
    <2>1. UNCHANGED <<pending, sequence, inbox, publisher>> BY <1>4, Zenon DEF publish, streamVars
    <2>2. Taken' = Taken BY <2>1, Zenon DEF Taken
    <2>3. Apart(Batches') /\ \A a \in Batches' : Published(a.items, published')
      BY <1>4, <1>PublishBatches, Zenon
    <2> QED BY <2>1, <2>2, <2>3, Zenon DEF BatchInv
  <1>5. ASSUME NEW owner, FlushStep(owner), UNCHANGED <<serverVars, published>> PROVE BatchInv'
    <2>0. UNCHANGED <<inbox, publisher, published>> BY <1>5, Zenon DEF serverVars
    <2>1. CASE GivesUp(owner)
      <3>1. /\ pending.items # <<>> /\ sequence' = pending.seq /\ buffer' = buffer /\ pending'.items = <<>>
        BY <2>1, Zenon DEF GivesUp, NoPending
      <3>2. Taken' = Taken BY <3>1, Zenon DEF Taken
      <3>3. Pending' = {} /\ Buffered' = Buffered BY <3>1, <3>2, Zenon DEF Pending, Buffered
      <3>4. Batches' \subseteq Batches BY <2>0, <3>3, Zenon DEF Batches
      <3> QED BY <2>0, <3>1, <3>2, <3>4, <1>FewerBatches, Zenon DEF BatchInv
    <2>2. CASE SendsNew(owner)
      <3>1. pending'.seq = sequence + 1 /\ sequence' = sequence BY <2>2, Zenon DEF SendsNew
      <3>2. /\ Apart(Batches') /\ \A a \in Batches' : Published(a.items, published')
            /\ Taken' = Taken + 1
        BY <2>0, <2>2, SendBatches, Zenon
      <3>3. \A a \in Range(inbox) : a.sequence \in 1 .. Taken + 1 BY <1>0 DEF BatchInv
      <3>4. publisher.seq <= Taken + 1 BY <1>0 DEF BatchInv
      <3> QED BY <2>0, <3>1, <3>2, <3>3, <3>4, Zenon DEF BatchInv
    <2>3. CASE SendsAgain(owner) \/ FindsNothing(owner)
      BY <1>1, <2>0, <2>3, Zenon DEF SendsAgain, FindsNothing
    <2> QED BY <1>5, <2>1, <2>2, <2>3, Zenon DEF FlushStep
  <1>6. CASE signalArrives
    <2> DEFINE b == [items |-> pending.items, sequence |-> pending.seq]
    <2>1. /\ UNCHANGED <<published, buffer, pending, sequence, publisher>> /\ pending.items # <<>>
          /\ inbox' = Append(inbox, b)
      BY <1>6, Zenon DEF signalArrives, TimeInv
    <2>2. b \in Batches /\ Taken = pending.seq /\ b \in Pending BY <2>1, PendingIn, Zenon DEF Pending
    <2>3. b.sequence = Taken /\ b \in Batch BY <2>2, BatchTypes, Zenon
    <2> HIDE DEF b
    <2>4. Range(inbox') = Range(inbox) \cup {b} BY <1>0, <2>1, <2>3, RangeAppend
    <2>5. Taken' = Taken /\ Batches' = Batches
      BY <2>1, <2>2, <2>4, Zenon DEF Batches, Pending, Buffered, Taken
    <2>6. /\ DOMAIN inbox' = 1 .. Len(inbox) + 1 /\ DOMAIN inbox = 1 .. Len(inbox) /\ Len(inbox) \in Nat
          /\ \A i \in 1 .. Len(inbox) : inbox'[i] = inbox[i]
          /\ inbox'[Len(inbox) + 1] = b
      BY <1>0, <2>1, <2>3
    <2>7. \A i \in DOMAIN inbox : inbox[i].sequence \in 1 .. Taken BY Zenon DEF BatchInv, Range
    <2>8. ASSUME NEW i \in DOMAIN inbox', NEW j \in DOMAIN inbox', i <= j
          PROVE  inbox'[i].sequence <= inbox'[j].sequence
      <3>1. CASE j \in DOMAIN inbox BY <2>6, <2>8, <3>1 DEF BatchInv
      <3>2. CASE j = Len(inbox) + 1 /\ i \in DOMAIN inbox BY <1>0, <2>3, <2>6, <2>7, <3>2
      <3>3. CASE j = Len(inbox) + 1 /\ i = j BY <1>0, <2>3, <2>6, <3>3
      <3> QED BY <2>6, <2>8, <3>1, <3>2, <3>3
    <2>9. \A a \in Range(inbox') : a.sequence \in 1 .. Taken
      BY <1>0, <2>1, <2>2, <2>3, <2>4 DEF BatchInv
    <2> QED BY <2>1, <2>5, <2>8, <2>9, Zenon DEF BatchInv
  <1>7. CASE signalReturns
    <2>0. UNCHANGED <<inbox, publisher, published, buffer>> BY <1>7, Zenon DEF signalReturns, streamVars
    <2>1. CASE UNCHANGED <<sequence, pending>> BY <1>1, <2>0, <2>1, Zenon
    <2>2. CASE sequence' = pending.seq /\ pending' = NoPending
      <3>1. pending.items # <<>> /\ pending'.items = <<>>
        BY <1>7, <2>2, Zenon DEF signalReturns, TimeInv, NoPending
      <3>2. Taken' = Taken BY <2>2, <3>1, Zenon DEF Taken
      <3>3. Pending' = {} /\ Buffered' = Buffered BY <2>0, <3>1, <3>2, Zenon DEF Pending, Buffered
      <3>4. Batches' \subseteq Batches BY <2>0, <3>3, Zenon DEF Batches
      <3> QED BY <2>0, <3>1, <3>2, <3>4, <1>FewerBatches, Zenon DEF BatchInv
    <2> QED BY <1>7, <2>1, <2>2, Zenon DEF signalReturns
  <1>8. CASE settle BY <1>1, <1>8, Zenon DEF settle, streamVars
  <1>9. CASE tick BY <1>1, <1>9, Zenon DEF tick, publisherVars
  <1>10. CASE ServerStep /\ ~onPublish /\ ~RollOver /\ UNCHANGED batchVars
    BY <1>1, <1>10, Zenon DEF ServerStep, publishToTopic, truncate, batchVars
  <1>11. CASE UNCHANGED <<serverVars, batchVars>> BY <1>1, <1>11, Zenon DEF serverVars, batchVars
  <1> QED BY <1>2, <1>3, <1>4, <1>5, <1>6, <1>7, <1>8, <1>9, <1>10, <1>11, BatchSteps, Zenon

-----------------------------------------------------------------------------
(* The log                                                                 *)

\* The log holds what was appended from the base offset on.
LEMMA LogElements ==
  ASSUME NEW S, NEW l \in Seq(S), NEW a \in Seq(S), NEW base \in Nat, base <= Len(a)
  PROVE  l = SubSeq(a, base + 1, Len(a)) <=>
           Len(l) = Len(a) - base /\ \A i \in 1 .. Len(l) : l[i] = a[base + i]
  <1> DEFINE s == SubSeq(a, base + 1, Len(a))
  <1>0. Len(a) \in Nat /\ Len(l) \in Nat OBVIOUS
  <1>1. \A i \in base + 1 .. Len(a) : a[i] \in S BY <1>0
  <1>2. /\ s \in Seq(S) /\ Len(s) = Len(a) - base
        /\ \A i \in 1 .. Len(a) - base : s[i] = a[base + i]
    <2>1. Len(s) = IF base + 1 <= Len(a) THEN Len(a) - (base + 1) + 1 ELSE 0
      BY <1>0, <1>1
    <2>2. s \in Seq(S) /\ \A i \in 1 .. Len(a) - (base + 1) + 1 : s[i] = a[base + 1 + i - 1]
      BY <1>0, <1>1
    <2> HIDE DEF s
    <2>3. Len(s) = Len(a) - base BY <1>0, <2>1
    <2>4. ASSUME NEW i \in 1 .. Len(a) - base PROVE s[i] = a[base + i]
      <3>1. i \in 1 .. Len(a) - (base + 1) + 1 /\ base + 1 + i - 1 = base + i BY <1>0
      <3> QED BY <2>2, <3>1, Zenon
    <2> QED BY <2>2, <2>3, <2>4, Zenon
  <1> HIDE DEF s
  <1>3. ASSUME Len(l) = Len(a) - base, \A i \in 1 .. Len(l) : l[i] = a[base + i] PROVE l = s
    <2>1. l \in [1 .. Len(l) -> S] /\ s \in [1 .. Len(l) -> S] BY <1>2, <1>3
    <2>2. \A i \in 1 .. Len(l) : l[i] = s[i] BY <1>2, <1>3, Zenon
    <2> QED BY <2>1, <2>2
  <1> QED BY <1>2, <1>3, Zenon DEF s

\* Both ends of a push.
LEMMA PushKeepsLog ==
  ASSUME TypeOK, LogInv, NEW q \in Seq(Item), Push(q), baseOffset' = baseOffset
  PROVE  /\ baseOffset' <= Len(appended') /\ log' = SubSeq(appended', baseOffset' + 1, Len(appended'))
         /\ Len(appended') = Len(appended) + Len(q)
         /\ \A i \in 1 .. Len(appended) : appended'[i] = appended[i]
         /\ \A i \in 1 .. Len(q) : appended'[Len(appended) + i] = q[i]
  <1>0. /\ log \in Seq(Item) /\ appended \in Seq(Item) /\ baseOffset \in Nat /\ Len(q) \in Nat
        /\ log' = log \o q /\ appended' = appended \o q /\ Len(log) \in Nat /\ Len(appended) \in Nat
        /\ baseOffset <= Len(appended)
    BY DEF TypeOK, StreamTypes, Push, LogInv
  <1>1. Len(log) = Len(appended) - baseOffset /\ \A i \in 1 .. Len(log) : log[i] = appended[baseOffset + i]
    BY <1>0, LogElements DEF LogInv
  <1>2. /\ log' \in Seq(Item) /\ Len(log') = Len(log) + Len(q)
        /\ \A i \in 1 .. Len(log) + Len(q) : log'[i] = IF i <= Len(log) THEN log[i] ELSE q[i - Len(log)]
    BY <1>0
  <1>3. /\ appended' \in Seq(Item) /\ Len(appended') = Len(appended) + Len(q)
        /\ \A i \in 1 .. Len(appended) + Len(q) :
             appended'[i] = IF i <= Len(appended) THEN appended[i] ELSE q[i - Len(appended)]
    BY <1>0
  <1>4. /\ \A i \in 1 .. Len(appended) : appended'[i] = appended[i]
        /\ \A i \in 1 .. Len(q) : appended'[Len(appended) + i] = q[i]
    <2>1. ASSUME NEW i \in 1 .. Len(q) PROVE appended'[Len(appended) + i] = q[i]
      <3>1. Len(appended) + i \in 1 .. Len(appended) + Len(q) /\ ~(Len(appended) + i <= Len(appended))
            /\ Len(appended) + i - Len(appended) = i
        BY <1>0
      <3> QED BY <1>3, <3>1
    <2> QED BY <1>0, <1>3, <2>1
  <1>5. \A i \in 1 .. Len(log') : log'[i] = appended'[baseOffset + i]
    <2> TAKE i \in 1 .. Len(log')
    <2>1. i \in 1 .. Len(log) + Len(q) /\ baseOffset + i \in 1 .. Len(appended) + Len(q)
      BY <1>0, <1>1, <1>2
    <2>2. CASE i <= Len(log)
      <3>1. i \in 1 .. Len(log) /\ baseOffset + i <= Len(appended) BY <1>0, <1>1, <2>1, <2>2
      <3>2. log'[i] = log[i] /\ log[i] = appended[baseOffset + i] BY <1>1, <1>2, <2>1, <2>2, <3>1, Zenon
      <3>3. appended'[baseOffset + i] = appended[baseOffset + i] BY <1>3, <2>1, <3>1, Zenon
      <3> QED BY <3>2, <3>3, Zenon
    <2>3. CASE ~(i <= Len(log))
      <3>1. PICK j : j = baseOffset + i BY Zenon
      <3>2. ~(j <= Len(appended)) /\ j - Len(appended) = i - Len(log) /\ j \in 1 .. Len(appended) + Len(q)
        BY <1>0, <1>1, <2>1, <2>3, <3>1
      <3>3. log'[i] = q[i - Len(log)] BY <1>2, <2>1, <2>3, Zenon
      <3>4. appended'[j] = q[j - Len(appended)] BY ONLY <1>3, <3>2, Zenon
      <3>5. appended'[j] = log'[i] BY ONLY <3>2, <3>3, <3>4, Zenon
      <3> QED BY ONLY <3>1, <3>5, Zenon
    <2> QED BY <2>2, <2>3, Zenon
  <1>6. Len(log') = Len(appended') - baseOffset /\ baseOffset <= Len(appended') BY <1>0, <1>1, <1>2, <1>3
  <1>7. log' = SubSeq(appended', baseOffset + 1, Len(appended'))
    <2>1. PICK l : l = log' BY Zenon
    <2>2. PICK a : a = appended' BY Zenon
    <2>3. /\ l \in Seq(Item) /\ a \in Seq(Item) /\ baseOffset <= Len(a)
          /\ Len(l) = Len(a) - baseOffset /\ \A i \in 1 .. Len(l) : l[i] = a[baseOffset + i]
      BY ONLY <1>2, <1>3, <1>5, <1>6, <2>1, <2>2, Zenon
    <2>4. l = SubSeq(a, baseOffset + 1, Len(a)) BY ONLY <1>0, <2>3, LogElements, SMTT(20)
    <2> QED BY ONLY <2>1, <2>2, <2>4, Zenon
  <1> QED BY <1>3, <1>4, <1>6, <1>7, Zenon

\* truncate() moves the base and leaves every offset its item.
LEMMA TruncateKeepsLog ==
  ASSUME TypeOK, LogInv, NEW o \in Nat, truncate(o)
  PROVE  /\ baseOffset' = o /\ o \in baseOffset + 1 .. Len(appended) /\ appended' = appended
         /\ log' = SubSeq(appended', baseOffset' + 1, Len(appended'))
  <1>0. /\ log \in Seq(Item) /\ appended \in Seq(Item) /\ baseOffset \in Nat
        /\ Len(log) \in Nat /\ Len(appended) \in Nat /\ baseOffset <= Len(appended)
    BY DEF TypeOK, StreamTypes, LogInv
  <1>1. Len(log) = Len(appended) - baseOffset /\ \A i \in 1 .. Len(log) : log[i] = appended[baseOffset + i]
    BY <1>0, LogElements DEF LogInv
  <1>2. /\ o \in baseOffset + 1 .. baseOffset + Len(log) /\ baseOffset' = o /\ appended' = appended
        /\ log' = SubSeq(log, (o - baseOffset) + 1, Len(log))
    BY Zenon DEF truncate, End
  <1>3. o - baseOffset \in Nat /\ o - baseOffset <= Len(log) BY <1>0, <1>2
  <1>4. log' \in Seq(Item) BY <1>0, <1>2, <1>3
  <1>5. /\ Len(log') = Len(log) - (o - baseOffset)
        /\ \A i \in 1 .. Len(log') : log'[i] = log[(o - baseOffset) + i]
    BY <1>0, <1>2, <1>3, <1>4, LogElements, Zenon
  <1>6. Len(log') = Len(appended) - o /\ o <= Len(appended) BY <1>0, <1>1, <1>2, <1>5
  <1>7. ASSUME NEW i \in 1 .. Len(log') PROVE log'[i] = appended[o + i]
    <2>1. (o - baseOffset) + i \in 1 .. Len(log) /\ baseOffset + ((o - baseOffset) + i) = o + i
      BY <1>0, <1>2, <1>5
    <2> QED BY <1>1, <1>5, <2>1, Zenon
  <1>8. log' = SubSeq(appended, o + 1, Len(appended)) BY <1>0, <1>4, <1>6, <1>7, LogElements
  <1> QED BY <1>0, <1>1, <1>2, <1>8

\* A batch the workflow takes has not been taken before.
LEMMA TakenIsNew ==
  ASSUME TypeOK, BatchInv, SeenInv, inbox # <<>>, ~(Head(inbox).sequence <= publisher.seq)
  PROVE  /\ Head(inbox) \in Batches /\ Head(inbox) \in Range(inbox)
         /\ Head(inbox).items \in Seq(Item) /\ Published(Head(inbox).items, published)
         /\ Disjoint(appended, Head(inbox).items)
  <1>1. inbox \in Seq(Batch) /\ publisher.seq \in Nat BY Zenon DEF TypeOK, StreamTypes
  <1>2. Head(inbox) \in Range(inbox) /\ Head(inbox) \in Batch BY <1>1, RangeTail
  <1>3. Head(inbox).items \in Seq(Item) /\ Head(inbox).sequence \in Nat BY <1>2, Zenon DEF Batch
  <1>4. Head(inbox) \in Batches BY <1>2, Zenon DEF Batches
  <1>5. Disjoint(Head(inbox).items, appended) BY <1>1, <1>2, <1>3 DEF SeenInv
  <1> QED BY <1>2, <1>3, <1>4, <1>5, Zenon DEF BatchInv, Disjoint

\* Every step keeps the log a suffix of all that was appended, nothing twice.
LEMMA LogStep ==
  ASSUME Unencodable = {}, TypeOK, BatchInv, LogInv, SeenInv, [Next]_vars
  PROVE  LogInv'
  \* Sequences with no element twice.
  <1>InjectiveConcat.
    ASSUME NEW S, NEW s \in Seq(S), NEW t \in Seq(S), IsInjective(s), IsInjective(t), Disjoint(s, t)
    PROVE  IsInjective(s \o t)
    <2> USE <1>InjectiveConcat
    <2>1. /\ DOMAIN (s \o t) = 1 .. Len(s) + Len(t)
          /\ DOMAIN s = 1 .. Len(s) /\ DOMAIN t = 1 .. Len(t) /\ Len(s) \in Nat /\ Len(t) \in Nat
          /\ \A i \in 1 .. Len(s) + Len(t) : (s \o t)[i] = IF i <= Len(s) THEN s[i] ELSE t[i - Len(s)]
      OBVIOUS
    <2>2. SUFFICES ASSUME NEW i \in 1 .. Len(s) + Len(t), NEW j \in 1 .. Len(s) + Len(t),
                          (s \o t)[i] = (s \o t)[j]
                   PROVE  i = j
      BY <2>1, Zenon DEF IsInjective
    <2>3. ASSUME NEW a \in 1 .. Len(s) + Len(t)
          PROVE  IF a <= Len(s) THEN a \in DOMAIN s /\ (s \o t)[a] = s[a]
                 ELSE a - Len(s) \in DOMAIN t /\ (s \o t)[a] = t[a - Len(s)]
      BY <2>1
    <2>4. CASE i <= Len(s) /\ j <= Len(s) BY <2>2, <2>3, <2>4, Zenon DEF IsInjective
    <2>5. CASE ~(i <= Len(s)) /\ ~(j <= Len(s))
      <3>1. i - Len(s) = j - Len(s) BY <2>2, <2>3, <2>5, Zenon DEF IsInjective
      <3> QED BY <2>1, <3>1
    <2>6. ASSUME NEW a \in 1 .. Len(s) + Len(t), NEW b \in 1 .. Len(s) + Len(t),
                 a <= Len(s), ~(b <= Len(s)), (s \o t)[a] = (s \o t)[b]
          PROVE  FALSE
      <3>1. s[a] \in Range(s) /\ t[b - Len(s)] \in Range(t) BY <2>3, <2>6, Zenon DEF Range
      <3> QED BY <2>3, <2>6, <3>1, Zenon DEF Disjoint
    <2> QED BY <2>2, <2>4, <2>5, <2>6, Zenon
  \* New items get the next offsets.
  <1>PushLog.
    ASSUME TypeOK, LogInv, NEW q \in Seq(Item), Push(q), baseOffset' = baseOffset, published' = published,
           IsInjective(q), Disjoint(appended, q),
           \A i \in DOMAIN q : IF q[i].by = "workflow" THEN q[i].n = Len(appended) + i
                               ELSE q[i].n \in 1 .. published
    PROVE  LogInv'
    <2> USE <1>PushLog
    <2>0. /\ appended \in Seq(Item) /\ appended' = appended \o q
          /\ Len(appended) \in Nat /\ DOMAIN appended = 1 .. Len(appended)
          /\ Len(q) \in Nat /\ DOMAIN q = 1 .. Len(q)
      BY DEF TypeOK, StreamTypes, Push
    <2>1. /\ baseOffset' <= Len(appended') /\ log' = SubSeq(appended', baseOffset' + 1, Len(appended'))
          /\ Len(appended') = Len(appended) + Len(q)
          /\ \A i \in 1 .. Len(appended) : appended'[i] = appended[i]
          /\ \A i \in 1 .. Len(q) : appended'[Len(appended) + i] = q[i]
      BY PushKeepsLog, Zenon
    <2>2. appended' \in Seq(Item) BY <2>0
    <2>3. DOMAIN appended' = 1 .. Len(appended) + Len(q) BY <2>1, <2>2
    <2>4. IsInjective(appended') BY <2>0, <1>InjectiveConcat, Zenon DEF LogInv
    <2>5. ASSUME NEW i \in DOMAIN appended'
          PROVE  IF appended'[i].by = "workflow" THEN appended'[i].n = i ELSE appended'[i].n \in 1 .. published
      <3>1. CASE i <= Len(appended)
        <4>1. i \in DOMAIN appended /\ appended'[i] = appended[i] BY <2>0, <2>1, <2>3, <3>1
        <4> QED BY <4>1, Zenon DEF LogInv
      <3>2. CASE ~(i <= Len(appended))
        <4>1. PICK j : j = i - Len(appended) BY Zenon
        <4>2. j \in 1 .. Len(q) /\ i = Len(appended) + j BY <2>0, <2>3, <3>2, <4>1
        <4>3. appended'[i] = q[j] BY <2>1, <4>2, Zenon
        <4> QED BY <2>0, <4>2, <4>3, Zenon
      <3> QED BY <3>1, <3>2, Zenon
    <2> QED BY <2>1, <2>4, <2>5, Zenon DEF LogInv
  <1>0. /\ appended \in Seq(Item) /\ DOMAIN appended = 1 .. Len(appended) /\ Len(appended) \in Nat
        /\ published \in Nat
    BY DEF TypeOK, StreamTypes, PublisherTypes
  <1>1. CASE UNCHANGED <<log, baseOffset, appended>> /\ published' \in {published, published + 1}
    <2>1. \A i \in DOMAIN appended :
            IF appended[i].by = "workflow" THEN appended[i].n = i ELSE appended[i].n \in 1 .. published'
      BY <1>0, <1>1 DEF LogInv
    <2> QED BY <1>1, <2>1, Zenon DEF LogInv
  <1>2. CASE onPublish /\ UNCHANGED batchVars
    <2>1. CASE Head(inbox).sequence <= publisher.seq
      BY <1>1, <1>2, <2>1, Zenon DEF onPublish, batchVars
    <2>2. CASE ~(Head(inbox).sequence <= publisher.seq)
      <3>1. Push(Head(inbox).items) /\ baseOffset' = baseOffset /\ published' = published /\ inbox # <<>>
        BY <1>2, <2>2, Zenon DEF onPublish, batchVars
      <3>2. PICK q : q = Head(inbox).items BY Zenon
      <3>3. q \in Seq(Item) /\ Published(q, published) /\ Disjoint(appended, q) /\ Push(q)
        BY <2>2, <3>1, <3>2, TakenIsNew, Zenon
      <3>4. /\ IsInjective(q)
            /\ \A i \in DOMAIN q : q[i].by = "client" /\ q[i].n \in 1 .. published
        BY <3>3, Zenon DEF Published, Range
      <3> QED BY <3>1, <3>3, <3>4, <1>PushLog, Zenon
    <2> QED BY <2>1, <2>2, Zenon
  <1>3. ASSUME NEW t \in Topics, publishToTopic(t), UNCHANGED batchVars PROVE LogInv'
    <2> DEFINE e == [by |-> "workflow", n |-> Len(appended) + 1, topic |-> t]
    <2>1. Push(<<e>>) /\ baseOffset' = baseOffset /\ published' = published
      BY <1>3, Zenon DEF publishToTopic, batchVars
    <2>2. e \in Item /\ e.by = "workflow" /\ e.n = Len(appended) + 1 BY <1>0 DEF Item
    <2> HIDE DEF e
    <2>3. PICK q : q = <<e>> BY Zenon
    <2>4. q \in Seq(Item) /\ DOMAIN q = {1} /\ q[1] = e BY <2>2, <2>3
    <2>5. IsInjective(q) /\ Range(q) = {e} BY <2>4, Zenon DEF IsInjective, Range
    <2>6. e \notin Range(appended) BY <1>0, <2>2 DEF LogInv, Range
    <2>7. Disjoint(appended, q) BY <2>5, <2>6, Zenon DEF Disjoint
    <2> QED BY <2>1, <2>2, <2>3, <2>4, <2>5, <2>7, <1>PushLog, Zenon
  <1>4. ASSUME NEW o \in 0 .. End, truncate(o), UNCHANGED batchVars PROVE LogInv'
    <2>1. o \in Nat BY DEF End, TypeOK, StreamTypes
    <2>2. /\ baseOffset' <= Len(appended') /\ appended' = appended
          /\ log' = SubSeq(appended', baseOffset' + 1, Len(appended'))
      BY <1>0, <1>4, <2>1, TruncateKeepsLog
    <2>3. published' = published BY <1>4, Zenon DEF batchVars
    <2> QED BY <2>2, <2>3, Zenon DEF LogInv
  <1>5. CASE RollOver /\ UNCHANGED batchVars BY <1>1, <1>5, Zenon DEF RollOver, batchVars
  <1>6. ASSUME NEW t \in Topics, publish(t) PROVE LogInv' BY <1>1, <1>6, Zenon DEF publish, streamVars
  <1>7. CASE UNCHANGED <<serverVars, published>> BY <1>1, <1>7, Zenon DEF serverVars
  <1>8. CASE signalArrives BY <1>1, <1>8, Zenon DEF signalArrives
  <1>9. CASE signalReturns BY <1>1, <1>9, Zenon DEF signalReturns, streamVars
  <1>10. CASE settle BY <1>1, <1>10, Zenon DEF settle, streamVars
  <1>11. CASE tick BY <1>1, <1>11, Zenon DEF tick, publisherVars
  <1> QED BY <1>2, <1>3, <1>4, <1>5, <1>6, <1>7, <1>8, <1>9, <1>10, <1>11, BatchSteps, Zenon DEF ServerStep, batchVars

-----------------------------------------------------------------------------
(* What the workflow has seen                                              *)

\* Every step keeps the number remembered telling the batches appended from those that are not: a
\* publisher is forgotten only when no signal of its pending batch can arrive any more.
LEMMA SeenStep ==
  ASSUME Unencodable = {}, TypeOK, TimeInv, BatchInv, LogInv, SeenInv, [Next]_vars
  PROVE  SeenInv'
  \* The workflow takes a batch.
  <1>TakeSeen.
    ASSUME TypeOK, TimeInv, BatchInv, SeenInv, onPublish, ~(Head(inbox).sequence <= publisher.seq),
           UNCHANGED batchVars
    PROVE  SeenInv'
    <2> USE <1>TakeSeen
    <2>0. /\ UNCHANGED <<published, buffer, pending, sequence, now>> /\ inbox # <<>> /\ inbox' = Tail(inbox)
          /\ publisher' = [seq |-> Head(inbox).sequence, seen |-> now]
          /\ appended' = appended \o Head(inbox).items
      BY Zenon DEF onPublish, Push, batchVars
    <2>1. PICK a : a = Head(inbox) BY Zenon
    <2>2. a \in Batches /\ a.items \in Seq(Item) /\ a.sequence \in Nat /\ Taken \in Nat /\ publisher.seq \in Nat
      BY <2>0, <2>1, TakenIsNew, BatchTypes, Zenon DEF TypeOK, StreamTypes
    <2>3. publisher'.seq = a.sequence /\ publisher'.seen = now BY <2>0, <2>1, Zenon
    <2>4. Range(appended') = Range(appended) \cup Range(a.items)
      BY <2>0, <2>1, <2>2, RangeConcat DEF TypeOK, StreamTypes
    <2>5. /\ \A b \in Range(inbox') : a.sequence <= b.sequence /\ b \in Range(inbox)
          /\ a.sequence <= Taken
      BY <2>0, <2>1, <2>2, InboxTail
    <2>6. Taken' = Taken /\ Buffered' = Buffered /\ Pending' = Pending
      BY <2>0, Zenon DEF Taken, Buffered, Pending
    <2>7. Buffered.sequence = Taken + 1 /\ Buffered \in Batches BY Zenon DEF Buffered, Batches
    <2>8. \A b \in Pending : b.sequence = Taken /\ b \in Batches BY DEF Pending, Taken, Batches
    <2>9. ASSUME NEW b \in Batches', b.sequence <= a.sequence PROVE b = a
      <3>1. b \in Batches /\ b.sequence \in Nat BY <2>5, <2>6, BatchTypes, Zenon DEF Batches
      <3>2. b.sequence = a.sequence
        <4>1. CASE b \in Range(inbox') BY <2>2, <2>5, <2>9, <3>1, <4>1
        <4>2. CASE b \in Pending BY <2>2, <2>5, <2>8, <2>9, <3>1, <4>2
        <4>3. CASE b = Buffered BY <2>2, <2>5, <2>7, <2>9, <4>3
        <4> QED BY <2>6, <4>1, <4>2, <4>3, Zenon DEF Batches
      <3> QED BY <2>2, <3>1, <3>2, Zenon DEF BatchInv, Apart
    <2>10. \A b \in Batches' : b.sequence <= publisher'.seq => Range(b.items) \subseteq Range(appended')
      BY <2>3, <2>4, <2>9, Zenon
    <2>11. \A b \in Batches : b.sequence > a.sequence => Disjoint(b.items, a.items)
      BY <2>2, BatchTypes DEF BatchInv, Apart
    <2>12. ASSUME NEW b \in Range(inbox') \cup {Buffered'}, b.sequence > publisher'.seq
           PROVE  Disjoint(b.items, appended')
      <3>1. b \in Range(inbox) \cup {Buffered} /\ b \in Batches BY <2>5, <2>6, Zenon DEF Batches
      <3>2. b.sequence > publisher.seq /\ b.sequence > a.sequence
        BY <2>0, <2>1, <2>2, <2>3, <2>12, <3>1, BatchTypes
      <3>3. Disjoint(b.items, appended) BY <3>1, <3>2, Zenon DEF SeenInv
      <3>4. Disjoint(b.items, a.items) BY <2>11, <3>1, <3>2, Zenon
      <3> QED BY <2>4, <3>3, <3>4, Zenon DEF Disjoint
    <2>13. ASSUME pending.items # <<>>
           PROVE  IF pending.seq <= a.sequence THEN pending.startedAt <= now
                  ELSE now < pending.startedAt + Ttl => Disjoint(pending.items, appended')
      <3>1. CASE pending.seq <= a.sequence BY <2>13, <3>1, Zenon DEF TimeInv
      <3>2. CASE ~(pending.seq <= a.sequence)
        <4>1. PICK b : b = [items |-> pending.items, sequence |-> pending.seq] BY Zenon
        <4>2. b \in Batches /\ b.items = pending.items /\ b.sequence = pending.seq
          BY <2>13, <4>1, PendingIn, Zenon
        <4>3. b.sequence \in Nat BY <4>2, BatchTypes, Zenon
        <4>4. b.sequence > a.sequence /\ ~(pending.seq <= publisher.seq)
          BY <2>0, <2>1, <2>2, <3>2, <4>2, <4>3
        <4>5. Disjoint(pending.items, a.items) BY <2>11, <4>2, <4>4, Zenon
        <4>6. now < pending.startedAt + Ttl => Disjoint(pending.items, appended)
          BY <2>13, <4>4, Zenon DEF SeenInv
        <4>7. Disjoint(pending.items, appended) => Disjoint(pending.items, appended')
          BY <2>4, <4>5, Zenon DEF Disjoint
        <4> QED BY <3>2, <4>6, <4>7, Zenon
      <3> QED BY <3>1, <3>2, Zenon
    <2> QED BY <2>0, <2>3, <2>10, <2>12, <2>13, Zenon DEF SeenInv
  \* The next run may have forgotten the publisher.
  <1>RollOverSeen. ASSUME TypeOK, BatchInv, SeenInv, RollOver, UNCHANGED batchVars
                   PROVE  SeenInv'
    <2> USE <1>RollOverSeen
    <2>0. /\ UNCHANGED <<published, buffer, pending, sequence, now, inbox, appended>> /\ inbox = <<>>
          /\ publisher' = Prune
      BY Zenon DEF RollOver, batchVars
    <2>1. /\ Batches' = Batches /\ Buffered' = Buffered /\ Taken' = Taken
          /\ Range(inbox) = {} /\ Batches = Pending \cup {Buffered}
      BY <2>0, RangeEmpty, Zenon DEF Batches, Pending, Buffered, Taken
    <2>2. CASE publisher' = publisher BY <2>0, <2>1, <2>2, Zenon DEF SeenInv
    <2>3. CASE publisher' # publisher
      <3>1. /\ publisher'.seq = 0 /\ publisher.seq \in Nat /\ publisher.seen \in Nat /\ now \in Nat /\ Ttl \in Nat
            /\ publisher.seq = 0 \/ now - publisher.seen >= Ttl
        BY <2>0, <2>3, StreamAssumption DEF Prune, TypeOK, StreamTypes
      <3>2. /\ Taken \in Nat /\ Buffered.sequence = Taken + 1 /\ publisher.seq <= Taken
            /\ sequence \in Nat /\ pending.startedAt \in Nat
        BY BatchTypes, Zenon DEF Buffered, BatchInv, TypeOK, PublisherTypes, PendingType
      <3>3. ASSUME pending.items # <<>> PROVE pending.seq \in Nat /\ pending.seq > 0
        BY <3>2, <3>3 DEF BatchInv
      <3>4. \A b \in Batches : ~(b.sequence <= 0)
        <4>1. \A b \in Pending : b.sequence = pending.seq /\ pending.items # <<>> BY DEF Pending
        <4> QED BY <2>1, <3>2, <3>3, <4>1
      <3>5. Disjoint(Buffered.items, appended) BY <3>1, <3>2 DEF SeenInv
      <3>6. ASSUME pending.items # <<>>, now < pending.startedAt + Ttl PROVE Disjoint(pending.items, appended)
        <4>1. ~(pending.seq <= publisher.seq)
          <5>1. ASSUME pending.seq <= publisher.seq PROVE FALSE
            <6>1. pending.startedAt <= publisher.seen BY <3>6, <5>1, Zenon DEF SeenInv
            <6>2. publisher.seq # 0 BY <3>3, <3>6, <5>1
            <6> QED BY <3>1, <3>2, <3>6, <6>1, <6>2
          <5> QED BY <5>1, Zenon
        <4> QED BY <3>6, <4>1, Zenon DEF SeenInv
      <3>7. pending.items # <<>> => ~(pending.seq <= 0) BY <3>3
      <3> QED BY <2>0, <2>1, <3>1, <3>4, <3>5, <3>6, <3>7, Zenon DEF SeenInv
    <2> QED BY <2>2, <2>3, Zenon
  <1>0. /\ Taken \in Nat /\ publisher.seq \in Nat /\ now \in Nat /\ Ttl \in Nat /\ published \in Nat
        /\ pending.startedAt \in Nat /\ pending.seq \in Nat
        /\ Buffered.sequence = Taken + 1 /\ Buffered.items = buffer /\ Buffered \in Batches
        /\ publisher.seq <= Taken
    BY BatchTypes, StreamAssumption, Zenon
    DEF TypeOK, StreamTypes, PublisherTypes, PendingType, Buffered, Batches, BatchInv
  <1>1. CASE /\ UNCHANGED <<publisher, appended>> /\ now' \in {now, now + 1} /\ Buffered' = Buffered
             /\ Range(inbox') \subseteq Range(inbox) /\ Pending' \subseteq Pending
             /\ pending' = pending \/ pending'.items = <<>>
    <2>1. Batches' \subseteq Batches BY <1>1, Zenon DEF Batches
    <2>2. ASSUME pending'.items # <<>>
          PROVE  IF pending'.seq <= publisher'.seq THEN pending'.startedAt <= publisher'.seen
                 ELSE now' < pending'.startedAt + Ttl => Disjoint(pending'.items, appended')
      <3>1. pending' = pending BY <1>1, <2>2, Zenon
      <3>2. now' < pending.startedAt + Ttl => now < pending.startedAt + Ttl BY <1>0, <1>1
      <3> QED BY <1>1, <2>2, <3>1, <3>2, Zenon DEF SeenInv
    <2> QED BY <1>1, <2>1, <2>2, Zenon DEF SeenInv
  <1>2. CASE UNCHANGED <<publisher, appended, inbox, buffer, pending, sequence>> /\ now' \in {now, now + 1}
    BY <1>1, <1>2, Zenon DEF Buffered, Pending, Taken
  <1>3. CASE onPublish /\ UNCHANGED batchVars
    <2>1. CASE Head(inbox).sequence <= publisher.seq
      <3>1. /\ UNCHANGED <<publisher, appended, buffer, pending, sequence, now>>
            /\ inbox # <<>> /\ inbox' = Tail(inbox)
        BY <1>3, <2>1, Zenon DEF onPublish, batchVars
      <3>2. Range(inbox') \subseteq Range(inbox) BY <3>1, InboxTail, Zenon
      <3> QED BY <1>1, <3>1, <3>2, Zenon DEF Buffered, Pending, Taken
    <2>2. CASE ~(Head(inbox).sequence <= publisher.seq) BY <1>3, <2>2, <1>TakeSeen, Zenon
    <2> QED BY <2>1, <2>2, Zenon
  <1>4. ASSUME NEW t \in Topics, publishToTopic(t), UNCHANGED batchVars PROVE SeenInv'
    <2> DEFINE e == [by |-> "workflow", n |-> Len(appended) + 1, topic |-> t]
    <2>1. /\ appended' = appended \o <<e>>
          /\ UNCHANGED <<publisher, inbox, buffer, pending, sequence, now>>
      BY <1>4, Zenon DEF publishToTopic, Push, batchVars
    <2>2. appended \in Seq(Item) /\ e \in Item /\ e.by = "workflow"
      BY DEF TypeOK, StreamTypes, Item
    <2> HIDE DEF e
    <2>3. PICK q : q = <<e>> BY Zenon
    <2>4. Range(appended') = Range(appended) \cup {e}
      <3>1. q \in Seq(Item) /\ DOMAIN q = {1} /\ q[1] = e BY <2>2, <2>3
      <3>2. Range(q) = {e} BY <3>1, Zenon DEF Range
      <3>3. Range(appended \o q) = Range(appended) \cup Range(q) BY <2>2, <3>1, RangeConcat
      <3> QED BY <2>1, <2>3, <3>2, <3>3, Zenon
    <2>5. \A a \in Batches : e \notin Range(a.items) BY <2>2, Zenon DEF BatchInv, Published
    <2>6. \A a \in Batches : Disjoint(a.items, appended) => Disjoint(a.items, appended')
      BY <2>4, <2>5, Zenon DEF Disjoint
    <2>7. /\ Batches' = Batches /\ Buffered' = Buffered /\ Range(inbox) \cup {Buffered} \subseteq Batches
      BY <2>1, Zenon DEF Batches, Buffered, Pending, Taken
    <2>8. pending.items # <<>> => (Disjoint(pending.items, appended) => Disjoint(pending.items, appended'))
      <3>1. ASSUME pending.items # <<>>, Disjoint(pending.items, appended)
            PROVE  Disjoint(pending.items, appended')
        <4>1. PICK b : b = [items |-> pending.items, sequence |-> pending.seq] BY Zenon
        <4>2. b \in Batches /\ b.items = pending.items BY <3>1, <4>1, PendingIn, Zenon
        <4> QED BY <2>6, <3>1, <4>2, Zenon
      <3> QED BY <3>1, Zenon
    <2> QED BY <2>1, <2>4, <2>6, <2>7, <2>8, Zenon DEF SeenInv
  <1>5. ASSUME NEW o \in 0 .. End, truncate(o), UNCHANGED batchVars PROVE SeenInv'
    BY <1>2, <1>5, Zenon DEF truncate, batchVars
  <1>6. CASE RollOver /\ UNCHANGED batchVars BY <1>6, <1>RollOverSeen, Zenon
  <1>7. ASSUME NEW t \in Topics, publish(t) PROVE SeenInv'
    <2> DEFINE e == [by |-> "client", n |-> published + 1, topic |-> t]
    <2>1. /\ buffer' = Append(buffer, e)
          /\ UNCHANGED <<publisher, inbox, appended, pending, sequence, now>>
      BY <1>7, Zenon DEF publish, streamVars
    <2>2. buffer \in Seq(Item) /\ e \in Item /\ e.by = "client" /\ e.n = published + 1
      BY <1>0 DEF TypeOK, PublisherTypes, Item
    <2> HIDE DEF e
    <2>3. Range(buffer') = Range(buffer) \cup {e} BY <2>1, <2>2, RangeAppend
    <2>4. e \notin Range(appended) BY <1>0, <2>2, SMTT(20) DEF LogInv, Range
    <2>5. Buffered'.items = buffer' /\ Buffered'.sequence = Taken + 1 BY <2>1, Zenon DEF Buffered, Taken
    <2>6. Disjoint(buffer, appended) BY <1>0 DEF SeenInv
    <2>7. Disjoint(buffer', appended') BY <2>1, <2>3, <2>4, <2>6, Zenon DEF Disjoint
    <2>8. Batches' = Range(inbox) \cup Pending \cup {Buffered'} BY <2>1, Zenon DEF Batches, Pending
    <2>9. \A a \in Batches' : a \in Batches \/ a = Buffered' BY <2>8, Zenon DEF Batches
    <2>10. ~(Buffered'.sequence <= publisher.seq) BY <1>0, <2>5
    <2> QED BY <2>1, <2>5, <2>7, <2>9, <2>10, Zenon DEF SeenInv
  <1>8. ASSUME NEW owner, FlushStep(owner), UNCHANGED <<serverVars, published>> PROVE SeenInv'
    <2>0. UNCHANGED <<inbox, publisher, published, appended, now>> BY <1>8, Zenon DEF serverVars
    <2>1. CASE GivesUp(owner)
      <3>1. /\ pending.items # <<>> /\ sequence' = pending.seq /\ buffer' = buffer /\ pending'.items = <<>>
        BY <2>1, Zenon DEF GivesUp, NoPending
      <3>2. Buffered' = Buffered /\ Pending' = {} BY <3>1, Zenon DEF Taken, Buffered, Pending
      <3> QED BY <1>1, <2>0, <3>1, <3>2, Zenon
    <2>2. CASE SendsNew(owner)
      <3>1. pending'.items = buffer /\ pending'.seq = Taken + 1
        BY <2>0, <2>2, SendBatches, Zenon DEF SendsNew
      <3>2. Buffered'.items = <<>> /\ Buffered'.sequence = Taken + 2 /\ Batches' = Batches \cup {Buffered'}
        BY <2>0, <2>2, SendBatches
      <3>3. ~(pending'.seq <= publisher.seq) /\ ~(Buffered'.sequence <= publisher.seq) BY <1>0, <3>1, <3>2
      <3>4. Disjoint(buffer, appended) /\ Disjoint(<<>>, appended)
        BY <1>0, RangeEmpty DEF SeenInv, Disjoint
      <3> QED BY <2>0, <3>1, <3>2, <3>3, <3>4, SMTT(20) DEF SeenInv
    <2>3. CASE SendsAgain(owner) \/ FindsNothing(owner)
      BY <1>2, <2>0, <2>3, Zenon DEF SendsAgain, FindsNothing
    <2> QED BY <1>8, <2>1, <2>2, <2>3, Zenon DEF FlushStep
  <1>9. CASE signalArrives
    <2> DEFINE b == [items |-> pending.items, sequence |-> pending.seq]
    <2>1. /\ UNCHANGED <<published, buffer, pending, sequence, publisher, appended, now>>
          /\ inbox' = Append(inbox, b)
          /\ currentFlush.stage = "sending" /\ ~currentFlush.arrived
      BY <1>9, Zenon DEF signalArrives
    <2>2. pending.items # <<>> BY <2>1, Zenon DEF TimeInv
    <2>3. b \in Batches /\ b \in Batch /\ b \in Pending /\ b.items = pending.items /\ b.sequence = pending.seq
      BY <2>2, PendingIn, BatchTypes, Zenon DEF Pending
    <2> HIDE DEF b
    <2>4. Range(inbox') = Range(inbox) \cup {b} BY <2>1, <2>3, RangeAppend DEF TypeOK, StreamTypes
    <2>5. Batches' = Batches /\ Buffered' = Buffered
      BY <2>1, <2>3, <2>4, Zenon DEF Batches, Pending, Buffered, Taken
    <2>6. now < pending.startedAt + Ttl
      <3>1. /\ currentFlush.sentAt \in pending.startedAt .. pending.startedAt + MaxRetryDuration
            /\ now <= currentFlush.sentAt + RpcTime
        BY <2>1, Zenon DEF TimeInv
      <3>2. MaxRetryDuration + RpcTime < Ttl /\ MaxRetryDuration \in Nat /\ RpcTime \in Nat
        BY ClientAssumption, Zenon
      <3> QED BY <1>0, <3>1, <3>2
    <2>7. b.sequence > publisher.seq => Disjoint(b.items, appended) BY <1>0, <2>2, <2>3, <2>6 DEF SeenInv
    <2> QED BY <2>1, <2>4, <2>5, <2>7, Zenon DEF SeenInv
  <1>10. CASE signalReturns
    <2>0. UNCHANGED <<inbox, publisher, appended, buffer, now>>
      BY <1>10, Zenon DEF signalReturns, streamVars
    <2>1. CASE UNCHANGED <<sequence, pending>> BY <1>2, <2>0, <2>1, Zenon
    <2>2. CASE sequence' = pending.seq /\ pending' = NoPending
      <3>1. pending.items # <<>> /\ pending'.items = <<>>
        BY <1>10, <2>2, Zenon DEF signalReturns, TimeInv, NoPending
      <3>2. Buffered' = Buffered /\ Pending' = {} BY <2>0, <2>2, <3>1, Zenon DEF Taken, Buffered, Pending
      <3> QED BY <1>1, <2>0, <3>1, <3>2, Zenon
    <2> QED BY <1>10, <2>1, <2>2, Zenon DEF signalReturns
  <1>11. CASE settle BY <1>2, <1>11, Zenon DEF settle, streamVars
  <1>12. CASE tick BY <1>2, <1>12, Zenon DEF tick, publisherVars
  <1>13. CASE UNCHANGED <<serverVars, batchVars>> BY <1>2, <1>13, Zenon DEF serverVars, batchVars
  <1> QED BY <1>3, <1>4, <1>5, <1>6, <1>7, <1>8, <1>9, <1>10, <1>11, <1>12, <1>13, BatchSteps, SMTT(20) DEF ServerStep

-----------------------------------------------------------------------------
(* What the server has accepted                                            *)

\* Accepted, by the sequences it is made of, in a state and in the next one.
LEMMA Holds ==
  ASSUME NEW q, NEW e
  PROVE  e \in UNION {Range(q[i].items) : i \in DOMAIN q} <=> \E b \in Range(q) : e \in Range(b.items)
  BY DEF Range

\* The server has accepted what is in the log or in the workflow's inbox.
LEMMA AcceptedIs ==
  \A e : e \in Accepted <=> e \in Range(appended) \/ \E b \in Range(inbox) : e \in Range(b.items)
  BY Holds, Zenon DEF Accepted

\* The same of the next state.
LEMMA AcceptedNext ==
  \A e : e \in Accepted' <=> e \in Range(appended') \/ \E b \in Range(inbox') : e \in Range(b.items)
  <1>1. PICK a : a = appended' BY Zenon
  <1>2. PICK q : q = inbox' BY Zenon
  <1>3. Accepted' = Range(a) \cup UNION {Range(q[i].items) : i \in DOMAIN q}
    BY <1>1, <1>2, Zenon DEF Accepted
  <1>4. ASSUME NEW e
        PROVE  e \in Accepted' <=> e \in Range(a) \/ \E b \in Range(q) : e \in Range(b.items)
    BY ONLY <1>3, Holds, Zenon
  <1> QED BY <1>1, <1>2, <1>4, Zenon

\* What arrives is accepted.
LEMMA ArrivalAccepted ==
  ASSUME TypeOK, signalArrives
  PROVE  Range(pending.items) \subseteq Accepted' /\ Accepted \subseteq Accepted'
  <1>1. PICK b : b = [items |-> pending.items, sequence |-> pending.seq] BY Zenon
  <1>2. /\ inbox' = Append(inbox, b) /\ appended' = appended /\ inbox \in Seq(Batch)
        /\ b \in Batch /\ b.items = pending.items
    BY <1>1, Zenon DEF signalArrives, TypeOK, StreamTypes, PublisherTypes, PendingType, Batch
  <1>3. Range(inbox') = Range(inbox) \cup {b} BY <1>2, RangeAppend
  <1>4. Range(pending.items) \subseteq Accepted' BY <1>2, <1>3, AcceptedNext, Zenon
  <1>5. Accepted \subseteq Accepted' BY <1>2, <1>3, AcceptedIs, AcceptedNext, Zenon
  <1> QED BY <1>4, <1>5, Zenon

\* What is accepted stays accepted: onPublish drops only what the log has.
LEMMA AcceptedStep ==
  ASSUME Unencodable = {}, TypeOK, BatchInv, SeenInv, [Next]_vars
  PROVE  Accepted \subseteq Accepted'
  <1>1. CASE UNCHANGED <<appended, inbox>> BY <1>1, Zenon DEF Accepted
  <1>2. CASE onPublish
    <2>0. /\ inbox # <<>> /\ inbox' = Tail(inbox) /\ inbox \in Seq(Batch) /\ appended \in Seq(Item)
      BY <1>2, Zenon DEF onPublish, TypeOK, StreamTypes
    <2>1. Range(inbox) = Range(inbox') \cup {Head(inbox)} BY <2>0, InboxTail, Zenon
    <2>2. Range(Head(inbox).items) \subseteq Range(appended') /\ Range(appended) \subseteq Range(appended')
      <3>1. CASE Head(inbox).sequence <= publisher.seq
        <4>1. Head(inbox) \in Batches BY <2>1, Zenon DEF Batches
        <4> QED BY <1>2, <3>1, <4>1, Zenon DEF onPublish, SeenInv
      <3>2. CASE ~(Head(inbox).sequence <= publisher.seq)
        <4>1. appended' = appended \o Head(inbox).items BY <1>2, <3>2, Zenon DEF onPublish, Push
        <4>2. Head(inbox).items \in Seq(Item) BY <2>0, <3>2, TakenIsNew, Zenon
        <4>3. PICK q : q = Head(inbox).items BY Zenon
        <4>4. Range(appended \o q) = Range(appended) \cup Range(q) BY <2>0, <4>2, <4>3, RangeConcat
        <4> QED BY <4>1, <4>3, <4>4, Zenon
      <3> QED BY <3>1, <3>2, Zenon
    <2>3. SUFFICES ASSUME NEW e \in Accepted PROVE e \in Accepted' BY Zenon
    <2>4. CASE e \in Range(appended) BY <2>2, <2>4, AcceptedNext, Zenon
    <2>5. ASSUME NEW b \in Range(inbox), e \in Range(b.items) PROVE e \in Accepted'
      BY <2>1, <2>2, <2>5, AcceptedNext, Zenon
    <2> QED BY <2>4, <2>5, AcceptedIs, Zenon
  <1>3. ASSUME NEW t \in Topics, publishToTopic(t) PROVE Accepted \subseteq Accepted'
    <2>1. PICK q : q = <<[by |-> "workflow", n |-> Len(appended) + 1, topic |-> t]>> BY Zenon
    <2>2. appended' = appended \o q /\ inbox' = inbox BY <1>3, <2>1, Zenon DEF publishToTopic, Push
    <2>3. appended \in Seq(Item) /\ q \in Seq(Item) BY <2>1 DEF TypeOK, StreamTypes, Item
    <2>4. Range(appended) \subseteq Range(appended') BY <2>2, <2>3, RangeConcat
    <2> QED BY <2>2, <2>4, Zenon DEF Accepted
  <1>4. CASE signalArrives BY <1>4, ArrivalAccepted, Zenon
  <1>5. ASSUME NEW o \in 0 .. End, truncate(o) PROVE Accepted \subseteq Accepted'
    BY <1>1, <1>5, Zenon DEF truncate
  <1>6. CASE RollOver BY <1>1, <1>6, Zenon DEF RollOver
  <1>7. CASE signalReturns \/ settle \/ tick \/ UNCHANGED serverVars
    BY <1>1, <1>7, Zenon DEF signalReturns, settle, tick, streamVars, serverVars
  <1> QED BY <1>2, <1>3, <1>4, <1>5, <1>6, <1>7, BatchSteps, Zenon DEF ServerStep

-----------------------------------------------------------------------------
(* Who flushes                                                             *)

\* Every step keeps one flush at a time and its stage in line with its owner.
LEMMA FlushInvStep ==
  ASSUME Unencodable = {}, TypeOK, TimeInv, BatchInv, SeenInv, FlushInv, [Next]_vars
  PROVE  FlushInv'
  \* A step of the client that starts no flush and ends none.
  <1>SameFlush.
    ASSUME FlushInv, Accepted \subseteq Accepted', UNCHANGED <<currentFlush, pending>>,
           flusher' # flusher => flusher \notin {"flushing", "ready"} /\ flusher' \notin {"flushing", "ready"},
           call' # call => call.at # "flushing" /\ call'.at # "flushing",
           (call'.op = "none" <=> call'.at = "none") /\ (call'.op = "join" <=> call'.at = "joining"),
           call' # call /\ call'.op = "flush" /\ call'.at = "ready" => currentFlush.stage # "expired"
    PROVE  FlushInv'
    <2> USE <1>SameFlush
    <2>1. currentFlush.owner = "flusher" <=> flusher' = "flushing" BY Zenon DEF FlushInv
    <2>2. currentFlush.owner = "caller" <=> call'.at = "flushing" BY Zenon DEF FlushInv
    <2>3. flusher' = "ready" => pending.items = <<>> \/ currentFlush.stage = "sending"
      BY Zenon DEF FlushInv
    <2>4. call'.op = "flush" /\ call'.at = "ready" => currentFlush.stage # "expired" BY Zenon DEF FlushInv
    <2> QED BY <2>1, <2>2, <2>3, <2>4, Zenon DEF FlushInv, Succeeded
  \* A flush starts.
  <1>NewFlush.
    ASSUME TypeOK, FlushInv, NEW owner \in {"flusher", "caller"}, FlushStep(owner),
           owner = "flusher" => flusher' = "flushing" /\ call' = call,
           owner = "caller" => flusher' = flusher /\ call'.at = "flushing",
           (call'.op = "none" <=> call'.at = "none") /\ (call'.op = "join" <=> call'.at = "joining"),
           owner = "flusher" /\ call.op = "flush" /\ call.at = "ready" => pending.items = <<>>
    PROVE  FlushInv'
    <2> USE <1>NewFlush
    <2>1. currentFlush.owner = "none" /\ flusher # "flushing" /\ call.at # "flushing"
      BY Zenon DEF FlushStep, Idle, FlushInv
    <2>2. /\ currentFlush'.owner = owner /\ currentFlush'.arrived = FALSE
          /\ currentFlush'.stage \in {"expired", "sending", "nothing"}
          /\ currentFlush'.stage = "expired" => pending.items # <<>> /\ pending'.items = <<>>
          /\ currentFlush'.stage = "nothing" => pending'.items = <<>>
      BY DEF FlushStep, GivesUp, SendsAgain, SendsNew, FindsNothing, Flushing, NoPending
    <2>3. owner = "flusher" <=> flusher' = "flushing" BY <2>1, Zenon
    <2>4. owner = "caller" <=> call'.at = "flushing" BY <2>1, Zenon
    <2>5. pending'.items = <<>> \/ currentFlush'.stage = "sending" BY <2>2, Zenon
    <2>6. call'.op = "flush" /\ call'.at = "ready" => currentFlush'.stage # "expired" BY <2>2, Zenon
    <2> QED BY <2>2, <2>3, <2>4, <2>5, <2>6, Zenon DEF FlushInv, Succeeded
  <1>0. Accepted \subseteq Accepted' /\ currentFlush \in FlushType /\ call \in CallType
    BY AcceptedStep, Zenon DEF TypeOK, PublisherTypes
  <1>1. CASE UNCHANGED <<currentFlush, pending, flusher, call>>
    BY <1>0, <1>1, <1>SameFlush, Zenon DEF FlushInv
  <1>2. ASSUME NEW t \in Topics, publish(t) PROVE FlushInv'
    <2>1. /\ UNCHANGED <<currentFlush, pending, call>>
          /\ flusher' = flusher \/ (flusher = "undefined" /\ flusher' = "sleeping")
      BY <1>2, Zenon DEF publish
    <2> QED BY <1>0, <2>1, <1>SameFlush, Zenon DEF FlushInv
  <1>3. CASE signalArrives
    <2>1. /\ currentFlush'.owner = currentFlush.owner /\ currentFlush'.stage = currentFlush.stage
          /\ UNCHANGED <<pending, flusher, call>> /\ currentFlush.stage = "sending"
      BY <1>0, <1>3, Zenon DEF signalArrives, FlushType
    <2>2. Range(pending.items) \subseteq Accepted' BY <1>3, ArrivalAccepted, Zenon
    <2> QED BY <2>1, <2>2, Zenon DEF FlushInv, Succeeded
  <1>4. CASE signalReturns
    <2>1. /\ currentFlush'.owner = currentFlush.owner /\ currentFlush.stage = "sending"
          /\ UNCHANGED <<flusher, call>> /\ flusher # "ready" /\ call.at # "ready"
          /\ \/ currentFlush'.stage = "done" /\ pending' = NoPending
             \/ currentFlush'.stage = "failed"
      BY <1>0, <1>4, Zenon DEF signalReturns, FlushType, Quiet
    <2>2. currentFlush'.stage = "done" => pending'.items = <<>> BY <2>1 DEF NoPending
    <2> QED BY <2>1, <2>2, Zenon DEF FlushInv, Succeeded
  <1>5. CASE settle
    <2>1. currentFlush'.owner = "none" /\ currentFlush'.stage = "none" /\ pending' = pending
      BY <1>5, Zenon DEF settle, NoFlush
    <2>2. currentFlush.stage # "sending" /\ currentFlush.stage # "none"
      BY <1>5, Zenon DEF settle, Settled, Succeeded
    <2>3. flusher' # "flushing" BY <1>5, Zenon DEF settle, FlusherAfter
    <2>4. flusher' = "ready" => pending.items = <<>>
      <3>1. flusher' = "ready" => (flusher = "ready" \/ Succeeded) BY <1>5, Zenon DEF settle, FlusherAfter
      <3> QED BY <2>2, <3>1, Zenon DEF FlushInv
    <2>5. \/ call' = NoCall
          \/ call' = [call EXCEPT !.at = "ready"] /\ call.at \in {"flushing", "waiting"}
          \/ call' = call /\ call.at # "flushing"
      BY <1>5, Zenon DEF settle, CallerHit
    <2>6. /\ call'.at # "flushing"
          /\ (call'.op = "none" <=> call'.at = "none") /\ (call'.op = "join" <=> call'.at = "joining")
      <3>1. CASE call' = NoCall BY <3>1, Zenon DEF NoCall
      <3>2. CASE call' = [call EXCEPT !.at = "ready"] /\ call.at \in {"flushing", "waiting"}
        <4>1. call'.at = "ready" /\ call'.op = call.op BY <1>0, <3>2, Zenon DEF CallType
        <4> QED BY <3>2, <4>1, Zenon DEF FlushInv
      <3>3. CASE call' = call /\ call.at # "flushing" BY <3>3, Zenon DEF FlushInv
      <3> QED BY <2>5, <3>1, <3>2, <3>3, Zenon
    <2> QED BY <2>1, <2>3, <2>4, <2>6, Zenon DEF FlushInv, Succeeded
  <1>6. CASE flusherFlushes
    <2>0. call' = call BY <1>6, Zenon DEF flusherFlushes
    <2>1. CASE Idle
      <3>1. FlushStep("flusher") /\ flusher' = "flushing"
        BY <1>6, <2>1, FlushCases, Zenon DEF flusherFlushes
      <3>2. call.op = "flush" /\ call.at = "ready" => pending.items = <<>>
        BY <1>6, <2>1, Zenon DEF flusherFlushes, Quiet, Idle, FlushInv
      <3> QED BY <2>0, <3>1, <3>2, <1>NewFlush, Zenon DEF FlushInv
    <2>2. CASE ~Idle
      <3>1. /\ UNCHANGED <<currentFlush, pending>> /\ flusher' = "waiting" /\ flusher \in {"ready", "sleeping"}
        BY <1>6, <2>2, Zenon DEF flusherFlushes
      <3> QED BY <1>0, <2>0, <3>1, Zenon DEF FlushInv, Succeeded
    <2> QED BY <2>1, <2>2, Zenon
  <1>7. CASE callFlushes
    <2>0. flusher' = flusher /\ call.at = "ready" /\ call'.op = call.op
      BY <1>0, <1>7, Zenon DEF callFlushes, CallType
    <2>1. CASE Idle
      <3>1. FlushStep("caller") /\ call'.at = "flushing"
        BY <1>0, <1>7, <2>1, FlushCases, Zenon DEF callFlushes, CallType
      <3> QED BY <2>0, <3>1, <1>NewFlush, Zenon DEF FlushInv
    <2>2. CASE ~Idle
      <3>1. UNCHANGED <<currentFlush, pending>> /\ call'.at = "waiting"
        BY <1>0, <1>7, <2>2, Zenon DEF callFlushes, CallType
      <3> QED BY <1>0, <2>0, <3>1, <1>SameFlush, Zenon DEF FlushInv
    <2> QED BY <2>1, <2>2, Zenon
  <1>8. CASE flusherEnds
    <2>1. UNCHANGED <<currentFlush, pending, call>> /\ flusher = "sleeping" /\ flusher' = "ended"
      BY <1>8, Zenon DEF flusherEnds
    <2> QED BY <1>0, <2>1, <1>SameFlush, Zenon DEF FlushInv
  <1>9. CASE disposeJoins
    <2>1. /\ UNCHANGED <<currentFlush, pending>> /\ flusher = "ended" /\ flusher' = "undefined"
          /\ call.op = "join" /\ call'.op = "drain" /\ call'.at = "ready"
      BY <1>9, Zenon DEF disposeJoins, NoCall
    <2> QED BY <1>0, <2>1, <1>SameFlush, Zenon DEF FlushInv
  <1>10. CASE UNCHANGED <<currentFlush, pending, flusher>> /\ call' = NoCall /\ call.at # "flushing"
    BY <1>0, <1>10, <1>SameFlush, Zenon DEF NoCall
  <1>11. CASE callReturns BY <1>10, <1>11, Zenon DEF callReturns, Return
  <1>12. CASE flush
    <2>1. call.at = "none" /\ currentFlush.stage # "expired"
      BY <1>12, Zenon DEF flush, Quiet, Settled, FlushInv
    <2>2. UNCHANGED <<currentFlush, pending, flusher>> BY <1>12, Zenon DEF flush
    <2>3. \/ call' = NoCall
          \/ call' = [op |-> "flush", at |-> "ready", target |-> Target, barrier |-> Unsent]
      BY <1>12, Zenon DEF flush, Return
    <2>4. CASE call' = NoCall BY <1>10, <2>1, <2>2, <2>4, Zenon
    <2>5. CASE call' = [op |-> "flush", at |-> "ready", target |-> Target, barrier |-> Unsent]
      <3>1. call'.op = "flush" /\ call'.at = "ready" BY <2>5, Zenon
      <3> QED BY <1>0, <2>1, <2>2, <3>1, <1>SameFlush, Zenon
    <2> QED BY <2>3, <2>4, <2>5, Zenon
  <1>13. CASE dispose
    <2>1. call.at = "none" BY <1>13, Zenon DEF dispose, FlushInv
    <2>2. UNCHANGED <<currentFlush, pending, flusher>> BY <1>13, Zenon DEF dispose
    <2>3. \/ call'.op = "flushOnce" /\ call'.at = "ready"
          \/ call'.op = "join" /\ call'.at = "joining"
      BY <1>13, Zenon DEF dispose, NoCall
    <2> QED BY <1>0, <2>1, <2>2, <2>3, <1>SameFlush, Zenon
  <1>14. CASE UNCHANGED publisherVars BY <1>1, <1>14, Zenon DEF publisherVars
  <1>15. CASE tick \/ Subscriber \/ pollTimesOut \/ UNCHANGED vars
    BY <1>14, <1>15, Zenon DEF tick, Subscriber, startPoll, receivePoll, yield, pollTimesOut, vars
  <1> QED BY <1>2, <1>3, <1>4, <1>5, <1>6, <1>7, <1>8, <1>9, <1>11, <1>12, <1>13, <1>14, <1>15, StepKinds, SMTT(20)
          DEF ClientStep, Publisher

-----------------------------------------------------------------------------
(* What became of the items                                                *)

\* Where an item is that the client was given.
Known == Unsent \cup Accepted \cup dropped

\* A step keeps track of every item: it is still to be sent, or accepted, or
\* given up.
LEMMA KnownStep ==
  ASSUME Unencodable = {}, TypeOK, TimeInv, BatchInv, SeenInv, FlushInv, [Next]_vars
  PROVE  Known \subseteq Known' /\ dropped \subseteq dropped'
  <1>0. Accepted \subseteq Accepted' BY AcceptedStep, Zenon
  <1>1. CASE UNCHANGED <<buffer, pending, dropped>> BY <1>0, <1>1, Zenon DEF Known, Unsent
  <1>2. ASSUME NEW t \in Topics, publish(t) PROVE Known \subseteq Known' /\ dropped \subseteq dropped'
    <2>1. PICK e : e = [by |-> "client", n |-> published + 1, topic |-> t] BY Zenon
    <2>2. buffer' = Append(buffer, e) /\ UNCHANGED <<pending, dropped>> BY <1>2, <2>1, Zenon DEF publish
    <2>3. buffer \in Seq(Item) /\ e \in Item BY <2>1 DEF TypeOK, PublisherTypes, Item
    <2>4. Range(buffer') = Range(buffer) \cup {e} BY <2>2, <2>3, RangeAppend
    <2> QED BY <1>0, <2>2, <2>4, Zenon DEF Known, Unsent
  <1>3. ASSUME NEW owner, FlushStep(owner) PROVE Known \subseteq Known' /\ dropped \subseteq dropped'
    <2>1. CASE GivesUp(owner) BY <1>0, <2>1, Zenon DEF GivesUp, Known, Unsent
    <2>2. CASE SendsNew(owner)
      <3>1. pending.items = <<>> /\ pending'.items = buffer /\ dropped' = dropped
        BY <2>2, Zenon DEF SendsNew
      <3> QED BY <1>0, <3>1, RangeEmpty, Zenon DEF Known, Unsent
    <2>3. CASE SendsAgain(owner) \/ FindsNothing(owner) BY <1>1, <2>3, Zenon DEF SendsAgain, FindsNothing
    <2> QED BY <1>3, <2>1, <2>2, <2>3, Zenon DEF FlushStep
  <1>4. CASE signalReturns
    <2>1. CASE UNCHANGED pending BY <1>1, <1>4, <2>1, SMTT(20) DEF signalReturns
    <2>2. CASE currentFlush.arrived
      <3>1. Range(pending.items) \subseteq Accepted BY <1>4, <2>2, Zenon DEF signalReturns, FlushInv
      <3>2. buffer' = buffer /\ dropped' = dropped BY <1>4, Zenon DEF signalReturns
      <3> QED BY <1>0, <3>1, <3>2, Zenon DEF Known, Unsent
    <2> QED BY <1>4, <2>1, <2>2, SMTT(20) DEF signalReturns
  <1>5. CASE signalArrives \/ settle \/ tick
    BY <1>1, <1>5, SMTT(20) DEF signalArrives, settle, tick, publisherVars
  <1> QED BY <1>1, <1>2, <1>3, <1>4, <1>5, BatchSteps, Zenon DEF batchVars

\* Who is told: told never shrinks, and takes in all that was dropped.
LEMMA ToldStep ==
  ASSUME [Next]_vars
  PROVE  told' = told \/ told' = dropped
  <1>1. CASE settle BY <1>1, Zenon DEF settle
  <1>2. CASE callReturns BY <1>2, Zenon DEF callReturns, Return
  <1>3. CASE flush BY <1>3, Zenon DEF flush, Return
  <1>4. ASSUME NEW t \in Topics, publish(t) PROVE told' = told BY <1>4, Zenon DEF publish
  <1>5. CASE signalArrives \/ signalReturns \/ flusherFlushes \/ flusherEnds \/ disposeJoins \/ callFlushes
             \/ dispose
    BY <1>5, Zenon DEF signalArrives, signalReturns, flusherFlushes, flusherEnds, disposeJoins,
       callFlushes, dispose
  <1>6. CASE UNCHANGED publisherVars BY <1>6, Zenon DEF publisherVars
  <1>7. CASE tick \/ Subscriber \/ pollTimesOut \/ UNCHANGED vars
    BY <1>6, <1>7, Zenon DEF tick, Subscriber, startPoll, receivePoll, yield, pollTimesOut, vars
  <1> QED BY <1>1, <1>2, <1>3, <1>4, <1>5, <1>6, <1>7, StepKinds, SMTT(20) DEF ClientStep, Publisher

\* Every step accounts for every item it takes from the publisher.
LEMMA LossStep ==
  ASSUME Unencodable = {}, TypeOK, TimeInv, BatchInv, SeenInv, FlushInv, LossInv, [Next]_vars
  PROVE  LossInv'
  <1>0. Known \subseteq Known' /\ dropped \subseteq dropped' /\ published \in Nat /\ currentFlush \in FlushType
    BY KnownStep, Zenon DEF TypeOK, PublisherTypes
  <1>1. told' \subseteq dropped' BY <1>0, ToldStep, Zenon DEF LossInv
  <1>2. 1 .. published' \subseteq Numbers(Known')
    <2>1. Numbers(Known) \subseteq Numbers(Known') BY <1>0, Zenon DEF Numbers
    <2>2. 1 .. published \subseteq Numbers(Known) BY Zenon DEF LossInv, Known
    <2>3. CASE published' = published BY <2>1, <2>2, <2>3, Zenon
    <2>4. ASSUME NEW t \in Topics, publish(t) PROVE 1 .. published' \subseteq Numbers(Known')
      <3>1. PICK e : e = [by |-> "client", n |-> published + 1, topic |-> t] BY Zenon
      <3>2. buffer' = Append(buffer, e) /\ published' = published + 1 BY <2>4, <3>1, Zenon DEF publish
      <3>3. buffer \in Seq(Item) /\ e \in Item /\ e.by = "client" /\ e.n = published + 1
        BY <1>0, <3>1 DEF TypeOK, PublisherTypes, Item
      <3>4. Range(buffer') = Range(buffer) \cup {e} BY <3>2, <3>3, RangeAppend
      <3>5. e \in Known' BY <3>4, Zenon DEF Known, Unsent
      <3>6. published + 1 \in Numbers(Known') BY <3>3, <3>5, Zenon DEF Numbers
      <3>7. \A n \in 1 .. published + 1 : n \in 1 .. published \/ n = published + 1 BY <1>0
      <3> QED BY <2>1, <2>2, <3>2, <3>6, <3>7, Zenon
    <2>5. published' = published \/ \E t \in Topics : publish(t)
      BY BatchSteps, Zenon DEF batchVars, signalArrives, signalReturns, settle, tick, publisherVars
    <2> QED BY <2>3, <2>4, <2>5, Zenon
  <1>3. flusherError' \/ currentFlush'.stage = "expired" \/ dropped' \subseteq told'
    <2>1. CASE UNCHANGED <<flusherError, dropped, told, currentFlush>> BY <2>1, Zenon DEF LossInv
    <2>2. ASSUME NEW owner, FlushStep(owner), UNCHANGED <<flusherError, told>>
          PROVE  flusherError' \/ currentFlush'.stage = "expired" \/ dropped' \subseteq told'
      <3>1. currentFlush.stage = "none" BY <2>2, Zenon DEF FlushStep, Idle, FlushInv
      <3>2. CASE GivesUp(owner) BY <3>2, Zenon DEF GivesUp, Flushing
      <3>3. CASE dropped' = dropped BY <2>2, <3>1, <3>3, Zenon DEF LossInv
      <3> QED BY <2>2, <3>2, <3>3, Zenon DEF FlushStep, SendsAgain, SendsNew, FindsNothing
    <2>3. CASE signalArrives
      <3>1. currentFlush.stage = "sending" /\ UNCHANGED <<flusherError, dropped, told>>
        BY <2>3, Zenon DEF signalArrives
      <3> QED BY <3>1, Zenon DEF LossInv
    <2>4. CASE signalReturns
      <3>1. currentFlush.stage = "sending" /\ UNCHANGED <<flusherError, dropped, told>>
        BY <2>4, Zenon DEF signalReturns
      <3> QED BY <3>1, Zenon DEF LossInv
    <2>5. CASE settle
      <3>0. /\ dropped' = dropped /\ flusherError' = (flusherError \/ FlusherHit)
            /\ told' = IF CallerHit THEN dropped ELSE told
        BY <2>5, Zenon DEF settle
      <3>1. CASE currentFlush.stage = "expired"
        <4>1. ~Succeeded BY <3>1, Zenon DEF Succeeded
        <4>2. currentFlush.owner \in {"flusher", "caller"} BY <1>0, <3>1, Zenon DEF FlushInv, FlushType
        <4>3. CASE currentFlush.owner = "flusher" BY <3>0, <3>1, <4>3, Zenon DEF FlusherHit, FlushInv
        <4>4. CASE currentFlush.owner = "caller" BY <3>0, <4>1, <4>4, Zenon DEF CallerHit, FlushInv
        <4> QED BY <4>2, <4>3, <4>4, Zenon
      <3>2. CASE currentFlush.stage # "expired" BY <3>0, <3>2, Zenon DEF LossInv
      <3> QED BY <3>1, <3>2, Zenon
    <2>6. ASSUME NEW b, Return(b), UNCHANGED <<dropped, currentFlush>>
          PROVE  flusherError' \/ currentFlush'.stage = "expired" \/ dropped' \subseteq told'
      BY <2>6, Zenon DEF Return, LossInv
    <2>7. CASE flush BY <2>1, <2>6, <2>7, Zenon DEF flush
    <2>8. CASE callReturns BY <2>6, <2>8, Zenon DEF callReturns
    <2>9. CASE flusherFlushes
      <3>1. CASE Idle BY <2>2, <2>9, <3>1, FlushCases, Zenon DEF flusherFlushes
      <3>2. CASE ~Idle BY <2>1, <2>9, <3>2, Zenon DEF flusherFlushes
      <3> QED BY <3>1, <3>2, Zenon
    <2>10. CASE callFlushes
      <3>1. CASE Idle BY <2>2, <2>10, <3>1, FlushCases, Zenon DEF callFlushes
      <3>2. CASE ~Idle BY <2>1, <2>10, <3>2, Zenon DEF callFlushes
      <3> QED BY <3>1, <3>2, Zenon
    <2>11. CASE flusherEnds \/ disposeJoins \/ dispose
      BY <2>1, <2>11, Zenon DEF flusherEnds, disposeJoins, dispose
    <2>12. ASSUME NEW t \in Topics, publish(t) PROVE UNCHANGED <<flusherError, dropped, told, currentFlush>>
      BY <2>12, Zenon DEF publish
    <2>13. CASE UNCHANGED publisherVars BY <2>1, <2>13, Zenon DEF publisherVars
    <2>14. CASE tick \/ Subscriber \/ pollTimesOut \/ UNCHANGED vars
      BY <2>13, <2>14, Zenon DEF tick, Subscriber, startPoll, receivePoll, yield, pollTimesOut, vars
    <2> QED BY <2>1, <2>3, <2>4, <2>5, <2>7, <2>8, <2>9, <2>10, <2>11, <2>12, <2>13, <2>14, StepKinds, SMTT(20)
            DEF ClientStep, Publisher
  <1> QED BY <1>1, <1>2, <1>3, Zenon DEF LossInv, Known

-----------------------------------------------------------------------------
(* The barrier                                                             *)

\* Every step keeps what a flush() waits for on its way, and a flush() that returns has it done.
LEMMA BarrierStep ==
  ASSUME Unencodable = {}, TypeOK, TimeInv, BatchInv, SeenInv, FlushInv, LossInv, BarrierInv,
         TypeOK', [Next]_vars
  PROVE  BarrierInv'
  \* What is awaited stays so: it moves from the buffer to a batch numbered in time, and on.
  <1>AwaitedStep.
    ASSUME Unencodable = {}, TypeOK, TimeInv, BatchInv, SeenInv, FlushInv, [Next]_vars,
           NEW i, NEW target \in Nat, Awaited(i, target)
    PROVE  Awaited(i, target)'
    <2> USE <1>AwaitedStep
    <2>0. /\ Accepted \cup dropped \subseteq Accepted' \cup dropped' /\ Taken \in Nat
          /\ sequence \in Nat /\ buffer \in Seq(Item)
      BY AcceptedStep, KnownStep, BatchTypes, Zenon DEF TypeOK, PublisherTypes
    <2>1. CASE UNCHANGED <<buffer, pending, sequence>> BY <2>0, <2>1, Zenon DEF Awaited, Taken
    <2>2. ASSUME NEW t \in Topics, publish(t) PROVE Awaited(i, target)'
      <3>1. PICK e : e = [by |-> "client", n |-> published + 1, topic |-> t] BY Zenon
      <3>2. buffer' = Append(buffer, e) /\ UNCHANGED <<pending, sequence>>
        BY <2>2, <3>1, Zenon DEF publish
      <3>3. e \in Item BY <3>1 DEF TypeOK, PublisherTypes, Item
      <3>4. Range(buffer') = Range(buffer) \cup {e} BY <2>0, <3>2, <3>3, RangeAppend
      <3> QED BY <2>0, <3>2, <3>4, Zenon DEF Awaited, Taken
    <2>3. CASE /\ sequence' = pending.seq /\ pending' = NoPending /\ buffer' = buffer
               /\ pending.items # <<>> /\ Range(pending.items) \subseteq Accepted' \cup dropped'
      <3>1. pending'.items = <<>> BY <2>3, Zenon DEF NoPending
      <3>2. Taken' = Taken BY <2>3, <3>1, Zenon DEF Taken
      <3> QED BY <2>0, <2>3, <3>2, Zenon DEF Awaited
    <2>4. ASSUME NEW owner, FlushStep(owner) PROVE Awaited(i, target)'
      <3>1. CASE GivesUp(owner) BY <2>3, <3>1, Zenon DEF GivesUp
      <3>2. CASE SendsNew(owner)
        <4>1. /\ pending.items = <<>> /\ pending'.items = buffer /\ buffer # <<>>
              /\ pending'.seq = sequence + 1 /\ Taken = sequence
          BY <3>2, Zenon DEF SendsNew, Taken
        <4>2. i \in Range(buffer) /\ Taken < target => pending'.seq <= target BY <2>0, <4>1
        <4>3. i \notin Range(pending.items) BY <4>1, RangeEmpty, Zenon
        <4> QED BY <2>0, <4>1, <4>2, <4>3, Zenon DEF Awaited
      <3>3. CASE SendsAgain(owner) \/ FindsNothing(owner)
        BY <2>1, <3>3, Zenon DEF SendsAgain, FindsNothing
      <3> QED BY <2>4, <3>1, <3>2, <3>3, Zenon DEF FlushStep
    <2>5. CASE signalReturns
      <3>0. buffer' = buffer /\ currentFlush.stage = "sending" BY <2>5, Zenon DEF signalReturns
      <3>1. CASE UNCHANGED <<sequence, pending>> BY <2>1, <3>0, <3>1, Zenon
      <3>2. CASE currentFlush.arrived /\ sequence' = pending.seq /\ pending' = NoPending
        <4>1. Range(pending.items) \subseteq Accepted BY <3>0, <3>2, Zenon DEF FlushInv
        <4>2. pending.items # <<>> BY <3>0, Zenon DEF TimeInv
        <4> QED BY <2>0, <2>3, <3>0, <3>2, <4>1, <4>2, Zenon
      <3> QED BY <2>5, <3>1, <3>2, Zenon DEF signalReturns
    <2>6. CASE signalArrives \/ settle \/ tick
      BY <2>1, <2>6, Zenon DEF signalArrives, settle, tick, publisherVars
    <2> QED BY <2>1, <2>2, <2>4, <2>5, <2>6, BatchSteps, Zenon DEF batchVars
  \* What has been sent when flush() has seen its number.
  <1>AwaitedDone.
    ASSUME TypeOK, BatchInv, NEW i, NEW target \in Nat, Awaited(i, target), sequence >= target
    PROVE  i \in Accepted \cup dropped
    <2> USE <1>AwaitedDone
    <2>1. sequence \in Nat /\ pending.seq \in Nat BY Zenon DEF TypeOK, PublisherTypes, PendingType
    <2>2. pending.items # <<>> => ~(pending.seq <= target) BY <2>1 DEF BatchInv
    <2>3. ~(Taken < target) BY <2>1 DEF BatchInv, Taken
    <2> QED BY <2>2, <2>3, Zenon DEF Awaited
  \* flush() takes the number under which all that is unsent will have been sent.
  <1>TargetAwaits. ASSUME TypeOK, NEW i \in Unsent
                   PROVE  Awaited(i, Target)
    <2> USE <1>TargetAwaits
    <2>1. Taken \in Nat BY BatchTypes, Zenon
    <2>2. Target = IF buffer # <<>> THEN Taken + 1 ELSE Taken BY Zenon DEF Target, Taken
    <2>3. CASE i \in Range(pending.items)
      <3>1. pending.items # <<>> BY <2>3, RangeEmpty, Zenon
      <3>2. Taken = pending.seq BY <3>1, Zenon DEF Taken
      <3> QED BY <2>1, <2>2, <2>3, <3>1, <3>2 DEF Awaited
    <2>4. CASE i \in Range(buffer)
      <3>1. buffer # <<>> BY <2>4, RangeEmpty, Zenon
      <3> QED BY <2>1, <2>2, <2>4, <3>1 DEF Awaited
    <2> QED BY <2>3, <2>4, Zenon DEF Unsent
  <1>0. /\ Accepted \subseteq Accepted' /\ told \subseteq told'
        /\ call \in CallType /\ call.target \in Nat /\ call.barrier \in SUBSET Item /\ Awaits(call)
    <2>1. Accepted \subseteq Accepted' BY AcceptedStep, Zenon
    <2>2. told \subseteq told' BY ToldStep, Zenon DEF LossInv
    <2>3. call \in CallType /\ Awaits(call) BY Zenon DEF TypeOK, PublisherTypes, BarrierInv
    <2> QED BY <2>1, <2>2, <2>3, Zenon DEF CallType
  <1>1. ASSUME NEW c \in CallType, Awaits(c) PROVE Awaits(c)'
    <2>1. c.target \in Nat BY Zenon DEF CallType
    <2> QED BY <1>1, <2>1, <1>AwaitedStep, Zenon DEF Awaits
  <1>2. confirmed \subseteq Accepted' \cup told' BY <1>0, Zenon DEF BarrierInv
  <1>3. PICK c : c = call' BY Zenon
  <1>4. c \in CallType BY <1>3, Zenon DEF TypeOK, PublisherTypes
  <1>5. ASSUME Awaits(c), confirmed' \subseteq Accepted' \cup told' PROVE BarrierInv'
    <2>1. Awaits(c)' BY <1>1, <1>4, <1>5, Zenon
    <2>2. Awaits(call)' BY <1>3, <2>1, Zenon DEF Awaits
    <2> QED BY <1>5, <2>2, Zenon DEF BarrierInv
  <1>6. CASE UNCHANGED <<call, confirmed>>
    <2>1. c = call BY <1>3, <1>6, Zenon
    <2> QED BY <1>0, <1>2, <1>5, <1>6, <2>1, Zenon
  <1>7. Awaits(NoCall) BY Zenon DEF NoCall, Awaits
  <1>8. ASSUME c.op = call.op, c.barrier = call.barrier, c.op = "flush" => c.target = call.target
        PROVE  Awaits(c)
    BY <1>0, <1>8, Zenon DEF Awaits
  <1>9. CASE settle
    <2>1. c = NoCall \/ c = [call EXCEPT !.at = "ready"] \/ c = call BY <1>3, <1>9 DEF settle
    <2>2. CASE c = [call EXCEPT !.at = "ready"]
      <3>1. c.op = call.op /\ c.barrier = call.barrier /\ c.target = call.target
        BY <1>0, <2>2, Zenon DEF CallType
      <3> QED BY <1>2, <1>5, <1>8, <1>9, <3>1, Zenon DEF settle
    <2> QED BY <1>0, <1>2, <1>5, <1>7, <1>9, <2>1, <2>2, Zenon DEF settle
  <1>10. CASE callFlushes
    <2>1. c.op = call.op /\ c.barrier = call.barrier /\ (call.op = "flush" => c.target = call.target)
      <3>1. CASE c = [call EXCEPT !.at = "flushing", !.target = IF call.op = "flushOnce" THEN 1 ELSE @]
        BY <1>0, <3>1, Zenon DEF CallType
      <3>2. CASE c = [call EXCEPT !.at = "waiting"] BY <1>0, <3>2, Zenon DEF CallType
      <3> QED BY <1>3, <1>10, <3>1, <3>2, Zenon DEF callFlushes
    <2> QED BY <1>2, <1>5, <1>8, <1>10, <2>1, Zenon DEF callFlushes
  <1>11. CASE flush
    <2>1. CASE Return({}) BY <1>2, <1>3, <1>5, <1>7, <2>1, Zenon DEF Return
    <2>2. CASE /\ call' = [op |-> "flush", at |-> "ready", target |-> Target, barrier |-> Unsent]
               /\ confirmed' = confirmed
      <3>1. c.op = "flush" /\ c.barrier = Unsent /\ c.target = Target BY <1>3, <2>2, Zenon
      <3>2. Awaits(c) BY <3>1, <1>TargetAwaits, Zenon DEF Awaits
      <3> QED BY <1>2, <1>5, <2>2, <3>2, Zenon
    <2> QED BY <1>11, <2>1, <2>2, Zenon DEF flush
  <1>12. CASE dispose
    <2>1. c.op # "flush" /\ c.barrier = {} BY <1>3, <1>12, Zenon DEF dispose, NoCall
    <2> QED BY <1>2, <1>5, <1>12, <2>1, Zenon DEF dispose, Awaits
  <1>13. CASE disposeJoins
    <2>1. c.op # "flush" /\ c.barrier = {} BY <1>3, <1>13, Zenon DEF disposeJoins, NoCall
    <2> QED BY <1>2, <1>5, <1>13, <2>1, Zenon DEF disposeJoins, Awaits
  <1>14. CASE callReturns
    <2>1. c = NoCall /\ confirmed' = IF flusherError THEN confirmed ELSE confirmed \cup call.barrier
      BY <1>3, <1>14, Zenon DEF callReturns, Return
    <2>2. ASSUME ~flusherError PROVE call.barrier \subseteq Accepted' \cup told'
      <3>1. CASE call.op = "flush"
        <4>1. sequence >= call.target BY <1>14, <3>1, Zenon DEF callReturns, CallDone
        <4>2. call.barrier \subseteq Accepted \cup dropped
          BY <1>0, <3>1, <4>1, <1>AwaitedDone, Zenon DEF Awaits
        <4>3. dropped \subseteq told BY <1>14, <2>2, <3>1, Zenon DEF callReturns, FlushInv, LossInv
        <4> QED BY <1>0, <4>2, <4>3, Zenon
      <3>2. CASE call.op # "flush" BY <1>0, <3>2, Zenon DEF Awaits
      <3> QED BY <3>1, <3>2, Zenon
    <2> QED BY <1>2, <1>5, <1>7, <2>1, <2>2, Zenon
  <1>15. CASE signalArrives \/ signalReturns \/ flusherFlushes \/ flusherEnds
    BY <1>6, <1>15, Zenon DEF signalArrives, signalReturns, flusherFlushes, flusherEnds
  <1>16. ASSUME NEW t \in Topics, publish(t) PROVE UNCHANGED <<call, confirmed>>
    BY <1>16, Zenon DEF publish
  <1>17. CASE UNCHANGED publisherVars BY <1>6, <1>17, Zenon DEF publisherVars
  <1>18. CASE tick \/ Subscriber \/ pollTimesOut \/ UNCHANGED vars
    BY <1>17, <1>18, Zenon DEF tick, Subscriber, startPoll, receivePoll, yield, pollTimesOut, vars
  <1> QED BY <1>6, <1>9, <1>10, <1>11, <1>12, <1>13, <1>14, <1>15, <1>16, <1>17, <1>18, StepKinds, SMTT(20)
          DEF ClientStep, Publisher

-----------------------------------------------------------------------------
(* The publisher                                                           *)

\* A client that has been given nothing satisfies the invariant.
LEMMA PublisherInit ==
  ASSUME Init, TypeOK
  PROVE  ClientInv
  <1> USE DEF Init, StreamInit, NoPending, NoFlush, NoCall
  <1>1. TimeInv BY Zenon DEF TimeInv
  <1>2. /\ inbox = <<>> /\ pending.items = <<>> /\ buffer = <<>> /\ appended = <<>> /\ sequence = 0
        /\ publisher.seq = 0 /\ published = 0
    BY Zenon
  <1>3. Taken = 0 /\ Pending = {} BY <1>2, Zenon DEF Taken, Pending
  <1>4. Range(<<>>) = {} /\ IsInjective(<<>>) BY RangeEmpty DEF IsInjective
  <1>5. Batches = {Buffered} /\ Buffered = [items |-> <<>>, sequence |-> 1]
    BY <1>2, <1>3, <1>4 DEF Batches, Buffered
  <1>6. BatchInv
    <2>1. Apart(Batches) BY <1>5, Zenon DEF Apart
    <2>2. \A a \in Batches : Published(a.items, published) BY <1>4, <1>5 DEF Published
    <2> QED BY <1>2, <1>3, <1>4, <2>1, <2>2 DEF BatchInv
  <1>7. LogInv BY <1>2, <1>4 DEF LogInv
  <1>8. SeenInv
    <2>1. \A a \in Batches : a.items = <<>> /\ Range(a.items) = {} BY <1>4, <1>5
    <2>2. Range(inbox) \cup {Buffered} = Batches BY <1>2, <1>4, <1>5, Zenon
    <2>3. \A a \in Batches : Disjoint(a.items, appended) BY <2>1, Zenon DEF Disjoint
    <2> QED BY <1>2, <2>1, <2>2, <2>3, Zenon DEF SeenInv
  <1>9. FlushInv BY Zenon DEF FlushInv, Succeeded
  <1>10. LossInv BY DEF LossInv
  <1>11. BarrierInv BY Zenon DEF BarrierInv, Awaits
  <1> QED BY <1>1, <1>6, <1>7, <1>8, <1>9, <1>10, <1>11, Zenon DEF ClientInv

\* Every step keeps the invariant.
LEMMA PublisherNext ==
  ASSUME Unencodable = {}, ClientInv, TypeOK', [Next]_vars
  PROVE  ClientInv'
  BY TimeStep, BatchStep, LogStep, SeenStep, FlushInvStep, LossStep, BarrierStep, Zenon DEF ClientInv

=============================================================================
