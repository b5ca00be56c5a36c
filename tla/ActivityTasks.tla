--------------------------- MODULE ActivityTasks ---------------------------
(***************************************************************************)
(* Activity tasks in the worker: the per-task stream of activityOperator,  *)
(* which starts, cancels and answers one activity, and the per-task stream *)
(* of activityHeartbeat$, which sends the activity's heartbeats to Core    *)
(* one at a time and holds back the answer of a failed activity until the  *)
(* last of them is out.                                                    *)
(*                                                                         *)
(* The heartbeats of an activity are numbered in the order it emits them;  *)
(* their details, the activity's input and its result are left out.        *)
(***************************************************************************)
EXTENDS Integers, Sequences

CONSTANTS
  Tasks,           \* task tokens
  MaxHeartbeats,   \* bound: heartbeats an activity emits
  MaxCancels,      \* bound: cancel tasks Core sends for one task
  ExternalStorage  \* whether results are offloaded, which may fail

ASSUME BoundsAssumption == MaxHeartbeats \in Nat /\ MaxCancels \in Nat
ASSUME FlagsAssumption == ExternalStorage \in BOOLEAN

VARIABLES
  inbox,           \* tasks of the group that mergeMapWithState has not handled yet
  handling,        \* whether the group is awaiting the handler of a start
  known,           \* whether the group's state holds the activity
  stage,           \* where the activity is on its way to an answer
  result,          \* its result: what activity.run() resolves to
  cancelReason,    \* activity.cancelReason and the kind of cancellationDetails
  heartbeats,      \* HeartbeatState of the task's heartbeat stream
  encoding,        \* heartbeats being encoded and stored
  emitted,         \* how many heartbeats the activity has emitted
  recorded,        \* the last heartbeat given to recordActivityHeartbeat
  flushed,         \* the last heartbeat that is out, or whose details did not encode
  emittedByEnd,    \* how many it had emitted when activity.run() resolved
  answers,         \* calls of completeActivityTask
  cancelsSent,     \* cancel tasks Core has sent
  numInFlight,     \* numInFlightActivitiesSubject
  numHeartbeating  \* numHeartbeatingActivitiesSubject

taskVars == <<inbox, handling, known, stage, result, cancelReason>>
heartbeatVars == <<heartbeats, encoding, recorded, flushed, numHeartbeating>>
coreVars == <<answers, cancelsSent>>
vars == <<taskVars, heartbeatVars, emitted, emittedByEnd, coreVars, numInFlight>>

CancelKinds == {"CANCELLED", "PAUSED", "RESET"}
Reasons == CancelKinds \cup {"none", "HEARTBEAT_DETAILS_CONVERSION_FAILED"}
Numbers == 0 .. MaxHeartbeats
Stages == {"absent", "running", "ending", "flushing", "storing", "completing", "done"}
\* Three ways to fail: the activity was not started, it failed, its result was not stored.
Failures == {"notStarted", "failed", "notStored"}
Results == Failures \cup {"none", "completed", "cancelled", "willCompleteAsync"}
HeartbeatState ==
  [closed : BOOLEAN, processing : BOOLEAN, pending : Numbers,
   completionCallback : {"none", "ignore", "resolve"}]

\* Types of the state of every task.
TypeOK ==
  /\ inbox \in [Tasks -> Seq({"start"} \cup CancelKinds)]
  /\ handling \in [Tasks -> BOOLEAN]
  /\ known \in [Tasks -> BOOLEAN]
  /\ stage \in [Tasks -> Stages]
  /\ result \in [Tasks -> Results]
  /\ cancelReason \in [Tasks -> Reasons]
  /\ heartbeats \in [Tasks -> HeartbeatState]
  /\ encoding \in [Tasks -> SUBSET (Numbers \ {0})]
  /\ emitted \in [Tasks -> Numbers]
  /\ recorded \in [Tasks -> Numbers]
  /\ flushed \in [Tasks -> Numbers]
  /\ emittedByEnd \in [Tasks -> Numbers]
  /\ answers \in [Tasks -> Nat]
  /\ cancelsSent \in [Tasks -> 0 .. MaxCancels]
  /\ numInFlight \in Int /\ numHeartbeating \in Int

(***************************************************************************)
(* The heartbeat state mapper.  It maps a state and an input to the next   *)
(* state and an output: a heartbeat to send, or the end of the stream with *)
(* the callback to call.                                                   *)
(***************************************************************************)

Nothing(h) == [state |-> h, send |-> 0, close |-> FALSE, callback |-> "none"]

process(h, n) ==
  [Nothing([h EXCEPT !.processing = TRUE, !.pending = 0]) EXCEPT !.send = n]

storePending(h, n) == Nothing([h EXCEPT !.pending = n])

\* The stream as it is before `create`, and again after its end.
ClosedStream ==
  [closed |-> TRUE, processing |-> FALSE, pending |-> 0, completionCallback |-> "none"]

complete(callback) ==
  [state |-> ClosedStream, send |-> 0, close |-> TRUE, callback |-> callback]

Rogue(h) == [Nothing(h) EXCEPT !.close = TRUE]

\* MUTANT: sends a heartbeat although one is being sent.
onHeartbeatAtOnce(h, n) == IF h.closed THEN Rogue(h) ELSE process(h, n)

onHeartbeat(h, n) ==
  IF h.closed THEN Rogue(h) ELSE IF h.processing THEN storePending(h, n) ELSE process(h, n)

\* MUTANT: does not see that the activity has ended.
onFlushForgetful(h) ==
  IF h.closed THEN Rogue(h)
  ELSE IF h.pending # 0 THEN process(h, h.pending)
  ELSE Nothing([h EXCEPT !.processing = FALSE])

onFlush(h) ==
  IF h.closed THEN Rogue(h)
  ELSE IF h.pending # 0 THEN process(h, h.pending)
  ELSE IF h.completionCallback # "none" THEN complete(h.completionCallback)
  ELSE Nothing([h EXCEPT !.processing = FALSE])

\* MUTANT: deletes the pending heartbeat whether or not a flush is required.
onCompletionUnflushed(h, flushRequired, callback) ==
  IF h.closed THEN Rogue(h)
  ELSE IF h.processing
    THEN Nothing([h EXCEPT !.pending = 0, !.completionCallback = callback])
  ELSE complete(callback)

\* MUTANT: a failed activity's callback is forgotten while a heartbeat is being sent.
onCompletionUncalled(h, flushRequired, callback) ==
  IF h.closed THEN Rogue(h)
  ELSE IF h.processing
    THEN Nothing([h EXCEPT !.pending = IF flushRequired THEN @ ELSE 0,
                           !.completionCallback = IF flushRequired THEN @ ELSE callback])
  ELSE IF ~flushRequired \/ h.pending = 0 THEN complete(callback)
  ELSE process([h EXCEPT !.completionCallback = callback], h.pending)

onCompletion(h, flushRequired, callback) ==
  IF h.closed THEN Rogue(h)
  ELSE IF h.processing
    THEN Nothing([h EXCEPT !.pending = IF flushRequired THEN @ ELSE 0,
                           !.completionCallback = callback])
  ELSE IF ~flushRequired \/ h.pending = 0 THEN complete(callback)
  ELSE process([h EXCEPT !.completionCallback = callback], h.pending)

\* The output of the mapper for task t: a send starts an encoding in place of the ones in
\* `over`, a close ends the stream and calls back.
Output(t, out, over) ==
  /\ heartbeats' = [heartbeats EXCEPT ![t] = out.state]
  /\ encoding' = [encoding EXCEPT ![t] = (@ \ over) \cup ({out.send} \ {0})]
  /\ numHeartbeating' = numHeartbeating - IF out.close THEN 1 ELSE 0

(***************************************************************************)
(* Core                                                                    *)
(***************************************************************************)

activityPollStart(t) ==
  /\ inbox[t] = <<>> /\ ~handling[t] /\ stage[t] = "absent"
  /\ inbox' = [inbox EXCEPT ![t] = <<"start">>]
  /\ UNCHANGED <<handling, known, stage, result, cancelReason, heartbeatVars, emitted,
                 emittedByEnd, coreVars, numInFlight>>

\* Core may have sent a cancel before it saw the task's answer, so one can come any time
\* after the start.
activityPollCancel(t) ==
  /\ inbox[t] # <<>> \/ handling[t] \/ stage[t] # "absent"
  /\ cancelsSent[t] < MaxCancels
  /\ cancelsSent' = [cancelsSent EXCEPT ![t] = @ + 1]
  /\ \E k \in CancelKinds : inbox' = [inbox EXCEPT ![t] = Append(@, k)]
  /\ UNCHANGED <<handling, known, stage, result, cancelReason, heartbeatVars, emitted,
                 emittedByEnd, answers, numInFlight>>

(***************************************************************************)
(* activityOperator: tasks of one group are handled one after the other    *)
(***************************************************************************)

\* MUTANT: the group does not wait for the handler of the start.
TakesConcurrently(t, task) ==
  /\ inbox[t] # <<>> /\ Head(inbox[t]) = task
  /\ inbox' = [inbox EXCEPT ![t] = Tail(@)]

Takes(t, task) ==
  /\ ~handling[t] /\ inbox[t] # <<>> /\ Head(inbox[t]) = task
  /\ inbox' = [inbox EXCEPT ![t] = Tail(@)]

\* The handler of a start awaits payloads, the activity's info and its arguments.
startActivity(t) ==
  /\ Takes(t, "start")
  /\ handling' = [handling EXCEPT ![t] = TRUE]
  /\ UNCHANGED <<known, stage, result, cancelReason, heartbeatVars, emitted, emittedByEnd,
                 coreVars, numInFlight>>

\* Its failure is the task's result, which still passes the rest of the pipeline.
startFails(t) ==
  /\ handling[t]
  /\ handling' = [handling EXCEPT ![t] = FALSE]
  /\ result' = [result EXCEPT ![t] = "notStarted"]
  /\ stage' = [stage EXCEPT ![t] = "storing"]
  /\ UNCHANGED <<inbox, known, cancelReason, heartbeatVars, emitted, emittedByEnd, coreVars,
                 numInFlight>>

\* The activity is kept in the group's state, its heartbeat stream opens, and it runs.
startReturns(t) ==
  /\ handling[t]
  /\ handling' = [handling EXCEPT ![t] = FALSE]
  /\ known' = [known EXCEPT ![t] = TRUE]
  /\ stage' = [stage EXCEPT ![t] = "running"]
  /\ heartbeats' = [heartbeats EXCEPT ![t] = [ClosedStream EXCEPT !.closed = FALSE]]
  /\ numHeartbeating' = numHeartbeating + 1
  /\ numInFlight' = numInFlight + 1
  /\ UNCHANGED <<inbox, result, cancelReason, encoding, recorded, flushed, emitted,
                 emittedByEnd, coreVars>>

cancelActivity(t) ==
  /\ \E k \in CancelKinds :
       /\ Takes(t, k)
       /\ cancelReason' = IF known[t] THEN [cancelReason EXCEPT ![t] = k] ELSE cancelReason
  /\ UNCHANGED <<handling, known, stage, result, heartbeatVars, emitted, emittedByEnd,
                 coreVars, numInFlight>>

(***************************************************************************)
(* The activity                                                            *)
(***************************************************************************)

\* Activity code may go on emitting heartbeats after the activity has ended.  On a stream
\* that has ended each of them opens and closes a stream of its own.  (One emitted in the
\* same turn as the close is dropped without being counted; that turn is left out.)
heartbeat(t) ==
  /\ stage[t] # "absent" /\ result[t] # "notStarted"
  /\ emitted[t] < MaxHeartbeats
  /\ emitted' = [emitted EXCEPT ![t] = @ + 1]
  /\ Output(t, onHeartbeat(heartbeats[t], emitted[t] + 1), {})
  /\ UNCHANGED <<taskVars, recorded, flushed, emittedByEnd, coreVars, numInFlight>>

\* Activity.run: what the activity's end means to Core.  `how` is how its function ended.
ResultOf(how, reason) ==
  CASE how = "returned" -> "completed"
    [] how = "CompleteAsyncError" -> "willCompleteAsync"
    [] how = "CancelledFailure" /\ reason = "CANCELLED" -> "cancelled"
    [] how = "AbortError" /\ reason \in CancelKinds -> "cancelled"
    [] OTHER -> "failed"

Endings == {"returned", "CompleteAsyncError", "CancelledFailure", "AbortError", "Error"}

\* The function ends; its result or failure is then encoded.
functionEnds(t) ==
  /\ stage[t] = "running"
  /\ \E how \in Endings : result' = [result EXCEPT ![t] = ResultOf(how, cancelReason[t])]
  /\ stage' = [stage EXCEPT ![t] = "ending"]
  /\ UNCHANGED <<inbox, handling, known, cancelReason, heartbeatVars, emitted, emittedByEnd,
                 coreVars, numInFlight>>

resultNotEncoded(t) ==
  /\ stage[t] = "ending" /\ result[t] = "completed"
  /\ result' = [result EXCEPT ![t] = "failed"]
  /\ UNCHANGED <<inbox, handling, known, stage, cancelReason, heartbeatVars, emitted,
                 emittedByEnd, coreVars, numInFlight>>

\* activity.run() resolves: the heartbeat stream is told, and a failed activity waits until
\* the stream calls back.
runEnds(t) ==
  LET failed == result[t] = "failed"
      out == onCompletion(heartbeats[t], failed, IF failed THEN "resolve" ELSE "ignore")
  IN  /\ stage[t] = "ending"
      /\ Output(t, out, {})
      /\ stage' = [stage EXCEPT ![t] =
                     IF failed /\ out.callback # "resolve" THEN "flushing" ELSE "storing"]
      /\ emittedByEnd' = [emittedByEnd EXCEPT ![t] = emitted[t]]
      /\ numInFlight' = numInFlight - 1
      /\ UNCHANGED <<inbox, handling, known, result, cancelReason, recorded, flushed, emitted,
                     coreVars>>

(***************************************************************************)
(* activityHeartbeat$: the asynchronous end of a heartbeat                 *)
(***************************************************************************)

\* A heartbeat is out of the way: `flush` goes to the mapper, and if it closes the stream a
\* failed activity that waits for it moves on.
Flush(t, n) ==
  LET out == onFlush(heartbeats[t])
  IN  /\ Output(t, out, {n})
      /\ flushed' = [flushed EXCEPT ![t] = n]
      /\ stage' = [stage EXCEPT ![t] = IF out.callback = "resolve" THEN "storing" ELSE @]

heartbeatSent(t) ==
  /\ \E n \in encoding[t] :
       /\ recorded' = [recorded EXCEPT ![t] = n]
       /\ Flush(t, n)
  /\ UNCHANGED <<inbox, handling, known, result, cancelReason, emitted, emittedByEnd, coreVars,
                 numInFlight>>

\* Details that cannot be encoded or stored cancel the activity.
heartbeatNotEncoded(t) ==
  /\ \E n \in encoding[t] : Flush(t, n)
  /\ cancelReason' = [cancelReason EXCEPT ![t] = "HEARTBEAT_DETAILS_CONVERSION_FAILED"]
  /\ UNCHANGED <<inbox, handling, known, result, recorded, emitted, emittedByEnd, coreVars,
                 numInFlight>>

(***************************************************************************)
(* The answer                                                              *)
(***************************************************************************)

\* The result is offloaded if there is external storage, and the group is closed.  A result
\* that cannot be offloaded becomes a failure.
encodeCompletion(t) ==
  /\ stage[t] = "storing"
  /\ stage' = [stage EXCEPT ![t] = "completing"]
  /\ \/ UNCHANGED result
     \/ /\ ExternalStorage /\ result[t] # "notStarted"
        /\ result' = [result EXCEPT ![t] = "notStored"]
  /\ known' = [known EXCEPT ![t] = FALSE]
  /\ UNCHANGED <<inbox, handling, cancelReason, heartbeatVars, emitted, emittedByEnd, coreVars,
                 numInFlight>>

completeActivityTask(t) ==
  /\ stage[t] = "completing"
  /\ stage' = [stage EXCEPT ![t] = "done"]
  /\ answers' = [answers EXCEPT ![t] = @ + 1]
  /\ UNCHANGED <<inbox, handling, known, result, cancelReason, heartbeatVars, emitted,
                 emittedByEnd, cancelsSent, numInFlight>>

Init ==
  /\ inbox = [t \in Tasks |-> <<>>]
  /\ handling = [t \in Tasks |-> FALSE]
  /\ known = [t \in Tasks |-> FALSE]
  /\ stage = [t \in Tasks |-> "absent"]
  /\ result = [t \in Tasks |-> "none"]
  /\ cancelReason = [t \in Tasks |-> "none"]
  /\ heartbeats = [t \in Tasks |-> ClosedStream]
  /\ encoding = [t \in Tasks |-> {}]
  /\ emitted = [t \in Tasks |-> 0]
  /\ recorded = [t \in Tasks |-> 0]
  /\ flushed = [t \in Tasks |-> 0]
  /\ emittedByEnd = [t \in Tasks |-> 0]
  /\ answers = [t \in Tasks |-> 0]
  /\ cancelsSent = [t \in Tasks |-> 0]
  /\ numInFlight = 0
  /\ numHeartbeating = 0

CorePolled(t) == activityPollStart(t) \/ activityPollCancel(t)
ActivityCode(t) == heartbeat(t) \/ functionEnds(t)
Worker(t) ==
  \/ startActivity(t) \/ startFails(t) \/ startReturns(t) \/ cancelActivity(t)
  \/ resultNotEncoded(t) \/ runEnds(t)
  \/ heartbeatSent(t) \/ heartbeatNotEncoded(t)
  \/ encodeCompletion(t) \/ completeActivityTask(t)

Next == \E t \in Tasks : CorePolled(t) \/ ActivityCode(t) \/ Worker(t)

Spec == Init /\ [][Next]_vars

\* Promises of the worker settle; nothing is assumed of Core or of activity code.
Fairness == \A t \in Tasks : WF_vars(Worker(t))
FairSpec == Spec /\ Fairness
(***************************************************************************)
(* Properties                                                              *)
(***************************************************************************)

\* The answer of a failed activity goes out only when the last heartbeat it had emitted is
\* out, or could not be encoded: the next attempt sees its details (worker.ts, "Make sure to
\* flush the last heartbeat").
FlushedBeforeFailure ==
  \A t \in Tasks :
    result[t] = "failed" /\ stage[t] \in {"storing", "completing", "done"}
      => flushed[t] >= emittedByEnd[t]

\* Core gets an activity's heartbeats in the order they were emitted, however long each takes
\* to encode: activityHeartbeat$ encodes one at a time.
HeartbeatsInOrder == [][\A t \in Tasks : recorded'[t] >= recorded[t]]_vars

\* A cancel that arrives while the start is being handled is not lost: once the group has
\* nothing to handle, the running activity has been told.
CancelNotLost ==
  \A t \in Tasks :
    stage[t] = "running" /\ ~handling[t] /\ inbox[t] = <<>> /\ cancelsSent[t] > 0
      => cancelReason[t] # "none"

\* No heartbeat stream outlives its activity: when the activity is past activity.run() and
\* its flush, and no heartbeat is being sent, the stream has ended.
StreamEndsWithActivity ==
  \A t \in Tasks :
    stage[t] \in {"storing", "completing", "done"} /\ encoding[t] = {} => heartbeats[t].closed

\* An activity whose function has ended is answered, provided it stops emitting heartbeats:
\* the wait for the flush ends.
Answered == \A t \in Tasks : stage[t] = "ending" ~> stage[t] = "done"
=============================================================================
