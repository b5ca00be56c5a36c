------------------------ MODULE ActivityTasksProofs ------------------------
(***************************************************************************)
(* Proofs about ActivityTasks, for any tasks and any number of heartbeats  *)
(* and cancels: heartbeats reach Core in order, the answer of a failed     *)
(* activity waits for the last of them, streams end, and no cancel is      *)
(* lost.                                                                   *)
(*                                                                         *)
(* The heart of it is StreamInv: while the mapper is `processing` exactly  *)
(* one heartbeat is being encoded, and until the activity has ended well   *)
(* the newest heartbeat is the pending one, or the one being encoded, or   *)
(* out.  EndInv says what the stream waits for at each stage of the        *)
(* activity, and GroupInv that a start is the first task of its group.     *)
(* All three are about one task, and a step changes one task only.         *)
(***************************************************************************)
EXTENDS ActivityTasks, TLAPS

After == {"storing", "completing", "done"}

(* The tasks that wait in the group of t (activityOperator).               *)
GroupInv(t) ==
  /\ \A i \in 2 .. Len(inbox[t]) : inbox[t][i] # "start"
  /\ inbox[t] # <<>> =>
       (Head(inbox[t]) = "start" <=> stage[t] = "absent" /\ ~handling[t])
  /\ handling[t] => stage[t] = "absent"
  /\ stage[t] = "running" => known[t]
  /\ stage[t] \in {"absent", "running"} /\ cancelReason[t] = "none" /\ cancelsSent[t] > 0 =>
       inbox[t] # <<>> /\ (Head(inbox[t]) = "start" => Len(inbox[t]) > 1)

(* The heartbeats of t and its heartbeat stream (activityHeartbeat$).      *)
StreamInv(t) ==
  /\ heartbeats[t].closed => heartbeats[t] = ClosedStream
  /\ heartbeats[t].completionCallback # "none" => heartbeats[t].processing
  /\ heartbeats[t].pending # 0 => heartbeats[t].processing
  /\ heartbeats[t].processing <=> encoding[t] # {}
  /\ \A n \in encoding[t] : encoding[t] = {n} /\ flushed[t] <= n /\ n <= emitted[t]
  /\ heartbeats[t].pending # 0 => \A n \in encoding[t] : n <= heartbeats[t].pending
  /\ heartbeats[t].pending <= emitted[t]
  /\ recorded[t] <= flushed[t] /\ flushed[t] <= emitted[t]
  /\ ~heartbeats[t].closed /\ heartbeats[t].completionCallback # "ignore" =>
       /\ heartbeats[t].pending # 0 => heartbeats[t].pending = emitted[t]
       /\ heartbeats[t].pending = 0 => \A n \in encoding[t] : n = emitted[t]
       /\ ~heartbeats[t].processing => flushed[t] = emitted[t]

(* The end of the activity of t and its heartbeat stream.                  *)
EndInv(t) ==
  /\ stage[t] = "absent" => heartbeats[t].closed /\ emitted[t] = 0
  /\ stage[t] \in {"absent", "running"} => result[t] = "none"
  /\ stage[t] \in {"running", "ending"} =>
       ~heartbeats[t].closed /\ heartbeats[t].completionCallback = "none"
  /\ stage[t] = "flushing" =>
       /\ ~heartbeats[t].closed /\ heartbeats[t].completionCallback = "resolve"
       /\ result[t] = "failed"
  /\ stage[t] \in After /\ ~heartbeats[t].closed => heartbeats[t].completionCallback = "ignore"
  /\ emittedByEnd[t] <= emitted[t]
  /\ result[t] = "failed" /\ stage[t] \in After => flushed[t] >= emittedByEnd[t]

(* All of it for a task, and the inductive invariant.                     *)
TaskInv(t) == GroupInv(t) /\ StreamInv(t) /\ EndInv(t)
IInv == TypeOK /\ \A t \in Tasks : TaskInv(t)

-----------------------------------------------------------------------------
(* The heartbeat state mapper                                              *)

(* What the mapper's output consists of.                                   *)
IsOutput(out) ==
  /\ out.state \in HeartbeatState /\ out.send \in Numbers
  /\ out.close \in BOOLEAN /\ out.callback \in {"none", "ignore", "resolve"}

(* A heartbeat is dropped by a closed stream, kept while another one is    *)
(* being sent, and sent otherwise.                                         *)
LEMMA OnHeartbeat ==
  ASSUME NEW h \in HeartbeatState, NEW n \in Numbers \ {0}, NEW out, out = onHeartbeat(h, n)
  PROVE  /\ IsOutput(out)
         /\ h.closed => out.state = h /\ out.send = 0
         /\ ~h.closed => ~out.state.closed /\ out.state.processing
                         /\ out.state.completionCallback = h.completionCallback
         /\ ~h.closed /\ h.processing => out.state.pending = n /\ out.send = 0
         /\ ~h.closed /\ ~h.processing => out.state.pending = 0 /\ out.send = n
<1> USE DEF onHeartbeat, Rogue, process, storePending, Nothing, HeartbeatState, IsOutput
<1>0. 0 \in Numbers
  BY BoundsAssumption DEF Numbers
<1>1. CASE h.closed
  BY <1>0, <1>1
<1>2. CASE ~h.closed /\ h.processing
  BY <1>0, <1>2
<1>3. CASE ~h.closed /\ ~h.processing
  <2> DEFINE g == [h EXCEPT !.processing = TRUE, !.pending = 0]
  <2>1. g \in HeartbeatState /\ g.closed = h.closed /\ g.processing = TRUE /\ g.pending = 0
        /\ g.completionCallback = h.completionCallback
    BY <1>0
  <2>2. out = [state |-> g, send |-> n, close |-> FALSE, callback |-> "none"]
    BY <1>3
  <2> HIDE DEF g
  <2> QED
    BY <1>0, <1>3, <2>1, <2>2
<1> QED
  BY <1>1, <1>2, <1>3

(* After a heartbeat the pending one is sent, or the stream ends if the    *)
(* activity has, or it becomes idle.                                       *)
LEMMA OnFlush ==
  ASSUME NEW h \in HeartbeatState, ~h.closed, NEW out, out = onFlush(h)
  PROVE  /\ IsOutput(out)
         /\ h.pending # 0 =>
              /\ ~out.state.closed /\ out.state.processing /\ out.state.pending = 0
              /\ out.state.completionCallback = h.completionCallback
              /\ out.send = h.pending /\ out.callback = "none"
         /\ h.pending = 0 /\ h.completionCallback # "none" =>
              /\ out.state = ClosedStream /\ out.send = 0
              /\ out.callback = h.completionCallback
         /\ h.pending = 0 /\ h.completionCallback = "none" =>
              /\ ~out.state.closed /\ ~out.state.processing /\ out.state.pending = 0
              /\ out.state.completionCallback = "none"
              /\ out.send = 0 /\ out.callback = "none"
<1> USE DEF onFlush, process, complete, ClosedStream, Nothing, HeartbeatState, IsOutput
<1>0. 0 \in Numbers
  BY BoundsAssumption DEF Numbers
<1>1. CASE h.pending # 0
  <2> DEFINE g == [h EXCEPT !.processing = TRUE, !.pending = 0]
  <2>1. g \in HeartbeatState /\ g.closed = h.closed /\ g.processing = TRUE /\ g.pending = 0
        /\ g.completionCallback = h.completionCallback
    BY <1>0
  <2>2. out = [state |-> g, send |-> h.pending, close |-> FALSE, callback |-> "none"]
    BY <1>1
  <2> HIDE DEF g
  <2> QED
    BY <1>0, <1>1, <2>1, <2>2
<1>2. CASE h.pending = 0 /\ h.completionCallback # "none"
  BY <1>0, <1>2
<1>3. CASE h.pending = 0 /\ h.completionCallback = "none"
  BY <1>0, <1>3
<1> QED
  BY <1>1, <1>2, <1>3

(* At the activity's end an idle stream ends at once; a busy one keeps the *)
(* callback, and the pending heartbeat if the activity failed.             *)
LEMMA OnCompletion ==
  ASSUME NEW h \in HeartbeatState, ~h.closed, h.pending # 0 => h.processing,
         NEW failed \in BOOLEAN, NEW callback \in {"ignore", "resolve"},
         NEW out, out = onCompletion(h, failed, callback)
  PROVE  /\ IsOutput(out) /\ out.send = 0
         /\ h.processing =>
              /\ ~out.state.closed /\ out.state.processing
              /\ out.state.pending = IF failed THEN h.pending ELSE 0
              /\ out.state.completionCallback = callback /\ out.callback = "none"
         /\ ~h.processing => out.state = ClosedStream /\ out.callback = callback
<1> USE DEF onCompletion, process, complete, ClosedStream, Nothing, HeartbeatState, IsOutput
<1>0. 0 \in Numbers
  BY BoundsAssumption DEF Numbers
<1>1. CASE h.processing
  <2> DEFINE p == IF failed THEN h.pending ELSE 0
             g == [h EXCEPT !.pending = p, !.completionCallback = callback]
  <2>1. p \in Numbers
    BY <1>0
  <2>2. out = [state |-> g, send |-> 0, close |-> FALSE, callback |-> "none"]
    BY <1>1
  <2> HIDE DEF p
  <2>3. g \in HeartbeatState /\ ~g.closed /\ g.processing
        /\ g.pending = p /\ g.completionCallback = callback
    BY <1>1, <2>1
  <2> HIDE DEF g
  <2> QED
    BY <1>0, <1>1, <2>2, <2>3 DEF p
<1>2. CASE ~h.processing
  BY <1>0, <1>2
<1> QED
  BY <1>1, <1>2

(* The mapper's output is applied to one task.                             *)
LEMMA OutputOf ==
  ASSUME TypeOK, NEW t \in Tasks, NEW out, IsOutput(out), NEW over, Output(t, out, over)
  PROVE  /\ heartbeats' \in [Tasks -> HeartbeatState] /\ heartbeats'[t] = out.state
         /\ encoding' \in [Tasks -> SUBSET (Numbers \ {0})]
         /\ encoding'[t] = (encoding[t] \ over) \cup ({out.send} \ {0})
         /\ \A u \in Tasks \ {t} : heartbeats'[u] = heartbeats[u] /\ encoding'[u] = encoding[u]
         /\ numHeartbeating' \in Int
<1>1. heartbeats' = [heartbeats EXCEPT ![t] = out.state]
  BY DEF Output
<1>2. encoding' = [encoding EXCEPT ![t] = (@ \ over) \cup ({out.send} \ {0})]
  BY DEF Output
<1>3. numHeartbeating' = numHeartbeating - IF out.close THEN 1 ELSE 0
  BY DEF Output
<1>4. out.state \in HeartbeatState /\ out.send \in Numbers
  BY DEF IsOutput
<1>5. /\ heartbeats' \in [Tasks -> HeartbeatState] /\ heartbeats'[t] = out.state
      /\ \A u \in Tasks \ {t} : heartbeats'[u] = heartbeats[u]
  BY <1>1, <1>4 DEF TypeOK
<1>6. /\ encoding' \in [Tasks -> SUBSET (Numbers \ {0})]
      /\ encoding'[t] = (encoding[t] \ over) \cup ({out.send} \ {0})
      /\ \A u \in Tasks \ {t} : encoding'[u] = encoding[u]
  BY <1>2, <1>4 DEF TypeOK
<1>7. numHeartbeating' \in Int
  BY <1>3 DEF TypeOK
<1> QED
  BY <1>5, <1>6, <1>7

-----------------------------------------------------------------------------
(* Steps and tasks                                                         *)

(* What a step of another task leaves alone.                               *)
TaskKept(t) ==
  /\ inbox'[t] = inbox[t] /\ handling'[t] = handling[t] /\ known'[t] = known[t]
  /\ stage'[t] = stage[t] /\ result'[t] = result[t] /\ cancelReason'[t] = cancelReason[t]
  /\ heartbeats'[t] = heartbeats[t] /\ encoding'[t] = encoding[t] /\ emitted'[t] = emitted[t]
  /\ recorded'[t] = recorded[t] /\ flushed'[t] = flushed[t]
  /\ emittedByEnd'[t] = emittedByEnd[t] /\ cancelsSent'[t] = cancelsSent[t]

(* The invariant of a task is about nothing else.                          *)
LEMMA Untouched ==
  ASSUME NEW t \in Tasks, TaskInv(t), TaskKept(t)
  PROVE  TaskInv(t)'
<1>1. GroupInv(t)'
  BY DEF TaskInv, TaskKept, GroupInv
<1>2. StreamInv(t)'
  BY DEF TaskInv, TaskKept, StreamInv
<1>3. EndInv(t)'
  BY DEF TaskInv, TaskKept, EndInv
<1> QED
  BY <1>1, <1>2, <1>3 DEF TaskInv

(* So it is enough to look at the task that makes the step.                *)
LEMMA StepKeeps ==
  ASSUME IInv, NEW t \in Tasks, TypeOK', TaskInv(t)', \A u \in Tasks \ {t} : TaskKept(u)
  PROVE  IInv'
<1>1. ASSUME NEW u \in Tasks
      PROVE  TaskInv(u)'
  <2>1. CASE u = t
    BY <2>1
  <2>2. CASE u # t
    BY <2>2, Untouched DEF IInv
  <2> QED
    BY <2>1, <2>2
<1> QED
  BY <1>1 DEF IInv

-----------------------------------------------------------------------------
(* The tasks of a group                                                    *)

(* The steps that leave the heartbeat stream of t and the activity alone.  *)
LEMMA StreamKept ==
  ASSUME NEW t \in Tasks, StreamInv(t), EndInv(t),
         UNCHANGED <<stage, result, heartbeats, encoding, emitted, recorded, flushed, emittedByEnd>>
  PROVE  StreamInv(t)' /\ EndInv(t)'
  BY DEF StreamInv, EndInv

(* Core sends the start, to a group that has seen nothing yet.             *)
LEMMA PollStartKeeps ==
  ASSUME IInv, NEW t \in Tasks, activityPollStart(t)
  PROVE  IInv'
<1>1. TypeOK /\ GroupInv(t) /\ StreamInv(t) /\ EndInv(t)
  BY DEF IInv, TaskInv
<1>2. /\ inbox[t] = <<>> /\ ~handling[t] /\ stage[t] = "absent"
      /\ inbox' = [inbox EXCEPT ![t] = <<"start">>]
      /\ UNCHANGED <<handling, known, stage, result, cancelReason, heartbeats, encoding, recorded,
                     flushed, numHeartbeating, emitted, emittedByEnd, answers, cancelsSent,
                     numInFlight>>
  BY DEF activityPollStart, heartbeatVars, coreVars
<1>3. inbox' \in [Tasks -> Seq({"start"} \cup CancelKinds)] /\ inbox'[t] = <<"start">>
  <2>1. <<"start">> \in Seq({"start"} \cup CancelKinds)
    OBVIOUS
  <2> QED
    BY <2>1, <1>1, <1>2 DEF TypeOK
<1>4. TypeOK'
  BY <1>1, <1>2, <1>3 DEF TypeOK
<1>5. Head(inbox'[t]) = "start" /\ Len(inbox'[t]) = 1 /\ inbox'[t] # <<>>
  BY <1>3
<1>6. ~(cancelReason[t] = "none" /\ cancelsSent[t] > 0)
  BY <1>1, <1>2 DEF GroupInv
<1>7. GroupInv(t)'
  BY <1>1, <1>2, <1>5, <1>6 DEF GroupInv
<1>8. StreamInv(t)' /\ EndInv(t)'
  BY <1>1, <1>2, StreamKept
<1>9. \A u \in Tasks \ {t} : TaskKept(u)
  BY <1>1, <1>2 DEF TaskKept, TypeOK
<1> QED
  BY <1>4, <1>7, <1>8, <1>9, StepKeeps DEF TaskInv

(* Queues: what Append and Tail do to the positions.                       *)
LEMMA Queues ==
  ASSUME NEW S, NEW q \in Seq(S)
  PROVE  /\ \A x \in S : /\ Append(q, x) \in Seq(S) /\ Append(q, x) # <<>>
                         /\ Len(Append(q, x)) = Len(q) + 1
                         /\ \A i \in 1 .. Len(q) : Append(q, x)[i] = q[i]
                         /\ Append(q, x)[Len(q) + 1] = x
                         /\ q # <<>> => Head(Append(q, x)) = Head(q)
                         /\ q = <<>> => Head(Append(q, x)) = x
         /\ q # <<>> => /\ Tail(q) \in Seq(S) /\ Len(q) >= 1
                        /\ Len(Tail(q)) = Len(q) - 1
                        /\ \A i \in 1 .. Len(q) - 1 : Tail(q)[i] = q[i + 1]
                        /\ Tail(q) # <<>> => Len(q) > 1 /\ Head(Tail(q)) = q[2]
                        /\ Len(q) > 1 => Tail(q) # <<>>
         /\ q = <<>> <=> Len(q) = 0
<1>1. \A s \in Seq(S) : s = <<>> <=> Len(s) = 0
  OBVIOUS
<1>2. ASSUME NEW x \in S
      PROVE  /\ Append(q, x) \in Seq(S) /\ Append(q, x) # <<>>
             /\ Len(Append(q, x)) = Len(q) + 1
             /\ \A i \in 1 .. Len(q) : Append(q, x)[i] = q[i]
             /\ Append(q, x)[Len(q) + 1] = x
             /\ q # <<>> => Head(Append(q, x)) = Head(q)
             /\ q = <<>> => Head(Append(q, x)) = x
  <2>1. /\ Append(q, x) \in Seq(S) /\ Len(Append(q, x)) = Len(q) + 1
        /\ \A i \in 1 .. Len(q) : Append(q, x)[i] = q[i]
        /\ Append(q, x)[Len(q) + 1] = x
    OBVIOUS
  <2>2. Append(q, x) # <<>> /\ Head(Append(q, x)) = Append(q, x)[1]
    BY <2>1
  <2>3. q # <<>> => Head(q) = q[1] /\ Len(q) >= 1
    OBVIOUS
  <2> QED
    BY <2>1, <2>2, <2>3, <1>1
<1>3. ASSUME q # <<>>
      PROVE  /\ Tail(q) \in Seq(S) /\ Len(q) >= 1
             /\ Len(Tail(q)) = Len(q) - 1
             /\ \A i \in 1 .. Len(q) - 1 : Tail(q)[i] = q[i + 1]
             /\ Tail(q) # <<>> => Len(q) > 1 /\ Head(Tail(q)) = q[2]
             /\ Len(q) > 1 => Tail(q) # <<>>
  <2>1. /\ Tail(q) \in Seq(S) /\ Len(q) >= 1 /\ Len(Tail(q)) = Len(q) - 1
        /\ \A i \in 1 .. Len(q) - 1 : Tail(q)[i] = q[i + 1]
    BY <1>3
  <2>2. Tail(q) # <<>> => Len(Tail(q)) > 0 /\ Head(Tail(q)) = Tail(q)[1]
    BY <2>1
  <2>3. Len(q) > 1 => Tail(q) # <<>>
    <3>1. \A s \in Seq(S) : Len(s) = Len(q) - 1 /\ Len(q) > 1 => s # <<>>
      OBVIOUS
    <3> QED
      BY <2>1, <3>1, Zenon
  <2> QED
    BY <2>1, <2>2, <2>3
<1> QED
  BY <1>1, <1>2, <1>3

(* Core sends a cancel after the start.                                    *)
LEMMA PollCancelKeeps ==
  ASSUME IInv, NEW t \in Tasks, activityPollCancel(t)
  PROVE  IInv'
<1>1. TypeOK /\ GroupInv(t) /\ StreamInv(t) /\ EndInv(t)
  BY DEF IInv, TaskInv
<1>2. PICK k \in CancelKinds : inbox' = [inbox EXCEPT ![t] = Append(@, k)]
  BY DEF activityPollCancel
<1>3. /\ inbox[t] # <<>> \/ handling[t] \/ stage[t] # "absent"
      /\ cancelsSent[t] < MaxCancels /\ cancelsSent' = [cancelsSent EXCEPT ![t] = @ + 1]
      /\ UNCHANGED <<handling, known, stage, result, cancelReason, heartbeats, encoding, recorded,
                     flushed, numHeartbeating, emitted, emittedByEnd, answers, numInFlight>>
  BY DEF activityPollCancel, heartbeatVars
<1> DEFINE S == {"start"} \cup CancelKinds
           q == inbox[t]
<1>4. q \in Seq(S) /\ k \in S /\ k # "start"
  BY <1>1 DEF TypeOK, CancelKinds
<1>5. inbox' \in [Tasks -> Seq(S)] /\ inbox'[t] = Append(q, k)
  <2>1. Append(q, k) \in Seq(S)
    BY <1>4, Queues
  <2> QED
    BY <2>1, <1>1, <1>2 DEF TypeOK
<1>6. cancelsSent' \in [Tasks -> 0 .. MaxCancels]
  <2>1. cancelsSent[t] + 1 \in 0 .. MaxCancels
    BY <1>1, <1>3, BoundsAssumption DEF TypeOK
  <2> QED
    BY <2>1, <1>1, <1>3 DEF TypeOK
<1>7. TypeOK'
  BY <1>1, <1>3, <1>5, <1>6 DEF TypeOK
<1>8. GroupInv(t)'
  <2>1. /\ inbox'[t] # <<>>
        /\ Len(inbox'[t]) = Len(q) + 1 /\ Len(q) \in Nat
        /\ \A i \in 1 .. Len(q) : inbox'[t][i] = q[i]
        /\ inbox'[t][Len(q) + 1] = k
        /\ q # <<>> => Head(inbox'[t]) = Head(q) /\ Len(q) >= 1
        /\ q = <<>> => Head(inbox'[t]) = k
    BY <1>4, <1>5, Queues
  <2>2. \A i \in 2 .. Len(inbox'[t]) : inbox'[t][i] # "start"
    <3> SUFFICES ASSUME NEW i \in 2 .. Len(q) + 1 PROVE inbox'[t][i] # "start"
      BY <2>1
    <3>1. CASE i = Len(q) + 1
      BY <3>1, <2>1, <1>4
    <3>2. CASE i # Len(q) + 1
      BY <3>2, <2>1, <1>1 DEF GroupInv
    <3> QED
      BY <3>1, <3>2
  <2>3. Head(inbox'[t]) = "start" <=> stage[t] = "absent" /\ ~handling[t]
    <3>1. CASE q # <<>>
      BY <3>1, <2>1, <1>1 DEF GroupInv
    <3>2. CASE q = <<>>
      BY <3>2, <2>1, <1>3, <1>4
    <3> QED
      BY <3>1, <3>2
  <2>4. Head(inbox'[t]) = "start" => Len(inbox'[t]) > 1
    BY <2>1, <1>4
  <2> QED
    BY <2>1, <2>2, <2>3, <2>4, <1>1, <1>3 DEF GroupInv
<1>9. StreamInv(t)' /\ EndInv(t)'
  BY <1>1, <1>3, StreamKept
<1>10. \A u \in Tasks \ {t} : TaskKept(u)
  BY <1>1, <1>2, <1>3 DEF TaskKept, TypeOK
<1> QED
  BY <1>7, <1>8, <1>9, <1>10, StepKeeps DEF TaskInv

(* What is left of a group's queue once a task has been taken from it.     *)
LEMMA Taken ==
  ASSUME TypeOK, NEW t \in Tasks, GroupInv(t), NEW task, Takes(t, task)
  PROVE  /\ ~handling[t] /\ inbox[t] # <<>> /\ Head(inbox[t]) = task
         /\ inbox' \in [Tasks -> Seq({"start"} \cup CancelKinds)]
         /\ \A u \in Tasks \ {t} : inbox'[u] = inbox[u]
         /\ \A i \in 2 .. Len(inbox'[t]) : inbox'[t][i] # "start"
         /\ inbox'[t] # <<>> => Head(inbox'[t]) # "start"
         /\ Len(inbox[t]) > 1 => inbox'[t] # <<>>
<1> DEFINE S == {"start"} \cup CancelKinds
           q == inbox[t]
<1>1. ~handling[t] /\ q # <<>> /\ Head(q) = task /\ inbox' = [inbox EXCEPT ![t] = Tail(@)]
  BY DEF Takes
<1>2. q \in Seq(S) /\ inbox \in [Tasks -> Seq(S)]
  BY DEF TypeOK
<1>3. /\ Tail(q) \in Seq(S) /\ Len(Tail(q)) = Len(q) - 1 /\ Len(q) \in Nat
      /\ \A i \in 1 .. Len(q) - 1 : Tail(q)[i] = q[i + 1]
      /\ Tail(q) # <<>> => Len(q) > 1 /\ Head(Tail(q)) = q[2]
      /\ Len(q) > 1 => Tail(q) # <<>>
  BY <1>1, <1>2, Queues
<1>4. /\ inbox' \in [Tasks -> Seq(S)] /\ inbox'[t] = Tail(q)
      /\ \A u \in Tasks \ {t} : inbox'[u] = inbox[u]
  BY <1>1, <1>2, <1>3
<1>5. \A i \in 2 .. Len(q) : q[i] # "start"
  BY DEF GroupInv
<1>6. \A i \in 2 .. Len(Tail(q)) : Tail(q)[i] # "start"
  BY <1>3, <1>5
<1>7. Tail(q) # <<>> => Head(Tail(q)) # "start"
  BY <1>3, <1>5
<1> QED
  BY <1>1, <1>3, <1>4, <1>6, <1>7

(* The handler of the start begins.                                        *)
LEMMA StartKeeps ==
  ASSUME IInv, NEW t \in Tasks, startActivity(t)
  PROVE  IInv'
<1>1. TypeOK /\ GroupInv(t) /\ StreamInv(t) /\ EndInv(t)
  BY DEF IInv, TaskInv
<1>2. /\ Takes(t, "start") /\ handling' = [handling EXCEPT ![t] = TRUE]
      /\ UNCHANGED <<known, stage, result, cancelReason, heartbeats, encoding, recorded, flushed,
                     numHeartbeating, emitted, emittedByEnd, answers, cancelsSent, numInFlight>>
  BY DEF startActivity, heartbeatVars, coreVars
<1>3. /\ ~handling[t] /\ inbox[t] # <<>> /\ Head(inbox[t]) = "start"
      /\ inbox' \in [Tasks -> Seq({"start"} \cup CancelKinds)]
      /\ \A u \in Tasks \ {t} : inbox'[u] = inbox[u]
      /\ \A i \in 2 .. Len(inbox'[t]) : inbox'[t][i] # "start"
      /\ inbox'[t] # <<>> => Head(inbox'[t]) # "start"
      /\ Len(inbox[t]) > 1 => inbox'[t] # <<>>
  BY <1>1, <1>2, Taken
<1>4. handling' \in [Tasks -> BOOLEAN] /\ handling'[t]
      /\ \A u \in Tasks \ {t} : handling'[u] = handling[u]
  BY <1>1, <1>2 DEF TypeOK
<1>5. TypeOK'
  BY <1>1, <1>2, <1>3, <1>4 DEF TypeOK
<1>6. stage[t] = "absent"
  BY <1>1, <1>3 DEF GroupInv
<1>7. GroupInv(t)'
  BY <1>1, <1>2, <1>3, <1>4, <1>6 DEF GroupInv
<1>8. StreamInv(t)' /\ EndInv(t)'
  BY <1>1, <1>2, StreamKept
<1>9. \A u \in Tasks \ {t} : TaskKept(u)
  BY <1>2, <1>3, <1>4 DEF TaskKept
<1> QED
  BY <1>5, <1>7, <1>8, <1>9, StepKeeps DEF TaskInv

(* A cancel is handled: the activity is told if the group knows it.        *)
LEMMA CancelKeeps ==
  ASSUME IInv, NEW t \in Tasks, cancelActivity(t)
  PROVE  IInv'
<1>1. TypeOK /\ GroupInv(t) /\ StreamInv(t) /\ EndInv(t)
  BY DEF IInv, TaskInv
<1>2. PICK k \in CancelKinds :
        /\ Takes(t, k)
        /\ cancelReason' = IF known[t] THEN [cancelReason EXCEPT ![t] = k] ELSE cancelReason
  BY DEF cancelActivity
<1>3. UNCHANGED <<handling, known, stage, result, heartbeats, encoding, recorded, flushed,
                  numHeartbeating, emitted, emittedByEnd, answers, cancelsSent, numInFlight>>
  BY DEF cancelActivity, heartbeatVars, coreVars
<1>4. /\ ~handling[t] /\ inbox[t] # <<>> /\ Head(inbox[t]) = k
      /\ inbox' \in [Tasks -> Seq({"start"} \cup CancelKinds)]
      /\ \A u \in Tasks \ {t} : inbox'[u] = inbox[u]
      /\ \A i \in 2 .. Len(inbox'[t]) : inbox'[t][i] # "start"
      /\ inbox'[t] # <<>> => Head(inbox'[t]) # "start"
  BY <1>1, <1>2, Taken
<1>5. k # "start" /\ k # "none" /\ k \in Reasons
  BY DEF CancelKinds, Reasons
<1>6. stage[t] # "absent"
  BY <1>1, <1>4, <1>5 DEF GroupInv
<1>7. /\ cancelReason' \in [Tasks -> Reasons]
      /\ known[t] => cancelReason'[t] = k
      /\ \A u \in Tasks \ {t} : cancelReason'[u] = cancelReason[u]
  <2>1. CASE known[t]
    BY <2>1, <1>1, <1>2, <1>5 DEF TypeOK
  <2>2. CASE ~known[t]
    BY <2>2, <1>1, <1>2 DEF TypeOK
  <2> QED
    BY <2>1, <2>2
<1>8. TypeOK'
  BY <1>1, <1>3, <1>4, <1>7 DEF TypeOK
<1>9. GroupInv(t)'
  BY <1>1, <1>3, <1>4, <1>5, <1>6, <1>7 DEF GroupInv
<1>10. StreamInv(t)' /\ EndInv(t)'
  BY <1>1, <1>3, StreamKept
<1>11. \A u \in Tasks \ {t} : TaskKept(u)
  BY <1>3, <1>4, <1>7 DEF TaskKept
<1> QED
  BY <1>8, <1>9, <1>10, <1>11, StepKeeps DEF TaskInv

(* The handler of the start fails, which is the task's result.             *)
LEMMA StartFailsKeeps ==
  ASSUME IInv, NEW t \in Tasks, startFails(t)
  PROVE  IInv'
<1>1. TypeOK /\ GroupInv(t) /\ StreamInv(t) /\ EndInv(t)
  BY DEF IInv, TaskInv
<1>2. /\ handling[t] /\ handling' = [handling EXCEPT ![t] = FALSE]
      /\ result' = [result EXCEPT ![t] = "notStarted"]
      /\ stage' = [stage EXCEPT ![t] = "storing"]
      /\ UNCHANGED <<inbox, known, cancelReason, heartbeats, encoding, recorded, flushed,
                     numHeartbeating, emitted, emittedByEnd, answers, cancelsSent, numInFlight>>
  BY DEF startFails, heartbeatVars, coreVars
<1>3. /\ handling' \in [Tasks -> BOOLEAN] /\ ~handling'[t]
      /\ result' \in [Tasks -> Results] /\ result'[t] = "notStarted"
      /\ stage' \in [Tasks -> Stages] /\ stage'[t] = "storing"
      /\ \A u \in Tasks \ {t} :
           handling'[u] = handling[u] /\ result'[u] = result[u] /\ stage'[u] = stage[u]
  BY <1>1, <1>2 DEF TypeOK, Results, Failures, Stages
<1>4. TypeOK'
  BY <1>1, <1>2, <1>3 DEF TypeOK
<1>5. GroupInv(t)'
  BY <1>1, <1>2, <1>3 DEF GroupInv
<1>6. StreamInv(t)'
  BY <1>1, <1>2 DEF StreamInv
<1>7. stage[t] = "absent"
  BY <1>1, <1>2 DEF GroupInv
<1>8. EndInv(t)'
  BY <1>1, <1>2, <1>3, <1>7 DEF EndInv
<1>9. \A u \in Tasks \ {t} : TaskKept(u)
  BY <1>2, <1>3 DEF TaskKept
<1> QED
  BY <1>4, <1>5, <1>6, <1>8, <1>9, StepKeeps DEF TaskInv

(* The activity runs, with an idle heartbeat stream.                       *)
LEMMA StartReturnsKeeps ==
  ASSUME IInv, NEW t \in Tasks, startReturns(t)
  PROVE  IInv'
<1> DEFINE h == [ClosedStream EXCEPT !.closed = FALSE]
<1>1. TypeOK /\ GroupInv(t) /\ StreamInv(t) /\ EndInv(t)
  BY DEF IInv, TaskInv
<1>2. /\ handling[t] /\ handling' = [handling EXCEPT ![t] = FALSE]
      /\ known' = [known EXCEPT ![t] = TRUE]
      /\ stage' = [stage EXCEPT ![t] = "running"]
      /\ heartbeats' = [heartbeats EXCEPT ![t] = h]
      /\ numHeartbeating' = numHeartbeating + 1 /\ numInFlight' = numInFlight + 1
      /\ UNCHANGED <<inbox, result, cancelReason, encoding, recorded, flushed, emitted,
                     emittedByEnd, answers, cancelsSent>>
  BY DEF startReturns, coreVars
<1>3. h \in HeartbeatState /\ ~h.closed /\ ~h.processing /\ h.pending = 0
      /\ h.completionCallback = "none"
  <2>1. 0 \in Numbers
    BY BoundsAssumption DEF Numbers
  <2> QED
    BY <2>1 DEF ClosedStream, HeartbeatState
<1> HIDE DEF h
<1>4. /\ handling' \in [Tasks -> BOOLEAN] /\ ~handling'[t]
      /\ known' \in [Tasks -> BOOLEAN] /\ known'[t]
      /\ stage' \in [Tasks -> Stages] /\ stage'[t] = "running"
      /\ heartbeats' \in [Tasks -> HeartbeatState] /\ heartbeats'[t] = h
      /\ \A u \in Tasks \ {t} : /\ handling'[u] = handling[u] /\ known'[u] = known[u]
                                /\ stage'[u] = stage[u] /\ heartbeats'[u] = heartbeats[u]
  BY <1>1, <1>2, <1>3 DEF TypeOK, Stages
<1>5. TypeOK'
  BY <1>1, <1>2, <1>4 DEF TypeOK
<1>6. stage[t] = "absent"
  BY <1>1, <1>2 DEF GroupInv
<1>7. GroupInv(t)'
  BY <1>1, <1>2, <1>4, <1>6 DEF GroupInv
<1>8. emitted[t] = 0 /\ flushed[t] = 0 /\ encoding[t] = {}
  <2>1. emitted[t] = 0 /\ heartbeats[t] = ClosedStream
    BY <1>1, <1>6 DEF EndInv, StreamInv
  <2>2. flushed[t] <= 0 /\ flushed[t] \in Nat
    BY <2>1, <1>1, BoundsAssumption DEF StreamInv, TypeOK, Numbers
  <2>3. ~heartbeats[t].processing
    BY <2>1 DEF ClosedStream
  <2> QED
    BY <2>1, <2>2, <2>3, <1>1 DEF StreamInv
<1>9. StreamInv(t)'
  BY <1>1, <1>2, <1>3, <1>4, <1>8 DEF StreamInv
<1>10. EndInv(t)'
  BY <1>1, <1>2, <1>3, <1>4, <1>6 DEF EndInv, After
<1>11. \A u \in Tasks \ {t} : TaskKept(u)
  BY <1>2, <1>4 DEF TaskKept
<1> QED
  BY <1>5, <1>7, <1>9, <1>10, <1>11, StepKeeps DEF TaskInv

-----------------------------------------------------------------------------
(* The end of an activity                                                  *)

(* Steps of an activity past its start that leave its stream alone: its    *)
(* function ends, its result is not encoded, is stored, or is sent.        *)
LEMMA StageKeeps ==
  ASSUME IInv, NEW t \in Tasks, NEW s \in Stages, NEW r \in Results, NEW k \in BOOLEAN,
         stage' = [stage EXCEPT ![t] = s], result' = [result EXCEPT ![t] = r],
         known' = [known EXCEPT ![t] = k], answers' \in [Tasks -> Nat],
         UNCHANGED <<inbox, handling, cancelReason, heartbeats, encoding, recorded, flushed,
                     numHeartbeating, emitted, emittedByEnd, cancelsSent, numInFlight>>,
         \/ stage[t] \in {"running", "ending"} /\ s = "ending"
         \/ stage[t] \in After /\ s \in After /\ (r = "failed" => result[t] = "failed")
  PROVE  IInv'
<1>1. TypeOK /\ GroupInv(t) /\ StreamInv(t) /\ EndInv(t)
  BY DEF IInv, TaskInv
<1>2. /\ stage' \in [Tasks -> Stages] /\ stage'[t] = s
      /\ result' \in [Tasks -> Results] /\ result'[t] = r
      /\ known' \in [Tasks -> BOOLEAN]
      /\ \A u \in Tasks \ {t} :
           stage'[u] = stage[u] /\ result'[u] = result[u] /\ known'[u] = known[u]
  BY <1>1 DEF TypeOK
<1>3. TypeOK'
  BY <1>1, <1>2 DEF TypeOK
<1>4. stage[t] # "absent" /\ s \notin {"absent", "running", "flushing"}
  BY DEF After
<1>5. GroupInv(t)'
  BY <1>1, <1>2, <1>4 DEF GroupInv
<1>6. StreamInv(t)'
  BY <1>1 DEF StreamInv
<1>7. EndInv(t)'
  BY <1>1, <1>2, <1>4 DEF EndInv, After
<1>8. \A u \in Tasks \ {t} : TaskKept(u)
  BY <1>2 DEF TaskKept
<1> QED
  BY <1>3, <1>5, <1>6, <1>7, <1>8, StepKeeps DEF TaskInv

(* Every ending of the function means something to Core (Activity.run).    *)
LEMMA ResultTypes ==
  ASSUME NEW how, NEW reason
  PROVE  ResultOf(how, reason) \in Results
  BY DEF ResultOf, Results, Failures

(* The four steps are of that kind.                                        *)
LEMMA StagesKeep ==
  ASSUME IInv, NEW t \in Tasks,
         functionEnds(t) \/ resultNotEncoded(t) \/ encodeCompletion(t) \/ completeActivityTask(t)
  PROVE  IInv'
<1>1. TypeOK
  BY DEF IInv
<1>2. /\ stage = [stage EXCEPT ![t] = stage[t]] /\ result = [result EXCEPT ![t] = result[t]]
      /\ known = [known EXCEPT ![t] = known[t]]
      /\ stage[t] \in Stages /\ result[t] \in Results /\ known[t] \in BOOLEAN
      /\ answers \in [Tasks -> Nat]
  BY <1>1 DEF TypeOK
<1> USE DEF heartbeatVars, coreVars, After
<1>3. CASE functionEnds(t)
  <2>1. PICK how \in Endings : result' = [result EXCEPT ![t] = ResultOf(how, cancelReason[t])]
    BY <1>3 DEF functionEnds
  <2>2. ResultOf(how, cancelReason[t]) \in Results /\ "ending" \in Stages
    BY ResultTypes DEF Stages
  <2> QED
    BY <1>2, <1>3, <2>1, <2>2, StageKeeps DEF functionEnds
<1>4. CASE resultNotEncoded(t)
  <2>1. "failed" \in Results /\ "ending" \in Stages
    BY DEF Results, Failures, Stages
  <2> QED
    BY <1>2, <1>4, <2>1, StageKeeps DEF resultNotEncoded
<1>5. CASE encodeCompletion(t)
  <2>1. "notStored" \in Results /\ "completing" \in Stages
    BY DEF Results, Failures, Stages
  <2>2. PICK r \in Results : /\ result' = [result EXCEPT ![t] = r]
                             /\ r = "failed" => result[t] = "failed"
    BY <1>2, <1>5, <2>1 DEF encodeCompletion
  <2> QED
    BY <1>2, <1>5, <2>1, <2>2, StageKeeps DEF encodeCompletion
<1>6. CASE completeActivityTask(t)
  <2>1. "done" \in Stages
    BY DEF Stages
  <2>2. answers' \in [Tasks -> Nat]
    BY <1>2, <1>6 DEF completeActivityTask
  <2> QED
    BY <1>2, <1>6, <2>1, <2>2, StageKeeps DEF completeActivityTask
<1> QED
  BY <1>3, <1>4, <1>5, <1>6

-----------------------------------------------------------------------------
(* The heartbeat stream                                                    *)

(* The numbers and the fields of a task are what they are.                 *)
LEMMA TaskTypes ==
  ASSUME TypeOK, NEW t \in Tasks
  PROVE  /\ heartbeats[t] \in HeartbeatState
         /\ heartbeats[t].closed \in BOOLEAN /\ heartbeats[t].processing \in BOOLEAN
         /\ heartbeats[t].pending \in Nat /\ heartbeats[t].pending \in Numbers
         /\ heartbeats[t].completionCallback \in {"none", "ignore", "resolve"}
         /\ emitted[t] \in Nat /\ recorded[t] \in Nat /\ flushed[t] \in Nat
         /\ emittedByEnd[t] \in Nat
         /\ \A n \in encoding[t] : n \in Nat \ {0} /\ n \in Numbers
<1>1. Numbers \subseteq Nat
  BY BoundsAssumption DEF Numbers
<1>2. heartbeats[t] \in HeartbeatState
  BY DEF TypeOK
<1> QED
  BY <1>1, <1>2 DEF TypeOK, HeartbeatState

(* What is recorded is out, and what is out has been emitted.              *)
LEMMA Counters ==
  ASSUME NEW t \in Tasks, StreamInv(t)
  PROVE  recorded[t] <= flushed[t] /\ flushed[t] <= emitted[t]
  BY DEF StreamInv

(* After a step the stream has ended, ...                                  *)
LEMMA EndedStream ==
  ASSUME NEW t \in Tasks, heartbeats'[t] = ClosedStream, encoding'[t] = {},
         recorded'[t] <= flushed'[t], flushed'[t] <= emitted'[t], emitted'[t] \in Nat
  PROVE  StreamInv(t)'
  BY DEF StreamInv, ClosedStream

(* ... is idle with everything out, ...                                    *)
LEMMA IdleStream ==
  ASSUME NEW t \in Tasks, ~heartbeats'[t].closed, ~heartbeats'[t].processing,
         heartbeats'[t].pending = 0, heartbeats'[t].completionCallback = "none",
         encoding'[t] = {}, recorded'[t] <= flushed'[t], flushed'[t] = emitted'[t],
         emitted'[t] \in Nat
  PROVE  StreamInv(t)'
  BY DEF StreamInv

(* ... or is busy with one heartbeat, with the newest one pending unless   *)
(* nobody waits for it.                                                    *)
LEMMA BusyStream ==
  ASSUME NEW t \in Tasks, ~heartbeats'[t].closed, heartbeats'[t].processing,
         NEW p \in Nat, heartbeats'[t].pending = p,
         NEW c, heartbeats'[t].completionCallback = c,
         NEW n \in Nat, encoding'[t] = {n}, NEW e \in Nat, emitted'[t] = e,
         recorded'[t] <= flushed'[t], flushed'[t] <= n, n <= e, flushed'[t] \in Nat,
         p # 0 => n <= p, p <= e,
         c # "ignore" => (p # 0 => p = e) /\ (p = 0 => n = e)
  PROVE  StreamInv(t)'
<1>1. \A m \in encoding'[t] : m = n
  OBVIOUS
<1>2. flushed'[t] <= e
  OBVIOUS
<1>3. /\ heartbeats'[t].closed => heartbeats'[t] = ClosedStream
      /\ heartbeats'[t].completionCallback # "none" => heartbeats'[t].processing
      /\ heartbeats'[t].pending # 0 => heartbeats'[t].processing
      /\ heartbeats'[t].processing <=> encoding'[t] # {}
  OBVIOUS
<1> QED
  BY <1>1, <1>2, <1>3 DEF StreamInv

(* The fields of a busy stream before a step.                              *)
LEMMA BusyBefore ==
  ASSUME TypeOK, NEW t \in Tasks, StreamInv(t), ~heartbeats[t].closed, heartbeats[t].processing
  PROVE  \E n \in Nat :
           /\ encoding[t] = {n} /\ flushed[t] <= n /\ n <= emitted[t]
           /\ heartbeats[t].pending # 0 => n <= heartbeats[t].pending
           /\ heartbeats[t].pending <= emitted[t]
           /\ heartbeats[t].completionCallback # "ignore" =>
                /\ heartbeats[t].pending # 0 => heartbeats[t].pending = emitted[t]
                /\ heartbeats[t].pending = 0 => n = emitted[t]
<1>1. PICK n \in encoding[t] : TRUE
  BY DEF StreamInv
<1>2. n \in Nat
  BY TaskTypes
<1>3. encoding[t] = {n} /\ flushed[t] <= n /\ n <= emitted[t]
  BY DEF StreamInv
<1>4. /\ heartbeats[t].pending # 0 => n <= heartbeats[t].pending
      /\ heartbeats[t].pending <= emitted[t]
  BY DEF StreamInv
<1>5. heartbeats[t].completionCallback # "ignore" =>
        /\ heartbeats[t].pending # 0 => heartbeats[t].pending = emitted[t]
        /\ heartbeats[t].pending = 0 => n = emitted[t]
  BY DEF StreamInv
<1> QED
  BY <1>2, <1>3, <1>4, <1>5

(* The activity emits a heartbeat.                                         *)
LEMMA HeartbeatKeeps ==
  ASSUME IInv, NEW t \in Tasks, heartbeat(t)
  PROVE  IInv'
<1> DEFINE h == heartbeats[t]
           n == emitted[t] + 1
           out == onHeartbeat(h, n)
<1>1. TypeOK /\ GroupInv(t) /\ StreamInv(t) /\ EndInv(t)
  BY DEF IInv, TaskInv
<1>2. /\ stage[t] # "absent" /\ emitted[t] < MaxHeartbeats
      /\ emitted' = [emitted EXCEPT ![t] = n] /\ Output(t, out, {})
      /\ UNCHANGED <<inbox, handling, known, stage, result, cancelReason, recorded, flushed,
                     emittedByEnd, answers, cancelsSent, numInFlight>>
  BY DEF heartbeat, taskVars, coreVars
<1>3. n \in Numbers \ {0} /\ h \in HeartbeatState
  BY <1>1, <1>2, TaskTypes, BoundsAssumption DEF Numbers
<1>4. /\ IsOutput(out)
      /\ h.closed => out.state = h /\ out.send = 0
      /\ ~h.closed => ~out.state.closed /\ out.state.processing
                      /\ out.state.completionCallback = h.completionCallback
      /\ ~h.closed /\ h.processing => out.state.pending = n /\ out.send = 0
      /\ ~h.closed /\ ~h.processing => out.state.pending = 0 /\ out.send = n
  BY <1>3, OnHeartbeat
<1> HIDE DEF out
<1>5. /\ heartbeats' \in [Tasks -> HeartbeatState] /\ heartbeats'[t] = out.state
      /\ encoding' \in [Tasks -> SUBSET (Numbers \ {0})]
      /\ encoding'[t] = (encoding[t] \ {}) \cup ({out.send} \ {0})
      /\ \A u \in Tasks \ {t} : heartbeats'[u] = heartbeats[u] /\ encoding'[u] = encoding[u]
      /\ numHeartbeating' \in Int
  BY <1>1, <1>2, <1>4, OutputOf
<1>6. /\ emitted' \in [Tasks -> Numbers] /\ emitted'[t] = n
      /\ \A u \in Tasks \ {t} : emitted'[u] = emitted[u]
  BY <1>1, <1>2, <1>3 DEF TypeOK
<1>7. TypeOK'
  BY <1>1, <1>2, <1>5, <1>6 DEF TypeOK
<1>8. GroupInv(t)'
  BY <1>1, <1>2 DEF GroupInv
<1>9. emitted[t] \in Nat /\ n = emitted[t] + 1 /\ n # 0
  BY <1>1, TaskTypes
<1> HIDE DEF n
<1>10. EndInv(t)'
  <2>1. heartbeats'[t].closed <=> h.closed
    BY <1>3, <1>4, <1>5 DEF HeartbeatState
  <2>2. heartbeats'[t].completionCallback = h.completionCallback
    BY <1>3, <1>4, <1>5
  <2>3. emittedByEnd[t] <= n
    BY <1>1, <1>9, TaskTypes DEF EndInv
  <2> QED
    BY <1>1, <1>2, <1>6, <2>1, <2>2, <2>3 DEF EndInv
<1>11. StreamInv(t)'
  <2>0. /\ h.pending \in Nat /\ recorded[t] \in Nat /\ flushed[t] \in Nat
        /\ \A m \in encoding[t] : m \in Nat
    BY <1>1, TaskTypes
  <2>1. CASE h.closed
    <3>1. h = ClosedStream /\ encoding[t] = {}
      BY <2>1, <1>1 DEF StreamInv, ClosedStream
    <3>2. heartbeats'[t] = ClosedStream /\ encoding'[t] = {}
      BY <2>1, <3>1, <1>4, <1>5
    <3>3. recorded'[t] <= flushed'[t] /\ flushed'[t] <= emitted'[t] /\ emitted'[t] \in Nat
      <4>1. recorded'[t] = recorded[t] /\ flushed'[t] = flushed[t]
        BY <1>2
      <4>2. recorded[t] <= flushed[t] /\ flushed[t] <= emitted[t]
        BY <1>1, Counters
      <4> QED
        BY <4>1, <4>2, <2>0, <1>6, <1>9
    <3> QED
      BY <3>2, <3>3, EndedStream
  <2>2. CASE ~h.closed /\ h.processing
    <3>1. PICK m \in Nat : encoding[t] = {m} /\ flushed[t] <= m /\ m <= emitted[t]
      BY <2>2, <1>1, BusyBefore
    <3>2. encoding'[t] = {m} /\ heartbeats'[t].pending = n
      BY <2>2, <3>1, <1>4, <1>5
    <3>3. ~heartbeats'[t].closed /\ heartbeats'[t].processing
      BY <2>2, <1>4, <1>5
    <3>4. /\ recorded'[t] <= flushed'[t] /\ flushed'[t] <= m /\ m <= n /\ flushed'[t] \in Nat
          /\ n \in Nat
      BY <2>0, <3>1, <1>1, <1>2, <1>9, Counters
    <3> QED
      BY <3>1, <3>2, <3>3, <3>4, <1>6, <1>9, BusyStream
  <2>3. CASE ~h.closed /\ ~h.processing
    <3>1. encoding'[t] = {n} /\ heartbeats'[t].pending = 0
      BY <2>3, <1>1, <1>4, <1>5, <1>9 DEF StreamInv
    <3>2. ~heartbeats'[t].closed /\ heartbeats'[t].processing
      BY <2>3, <1>4, <1>5
    <3>3. /\ recorded'[t] <= flushed'[t] /\ flushed'[t] <= n /\ flushed'[t] \in Nat /\ n \in Nat
      BY <2>0, <1>1, <1>2, <1>9, Counters
    <3> QED
      BY <3>1, <3>2, <3>3, <1>6, BusyStream
  <2> QED
    BY <2>1, <2>2, <2>3
<1>12. \A u \in Tasks \ {t} : TaskKept(u)
  BY <1>2, <1>5, <1>6 DEF TaskKept
<1> QED
  BY <1>7, <1>8, <1>10, <1>11, <1>12, StepKeeps DEF TaskInv

(* activity.run() resolves: the stream is told, and a failed activity with *)
(* a heartbeat still to send waits for it.                                 *)
LEMMA RunEndsKeeps ==
  ASSUME IInv, NEW t \in Tasks, runEnds(t)
  PROVE  IInv'
<1> DEFINE h == heartbeats[t]
           failed == result[t] = "failed"
           callback == IF failed THEN "resolve" ELSE "ignore"
           out == onCompletion(h, failed, callback)
           s == IF failed /\ out.callback # "resolve" THEN "flushing" ELSE "storing"
<1>1. TypeOK /\ GroupInv(t) /\ StreamInv(t) /\ EndInv(t)
  BY DEF IInv, TaskInv
<1>2. /\ stage[t] = "ending" /\ Output(t, out, {})
      /\ stage' = [stage EXCEPT ![t] = s]
      /\ emittedByEnd' = [emittedByEnd EXCEPT ![t] = emitted[t]]
      /\ numInFlight' = numInFlight - 1
      /\ UNCHANGED <<inbox, handling, known, result, cancelReason, recorded, flushed, emitted,
                     answers, cancelsSent>>
  BY DEF runEnds, coreVars
<1>3. /\ h \in HeartbeatState /\ ~h.closed /\ h.completionCallback = "none"
      /\ h.pending # 0 => h.processing
  BY <1>1, <1>2, TaskTypes DEF EndInv, StreamInv
<1>4. failed \in BOOLEAN /\ callback \in {"ignore", "resolve"}
  OBVIOUS
<1>5. /\ IsOutput(out) /\ out.send = 0
      /\ h.processing =>
           /\ ~out.state.closed /\ out.state.processing
           /\ out.state.pending = IF failed THEN h.pending ELSE 0
           /\ out.state.completionCallback = callback /\ out.callback = "none"
      /\ ~h.processing => out.state = ClosedStream /\ out.callback = callback
  <2> HIDE DEF failed, callback
  <2> QED
    BY <1>3, <1>4, OnCompletion
<1> HIDE DEF out
<1>6. /\ heartbeats' \in [Tasks -> HeartbeatState] /\ heartbeats'[t] = out.state
      /\ encoding' \in [Tasks -> SUBSET (Numbers \ {0})]
      /\ encoding'[t] = (encoding[t] \ {}) \cup ({out.send} \ {0})
      /\ \A u \in Tasks \ {t} : heartbeats'[u] = heartbeats[u] /\ encoding'[u] = encoding[u]
      /\ numHeartbeating' \in Int
  BY <1>1, <1>2, <1>5, OutputOf
<1>7. encoding'[t] = encoding[t]
  BY <1>5, <1>6
<1>8. s \in {"flushing", "storing"}
  OBVIOUS
<1>9. /\ stage' \in [Tasks -> Stages] /\ stage'[t] = s
      /\ emittedByEnd' \in [Tasks -> Numbers] /\ emittedByEnd'[t] = emitted[t]
      /\ \A u \in Tasks \ {t} : stage'[u] = stage[u] /\ emittedByEnd'[u] = emittedByEnd[u]
  <2> HIDE DEF s
  <2> QED
    BY <1>1, <1>2, <1>8 DEF TypeOK, Stages
<1>10. TypeOK'
  <2>1. numInFlight' \in Int
    BY <1>1, <1>2 DEF TypeOK
  <2> HIDE DEF h, failed, callback, s
  <2> QED
    BY <2>1, <1>1, <1>2, <1>6, <1>9 DEF TypeOK
<1>11. GroupInv(t)'
  BY <1>1, <1>2, <1>8, <1>9 DEF GroupInv
<1>12. /\ h.pending \in Nat /\ emitted[t] \in Nat /\ flushed[t] \in Nat /\ recorded[t] \in Nat
       /\ \A m \in encoding[t] : m \in Nat
  BY <1>1, TaskTypes
<1>13. \A u \in Tasks \ {t} : TaskKept(u)
  BY <1>2, <1>6, <1>9 DEF TaskKept
<1>14. CASE h.processing
  <2>1. PICK n \in Nat :
          /\ encoding[t] = {n} /\ flushed[t] <= n /\ n <= emitted[t]
          /\ h.pending # 0 => n <= h.pending /\ h.pending = emitted[t]
          /\ h.pending = 0 => n = emitted[t]
    BY <1>1, <1>3, <1>14, BusyBefore
  <2>2. recorded'[t] <= flushed'[t] /\ flushed'[t] = flushed[t] /\ emitted'[t] = emitted[t]
    BY <1>1, <1>2, Counters
  <2>3. ~heartbeats'[t].closed /\ heartbeats'[t].processing /\ encoding'[t] = {n}
    BY <1>5, <1>6, <1>7, <1>14, <2>1
  <2>4. CASE failed
    <3>1. heartbeats'[t].pending = h.pending /\ heartbeats'[t].completionCallback = "resolve"
      BY <2>4, <1>5, <1>6, <1>14
    <3>2. StreamInv(t)'
      BY <2>1, <2>2, <2>3, <3>1, <1>12, BusyStream
    <3>3. stage'[t] = "flushing" /\ result'[t] = "failed"
      BY <2>4, <1>2, <1>5, <1>9, <1>14
    <3>4. EndInv(t)'
      BY <2>2, <2>3, <3>1, <3>3, <1>9, <1>12 DEF EndInv, After
    <3> QED
      BY <3>2, <3>4, <1>10, <1>11, <1>13, StepKeeps DEF TaskInv
  <2>5. CASE ~failed
    <3>1. heartbeats'[t].pending = 0 /\ heartbeats'[t].completionCallback = "ignore"
      BY <2>5, <1>5, <1>6, <1>14
    <3>2. StreamInv(t)'
      BY <2>1, <2>2, <2>3, <3>1, <1>12, BusyStream
    <3>3. stage'[t] = "storing" /\ result'[t] # "failed"
      BY <2>5, <1>2, <1>9
    <3>4. EndInv(t)'
      BY <2>2, <2>3, <3>1, <3>3, <1>9, <1>12 DEF EndInv, After
    <3> QED
      BY <3>2, <3>4, <1>10, <1>11, <1>13, StepKeeps DEF TaskInv
  <2> QED
    BY <2>4, <2>5
<1>15. CASE ~h.processing
  <2>1. heartbeats'[t] = ClosedStream /\ encoding'[t] = {} /\ flushed[t] = emitted[t]
    BY <1>1, <1>3, <1>5, <1>6, <1>7, <1>15 DEF StreamInv
  <2>2. StreamInv(t)'
    <3>1. recorded'[t] <= flushed'[t] /\ flushed'[t] <= emitted'[t] /\ emitted'[t] \in Nat
      BY <1>1, <1>2, <1>12, Counters
    <3> QED
      BY <2>1, <3>1, EndedStream
  <2>3. stage'[t] = "storing"
    BY <1>5, <1>9, <1>15
  <2>4. EndInv(t)'
    BY <2>1, <2>3, <1>2, <1>9, <1>12 DEF EndInv, ClosedStream, After
  <2> QED
    BY <2>2, <2>4, <1>10, <1>11, <1>13, StepKeeps DEF TaskInv
<1> QED
  BY <1>14, <1>15

(* A heartbeat is out, or cannot be encoded: the stream goes on with the   *)
(* pending one, or ends, on which a failed activity that waits moves on.   *)
LEMMA FlushKeeps ==
  ASSUME IInv, NEW t \in Tasks, NEW n \in encoding[t], Flush(t, n),
         NEW c \in Reasons \ {"none"},
         cancelReason' = cancelReason \/ cancelReason' = [cancelReason EXCEPT ![t] = c],
         recorded' = recorded \/ recorded' = [recorded EXCEPT ![t] = n],
         UNCHANGED <<inbox, handling, known, result, emitted, emittedByEnd, answers,
                     cancelsSent, numInFlight>>
  PROVE  IInv'
<1> DEFINE h == heartbeats[t]
           out == onFlush(h)
           s == IF out.callback = "resolve" THEN "storing" ELSE stage[t]
<1>1. TypeOK /\ GroupInv(t) /\ StreamInv(t) /\ EndInv(t)
  BY DEF IInv, TaskInv
<1>2. /\ Output(t, out, {n}) /\ flushed' = [flushed EXCEPT ![t] = n]
      /\ stage' = [stage EXCEPT ![t] = s]
  BY DEF Flush
<1>3. /\ h \in HeartbeatState /\ h.processing /\ encoding[t] = {n}
      /\ ~h.closed /\ flushed[t] <= n /\ n <= emitted[t]
  <2>1. h.processing /\ encoding[t] = {n} /\ flushed[t] <= n /\ n <= emitted[t]
    BY <1>1 DEF StreamInv
  <2>2. h.closed => ~h.processing
    BY <1>1 DEF StreamInv, ClosedStream
  <2> QED
    BY <2>1, <2>2, <1>1, TaskTypes
<1>4. /\ IsOutput(out)
      /\ h.pending # 0 =>
           /\ ~out.state.closed /\ out.state.processing /\ out.state.pending = 0
           /\ out.state.completionCallback = h.completionCallback
           /\ out.send = h.pending /\ out.callback = "none"
      /\ h.pending = 0 /\ h.completionCallback # "none" =>
           /\ out.state = ClosedStream /\ out.send = 0
           /\ out.callback = h.completionCallback
      /\ h.pending = 0 /\ h.completionCallback = "none" =>
           /\ ~out.state.closed /\ ~out.state.processing /\ out.state.pending = 0
           /\ out.state.completionCallback = "none"
           /\ out.send = 0 /\ out.callback = "none"
  BY <1>3, OnFlush
<1> HIDE DEF out
<1>5. /\ heartbeats' \in [Tasks -> HeartbeatState] /\ heartbeats'[t] = out.state
      /\ encoding' \in [Tasks -> SUBSET (Numbers \ {0})]
      /\ encoding'[t] = (encoding[t] \ {n}) \cup ({out.send} \ {0})
      /\ \A u \in Tasks \ {t} : heartbeats'[u] = heartbeats[u] /\ encoding'[u] = encoding[u]
      /\ numHeartbeating' \in Int
  BY <1>1, <1>2, <1>4, OutputOf
<1>6. encoding'[t] = {out.send} \ {0}
  BY <1>3, <1>5
<1>7. /\ h.pending \in Nat /\ emitted[t] \in Nat /\ flushed[t] \in Nat /\ recorded[t] \in Nat
      /\ n \in Nat /\ n \in Numbers /\ emittedByEnd[t] \in Nat
  BY <1>1, TaskTypes
<1>8. s \in Stages /\ (s # stage[t] => s = "storing")
  BY <1>1 DEF TypeOK, Stages
<1>9. /\ stage' \in [Tasks -> Stages] /\ stage'[t] = s
      /\ flushed' \in [Tasks -> Numbers] /\ flushed'[t] = n
      /\ \A u \in Tasks \ {t} : stage'[u] = stage[u] /\ flushed'[u] = flushed[u]
  <2> HIDE DEF s
  <2> QED
    BY <1>1, <1>2, <1>7, <1>8 DEF TypeOK
<1>10. /\ recorded' \in [Tasks -> Numbers] /\ recorded'[t] \in {recorded[t], n}
       /\ \A u \in Tasks \ {t} : recorded'[u] = recorded[u]
  <2>1. recorded \in [Tasks -> Numbers]
    BY <1>1 DEF TypeOK
  <2>2. CASE recorded' = recorded
    BY <2>1, <2>2
  <2>3. CASE recorded' = [recorded EXCEPT ![t] = n]
    BY <2>1, <2>3, <1>7
  <2> QED
    BY <2>2, <2>3
<1>11. /\ cancelReason' \in [Tasks -> Reasons]
       /\ cancelReason'[t] = cancelReason[t] \/ cancelReason'[t] # "none"
       /\ \A u \in Tasks \ {t} : cancelReason'[u] = cancelReason[u]
  <2>1. cancelReason \in [Tasks -> Reasons]
    BY <1>1 DEF TypeOK
  <2>2. CASE cancelReason' = cancelReason
    BY <2>1, <2>2
  <2>3. CASE cancelReason' = [cancelReason EXCEPT ![t] = c]
    BY <2>1, <2>3
  <2> QED
    BY <2>2, <2>3
<1>12. TypeOK'
  BY <1>1, <1>5, <1>9, <1>10, <1>11 DEF TypeOK
<1>13. stage[t] # "absent" /\ (s = "storing" => stage[t] # "running" \/ s = stage[t])
  BY <1>1, <1>3, <1>4 DEF EndInv
<1>14. GroupInv(t)'
  <2> HIDE DEF s
  <2>1. s # "absent" /\ (s = "running" => stage[t] = "running")
    BY <1>8, <1>13
  <2> QED
    BY <2>1, <1>1, <1>9, <1>11, <1>13 DEF GroupInv
<1>15. recorded'[t] <= n
  BY <1>1, <1>3, <1>7, <1>10, Counters
<1>16. \A u \in Tasks \ {t} : TaskKept(u)
  BY <1>5, <1>9, <1>10, <1>11 DEF TaskKept
<1>17. CASE h.pending # 0
  <2>1. encoding'[t] = {h.pending} /\ s = stage[t]
    BY <1>4, <1>6, <1>17
  <2>2. n <= h.pending /\ h.pending <= emitted[t]
    BY <1>1, <1>17 DEF StreamInv
  <2>3. recorded'[t] \in Nat
    BY <1>7, <1>10
  <2>4. /\ ~heartbeats'[t].closed /\ heartbeats'[t].processing /\ heartbeats'[t].pending = 0
        /\ heartbeats'[t].completionCallback = h.completionCallback
    BY <1>4, <1>5, <1>17
  <2>5. h.completionCallback # "ignore" => h.pending = emitted[t]
    BY <1>1, <1>3, <1>17 DEF StreamInv
  <2>6. StreamInv(t)'
    <3> DEFINE p == h.pending
               c2 == h.completionCallback
    <3>1. /\ p \in Nat /\ emitted'[t] = emitted[t] /\ emitted[t] \in Nat /\ n \in Nat
          /\ encoding'[t] = {p} /\ heartbeats'[t].completionCallback = c2
      BY <2>1, <2>4, <1>7
    <3>2. /\ recorded'[t] <= flushed'[t] /\ flushed'[t] <= p /\ p <= emitted[t]
          /\ flushed'[t] \in Nat
      BY <2>2, <1>7, <1>9, <1>15
    <3>3. c2 # "ignore" => p = emitted[t]
      BY <2>5
    <3> HIDE DEF p, c2, h, s
    <3> QED
      BY <3>1, <3>2, <3>3, <2>4, BusyStream
  <2>7. EndInv(t)'
    <3>1. stage'[t] = stage[t] /\ flushed'[t] >= flushed[t] /\ stage[t] # "absent"
      BY <2>1, <1>3, <1>7, <1>9, <1>13
    <3>2. ~heartbeats[t].closed
      BY <1>3
    <3>3. result[t] = "failed" /\ stage[t] \in After => flushed'[t] >= emittedByEnd[t]
      BY <3>1, <1>1, <1>7, <1>9 DEF EndInv
    <3> QED
      BY <2>4, <3>1, <3>2, <3>3, <1>1 DEF EndInv
  <2> QED
    BY <2>6, <2>7, <1>12, <1>14, <1>16, StepKeeps DEF TaskInv
<1>18. CASE h.pending = 0 /\ h.completionCallback # "none"
  <2>1. heartbeats'[t] = ClosedStream /\ encoding'[t] = {}
    BY <1>4, <1>5, <1>6, <1>18
  <2>2. StreamInv(t)'
    BY <2>1, <1>3, <1>7, <1>9, <1>15, EndedStream
  <2>3. CASE h.completionCallback = "resolve"
    <3>1. s = "storing" /\ n = emitted[t]
      BY <2>3, <1>1, <1>3, <1>4, <1>18 DEF StreamInv
    <3>2. EndInv(t)'
      <4>1. heartbeats'[t].closed /\ stage'[t] = "storing" /\ flushed'[t] = emitted[t]
        BY <3>1, <2>1, <1>9 DEF ClosedStream
      <4>2. emittedByEnd[t] <= emitted[t]
        BY <1>1 DEF EndInv
      <4> QED
        BY <4>1, <4>2, <1>7 DEF EndInv, After
    <3> QED
      BY <3>2, <2>2, <1>12, <1>14, <1>16, StepKeeps DEF TaskInv
  <2>4. CASE h.completionCallback = "ignore"
    <3>1. s = stage[t] /\ stage[t] \in After
      BY <2>4, <1>1, <1>3, <1>4, <1>13, <1>18 DEF EndInv, After, TypeOK, Stages
    <3>2. EndInv(t)'
      <4> HIDE DEF h, s
      <4>1. heartbeats'[t].closed /\ stage'[t] = stage[t] /\ flushed'[t] = n
        <5>1. heartbeats'[t].closed
          BY <2>1 DEF ClosedStream
        <5> QED
          BY <5>1, <3>1, <1>9
      <4>2. /\ emittedByEnd[t] <= emitted[t]
            /\ result[t] = "failed" => flushed[t] >= emittedByEnd[t]
        BY <3>1, <1>1 DEF EndInv
      <4>3. result[t] = "failed" => flushed'[t] >= emittedByEnd[t]
        BY <4>1, <4>2, <1>3, <1>7
      <4>4. stage[t] \notin {"absent", "running", "ending", "flushing"}
        BY <3>1 DEF After
      <4> QED
        BY <3>1, <4>1, <4>2, <4>3, <4>4 DEF EndInv
    <3> QED
      BY <3>2, <2>2, <1>12, <1>14, <1>16, StepKeeps DEF TaskInv
  <2> QED
    BY <2>3, <2>4, <1>1, <1>18, TaskTypes
<1>19. CASE h.pending = 0 /\ h.completionCallback = "none"
  <2>1. encoding'[t] = {} /\ s = stage[t]
    BY <1>4, <1>6, <1>19
  <2>2. n = emitted[t]
    BY <1>1, <1>3, <1>19 DEF StreamInv
  <2>3. /\ ~heartbeats'[t].closed /\ ~heartbeats'[t].processing /\ heartbeats'[t].pending = 0
        /\ heartbeats'[t].completionCallback = "none"
    BY <1>4, <1>5, <1>19
  <2>4. StreamInv(t)'
    BY <2>1, <2>2, <2>3, <1>7, <1>9, <1>15, IdleStream
  <2>5. EndInv(t)'
    <3>1. stage[t] \in {"running", "ending"} /\ stage'[t] = stage[t]
      BY <2>1, <1>1, <1>3, <1>9, <1>13, <1>19 DEF EndInv, TypeOK, Stages, After
    <3> QED
      BY <3>1, <2>3, <1>1 DEF EndInv, After
  <2> QED
    BY <2>4, <2>5, <1>12, <1>14, <1>16, StepKeeps DEF TaskInv
<1> QED
  BY <1>17, <1>18, <1>19

-----------------------------------------------------------------------------
(* The theorems                                                            *)

(* No task has been polled at the start.                                   *)
LEMMA InitInv == Init => IInv
<1> SUFFICES ASSUME Init PROVE IInv
  OBVIOUS
<1> USE DEF Init
<1>1. 0 \in Numbers /\ 0 \in 0 .. MaxCancels
  BY BoundsAssumption DEF Numbers
<1>2. ClosedStream \in HeartbeatState
  BY <1>1 DEF ClosedStream, HeartbeatState
<1>3. inbox \in [Tasks -> Seq({"start"} \cup CancelKinds)]
  <2>1. <<>> \in Seq({"start"} \cup CancelKinds)
    OBVIOUS
  <2> QED
    BY <2>1
<1>4. TypeOK
  BY <1>1, <1>2, <1>3 DEF TypeOK, Stages, Results, Reasons
<1>5. ASSUME NEW t \in Tasks
      PROVE  TaskInv(t)
  <2>1. GroupInv(t)
    BY DEF GroupInv
  <2>2. StreamInv(t)
    BY DEF StreamInv, ClosedStream
  <2>3. EndInv(t)
    BY DEF EndInv, ClosedStream, After
  <2> QED
    BY <2>1, <2>2, <2>3 DEF TaskInv
<1> QED
  BY <1>4, <1>5 DEF IInv

(* The end of a heartbeat, sent or not, is a flush.                        *)
LEMMA HeartbeatEndKeeps ==
  ASSUME IInv, NEW t \in Tasks, heartbeatSent(t) \/ heartbeatNotEncoded(t)
  PROVE  IInv'
<1> DEFINE c == "HEARTBEAT_DETAILS_CONVERSION_FAILED"
<1>1. c \in Reasons \ {"none"}
  BY DEF Reasons
<1>2. UNCHANGED <<inbox, handling, known, result, emitted, emittedByEnd, answers,
                  cancelsSent, numInFlight>>
  BY DEF heartbeatSent, heartbeatNotEncoded, coreVars
<1>3. PICK n \in encoding[t] :
        /\ Flush(t, n)
        /\ recorded' = recorded \/ recorded' = [recorded EXCEPT ![t] = n]
        /\ cancelReason' = cancelReason \/ cancelReason' = [cancelReason EXCEPT ![t] = c]
  BY DEF heartbeatSent, heartbeatNotEncoded
<1> QED
  BY <1>1, <1>2, <1>3, FlushKeeps

(* Every step of Core, of an activity and of the worker keeps IInv.        *)
LEMMA NextInv == IInv /\ [Next]_vars => IInv'
<1> SUFFICES ASSUME IInv, [Next]_vars PROVE IInv'
  OBVIOUS
<1>1. ASSUME NEW t \in Tasks, CorePolled(t)
      PROVE  IInv'
  BY <1>1, PollStartKeeps, PollCancelKeeps DEF CorePolled
<1>2. ASSUME NEW t \in Tasks, ActivityCode(t)
      PROVE  IInv'
  BY <1>2, HeartbeatKeeps, StagesKeep DEF ActivityCode
<1>3. ASSUME NEW t \in Tasks, Worker(t)
      PROVE  IInv'
  BY <1>3, StartKeeps, StartFailsKeeps, StartReturnsKeeps, CancelKeeps, StagesKeep, RunEndsKeeps,
     HeartbeatEndKeeps DEF Worker
<1>4. CASE UNCHANGED vars
  <2>1. /\ UNCHANGED <<inbox, handling, known, stage, result, cancelReason, heartbeats, encoding,
                       emitted, recorded, flushed, emittedByEnd, answers, cancelsSent,
                       numInFlight, numHeartbeating>>
    BY <1>4 DEF vars, taskVars, heartbeatVars, coreVars
  <2>2. TypeOK'
    BY <2>1 DEF IInv, TypeOK
  <2>3. \A t \in Tasks : TaskKept(t)
    BY <2>1 DEF TaskKept
  <2>4. \A t \in Tasks : TaskInv(t)'
    BY <2>3, Untouched DEF IInv
  <2> QED
    BY <2>2, <2>4 DEF IInv
<1> QED
  BY <1>1, <1>2, <1>3, <1>4 DEF Next

(* The groups, the activities and their streams agree (worker.ts,          *)
(* activityOperator and activityHeartbeat$).                               *)
THEOREM TasksInvariant == Spec => []IInv
  BY InitInv, NextInv, PTL DEF Spec

(* The answer of a failed activity follows its last heartbeat: the stream  *)
(* calls back only when what was emitted before the end is out.            *)
THEOREM FailureAfterHeartbeats == Spec => []FlushedBeforeFailure
<1>1. IInv => FlushedBeforeFailure
  BY DEF IInv, TaskInv, EndInv, FlushedBeforeFailure, After
<1> QED
  BY <1>1, TasksInvariant, PTL

(* A cancel that is polled while the start is being handled waits in the   *)
(* group, and reaches the activity.                                        *)
THEOREM CancelReachesActivity == Spec => []CancelNotLost
<1>1. IInv => CancelNotLost
  <2> SUFFICES ASSUME IInv, NEW t \in Tasks, stage[t] = "running", ~handling[t],
                      inbox[t] = <<>>, cancelsSent[t] > 0
               PROVE  cancelReason[t] # "none"
    BY DEF CancelNotLost
  <2> QED
    BY DEF IInv, TaskInv, GroupInv
<1> QED
  BY <1>1, TasksInvariant, PTL

(* A heartbeat stream ends with its activity and its last heartbeat.       *)
THEOREM StreamsEnd == Spec => []StreamEndsWithActivity
<1>1. IInv => StreamEndsWithActivity
  <2> SUFFICES ASSUME IInv, NEW t \in Tasks, stage[t] \in After, encoding[t] = {}
               PROVE  heartbeats[t].closed
    BY DEF StreamEndsWithActivity, After
  <2> QED
    BY DEF IInv, TaskInv, EndInv, StreamInv
<1> QED
  BY <1>1, TasksInvariant, PTL

(* A step that gives Core a heartbeat gives it a later one than before.    *)
LEMMA RecordedGrows ==
  ASSUME IInv, [Next]_vars, NEW t \in Tasks
  PROVE  recorded'[t] >= recorded[t]
<1>1. TypeOK /\ StreamInv(t) /\ recorded[t] \in Nat /\ flushed[t] \in Nat
  BY TaskTypes DEF IInv, TaskInv
<1>2. recorded' = recorded
      \/ \E u \in Tasks : \E n \in encoding[u] : recorded' = [recorded EXCEPT ![u] = n]
  BY DEF Next, CorePolled, ActivityCode, Worker, activityPollStart, activityPollCancel, heartbeat,
     functionEnds, startActivity, startFails, startReturns, cancelActivity, resultNotEncoded,
     runEnds, heartbeatSent, heartbeatNotEncoded, encodeCompletion, completeActivityTask,
     vars, heartbeatVars
<1>3. ASSUME NEW u \in Tasks, NEW n \in encoding[u], recorded' = [recorded EXCEPT ![u] = n]
      PROVE  recorded'[t] >= recorded[t]
  <2>1. CASE u = t
    <3>1. n \in Nat /\ recorded[t] <= flushed[t] /\ flushed[t] <= n
      BY <1>1, <2>1, TaskTypes DEF StreamInv
    <3>2. recorded'[t] = n
      BY <1>1, <1>3, <2>1 DEF TypeOK
    <3> QED
      BY <1>1, <3>1, <3>2
  <2>2. CASE u # t
    BY <1>1, <1>3, <2>2 DEF TypeOK
  <2> QED
    BY <2>1, <2>2
<1> QED
  BY <1>1, <1>2, <1>3

(* Heartbeats reach Core in the order in which they were emitted.          *)
THEOREM RecordedInOrder == Spec => HeartbeatsInOrder
<1>1. IInv /\ [Next]_vars => [\A t \in Tasks : recorded'[t] >= recorded[t]]_vars
  BY RecordedGrows
<1> QED
  BY <1>1, TasksInvariant, PTL DEF Spec, HeartbeatsInOrder
=============================================================================
