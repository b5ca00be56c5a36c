---------------------------- MODULE WorkflowCacheProofs ----------------------------
(***********************************************************************************)
(* Proofs about WorkflowCache and the threads it is composed with, for any number  *)
(* of runs, threads and activations: the cache stays in step with Core, and        *)
(* threads are asked only for workflows that they hold.                            *)
(*                                                                                 *)
(* The properties are not inductive.  What makes them hold is, for each run, that  *)
(* its group's queue is what Core has outstanding, or a synthetic eviction         *)
(* (GroupInv), that the request that is awaited fits the head of the queue and the *)
(* group's workflow (RequestInv), and that a workflow is held by its thread until  *)
(* the thread exits (HeldInv).  A step of one group leaves the other runs alone.   *)
(***********************************************************************************)
EXTENDS WorkflowCache, TLAPS

(* A run's group against Core.                                                     *)
GroupInv(r) ==
  /\ r \notin open => /\ queue[r] = <<>> /\ workflow[r] = NoThread /\ ~Waiting(r)
                      /\ core[r] = "absent" \/ poller = "SHUTDOWN"
  /\ core[r] = "absent" => r \notin open
  /\ Outstanding(r) => poller = "POLLING" /\ queue[r] = <<core[r]>>
  /\ core[r] \in {"cached", "failed"} =>
       queue[r] = <<>> \/ (queue[r] = <<"synthetic">> /\ poller = "SHUTDOWN")
  /\ core[r] \in {"cached", "jobs"} /\ r \in open => workflow[r] # NoThread

(* The request that a run's group awaits.                                          *)
RequestInv(r) ==
  Waiting(r) =>
    /\ queue[r] # <<>>
    /\ request[r].rejected => thread[request[r].to] = "exited"
    /\ request[r].type = "create" => workflow[r] = NoThread /\ Head(queue[r]) = "init"
    /\ request[r].type # "create" => workflow[r] = request[r].to
    /\ request[r].type = "dispose" => Head(queue[r]) \in {"evict", "synthetic"}
    /\ request[r].type # "dispose" => Head(queue[r]) \in {"init", "jobs"}

(* A run's workflow and the threads.                                               *)
HeldInv(r) ==
  \A t \in Threads :
    /\ workflow[r] = t /\ thread[t] # "exited" => r \in workflowByRunId[t]
    /\ thread[t] = "up" /\ r \in workflowByRunId[t] =>
         workflow[r] = t \/ <<t, r>> \in abandoned

(* All of it for a run, and the inductive invariant.                               *)
RunInv(r) == GroupInv(r) /\ RequestInv(r) /\ HeldInv(r)
IInv == TypeOK /\ \A r \in Runs : RunInv(r)

(* What a step of another run's group leaves alone.                                *)
RunKept(r) ==
  /\ core'[r] = core[r] /\ queue'[r] = queue[r]
  /\ workflow'[r] = workflow[r] /\ request'[r] = request[r]
  /\ r \in open' <=> r \in open
  /\ \A t \in Threads : /\ r \in workflowByRunId'[t] <=> r \in workflowByRunId[t]
                        /\ <<t, r>> \in abandoned' <=> <<t, r>> \in abandoned

-----------------------------------------------------------------------------------
(* Lemmas about groups.                                                            *)

(* The queues that occur: one activation goes into an empty queue, and out again.  *)
LEMMA Singletons ==
  ASSUME NEW a \in Activations
  PROVE  /\ Append(<<>>, a) = <<a>> /\ Tail(<<a>>) = <<>>
         /\ Head(<<a>>) = a /\ <<a>> # <<>>
  OBVIOUS

(* A group with something to handle is open, and handles what Core has outstanding *)
(* or, once the poller has ended, the synthetic eviction (worker.ts, workflow$).   *)
LEMMA Heads ==
  ASSUME TypeOK, NEW r \in Runs, GroupInv(r), queue[r] # <<>>
  PROVE  /\ r \in open
         /\ Tail(queue[r]) = <<>>
         /\ \/ Head(queue[r]) = core[r] /\ Outstanding(r) /\ poller = "POLLING"
            \/ /\ Head(queue[r]) = "synthetic" /\ poller = "SHUTDOWN"
               /\ core[r] \in {"cached", "failed"}
<1>1. r \in open
  BY DEF GroupInv
<1>2. core[r] \in {"cached", "failed"} \/ Outstanding(r)
  BY <1>1 DEF GroupInv, TypeOK, Outstanding
<1>3. CASE Outstanding(r)
  <2>1. queue[r] = <<core[r]>> /\ core[r] \in Activations /\ poller = "POLLING"
    BY <1>3 DEF GroupInv, Outstanding, Activations
  <2> QED
    BY <2>1, <1>1, <1>3, Singletons
<1>4. CASE core[r] \in {"cached", "failed"}
  <2>1. queue[r] = <<"synthetic">> /\ poller = "SHUTDOWN"
    BY <1>4 DEF GroupInv
  <2>2. "synthetic" \in Activations
    BY DEF Activations
  <2> QED
    BY <2>1, <2>2, <1>1, <1>4, Singletons
<1> QED
  BY <1>2, <1>3, <1>4

(* A step that leaves a run, the poller and the threads' states alone.             *)
LEMMA Untouched ==
  ASSUME NEW r \in Runs, RunInv(r), RunKept(r), poller' = poller, thread' = thread
  PROVE  RunInv(r)'
<1>1. GroupInv(r)'
  BY DEF RunInv, GroupInv, RunKept, Waiting, Outstanding
<1>2. RequestInv(r)'
  BY DEF RunInv, RequestInv, RunKept, Waiting
<1>3. HeldInv(r)'
  BY DEF RunInv, HeldInv, RunKept
<1> QED
  BY <1>1, <1>2, <1>3 DEF RunInv

(* A completion (Answer) keeps the group in step: it stays open with an empty      *)
(* queue, and a successful one leaves a workflow behind.                           *)
LEMMA AnswerKeeps ==
  ASSUME TypeOK, NEW r \in Runs, GroupInv(r), NEW ok \in BOOLEAN, Answer(r, ok),
         queue[r] # <<>>, Head(queue[r]) \in {"init", "jobs"},
         ok => workflow'[r] # NoThread, poller' = poller
  PROVE  GroupInv(r)' /\ RequestInv(r)'
<1>1. r \in open /\ Tail(queue[r]) = <<>>
  BY Heads
<1>2. /\ core'[r] = IF ok THEN "cached" ELSE "failed"
      /\ queue'[r] = <<>> /\ request'[r] = NoRequest /\ open' = open
  BY <1>1 DEF Answer, TypeOK, ThreadsTypeOK
<1>3. core'[r] \in {"cached", "failed"} /\ (core'[r] = "cached" => ok)
  BY <1>2
<1>4. GroupInv(r)'
  BY <1>1, <1>2, <1>3 DEF GroupInv, Outstanding
<1>5. RequestInv(r)'
  BY <1>2 DEF RequestInv, Waiting
<1> QED
  BY <1>4, <1>5

(* An eviction (Close) leaves nothing behind: the run has no group, and Core has   *)
(* forgotten it unless the poller has ended.                                       *)
LEMMA CloseKeeps ==
  ASSUME TypeOK, NEW r \in Runs, GroupInv(r), Close(r), queue[r] # <<>>,
         Head(queue[r]) \in {"evict", "synthetic"}, poller' = poller
  PROVE  GroupInv(r)' /\ RequestInv(r)' /\ workflow'[r] = NoThread
<1>1. /\ r \notin open' /\ queue'[r] = <<>> /\ workflow'[r] = NoThread
      /\ request'[r] = NoRequest
      /\ core'[r] = IF Head(queue[r]) = "evict" THEN "absent" ELSE core[r]
  BY DEF Close, TypeOK, ThreadsTypeOK
<1>2. \/ core'[r] = "absent"
      \/ poller' = "SHUTDOWN" /\ core'[r] \in {"cached", "failed"}
  BY <1>1, Heads DEF Outstanding
<1>3. GroupInv(r)'
  BY <1>1, <1>2 DEF GroupInv, Waiting, Outstanding
<1>4. RequestInv(r)'
  BY <1>1 DEF RequestInv, Waiting
<1> QED
  BY <1>1, <1>3, <1>4

(* A request that is sent for the head of the queue.                               *)
LEMMA SendKeeps ==
  ASSUME TypeOK, NEW r \in Runs, GroupInv(r), NEW type \in RequestTypes,
         NEW t \in Threads, Send(r, type, t), queue[r] # <<>>,
         type = "dispose" <=> Head(queue[r]) \in {"evict", "synthetic"},
         type = "create" => workflow'[r] = NoThread /\ Head(queue[r]) = "init",
         type # "create" => workflow'[r] = t,
         workflow[r] # NoThread => workflow'[r] # NoThread,
         UNCHANGED <<core, open, queue, poller>>
  PROVE  GroupInv(r)' /\ RequestInv(r)'
<1>1. request'[r] = Request(type, t)
  BY DEF Send, TypeOK, ThreadsTypeOK
<1>2. r \in open
  BY Heads
<1>3. GroupInv(r)'
  BY <1>2 DEF GroupInv, Outstanding
<1>4. /\ request'[r].type = type /\ request'[r].to = t /\ request'[r].rejected = FALSE
  BY <1>1 DEF Request
<1>5. Head(queue[r]) \in {"init", "jobs", "evict", "synthetic"}
  BY Heads DEF Outstanding
<1>6. RequestInv(r)'
  BY <1>4, <1>5 DEF RequestInv
<1> QED
  BY <1>3, <1>6

-----------------------------------------------------------------------------------
(* Types.                                                                          *)

(* The types of what completions and requests change.                              *)
GroupTypes ==
  /\ core \in [Runs -> {"absent", "cached", "failed", "init", "jobs", "evict"}]
  /\ queue \in [Runs -> Seq(Activations)]
  /\ activated \in [Runs -> BOOLEAN]
  /\ request \in [Runs -> [type : RequestTypes, to : Threads, rejected : BOOLEAN]
                            \cup {NoRequest}]
  /\ open \subseteq Runs
  /\ activeWorkflowCount \in [Threads -> Int]
  /\ unexpected \in BOOLEAN
  /\ stopping \in BOOLEAN

(* The types of the rest.                                                          *)
OtherTypes ==
  /\ thread \in [Threads -> {"up", "failing", "exited"}]
  /\ workflowByRunId \in [Threads -> SUBSET Runs]
  /\ destroying \in [Threads -> {"no", "asked", "terminating", "done", "rejected"}]
  /\ delivered \in [Runs -> 0..MaxActivations]
  /\ poller \in {"POLLING", "SHUTDOWN"}
  /\ workflow \in [Runs -> Threads \cup {NoThread}]
  /\ abandoned \in SUBSET (Threads \X Runs)

(* The two parts make up TypeOK.                                                   *)
LEMMA TypeParts == TypeOK <=> GroupTypes /\ OtherTypes
  BY DEF TypeOK, ThreadsTypeOK, GroupTypes, OtherTypes

(* An answer with the flags that go with it (Answer, and Fail on top of it).       *)
LEMMA AnswerTypes ==
  ASSUME TypeOK, NEW r \in Runs, NEW ok \in BOOLEAN, Answer(r, ok), queue[r] # <<>>,
         unexpected' \in BOOLEAN, stopping' \in BOOLEAN
  PROVE  GroupTypes'
<1>1. Tail(queue[r]) \in Seq(Activations)
  BY DEF TypeOK
<1>2. queue' \in [Runs -> Seq(Activations)]
  BY <1>1 DEF Answer, TypeOK
<1> QED
  BY <1>2 DEF Answer, TypeOK, ThreadsTypeOK, GroupTypes

(* A failed completion.                                                            *)
LEMMA FailTypes ==
  ASSUME TypeOK, NEW r \in Runs, NEW e \in BOOLEAN, Fail(r, e), queue[r] # <<>>
  PROVE  GroupTypes'
<1>1. unexpected' \in BOOLEAN /\ stopping' \in BOOLEAN
  BY DEF Fail, TypeOK
<1> QED
  BY <1>1, AnswerTypes DEF Fail

(* The closing of a group.                                                         *)
LEMMA CloseTypes ==
  ASSUME TypeOK, NEW r \in Runs, Close(r)
  PROVE  GroupTypes' /\ workflow' \in [Runs -> Threads \cup {NoThread}]
<1>1. <<>> \in Seq(Activations)
  OBVIOUS
<1>2. queue' \in [Runs -> Seq(Activations)]
  BY <1>1 DEF Close, TypeOK
<1> QED
  BY <1>2 DEF Close, TypeOK, ThreadsTypeOK, GroupTypes

(* A request that is sent.                                                         *)
LEMMA SendTypes ==
  ASSUME TypeOK, NEW r \in Runs, NEW type \in RequestTypes, NEW t \in Threads,
         Send(r, type, t)
  PROVE  /\ request' \in [Runs -> [type : RequestTypes, to : Threads, rejected : BOOLEAN]
                                    \cup {NoRequest}]
         /\ activeWorkflowCount' \in [Threads -> Int]
<1>1. Request(type, t) \in [type : RequestTypes, to : Threads, rejected : BOOLEAN]
  BY DEF Request
<1>2. activeWorkflowCount[t] \in Int
  BY DEF TypeOK, ThreadsTypeOK
<1> QED
  BY <1>1, <1>2 DEF Send, TypeOK, ThreadsTypeOK

(* A request that is sent, or that fails at once.                                  *)
LEMMA AskTypes ==
  ASSUME TypeOK, NEW r \in Runs, NEW type \in RequestTypes, NEW t \in Threads,
         NEW ok \in BOOLEAN, Ask(r, type, t, ok), queue[r] # <<>>
  PROVE  GroupTypes'
<1>1. CASE thread[t] = "up"
  BY <1>1, SendTypes DEF Ask, TypeOK, GroupTypes
<1>2. CASE thread[t] # "up"
  BY <1>2, FailTypes DEF Ask
<1> QED
  BY <1>1, <1>2

(* What the answer of a thread does to its workflows, by the type of the request.  *)
LEMMA HandledWorkflows ==
  ASSUME TypeOK, NEW r \in Runs, NEW ok \in BOOLEAN, Handled(r, ok)
  PROVE  /\ request[r].to \in Threads /\ request[r].type \in RequestTypes
         /\ workflowByRunId' \in [Threads -> SUBSET Runs]
         /\ \A t \in Threads, q \in Runs :
              q # r \/ t # request[r].to =>
                (q \in workflowByRunId'[t] <=> q \in workflowByRunId[t])
         /\ request[r].type = "create" /\ ok => r \in workflowByRunId'[request[r].to]
         /\ request[r].type = "dispose" /\ ok => r \notin workflowByRunId'[request[r].to]
         /\ request[r].type \notin {"create", "dispose"} \/ ~ok =>
              workflowByRunId' = workflowByRunId
<1>1. request[r].to \in Threads /\ request[r].type \in RequestTypes
  BY DEF Handled, Waiting, TypeOK, ThreadsTypeOK
<1> DEFINE t == request[r].to
<1>2. workflowByRunId \in [Threads -> SUBSET Runs]
  BY DEF TypeOK, ThreadsTypeOK
<1>3. CASE request[r].type = "create" /\ ok
  <2>1. workflowByRunId' = [workflowByRunId EXCEPT ![t] = @ \cup {r}]
    BY <1>3 DEF Handled
  <2> QED
    BY <1>1, <1>2, <1>3, <2>1
<1>4. CASE request[r].type = "dispose" /\ ok
  <2>1. workflowByRunId' = [workflowByRunId EXCEPT ![t] = @ \ {r}]
    BY <1>4 DEF Handled
  <2> QED
    BY <1>1, <1>2, <1>4, <2>1
<1>5. CASE request[r].type \notin {"create", "dispose"} \/ ~ok
  <2>1. workflowByRunId' = workflowByRunId
    BY <1>1, <1>2, <1>5 DEF Handled
  <2> QED
    BY <1>1, <1>2, <1>5, <2>1
<1> QED
  BY <1>1, <1>3, <1>4, <1>5

-----------------------------------------------------------------------------------
(* The steps of a group.                                                           *)

(* What is left of another run by a completion, a closing or a request.            *)
OthersKept(r) ==
  \A q \in Runs \ {r} :
    /\ core'[q] = core[q] /\ queue'[q] = queue[q] /\ request'[q] = request[q]
    /\ q \in open' <=> q \in open

(* Every ending of a step of handleActivation is about one run.                    *)
LEMMA EndingsKeepOthers ==
  ASSUME TypeOK, NEW r \in Runs
  PROVE  /\ \A ok \in BOOLEAN : Answer(r, ok) => OthersKept(r)
         /\ \A e \in BOOLEAN : Fail(r, e) => OthersKept(r)
         /\ Close(r) => OthersKept(r)
         /\ \A type \in RequestTypes, t \in Threads :
              Send(r, type, t) /\ UNCHANGED <<core, open, queue>> => OthersKept(r)
         /\ \A type \in RequestTypes, t \in Threads, ok \in BOOLEAN :
              Ask(r, type, t, ok) => OthersKept(r)
<1>1. \A ok \in BOOLEAN : Answer(r, ok) => OthersKept(r)
  BY DEF Answer, OthersKept, TypeOK, ThreadsTypeOK
<1>2. \A e \in BOOLEAN : Fail(r, e) => OthersKept(r)
  BY <1>1 DEF Fail
<1>3. Close(r) => OthersKept(r)
  BY DEF Close, OthersKept, TypeOK, ThreadsTypeOK
<1>4. \A type \in RequestTypes, t \in Threads :
        Send(r, type, t) /\ UNCHANGED <<core, open, queue>> => OthersKept(r)
  BY DEF Send, OthersKept, TypeOK, ThreadsTypeOK
<1>5. \A type \in RequestTypes, t \in Threads, ok \in BOOLEAN :
        Ask(r, type, t, ok) => OthersKept(r)
  BY <1>2, <1>4 DEF Ask
<1> QED
  BY <1>1, <1>2, <1>3, <1>4, <1>5

(* A step of r's group keeps the invariant if it does for r, and is about r alone. *)
LEMMA StepKeeps ==
  ASSUME IInv, NEW r \in Runs, GroupTypes', OtherTypes', RunInv(r)', OthersKept(r),
         \A q \in Runs \ {r} :
           /\ workflow'[q] = workflow[q]
           /\ \A t \in Threads :
                /\ q \in workflowByRunId'[t] <=> q \in workflowByRunId[t]
                /\ <<t, q>> \in abandoned' <=> <<t, q>> \in abandoned,
         poller' = poller, thread' = thread
  PROVE  IInv'
<1>1. TypeOK'
  BY TypeParts, PTL
<1>2. ASSUME NEW q \in Runs
      PROVE  RunInv(q)'
  <2>1. CASE q = r
    BY <2>1
  <2>2. CASE q # r
    <3>1. RunKept(q)
      BY <2>2 DEF RunKept, OthersKept
    <3>2. RunInv(q)
      BY DEF IInv
    <3> QED
      BY <3>1, <3>2, Untouched
  <2> QED
    BY <2>1, <2>2
<1> QED
  BY <1>1, <1>2 DEF IInv

(* A request for a workflow that the group has, or for a new one, and its failure. *)
LEMMA AskKeeps ==
  ASSUME TypeOK, NEW r \in Runs, GroupInv(r), NEW type \in RequestTypes \ {"dispose"},
         NEW t \in Threads, NEW ok \in BOOLEAN, Ask(r, type, t, ok), queue[r] # <<>>,
         Head(queue[r]) \in {"init", "jobs"},
         type = "create" => workflow'[r] = NoThread /\ Head(queue[r]) = "init",
         type # "create" => workflow'[r] = t,
         workflow[r] # NoThread => workflow'[r] # NoThread,
         poller' = poller
  PROVE  GroupInv(r)' /\ RequestInv(r)'
<1>1. CASE thread[t] = "up"
  BY <1>1, SendKeeps DEF Ask
<1>2. CASE thread[t] # "up"
  BY <1>2, AnswerKeeps DEF Ask, Fail
<1> QED
  BY <1>1, <1>2

(* Steps that leave the threads' workflows alone: the group takes up an activation *)
(* (decodeFails, createWorkflow, activate, dispose), or its request was rejected.  *)
LEMMA TakeUp ==
  ASSUME IInv, NEW r \in Runs,
         decodeFails(r) \/ createWorkflow(r) \/ activate(r) \/ rejected(r)
  PROVE  IInv'
<1> USE DEF RequestTypes
<1>1. TypeOK /\ GroupInv(r) /\ RequestInv(r) /\ HeldInv(r)
  BY DEF IInv, RunInv
<1>2. UNCHANGED <<thread, workflowByRunId, destroying, delivered, poller, workflow, abandoned>>
  BY DEF decodeFails, createWorkflow, activate, rejected
<1>3. queue[r] # <<>> /\ Head(queue[r]) \in {"init", "jobs"}
  BY <1>1 DEF decodeFails, createWorkflow, activate, rejected, Rejected, Ready, RequestInv
<1>4. OtherTypes'
  BY <1>1, <1>2 DEF TypeOK, ThreadsTypeOK, OtherTypes
<1>5. HeldInv(r)'
  BY <1>1, <1>2 DEF HeldInv
<1>6. GroupTypes' /\ OthersKept(r) /\ GroupInv(r)' /\ RequestInv(r)'
  <2>1. CASE decodeFails(r) \/ rejected(r)
    <3>1. PICK e \in BOOLEAN : Fail(r, e)
      BY <2>1 DEF decodeFails, rejected
    <3>2. GroupTypes' /\ OthersKept(r)
      BY <3>1, <1>1, <1>3, FailTypes, EndingsKeepOthers
    <3>3. GroupInv(r)' /\ RequestInv(r)'
      BY <3>1, <1>1, <1>2, <1>3, AnswerKeeps DEF Fail
    <3> QED
      BY <3>2, <3>3
  <2>2. CASE createWorkflow(r)
    <3>1. PICK t \in Threads : Ask(r, "create", t, FALSE)
      BY <2>2 DEF createWorkflow
    <3>2. workflow[r] = NoThread /\ Head(queue[r]) = "init"
      BY <2>2 DEF createWorkflow, Ready
    <3>3. GroupTypes' /\ OthersKept(r)
      BY <3>1, <1>1, <1>3, AskTypes, EndingsKeepOthers
    <3>4. GroupInv(r)' /\ RequestInv(r)'
      BY <3>1, <3>2, <1>1, <1>2, <1>3, AskKeeps
    <3> QED
      BY <3>3, <3>4
  <2>3. CASE activate(r)
    <3>1. workflow[r] \in Threads /\ Ask(r, "activate", workflow[r], FALSE)
      BY <2>3, <1>1 DEF activate, TypeOK
    <3>3. GroupTypes' /\ OthersKept(r)
      BY <3>1, <1>1, <1>3, AskTypes, EndingsKeepOthers
    <3>4. GroupInv(r)' /\ RequestInv(r)'
      BY <3>1, <1>1, <1>2, <1>3, AskKeeps, NoThreadIsNone
    <3> QED
      BY <3>3, <3>4
  <2> QED
    BY <2>1, <2>2, <2>3
<1> QED
  BY <1>2, <1>4, <1>5, <1>6, StepKeeps DEF RunInv

(* The thread has created the workflow: it holds it before the group knows of it.  *)
LEMMA CreatedKeeps ==
  ASSUME IInv, NEW r \in Runs, created(r)
  PROVE  IInv'
<1> DEFINE t == request[r].to
<1> USE DEF RequestTypes
<1>1. TypeOK /\ GroupInv(r) /\ RequestInv(r) /\ HeldInv(r)
  BY DEF IInv, RunInv
<1>2. /\ UNCHANGED <<thread, destroying, delivered, poller>>
      /\ Handled(r, TRUE) /\ request[r].type = "create" /\ Ask(r, "activate", t, FALSE)
      /\ workflow' = [workflow EXCEPT ![r] = t] /\ abandoned' = abandoned \ {<<t, r>>}
  BY DEF created
<1>3. /\ queue[r] # <<>> /\ Head(queue[r]) \in {"init", "jobs"} /\ workflow[r] = NoThread
  BY <1>1, <1>2 DEF RequestInv, Handled
<1>4. /\ t \in Threads
      /\ workflowByRunId' \in [Threads -> SUBSET Runs]
      /\ \A u \in Threads, q \in Runs :
           q # r \/ u # t => (q \in workflowByRunId'[u] <=> q \in workflowByRunId[u])
      /\ r \in workflowByRunId'[t]
  BY <1>1, <1>2, HandledWorkflows
<1>5. workflow'[r] = t /\ \A q \in Runs \ {r} : workflow'[q] = workflow[q]
  BY <1>1, <1>2 DEF TypeOK
<1>6. OtherTypes'
  BY <1>1, <1>2, <1>4 DEF TypeOK, ThreadsTypeOK, OtherTypes
<1>7. HeldInv(r)'
  <2>1. \A u \in Threads \ {t} : workflow[r] # u
    BY <1>3, NoThreadIsNone
  <2> QED
    BY <2>1, <1>1, <1>2, <1>3, <1>4, <1>5, NoThreadIsNone DEF HeldInv
<1>8. GroupTypes' /\ OthersKept(r)
  BY <1>1, <1>2, <1>3, <1>4, AskTypes, EndingsKeepOthers
<1>9. GroupInv(r)' /\ RequestInv(r)'
  <2>1. workflow'[r] # NoThread
    BY <1>4, <1>5, NoThreadIsNone
  <2> QED
    BY <2>1, <1>1, <1>2, <1>3, <1>4, <1>5, AskKeeps
<1>10. \A q \in Runs \ {r}, u \in Threads :
         <<u, q>> \in abandoned' <=> <<u, q>> \in abandoned
  BY <1>2
<1> QED
  BY <1>2, <1>4, <1>5, <1>6, <1>7, <1>8, <1>9, <1>10, StepKeeps DEF RunInv

(* The other answers of a thread to a group that goes on.                          *)
LEMMA SettledKeeps ==
  ASSUME IInv, NEW r \in Runs,
         \/ createFails(r) \/ sinksProcessed(r)
         \/ \E ok \in BOOLEAN : activateSettles(r, ok)
  PROVE  IInv'
<1> DEFINE t == request[r].to
<1> USE DEF RequestTypes
<1>1. TypeOK /\ GroupInv(r) /\ RequestInv(r) /\ HeldInv(r)
  BY DEF IInv, RunInv
<1>2. UNCHANGED <<thread, destroying, delivered, poller, workflow, abandoned>>
  BY DEF createFails, sinksProcessed, activateSettles
<1>3. Waiting(r) /\ request[r].type # "dispose"
  BY DEF createFails, sinksProcessed, activateSettles, Handled
<1>4. queue[r] # <<>> /\ Head(queue[r]) \in {"init", "jobs"}
  BY <1>1, <1>3 DEF RequestInv
<1>5. t \in Threads /\ workflowByRunId' = workflowByRunId
  <2>1. CASE createFails(r)
    BY <2>1, <1>1, HandledWorkflows DEF createFails
  <2>2. CASE sinksProcessed(r)
    BY <2>2, <1>1, HandledWorkflows DEF sinksProcessed
  <2>3. ASSUME NEW ok \in BOOLEAN, activateSettles(r, ok)
        PROVE  t \in Threads /\ workflowByRunId' = workflowByRunId
    BY <2>3, <1>1, HandledWorkflows DEF activateSettles
  <2> QED
    BY <2>1, <2>2, <2>3
<1>6. OtherTypes'
  BY <1>1, <1>2, <1>5 DEF TypeOK, ThreadsTypeOK, OtherTypes
<1>7. HeldInv(r)'
  BY <1>1, <1>2, <1>5 DEF HeldInv
<1>8. GroupTypes' /\ OthersKept(r) /\ GroupInv(r)' /\ RequestInv(r)'
  <2>1. CASE createFails(r)
    <3>1. Fail(r, FALSE)
      BY <2>1 DEF createFails
    <3>2. GroupTypes' /\ OthersKept(r)
      BY <3>1, <1>1, <1>4, FailTypes, EndingsKeepOthers
    <3> QED
      BY <3>1, <3>2, <1>1, <1>2, <1>4, AnswerKeeps DEF Fail
  <2>2. CASE sinksProcessed(r)
    <3>1. /\ activated[r] \in BOOLEAN /\ Answer(r, activated[r])
          /\ unexpected' \in BOOLEAN /\ stopping' \in BOOLEAN
      BY <2>2, <1>1 DEF sinksProcessed, TypeOK
    <3>2. GroupTypes' /\ OthersKept(r)
      BY <3>1, <1>1, <1>4, AnswerTypes, EndingsKeepOthers
    <3>3. workflow[r] = t
      BY <2>2, <1>1, <1>3 DEF sinksProcessed, RequestInv
    <3> QED
      BY <3>1, <3>2, <3>3, <1>1, <1>2, <1>4, <1>5, AnswerKeeps, NoThreadIsNone
  <2>3. ASSUME NEW ok \in BOOLEAN, activateSettles(r, ok)
        PROVE  GroupTypes' /\ OthersKept(r) /\ GroupInv(r)' /\ RequestInv(r)'
    <3>1. Ask(r, "sinks", t, ok) /\ request[r].type = "activate"
      BY <2>3 DEF activateSettles
    <3>2. GroupTypes' /\ OthersKept(r)
      BY <3>1, <1>1, <1>4, <1>5, AskTypes, EndingsKeepOthers
    <3>3. workflow[r] = t
      BY <3>1, <1>1, <1>3 DEF RequestInv
    <3>4. GroupInv(r)' /\ RequestInv(r)'
      BY <3>1, <3>3, <1>1, <1>2, <1>4, <1>5, AskKeeps
    <3> QED
      BY <3>2, <3>4
  <2> QED
    BY <2>1, <2>2, <2>3
<1> QED
  BY <1>2, <1>5, <1>6, <1>7, <1>8, StepKeeps DEF RunInv

(* An eviction sends the disposal to the thread that holds the workflow.           *)
LEMMA DisposeKeeps ==
  ASSUME IInv, NEW r \in Runs, dispose(r)
  PROVE  IInv'
<1> USE DEF RequestTypes
<1>1. TypeOK /\ GroupInv(r) /\ RequestInv(r) /\ HeldInv(r)
  BY DEF IInv, RunInv
<1>2. /\ UNCHANGED <<thread, workflowByRunId, destroying, delivered, poller, workflow,
                     abandoned, core, open, queue, activated, unexpected, stopping>>
      /\ Send(r, "dispose", workflow[r]) /\ workflow[r] \in Threads
      /\ queue[r] # <<>> /\ Head(queue[r]) \in {"evict", "synthetic"}
  BY <1>1 DEF dispose, cacheVars, Ready, TypeOK
<1>3. GroupTypes' /\ OtherTypes'
  <2>1. GroupTypes /\ OtherTypes
    BY <1>1, TypeParts
  <2>2. GroupTypes'
    BY <2>1, <1>1, <1>2, SendTypes DEF GroupTypes
  <2>3. OtherTypes'
    BY <2>1, <1>2 DEF OtherTypes
  <2> QED
    BY <2>2, <2>3
<1>4. OthersKept(r)
  BY <1>1, <1>2, EndingsKeepOthers
<1>5. GroupInv(r)' /\ RequestInv(r)'
  BY <1>1, <1>2, SendKeeps
<1>6. HeldInv(r)'
  BY <1>1, <1>2 DEF HeldInv
<1> QED
  BY <1>2, <1>3, <1>4, <1>5, <1>6, StepKeeps DEF RunInv

(* The group closes: its workflow has been disposed, has thrown in its disposal,   *)
(* or was in a thread that is gone.                                                *)
LEMMA EvictedKeeps ==
  ASSUME IInv, NEW r \in Runs,
         \/ evictWithoutDisposal(r) \/ disposeRejected(r)
         \/ \E ok \in BOOLEAN : disposed(r, ok)
  PROVE  IInv'
<1> DEFINE t == request[r].to
<1> USE DEF RequestTypes
<1>1. TypeOK /\ GroupInv(r) /\ RequestInv(r) /\ HeldInv(r)
  BY DEF IInv, RunInv
<1>2. UNCHANGED <<thread, destroying, delivered, poller>> /\ Close(r)
  BY DEF evictWithoutDisposal, disposeRejected, disposed
<1>3. queue[r] # <<>> /\ Head(queue[r]) \in {"evict", "synthetic"}
  BY <1>1 DEF evictWithoutDisposal, disposeRejected, disposed, Rejected, Ready, RequestInv
<1>4. GroupTypes' /\ workflow' \in [Runs -> Threads \cup {NoThread}] /\ OthersKept(r)
  BY <1>1, <1>2, CloseTypes, EndingsKeepOthers
<1>5. GroupInv(r)' /\ RequestInv(r)' /\ workflow'[r] = NoThread
  BY <1>1, <1>2, <1>3, CloseKeeps
<1>6. \A q \in Runs \ {r} : workflow'[q] = workflow[q]
  BY <1>1, <1>2 DEF Close, TypeOK
<1>7. /\ workflowByRunId' \in [Threads -> SUBSET Runs]
      /\ abandoned' \in SUBSET (Threads \X Runs)
      /\ \A q \in Runs \ {r}, u \in Threads :
           /\ q \in workflowByRunId'[u] <=> q \in workflowByRunId[u]
           /\ <<u, q>> \in abandoned' <=> <<u, q>> \in abandoned
      /\ \A u \in Threads : thread[u] = "up" /\ r \in workflowByRunId'[u] =>
           <<u, r>> \in abandoned'
  <2>1. CASE evictWithoutDisposal(r)
    <3>1. UNCHANGED <<workflowByRunId, abandoned>>
      BY <2>1 DEF evictWithoutDisposal
    <3>2. \A u \in Threads : workflow[r] = u => thread[u] # "up"
      BY <2>1, NoThreadIsNone DEF evictWithoutDisposal
    <3> QED
      BY <3>1, <3>2, <1>1 DEF HeldInv, TypeOK, ThreadsTypeOK
  <2>2. CASE disposeRejected(r)
    <3>1. t \in Threads /\ thread[t] = "exited" /\ workflow[r] = t
      BY <2>2, <1>1 DEF disposeRejected, Rejected, RequestInv, Waiting, TypeOK, ThreadsTypeOK
    <3>2. UNCHANGED <<workflowByRunId, abandoned>>
      BY <2>2 DEF disposeRejected
    <3> QED
      BY <3>1, <3>2, <1>1 DEF HeldInv, TypeOK, ThreadsTypeOK
  <2>3. CASE \E ok \in BOOLEAN : disposed(r, ok)
    <3>1. PICK ok \in BOOLEAN : disposed(r, ok)
      BY <2>3
    <3>2. Handled(r, ok) /\ request[r].type = "dispose" /\ workflow[r] = t
      BY <3>1, <1>1 DEF disposed, RequestInv
    <3>3. abandoned' = IF ok THEN abandoned ELSE abandoned \cup {<<t, r>>}
      BY <3>1 DEF disposed
    <3>4. /\ t \in Threads
          /\ workflowByRunId' \in [Threads -> SUBSET Runs]
          /\ \A u \in Threads, q \in Runs :
               q # r \/ u # t => (q \in workflowByRunId'[u] <=> q \in workflowByRunId[u])
          /\ ok => r \notin workflowByRunId'[t]
      BY <3>2, <1>1, HandledWorkflows
    <3>5. CASE ok
      BY <3>2, <3>3, <3>4, <3>5, <1>1 DEF HeldInv, TypeOK
    <3>6. CASE ~ok
      BY <3>2, <3>3, <3>4, <3>6, <1>1 DEF HeldInv, TypeOK
    <3> QED
      BY <3>5, <3>6
  <2> QED
    BY <2>1, <2>2, <2>3
<1>8. OtherTypes'
  BY <1>1, <1>2, <1>4, <1>7 DEF TypeOK, ThreadsTypeOK, OtherTypes
<1>9. HeldInv(r)'
  BY <1>2, <1>5, <1>7, NoThreadIsNone DEF HeldInv
<1> QED
  BY <1>2, <1>4, <1>5, <1>6, <1>7, <1>8, <1>9, StepKeeps DEF RunInv

-----------------------------------------------------------------------------------
(* The steps of Core, of the poller and of the threads.                            *)

(* Core delivers an activation to a run that has none outstanding.                 *)
LEMMA PollKeeps ==
  ASSUME IInv, NEW r \in Runs, NEW a \in Activations, pollWorkflowActivation(r, a)
  PROVE  IInv'
<1>1. TypeOK /\ GroupInv(r) /\ RequestInv(r) /\ HeldInv(r)
  BY DEF IInv, RunInv
<1>2. /\ poller = "POLLING" /\ delivered[r] < MaxActivations
      /\ \/ a = "init" /\ core[r] = "absent"
         \/ a = "jobs" /\ core[r] = "cached"
         \/ a = "evict" /\ core[r] \in {"cached", "failed"}
      /\ core' = [core EXCEPT ![r] = a]
      /\ delivered' = [delivered EXCEPT ![r] = @ + 1]
      /\ open' = open \cup {r}
      /\ queue' = [queue EXCEPT ![r] = Append(@, a)]
      /\ UNCHANGED <<thread, activeWorkflowCount, workflowByRunId, request, destroying,
                     poller, workflow, activated, unexpected, stopping, abandoned>>
  BY DEF pollWorkflowActivation, threadVars
<1>3. queue[r] = <<>>
  BY <1>1, <1>2 DEF GroupInv
<1>4. core'[r] = a /\ queue'[r] = <<a>> /\ r \in open'
  BY <1>1, <1>2, <1>3, Singletons DEF TypeOK
<1>5. ~Waiting(r)
  BY <1>1, <1>3 DEF RequestInv
<1>6. core[r] = "cached" => workflow[r] # NoThread
  BY <1>1, <1>2 DEF GroupInv
<1>7. GroupInv(r)'
  BY <1>2, <1>4, <1>6 DEF GroupInv, Outstanding
<1>8. RequestInv(r)' /\ HeldInv(r)'
  BY <1>1, <1>2, <1>5 DEF RequestInv, Waiting, HeldInv
<1>9. OthersKept(r)
  BY <1>1, <1>2 DEF OthersKept, TypeOK
<1>10. GroupTypes'
  <2>1. Append(queue[r], a) \in Seq(Activations)
    BY <1>1 DEF TypeOK
  <2>2. queue' \in [Runs -> Seq(Activations)]
    BY <2>1, <1>1, <1>2 DEF TypeOK
  <2> QED
    BY <2>2, <1>1, <1>2 DEF TypeOK, ThreadsTypeOK, GroupTypes
<1>11. OtherTypes'
  <2>1. delivered[r] + 1 \in 0..MaxActivations
    BY <1>1, <1>2, CacheAssumption DEF TypeOK
  <2> QED
    BY <2>1, <1>1, <1>2 DEF TypeOK, ThreadsTypeOK, OtherTypes
<1> QED
  BY <1>2, <1>7, <1>8, <1>9, <1>10, <1>11, StepKeeps DEF RunInv

(* The poller ends: every open group, idle by then, gets a synthetic eviction.     *)
LEMMA PollerEndKeeps ==
  ASSUME IInv, pollerEnds
  PROVE  IInv'
<1>1. TypeOK
  BY DEF IInv
<1>2. /\ poller = "POLLING" /\ poller' = "SHUTDOWN"
      /\ \A r \in Runs : ~Outstanding(r)
      /\ queue' = [r \in Runs |-> IF r \in open THEN Append(queue[r], "synthetic")
                                                ELSE queue[r]]
      /\ UNCHANGED <<thread, activeWorkflowCount, workflowByRunId, request, destroying,
                     core, delivered, open, workflow, activated, unexpected, stopping,
                     abandoned>>
  BY DEF pollerEnds, threadVars
<1>3. "synthetic" \in Activations
  BY DEF Activations
<1>4. TypeOK'
  <2>1. \A r \in Runs : Append(queue[r], "synthetic") \in Seq(Activations)
    BY <1>1, <1>3 DEF TypeOK
  <2>2. queue' \in [Runs -> Seq(Activations)]
    BY <2>1, <1>1, <1>2 DEF TypeOK
  <2> QED
    BY <2>2, <1>1, <1>2 DEF TypeOK, ThreadsTypeOK
<1>5. ASSUME NEW r \in Runs
      PROVE  RunInv(r)'
  <2>1. GroupInv(r) /\ RequestInv(r) /\ HeldInv(r)
    BY DEF IInv, RunInv
  <2>2. core[r] \in {"absent", "cached", "failed"} /\ queue[r] = <<>> /\ ~Waiting(r)
    BY <1>1, <1>2, <2>1 DEF GroupInv, RequestInv, Outstanding, TypeOK
  <2>3. queue'[r] = IF r \in open THEN <<"synthetic">> ELSE <<>>
    BY <1>2, <1>3, <2>2, Singletons
  <2>4. GroupInv(r)'
    BY <1>2, <2>1, <2>2, <2>3 DEF GroupInv, Waiting, Outstanding
  <2>5. RequestInv(r)' /\ HeldInv(r)'
    BY <1>2, <2>1, <2>2 DEF RequestInv, Waiting, HeldInv
  <2> QED
    BY <2>4, <2>5 DEF RunInv
<1> QED
  BY <1>4, <1>5 DEF IInv

(* A thread exits: what was sent to it is rejected, and it holds nothing.          *)
LEMMA ExitKeeps ==
  ASSUME IInv, NEW t \in Threads, threadExits(t)
  PROVE  IInv'
<1>1. TypeOK
  BY DEF IInv
<1>2. /\ thread' = [thread EXCEPT ![t] = "exited"]
      /\ request' = [r \in Runs |-> IF Waiting(r) /\ request[r].to = t
                                      THEN [request[r] EXCEPT !.rejected = TRUE]
                                      ELSE request[r]]
      /\ workflowByRunId' = [workflowByRunId EXCEPT ![t] = {}]
      /\ UNCHANGED <<activeWorkflowCount, core, delivered, poller, open, queue, workflow,
                     activated, unexpected, stopping, abandoned>>
  BY DEF threadExits, threadExit, cacheVars
<1>3. ASSUME NEW r \in Runs
      PROVE  /\ request'[r] \in [type : RequestTypes, to : Threads, rejected : BOOLEAN]
                                  \cup {NoRequest}
             /\ Waiting(r)' <=> Waiting(r)
             /\ Waiting(r) => /\ request'[r].type = request[r].type
                              /\ request'[r].to = request[r].to
                              /\ request'[r].rejected =>
                                   request[r].to = t \/ request[r].rejected
  <2>1. CASE ~Waiting(r)
    BY <2>1, <1>1, <1>2 DEF Waiting, TypeOK, ThreadsTypeOK
  <2>2. CASE Waiting(r)
    <3>1. request[r] \in [type : RequestTypes, to : Threads, rejected : BOOLEAN]
      BY <2>2, <1>1 DEF Waiting, TypeOK, ThreadsTypeOK
    <3>2. request'[r] \in [type : RequestTypes, to : Threads, rejected : BOOLEAN]
      BY <2>2, <3>1, <1>2
    <3>3. request'[r] # NoRequest
      BY <3>2 DEF NoRequest, RequestTypes
    <3>4. CASE request[r].to = t
      BY <3>1, <3>2, <3>3, <3>4, <2>2, <1>2 DEF Waiting
    <3>5. CASE request[r].to # t
      BY <3>1, <3>2, <3>3, <3>5, <2>2, <1>2 DEF Waiting
    <3> QED
      BY <3>4, <3>5
  <2> QED
    BY <2>1, <2>2
<1>4. destroying' \in [Threads -> {"no", "asked", "terminating", "done", "rejected"}]
  BY <1>1 DEF threadExits, threadExit, TypeOK, ThreadsTypeOK
<1>5. TypeOK'
  <2>1. request' \in [Runs -> [type : RequestTypes, to : Threads, rejected : BOOLEAN]
                                \cup {NoRequest}]
    BY <1>2, <1>3
  <2> QED
    BY <2>1, <1>1, <1>2, <1>4 DEF TypeOK, ThreadsTypeOK
<1>6. ASSUME NEW r \in Runs
      PROVE  RunInv(r)'
  <2>1. GroupInv(r) /\ RequestInv(r) /\ HeldInv(r)
    BY DEF IInv, RunInv
  <2>2. GroupInv(r)'
    BY <1>2, <1>3, <2>1 DEF GroupInv, Outstanding
  <2>3. Waiting(r) => request[r].to \in Threads
    BY <1>1 DEF Waiting, TypeOK, ThreadsTypeOK
  <2>4. RequestInv(r)'
    <3>1. \A u \in Threads : thread'[u] = IF u = t THEN "exited" ELSE thread[u]
      BY <1>1, <1>2 DEF TypeOK, ThreadsTypeOK
    <3>2. SUFFICES ASSUME Waiting(r)
                   PROVE  RequestInv(r)'
      BY <1>3 DEF RequestInv
    <3>3. /\ request'[r].type = request[r].type /\ request'[r].to = request[r].to
          /\ workflow'[r] = workflow[r] /\ queue'[r] = queue[r]
      BY <3>2, <1>2, <1>3
    <3>4. request'[r].rejected => thread'[request'[r].to] = "exited"
      BY <3>1, <3>2, <3>3, <1>3, <2>1, <2>3 DEF RequestInv
    <3> QED
      BY <3>2, <3>3, <3>4, <2>1 DEF RequestInv
  <2>5. HeldInv(r)'
    BY <1>1, <1>2, <2>1 DEF HeldInv, TypeOK, ThreadsTypeOK
  <2> QED
    BY <2>2, <2>4, <2>5 DEF RunInv
<1> QED
  BY <1>5, <1>6 DEF IInv

(* An error in a thread, which is then still to exit.                              *)
LEMMA ErrorKeeps ==
  ASSUME IInv, NEW t \in Threads, threadFails(t)
  PROVE  IInv'
<1>1. /\ thread[t] = "up" /\ thread' = [thread EXCEPT ![t] = "failing"]
      /\ UNCHANGED <<activeWorkflowCount, workflowByRunId, request, destroying, cacheVars>>
  BY DEF threadFails, threadError
<1>2. TypeOK /\ TypeOK'
  BY <1>1 DEF IInv, TypeOK, ThreadsTypeOK, cacheVars
<1>3. ASSUME NEW r \in Runs
      PROVE  RunInv(r)'
  <2>1. GroupInv(r) /\ RequestInv(r) /\ HeldInv(r)
    BY DEF IInv, RunInv
  <2>2. GroupInv(r)'
    BY <1>1, <2>1 DEF GroupInv, Waiting, Outstanding, cacheVars
  <2>3. Waiting(r) => request[r].to \in Threads
    BY <1>2 DEF Waiting, TypeOK, ThreadsTypeOK
  <2>4. RequestInv(r)'
    BY <1>1, <1>2, <2>1, <2>3 DEF RequestInv, Waiting, cacheVars, TypeOK, ThreadsTypeOK
  <2>5. HeldInv(r)'
    BY <1>1, <1>2, <2>1 DEF HeldInv, cacheVars, TypeOK, ThreadsTypeOK
  <2> QED
    BY <2>2, <2>4, <2>5 DEF RunInv
<1> QED
  BY <1>2, <1>3 DEF IInv

(* Steps that change no run: shutdown, destruction of the pool, stuttering.        *)
LEMMA OthersKeep ==
  ASSUME IInv,
         \/ initiateShutdown \/ destroyCreator \/ UNCHANGED vars
         \/ \E t \in Threads : threadDestroyed(t)
  PROVE  IInv'
<1>1. /\ UNCHANGED <<thread, activeWorkflowCount, workflowByRunId, request, core, delivered,
                     poller, open, queue, workflow, activated, unexpected, abandoned>>
      /\ stopping' = stopping \/ stopping' = TRUE
  BY DEF initiateShutdown, destroyCreator, destroyAll, threadDestroyed, destroyAnswered,
         vars, cacheVars, threadVars
<1>2. destroying' \in [Threads -> {"no", "asked", "terminating", "done", "rejected"}]
  <2>1. destroying \in [Threads -> {"no", "asked", "terminating", "done", "rejected"}]
    BY DEF IInv, TypeOK, ThreadsTypeOK
  <2>2. CASE destroyCreator
    BY <2>2 DEF destroyCreator, destroyAll
  <2>3. ASSUME NEW t \in Threads, threadDestroyed(t)
        PROVE  destroying' \in [Threads -> {"no", "asked", "terminating", "done",
                                            "rejected"}]
    BY <2>1, <2>3 DEF threadDestroyed, destroyAnswered
  <2> QED
    BY <2>1, <2>2, <2>3 DEF initiateShutdown, vars, threadVars
<1>3. TypeOK'
  BY <1>1, <1>2 DEF IInv, TypeOK, ThreadsTypeOK
<1>4. \A r \in Runs : RunKept(r)
  BY <1>1 DEF RunKept
<1>5. \A r \in Runs : RunInv(r)'
  BY <1>1, <1>4, Untouched DEF IInv
<1> QED
  BY <1>3, <1>5 DEF IInv

-----------------------------------------------------------------------------------
(* The theorems.                                                                   *)

(* No workflow is cached, and nothing is asked of the threads, at the start.       *)
LEMMA InitInv == Init => IInv
<1> SUFFICES ASSUME Init PROVE IInv
  OBVIOUS
<1> USE DEF Init, ThreadsInit
<1>1. TypeOK
  <2>1. <<>> \in Seq(Activations)
    OBVIOUS
  <2>2. queue \in [Runs -> Seq(Activations)]
    BY <2>1
  <2>3. delivered \in [Runs -> 0..MaxActivations]
    BY CacheAssumption
  <2>4. workflow \in [Runs -> Threads \cup {NoThread}]
    OBVIOUS
  <2>5. ThreadsTypeOK
    BY DEF ThreadsTypeOK
  <2> QED
    BY <2>2, <2>3, <2>4, <2>5 DEF TypeOK
<1>2. \A r \in Runs : RunInv(r)
  BY NoThreadIsNone DEF RunInv, GroupInv, RequestInv, HeldInv, Waiting, Outstanding
<1> QED
  BY <1>1, <1>2 DEF IInv

(* Every step of a group, of Core, of the poller and of a thread keeps IInv.       *)
LEMMA NextInv == IInv /\ [Next]_vars => IInv'
<1> SUFFICES ASSUME IInv, [Next]_vars PROVE IInv'
  OBVIOUS
<1>1. ASSUME NEW r \in Runs, Handle(r)
      PROVE  IInv'
  <2>1. CASE decodeFails(r) \/ createWorkflow(r) \/ activate(r) \/ rejected(r)
    BY <2>1, TakeUp
  <2>2. CASE created(r)
    BY <2>2, CreatedKeeps
  <2>3. CASE createFails(r) \/ sinksProcessed(r) \/ activateSettles(r, TRUE)
             \/ activateSettles(r, FALSE)
    BY <2>3, SettledKeeps
  <2>4. CASE dispose(r)
    BY <2>4, DisposeKeeps
  <2>5. CASE evictWithoutDisposal(r) \/ disposeRejected(r) \/ disposed(r, TRUE)
             \/ disposed(r, FALSE)
    BY <2>5, EvictedKeeps
  <2> QED
    BY <1>1, <2>1, <2>2, <2>3, <2>4, <2>5 DEF Handle
<1>2. ASSUME NEW r \in Runs, NEW a \in Activations, pollWorkflowActivation(r, a)
      PROVE  IInv'
  BY <1>2, PollKeeps
<1>3. ASSUME NEW t \in Threads, threadFails(t) \/ Pool(t)
      PROVE  IInv'
  BY <1>3, ErrorKeeps, ExitKeeps, OthersKeep DEF Pool
<1>4. CASE initiateShutdown \/ destroyCreator \/ UNCHANGED vars
  BY <1>4, OthersKeep
<1>5. CASE pollerEnds
  BY <1>5, PollerEndKeeps
<1> QED
  BY <1>1, <1>2, <1>3, <1>4, <1>5 DEF Next

(* The groups, Core and the threads agree, whatever activations fail and whichever *)
(* threads die (worker.ts, workflow$ and handleActivation; threaded-vm.ts).        *)
THEOREM CacheInvariant == Spec => []IInv
  BY InitInv, NextInv, PTL DEF Spec

(* handleActivation stays in step with Core: a run without a group has been        *)
(* evicted, and jobs reach only a group that has its workflow, so that its         *)
(* "untracked workflow" error is out of reach.                                     *)
THEOREM CacheInStep == Spec => []CacheMirrorsCore
<1>1. IInv => CacheMirrorsCore
  <2> SUFFICES ASSUME IInv, NEW r \in Runs
               PROVE  /\ core[r] = "absent" => r \notin open
                      /\ core[r] \in {"cached", "jobs"} /\ poller = "POLLING" =>
                           r \in open /\ workflow[r] # NoThread
    BY DEF CacheMirrorsCore
  <2>1. GroupInv(r)
    BY DEF IInv, RunInv
  <2> QED
    BY <2>1 DEF GroupInv, Outstanding
<1> QED
  BY <1>1, CacheInvariant, PTL

(* A thread that is up is asked only for workflows that it holds, and holds only   *)
(* workflows that a group will dispose or whose disposal threw                     *)
(* (workflow-worker-thread.ts, handleRequest).                                     *)
THEOREM ThreadsAskedForTheirs == Spec => []ThreadsHoldTheWorkflows
<1>1. IInv => ThreadsHoldTheWorkflows
  <2> SUFFICES ASSUME IInv, NEW t \in Threads, thread[t] = "up", NEW r \in Runs
               PROVE  /\ Waiting(r) /\ request[r].to = t /\ request[r].type # "create" =>
                           r \in workflowByRunId[t]
                      /\ r \in workflowByRunId[t] =>
                           workflow[r] = t \/ <<t, r>> \in abandoned
    BY DEF ThreadsHoldTheWorkflows
  <2>1. RequestInv(r) /\ HeldInv(r)
    BY DEF IInv, RunInv
  <2> QED
    BY <2>1 DEF RequestInv, HeldInv
<1> QED
  BY <1>1, CacheInvariant, PTL
=====================================================================================
