--------------------------- MODULE ActivatorProofs ---------------------------
(***************************************************************************)
(* Theorems about the Activator for every set of operations and scopes and *)
(* every bound.                                                            *)
(*                                                                         *)
(* CoreInv (Activator.tla) is the inductive invariant that ties the        *)
(* completions maps to Core: no job finds its completion missing.  The     *)
(* other two rest on it.  PromisesKept says that no operation is           *)
(* forgotten, and CancelInv follows an operation from the request to       *)
(* cancel its scope through its callback and the buffer to Core.           *)
(*                                                                         *)
(* Most actions change only part of the state, so for each invariant there *)
(* is one lemma per kind of step: starting an operation, running a         *)
(* microtask, handling a job, and moving through the activation loop.      *)
(***************************************************************************)
EXTENDS Activator, TLAPS

\* What is in the buffer after pushCommand.
LEMMA BufferedAppend ==
  ASSUME commands \in Seq(Command), NEW x \in Command, commands' = Append(commands, x),
         NEW c, NEW k
  PROVE  Buffered(c, k)' = Buffered(c, k) \cup (IF x.cmd = c /\ x.kind = k THEN {x.seq} ELSE {})
  <1> DEFINE n == Len(commands)
  <1>1. /\ n \in Nat /\ DOMAIN commands = 1 .. n /\ DOMAIN commands' = 1 .. n + 1
        /\ \A i \in 1 .. n : commands'[i] = commands[i]
        /\ commands'[n + 1] = x
    OBVIOUS
  <1>2. 1 .. n + 1 = (1 .. n) \cup {n + 1} BY <1>1
  <1> QED BY <1>1, <1>2 DEF Buffered

\* An untouched buffer, and an empty one.
LEMMA BufferedSame ==
  ASSUME UNCHANGED commands, NEW c, NEW k
  PROVE  Buffered(c, k)' = Buffered(c, k)
  BY Zenon DEF Buffered

\* No command is buffered once concludeActivation has emptied the buffer.
LEMMA BufferedEmpty ==
  ASSUME commands = <<>>, NEW c, NEW k
  PROVE  Buffered(c, k) = {}
  BY DEF Buffered

\* The commands, and the sequence numbers in the buffer, have their types.
LEMMA CommandType ==
  ASSUME NEW k \in Kinds, NEW n \in Seqs
  PROVE  Cmd("start", k, n) \in Command /\ Cmd("cancel", k, n) \in Command
  BY Zenon DEF Cmd, Command

\* The buffered commands of a command buffer are commands.
LEMMA BufferedType ==
  ASSUME commands \in Seq(Command), NEW k \in Kinds
  PROVE  Buffered("start", k) \subseteq Seqs /\ Buffered("cancel", k) \subseteq Seqs
  <1>1. \A i \in DOMAIN commands : commands[i] \in Command OBVIOUS
  <1>2. \A x \in Command : x.kind \in Kinds => x.seq \in Seqs
    BY Zenon DEF Command, Kinds, Terminals
  <1> QED BY <1>1, <1>2, Zenon DEF Buffered

\* The completion types of each kind of operation.
LEMMA StartTypes ==
  /\ \A k \in Kinds : StartType(k) \in CompletionTypes
                         \ {"childWorkflowComplete", "nexusOperationComplete"}
  /\ \A i, k \in Kinds : StartType(i) = StartType(k) => i = k
  /\ StartType("timer") = "timer" /\ StartType("activity") = "activity"
  /\ StartType("childWorkflow") = "childWorkflowStart"
  /\ StartType("nexusOperation") = "nexusOperationStart"
  /\ StartType("signalWorkflow") = "signalWorkflow"
  /\ StartType("cancelWorkflow") = "cancelWorkflow"
  BY DEF StartType, Kinds, CompletionTypes

\* The completion types a job of each kind of operation may settle.
LEMMA AnswerTypesOf ==
  ASSUME NEW k \in Kinds, NEW t \in AnswerTypes(k)
  PROVE  /\ t \in CompletionTypes
         /\ \/ t = StartType(k)
            \/ k = "childWorkflow" /\ t = "childWorkflowComplete"
            \/ k = "nexusOperation" /\ t = "nexusOperationComplete"
  BY StartTypes, Zenon DEF AnswerTypes, CompletionTypes

\* The facts of the type invariant the other parts need.
LEMMA NumbersAreNat ==
  ASSUME TypeOK
  PROVE  /\ \A k \in Kinds : nextSeqs[k] \in Nat /\ nextSeqs[k] \in Seqs
         /\ \A t \in CompletionTypes : /\ completions[t] \subseteq Nat
                                       /\ outstanding[t] \subseteq Nat
                                       /\ settled[t] \subseteq Nat
         /\ \A k \in Kinds : Buffered("start", k) \subseteq Nat /\ Buffered("cancel", k) \subseteq Nat
         /\ RejectedChildren \subseteq Nat
  <1>1. \A k \in Kinds : Buffered("start", k) \subseteq Nat /\ Buffered("cancel", k) \subseteq Nat
    BY BufferedType, Zenon DEF TypeOK, Seqs
  <1>2. RejectedChildren \subseteq Nat BY Zenon DEF RejectedChildren, TypeOK, Microtask, Op, Seqs
  <1> QED BY <1>1, <1>2, Zenon DEF TypeOK, Seqs

\* A workflow that has not been activated owes nothing and waits for nothing.
LEMMA InitCore == Init => CoreInv
  <1> SUFFICES ASSUME Init PROVE CoreInv BY Zenon
  <1> USE DEF Init
  <1>1. \A c, k : Buffered(c, k) = {} BY BufferedEmpty, Zenon
  <1>2. TypeOK
    <2>1. nextSeqs \in [Kinds -> Seqs] BY DEF Seqs
    <2>2. /\ completions \in [CompletionTypes -> SUBSET Seqs]
          /\ settled \in [CompletionTypes -> SUBSET Seqs]
          /\ outstanding \in [CompletionTypes -> SUBSET Seqs]
      BY Zenon
    <2>3. commands \in Seq(Command) OBVIOUS
    <2>4. phase \in Phases BY Zenon DEF Phases
    <2> QED BY Zenon, <2>1, <2>2, <2>3, <2>4 DEF TypeOK
  <1>3. Numbered BY <1>1, Zenon DEF Numbered, AnswerTypes, StartType, Kinds, CompletionTypes
  <1>4. OneStage BY <1>1, Zenon DEF OneStage, AnswerTypes, StartType, Kinds, CompletionTypes
  <1>5. StartsAgree /\ TimersAgree /\ NexusAgree
    BY <1>1, Zenon DEF StartsAgree, TimersAgree, NexusAgree, StartType, Kinds, CompletionTypes
  <1>6. ChildrenAgree
    BY <1>1, Zenon DEF ChildrenAgree, LiveChildren, RejectedChildren, CompletionTypes
  <1>7. JobsAnswer /\ LoopShape BY Zenon DEF JobsAnswer, Answering, LoopShape
  <1> QED BY <1>2, <1>3, <1>4, <1>5, <1>6, <1>7, Zenon DEF CoreInv

(***************************************************************************)
(* Starting an operation                                                   *)
(***************************************************************************)

\* The completions registered by the start of an operation of kind k, and the ones
\* registered even when its scope is cancelled.
Always(k) == IF k = "childWorkflow" THEN {"childWorkflowComplete"} ELSE {}

\* An operation is scheduled: its start command is pushed and its completions are set.
LEMMA ScheduledKeeps ==
  ASSUME CoreInv, NEW k \in Kinds, NEW s \in Scopes, NEW role \in Roles,
         NEW queue \in SUBSET microtasks, \A m \in microtasks \ queue : m.act # "reject",
         phase \in {"handler", "microtasks"},
         nextSeqs' = [nextSeqs EXCEPT ![k] = @ + 1],
         pushCommand(Cmd("start", k, nextSeqs[k])),
         completions' = Put(completions, {StartType(k)} \cup Always(k), nextSeqs[k]),
         issued' = issued \cup {[kind |-> k, seq |-> nextSeqs[k], scope |-> s, role |-> role]},
         microtasks' = queue,
         UNCHANGED <<cancelRequested, cancelled, error, settled, loopVars, coreVars>>
  PROVE  CoreInv'
  <1> DEFINE n == nextSeqs[k]
  <1>0. TypeOK /\ n \in Seqs /\ n \in Nat BY Zenon DEF CoreInv, TypeOK, Seqs
  <1>1. /\ \A c, i : Buffered(c, i)' = Buffered(c, i) \cup
                         (IF c = "start" /\ i = k THEN {n} ELSE {})
        /\ commands' \in Seq(Command)
    <2>1. Cmd("start", k, n) \in Command BY <1>0, CommandType, Zenon
    <2>2. commands' = Append(commands, Cmd("start", k, n)) /\ commands \in Seq(Command)
      BY <1>0, Zenon DEF pushCommand, TypeOK
    <2>3. /\ Cmd("start", k, n).cmd = "start"
          /\ Cmd("start", k, n).kind = k
          /\ Cmd("start", k, n).seq = n
      BY Zenon DEF Cmd
    <2>4. ASSUME NEW c, NEW i
          PROVE  Buffered(c, i)' = Buffered(c, i) \cup (IF c = "start" /\ i = k THEN {n} ELSE {})
      BY <2>1, <2>2, <2>3, BufferedAppend
    <2> QED BY <2>1, <2>2, <2>4
  <1>2. /\ \A t \in CompletionTypes : completions'[t] = completions[t] \cup
             (IF t \in {StartType(k)} \cup Always(k) THEN {n} ELSE {})
        /\ completions' \in [CompletionTypes -> SUBSET Seqs]
    BY <1>0, Zenon DEF Put, TypeOK
  <1>3. /\ \A i \in Kinds : nextSeqs'[i] = IF i = k THEN n + 1 ELSE nextSeqs[i]
        /\ nextSeqs' \in [Kinds -> Seqs]
    BY <1>0 DEF TypeOK, Seqs
  <1>4. TypeOK'
    <2>1. [kind |-> k, seq |-> n, scope |-> s, role |-> role] \in Op BY <1>0, Zenon DEF Op
    <2>2. completed' \in BOOLEAN BY <1>0, Zenon DEF pushCommand, TypeOK
    <2> QED BY Zenon, <1>0, <1>1, <1>2, <1>3, <2>1, <2>2 DEF TypeOK, loopVars, coreVars
  <1>N. /\ \A i \in Kinds : nextSeqs[i] \in Nat
        /\ \A t \in CompletionTypes : completions[t] \subseteq Nat /\ outstanding[t] \subseteq Nat
        /\ \A i \in Kinds : Buffered("start", i) \subseteq Nat /\ Buffered("cancel", i) \subseteq Nat
    BY <1>0, NumbersAreNat, Zenon
  <1>5. Numbered'
    <2> SUFFICES ASSUME NEW i \in Kinds
                 PROVE  /\ \A x \in Buffered("start", i)' \cup Buffered("cancel", i)' :
                             x < nextSeqs'[i]
                        /\ \A t \in AnswerTypes(i) : \A x \in outstanding'[t] \cup completions'[t] :
                             x < nextSeqs'[i]
      BY Zenon DEF Numbered
    <2>1. nextSeqs'[i] \in Nat /\ nextSeqs[i] \in Nat /\ nextSeqs[i] <= nextSeqs'[i]
      BY <1>N, <1>3, <1>0
    <2>2. \A x \in Buffered("start", i)' \cup Buffered("cancel", i)' : x < nextSeqs'[i]
      BY <1>0, <1>N, <1>1, <1>3, <2>1 DEF CoreInv, Numbered
    <2>3. ASSUME NEW t \in AnswerTypes(i), NEW x \in outstanding'[t] \cup completions'[t]
          PROVE  x < nextSeqs'[i]
      <3>1. t \in CompletionTypes BY AnswerTypesOf, Zenon
      <3>2. CASE x \in outstanding[t] \cup completions[t]
        BY <1>N, <3>1, <3>2, <2>1 DEF CoreInv, Numbered
      <3>3. CASE x = n /\ t \in {StartType(k)} \cup Always(k)
        <4>1. i = k BY <3>3, AnswerTypesOf, StartTypes DEF Always
        <4> QED BY <4>1, <3>3, <1>3, <1>0
      <3> QED BY Zenon, <3>1, <3>2, <3>3, <1>2 DEF coreVars
    <2> QED BY Zenon, <2>2, <2>3
  <1>6. OneStage'
    BY <1>0, <1>N, <1>1, AnswerTypesOf DEF CoreInv, Numbered, OneStage, coreVars
  <1>7. StartsAgree'
    BY Zenon, <1>1, <1>2, StartTypes DEF CoreInv, StartsAgree, Always, coreVars
  <1>8. TimersAgree' /\ NexusAgree'
    <2>1. "timer" \in Kinds /\ {"timer", "nexusOperationComplete"} \subseteq CompletionTypes
      BY Zenon DEF Kinds, CompletionTypes
    <2>2. n \notin Buffered("cancel", k) BY <1>0, <1>N DEF CoreInv, Numbered
    <2>3. "nexusOperationComplete" \notin {StartType(k)} \cup Always(k)
      BY StartTypes, Zenon DEF Always
    <2>4. "timer" \in {StartType(k)} \cup Always(k) <=> k = "timer"
      BY <2>1, StartTypes, Zenon DEF Always
    <2>5. TimersAgree' BY Zenon, <1>1, <1>2, <2>1, <2>2, <2>4 DEF CoreInv, TimersAgree, coreVars
    <2>6. NexusAgree' BY Zenon, <1>2, <2>1, <2>3 DEF CoreInv, NexusAgree, coreVars
    <2> QED BY <2>5, <2>6, Zenon
  <1>9. ChildrenAgree'
    <2>1. RejectedChildren' = RejectedChildren BY Zenon DEF RejectedChildren
    <2>2. LiveChildren' = LiveChildren \cup (IF k = "childWorkflow" THEN {n} ELSE {})
      BY <1>1, Zenon DEF LiveChildren, coreVars
    <2>3. completions'["childWorkflowComplete"] = completions["childWorkflowComplete"] \cup
            (IF k = "childWorkflow" THEN {n} ELSE {})
      BY Zenon, <1>2, StartTypes DEF Always, CompletionTypes
    <2>4. \A x \in settled["childWorkflowComplete"] \cup RejectedChildren :
            x \in Nat /\ x < nextSeqs["childWorkflow"]
      BY <1>0, NumbersAreNat, Zenon DEF CoreInv, ChildrenAgree, CompletionTypes
    <2>5. \A x \in settled["childWorkflowComplete"] \cup RejectedChildren :
            x < nextSeqs'["childWorkflow"] /\ (k = "childWorkflow" => x # n)
      BY <2>4, <1>N, <1>3, <1>0 DEF Kinds
    <2> QED BY Zenon, <2>1, <2>2, <2>3, <2>5 DEF CoreInv, ChildrenAgree
  <1>10. JobsAnswer' /\ LoopShape'
    BY Zenon DEF CoreInv, JobsAnswer, Answering, LoopShape, loopVars, coreVars
  <1> QED BY <1>4, <1>5, <1>6, <1>7, <1>8, <1>9, <1>10, Zenon DEF CoreInv

\* In a cancelled scope only the counter moves; a child leaves its completion behind, with
\* a queued rejection of its promise.
LEMMA UnscheduledKeeps ==
  ASSUME CoreInv, NEW k \in Kinds, NEW s \in Scopes, NEW role \in Roles,
         NEW queue \in SUBSET microtasks, \A m \in microtasks \ queue : m.act # "reject",
         phase \in {"handler", "microtasks"},
         nextSeqs' = [nextSeqs EXCEPT ![k] = @ + 1],
         completions' = Put(completions, Always(k), nextSeqs[k]),
         microtasks' = queue \cup {[act |-> "reject",
           op |-> [kind |-> k, seq |-> nextSeqs[k], scope |-> s, role |-> role]]},
         UNCHANGED <<commands, completed, issued, cancelRequested, cancelled, error, settled,
                     loopVars, coreVars>>
  PROVE  CoreInv'
  <1> DEFINE n == nextSeqs[k]
             new == [act |-> "reject", op |-> [kind |-> k, seq |-> n, scope |-> s, role |-> role]]
  <1>0. TypeOK /\ n \in Seqs /\ n \in Nat BY Zenon DEF CoreInv, TypeOK, Seqs
  <1>1. \A c, i : Buffered(c, i)' = Buffered(c, i) BY BufferedSame, Zenon
  <1>2. /\ \A t \in CompletionTypes : completions'[t] = completions[t] \cup
             (IF t \in Always(k) THEN {n} ELSE {})
        /\ completions' \in [CompletionTypes -> SUBSET Seqs]
    BY <1>0, Zenon DEF Put, TypeOK
  <1>3. /\ \A i \in Kinds : nextSeqs'[i] = IF i = k THEN n + 1 ELSE nextSeqs[i]
        /\ nextSeqs' \in [Kinds -> Seqs]
    BY <1>0 DEF TypeOK, Seqs
  <1>4. TypeOK'
    <2>1. new \in Microtask BY <1>0, Zenon DEF Op, Microtask
    <2> QED BY <1>0, <1>2, <1>3, <2>1, Zenon DEF TypeOK, loopVars, coreVars
  <1>N. /\ \A i \in Kinds : nextSeqs[i] \in Nat
        /\ \A t \in CompletionTypes : completions[t] \subseteq Nat /\ outstanding[t] \subseteq Nat
        /\ \A i \in Kinds : Buffered("start", i) \subseteq Nat /\ Buffered("cancel", i) \subseteq Nat
    BY <1>0, NumbersAreNat, Zenon
  <1>5. Numbered'
    <2> SUFFICES ASSUME NEW i \in Kinds
                 PROVE  /\ \A x \in Buffered("start", i)' \cup Buffered("cancel", i)' :
                             x < nextSeqs'[i]
                        /\ \A t \in AnswerTypes(i) : \A x \in outstanding'[t] \cup completions'[t] :
                             x < nextSeqs'[i]
      BY Zenon DEF Numbered
    <2>1. nextSeqs'[i] \in Nat /\ nextSeqs[i] \in Nat /\ nextSeqs[i] <= nextSeqs'[i]
      BY <1>N, <1>3, <1>0
    <2>2. \A x \in Buffered("start", i)' \cup Buffered("cancel", i)' : x < nextSeqs'[i]
      BY <1>N, <1>1, <2>1 DEF CoreInv, Numbered
    <2>3. ASSUME NEW t \in AnswerTypes(i), NEW x \in outstanding'[t] \cup completions'[t]
          PROVE  x < nextSeqs'[i]
      <3>1. t \in CompletionTypes BY Zenon, AnswerTypesOf
      <3>2. CASE x \in outstanding[t] \cup completions[t]
        BY <1>N, <3>1, <3>2, <2>1 DEF CoreInv, Numbered
      <3>3. CASE x = n /\ t \in Always(k)
        <4>1. i = k BY <3>3, AnswerTypesOf, StartTypes, Zenon DEF Always
        <4> QED BY <4>1, <3>3, <1>3, <1>0
      <3> QED BY <3>1, <3>2, <3>3, <1>2, Zenon DEF coreVars
    <2> QED BY <2>2, <2>3, Zenon
  <1>6. OneStage' BY <1>1, Zenon DEF CoreInv, OneStage, coreVars
  <1>7. StartsAgree' /\ TimersAgree' /\ NexusAgree'
    <2>1. \A t \in CompletionTypes \ {"childWorkflowComplete"} : completions'[t] = completions[t]
      BY Zenon, <1>2 DEF Always
    <2> QED BY <1>1, <2>1, StartTypes, Zenon
            DEF CoreInv, StartsAgree, TimersAgree, NexusAgree, coreVars, CompletionTypes
  <1>8. ChildrenAgree'
    <2>1. RejectedChildren' = RejectedChildren \cup (IF k = "childWorkflow" THEN {n} ELSE {})
      <3> DEFINE R(q) == {i \in q : i.act = "reject" /\ i.op.kind = "childWorkflow"}
      <3>1. new.act = "reject" /\ new.op.kind = k /\ new.op.seq = n BY Zenon
      <3>2. R(microtasks') = R(microtasks) \cup (IF k = "childWorkflow" THEN {new} ELSE {})
        BY <3>1, Zenon
      <3>3. /\ RejectedChildren = {m.op.seq : m \in R(microtasks)}
            /\ RejectedChildren' = {m.op.seq : m \in R(microtasks')}
        BY Zenon DEF RejectedChildren
      <3> HIDE DEF R, new
      <3> QED BY <3>1, <3>2, <3>3, Zenon
    <2>2. LiveChildren' = LiveChildren BY <1>1, Zenon DEF LiveChildren, coreVars
    <2>3. completions'["childWorkflowComplete"] = completions["childWorkflowComplete"] \cup
            (IF k = "childWorkflow" THEN {n} ELSE {})
      BY <1>2, Zenon DEF Always, CompletionTypes
    <2>4. /\ \A x \in settled["childWorkflowComplete"] \cup RejectedChildren :
               x \in Nat /\ x < nextSeqs["childWorkflow"]
          /\ k = "childWorkflow" => n \notin completions["childWorkflowComplete"]
      BY SMTT(30), <1>0, <1>N, NumbersAreNat
         DEF CoreInv, ChildrenAgree, CompletionTypes, Numbered, AnswerTypes
    <2>5. /\ \A x \in settled["childWorkflowComplete"] \cup RejectedChildren :
               x < nextSeqs'["childWorkflow"]
          /\ k = "childWorkflow" => n < nextSeqs'["childWorkflow"]
      BY SMTT(30), <2>4, <1>N, <1>3, <1>0 DEF Kinds
    <2> QED BY Zenon, <2>1, <2>2, <2>3, <2>4, <2>5 DEF CoreInv, ChildrenAgree
  <1>9. JobsAnswer' /\ LoopShape'
    BY Zenon DEF CoreInv, JobsAnswer, Answering, LoopShape, loopVars, coreVars
  <1> QED BY <1>4, <1>5, <1>6, <1>7, <1>8, <1>9, Zenon DEF CoreInv

\* Every operation that goes through Start.
LEMMA StartKeeps ==
  ASSUME CoreInv, NEW k \in Kinds, NEW s \in Scopes, NEW role \in Roles,
         NEW queue \in SUBSET microtasks, \A m \in microtasks \ queue : m.act # "reject",
         phase \in {"handler", "microtasks"},
         Start(k, s, role, {StartType(k)}, Always(k), queue)
  PROVE  CoreInv'
  <1>1. CASE consideredCancelled(s)
    BY Zenon, <1>1, UnscheduledKeeps DEF Start
  <1>2. CASE ~consideredCancelled(s)
    BY Zenon, <1>2, ScheduledKeeps DEF Start
  <1> QED BY <1>1, <1>2, Zenon

\* The operations of workflow code.
LEMMA OperationsKeep ==
  ASSUME CoreInv, NEW s \in Scopes,
         \/ sleep(s) \/ scheduleActivity(s) \/ scheduleLocalActivity(s) \/ startChild(s)
         \/ signalExternal(s) \/ startNexusOperation(s) \/ cancelExternal(s)
  PROVE  CoreInv'
  <1> USE StartTypes DEF Kinds, Roles, Always, Called, WorkflowCodeRuns
  <1>1. CASE sleep(s) BY Zenon, <1>1, StartKeeps DEF sleep
  <1>2. CASE scheduleActivity(s) BY Zenon, <1>2, StartKeeps DEF scheduleActivity
  <1>3. CASE scheduleLocalActivity(s) BY Zenon, <1>3, StartKeeps DEF scheduleLocalActivity
  <1>4. CASE startChild(s) BY Zenon, <1>4, StartKeeps DEF startChild
  <1>5. CASE signalExternal(s) BY Zenon, <1>5, StartKeeps DEF signalExternal
  <1>6. CASE startNexusOperation(s) BY Zenon, <1>6, StartKeeps DEF startNexusOperation
  <1>7. CASE cancelExternal(s) BY Zenon, <1>7, ScheduledKeeps DEF cancelExternal
  <1> QED BY <1>1, <1>2, <1>3, <1>4, <1>5, <1>6, <1>7, Zenon

(***************************************************************************)
(* Steps that leave the maps alone                                         *)
(***************************************************************************)
\* Jobs that are not touched go on answering what Core owes.
LEMMA JobsSame ==
  ASSUME JobsAnswer, UNCHANGED <<jobs, laterJobs, outstanding>>
  PROVE  JobsAnswer'
  BY Zenon DEF JobsAnswer, Answering

\* A step that leaves the completions, the commands and what Core owes alone
\* keeps the invariant if it keeps the types, the jobs and the loop's shape.
LEMMA FrameKeeps ==
  ASSUME CoreInv, TypeOK', JobsAnswer', LoopShape',
         UNCHANGED <<nextSeqs, completions, outstanding>>,
         settled'["childWorkflowComplete"] = settled["childWorkflowComplete"],
         RejectedChildren' = RejectedChildren,
         \A k \in Kinds : /\ Buffered("start", k)' = Buffered("start", k)
                         /\ Buffered("cancel", k)' = Buffered("cancel", k)
  PROVE  CoreInv'
  <1>1. Numbered' /\ OneStage' BY Zenon DEF CoreInv, Numbered, OneStage
  <1>2. StartsAgree' /\ TimersAgree' /\ NexusAgree'
    BY Zenon DEF CoreInv, StartsAgree, TimersAgree, NexusAgree, Kinds
  <1>3. LiveChildren' = LiveChildren BY Zenon DEF LiveChildren, Kinds
  <1>4. ChildrenAgree' BY <1>3, Zenon DEF CoreInv, ChildrenAgree
  <1> QED BY <1>1, <1>2, <1>4, Zenon DEF CoreInv

\* Cancelling a scope only queues callbacks.
LEMMA CancelQueues ==
  ASSUME TypeOK, NEW s \in Scopes, Cancel(s)
  PROVE  /\ cancelRequested' \in SUBSET Scopes
         /\ microtasks' \in SUBSET Microtask
         /\ RejectedChildren' = RejectedChildren
  <1>1. \A o \in issued : [act |-> "cancel", op |-> o] \in Microtask
    BY Zenon DEF TypeOK, Microtask
  <1>2. cancelRequested' \in SUBSET Scopes BY Zenon DEF Cancel, TypeOK
  <1>3. microtasks' \in SUBSET Microtask BY <1>1, Zenon DEF Cancel, TypeOK
  <1>4. /\ microtasks \subseteq microtasks'
        /\ \A m \in microtasks' \ microtasks : m.act # "reject"
    BY DEF Cancel
  <1>5. RejectedChildren' = RejectedChildren BY <1>4, Zenon DEF RejectedChildren
  <1> QED BY <1>2, <1>3, <1>5, Zenon

\* Cancelling a scope, ending the workflow and failing the task, from workflow code.
LEMMA OtherCodeKeeps ==
  ASSUME CoreInv,
         \/ \E s \in Scopes : cancelScope(s)
         \/ \E t \in Terminals : endWorkflow(t)
         \/ recordWorkflowTaskError
  PROVE  CoreInv'
  <1>0. TypeOK BY Zenon DEF CoreInv
  <1>1. ASSUME NEW s \in Scopes, cancelScope(s) PROVE CoreInv'
    <2>1. Cancel(s) /\ UNCHANGED <<activatorVars, issued, settled, loopVars, coreVars>>
      BY <1>1, Zenon DEF cancelScope
    <2>2. TypeOK'
      BY <2>1, <1>0, CancelQueues, Zenon DEF TypeOK, activatorVars, loopVars, coreVars
    <2>3. JobsAnswer' /\ LoopShape'
      BY <2>1, <1>1 DEF CoreInv, JobsAnswer, Answering, LoopShape, activatorVars, loopVars, coreVars,
                        cancelScope, WorkflowCodeRuns
    <2>4. \A c, k : Buffered(c, k)' = Buffered(c, k)
      BY <2>1, BufferedSame, Zenon DEF activatorVars
    <2> QED BY <2>1, <2>2, <2>3, <2>4, <1>0, CancelQueues, FrameKeeps, Zenon DEF activatorVars, coreVars
  <1>2. ASSUME NEW t \in Terminals, endWorkflow(t) PROVE CoreInv'
    <2>1. Cmd("terminal", t, 0) \in Command BY Zenon DEF Cmd, Command
    <2>2. commands' = Append(commands, Cmd("terminal", t, 0)) /\ commands \in Seq(Command)
      BY <1>2, <1>0, Zenon DEF endWorkflow, pushCommand, TypeOK
    <2>3. Cmd("terminal", t, 0).cmd = "terminal" BY Zenon DEF Cmd
    <2>4. ASSUME NEW c \in {"start", "cancel"}, NEW k PROVE Buffered(c, k)' = Buffered(c, k)
      <3> DEFINE x == Cmd("terminal", t, 0)
      <3> HIDE DEF x
      <3>1. Buffered(c, k)' = Buffered(c, k) \cup (IF x.cmd = c /\ x.kind = k THEN {x.seq} ELSE {})
        BY <2>1, <2>2, BufferedAppend DEF x
      <3>2. x.cmd = "terminal" BY <2>3, Zenon DEF x
      <3> QED BY <3>1, <3>2, Zenon
    <2>5. TypeOK'
      BY SMTT(30), <1>2, <1>0, <2>1, <2>2 DEF endWorkflow, pushCommand, TypeOK, loopVars, coreVars
    <2>6. JobsAnswer' /\ LoopShape'
      BY <1>2, Zenon DEF CoreInv, JobsAnswer, Answering, LoopShape, endWorkflow, loopVars, coreVars
    <2>7. RejectedChildren' = RejectedChildren BY <1>2, Zenon DEF endWorkflow, RejectedChildren
    <2> QED BY Zenon, <1>2, <2>4, <2>5, <2>6, <2>7, FrameKeeps DEF endWorkflow, coreVars
  <1>3. CASE recordWorkflowTaskError
    <2>1. TypeOK' BY <1>3, <1>0, Zenon DEF recordWorkflowTaskError, TypeOK, loopVars, coreVars
    <2>2. JobsAnswer' /\ LoopShape'
      BY <1>3, Zenon DEF CoreInv, JobsAnswer, Answering, LoopShape, recordWorkflowTaskError, loopVars, coreVars
    <2>3. RejectedChildren' = RejectedChildren
      BY <1>3, Zenon DEF recordWorkflowTaskError, RejectedChildren
    <2>4. \A c, k : Buffered(c, k)' = Buffered(c, k)
      BY <1>3, BufferedSame, Zenon DEF recordWorkflowTaskError
    <2> QED BY <1>3, <2>1, <2>2, <2>3, <2>4, FrameKeeps, Zenon DEF recordWorkflowTaskError, coreVars
  <1> QED BY <1>1, <1>2, <1>3, Zenon

(***************************************************************************)
(* Microtasks                                                              *)
(***************************************************************************)

\* The buffer after a cancel command.
LEMMA CancelPushed ==
  ASSUME TypeOK, NEW k \in Kinds, NEW n \in Seqs, pushCommand(Cmd("cancel", k, n))
  PROVE  /\ commands' \in Seq(Command) /\ completed' \in BOOLEAN
         /\ \A c, i : Buffered(c, i)' =
              Buffered(c, i) \cup (IF c = "cancel" /\ i = k THEN {n} ELSE {})
  <1>1. Cmd("cancel", k, n) \in Command BY CommandType, Zenon
  <1>2. commands' = Append(commands, Cmd("cancel", k, n)) /\ commands \in Seq(Command)
    BY Zenon DEF pushCommand, TypeOK
  <1>3. /\ Cmd("cancel", k, n).cmd = "cancel"
        /\ Cmd("cancel", k, n).kind = k
        /\ Cmd("cancel", k, n).seq = n
    BY Zenon DEF Cmd
  <1>4. ASSUME NEW c, NEW i
        PROVE  Buffered(c, i)' = Buffered(c, i) \cup (IF c = "cancel" /\ i = k THEN {n} ELSE {})
    BY <1>1, <1>2, <1>3, BufferedAppend
  <1>5. completed' \in BOOLEAN BY Zenon DEF pushCommand, TypeOK
  <1> QED BY <1>1, <1>2, <1>4, <1>5

\* Removing a microtask that is not the rejection of a child.
LEMMA RejectedSame ==
  ASSUME NEW m \in microtasks, m.act # "reject" \/ m.op.kind # "childWorkflow",
         microtasks' = microtasks \ {m}
  PROVE  RejectedChildren' = RejectedChildren
  <1> DEFINE R(q) == {i \in q : i.act = "reject" /\ i.op.kind = "childWorkflow"}
  <1>1. R(microtasks') = R(microtasks) BY Zenon
  <1> QED BY <1>1, Zenon DEF RejectedChildren

\* The callback of a timer gives its entry up with its cancel command.
LEMMA CancelTimerKeeps ==
  ASSUME CoreInv, NEW m \in microtasks, onCancelTimer(m)
  PROVE  CoreInv'
  <1> DEFINE n == m.op.seq
  <1>0. TypeOK /\ n \in Seqs /\ "timer" \in Kinds /\ "timer" \in CompletionTypes
    BY Zenon DEF CoreInv, TypeOK, Microtask, Op, Kinds, CompletionTypes
  <1>1. RejectedChildren' = RejectedChildren BY Zenon, RejectedSame DEF onCancelTimer, Runs
  <1>2. JobsAnswer' /\ LoopShape'
    BY Zenon DEF CoreInv, JobsAnswer, Answering, LoopShape, onCancelTimer, Runs, loopVars, coreVars
  <1>3. CASE n \notin completions["timer"]
    <2>1. UNCHANGED <<completions, commands, completed, settled, nextSeqs, issued>>
      BY <1>3, Zenon DEF onCancelTimer
    <2>2. TypeOK' BY <2>1, <1>0, Zenon DEF TypeOK, onCancelTimer, Runs, loopVars, coreVars
    <2>3. \A c, k : Buffered(c, k)' = Buffered(c, k) BY <2>1, BufferedSame, Zenon
    <2> QED BY <1>1, <1>2, <2>1, <2>2, <2>3, FrameKeeps, Zenon DEF onCancelTimer, Runs, coreVars
  <1>4. CASE n \in completions["timer"]
    <2>1. /\ completions' = Drop(completions, {"timer"}, n)
          /\ pushCommand(Cmd("cancel", "timer", n))
          /\ settled' = Put(settled, {"timer"}, n)
          /\ UNCHANGED <<nextSeqs, issued, outstanding>>
      BY <1>4, Zenon DEF onCancelTimer, Runs, coreVars
    <2>2. /\ commands' \in Seq(Command) /\ completed' \in BOOLEAN
          /\ \A c, i : Buffered(c, i)' =
               Buffered(c, i) \cup (IF c = "cancel" /\ i = "timer" THEN {n} ELSE {})
      BY <1>0, <2>1, CancelPushed, Zenon
    <2>3. /\ \A t \in CompletionTypes : completions'[t] = IF t = "timer" THEN completions[t] \ {n}
                                                                       ELSE completions[t]
          /\ completions' \in [CompletionTypes -> SUBSET Seqs]
          /\ settled' \in [CompletionTypes -> SUBSET Seqs]
          /\ settled'["childWorkflowComplete"] = settled["childWorkflowComplete"]
      BY Zenon, <1>0, <2>1 DEF Drop, Put, TypeOK, CompletionTypes
    <2>4. TypeOK'
      BY Zenon, <1>0, <2>1, <2>2, <2>3 DEF TypeOK, onCancelTimer, Runs, loopVars, coreVars
    <2>5. n < nextSeqs["timer"]
      BY Zenon, <1>0, <1>4, StartTypes DEF CoreInv, Numbered, AnswerTypes
    <2>6. Numbered' BY ZenonT(60), <2>1, <2>2, <2>3, <2>5, AnswerTypesOf DEF CoreInv, Numbered
    <2>7. OneStage' BY Zenon, <2>1, <2>2 DEF CoreInv, OneStage
    <2>8. StartsAgree' BY ZenonT(60), <2>1, <2>2, <2>3, <1>0, StartTypes DEF CoreInv, StartsAgree
    <2>9. TimersAgree' /\ NexusAgree'
      BY <2>1, <2>2, <2>3, Zenon DEF CoreInv, TimersAgree, NexusAgree, CompletionTypes
    <2>10. LiveChildren' = LiveChildren BY Zenon, <2>1, <2>2 DEF LiveChildren
    <2>11. ChildrenAgree' BY <1>1, <2>1, <2>3, <2>10, Zenon DEF CoreInv, ChildrenAgree, CompletionTypes
    <2> QED BY Zenon, <1>2, <2>4, <2>6, <2>7, <2>8, <2>9, <2>11 DEF CoreInv
  <1> QED BY <1>3, <1>4, Zenon

\* The callback of another operation only pushes a cancel command.
LEMMA CancelOperationKeeps ==
  ASSUME CoreInv, NEW m \in microtasks, onCancelOperation(m)
  PROVE  CoreInv'
  <1> DEFINE n == m.op.seq
             k == m.op.kind
  <1>0. TypeOK /\ n \in Seqs /\ k \in Kinds \ {"timer", "cancelWorkflow"}
    BY Zenon DEF CoreInv, TypeOK, Microtask, Op, onCancelOperation
  <1>1. RejectedChildren' = RejectedChildren BY Zenon, RejectedSame DEF onCancelOperation, Runs
  <1>2. JobsAnswer' /\ LoopShape'
    BY Zenon DEF CoreInv, JobsAnswer, Answering, LoopShape, onCancelOperation, Runs, loopVars, coreVars
  <1>3. UNCHANGED <<nextSeqs, completions, issued, settled, outstanding>>
    BY Zenon DEF onCancelOperation, Runs, coreVars
  <1>4. CASE ~\E t \in PendingTypes(k) : n \in completions[t]
    <2>1. UNCHANGED <<commands, completed>> BY Zenon, <1>4 DEF onCancelOperation
    <2>2. TypeOK' BY <2>1, <1>3, <1>0, Zenon DEF TypeOK, onCancelOperation, Runs, loopVars, coreVars
    <2>3. \A c, i : Buffered(c, i)' = Buffered(c, i) BY <2>1, BufferedSame, Zenon
    <2> QED BY <1>1, <1>2, <1>3, <2>2, <2>3, FrameKeeps, Zenon
  <1>5. CASE \E t \in PendingTypes(k) : n \in completions[t]
    <2>1. pushCommand(Cmd("cancel", k, n)) BY <1>5, Zenon DEF onCancelOperation
    <2>2. /\ commands' \in Seq(Command) /\ completed' \in BOOLEAN
          /\ \A c, i : Buffered(c, i)' =
               Buffered(c, i) \cup (IF c = "cancel" /\ i = k THEN {n} ELSE {})
      BY Zenon, <1>0, <2>1, CancelPushed
    <2>3. TypeOK'
      BY <1>0, <1>3, <2>2, Zenon DEF TypeOK, onCancelOperation, Runs, loopVars, coreVars
    <2>4. PendingTypes(k) \subseteq AnswerTypes(k)
      BY Zenon, <1>0 DEF PendingTypes, AnswerTypes, StartType, Kinds
    <2>5. n < nextSeqs[k] BY <1>0, <1>5, <2>4, Zenon DEF CoreInv, Numbered
    <2>6. Numbered' BY <1>3, <2>2, <2>5, Zenon DEF CoreInv, Numbered
    <2>7. OneStage' BY <1>3, <2>2, Zenon DEF CoreInv, OneStage
    <2>8. StartsAgree' /\ TimersAgree' /\ NexusAgree'
      BY <1>0, <1>3, <2>2, Zenon DEF CoreInv, StartsAgree, TimersAgree, NexusAgree
    <2>9. LiveChildren' = LiveChildren BY <1>3, <2>2, Zenon DEF LiveChildren
    <2>10. ChildrenAgree' BY <1>1, <1>3, <2>9, Zenon DEF CoreInv, ChildrenAgree
    <2> QED BY <1>2, <2>3, <2>6, <2>7, <2>8, <2>10, Zenon DEF CoreInv
  <1> QED BY Zenon, <1>4, <1>5

\* The callback of an external cancellation pushes nothing and keeps its completion.
LEMMA CancelExternalKeeps ==
  ASSUME CoreInv, NEW m \in microtasks, onCancelExternal(m)
  PROVE  CoreInv'
  <1>0. TypeOK /\ m.op.seq \in Seqs BY Zenon DEF CoreInv, TypeOK, Microtask, Op
  <1>1. RejectedChildren' = RejectedChildren BY RejectedSame, Zenon DEF onCancelExternal, Runs
  <1>2. JobsAnswer' /\ LoopShape'
    BY Zenon DEF CoreInv, JobsAnswer, Answering, LoopShape, onCancelExternal, Runs, loopVars, coreVars
  <1>3. /\ settled' \in [CompletionTypes -> SUBSET Seqs]
        /\ settled'["childWorkflowComplete"] = settled["childWorkflowComplete"]
    BY <1>0, Zenon DEF onCancelExternal, Put, TypeOK, CompletionTypes
  <1>4. UNCHANGED <<nextSeqs, completions, commands, completed, issued, outstanding>>
    BY Zenon DEF onCancelExternal, Runs, coreVars
  <1>5. TypeOK' BY <1>0, <1>3, <1>4, Zenon DEF TypeOK, onCancelExternal, Runs, loopVars, coreVars
  <1>6. \A c, i : Buffered(c, i)' = Buffered(c, i) BY <1>4, BufferedSame, Zenon
  <1> QED BY <1>1, <1>2, <1>3, <1>4, <1>5, <1>6, FrameKeeps, Zenon

\* The rejection of a child that was never scheduled accounts for the entry it left.
LEMMA RejectUnscheduledKeeps ==
  ASSUME CoreInv, NEW m \in microtasks, rejectUnscheduled(m)
  PROVE  CoreInv'
  <1> DEFINE n == m.op.seq
             k == m.op.kind
  <1>0. TypeOK /\ n \in Seqs /\ k \in Kinds BY Zenon DEF CoreInv, TypeOK, Microtask, Op
  <1>1. JobsAnswer' /\ LoopShape'
    BY Zenon DEF CoreInv, JobsAnswer, Answering, LoopShape, rejectUnscheduled, Runs, loopVars, coreVars
  <1>2. /\ UNCHANGED <<nextSeqs, completions, commands, completed, issued, outstanding>>
        /\ settled' = Put(settled, PromisesOf(k), n)
        /\ microtasks' = microtasks \ {m} /\ m.act = "reject"
    BY Zenon DEF rejectUnscheduled, Runs, coreVars
  <1>3. /\ settled' \in [CompletionTypes -> SUBSET Seqs]
        /\ settled'["childWorkflowComplete"] = settled["childWorkflowComplete"] \cup
             (IF "childWorkflowComplete" \in PromisesOf(k) THEN {n} ELSE {})
    BY <1>0, <1>2, Zenon DEF Put, TypeOK, CompletionTypes
  <1>4. TypeOK' BY <1>0, <1>2, <1>3, Zenon DEF TypeOK, rejectUnscheduled, Runs, loopVars, coreVars
  <1>5. \A c, i : Buffered(c, i)' = Buffered(c, i) BY <1>2, BufferedSame, Zenon
  <1>6. CASE k # "childWorkflow"
    <2>1. "childWorkflowComplete" \notin PromisesOf(k) BY <1>0, <1>6, Zenon DEF PromisesOf, Kinds
    <2>2. RejectedChildren' = RejectedChildren BY <1>2, <1>6, RejectedSame, Zenon
    <2> QED BY <1>1, <1>2, <1>3, <1>4, <1>5, <2>1, <2>2, FrameKeeps, Zenon
  <1>7. CASE k = "childWorkflow"
    <2>1. /\ n \in RejectedChildren
          /\ RejectedChildren' \subseteq RejectedChildren
          /\ RejectedChildren \ {n} \subseteq RejectedChildren'
      BY <1>2, <1>7, Zenon DEF RejectedChildren
    <2>2. settled'["childWorkflowComplete"] = settled["childWorkflowComplete"] \cup {n}
      BY <1>3, <1>7, Zenon DEF PromisesOf
    <2>3. LiveChildren' = LiveChildren BY <1>2, <1>5, Zenon DEF LiveChildren
    <2>4. ChildrenAgree' BY Zenon, <1>2, <2>1, <2>2, <2>3 DEF CoreInv, ChildrenAgree
    <2>5. Numbered' /\ OneStage' BY <1>2, <1>5, Zenon DEF CoreInv, Numbered, OneStage
    <2>6. StartsAgree' /\ TimersAgree' /\ NexusAgree'
      BY <1>2, <1>5, Zenon DEF CoreInv, StartsAgree, TimersAgree, NexusAgree
    <2> QED BY <1>1, <1>4, <2>4, <2>5, <2>6, Zenon DEF CoreInv
  <1> QED BY <1>6, <1>7, Zenon

\* Every microtask of the SDK keeps the invariant.
LEMMA MicrotasksKeep == CoreInv /\ RunMicrotask => CoreInv'
  <1> SUFFICES ASSUME CoreInv, NEW m \in microtasks,
                      \/ onCancelTimer(m) \/ onCancelOperation(m) \/ onCancelExternal(m)
                      \/ rejectUnscheduled(m) \/ localActivityBackoff(m) \/ localActivityRetry(m)
               PROVE  CoreInv'
    BY Zenon DEF RunMicrotask
  <1>1. CASE onCancelTimer(m) BY <1>1, CancelTimerKeeps, Zenon
  <1>2. CASE onCancelOperation(m) BY <1>2, CancelOperationKeeps, Zenon
  <1>3. CASE onCancelExternal(m) BY <1>3, CancelExternalKeeps, Zenon
  <1>4. CASE rejectUnscheduled(m) BY <1>4, RejectUnscheduledKeeps, Zenon
  <1>5. m.op.scope \in Scopes BY Zenon DEF CoreInv, TypeOK, Microtask, Op
  <1>6. CASE localActivityBackoff(m)
    <2>1. /\ microtasks \ {m} \in SUBSET microtasks
          /\ \A i \in microtasks \ (microtasks \ {m}) : i.act # "reject"
          /\ phase \in {"handler", "microtasks"}
      BY <1>6, Zenon DEF localActivityBackoff
    <2>2. Start("timer", m.op.scope, "backoff", {StartType("timer")}, Always("timer"),
                microtasks \ {m})
      BY <1>6, StartTypes, Zenon DEF localActivityBackoff, Always
    <2>3. "timer" \in Kinds /\ "backoff" \in Roles BY Zenon DEF Kinds, Roles
    <2> QED BY <1>5, <2>1, <2>2, <2>3, StartKeeps, Zenon
  <1>7. CASE localActivityRetry(m)
    <2>1. /\ microtasks \ {m} \in SUBSET microtasks
          /\ \A i \in microtasks \ (microtasks \ {m}) : i.act # "reject"
          /\ phase \in {"handler", "microtasks"}
      BY <1>7, Zenon DEF localActivityRetry
    <2>2. Start("activity", m.op.scope, "local", {StartType("activity")}, Always("activity"),
                microtasks \ {m})
      BY <1>7, StartTypes, Zenon DEF localActivityRetry, Always
    <2>3. "activity" \in Kinds /\ "local" \in Roles BY Zenon DEF Kinds, Roles
    <2> QED BY <1>5, <2>1, <2>2, <2>3, StartKeeps, Zenon
  <1> QED BY <1>1, <1>2, <1>3, <1>4, <1>6, <1>7, Zenon

(***************************************************************************)
(* Jobs                                                                    *)
(***************************************************************************)

\* An answer is never in the first of two batches, which holds only signals.
LEMMA AnswersComeLast ==
  ASSUME CoreInv, NEW j \in jobs, j.type # "signal"
  PROVE  laterJobs = {}
  BY DEF CoreInv, JobsAnswer, Answering, SignalJob

\* What JobsAnswer says of the last batch.
LEMMA LastBatch ==
  ASSUME CoreInv, laterJobs = {}
  PROVE  /\ \A i, j \in jobs : i.type = j.type /\ i.seq = j.seq => i = j
         /\ \A j \in jobs : j.type \in CompletionTypes \
                               {"childWorkflowComplete", "nexusOperationComplete"}
                             => j.seq \in outstanding[j.type]
         /\ \A j \in jobs : j.type = "childWorkflowComplete" =>
              \/ j.seq \in outstanding["childWorkflowComplete"]
              \/ \E i \in jobs : i.type = "childWorkflowStart" /\ i.seq = j.seq /\ i.result = "started"
         /\ \A j \in jobs : j.type = "nexusOperationComplete" =>
              /\ j.seq \in outstanding["nexusOperationStart"]
                           \cup outstanding["nexusOperationComplete"]
              /\ \A i \in jobs : i.type = "nexusOperationStart" /\ i.seq = j.seq
                   => i.result = "started"
  <1>1. jobs \cup laterJobs = jobs BY Zenon
  <1>2. JobsAnswer BY Zenon DEF CoreInv
  <1> QED BY <1>1, <1>2 DEF JobsAnswer, Answering

\* A promise of type t is settled: its number leaves the map and Core's debts together.
LEMMA AnswerKeeps ==
  ASSUME CoreInv, TypeOK', JobsAnswer', LoopShape',
         NEW t \in CompletionTypes \ {"childWorkflowStart"}, NEW n \in outstanding[t],
         outstanding' = Drop(outstanding, {t}, n),
         completions' = Drop(completions, {t}, n),
         settled'["childWorkflowComplete"] = settled["childWorkflowComplete"] \cup
           (IF t = "childWorkflowComplete" THEN {n} ELSE {}),
         RejectedChildren' = RejectedChildren,
         UNCHANGED <<nextSeqs, commands>>
  PROVE  CoreInv'
  <1>1. \A c, i : Buffered(c, i)' = Buffered(c, i) BY BufferedSame, Zenon
  <1>2. \A u \in CompletionTypes :
          /\ outstanding'[u] = IF u = t THEN outstanding[u] \ {n} ELSE outstanding[u]
          /\ completions'[u] = IF u = t THEN completions[u] \ {n} ELSE completions[u]
    BY Zenon DEF Drop
  <1>3. \A k \in Kinds : t \in AnswerTypes(k) => n \notin Buffered("start", k)
    BY Zenon DEF CoreInv, OneStage
  <1>4. Numbered'
    <2>1. ASSUME NEW k \in Kinds, NEW u \in AnswerTypes(k), NEW x \in outstanding'[u] \cup completions'[u]
          PROVE  x < nextSeqs'[k]
      BY ZenonT(60), <1>2, AnswerTypesOf DEF CoreInv, Numbered
    <2> QED BY Zenon, <1>1, <2>1 DEF CoreInv, Numbered
  <1>5. OneStage'
    <2>1. ASSUME NEW k \in Kinds, NEW u \in AnswerTypes(k)
          PROVE  Buffered("start", k)' \cap outstanding'[u] = {}
      BY ZenonT(60), <1>1, <1>2, AnswerTypesOf DEF CoreInv, OneStage
    <2>2. /\ outstanding'["childWorkflowStart"] \cap outstanding'["childWorkflowComplete"] = {}
          /\ outstanding'["nexusOperationStart"] \cap outstanding'["nexusOperationComplete"] = {}
      BY ZenonT(60), <1>2 DEF CoreInv, OneStage, CompletionTypes
    <2> QED BY Zenon, <2>1, <2>2 DEF OneStage
  <1>6. StartsAgree'
    <2> SUFFICES ASSUME NEW k \in Kinds \ {"timer"}
                 PROVE  completions'[StartType(k)] = outstanding'[StartType(k)] \cup Buffered("start", k)'
      BY Zenon DEF StartsAgree
    <2>1. StartType(k) \in CompletionTypes /\ StartType(k) \in AnswerTypes(k)
      BY StartTypes, Zenon DEF AnswerTypes
    <2>2. completions[StartType(k)] = outstanding[StartType(k)] \cup Buffered("start", k)
      BY Zenon DEF CoreInv, StartsAgree
    <2> QED BY Zenon, <1>1, <1>2, <1>3, <2>1, <2>2
  <1>7. TimersAgree'
    <2>1. "timer" \in AnswerTypes("timer") /\ "timer" \in Kinds /\ "timer" \in CompletionTypes
      BY StartTypes, Zenon DEF AnswerTypes, Kinds, CompletionTypes
    <2> QED BY ZenonT(60), <1>1, <1>2, <1>3, <2>1 DEF CoreInv, TimersAgree
  <1>8. NexusAgree' BY Zenon, <1>2 DEF CoreInv, NexusAgree, CompletionTypes
  <1>9. ChildrenAgree'
    <2>1. {"childWorkflowStart", "childWorkflowComplete"} \subseteq CompletionTypes
      BY Zenon DEF CompletionTypes
    <2>2. CASE t # "childWorkflowComplete"
      <3>1. LiveChildren' = LiveChildren BY Zenon, <1>1, <1>2, <2>1, <2>2 DEF LiveChildren
      <3> QED BY Zenon, <1>2, <2>1, <2>2, <3>1 DEF CoreInv, ChildrenAgree
    <2>3. CASE t = "childWorkflowComplete"
      <3>1. "childWorkflow" \in Kinds /\ t \in AnswerTypes("childWorkflow")
        BY <2>3, Zenon DEF AnswerTypes, Kinds
      <3>2. n \notin outstanding["childWorkflowStart"] BY <2>3, Zenon DEF CoreInv, OneStage
      <3>3. LiveChildren' = LiveChildren \ {n}
        BY Zenon, <1>1, <1>2, <1>3, <2>1, <2>3, <3>1, <3>2 DEF LiveChildren
      <3>4. n < nextSeqs["childWorkflow"] BY <3>1, Zenon DEF CoreInv, Numbered
      <3> QED BY ZenonT(60), <1>2, <2>1, <2>3, <3>3, <3>4 DEF CoreInv, ChildrenAgree
    <2> QED BY <2>2, <2>3, Zenon
  <1> QED BY <1>4, <1>5, <1>6, <1>7, <1>8, <1>9, Zenon DEF CoreInv

\* The types of what a job may change.
LEMMA JobTypes ==
  ASSUME TypeOK, NEW j, Handles(j), cancelRequested' \in SUBSET Scopes, cancelled' \in BOOLEAN,
         completions' \in [CompletionTypes -> SUBSET Seqs],
         outstanding' \in [CompletionTypes -> SUBSET Seqs],
         settled' \in [CompletionTypes -> SUBSET Seqs],
         microtasks' \in SUBSET Microtask, UNCHANGED error, phase' \in Phases
  PROVE  TypeOK'
  BY Zenon DEF TypeOK, Handles

\* What the jobs still to handle answer, once an answer of type t has been handled.
LEMMA JobsLeft ==
  ASSUME CoreInv, NEW j \in jobs,
         NEW t \in {"timer", "activity", "signalWorkflow", "cancelWorkflow",
                   "childWorkflowComplete"},
         HandlesAnswer(j, t), outstanding' = Drop(outstanding, {t}, j.seq)
  PROVE  j.seq \in outstanding[t] /\ JobsAnswer'
  <1> DEFINE n == j.seq
  <1>0. /\ j.type = t /\ jobs' = jobs \ {j} /\ laterJobs' = laterJobs
        /\ t \in CompletionTypes \ {"childWorkflowStart", "nexusOperationStart",
                                    "nexusOperationComplete"}
    BY Zenon DEF HandlesAnswer, Handles, CompletionTypes
  <1>1. laterJobs = {} BY <1>0, AnswersComeLast, Zenon
  <1>2. n \in outstanding[t]
    <2>1. CASE t = "childWorkflowComplete"
      <3>1. ~\E i \in jobs : i.type = "childWorkflowStart" /\ i.seq = n
        BY <2>1, Zenon DEF HandlesAnswer, Before
      <3> QED BY <1>0, <1>1, <2>1, <3>1 DEF CoreInv, JobsAnswer, Answering
    <2>2. CASE t # "childWorkflowComplete"
      BY <1>0, <1>1, <2>2, Zenon DEF CoreInv, JobsAnswer, Answering
    <2> QED BY <2>1, <2>2, Zenon
  <1>3. \A u \in CompletionTypes :
          outstanding'[u] = IF u = t THEN outstanding[u] \ {n} ELSE outstanding[u]
    BY Zenon DEF Drop
  <1>4. \A i \in jobs' : i.type = t => i.seq # n BY <1>0, Zenon DEF CoreInv, JobsAnswer, Answering
  <1>5. \A i \in jobs' : i.type \in CompletionTypes \
                            {"childWorkflowComplete", "nexusOperationComplete"}
                           => i.seq \in outstanding'[i.type]
    BY Zenon, <1>0, <1>1, <1>3, <1>4, LastBatch
  <1>6. {"childWorkflowComplete", "nexusOperationStart", "nexusOperationComplete"}
           \subseteq CompletionTypes
    BY Zenon DEF CompletionTypes
  <1>7. ASSUME NEW i \in jobs', i.type = "childWorkflowComplete"
        PROVE  \/ i.seq \in outstanding'["childWorkflowComplete"]
               \/ \E h \in jobs' : /\ h.type = "childWorkflowStart" /\ h.seq = i.seq
                                   /\ h.result = "started"
    <2>1. i \in jobs BY <1>0, Zenon
    <2>2. CASE i.seq \in outstanding["childWorkflowComplete"]
      BY Zenon, <2>2, <1>3, <1>4, <1>6, <1>7
    <2>3. ASSUME NEW h \in jobs, h.type = "childWorkflowStart", h.seq = i.seq,
                 h.result = "started"
          PROVE  h \in jobs'
      BY <1>0, <2>3, Zenon
    <2> QED BY <1>1, <1>7, <2>1, <2>2, <2>3, LastBatch, Zenon
  <1>8. ASSUME NEW i \in jobs', i.type = "nexusOperationComplete"
        PROVE  /\ i.seq \in outstanding'["nexusOperationStart"]
                             \cup outstanding'["nexusOperationComplete"]
               /\ \A h \in jobs' : h.type = "nexusOperationStart" /\ h.seq = i.seq
                                    => h.result = "started"
    <2>1. i \in jobs /\ jobs' \subseteq jobs BY <1>0, Zenon
    <2>2. /\ outstanding'["nexusOperationStart"] = outstanding["nexusOperationStart"]
          /\ outstanding'["nexusOperationComplete"] = outstanding["nexusOperationComplete"]
      BY Zenon, <1>0, <1>3, <1>6
    <2> QED BY <1>1, <1>8, <2>1, <2>2, LastBatch, Zenon
  <1>9. \A i, h \in jobs' : i.type = h.type /\ i.seq = h.seq => i = h
    BY <1>0, Zenon DEF CoreInv, JobsAnswer, Answering
  <1>10. jobs' \cup laterJobs' = jobs' /\ laterJobs' = {} BY Zenon, <1>0, <1>1
  <1> QED BY <1>2, <1>5, <1>7, <1>8, <1>9, <1>10 DEF JobsAnswer, Answering

\* Such an answer finds its completion, and the step keeps the invariant.
LEMMA SettleKeeps ==
  ASSUME CoreInv, NEW j \in jobs,
         NEW t \in {"timer", "activity", "signalWorkflow", "cancelWorkflow",
                   "childWorkflowComplete"},
         HandlesAnswer(j, t), outstanding' = Drop(outstanding, {t}, j.seq),
         completions' = Drop(completions, {t}, j.seq),
         settled' \in {Put(settled, {t}, j.seq)} \cup (IF t = "timer" THEN {settled} ELSE {}),
         microtasks' \in SUBSET Microtask, RejectedChildren' = RejectedChildren,
         UNCHANGED <<error, phase>>
  PROVE  CoreInv'
  <1> DEFINE n == j.seq
  <1>0. TypeOK /\ t \in CompletionTypes \ {"childWorkflowStart"}
    BY Zenon DEF CoreInv, CompletionTypes
  <1>1. n \in outstanding[t] /\ JobsAnswer' BY JobsLeft, Zenon
  <1>2. n \in Seqs BY <1>0, <1>1, Zenon DEF TypeOK
  <1>3. /\ completions' \in [CompletionTypes -> SUBSET Seqs]
        /\ outstanding' \in [CompletionTypes -> SUBSET Seqs]
        /\ settled' \in [CompletionTypes -> SUBSET Seqs]
    BY <1>0, <1>2 DEF TypeOK, Drop, Put
  <1>4. settled'["childWorkflowComplete"] = settled["childWorkflowComplete"] \cup
           (IF t = "childWorkflowComplete" THEN {n} ELSE {})
    BY Zenon DEF Put, CompletionTypes
  <1>5. TypeOK' BY Zenon, <1>0, <1>3, JobTypes DEF HandlesAnswer, TypeOK
  <1>6. LoopShape' BY Zenon DEF CoreInv, LoopShape, HandlesAnswer, Handles
  <1>7. UNCHANGED <<nextSeqs, commands>> BY Zenon DEF HandlesAnswer, Handles
  <1> QED BY <1>0, <1>1, <1>4, <1>5, <1>6, <1>7, AnswerKeeps, Zenon

\* Continuations queued by a job are microtasks, and reject nothing.
LEMMA ContinuationsQueued ==
  ASSUME TypeOK, NEW a \in {"sleep", "retry"}, NEW O \in SUBSET issued,
         microtasks' = microtasks \cup {[act |-> a, op |-> o] : o \in O}
  PROVE  microtasks' \in SUBSET Microtask /\ RejectedChildren' = RejectedChildren
  <1>1. \A o \in O : [act |-> a, op |-> o] \in Microtask BY Zenon DEF TypeOK, Microtask
  <1>2. microtasks' \in SUBSET Microtask BY <1>1, Zenon DEF TypeOK
  <1>3. microtasks \subseteq microtasks' /\ \A m \in microtasks' \ microtasks : m.act # "reject"
    OBVIOUS
  <1>4. RejectedChildren' = RejectedChildren BY <1>3, Zenon DEF RejectedChildren
  <1> QED BY Zenon, <1>2, <1>4

\* fireTimer consumes the timer entry, if clearing the timer has not removed it yet.
LEMMA FireTimerKeeps ==
  ASSUME CoreInv, NEW j \in jobs, fireTimer(j)
  PROVE  CoreInv'
  <1>0. TypeOK BY Zenon DEF CoreInv
  <1>1. CASE j.seq \in completions["timer"]
    <2> DEFINE O == {i \in issued : i.kind = "timer" /\ i.seq = j.seq /\ i.role = "backoff"}
    <2>1. microtasks' = microtasks \cup {[act |-> "retry", op |-> o] : o \in O}
      BY <1>1, Zenon DEF fireTimer
    <2>2. microtasks' \in SUBSET Microtask /\ RejectedChildren' = RejectedChildren
      BY ZenonT(60), <1>0, <2>1, ContinuationsQueued
    <2> QED BY ZenonT(60), <1>1, <2>2, SettleKeeps DEF fireTimer
  <1>2. CASE j.seq \notin completions["timer"]
    <2>1. completions' = Drop(completions, {"timer"}, j.seq)
      BY Zenon, <1>0, <1>2 DEF fireTimer, Drop, TypeOK
    <2>2. microtasks' \in SUBSET Microtask /\ RejectedChildren' = RejectedChildren
      BY <1>0, <1>2, Zenon DEF fireTimer, TypeOK, RejectedChildren
    <2> QED BY Zenon, <1>2, <2>1, <2>2, SettleKeeps DEF fireTimer
  <1> QED BY <1>1, <1>2, Zenon

\* Core only answers what it was asked, so the completion of an answer is there.
LEMMA CompletionFound ==
  ASSUME CoreInv, NEW j \in jobs,
         NEW t \in {"activity", "signalWorkflow", "cancelWorkflow", "childWorkflowComplete"},
         HandlesAnswer(j, t), outstanding' = Drop(outstanding, {t}, j.seq)
  PROVE  j.seq \in completions[t]
  <1>1. j.seq \in outstanding[t] BY Zenon, JobsLeft
  <1>2. CASE t = "childWorkflowComplete"
    BY Zenon, <1>1, <1>2 DEF CoreInv, ChildrenAgree, LiveChildren
  <1>3. CASE t # "childWorkflowComplete"
    <2>1. t \in Kinds \ {"timer"} /\ StartType(t) = t BY Zenon, <1>3, StartTypes DEF Kinds
    <2> QED BY <1>1, <2>1, Zenon DEF CoreInv, StartsAgree
  <1> QED BY <1>2, <1>3, Zenon

\* resolveActivity consumes the entry its job names.
LEMMA ResolveActivityKeeps ==
  ASSUME CoreInv, NEW j \in jobs, resolveActivity(j)
  PROVE  CoreInv'
  <1>0. TypeOK /\ j.seq \in completions["activity"]
    BY Zenon, CompletionFound DEF CoreInv, resolveActivity
  <1> DEFINE O == {i \in issued : i.kind = "activity" /\ i.seq = j.seq /\ j.result = "backoff"}
  <1>1. microtasks' = microtasks \cup {[act |-> "sleep", op |-> o] : o \in O}
    BY <1>0, Zenon DEF resolveActivity
  <1>2. microtasks' \in SUBSET Microtask /\ RejectedChildren' = RejectedChildren
    BY ZenonT(60), <1>0, <1>1, ContinuationsQueued
  <1> QED BY Zenon, <1>0, <1>2, SettleKeeps DEF resolveActivity

\* The handlers that consume one completion and settle it keep the invariant.
LEMMA ConsumeKeeps ==
  ASSUME CoreInv, NEW j \in jobs,
         NEW t \in {"signalWorkflow", "cancelWorkflow", "childWorkflowComplete"},
         ConsumeAndSettle(j, t)
  PROVE  CoreInv'
  <1>0. TypeOK /\ j.seq \in completions[t] BY Zenon, CompletionFound DEF CoreInv, ConsumeAndSettle
  <1>1. microtasks' \in SUBSET Microtask /\ RejectedChildren' = RejectedChildren
    BY <1>0, Zenon DEF ConsumeAndSettle, TypeOK, RejectedChildren
  <1> QED BY ZenonT(60), <1>0, <1>1, SettleKeeps DEF ConsumeAndSettle

\* The result of a Nexus operation, with or without a start before it.
LEMMA NexusResultKeeps ==
  ASSUME CoreInv, NEW j \in jobs, resolveNexusOperation(j)
  PROVE  CoreInv'
  <1> DEFINE n == j.seq
             t == IF n \in completions["nexusOperationStart"] THEN "nexusOperationStart"
                                                               ELSE "nexusOperationComplete"
  <1>0. /\ TypeOK /\ j.type = "nexusOperationComplete"
        /\ jobs' = jobs \ {j} /\ laterJobs' = laterJobs
        /\ ~\E i \in jobs : i.type = "nexusOperationStart" /\ i.seq = n
    BY Zenon DEF CoreInv, resolveNexusOperation, HandlesAnswer, Handles, Before
  <1>1. laterJobs = {} BY Zenon, <1>0, AnswersComeLast
  <1>2. n \in outstanding["nexusOperationStart"] \cup outstanding["nexusOperationComplete"]
    BY <1>0, <1>1, LastBatch, Zenon
  <1>3. n \in outstanding[t] /\ n \in completions[t]
    <2>1. /\ "nexusOperation" \in Kinds \ {"timer"}
          /\ {"nexusOperationStart", "nexusOperationComplete"} \subseteq AnswerTypes("nexusOperation")
      BY StartTypes, Zenon DEF Kinds, AnswerTypes
    <2>2. completions["nexusOperationStart"] =
            outstanding["nexusOperationStart"] \cup Buffered("start", "nexusOperation")
      BY <2>1, StartTypes, Zenon DEF CoreInv, StartsAgree
    <2>3. /\ Buffered("start", "nexusOperation") \cap outstanding["nexusOperationComplete"] = {}
          /\ completions["nexusOperationComplete"] = outstanding["nexusOperationComplete"]
      BY Zenon, <2>1 DEF CoreInv, OneStage, NexusAgree
    <2> QED BY <1>2, <2>2, <2>3, Zenon
  <1>4. /\ outstanding' = Drop(outstanding, {t}, n) /\ completions' = Drop(completions, {t}, n)
        /\ settled' = Put(settled, {t}, n)
        /\ UNCHANGED <<microtasks, error, phase, nextSeqs, commands>>
    BY <1>3, Zenon DEF resolveNexusOperation, HandlesAnswer, Handles
  <1>5. t \in CompletionTypes \ {"childWorkflowStart", "childWorkflowComplete"}
    BY Zenon DEF CompletionTypes
  <1>6. /\ completions' \in [CompletionTypes -> SUBSET Seqs]
        /\ outstanding' \in [CompletionTypes -> SUBSET Seqs]
        /\ settled' \in [CompletionTypes -> SUBSET Seqs]
        /\ settled'["childWorkflowComplete"] = settled["childWorkflowComplete"]
    <2> HIDE DEF t
    <2>1. n \in Seqs BY Zenon, <1>0, <1>3, <1>5 DEF TypeOK
    <2> QED BY <1>0, <1>4, <1>5, <2>1, Zenon DEF TypeOK, Drop, Put, CompletionTypes
  <1>7. TypeOK'
    BY ZenonT(60), <1>0, <1>4, <1>6, JobTypes DEF resolveNexusOperation, HandlesAnswer, TypeOK
  <1>8. LoopShape' BY Zenon, <1>4 DEF CoreInv, LoopShape, resolveNexusOperation, HandlesAnswer, Handles
  <1>9. RejectedChildren' = RejectedChildren BY ZenonT(60), <1>4 DEF RejectedChildren
  <1>10. JobsAnswer'
    <2> HIDE DEF t
    <2>1. \A u \in CompletionTypes :
            outstanding'[u] = IF u = t THEN outstanding[u] \ {n} ELSE outstanding[u]
      BY Zenon, <1>4 DEF Drop
    <2>2. jobs' \subseteq jobs /\ laterJobs' = {} /\ jobs' \cup laterJobs' = jobs' BY Zenon, <1>0, <1>1
    <2>3. \A i \in jobs' : i.type \in {"nexusOperationStart", "nexusOperationComplete"}
                             => i.seq # n
      BY <1>0, <1>1, LastBatch
    <2>4. t \in {"nexusOperationStart", "nexusOperationComplete"} BY Zenon DEF t
    <2>5. {"nexusOperationStart", "nexusOperationComplete", "childWorkflowComplete"}
            \subseteq CompletionTypes
      BY Zenon DEF CompletionTypes
    <2>6. \A i \in jobs' : i.type \in CompletionTypes \
                              {"childWorkflowComplete", "nexusOperationComplete"}
                             => i.seq \in outstanding'[i.type]
      BY Zenon, <1>1, <2>1, <2>2, <2>3, <2>4, LastBatch
    <2>7. ASSUME NEW i \in jobs', i.type = "childWorkflowComplete"
          PROVE  \/ i.seq \in outstanding'["childWorkflowComplete"]
                 \/ \E h \in jobs' : /\ h.type = "childWorkflowStart" /\ h.seq = i.seq
                                     /\ h.result = "started"
      <3>1. outstanding'["childWorkflowComplete"] = outstanding["childWorkflowComplete"]
        BY Zenon, <2>1, <2>4, <2>5
      <3>2. \A h \in jobs : h.type = "childWorkflowStart" => h \in jobs' BY <1>0, Zenon
      <3> QED BY <1>1, <2>2, <2>7, <3>1, <3>2, LastBatch, Zenon
    <2>8. ASSUME NEW i \in jobs', i.type = "nexusOperationComplete"
          PROVE  /\ i.seq \in outstanding'["nexusOperationStart"]
                               \cup outstanding'["nexusOperationComplete"]
                 /\ \A h \in jobs' : h.type = "nexusOperationStart" /\ h.seq = i.seq
                                      => h.result = "started"
      <3>1. i.seq # n BY <2>3, <2>8, Zenon
      <3>2. i.seq \in outstanding["nexusOperationStart"] \cup outstanding["nexusOperationComplete"]
        BY <1>1, <2>2, <2>8, LastBatch, Zenon
      <3> QED BY ZenonT(60), <1>1, <2>1, <2>2, <2>5, <2>8, <3>1, <3>2, LastBatch
    <2>9. \A i, h \in jobs' : i.type = h.type /\ i.seq = h.seq => i = h
      BY Zenon, <1>1, <2>2, LastBatch
    <2> QED BY SMTT(30), <2>2, <2>6, <2>7, <2>8, <2>9 DEF JobsAnswer, Answering
  <1> HIDE DEF t
  <1> QED BY Zenon, <1>3, <1>4, <1>5, <1>6, <1>7, <1>8, <1>9, <1>10, AnswerKeeps

\* A start is answered: what the jobs still to handle answer.
LEMMA StartJobsLeft ==
  ASSUME CoreInv, NEW j \in jobs, NEW t, NEW u,
         \/ t = "childWorkflowStart" /\ u = "childWorkflowComplete"
         \/ t = "nexusOperationStart" /\ u = "nexusOperationComplete",
         HandlesAnswer(j, t),
         outstanding' = IF j.result = "started" THEN Put(Drop(outstanding, {t}, j.seq), {u}, j.seq)
                                                ELSE Drop(outstanding, {t}, j.seq)
  PROVE  /\ j.seq \in outstanding[t]
         /\ \A v \in CompletionTypes : outstanding'[v] =
              IF v = t THEN outstanding[v] \ {j.seq}
                       ELSE IF v = u /\ j.result = "started" THEN outstanding[v] \cup {j.seq}
                                                              ELSE outstanding[v]
         /\ JobsAnswer'
  <1> DEFINE n == j.seq
  <1>0. /\ j.type = t /\ jobs' = jobs \ {j} /\ laterJobs' = laterJobs
        /\ t \in CompletionTypes \ {"childWorkflowComplete", "nexusOperationComplete"}
        /\ u \in CompletionTypes
    BY Zenon DEF HandlesAnswer, Handles, CompletionTypes
  <1>1. laterJobs = {} BY Zenon, <1>0, AnswersComeLast
  <1>2. n \in outstanding[t] BY Zenon, <1>0, <1>1, LastBatch
  <1>3. \A v \in CompletionTypes : outstanding'[v] =
          IF v = t THEN outstanding[v] \ {n}
                   ELSE IF v = u /\ j.result = "started" THEN outstanding[v] \cup {n}
                                                          ELSE outstanding[v]
    BY Zenon, <1>0 DEF Put, Drop
  <1>4. \A i \in jobs' : i.type = t => i.seq # n BY <1>0, <1>1, LastBatch, Zenon
  <1>5. jobs' \subseteq jobs /\ laterJobs' = {} /\ jobs' \cup laterJobs' = jobs' BY Zenon, <1>0, <1>1
  <1>6. \A i \in jobs' : i.type \in CompletionTypes \
                            {"childWorkflowComplete", "nexusOperationComplete"}
                           => i.seq \in outstanding'[i.type]
    BY Zenon, <1>1, <1>3, <1>4, <1>5, LastBatch
  <1>7. {"childWorkflowComplete", "nexusOperationStart", "nexusOperationComplete"}
           \subseteq CompletionTypes
    BY Zenon DEF CompletionTypes
  <1>8. ASSUME NEW i \in jobs', i.type = "childWorkflowComplete"
        PROVE  \/ i.seq \in outstanding'["childWorkflowComplete"]
               \/ \E h \in jobs' : /\ h.type = "childWorkflowStart" /\ h.seq = i.seq
                                   /\ h.result = "started"
    <2>1. i \in jobs BY <1>5, Zenon
    <2>2. CASE i.seq \in outstanding["childWorkflowComplete"] BY ZenonT(60), <2>2, <1>3, <1>7
    <2>3. ASSUME NEW h \in jobs, h.type = "childWorkflowStart", h.seq = i.seq,
                 h.result = "started"
          PROVE  h \in jobs' \/ i.seq \in outstanding'["childWorkflowComplete"]
      <3>1. CASE h # j BY <3>1, <1>0, Zenon
      <3>2. CASE h = j BY ZenonT(60), <3>2, <2>3, <1>0, <1>3, <1>7
      <3> QED BY <3>1, <3>2, Zenon
    <2> QED BY Zenon, <1>1, <1>8, <2>1, <2>2, <2>3, LastBatch
  <1>9. ASSUME NEW i \in jobs', i.type = "nexusOperationComplete"
        PROVE  /\ i.seq \in outstanding'["nexusOperationStart"]
                             \cup outstanding'["nexusOperationComplete"]
               /\ \A h \in jobs' : h.type = "nexusOperationStart" /\ h.seq = i.seq
                                    => h.result = "started"
    <2>1. i \in jobs BY <1>5, Zenon
    <2>2. /\ i.seq \in outstanding["nexusOperationStart"] \cup outstanding["nexusOperationComplete"]
          /\ \A h \in jobs : h.type = "nexusOperationStart" /\ h.seq = i.seq
                              => h.result = "started"
      BY Zenon, <1>1, <1>9, <2>1, LastBatch
    <2>3. CASE i.seq = n /\ t = "nexusOperationStart"
      <3>1. j.result = "started" BY <1>0, <2>2, <2>3, Zenon
      <3> QED BY Zenon, <1>3, <1>5, <1>7, <2>2, <2>3, <3>1
    <2>4. CASE i.seq # n \/ t # "nexusOperationStart"
      BY ZenonT(60), <1>3, <1>5, <1>7, <2>2, <2>4
    <2> QED BY Zenon, <2>3, <2>4
  <1>10. \A i, h \in jobs' : i.type = h.type /\ i.seq = h.seq => i = h
    BY <1>1, <1>5, LastBatch, Zenon
  <1> DEFINE J == jobs \cup laterJobs
  <1>11. J' = jobs' BY Zenon, <1>5
  <1> HIDE DEF J
  <1>12. Answering(J)' BY ZenonT(60), <1>6, <1>8, <1>9, <1>10, <1>11 DEF Answering
  <1> QED BY ZenonT(60), <1>2, <1>3, <1>5, <1>12 DEF JobsAnswer, J

\* A child's start answered: the child is live still, or gone with both its completions.
LEMMA ChildStartKeeps ==
  ASSUME CoreInv, NEW j \in jobs, resolveChildWorkflowExecutionStart(j)
  PROVE  CoreInv'
  <1> DEFINE n == j.seq
             S == "childWorkflowStart"
             C == "childWorkflowComplete"
  <1>0. TypeOK /\ HandlesAnswer(j, S) BY Zenon DEF CoreInv, resolveChildWorkflowExecutionStart
  <1>1. outstanding' = IF j.result = "started" THEN Put(Drop(outstanding, {S}, n), {C}, n)
                                               ELSE Drop(outstanding, {S}, n)
    BY Zenon DEF resolveChildWorkflowExecutionStart
  <1>2. /\ n \in outstanding[S] /\ JobsAnswer'
        /\ \A v \in CompletionTypes : outstanding'[v] =
              IF v = S THEN outstanding[v] \ {n}
                       ELSE IF v = C /\ j.result = "started" THEN outstanding[v] \cup {n}
                                                              ELSE outstanding[v]
    BY ZenonT(60), <1>0, <1>1, StartJobsLeft
  <1>3. /\ "childWorkflow" \in Kinds \ {"timer"} /\ S \in CompletionTypes /\ C \in CompletionTypes
        /\ S \in AnswerTypes("childWorkflow") /\ C \in AnswerTypes("childWorkflow")
        /\ StartType("childWorkflow") = S
    BY StartTypes, Zenon DEF Kinds, CompletionTypes, AnswerTypes
  <1>4. completions[S] = outstanding[S] \cup Buffered("start", "childWorkflow")
    BY <1>3, Zenon DEF CoreInv, StartsAgree
  <1> DEFINE gone == IF j.result = "started" THEN {S} ELSE {S, C}
  <1>5. /\ completions' = Drop(completions, gone, n)
        /\ settled' = Put(settled, gone, n)
        /\ UNCHANGED <<microtasks, error, phase, nextSeqs, commands>>
    BY Zenon, <1>2, <1>4 DEF resolveChildWorkflowExecutionStart, HandlesAnswer, Handles
  <1>6. n \in Seqs BY Zenon, <1>0, <1>2, <1>3 DEF TypeOK
  <1>7. /\ \A v \in CompletionTypes : completions'[v] =
             IF v = S \/ (v = C /\ j.result # "started") THEN completions[v] \ {n} ELSE completions[v]
        /\ settled'[C] = IF j.result = "started" THEN settled[C] ELSE settled[C] \cup {n}
        /\ completions' \in [CompletionTypes -> SUBSET Seqs]
        /\ settled' \in [CompletionTypes -> SUBSET Seqs]
        /\ outstanding' \in [CompletionTypes -> SUBSET Seqs]
    BY Zenon, <1>0, <1>1, <1>3, <1>5, <1>6 DEF Drop, Put, TypeOK
  <1>8. TypeOK' BY <1>0, <1>5, <1>7, JobTypes, Zenon DEF HandlesAnswer, TypeOK
  <1>9. LoopShape' BY <1>0, <1>5, Zenon DEF CoreInv, LoopShape, HandlesAnswer, Handles
  <1>10. \A c, i : Buffered(c, i)' = Buffered(c, i) BY Zenon, <1>5, BufferedSame
  <1>11. n < nextSeqs["childWorkflow"] /\ n \notin Buffered("start", "childWorkflow")
         /\ n \notin outstanding[C]
    BY Zenon, <1>2, <1>3 DEF CoreInv, Numbered, OneStage
  <1>12. \A k \in Kinds \ {"childWorkflow"} : \A v \in AnswerTypes(k) :
           v \in CompletionTypes /\ v # S /\ v # C
    BY Zenon, <1>3, AnswerTypesOf, StartTypes
  <1>13. Numbered'
    <2>1. ASSUME NEW k \in Kinds, NEW v \in AnswerTypes(k),
                 NEW x \in outstanding'[v] \cup completions'[v]
          PROVE  x < nextSeqs'[k]
      <3>1. CASE k = "childWorkflow"
        <4>1. v \in {S, C} BY Zenon, <3>1, <1>3, AnswerTypesOf
        <4>2. x = n \/ x \in outstanding[v] \cup completions[v] BY Zenon, <4>1, <1>2, <1>3, <1>7
        <4> QED BY <3>1, <4>2, <1>5, <1>11, Zenon DEF CoreInv, Numbered
      <3>2. CASE k # "childWorkflow" BY ZenonT(60), <3>2, <1>2, <1>5, <1>7, <1>12 DEF CoreInv, Numbered
      <3> QED BY Zenon, <3>1, <3>2
    <2> QED BY <1>5, <1>10, <2>1, Zenon DEF CoreInv, Numbered
  <1>14. OneStage'
    <2>1. ASSUME NEW k \in Kinds, NEW v \in AnswerTypes(k)
          PROVE  Buffered("start", k)' \cap outstanding'[v] = {}
      <3>1. CASE k = "childWorkflow"
        <4>1. v \in {S, C} BY <3>1, <1>3, AnswerTypesOf, Zenon
        <4>2. outstanding'[v] \subseteq outstanding[v] \cup {n} BY Zenon, <4>1, <1>2, <1>3
        <4> QED BY <3>1, <4>2, <1>10, <1>11, Zenon DEF CoreInv, OneStage
      <3>2. CASE k # "childWorkflow" BY Zenon, <3>2, <1>2, <1>10, <1>12 DEF CoreInv, OneStage
      <3> QED BY <3>1, <3>2, Zenon
    <2>2. outstanding'[S] \cap outstanding'[C] = {} BY Zenon, <1>2, <1>3 DEF CoreInv, OneStage
    <2>3. outstanding'["nexusOperationStart"] \cap outstanding'["nexusOperationComplete"] = {}
      BY <1>2, Zenon DEF CoreInv, OneStage, CompletionTypes
    <2> QED BY Zenon, <2>1, <2>2, <2>3 DEF OneStage
  <1>15. StartsAgree'
    <2> SUFFICES ASSUME NEW k \in Kinds \ {"timer"}
                 PROVE  completions'[StartType(k)] = outstanding'[StartType(k)] \cup Buffered("start", k)'
      BY Zenon DEF StartsAgree
    <2>1. CASE k = "childWorkflow"
      BY Zenon, <2>1, <1>2, <1>3, <1>4, <1>7, <1>10, <1>11
    <2>2. CASE k # "childWorkflow"
      <3>1. StartType(k) \in AnswerTypes(k) BY Zenon DEF AnswerTypes
      <3> QED BY <2>2, <3>1, <1>2, <1>7, <1>10, <1>12, Zenon DEF CoreInv, StartsAgree
    <2> QED BY <2>1, <2>2, Zenon
  <1>16. TimersAgree' /\ NexusAgree'
    BY <1>2, <1>7, <1>10, Zenon DEF CoreInv, TimersAgree, NexusAgree, CompletionTypes
  <1>17. ChildrenAgree'
    <2>1. RejectedChildren' = RejectedChildren BY Zenon, <1>5 DEF RejectedChildren
    <2>2. CASE j.result = "started"
      <3>1. LiveChildren' = LiveChildren BY Zenon, <1>2, <1>3, <1>10, <2>2 DEF LiveChildren
      <3> QED BY ZenonT(60), <1>3, <1>5, <1>7, <2>1, <2>2, <3>1 DEF CoreInv, ChildrenAgree
    <2>3. CASE j.result # "started"
      <3>1. LiveChildren' = LiveChildren \ {n} BY Zenon, <1>2, <1>3, <1>10, <1>11, <2>3 DEF LiveChildren
      <3>2. n \in LiveChildren BY Zenon, <1>2 DEF LiveChildren
      <3> QED BY ZenonT(60), <1>3, <1>5, <1>7, <1>11, <2>1, <2>3, <3>1, <3>2 DEF CoreInv, ChildrenAgree
    <2> QED BY <2>2, <2>3, Zenon
  <1> QED BY Zenon, <1>2, <1>8, <1>9, <1>13, <1>14, <1>15, <1>16, <1>17 DEF CoreInv

\* The start of a Nexus operation answered: its completion takes the place of its start.
LEMMA NexusStartKeeps ==
  ASSUME CoreInv, NEW j \in jobs, resolveNexusOperationStart(j)
  PROVE  CoreInv'
  <1> DEFINE n == j.seq
             S == "nexusOperationStart"
             C == "nexusOperationComplete"
  <1>0. TypeOK /\ HandlesAnswer(j, S) BY Zenon DEF CoreInv, resolveNexusOperationStart
  <1>1. outstanding' = IF j.result = "started" THEN Put(Drop(outstanding, {S}, n), {C}, n)
                                               ELSE Drop(outstanding, {S}, n)
    BY Zenon DEF resolveNexusOperationStart
  <1>2. /\ n \in outstanding[S] /\ JobsAnswer'
        /\ \A v \in CompletionTypes : outstanding'[v] =
              IF v = S THEN outstanding[v] \ {n}
                       ELSE IF v = C /\ j.result = "started" THEN outstanding[v] \cup {n}
                                                              ELSE outstanding[v]
    BY ZenonT(60), <1>0, <1>1, StartJobsLeft
  <1>3. /\ "nexusOperation" \in Kinds \ {"timer"} /\ S \in CompletionTypes /\ C \in CompletionTypes
        /\ S \in AnswerTypes("nexusOperation") /\ C \in AnswerTypes("nexusOperation")
        /\ StartType("nexusOperation") = S
    BY StartTypes, Zenon DEF Kinds, CompletionTypes, AnswerTypes
  <1>4. completions[S] = outstanding[S] \cup Buffered("start", "nexusOperation")
    BY <1>3, Zenon DEF CoreInv, StartsAgree
  <1>5. /\ completions' = IF j.result = "started" THEN Put(Drop(completions, {S}, n), {C}, n)
                                                    ELSE Drop(completions, {S}, n)
        /\ settled' = Put(settled, {S}, n)
        /\ UNCHANGED <<microtasks, error, phase, nextSeqs, commands>>
    BY Zenon, <1>2, <1>4 DEF resolveNexusOperationStart, HandlesAnswer, Handles
  <1>6. n \in Seqs BY Zenon, <1>0, <1>2, <1>3 DEF TypeOK
  <1>7. /\ \A v \in CompletionTypes : completions'[v] =
             IF v = S THEN completions[v] \ {n}
                      ELSE IF v = C /\ j.result = "started" THEN completions[v] \cup {n}
                                                             ELSE completions[v]
        /\ settled'["childWorkflowComplete"] = settled["childWorkflowComplete"]
        /\ completions' \in [CompletionTypes -> SUBSET Seqs]
        /\ settled' \in [CompletionTypes -> SUBSET Seqs]
        /\ outstanding' \in [CompletionTypes -> SUBSET Seqs]
    BY Zenon, <1>0, <1>1, <1>3, <1>5, <1>6 DEF Drop, Put, TypeOK, CompletionTypes
  <1>8. TypeOK' BY Zenon, <1>0, <1>5, <1>7, JobTypes DEF HandlesAnswer, TypeOK
  <1>9. LoopShape' BY <1>0, <1>5, Zenon DEF CoreInv, LoopShape, HandlesAnswer, Handles
  <1>10. \A c, i : Buffered(c, i)' = Buffered(c, i) BY Zenon, <1>5, BufferedSame
  <1>11. n < nextSeqs["nexusOperation"] /\ n \notin Buffered("start", "nexusOperation")
         /\ n \notin outstanding[C]
    BY Zenon, <1>2, <1>3 DEF CoreInv, Numbered, OneStage
  <1>12. \A k \in Kinds \ {"nexusOperation"} : \A v \in AnswerTypes(k) :
           v \in CompletionTypes /\ v # S /\ v # C
    BY Zenon, <1>3, AnswerTypesOf, StartTypes
  <1>13. Numbered'
    <2>1. ASSUME NEW k \in Kinds, NEW v \in AnswerTypes(k),
                 NEW x \in outstanding'[v] \cup completions'[v]
          PROVE  x < nextSeqs'[k]
      <3>1. CASE k = "nexusOperation"
        <4>1. v \in {S, C} BY Zenon, <3>1, <1>3, AnswerTypesOf
        <4>2. x = n \/ x \in outstanding[v] \cup completions[v] BY SMTT(30), <4>1, <1>2, <1>3, <1>7
        <4> QED BY <3>1, <4>2, <1>5, <1>11, Zenon DEF CoreInv, Numbered
      <3>2. CASE k # "nexusOperation" BY ZenonT(60), <3>2, <1>2, <1>5, <1>7, <1>12 DEF CoreInv, Numbered
      <3> QED BY Zenon, <3>1, <3>2
    <2> QED BY <1>5, <1>10, <2>1, Zenon DEF CoreInv, Numbered
  <1>14. OneStage'
    <2>1. ASSUME NEW k \in Kinds, NEW v \in AnswerTypes(k)
          PROVE  Buffered("start", k)' \cap outstanding'[v] = {}
      <3>1. CASE k = "nexusOperation"
        <4>1. v \in {S, C} BY <3>1, <1>3, AnswerTypesOf, Zenon
        <4>2. outstanding'[v] \subseteq outstanding[v] \cup {n} BY Zenon, <4>1, <1>2, <1>3
        <4> QED BY <3>1, <4>2, <1>10, <1>11, Zenon DEF CoreInv, OneStage
      <3>2. CASE k # "nexusOperation" BY Zenon, <3>2, <1>2, <1>10, <1>12 DEF CoreInv, OneStage
      <3> QED BY <3>1, <3>2, Zenon
    <2>2. outstanding'[S] \cap outstanding'[C] = {} BY Zenon, <1>2, <1>3 DEF CoreInv, OneStage
    <2>3. outstanding'["childWorkflowStart"] \cap outstanding'["childWorkflowComplete"] = {}
      BY <1>2, Zenon DEF CoreInv, OneStage, CompletionTypes
    <2> QED BY <2>1, <2>2, <2>3, Zenon DEF OneStage
  <1>15. StartsAgree'
    <2> SUFFICES ASSUME NEW k \in Kinds \ {"timer"}
                 PROVE  completions'[StartType(k)] = outstanding'[StartType(k)] \cup Buffered("start", k)'
      BY Zenon DEF StartsAgree
    <2>1. CASE k = "nexusOperation"
      BY Zenon, <2>1, <1>2, <1>3, <1>4, <1>7, <1>10, <1>11
    <2>2. CASE k # "nexusOperation"
      <3>1. StartType(k) \in AnswerTypes(k) BY Zenon DEF AnswerTypes
      <3> QED BY Zenon, <2>2, <3>1, <1>2, <1>7, <1>10, <1>12 DEF CoreInv, StartsAgree
    <2> QED BY Zenon, <2>1, <2>2
  <1>16. TimersAgree' /\ NexusAgree'
    BY Zenon, <1>2, <1>7, <1>10 DEF CoreInv, TimersAgree, NexusAgree, CompletionTypes
  <1>17. ChildrenAgree'
    <2>1. RejectedChildren' = RejectedChildren BY Zenon, <1>5 DEF RejectedChildren
    <2>2. LiveChildren' = LiveChildren BY <1>2, <1>10, Zenon DEF LiveChildren, CompletionTypes
    <2> QED BY Zenon, <1>5, <1>7, <2>1, <2>2 DEF CoreInv, ChildrenAgree, CompletionTypes
  <1> QED BY Zenon, <1>2, <1>8, <1>9, <1>13, <1>14, <1>15, <1>16, <1>17 DEF CoreInv

\* A signal, a cancellation or the start of the workflow answers nothing.
LEMMA EventJobsLeft ==
  ASSUME CoreInv, NEW j \in jobs, j.type \notin CompletionTypes, Handles(j),
         UNCHANGED outstanding
  PROVE  JobsAnswer'
  <1> DEFINE J == jobs \cup laterJobs
  <1>0. /\ jobs' = jobs \ {j} /\ laterJobs' = laterJobs
        /\ \A h \in J : h.type = "childWorkflowStart" => h # j
    BY Zenon DEF Handles, CompletionTypes
  <1>1. J' \subseteq J /\ \A h \in J : h.type = "childWorkflowStart" => h \in J' BY <1>0, Zenon
  <1>2. Answering(J) BY Zenon DEF CoreInv, JobsAnswer
  <1>3. laterJobs' # {} => jobs' \subseteq {SignalJob} BY Zenon, <1>0 DEF CoreInv, JobsAnswer
  <1> HIDE DEF J
  <1>4. Answering(J)' BY <1>1, <1>2 DEF Answering
  <1> QED BY <1>3, <1>4, Zenon DEF JobsAnswer, J

\* cancelWorkflow, signalWorkflow and startWorkflow change no completion.
LEMMA EventsKeep ==
  ASSUME CoreInv, cancelWorkflow \/ signalWorkflow \/ startWorkflow
  PROVE  CoreInv'
  <1>0. TypeOK BY Zenon DEF CoreInv
  <1>1. CASE cancelWorkflow
    <2>1. Handles(CancelJob) /\ Cancel(RootScope) /\ RootScope \in Scopes
          /\ UNCHANGED <<completions, error, settled, phase, outstanding, nextSeqs, commands>>
      BY <1>1, ScopesAssumption, Zenon DEF cancelWorkflow, Handles
    <2>2. JobsAnswer' BY <2>1, EventJobsLeft, Zenon DEF CancelJob, CompletionTypes, Handles
    <2>3. /\ cancelRequested' \in SUBSET Scopes /\ microtasks' \in SUBSET Microtask
          /\ RejectedChildren' = RejectedChildren
      BY Zenon, <1>0, <2>1, CancelQueues
    <2>4. TypeOK'
      BY Zenon, <1>0, <1>1, <2>1, <2>3, JobTypes DEF TypeOK, cancelWorkflow
    <2>5. LoopShape' BY <2>1, Zenon DEF CoreInv, LoopShape, Handles
    <2>6. \A c, k : Buffered(c, k)' = Buffered(c, k) BY <2>1, BufferedSame, Zenon
    <2> QED BY Zenon, <2>1, <2>2, <2>3, <2>4, <2>5, <2>6, FrameKeeps
  <1>2. ASSUME NEW j \in {SignalJob, InitializeJob}, CallsWorkflowCode(j)
        PROVE  CoreInv'
    <2>1. Handles(j) /\ j \in jobs /\ phase' = "handler"
          /\ UNCHANGED <<completions, error, settled, outstanding, nextSeqs, commands, microtasks,
                         cancelRequested, cancelled>>
      BY <1>2, Zenon DEF CallsWorkflowCode, Handles
    <2>2. JobsAnswer' BY Zenon, <2>1, EventJobsLeft DEF SignalJob, InitializeJob, CompletionTypes
    <2>3. TypeOK' BY <1>0, <2>1, JobTypes, Zenon DEF TypeOK, Phases
    <2>4. LoopShape' BY <2>1, Zenon DEF CoreInv, LoopShape
    <2>5. \A c, k : Buffered(c, k)' = Buffered(c, k) BY Zenon, <2>1, BufferedSame
    <2>6. RejectedChildren' = RejectedChildren BY Zenon, <2>1 DEF RejectedChildren
    <2> QED BY <2>1, <2>2, <2>3, <2>4, <2>5, <2>6, FrameKeeps, Zenon
  <1> QED BY <1>1, <1>2, Zenon DEF signalWorkflow, startWorkflow

\* Every job keeps the invariant.
LEMMA JobsKeep == CoreInv /\ HandleJob => CoreInv'
  <1> SUFFICES ASSUME CoreInv, HandleJob PROVE CoreInv' BY Zenon
  <1>1. ASSUME NEW j \in jobs,
               \/ resolveChildWorkflowExecution(j) \/ resolveSignalExternalWorkflow(j)
               \/ resolveRequestCancelExternalWorkflow(j)
        PROVE  CoreInv'
    BY Zenon, <1>1, ConsumeKeeps DEF resolveChildWorkflowExecution, resolveSignalExternalWorkflow,
                              resolveRequestCancelExternalWorkflow
  <1> QED BY <1>1, FireTimerKeeps, ResolveActivityKeeps, ChildStartKeeps, NexusStartKeeps,
             NexusResultKeeps, EventsKeep, Zenon DEF HandleJob

(***************************************************************************)
(* The activation loop                                                     *)
(***************************************************************************)

\* An activation begins with jobs that answer what Core owes.
LEMMA ActivateKeeps ==
  ASSUME CoreInv, phase \in {"new", "idle"}, NEW J \in SUBSET Job, NEW single \in BOOLEAN,
         activate(J, single),
         \A i, j \in J : i.type = j.type /\ i.seq = j.seq => i = j,
         \A j \in J : j.type \in CompletionTypes \
                         {"childWorkflowComplete", "nexusOperationComplete"}
                       => j.seq \in outstanding[j.type],
         \A j \in J : j.type = "childWorkflowComplete" =>
           \/ j.seq \in outstanding["childWorkflowComplete"]
           \/ \E i \in J : i.type = "childWorkflowStart" /\ i.seq = j.seq /\ i.result = "started",
         \A j \in J : j.type = "nexusOperationComplete" =>
           /\ j.seq \in outstanding["nexusOperationStart"]
                        \cup outstanding["nexusOperationComplete"]
           /\ \A i \in J : i.type = "nexusOperationStart" /\ i.seq = j.seq => i.result = "started"
  PROVE  CoreInv'
  <1>0. TypeOK BY Zenon DEF CoreInv
  <1>1. UNCHANGED <<activatorVars, cancelRequested, issued, settled, microtasks, coreVars>>
        /\ phase' = "jobs"
    BY Zenon DEF activate
  <1>2. /\ singleBatch' \in BOOLEAN /\ jobs' \cup laterJobs' = J
        /\ laterJobs' # {} => jobs' \subseteq {SignalJob}
    BY Zenon DEF activate
  <1>3. TypeOK'
    BY <1>0, <1>1, <1>2, Zenon DEF TypeOK, Phases, activatorVars, coreVars
  <1>4. JobsAnswer' BY ZenonT(60), <1>1, <1>2 DEF JobsAnswer, Answering, coreVars
  <1>5. LoopShape' BY ZenonT(60), <1>1 DEF CoreInv, LoopShape, activatorVars
  <1>6. \A c, k : Buffered(c, k)' = Buffered(c, k)
    <2>1. commands' = commands BY Zenon, <1>1 DEF activatorVars
    <2> QED BY Zenon, <2>1, BufferedSame
  <1>7. RejectedChildren' = RejectedChildren BY Zenon, <1>1 DEF RejectedChildren
  <1> QED BY <1>1, <1>3, <1>4, <1>5, <1>6, <1>7, FrameKeeps, Zenon DEF activatorVars, coreVars

\* What Core's answers look like.
LEMMA AnswersOfCore ==
  ASSUME TypeOK, NEW i \in CoreAnswers
  PROVE  /\ i \in Answer
         /\ i = [type |-> i.type, seq |-> i.seq, result |-> i.result]
         /\ \/ i.seq \in outstanding[i.type]
            \/ i.type = "childWorkflowComplete" /\ i.seq \in outstanding["childWorkflowStart"]
            \/ i.type = "nexusOperationComplete" /\ i.seq \in outstanding["nexusOperationStart"]
         /\ i.type = "nexusOperationStart" => i.result \in {"settled", "started"}
  <1>1. ASSUME NEW t \in CompletionTypes, NEW n \in outstanding[t], NEW r \in Results(t),
               i = [type |-> t, seq |-> n, result |-> r]
        PROVE  /\ i \in Answer
               /\ i = [type |-> i.type, seq |-> i.seq, result |-> i.result]
               /\ i.seq \in outstanding[i.type]
               /\ i.type = "nexusOperationStart" => i.result \in {"settled", "started"}
    <2>1. r \in {"settled", "started", "backoff"} /\ n \in Seqs BY Zenon DEF Results, TypeOK
    <2>2. i.type = t /\ i.seq = n /\ i.result = r BY <1>1, Zenon
    <2>3. t = "nexusOperationStart" => r \in {"settled", "started"} BY Zenon DEF Results
    <2>4. i \in Answer BY Zenon, <1>1, <2>1 DEF Answer
    <2> QED BY <1>1, <2>2, <2>3, <2>4, Zenon
  <1>2. ASSUME NEW n \in outstanding["childWorkflowStart"],
               i = [type |-> "childWorkflowComplete", seq |-> n, result |-> "settled"]
        PROVE  /\ i \in Answer
               /\ i = [type |-> i.type, seq |-> i.seq, result |-> i.result]
               /\ i.type = "childWorkflowComplete" /\ i.seq \in outstanding["childWorkflowStart"]
    BY <1>2, Zenon DEF Answer, TypeOK, CompletionTypes
  <1>3. ASSUME NEW n \in outstanding["nexusOperationStart"],
               i = [type |-> "nexusOperationComplete", seq |-> n, result |-> "settled"]
        PROVE  /\ i \in Answer
               /\ i = [type |-> i.type, seq |-> i.seq, result |-> i.result]
               /\ i.type = "nexusOperationComplete" /\ i.seq \in outstanding["nexusOperationStart"]
    BY Zenon, <1>3 DEF Answer, TypeOK, CompletionTypes
  <1>4. \/ \E t \in CompletionTypes : \E n \in outstanding[t], r \in Results(t) :
             i = [type |-> t, seq |-> n, result |-> r]
        \/ \E n \in outstanding["childWorkflowStart"] :
             i = [type |-> "childWorkflowComplete", seq |-> n, result |-> "settled"]
        \/ \E n \in outstanding["nexusOperationStart"] :
             i = [type |-> "nexusOperationComplete", seq |-> n, result |-> "settled"]
    <2>1. \/ \E t \in CompletionTypes : i \in AnswersTo(t)
          \/ i \in Unstarted("childWorkflowComplete", "childWorkflowStart")
          \/ i \in Unstarted("nexusOperationComplete", "nexusOperationStart")
      BY Zenon DEF CoreAnswers
    <2> QED BY <2>1 DEF AnswersTo, Unstarted
  <1> QED BY Zenon, <1>1, <1>2, <1>3, <1>4

\* An activation brings only jobs that answer what Core owes.
LEMMA ActivationsKeep ==
  ASSUME CoreInv, firstActivation \/ nextActivation
  PROVE  CoreInv'
  <1>0. TypeOK BY Zenon DEF CoreInv
  <1>1. CASE firstActivation
    <2> PICK E \in SUBSET {SignalJob, CancelJob}, single \in BOOLEAN :
               activate(E \cup {InitializeJob}, single)
      BY ZenonT(60), <1>1 DEF firstActivation
    <2> DEFINE J == E \cup {InitializeJob}
    <2>1. J \in SUBSET Job
      BY DEF Job, Event, SignalJob, CancelJob, InitializeJob
    <2>2. /\ \A j \in J : j.type \in {"signal", "cancel", "initialize"}
          /\ \A i, j \in J : i.type = j.type => i = j
      BY DEF SignalJob, CancelJob, InitializeJob
    <2>3. \A j \in J : j.type \notin CompletionTypes BY <2>2, Zenon DEF CompletionTypes
    <2>4. \A j \in J : j.type # "childWorkflowComplete" /\ j.type # "nexusOperationComplete"
      BY <2>2, Zenon
    <2>5. activate(J, single) /\ phase \in {"new", "idle"} BY Zenon, <1>1 DEF firstActivation
    <2> HIDE DEF J
    <2> QED BY <2>1, <2>2, <2>3, <2>4, <2>5, ActivateKeeps, Zenon
  <1>2. CASE nextActivation
    <2> PICK A \in SUBSET CoreAnswers, single \in BOOLEAN,
             E \in SUBSET ({SignalJob} \cup IF cancelled THEN {} ELSE {CancelJob}) :
               CoreMaySend(A) /\ activate(A \cup E, single)
      BY Zenon, <1>2 DEF nextActivation
    <2> DEFINE J == A \cup E
    <2>1. /\ \A j \in E : j.type \in {"signal", "cancel"} /\ j \in Job
          /\ \A i, j \in E : i.type = j.type => i = j
      BY DEF SignalJob, CancelJob, Job, Event
    <2>2. \A j \in E : j.type \notin CompletionTypes BY <2>1, Zenon DEF CompletionTypes
    <2>3. \A j \in A : j \in Answer /\ j.type \in CompletionTypes
      BY <1>0, AnswersOfCore, Zenon DEF Answer
    <2>4. J \in SUBSET Job BY Zenon, <2>1, <2>3 DEF Job
    <2>5. \A i, j \in J : i.type = j.type /\ i.seq = j.seq => i = j
      BY <2>1, <2>2, <2>3, Zenon DEF CoreMaySend
    <2>6. \A j \in J : j.type \in CompletionTypes => j \in A BY <2>2, Zenon
    <2>7. \A j \in J : j.type \in CompletionTypes \
                          {"childWorkflowComplete", "nexusOperationComplete"}
                        => j.seq \in outstanding[j.type]
      BY <1>0, <2>6, AnswersOfCore, Zenon
    <2>8. {"childWorkflowComplete", "nexusOperationStart", "nexusOperationComplete"}
            \subseteq CompletionTypes
      BY Zenon DEF CompletionTypes
    <2>9. ASSUME NEW j \in J, j.type = "childWorkflowComplete"
          PROVE  \/ j.seq \in outstanding["childWorkflowComplete"]
                 \/ \E i \in J : i.type = "childWorkflowStart" /\ i.seq = j.seq /\ i.result = "started"
      <3>1. j \in A BY <2>6, <2>8, <2>9, Zenon
      <3>2. CASE j.seq \in outstanding["childWorkflowStart"]
        <4> DEFINE i == [type |-> "childWorkflowStart", seq |-> j.seq, result |-> "started"]
        <4>1. i \in A BY <2>9, <3>1, <3>2, Zenon DEF CoreMaySend
        <4>2. i.type = "childWorkflowStart" /\ i.seq = j.seq /\ i.result = "started" BY Zenon
        <4> QED BY <4>1, <4>2, Zenon
      <3> QED BY <1>0, <2>9, <3>1, <3>2, AnswersOfCore, Zenon
    <2>10. ASSUME NEW j \in J, j.type = "nexusOperationComplete"
           PROVE  /\ j.seq \in outstanding["nexusOperationStart"]
                                \cup outstanding["nexusOperationComplete"]
                  /\ \A i \in J : i.type = "nexusOperationStart" /\ i.seq = j.seq
                                   => i.result = "started"
      <3>1. j \in A BY <2>6, <2>8, <2>10, Zenon
      <3>2. j.seq \in outstanding["nexusOperationStart"] \cup outstanding["nexusOperationComplete"]
        BY <1>0, <2>10, <3>1, AnswersOfCore, Zenon
      <3>3. ASSUME NEW i \in J, i.type = "nexusOperationStart", i.seq = j.seq
            PROVE  i.result = "started"
        <4>1. i \in A BY <2>6, <2>8, <3>3, Zenon
        <4>2. i = [type |-> "nexusOperationStart", seq |-> j.seq, result |-> i.result]
              /\ i.result \in {"settled", "started"}
          BY <1>0, <3>3, <4>1, AnswersOfCore, Zenon
        <4>3. [type |-> "nexusOperationStart", seq |-> j.seq, result |-> "settled"] \notin A
          BY <2>10, <3>1, Zenon DEF CoreMaySend
        <4> QED BY <4>1, <4>2, <4>3, Zenon
      <3> QED BY <3>2, <3>3, Zenon
    <2>11. activate(J, single) /\ phase \in {"new", "idle"} BY <1>2, Zenon DEF nextActivation
    <2> HIDE DEF J
    <2> QED BY Zenon, <2>4, <2>5, <2>7, <2>9, <2>10, <2>11, ActivateKeeps
  <1> QED BY <1>1, <1>2, Zenon

\* Core takes the buffer: what was buffered becomes what it owes.
LEMMA ConcludeKeeps ==
  ASSUME CoreInv, concludeActivation
  PROVE  CoreInv'
  <1>0. /\ TypeOK /\ commands' = <<>> /\ CoreTakes /\ jobs = {} /\ laterJobs = {}
        /\ microtasks = {}
        /\ UNCHANGED <<nextSeqs, completions, settled, microtasks, jobs, laterJobs, error>>
    BY Zenon DEF CoreInv, LoopShape, concludeActivation
  <1> DEFINE B(k) == Buffered("start", k)
             U(t) == UNION {Buffered("start", k) : k \in {i \in Kinds : StartType(i) = t}}
  <1>1. \A c, k : Buffered(c, k)' = {}
    BY <1>0 DEF Buffered
  <1>2. \A t \in CompletionTypes : outstanding'[t] =
          IF t = "timer" THEN (outstanding[t] \cup U(t)) \ Buffered("cancel", "timer")
                         ELSE outstanding[t] \cup U(t)
    BY Zenon, <1>0 DEF CoreTakes, CompletionTypes
  <1>3. /\ \A k \in Kinds : U(StartType(k)) = B(k)
        /\ U("childWorkflowComplete") = {} /\ U("nexusOperationComplete") = {}
    <2>1. ASSUME NEW k \in Kinds PROVE {i \in Kinds : StartType(i) = StartType(k)} = {k}
      BY StartTypes, Zenon
    <2>2. /\ {i \in Kinds : StartType(i) = "childWorkflowComplete"} = {}
          /\ {i \in Kinds : StartType(i) = "nexusOperationComplete"} = {}
      BY StartTypes, Zenon
    <2> QED BY <2>1, <2>2, Zenon
  <1> HIDE DEF U
  <1>4. /\ \A k \in Kinds \ {"timer"} : outstanding'[StartType(k)] = outstanding[StartType(k)] \cup B(k)
        /\ outstanding'["timer"] =
             (outstanding["timer"] \cup B("timer")) \ Buffered("cancel", "timer")
        /\ outstanding'["childWorkflowComplete"] = outstanding["childWorkflowComplete"]
        /\ outstanding'["nexusOperationComplete"] = outstanding["nexusOperationComplete"]
    <2>1. /\ \A k \in Kinds \ {"timer"} : StartType(k) \in CompletionTypes /\ StartType(k) # "timer"
          /\ "timer" \in Kinds /\ StartType("timer") = "timer"
      BY StartTypes, Zenon DEF Kinds
    <2>2. {"timer", "childWorkflowComplete", "nexusOperationComplete"} \subseteq CompletionTypes
      BY Zenon DEF CompletionTypes
    <2> QED BY Zenon, <1>2, <1>3, <2>1, <2>2
  <1>5. TypeOK'
    <2>1. \A k \in Kinds : B(k) \subseteq Seqs /\ Buffered("cancel", k) \subseteq Seqs
      BY <1>0, BufferedType, Zenon DEF TypeOK
    <2>2. \A t \in CompletionTypes : U(t) \subseteq Seqs BY <2>1, Zenon DEF U
    <2>3. outstanding' \in [CompletionTypes -> SUBSET Seqs]
      <3> DEFINE started == [t \in CompletionTypes |-> outstanding[t] \cup U(t)]
      <3>1. started \in [CompletionTypes -> SUBSET Seqs] BY <1>0, <2>2, Zenon DEF TypeOK
      <3>2. outstanding' = [started EXCEPT !["timer"] = @ \ Buffered("cancel", "timer")]
        BY <1>0, Zenon DEF CoreTakes, U
      <3> HIDE DEF started
      <3>3. started["timer"] \ Buffered("cancel", "timer") \in SUBSET Seqs
        BY <3>1, Zenon DEF CompletionTypes
      <3> QED BY Zenon, <3>1, <3>2, <3>3
    <2>4. cancelSent' \in SUBSET (Kinds \X Seqs)
      <3>1. \A k \in Kinds : {k} \X Buffered("cancel", k) \subseteq Kinds \X Seqs BY <2>1, Zenon
      <3> QED BY <1>0, <3>1 DEF CoreTakes, TypeOK
    <2>5. commands' \in Seq(Command) BY <1>0
    <2> QED BY <1>0, <2>3, <2>4, <2>5, Zenon DEF TypeOK, concludeActivation, Phases
  <1>6. Numbered'
    <2>1. ASSUME NEW k \in Kinds, NEW t \in AnswerTypes(k),
                 NEW x \in outstanding'[t] \cup completions'[t]
          PROVE  x < nextSeqs'[k]
      <3>1. x \in outstanding[t] \cup completions[t] \cup B(k)
        <4>1. CASE t = StartType(k) BY Zenon, <4>1, <1>0, <1>4, StartTypes
        <4>2. CASE t \in {"childWorkflowComplete", "nexusOperationComplete"}
          BY ZenonT(60), <4>2, <1>0, <1>4
        <4> QED BY Zenon, <4>1, <4>2, AnswerTypesOf
      <3> QED BY Zenon, <1>0, <3>1 DEF CoreInv, Numbered
    <2> QED BY Zenon, <1>1, <2>1 DEF Numbered
  <1>7. OneStage'
    <2>1. {"childWorkflow", "nexusOperation"} \subseteq Kinds \ {"timer"} BY Zenon DEF Kinds
    <2>2. /\ outstanding'["childWorkflowStart"] = outstanding["childWorkflowStart"] \cup B("childWorkflow")
          /\ outstanding'["nexusOperationStart"] = outstanding["nexusOperationStart"] \cup B("nexusOperation")
      BY Zenon, <1>4, <2>1, StartTypes
    <2>3. /\ B("childWorkflow") \cap outstanding["childWorkflowComplete"] = {}
          /\ B("nexusOperation") \cap outstanding["nexusOperationComplete"] = {}
      BY Zenon, <2>1 DEF CoreInv, OneStage, AnswerTypes
    <2> QED BY <1>1, <1>4, <2>2, <2>3, Zenon DEF CoreInv, OneStage
  <1>8. StartsAgree' /\ TimersAgree' /\ NexusAgree'
    BY Zenon, <1>0, <1>1, <1>4 DEF CoreInv, StartsAgree, TimersAgree, NexusAgree
  <1>9. ChildrenAgree'
    <2>1. "childWorkflow" \in Kinds \ {"timer"} BY Zenon DEF Kinds
    <2>2. LiveChildren' = LiveChildren BY Zenon, <1>1, <1>4, <2>1, StartTypes DEF LiveChildren
    <2>3. RejectedChildren' = RejectedChildren BY Zenon, <1>0 DEF RejectedChildren
    <2> QED BY <1>0, <2>2, <2>3, Zenon DEF CoreInv, ChildrenAgree
  <1>10. JobsAnswer' /\ LoopShape'
    BY Zenon, <1>0 DEF CoreInv, JobsAnswer, Answering, LoopShape
  <1> QED BY <1>5, <1>6, <1>7, <1>8, <1>9, <1>10, Zenon DEF CoreInv

\* The rest of the loop moves the phase and the batches.
LEMMA LoopKeeps == CoreInv /\ Loop => CoreInv'
  <1> SUFFICES ASSUME CoreInv, Loop PROVE CoreInv' BY Zenon
  <1>0. TypeOK BY Zenon DEF CoreInv
  <1>1. CASE concludeActivation BY <1>1, ConcludeKeeps, Zenon
  <1>2. CASE handlerReturns \/ batchReturns \/ failActivation \/ nextBatch
    <2>1. UNCHANGED <<activatorVars, cancelRequested, issued, settled, microtasks, singleBatch,
                      coreVars>>
      BY Zenon, <1>2 DEF handlerReturns, batchReturns, failActivation, nextBatch
    <2>2. TypeOK'
      BY <1>0, <1>2, <2>1, Zenon DEF handlerReturns, batchReturns, failActivation, nextBatch, TypeOK,
                              Phases, activatorVars, coreVars
    <2>3. JobsAnswer'
      <3>1. CASE ~nextBatch
        <4>1. UNCHANGED <<jobs, laterJobs, outstanding>>
          BY <1>2, <2>1, <3>1, Zenon DEF handlerReturns, batchReturns, failActivation, coreVars
        <4>2. JobsAnswer BY Zenon DEF CoreInv
        <4> QED BY <4>1, <4>2, JobsSame, Zenon
      <3>2. CASE nextBatch
        <4>1. jobs' = laterJobs /\ laterJobs' = {} /\ jobs = {}
          BY <3>2, Zenon DEF nextBatch, CoreInv, LoopShape
        <4> DEFINE J == jobs \cup laterJobs
        <4>2. J' = J BY <4>1, Zenon
        <4>3. Answering(J) BY Zenon DEF CoreInv, JobsAnswer
        <4> HIDE DEF J
        <4>4. Answering(J)' BY ZenonT(60), <2>1, <4>2, <4>3 DEF Answering, coreVars
        <4> QED BY <4>1, <4>4, Zenon DEF JobsAnswer, J
      <3> QED BY Zenon, <3>1, <3>2
    <2>4. LoopShape'
      BY <1>2, <2>1, Zenon DEF CoreInv, LoopShape, handlerReturns, batchReturns, failActivation,
                        nextBatch, activatorVars
    <2>5. \A c, k : Buffered(c, k)' = Buffered(c, k) BY Zenon, <2>1, BufferedSame DEF activatorVars
    <2>6. RejectedChildren' = RejectedChildren BY <2>1, Zenon DEF RejectedChildren
    <2> QED BY Zenon, <2>1, <2>2, <2>3, <2>4, <2>5, <2>6, FrameKeeps DEF activatorVars, coreVars
  <1> QED BY <1>1, <1>2, Zenon DEF Loop

\* CoreInv is inductive.
LEMMA NextCore == CoreInv /\ [Next]_vars => CoreInv'
  <1> SUFFICES ASSUME CoreInv, [Next]_vars PROVE CoreInv' BY Zenon
  <1>1. CASE firstActivation \/ nextActivation BY <1>1, ActivationsKeep, Zenon
  <1>2. CASE WorkflowCode BY <1>2, OperationsKeep, OtherCodeKeeps, Zenon DEF WorkflowCode
  <1>3. CASE RunMicrotask BY <1>3, MicrotasksKeep, Zenon
  <1>4. CASE HandleJob BY Zenon, <1>4, JobsKeep
  <1>5. CASE Loop BY <1>5, LoopKeeps, Zenon
  <1>6. CASE UNCHANGED vars
    <2>1. \A c, k : Buffered(c, k)' = Buffered(c, k) BY Zenon, <1>6, BufferedSame DEF vars
    <2>2. RejectedChildren' = RejectedChildren BY ZenonT(60), <1>6 DEF vars, RejectedChildren
    <2>3. TypeOK' BY Zenon, <1>6 DEF CoreInv, TypeOK, vars
    <2>4. JobsAnswer' /\ LoopShape' BY Zenon, <1>6 DEF CoreInv, JobsAnswer, Answering, LoopShape, vars
    <2> QED BY Zenon, <1>6, <2>1, <2>2, <2>3, <2>4, FrameKeeps DEF vars
  <1> QED BY <1>1, <1>2, <1>3, <1>4, <1>5, <1>6, Zenon DEF Next, Evicted

\* The inductive invariant holds in every execution.
LEMMA CoreInvariant == Spec => []CoreInv
  BY InitCore, NextCore, PTL DEF Spec

\* The state of the Activator has its type, for every set of operations and scopes and
\* every bound.
THEOREM ActivatorTypeCorrect == Spec => []TypeOK
  <1>1. CoreInv => TypeOK BY Zenon DEF CoreInv
  <1> QED BY <1>1, CoreInvariant, PTL

\* consumeCompletion never throws: every job of every activation finds the completion it
\* consumes, whatever workflow code starts, cancels and in which scopes, for any number of
\* operations, jobs and backoffs.
THEOREM NoCompletionMissing == Spec => []NoIllegalState
  <1>1. CoreInv => NoIllegalState BY Zenon DEF CoreInv, LoopShape, NoIllegalState
  <1> QED BY <1>1, CoreInvariant, PTL

\* Between activations the completions maps hold exactly what Core still owes.
THEOREM CompletionsAgreeWithCore == Spec => []AgreesWithCore
  <1>1. CoreInv => AgreesWithCore
    <2> SUFFICES ASSUME CoreInv, phase = "idle"
                 PROVE  /\ \A t \in CompletionTypes \ {"childWorkflowComplete"} :
                             completions[t] = outstanding[t]
                        /\ completions["childWorkflowComplete"] \ settled["childWorkflowComplete"]
                             = outstanding["childWorkflowStart"]
                                 \cup outstanding["childWorkflowComplete"]
      BY Zenon DEF AgreesWithCore
    <2>1. commands = <<>> /\ microtasks = {} BY Zenon DEF CoreInv, LoopShape
    <2>2. \A c, k : Buffered(c, k) = {} BY <2>1, BufferedEmpty, Zenon
    <2>3. RejectedChildren = {} BY <2>1, Zenon DEF RejectedChildren
    <2>4. \A k \in Kinds \ {"timer"} : completions[StartType(k)] = outstanding[StartType(k)]
      BY Zenon, <2>2 DEF CoreInv, StartsAgree
    <2>5. completions["timer"] = outstanding["timer"] BY <2>2, Zenon DEF CoreInv, TimersAgree
    <2>6. completions["nexusOperationComplete"] = outstanding["nexusOperationComplete"]
      BY Zenon DEF CoreInv, NexusAgree
    <2>7. \A t \in CompletionTypes \ {"childWorkflowComplete"} : completions[t] = outstanding[t]
      <3>1. /\ completions["activity"] = outstanding["activity"]
            /\ completions["childWorkflowStart"] = outstanding["childWorkflowStart"]
            /\ completions["signalWorkflow"] = outstanding["signalWorkflow"]
            /\ completions["cancelWorkflow"] = outstanding["cancelWorkflow"]
            /\ completions["nexusOperationStart"] = outstanding["nexusOperationStart"]
        BY Zenon, <2>4, StartTypes DEF Kinds
      <3> QED BY Zenon, <2>5, <2>6, <3>1 DEF CompletionTypes
    <2>8. completions["childWorkflowComplete"] \ settled["childWorkflowComplete"]
            = outstanding["childWorkflowStart"] \cup outstanding["childWorkflowComplete"]
      BY <2>2, <2>3, Zenon DEF CoreInv, ChildrenAgree, LiveChildren
    <2> QED BY <2>7, <2>8, Zenon
  <1> QED BY <1>1, CoreInvariant, PTL

(***************************************************************************)
(* Promises: every operation that got a number has its promise settled, an *)
(* entry in the completions, or a queued callback that rejects it.         *)
(***************************************************************************)

\* The operations of kind k whose promise a queued callback will reject.
Rejecting(k) == {m.op.seq : m \in {i \in microtasks : i.act = "reject" /\ i.op.kind = k}}

\* No operation is forgotten.
PromisesKept ==
  \A k \in Kinds : \A n \in 1 .. nextSeqs[k] - 1 :
    n \in settled[StartType(k)] \cup completions[StartType(k)] \cup Rejecting(k)

\* Nothing is numbered before the workflow starts.
LEMMA InitPromises == Init => PromisesKept
  BY DEF Init, PromisesKept

\* A step that numbers nothing keeps the promises it drops from the maps, or settles them.
LEMMA SettledKeeps ==
  ASSUME PromisesKept, UNCHANGED nextSeqs,
         \A k \in Kinds : settled[StartType(k)] \cup completions[StartType(k)]
                            \subseteq settled'[StartType(k)] \cup completions'[StartType(k)],
         \A k \in Kinds : Rejecting(k) \subseteq Rejecting(k)' \cup settled'[StartType(k)]
  PROVE  PromisesKept'
  BY Zenon DEF PromisesKept

\* A rejection stays queued until it runs.
LEMMA RejectingGrows ==
  ASSUME NEW k, \A m \in microtasks : m.act = "reject" => m \in microtasks'
  PROVE  Rejecting(k) \subseteq Rejecting(k)'
  BY Zenon DEF Rejecting

\* An operation that gets a number has an entry, or a rejection is queued for it.
LEMMA NumberedKeeps ==
  ASSUME TypeOK, PromisesKept, NEW k \in Kinds, nextSeqs' = [nextSeqs EXCEPT ![k] = @ + 1],
         \A m \in microtasks : m.act = "reject" => m \in microtasks',
         \A i \in Kinds : completions[StartType(i)] \subseteq completions'[StartType(i)],
         UNCHANGED settled,
         nextSeqs[k] \in completions'[StartType(k)] \cup Rejecting(k)'
  PROVE  PromisesKept'
  <1> SUFFICES ASSUME NEW i \in Kinds, NEW n \in 1 .. nextSeqs'[i] - 1
               PROVE  n \in settled'[StartType(i)] \cup completions'[StartType(i)] \cup Rejecting(i)'
    BY Zenon DEF PromisesKept
  <1>1. nextSeqs[i] \in Nat /\ nextSeqs'[i] = IF i = k THEN nextSeqs[i] + 1 ELSE nextSeqs[i]
    BY DEF TypeOK, Seqs
  <1>2. n \in 1 .. nextSeqs[i] - 1 \/ (i = k /\ n = nextSeqs[k]) BY <1>1
  <1> QED BY <1>2, RejectingGrows, Zenon DEF PromisesKept

\* Start, in a cancelled scope or not.
LEMMA StartPromises ==
  ASSUME TypeOK, PromisesKept, NEW k \in Kinds, NEW s, NEW role, NEW always, NEW queue,
         \A m \in microtasks : m.act = "reject" => m \in queue,
         Start(k, s, role, {StartType(k)}, always, queue)
  PROVE  PromisesKept'
  <1> DEFINE op == [kind |-> k, seq |-> nextSeqs[k], scope |-> s, role |-> role]
  <1>1. nextSeqs[k] \in completions'[StartType(k)] \cup Rejecting(k)'
    <2>1. CASE consideredCancelled(s)
      <3>1. [act |-> "reject", op |-> op] \in microtasks' BY <2>1, Zenon DEF Start
      <3>2. /\ [act |-> "reject", op |-> op].act = "reject"
            /\ [act |-> "reject", op |-> op].op.kind = k
            /\ [act |-> "reject", op |-> op].op.seq = nextSeqs[k]
        BY Zenon
      <3> QED BY <3>1, <3>2, Zenon DEF Rejecting
    <2>2. CASE ~consideredCancelled(s) BY <2>2, StartTypes, Zenon DEF Start, Put
    <2> QED BY <2>1, <2>2, Zenon
  <1>2. \A i \in Kinds : completions[StartType(i)] \subseteq completions'[StartType(i)]
    BY StartTypes, Zenon DEF Start, Put
  <1>3. \A m \in microtasks : m.act = "reject" => m \in microtasks' BY Zenon DEF Start
  <1> QED BY <1>1, <1>2, <1>3, NumberedKeeps, Zenon DEF Start

\* What workflow code does.
LEMMA CodePromises ==
  ASSUME TypeOK, PromisesKept, WorkflowCode
  PROVE  PromisesKept'
  <1>1. ASSUME NEW s \in Scopes,
               \/ sleep(s) \/ scheduleActivity(s) \/ scheduleLocalActivity(s) \/ startChild(s)
               \/ signalExternal(s) \/ startNexusOperation(s)
        PROVE  PromisesKept'
    BY <1>1, StartPromises, StartTypes, Zenon
       DEF Kinds, sleep, scheduleActivity, scheduleLocalActivity, startChild, signalExternal,
           startNexusOperation
  <1>2. ASSUME NEW s \in Scopes, cancelExternal(s) PROVE PromisesKept'
    <2>1. /\ \A i \in Kinds : completions[StartType(i)] \subseteq completions'[StartType(i)]
          /\ nextSeqs["cancelWorkflow"] \in completions'["cancelWorkflow"]
      BY <1>2, StartTypes, Zenon DEF cancelExternal, Put, CompletionTypes
    <2> QED BY <1>2, <2>1, StartTypes, NumberedKeeps, Zenon DEF cancelExternal, Kinds
  <1>3. ASSUME \/ \E s \in Scopes : cancelScope(s)
               \/ \E t \in Terminals : endWorkflow(t)
               \/ recordWorkflowTaskError
        PROVE  PromisesKept'
    <2>1. UNCHANGED <<nextSeqs, settled, completions>>
      BY <1>3, Zenon DEF cancelScope, endWorkflow, recordWorkflowTaskError, activatorVars
    <2>2. \A m \in microtasks : m \in microtasks'
      BY <1>3, Zenon DEF cancelScope, Cancel, endWorkflow, recordWorkflowTaskError
    <2> QED BY <2>1, <2>2, RejectingGrows, SettledKeeps, Zenon
  <1> QED BY <1>1, <1>2, <1>3, Zenon DEF WorkflowCode

\* The callbacks settle what they drop, and the rejection of a promise settles it.
LEMMA MicrotasksPromises ==
  ASSUME TypeOK, PromisesKept, NEW m \in microtasks,
         \/ onCancelTimer(m) \/ onCancelOperation(m) \/ onCancelExternal(m)
         \/ rejectUnscheduled(m) \/ localActivityBackoff(m) \/ localActivityRetry(m)
  PROVE  PromisesKept'
  <1>1. CASE localActivityBackoff(m) \/ localActivityRetry(m)
    <2>1. \A i \in microtasks : i.act = "reject" => i \in microtasks \ {m}
      BY <1>1, Zenon DEF localActivityBackoff, localActivityRetry
    <2> QED BY <1>1, <2>1, StartPromises, StartTypes, Zenon
            DEF Kinds, localActivityBackoff, localActivityRetry
  <1>2. CASE onCancelTimer(m) \/ onCancelOperation(m) \/ onCancelExternal(m)
    <2>1. \A i \in microtasks : i.act = "reject" => i \in microtasks'
      BY <1>2, Zenon DEF onCancelTimer, onCancelOperation, onCancelExternal, Runs
    <2>2. UNCHANGED nextSeqs
      BY <1>2, Zenon DEF onCancelTimer, onCancelOperation, onCancelExternal
    <2>3. \A t \in CompletionTypes :
            settled[t] \cup completions[t] \subseteq settled'[t] \cup completions'[t]
      BY <1>2, Zenon DEF onCancelTimer, onCancelOperation, onCancelExternal, Put, Drop
    <2> QED BY <2>1, <2>2, <2>3, StartTypes, RejectingGrows, SettledKeeps, Zenon
  <1>3. CASE rejectUnscheduled(m)
    <2>1. /\ UNCHANGED <<nextSeqs, completions>> /\ microtasks' = microtasks \ {m}
          /\ settled' = Put(settled, PromisesOf(m.op.kind), m.op.seq)
      BY <1>3, Zenon DEF rejectUnscheduled
    <2>2. \A t \in CompletionTypes : settled[t] \subseteq settled'[t] BY <2>1, Zenon DEF Put
    <2>3. \A k \in Kinds : StartType(k) \in PromisesOf(k)
      BY DEF StartType, PromisesOf, Kinds
    <2>4. \A k \in Kinds : Rejecting(k) \subseteq Rejecting(k)' \cup settled'[StartType(k)]
      BY <2>1, <2>3, StartTypes, Zenon DEF Put, Rejecting
    <2> QED BY <2>1, <2>2, <2>4, StartTypes, SettledKeeps, Zenon
  <1> QED BY <1>1, <1>2, <1>3, Zenon

\* A job settles the promise whose entry it takes.
LEMMA JobsPromises ==
  ASSUME PromisesKept, HandleJob
  PROVE  PromisesKept'
  <1>1. UNCHANGED nextSeqs
    BY Zenon DEF HandleJob, fireTimer, resolveActivity, resolveChildWorkflowExecutionStart,
           resolveChildWorkflowExecution, resolveNexusOperationStart, resolveNexusOperation,
           resolveSignalExternalWorkflow, resolveRequestCancelExternalWorkflow, ConsumeAndSettle,
           HandlesAnswer, cancelWorkflow, signalWorkflow, startWorkflow, CallsWorkflowCode, Handles
  <1>2. microtasks \subseteq microtasks'
    BY Zenon DEF HandleJob, fireTimer, resolveActivity, resolveChildWorkflowExecutionStart,
           resolveChildWorkflowExecution, resolveNexusOperationStart, resolveNexusOperation,
           resolveSignalExternalWorkflow, resolveRequestCancelExternalWorkflow, ConsumeAndSettle,
           throwIllegalState, cancelWorkflow, Cancel, signalWorkflow, startWorkflow,
           CallsWorkflowCode
  <1>3. ASSUME NEW t \in CompletionTypes
        PROVE  settled[t] \cup completions[t] \subseteq settled'[t] \cup completions'[t]
    <2> USE DEF Put, Drop, throwIllegalState
    <2>1. CASE \E j \in jobs : fireTimer(j) BY <2>1, Zenon DEF fireTimer
    <2>2. CASE \E j \in jobs : resolveActivity(j) BY <2>2 DEF resolveActivity
    <2>3. CASE \E j \in jobs : resolveChildWorkflowExecutionStart(j)
      BY <2>3 DEF resolveChildWorkflowExecutionStart
    <2>4. CASE \E j \in jobs, u \in CompletionTypes : ConsumeAndSettle(j, u)
      BY <2>4, Zenon DEF ConsumeAndSettle
    <2>5. CASE \E j \in jobs : resolveNexusOperationStart(j)
      BY <2>5 DEF resolveNexusOperationStart
    <2>6. CASE \E j \in jobs : resolveNexusOperation(j) BY <2>6, Zenon DEF resolveNexusOperation
    <2>7. CASE cancelWorkflow \/ signalWorkflow \/ startWorkflow
      BY <2>7, Zenon DEF cancelWorkflow, signalWorkflow, startWorkflow, CallsWorkflowCode
    <2> QED BY <2>1, <2>2, <2>3, <2>4, <2>5, <2>6, <2>7, Zenon
            DEF HandleJob, resolveChildWorkflowExecution, resolveSignalExternalWorkflow,
                resolveRequestCancelExternalWorkflow, CompletionTypes
  <1> QED BY <1>1, <1>2, <1>3, StartTypes, RejectingGrows, SettledKeeps, Zenon

\* PromisesKept is inductive, given the types.
LEMMA NextPromises == TypeOK /\ PromisesKept /\ [Next]_vars => PromisesKept'
  <1> SUFFICES ASSUME TypeOK, PromisesKept, [Next]_vars PROVE PromisesKept' BY Zenon
  <1>1. CASE firstActivation \/ nextActivation \/ Loop \/ UNCHANGED vars
    <2>1. UNCHANGED <<nextSeqs, settled, completions, microtasks>>
      BY <1>1, Zenon DEF firstActivation, nextActivation, activate, Loop, handlerReturns,
             batchReturns, failActivation, nextBatch, concludeActivation, activatorVars, vars
    <2> QED BY <2>1, RejectingGrows, SettledKeeps, Zenon
  <1>2. CASE WorkflowCode BY <1>2, CodePromises, Zenon
  <1>3. CASE RunMicrotask BY <1>3, MicrotasksPromises, Zenon DEF RunMicrotask
  <1>4. CASE HandleJob BY <1>4, JobsPromises, Zenon
  <1> QED BY <1>1, <1>2, <1>3, <1>4, Zenon DEF Next, Evicted

\* No promise hangs: between activations, whatever workflow code starts in whichever scope,
\* the promise of every operation is settled or waits for an answer of Core.
THEOREM PromisesDoNotHang == Spec => []NoPromiseHangs
  <1>1. ASSUME CoreInv, PromisesKept PROVE NoPromiseHangs
    <2> SUFFICES ASSUME phase = "idle" PROVE NoPromiseHangs BY Zenon DEF NoPromiseHangs
    <2>1. \A k \in Kinds : Rejecting(k) = {} BY <1>1, Zenon DEF CoreInv, LoopShape, Rejecting
    <2> QED BY <1>1, <2>1, Zenon DEF PromisesKept, NoPromiseHangs
  <1> QED BY <1>1, InitPromises, NextPromises, ActivatorTypeCorrect, CoreInvariant, PTL DEF Spec

(***************************************************************************)
(* Cancellation                                                            *)
(***************************************************************************)

\* A cancel command for operation n of kind k is in the buffer, or was.
HasCancel(k, n) == <<k, n>> \in cancelSent \/ n \in Buffered("cancel", k)

\* The operations scheduled have numbers of their own, and the completion entry of a
\* scheduled child is there only as long as the child is.
IssuedInv ==
  /\ \A o \in issued : o.seq < nextSeqs[o.kind]
  /\ \A o, p \in issued : o.kind = p.kind /\ o.seq = p.seq => o = p
  /\ \A o \in issued : o.kind = "childWorkflow" /\ o.seq \in completions["childWorkflowComplete"]
                         => o.seq \in LiveChildren

\* A callback of cancelRequested belongs to an operation that was scheduled in a scope
\* with a request, and has sent no cancel command yet.
CallbacksInv ==
  \A m \in microtasks : m.act = "cancel" =>
    /\ m.op \in issued /\ m.op.scope \in cancelRequested
    /\ ~HasCancel(m.op.kind, m.op.seq)

\* Only the callback of a scope with a request pushes a cancel command.
RequestedInv ==
  \A k \in Kinds, n \in Seqs : HasCancel(k, n) =>
    \E o \in issued : o.kind = k /\ o.seq = n /\ o.scope \in cancelRequested

\* Whether cancellation has nothing more to do for an operation.
Pending(o) == \E t \in AnswerTypes(o.kind) : o.seq \in completions[t]
Handled(o) == Pending(o) => o.kind # "timer" /\ HasCancel(o.kind, o.seq)

\* In a cancelled scope, every operation has its callback queued or behind it.
ReachedInv ==
  \A o \in issued : consideredCancelled(o.scope) /\ o.kind # "cancelWorkflow" =>
    [act |-> "cancel", op |-> o] \in microtasks \/ Handled(o)

\* A single batch has no jobs left when a callback can run.
BatchInv ==
  /\ laterJobs # {} => ~singleBatch
  /\ singleBatch /\ phase \in {"jobs", "handler"} => \A k \in Kinds : Buffered("cancel", k) = {}

CancelInv ==
  /\ IssuedInv /\ CallbacksInv /\ RequestedInv /\ ReachedInv /\ BatchInv
  /\ CancelOnceAfterStart /\ CancelTargetsLive

\* The completion types of each kind of operation, and those its callback looks at.
LEMMA TypesOfKinds ==
  /\ AnswerTypes("timer") = {"timer"}
  /\ AnswerTypes("activity") = {"activity"} /\ PendingTypes("activity") = {"activity"}
  /\ AnswerTypes("signalWorkflow") = {"signalWorkflow"}
  /\ PendingTypes("signalWorkflow") = {"signalWorkflow"}
  /\ AnswerTypes("childWorkflow") = {"childWorkflowStart", "childWorkflowComplete"}
  /\ PendingTypes("childWorkflow") = {"childWorkflowComplete"}
  /\ AnswerTypes("nexusOperation") = {"nexusOperationStart", "nexusOperationComplete"}
  /\ PendingTypes("nexusOperation") = {"nexusOperationStart", "nexusOperationComplete"}
  BY DEF AnswerTypes, StartType, PendingTypes

\* An operation Core has not answered is known to Core, or will be once it takes the buffer.
LEMMA PendingIsLive ==
  ASSUME CoreInv, NEW k \in Kinds \ {"cancelWorkflow"}, NEW n,
         n \in UNION {completions[t] : t \in AnswerTypes(k)},
         k = "childWorkflow" => n \in LiveChildren
  PROVE  n \in Buffered("start", k) \cup UNION {outstanding[t] : t \in AnswerTypes(k)}
  <1> USE TypesOfKinds, StartTypes
  <1>1. CASE k = "timer" BY <1>1 DEF CoreInv, TimersAgree
  <1>2. CASE k = "activity" BY <1>2 DEF CoreInv, StartsAgree, Kinds
  <1>3. CASE k = "signalWorkflow" BY <1>3 DEF CoreInv, StartsAgree, Kinds
  <1>4. CASE k = "childWorkflow" BY <1>4, Zenon DEF LiveChildren
  <1>5. CASE k = "nexusOperation" BY <1>5 DEF CoreInv, StartsAgree, NexusAgree, Kinds
  <1> QED BY <1>1, <1>2, <1>3, <1>4, <1>5, Zenon DEF Kinds

\* The callback of an operation other than a timer looks at enough: the entry of a child's
\* start is never there without that of its completion.
LEMMA PendingSeen ==
  ASSUME CoreInv, NEW k \in Kinds \ {"timer", "cancelWorkflow"}, NEW n
  PROVE  (\E t \in AnswerTypes(k) : n \in completions[t])
           <=> (\E t \in PendingTypes(k) : n \in completions[t])
  <1> USE TypesOfKinds, StartTypes
  <1>1. CASE k = "childWorkflow"
    <2>1. completions["childWorkflowStart"] \subseteq LiveChildren
      BY DEF CoreInv, StartsAgree, LiveChildren, Kinds
    <2>2. LiveChildren \subseteq completions["childWorkflowComplete"]
      BY Zenon DEF CoreInv, ChildrenAgree
    <2> QED BY <1>1, <2>1, <2>2, Zenon
  <1>2. CASE k \in {"activity", "signalWorkflow", "nexusOperation"} BY <1>2, Zenon
  <1> QED BY <1>1, <1>2, Zenon DEF Kinds

\* A command pushed to the buffer keeps the order there, if the operation it is about has no
\* cancel command yet.
LEMMA PushedInOrder ==
  ASSUME commands \in Seq(Command), NEW x \in Command, commands' = Append(commands, x),
         CancelOnceAfterStart, UNCHANGED cancelSent,
         x.cmd \in {"start", "cancel"} => ~HasCancel(x.kind, x.seq)
  PROVE  CancelOnceAfterStart'
  <1> DEFINE n == Len(commands)
  <1>1. /\ n \in Nat /\ DOMAIN commands = 1 .. n /\ DOMAIN commands' = 1 .. n + 1
        /\ \A i \in 1 .. n : commands'[i] = commands[i]
        /\ commands'[n + 1] = x
    OBVIOUS
  <1>2. \A i \in DOMAIN commands' : i \in DOMAIN commands \/ i = n + 1 BY <1>1
  <1>3. \A i \in DOMAIN commands : commands[i].cmd = "cancel"
          => HasCancel(commands[i].kind, commands[i].seq)
    BY Zenon DEF HasCancel, Buffered
  <1>4. \A k, m : Cmd("start", k, m).cmd = "start" /\ Cmd("start", k, m).kind = k
                    /\ Cmd("start", k, m).seq = m
    BY Zenon DEF Cmd
  <1> SUFFICES ASSUME NEW i \in DOMAIN commands', commands'[i].cmd = "cancel"
               PROVE  LET c == commands'[i]
                      IN  /\ <<c.kind, c.seq>> \notin cancelSent
                          /\ \A j \in DOMAIN commands' : commands'[j] = c => j = i
                          /\ \A j \in DOMAIN commands' :
                               commands'[j] = Cmd("start", c.kind, c.seq) => j < i
    BY Zenon DEF CancelOnceAfterStart
  <1> HIDE DEF n
  <1>5. CASE i \in DOMAIN commands
    <2> DEFINE c == commands[i]
    <2>1. commands'[i] = c /\ c.cmd = "cancel" /\ HasCancel(c.kind, c.seq) BY <1>1, <1>3, <1>5, Zenon
    <2>2. /\ <<c.kind, c.seq>> \notin cancelSent
          /\ \A j \in DOMAIN commands : commands[j] = c => j = i
          /\ \A j \in DOMAIN commands : commands[j] = Cmd("start", c.kind, c.seq) => j < i
      BY <1>5, <2>1, Zenon DEF CancelOnceAfterStart
    <2>3. x # c /\ x # Cmd("start", c.kind, c.seq) BY <1>4, <2>1
    <2> QED BY <1>1, <1>2, <2>1, <2>2, <2>3, Zenon
  <1>6. CASE i = n + 1
    <2>1. commands'[i] = x /\ ~HasCancel(x.kind, x.seq) BY <1>1, <1>6, Zenon
    <2>2. <<x.kind, x.seq>> \notin cancelSent BY <2>1, Zenon DEF HasCancel
    <2>3. ASSUME NEW j \in DOMAIN commands, commands'[j] = x PROVE FALSE
      <3>1. commands[j] = x BY <1>1, <2>3, Zenon
      <3>2. HasCancel(x.kind, x.seq) BY <1>3, <2>1, <3>1
      <3> QED BY <2>1, <3>2, Zenon
    <2>4. \A j \in DOMAIN commands : j < i BY <1>1, <1>6
    <2>5. x # Cmd("start", x.kind, x.seq) BY <1>4, <2>1
    <2> QED BY <1>2, <1>6, <2>1, <2>2, <2>3, <2>4, <2>5, Zenon
  <1> QED BY <1>2, <1>5, <1>6, Zenon

\* A step that pushes no command about an operation, schedules none and requests no
\* cancellation.
LEMMA OthersKeep ==
  ASSUME CancelInv, TypeOK,
         UNCHANGED <<issued, cancelRequested, cancelSent>>,
         \A k \in Kinds : nextSeqs[k] <= nextSeqs'[k] /\ nextSeqs'[k] \in Nat,
         \A k \in Kinds : Buffered("cancel", k)' = Buffered("cancel", k),
         \A m \in microtasks' : m.act = "cancel" => m \in microtasks,
         \A o \in issued : [act |-> "cancel", op |-> o] \in microtasks \ microtasks'
                             => ~Pending(o) \/ o.kind = "cancelWorkflow",
         \A o \in issued : Pending(o)' => Pending(o),
         \A o \in issued : o.kind = "childWorkflow"
                             /\ o.seq \in completions'["childWorkflowComplete"] =>
           /\ o.seq \in completions["childWorkflowComplete"]
           /\ o.seq \in LiveChildren => o.seq \in LiveChildren',
         BatchInv', CancelOnceAfterStart', CancelTargetsLive'
  PROVE  CancelInv'
  <1>1. \A o \in issued : o.kind \in Kinds /\ o.seq \in Nat BY Zenon DEF TypeOK, Op, Seqs
  <1>2. IssuedInv'
    <2>1. \A o \in issued : o.seq < nextSeqs[o.kind] BY Zenon DEF CancelInv, IssuedInv
    <2>2. \A k \in Kinds : nextSeqs[k] \in Nat BY DEF TypeOK, Seqs
    <2>3. \A o \in issued : o.seq < nextSeqs'[o.kind] BY <1>1, <2>1, <2>2
    <2> QED BY <2>3, Zenon DEF CancelInv, IssuedInv
  <1>3. \A k \in Kinds : \A n : HasCancel(k, n)' <=> HasCancel(k, n) BY Zenon DEF HasCancel
  <1>4. CallbacksInv' BY <1>1, <1>3, Zenon DEF CancelInv, CallbacksInv
  <1>5. RequestedInv' BY <1>3 DEF CancelInv, RequestedInv
  <1>6. \A o \in issued : ~Pending(o) \/ Handled(o) => Handled(o)' BY <1>1, <1>3, Zenon DEF Handled
  <1>7. ReachedInv' BY <1>6, Zenon DEF CancelInv, ReachedInv, consideredCancelled
  <1> QED BY <1>2, <1>4, <1>5, <1>7, Zenon DEF CancelInv

\* A step that leaves the buffer, Core and the scopes alone, and schedules nothing.
LEMMA QuietKeeps ==
  ASSUME CancelInv, TypeOK,
         UNCHANGED <<issued, cancelRequested, cancelSent, nextSeqs, completions, outstanding>>,
         \A c \in {"start", "cancel"}, k \in Kinds : Buffered(c, k)' = Buffered(c, k),
         \A m \in microtasks' : m.act = "cancel" => m \in microtasks,
         \A o \in issued : [act |-> "cancel", op |-> o] \in microtasks \ microtasks'
                             => ~Pending(o) \/ o.kind = "cancelWorkflow",
         BatchInv', CancelOnceAfterStart', UNCHANGED singleBatch \/ commands = <<>>
  PROVE  CancelInv'
  <1>1. \A k \in Kinds : nextSeqs[k] <= nextSeqs'[k] /\ nextSeqs'[k] \in Nat BY DEF TypeOK, Seqs
  <1>2. \A o \in issued : Pending(o)' => Pending(o) BY Zenon DEF Pending
  <1>3. LiveChildren' = LiveChildren BY Zenon DEF LiveChildren, Kinds
  <1>4. CancelTargetsLive'
    <2>1. CASE UNCHANGED singleBatch BY <2>1, Zenon DEF CancelInv, CancelTargetsLive
    <2>2. CASE commands = <<>>
      <3>1. \A k \in Kinds : Buffered("cancel", k)' = {} BY <2>2, BufferedEmpty, Zenon
      <3> QED BY <3>1, Zenon DEF CancelTargetsLive
    <2> QED BY <2>1, <2>2, Zenon
  <1> QED BY <1>1, <1>2, <1>3, <1>4, OthersKeep, Zenon

\* An untouched buffer is in order.
LEMMA OrderSame ==
  ASSUME CancelOnceAfterStart, UNCHANGED <<commands, cancelSent>>
  PROVE  CancelOnceAfterStart'
  BY Zenon DEF CancelOnceAfterStart

\* What a batch may assume stays true if the loop does not move.
LEMMA BatchSame ==
  ASSUME BatchInv, UNCHANGED <<laterJobs, singleBatch, phase>>,
         \A k \in Kinds : Buffered("cancel", k)' = Buffered("cancel", k)
  PROVE  BatchInv'
  BY Zenon DEF BatchInv

\* The next number is that of no operation, and no cancel command has it.
LEMMA NumberIsNew ==
  ASSUME CancelInv, TypeOK, NEW k \in Kinds
  PROVE  /\ \A o \in issued : o.kind = k => o.seq # nextSeqs[k]
         /\ ~HasCancel(k, nextSeqs[k])
  <1>1. \A o \in issued : o.seq < nextSeqs[o.kind] BY Zenon DEF CancelInv, IssuedInv
  <1>2. \A o \in issued : o.seq \in Nat BY Zenon DEF TypeOK, Op, Seqs
  <1>3. nextSeqs[k] \in Nat /\ nextSeqs[k] \in Seqs BY DEF TypeOK, Seqs
  <1>4. \A o \in issued : o.kind = k => o.seq # nextSeqs[k] BY <1>1, <1>2, <1>3
  <1> QED BY <1>3, <1>4, Zenon DEF CancelInv, RequestedInv

\* A new operation puts only entries of its own into the maps.
LEMMA PendingOld ==
  ASSUME CancelInv, TypeOK, NEW k \in Kinds, NEW T \in SUBSET AnswerTypes(k),
         completions' = Put(completions, T, nextSeqs[k])
  PROVE  /\ \A o \in issued : Pending(o)' => Pending(o)
         /\ \A o \in issued : o.kind = "childWorkflow"
                                /\ o.seq \in completions'["childWorkflowComplete"]
              => o.seq \in completions["childWorkflowComplete"]
  <1>1. \A o \in issued : o.kind \in Kinds BY Zenon DEF TypeOK, Op
  <1>2. \A o \in issued : o.kind = k => o.seq # nextSeqs[k] BY NumberIsNew, Zenon
  <1>3. \A i \in Kinds, t \in CompletionTypes : t \in AnswerTypes(i) /\ t \in T => i = k
    BY AnswerTypesOf, StartTypes
  <1>4. \A i \in Kinds : \A t \in AnswerTypes(i) : t \in CompletionTypes BY AnswerTypesOf, Zenon
  <1>5. ASSUME NEW o \in issued, NEW t \in AnswerTypes(o.kind), o.seq \in completions'[t]
        PROVE  o.seq \in completions[t]
    BY <1>1, <1>2, <1>3, <1>4, <1>5, Zenon DEF Put
  <1>6. "childWorkflowComplete" \in AnswerTypes("childWorkflow") BY TypesOfKinds, Zenon
  <1> QED BY <1>5, <1>6, Zenon DEF Pending

\* In a cancelled scope nothing is scheduled, so there is nothing to cancel.
LEMMA UnscheduledCancels ==
  ASSUME CancelInv, TypeOK, TypeOK', NEW k \in Kinds, NEW queue \in SUBSET microtasks, NEW op,
         \A m \in microtasks \ queue : m.act # "cancel",
         nextSeqs' = [nextSeqs EXCEPT ![k] = @ + 1],
         completions' = Put(completions, Always(k), nextSeqs[k]),
         microtasks' = queue \cup {[act |-> "reject", op |-> op]},
         UNCHANGED <<commands, issued, cancelRequested, loopVars, coreVars>>
  PROVE  CancelInv'
  <1>1. \A i \in Kinds : nextSeqs[i] <= nextSeqs'[i] /\ nextSeqs'[i] \in Nat BY DEF TypeOK, Seqs
  <1>2. \A c, i : Buffered(c, i)' = Buffered(c, i) BY BufferedSame, Zenon
  <1>3. \A m \in microtasks' : m.act = "cancel" => m \in microtasks
    <2>1. [act |-> "reject", op |-> op].act # "cancel" BY Zenon
    <2> QED BY <2>1, Zenon
  <1>4. \A o \in issued : [act |-> "cancel", op |-> o] \notin microtasks \ microtasks'
    <2>1. \A o \in issued : [act |-> "cancel", op |-> o].act = "cancel" BY Zenon
    <2> QED BY <2>1, Zenon
  <1>5. Always(k) \in SUBSET AnswerTypes(k) BY TypesOfKinds, Zenon DEF Always
  <1>6. LiveChildren' = LiveChildren BY <1>2, Zenon DEF LiveChildren, coreVars
  <1>7. BatchInv' BY <1>2, BatchSame, Zenon DEF CancelInv, loopVars
  <1>8. CancelOnceAfterStart' BY OrderSame, Zenon DEF CancelInv, coreVars
  <1>9. CancelTargetsLive' BY <1>2, Zenon DEF CancelInv, CancelTargetsLive, loopVars, coreVars
  <1> QED BY <1>1, <1>2, <1>3, <1>4, <1>5, <1>6, <1>7, <1>8, <1>9, PendingOld, OthersKeep, Zenon
          DEF coreVars

\* An operation is scheduled, in a scope that is not cancelled unless it is itself a
\* cancellation.
LEMMA ScheduledCancels ==
  ASSUME CancelInv, TypeOK, TypeOK', NEW k \in Kinds, NEW s, NEW role,
         NEW queue \in SUBSET microtasks, \A m \in microtasks \ queue : m.act # "cancel",
         consideredCancelled(s) => k = "cancelWorkflow",
         nextSeqs' = [nextSeqs EXCEPT ![k] = @ + 1],
         pushCommand(Cmd("start", k, nextSeqs[k])),
         completions' = Put(completions, {StartType(k)} \cup Always(k), nextSeqs[k]),
         issued' = issued \cup {[kind |-> k, seq |-> nextSeqs[k], scope |-> s, role |-> role]},
         microtasks' = queue,
         UNCHANGED <<cancelRequested, loopVars, coreVars>>
  PROVE  CancelInv'
  <1> DEFINE n == nextSeqs[k]
             new == [kind |-> k, seq |-> n, scope |-> s, role |-> role]
             x == Cmd("start", k, n)
  <1>0. /\ n \in Seqs /\ x \in Command
        /\ new.kind = k /\ new.seq = n /\ new.scope = s
        /\ x.cmd = "start" /\ x.kind = k /\ x.seq = n
    BY CommandType, Zenon DEF TypeOK, Cmd
  <1>1. commands \in Seq(Command) /\ commands' = Append(commands, x)
    BY Zenon DEF TypeOK, pushCommand
  <1>2. /\ \A i \in Kinds : Buffered("cancel", i)' = Buffered("cancel", i)
        /\ \A i \in Kinds : Buffered("start", i) \subseteq Buffered("start", i)'
        /\ n \in Buffered("start", k)'
    <2> HIDE DEF x
    <2>1. ASSUME NEW c, NEW i
          PROVE  Buffered(c, i)' = Buffered(c, i) \cup (IF x.cmd = c /\ x.kind = i THEN {x.seq} ELSE {})
      BY <1>0, <1>1, BufferedAppend
    <2> QED BY <1>0, <2>1, Zenon
  <1>3. /\ \A o \in issued : o.kind = k => o.seq # n
        /\ ~HasCancel(k, n)
    BY NumberIsNew, Zenon
  <1>4. /\ \A o \in issued : Pending(o)' => Pending(o)
        /\ \A o \in issued : o.kind = "childWorkflow"
                               /\ o.seq \in completions'["childWorkflowComplete"]
             => o.seq \in completions["childWorkflowComplete"]
    <2>1. {StartType(k)} \cup Always(k) \in SUBSET AnswerTypes(k)
      BY Zenon DEF AnswerTypes, Always
    <2> QED BY <2>1, PendingOld, Zenon
  <1>5. \A i \in Kinds : \A m : HasCancel(i, m)' <=> HasCancel(i, m)
    BY <1>2, Zenon DEF HasCancel, coreVars
  <1>6. \A o \in issued : o.kind \in Kinds /\ o.seq \in Nat BY Zenon DEF TypeOK, Op, Seqs
  <1> HIDE DEF new, x
  <1>7. IssuedInv'
    <2>1. \A i \in Kinds : nextSeqs[i] \in Nat /\ nextSeqs'[i] = IF i = k THEN n + 1 ELSE nextSeqs[i]
      BY DEF TypeOK, Seqs
    <2>2. \A o \in issued : o.seq < nextSeqs[o.kind] BY Zenon DEF CancelInv, IssuedInv
    <2>3. \A o \in issued : o.seq < nextSeqs'[o.kind] BY <1>6, <2>1, <2>2
    <2>4. new.seq < nextSeqs'[new.kind] BY <1>0, <2>1
    <2>5. \A o, p \in issued' : o.kind = p.kind /\ o.seq = p.seq => o = p
      <3>1. issued' = issued \cup {new} BY Zenon DEF new
      <3>2. \A o, p \in issued : o.kind = p.kind /\ o.seq = p.seq => o = p
        BY Zenon DEF CancelInv, IssuedInv
      <3> QED BY <1>0, <1>3, <3>1, <3>2, Zenon
    <2>6. LiveChildren \subseteq LiveChildren' /\ (k = "childWorkflow" => n \in LiveChildren')
      BY <1>2, Zenon DEF LiveChildren, coreVars, Kinds
    <2>7. \A o \in issued' : o.kind = "childWorkflow"
                               /\ o.seq \in completions'["childWorkflowComplete"]
            => o.seq \in LiveChildren'
      BY <1>0, <1>4, <2>6, Zenon DEF CancelInv, IssuedInv, new
    <2> QED BY <2>3, <2>4, <2>5, <2>7, Zenon DEF IssuedInv, new
  <1>8. CallbacksInv' BY <1>5, <1>6, Zenon DEF CancelInv, CallbacksInv
  <1>9. RequestedInv' BY <1>5 DEF CancelInv, RequestedInv
  <1>10. ReachedInv'
    <2>1. ASSUME NEW o \in issued, consideredCancelled(o.scope), o.kind # "cancelWorkflow"
          PROVE  [act |-> "cancel", op |-> o] \in microtasks' \/ Handled(o)'
      <3>1. [act |-> "cancel", op |-> o].act = "cancel" BY Zenon
      <3>2. Handled(o) => Handled(o)' BY <1>4, <1>5, <1>6, Zenon DEF Handled
      <3> QED BY <2>1, <3>1, <3>2, Zenon DEF CancelInv, ReachedInv
    <2> QED BY <1>0, <2>1, Zenon DEF ReachedInv, consideredCancelled, new
  <1>11. BatchInv' BY <1>2, BatchSame, Zenon DEF CancelInv, loopVars
  <1>12. CancelOnceAfterStart'
    BY <1>0, <1>1, <1>3, PushedInOrder, Zenon DEF CancelInv, coreVars
  <1>13. CancelTargetsLive' BY <1>2, Zenon DEF CancelInv, CancelTargetsLive, loopVars, coreVars
  <1> QED BY <1>7, <1>8, <1>9, <1>10, <1>11, <1>12, <1>13, Zenon DEF CancelInv

\* A request queues the callbacks of the operations in the scope; none of them has a cancel
\* command, since the first request of the scope is the only one that queues them.
LEMMA RequestCancels ==
  ASSUME CancelInv, TypeOK, NEW s \in Scopes, Cancel(s), BatchInv',
         UNCHANGED <<commands, completions, nextSeqs, issued, outstanding, cancelSent, singleBatch>>
  PROVE  CancelInv'
  <1>1. \A c, k : Buffered(c, k)' = Buffered(c, k) BY BufferedSame, Zenon
  <1>2. LiveChildren' = LiveChildren BY <1>1, Zenon DEF LiveChildren
  <1>3. IssuedInv' BY <1>2, Zenon DEF CancelInv, IssuedInv
  <1>4. \A k, n : HasCancel(k, n)' <=> HasCancel(k, n) BY <1>1, Zenon DEF HasCancel
  <1>5. \A o \in issued : o.kind \in Kinds /\ o.seq \in Seqs BY Zenon DEF TypeOK, Op
  <1>6. cancelRequested \subseteq cancelRequested' /\ s \in cancelRequested'
        /\ microtasks \subseteq microtasks'
    BY Zenon DEF Cancel
  <1>7. CallbacksInv'
    <2> SUFFICES ASSUME NEW m \in microtasks', m.act = "cancel"
                 PROVE  /\ m.op \in issued /\ m.op.scope \in cancelRequested'
                        /\ ~HasCancel(m.op.kind, m.op.seq)
      BY <1>4, Zenon DEF CallbacksInv
    <2>1. CASE m \in microtasks BY <1>6, <2>1, Zenon DEF CancelInv, CallbacksInv
    <2>2. CASE m \notin microtasks
      <3>1. PICK o \in issued : /\ s \notin cancelRequested /\ o.scope = s
                              /\ m = [act |-> "cancel", op |-> o]
        BY <2>2, Zenon DEF Cancel
      <3>2. m.op = o BY <3>1, Zenon
      <3>3. ~HasCancel(o.kind, o.seq)
        <4>1. \A p \in issued : p.kind = o.kind /\ p.seq = o.seq => p.scope \notin cancelRequested
          BY <3>1, Zenon DEF CancelInv, IssuedInv
        <4> QED BY <1>5, <4>1 DEF CancelInv, RequestedInv
      <3> QED BY <1>6, <3>1, <3>2, <3>3, Zenon
    <2> QED BY <2>1, <2>2, Zenon
  <1>8. RequestedInv' BY <1>4, <1>6 DEF CancelInv, RequestedInv
  <1>9. ReachedInv'
    <2> SUFFICES ASSUME NEW o \in issued, consideredCancelled(o.scope)', o.kind # "cancelWorkflow"
                 PROVE  [act |-> "cancel", op |-> o] \in microtasks' \/ Handled(o)'
      BY Zenon DEF ReachedInv
    <2>1. Handled(o) => Handled(o)' BY <1>4, Zenon DEF Handled, Pending
    <2>2. CASE o.scope \in cancelRequested
      BY <1>6, <2>1, <2>2, Zenon DEF CancelInv, ReachedInv, consideredCancelled
    <2>3. CASE o.scope \notin cancelRequested
      <3>1. o.scope = s /\ s \in Cancellable BY <2>3, Zenon DEF consideredCancelled, Cancel
      <3> QED BY <2>3, <3>1, Zenon DEF Cancel
    <2> QED BY <2>2, <2>3, Zenon
  <1>10. CancelOnceAfterStart' BY OrderSame, Zenon DEF CancelInv
  <1>11. CancelTargetsLive' BY <1>1, Zenon DEF CancelInv, CancelTargetsLive
  <1> QED BY <1>3, <1>7, <1>8, <1>9, <1>10, <1>11, Zenon DEF CancelInv

\* The callback of an operation Core has not answered pushes its cancel command; that of a
\* timer gives the entry up as well.
LEMMA PushedCancels ==
  ASSUME CancelInv, CoreInv, NEW m \in microtasks, m.act = "cancel",
         m.op.kind # "cancelWorkflow", Pending(m.op),
         microtasks' = microtasks \ {m},
         pushCommand(Cmd("cancel", m.op.kind, m.op.seq)),
         completions' = IF m.op.kind = "timer" THEN Drop(completions, {"timer"}, m.op.seq)
                                               ELSE completions,
         phase = "microtasks",
         UNCHANGED <<nextSeqs, issued, cancelRequested, loopVars, coreVars>>
  PROVE  CancelInv'
  <1> DEFINE k == m.op.kind
             n == m.op.seq
             x == Cmd("cancel", k, n)
  <1>0. /\ TypeOK /\ m.op \in issued /\ k \in Kinds /\ n \in Seqs /\ x \in Command
        /\ x.cmd = "cancel" /\ x.kind = k /\ x.seq = n
    <2>1. TypeOK /\ m.op \in issued BY Zenon DEF CoreInv, CancelInv, CallbacksInv
    <2>2. k \in Kinds /\ n \in Seqs BY <2>1, Zenon DEF TypeOK, Op
    <2> QED BY <2>1, <2>2, CommandType, Zenon DEF Cmd
  <1>1. \A c, i : Buffered(c, i)' = Buffered(c, i) \cup (IF c = "cancel" /\ i = k THEN {n} ELSE {})
    BY <1>0, CancelPushed, Zenon
  <1>2. \A i, j : HasCancel(i, j)' <=> HasCancel(i, j) \/ (i = k /\ j = n)
    BY <1>1, Zenon DEF HasCancel, coreVars
  <1>3. /\ m.op.scope \in cancelRequested /\ ~HasCancel(k, n)
        /\ \A o, p \in issued : o.kind = p.kind /\ o.seq = p.seq => o = p
    BY Zenon DEF CancelInv, CallbacksInv, IssuedInv
  <1>4. /\ completions'["childWorkflowComplete"] = completions["childWorkflowComplete"]
        /\ \A t \in CompletionTypes : completions'[t] \subseteq completions[t]
        /\ k = "timer" => n \notin completions'["timer"]
    BY <1>0, Zenon DEF Drop, CompletionTypes
  <1>5. \A o \in issued : Pending(o)' => Pending(o)
    <2>1. \A o \in issued : o.kind \in Kinds BY <1>0, Zenon DEF TypeOK, Op
    <2> QED BY <1>4, <2>1, AnswerTypesOf, Zenon DEF Pending
  <1>6. LiveChildren' = LiveChildren BY <1>1, Zenon DEF LiveChildren, coreVars
  <1>7. IssuedInv' BY <1>4, <1>6, Zenon DEF CancelInv, IssuedInv
  <1>8. CallbacksInv'
    <2> SUFFICES ASSUME NEW p \in microtasks, p # m, p.act = "cancel"
                 PROVE  /\ p.op \in issued /\ p.op.scope \in cancelRequested
                        /\ ~HasCancel(p.op.kind, p.op.seq)'
      BY Zenon DEF CallbacksInv
    <2>1. /\ p.op \in issued /\ p.op.scope \in cancelRequested
          /\ ~HasCancel(p.op.kind, p.op.seq)
      BY Zenon DEF CancelInv, CallbacksInv
    <2>2. p = [act |-> "cancel", op |-> p.op] /\ m = [act |-> "cancel", op |-> m.op]
      BY <1>0 DEF TypeOK, Microtask
    <2>3. p.op # m.op BY <2>2, Zenon
    <2>4. ~(p.op.kind = k /\ p.op.seq = n) BY <1>0, <1>3, <2>1, <2>3, Zenon
    <2> QED BY <1>2, <2>1, <2>4, Zenon
  <1>9. RequestedInv'
    <2> SUFFICES ASSUME NEW i \in Kinds, NEW j \in Seqs, HasCancel(i, j)'
                 PROVE  \E o \in issued : o.kind = i /\ o.seq = j /\ o.scope \in cancelRequested
      BY DEF RequestedInv
    <2>1. CASE HasCancel(i, j) BY <2>1 DEF CancelInv, RequestedInv
    <2>2. CASE i = k /\ j = n BY <1>0, <1>3, <2>2, Zenon
    <2> QED BY <1>2, <2>1, <2>2, Zenon
  <1>10. ReachedInv'
    <2> SUFFICES ASSUME NEW o \in issued, consideredCancelled(o.scope), o.kind # "cancelWorkflow"
                 PROVE  [act |-> "cancel", op |-> o] \in microtasks' \/ Handled(o)'
      BY Zenon DEF ReachedInv, consideredCancelled
    <2>1. Handled(o) => Handled(o)' BY <1>2, <1>5, Zenon DEF Handled
    <2>2. CASE m = [act |-> "cancel", op |-> o]
      <3>1. o.kind = k /\ o.seq = n BY <2>2, Zenon
      <3>2. CASE k = "timer"
        <4>1. ~Pending(o)' BY <1>4, <3>1, <3>2, TypesOfKinds, Zenon DEF Pending
        <4> QED BY <4>1, Zenon DEF Handled
      <3>3. CASE k # "timer" BY <1>2, <3>1, <3>3, Zenon DEF Handled
      <3> QED BY <3>2, <3>3, Zenon
    <2>3. CASE m # [act |-> "cancel", op |-> o] BY <2>1, <2>3, Zenon DEF CancelInv, ReachedInv
    <2> QED BY <2>2, <2>3, Zenon
  <1>11. BatchInv' BY Zenon DEF CancelInv, BatchInv, loopVars
  <1>12. CancelOnceAfterStart'
    <2>1. commands \in Seq(Command) /\ commands' = Append(commands, x) /\ UNCHANGED cancelSent
      BY <1>0, Zenon DEF TypeOK, pushCommand, coreVars
    <2>2. CancelOnceAfterStart BY Zenon DEF CancelInv
    <2> HIDE DEF x
    <2> QED BY <1>0, <1>3, <2>1, <2>2, PushedInOrder, Zenon
  <1>13. CancelTargetsLive'
    <2>1. n \in Buffered("start", k) \cup UNION {outstanding[t] : t \in AnswerTypes(k)}
      <3>1. n \in UNION {completions[t] : t \in AnswerTypes(k)} BY Zenon DEF Pending
      <3>2. k = "childWorkflow" => n \in completions["childWorkflowComplete"]
        <4>1. CASE k = "childWorkflow"
          <5>1. \E t \in PendingTypes(k) : n \in completions[t]
            BY <4>1, <1>0, PendingSeen, Zenon DEF Pending, Kinds
          <5> QED BY <4>1, <5>1, TypesOfKinds, Zenon
        <4> QED BY <4>1, Zenon
      <3>3. k = "childWorkflow" => n \in LiveChildren
        BY <1>0, <3>2, Zenon DEF CancelInv, IssuedInv
      <3> QED BY <1>0, <3>1, <3>3, PendingIsLive, Zenon
    <2>2. \A i \in Kinds : /\ Buffered("start", i)' = Buffered("start", i)
                           /\ Buffered("cancel", i)' \subseteq
                                Buffered("cancel", i) \cup (IF i = k THEN {n} ELSE {})
      BY <1>1, Zenon
    <2>3. UNCHANGED <<outstanding, singleBatch>> BY Zenon DEF coreVars, loopVars
    <2>4. CancelTargetsLive BY Zenon DEF CancelInv
    <2> HIDE DEF k, n
    <2> SUFFICES ASSUME singleBatch', NEW i \in Kinds, NEW j \in Buffered("cancel", i)'
                 PROVE  j \in Buffered("start", i)' \cup UNION {outstanding'[t] : t \in AnswerTypes(i)}
      BY Zenon DEF CancelTargetsLive
    <2>5. CASE j \in Buffered("cancel", i) BY <2>2, <2>3, <2>4, <2>5, Zenon DEF CancelTargetsLive
    <2>6. CASE j \notin Buffered("cancel", i)
      <3>1. i = k /\ j = n BY <2>2, <2>6, Zenon
      <3> QED BY <2>1, <2>2, <2>3, <3>1, Zenon
    <2> QED BY <2>5, <2>6, Zenon
  <1> QED BY <1>7, <1>8, <1>9, <1>10, <1>11, <1>12, <1>13, Zenon DEF CancelInv

\* A step of a job takes answers away from Core, which matters to cancel commands only in an
\* activation of two batches.
LEMMA AnswerCancels ==
  ASSUME CancelInv, TypeOK, phase = "jobs", phase' \in {"jobs", "failed"},
         UNCHANGED <<commands, issued, nextSeqs, cancelRequested, cancelSent, laterJobs, singleBatch>>,
         microtasks \subseteq microtasks',
         \A m \in microtasks' \ microtasks : m.act # "cancel",
         \A o \in issued : Pending(o)' => Pending(o),
         completions'["childWorkflowComplete"] \subseteq completions["childWorkflowComplete"],
         LiveChildren \cap completions'["childWorkflowComplete"] \subseteq LiveChildren'
  PROVE  CancelInv'
  <1>1. \A k \in Kinds : nextSeqs[k] <= nextSeqs'[k] /\ nextSeqs'[k] \in Nat BY DEF TypeOK, Seqs
  <1>2. \A c, k : Buffered(c, k)' = Buffered(c, k) BY BufferedSame, Zenon
  <1>3. BatchInv' BY <1>2, Zenon DEF CancelInv, BatchInv
  <1>4. CancelOnceAfterStart' BY OrderSame, Zenon DEF CancelInv
  <1>5. CancelTargetsLive' BY <1>2, Zenon DEF CancelInv, BatchInv, CancelTargetsLive
  <1> QED BY <1>1, <1>2, <1>3, <1>4, <1>5, OthersKeep, Zenon

\* An answer through type t takes an entry, or none.
LEMMA DroppedCancels ==
  ASSUME CancelInv, TypeOK, NEW j \in jobs, NEW t \in CompletionTypes \ {"childWorkflowStart"},
         HandlesAnswer(j, t) \/ (HandlesAnswer(j, "nexusOperationComplete")
                                   /\ t = "nexusOperationStart"),
         phase' \in {"jobs", "failed"},
         outstanding' = Drop(outstanding, {t}, j.seq),
         completions' \in {completions, Drop(completions, {t}, j.seq)},
         t = "childWorkflowComplete" => j.seq \notin completions'[t],
         microtasks \subseteq microtasks',
         \A m \in microtasks' \ microtasks : m.act # "cancel"
  PROVE  CancelInv'
  <1>1. /\ phase = "jobs"
        /\ UNCHANGED <<commands, issued, nextSeqs, cancelRequested, cancelSent, laterJobs, singleBatch>>
    BY Zenon DEF HandlesAnswer, Handles
  <1>2. \A u \in CompletionTypes : completions'[u] \subseteq completions[u] BY Zenon DEF Drop
  <1>3. \A o \in issued : Pending(o)' => Pending(o)
    <2>1. \A o \in issued : o.kind \in Kinds BY Zenon DEF TypeOK, Op
    <2> QED BY <1>2, <2>1, AnswerTypesOf, Zenon DEF Pending
  <1>4. LiveChildren \cap completions'["childWorkflowComplete"] \subseteq LiveChildren'
    <2>1. Buffered("start", "childWorkflow")' = Buffered("start", "childWorkflow")
      BY <1>1, BufferedSame, Zenon
    <2>2. outstanding'["childWorkflowStart"] = outstanding["childWorkflowStart"]
      BY Zenon DEF Drop, CompletionTypes
    <2>3. CASE t = "childWorkflowComplete"
      BY <2>1, <2>2, <2>3 DEF LiveChildren, Drop, CompletionTypes
    <2>4. CASE t # "childWorkflowComplete"
      BY <2>1, <2>2, <2>4 DEF LiveChildren, Drop, CompletionTypes
    <2> QED BY <2>3, <2>4, Zenon
  <1>5. completions'["childWorkflowComplete"] \subseteq completions["childWorkflowComplete"]
    BY <1>2, Zenon DEF CompletionTypes
  <1> QED BY <1>1, <1>3, <1>4, <1>5, AnswerCancels, Zenon

\* The answer to the start of a child: the child is still there, or both entries go.
LEMMA ChildStartCancels ==
  ASSUME CancelInv, CoreInv, NEW j \in jobs, resolveChildWorkflowExecutionStart(j)
  PROVE  CancelInv'
  <1> DEFINE n == j.seq
             S == "childWorkflowStart"
             C == "childWorkflowComplete"
  <1>0. TypeOK /\ HandlesAnswer(j, S) BY Zenon DEF CoreInv, resolveChildWorkflowExecutionStart
  <1>1. outstanding' = IF j.result = "started" THEN Put(Drop(outstanding, {S}, n), {C}, n)
                                               ELSE Drop(outstanding, {S}, n)
    BY Zenon DEF resolveChildWorkflowExecutionStart
  <1>2. n \in outstanding[S] BY ZenonT(60), <1>0, <1>1, StartJobsLeft
  <1>3. n \in completions[S]
    <2>1. "childWorkflow" \in Kinds \ {"timer"} BY Zenon DEF Kinds
    <2> QED BY <1>2, <2>1, StartTypes, Zenon DEF CoreInv, StartsAgree
  <1> DEFINE gone == IF j.result = "started" THEN {S} ELSE {S, C}
  <1>4. /\ completions' = Drop(completions, gone, n)
        /\ UNCHANGED <<microtasks, phase>> /\ phase = "jobs"
        /\ UNCHANGED <<commands, issued, nextSeqs, cancelRequested, cancelSent, laterJobs, singleBatch>>
    BY Zenon, <1>3 DEF resolveChildWorkflowExecutionStart, HandlesAnswer, Handles
  <1>5. \A u \in CompletionTypes : completions'[u] \subseteq completions[u] BY <1>4, Zenon DEF Drop
  <1>6. \A o \in issued : Pending(o)' => Pending(o)
    <2>1. \A o \in issued : o.kind \in Kinds BY <1>0, Zenon DEF TypeOK, Op
    <2> QED BY <1>4, <1>5, <2>1, AnswerTypesOf, Zenon DEF Pending
  <1>7. S \in CompletionTypes /\ C \in CompletionTypes /\ S # C BY Zenon DEF CompletionTypes
  <1>8. LiveChildren \cap completions'[C] \subseteq LiveChildren'
    <2>1. Buffered("start", "childWorkflow")' = Buffered("start", "childWorkflow")
      BY <1>4, BufferedSame, Zenon
    <2>2. CASE j.result = "started"
      <3>1. outstanding'[S] = outstanding[S] \ {n} /\ outstanding'[C] = outstanding[C] \cup {n}
        BY <1>1, <1>7, <2>2, Zenon DEF Put, Drop
      <3> QED BY <2>1, <3>1, Zenon DEF LiveChildren
    <2>3. CASE j.result # "started"
      <3>1. /\ outstanding'[S] = outstanding[S] \ {n} /\ outstanding'[C] = outstanding[C]
            /\ n \notin completions'[C]
        BY <1>1, <1>4, <1>7, <2>3, Zenon DEF Drop
      <3> QED BY <2>1, <3>1, Zenon DEF LiveChildren
    <2> QED BY <2>2, <2>3, Zenon
  <1> QED BY <1>0, <1>4, <1>5, <1>6, <1>7, <1>8, AnswerCancels, Zenon

\* The answer to the start of a Nexus operation: the entry moves on, or goes.
LEMMA NexusStartCancels ==
  ASSUME CancelInv, CoreInv, NEW j \in jobs, resolveNexusOperationStart(j)
  PROVE  CancelInv'
  <1> DEFINE n == j.seq
             S == "nexusOperationStart"
             C == "nexusOperationComplete"
             Moved(f) == IF j.result = "started" THEN Put(Drop(f, {S}, n), {C}, n)
                                                 ELSE Drop(f, {S}, n)
  <1>0. TypeOK /\ HandlesAnswer(j, S) BY Zenon DEF CoreInv, resolveNexusOperationStart
  <1>1. outstanding' = Moved(outstanding) BY Zenon DEF resolveNexusOperationStart
  <1>2. n \in outstanding[S] BY ZenonT(60), <1>0, <1>1, StartJobsLeft
  <1>3. n \in completions[S]
    <2>1. "nexusOperation" \in Kinds \ {"timer"} BY Zenon DEF Kinds
    <2> QED BY <1>2, <2>1, StartTypes, Zenon DEF CoreInv, StartsAgree
  <1>4. /\ completions' = Moved(completions)
        /\ UNCHANGED <<microtasks, phase>> /\ phase = "jobs"
        /\ UNCHANGED <<commands, issued, nextSeqs, cancelRequested, cancelSent, laterJobs, singleBatch>>
    BY Zenon, <1>3 DEF resolveNexusOperationStart, HandlesAnswer, Handles
  <1>5. \A u \in CompletionTypes : \A i : i \in completions'[u] =>
          i \in completions[u] \/ (u = C /\ i = n)
    BY <1>4, Zenon DEF Drop, Put
  <1>6. \A o \in issued : Pending(o)' => Pending(o)
    <2> SUFFICES ASSUME NEW o \in issued, NEW t \in AnswerTypes(o.kind), o.seq \in completions'[t]
                 PROVE  Pending(o)
      BY <1>4, Zenon DEF Pending
    <2>1. o.kind \in Kinds BY <1>0, Zenon DEF TypeOK, Op
    <2>2. t \in CompletionTypes /\ (t = C => o.kind = "nexusOperation")
      BY <2>1, AnswerTypesOf, StartTypes, Zenon
    <2>3. CASE o.seq \in completions[t] BY <2>3, Zenon DEF Pending
    <2>4. CASE t = C /\ o.seq = n
      <3>1. S \in AnswerTypes(o.kind) BY <2>2, <2>4, TypesOfKinds, Zenon
      <3> QED BY <1>3, <2>4, <3>1, Zenon DEF Pending
    <2> QED BY <1>5, <2>2, <2>3, <2>4, Zenon
  <1>7. /\ UNCHANGED <<outstanding["childWorkflowStart"], outstanding["childWorkflowComplete"]>>
        /\ UNCHANGED completions["childWorkflowComplete"]
    BY <1>1, <1>4, Zenon DEF Drop, Put, CompletionTypes
  <1>8. LiveChildren' = LiveChildren BY <1>4, <1>7, BufferedSame, Zenon DEF LiveChildren
  <1> QED BY <1>0, <1>4, <1>6, <1>7, <1>8, AnswerCancels, Zenon

\* A job, whatever it answers.
LEMMA JobsCancel ==
  ASSUME CancelInv, CoreInv, HandleJob
  PROVE  CancelInv'
  <1>0. TypeOK BY Zenon DEF CoreInv
  <1>1. ASSUME NEW j \in jobs, fireTimer(j) PROVE CancelInv'
    <2>1. /\ HandlesAnswer(j, "timer") /\ phase' \in {"jobs", "failed"}
          /\ outstanding' = Drop(outstanding, {"timer"}, j.seq)
          /\ completions' \in {completions, Drop(completions, {"timer"}, j.seq)}
      BY <1>1, Zenon DEF fireTimer, HandlesAnswer, Handles
    <2>2. /\ microtasks \subseteq microtasks'
          /\ \A m \in microtasks' \ microtasks : m.act # "cancel"
      BY <1>1 DEF fireTimer
    <2> QED BY <1>0, <2>1, <2>2, DroppedCancels, Zenon DEF CompletionTypes
  <1>2. ASSUME NEW j \in jobs, resolveActivity(j) PROVE CancelInv'
    <2>1. /\ HandlesAnswer(j, "activity") /\ phase' \in {"jobs", "failed"}
          /\ outstanding' = Drop(outstanding, {"activity"}, j.seq)
          /\ completions' \in {completions, Drop(completions, {"activity"}, j.seq)}
      BY <1>2, Zenon DEF resolveActivity, throwIllegalState, HandlesAnswer, Handles
    <2>2. /\ microtasks \subseteq microtasks'
          /\ \A m \in microtasks' \ microtasks : m.act # "cancel"
      BY <1>2 DEF resolveActivity, throwIllegalState
    <2> QED BY <1>0, <2>1, <2>2, DroppedCancels, Zenon DEF CompletionTypes
  <1>3. ASSUME NEW j \in jobs,
               NEW t \in {"signalWorkflow", "cancelWorkflow", "childWorkflowComplete"},
               ConsumeAndSettle(j, t)
        PROVE  CancelInv'
    <2>1. t \in CompletionTypes \ {"childWorkflowStart"} BY Zenon DEF CompletionTypes
    <2>2. /\ HandlesAnswer(j, t) /\ phase' \in {"jobs", "failed"}
          /\ outstanding' = Drop(outstanding, {t}, j.seq)
          /\ completions' \in {completions, Drop(completions, {t}, j.seq)}
          /\ UNCHANGED microtasks
      BY <1>3, Zenon DEF ConsumeAndSettle, throwIllegalState, HandlesAnswer, Handles
    <2>3. j.seq \notin completions'[t]
      BY <1>3, <2>1, Zenon DEF ConsumeAndSettle, throwIllegalState, Drop
    <2> QED BY <1>0, <2>1, <2>2, <2>3, DroppedCancels, Zenon
  <1>4. ASSUME NEW j \in jobs, resolveNexusOperation(j) PROVE CancelInv'
    <2> DEFINE t == IF j.seq \in completions["nexusOperationStart"] THEN "nexusOperationStart"
                                                                  ELSE "nexusOperationComplete"
    <2>1. t \in {"nexusOperationStart", "nexusOperationComplete"} BY Zenon
    <2>2. /\ HandlesAnswer(j, "nexusOperationComplete") /\ phase' \in {"jobs", "failed"}
          /\ outstanding' = Drop(outstanding, {t}, j.seq)
          /\ completions' \in {completions, Drop(completions, {t}, j.seq)}
          /\ UNCHANGED microtasks
      BY <1>4, Zenon DEF resolveNexusOperation, throwIllegalState, HandlesAnswer, Handles
    <2> HIDE DEF t
    <2>3. t \in CompletionTypes \ {"childWorkflowStart"} /\ t # "childWorkflowComplete"
      BY <2>1, Zenon DEF CompletionTypes
    <2>4. CASE t = "nexusOperationStart" BY <1>0, <2>2, <2>3, <2>4, DroppedCancels, Zenon
    <2>5. CASE t = "nexusOperationComplete" BY <1>0, <2>2, <2>3, <2>5, DroppedCancels, Zenon
    <2> QED BY <2>1, <2>4, <2>5, Zenon
  <1>5. ASSUME cancelWorkflow PROVE CancelInv'
    <2>1. /\ Cancel(RootScope)
          /\ UNCHANGED <<commands, completions, nextSeqs, issued, outstanding, cancelSent,
                         laterJobs, singleBatch, phase>>
      BY <1>5, Zenon DEF cancelWorkflow, Handles
    <2>2. BatchInv' BY <2>1, BufferedSame, BatchSame, Zenon DEF CancelInv
    <2> QED BY <1>0, <2>1, <2>2, RequestCancels, ScopesAssumption, Zenon
  <1>6. ASSUME NEW j, CallsWorkflowCode(j) PROVE CancelInv'
    <2>1. /\ UNCHANGED <<issued, cancelRequested, cancelSent, nextSeqs, completions, outstanding,
                         microtasks, commands, laterJobs, singleBatch>>
          /\ phase = "jobs" /\ phase' = "handler"
      BY <1>6, Zenon DEF CallsWorkflowCode, Handles
    <2>2. \A c, k : Buffered(c, k)' = Buffered(c, k) BY <2>1, BufferedSame, Zenon
    <2>3. BatchInv' BY <2>1, <2>2, Zenon DEF CancelInv, BatchInv
    <2>4. CancelOnceAfterStart' BY <2>1, OrderSame, Zenon DEF CancelInv
    <2> QED BY <1>0, <2>1, <2>2, <2>3, <2>4, QuietKeeps, Zenon
  <1> QED BY <1>1, <1>2, <1>3, <1>4, <1>5, <1>6, ChildStartCancels, NexusStartCancels, Zenon
          DEF HandleJob, resolveChildWorkflowExecution, resolveSignalExternalWorkflow,
              resolveRequestCancelExternalWorkflow, signalWorkflow, startWorkflow

\* Start, in a cancelled scope or not.
LEMMA StartCancels ==
  ASSUME CancelInv, TypeOK, TypeOK', NEW k \in Kinds, NEW s, NEW role,
         NEW queue \in SUBSET microtasks, \A m \in microtasks \ queue : m.act # "cancel",
         Start(k, s, role, {StartType(k)}, Always(k), queue)
  PROVE  CancelInv'
  <1> DEFINE op == [kind |-> k, seq |-> nextSeqs[k], scope |-> s, role |-> role]
  <1>1. CASE consideredCancelled(s)
    <2>1. /\ nextSeqs' = [nextSeqs EXCEPT ![k] = @ + 1]
          /\ completions' = Put(completions, Always(k), nextSeqs[k])
          /\ microtasks' = queue \cup {[act |-> "reject", op |-> op]}
          /\ UNCHANGED <<commands, issued, cancelRequested, loopVars, coreVars>>
      BY <1>1, Zenon DEF Start
    <2> HIDE DEF op
    <2> QED BY <2>1, UnscheduledCancels, Zenon
  <1>2. CASE ~consideredCancelled(s)
    <2>1. /\ nextSeqs' = [nextSeqs EXCEPT ![k] = @ + 1]
          /\ pushCommand(Cmd("start", k, nextSeqs[k]))
          /\ completions' = Put(completions, {StartType(k)} \cup Always(k), nextSeqs[k])
          /\ issued' = issued \cup {op}
          /\ microtasks' = queue
          /\ UNCHANGED <<cancelRequested, loopVars, coreVars>>
      BY <1>2, Zenon DEF Start
    <2> QED BY <1>2, <2>1, ScheduledCancels, Zenon
  <1> QED BY <1>1, <1>2, Zenon

\* A callback, a rejection or a continuation of scheduleLocalActivity.
LEMMA MicrotasksCancel ==
  ASSUME CancelInv, CoreInv, CoreInv', NEW m \in microtasks,
         \/ onCancelTimer(m) \/ onCancelOperation(m) \/ onCancelExternal(m)
         \/ rejectUnscheduled(m) \/ localActivityBackoff(m) \/ localActivityRetry(m)
  PROVE  CancelInv'
  <1>0. TypeOK /\ TypeOK' /\ m.op.kind \in Kinds BY Zenon DEF CoreInv, TypeOK, Microtask, Op
  <1>1. CASE localActivityBackoff(m) \/ localActivityRetry(m)
    <2>1. \A i \in microtasks \ (microtasks \ {m}) : i.act # "cancel"
      BY <1>1, Zenon DEF localActivityBackoff, localActivityRetry
    <2>2. /\ "timer" \in Kinds /\ "activity" \in Kinds /\ Always("timer") = {}
          /\ Always("activity") = {}
      BY Zenon DEF Kinds, Always
    <2> DEFINE queue == microtasks \ {m}
    <2>3. queue \in SUBSET microtasks BY Zenon
    <2>4. \/ Start("timer", m.op.scope, "backoff", {StartType("timer")}, Always("timer"), queue)
          \/ Start("activity", m.op.scope, "local", {StartType("activity")}, Always("activity"), queue)
      BY <1>1, <2>2, StartTypes DEF localActivityBackoff, localActivityRetry
    <2>5. \A i \in microtasks \ queue : i.act # "cancel" BY <2>1, Zenon
    <2> HIDE DEF queue
    <2> QED BY <1>0, <2>2, <2>3, <2>4, <2>5, StartCancels, Zenon
  \* A microtask that pushes nothing.
  <1>2. ASSUME UNCHANGED <<issued, cancelRequested, nextSeqs, completions, commands, loopVars, coreVars>>,
               microtasks' = microtasks \ {m},
               m.act = "cancel" => ~Pending(m.op) \/ m.op.kind = "cancelWorkflow"
        PROVE  CancelInv'
    <2>1. \A c, k : Buffered(c, k)' = Buffered(c, k) BY <1>2, BufferedSame, Zenon
    <2>2. BatchInv' BY <1>2, <2>1, BatchSame, Zenon DEF CancelInv, loopVars
    <2>3. CancelOnceAfterStart' BY <1>2, OrderSame, Zenon DEF CancelInv, coreVars
    <2>4. \A o \in issued : [act |-> "cancel", op |-> o] \in microtasks \ microtasks'
                              => ~Pending(o) \/ o.kind = "cancelWorkflow"
      <3> SUFFICES ASSUME NEW o \in issued, m = [act |-> "cancel", op |-> o]
                   PROVE  ~Pending(o) \/ o.kind = "cancelWorkflow"
        BY <1>2, Zenon
      <3>1. m.act = "cancel" /\ m.op = o BY Zenon
      <3> QED BY <1>2, <3>1, Zenon
    <2> QED BY <1>0, <1>2, <2>1, <2>2, <2>3, <2>4, QuietKeeps, Zenon DEF loopVars, coreVars
  <1>3. CASE onCancelTimer(m)
    <2>1. /\ m.op.kind = "timer" /\ m.act = "cancel" /\ phase = "microtasks"
          /\ microtasks' = microtasks \ {m}
          /\ UNCHANGED <<nextSeqs, issued, cancelRequested, loopVars, coreVars>>
      BY <1>3, Zenon DEF onCancelTimer, Runs
    <2>2. Pending(m.op) <=> m.op.seq \in completions["timer"]
      BY <2>1, TypesOfKinds DEF Pending
    <2>3. CASE m.op.seq \in completions["timer"]
      <3>1. /\ pushCommand(Cmd("cancel", m.op.kind, m.op.seq))
            /\ completions' = Drop(completions, {"timer"}, m.op.seq)
        BY <1>3, <2>1, <2>3, Zenon DEF onCancelTimer
      <3>2. completions' = IF m.op.kind = "timer" THEN Drop(completions, {"timer"}, m.op.seq)
                                                  ELSE completions
        BY <2>1, <3>1, Zenon
      <3>3. m.op.kind # "cancelWorkflow" BY <2>1
      <3> QED BY <2>1, <2>2, <2>3, <3>1, <3>2, <3>3, PushedCancels, Zenon
    <2>4. CASE m.op.seq \notin completions["timer"]
      <3>1. UNCHANGED <<completions, commands>> BY <1>3, <2>4, Zenon DEF onCancelTimer
      <3> QED BY <1>2, <2>1, <2>2, <2>4, <3>1, Zenon
    <2> QED BY <2>3, <2>4, Zenon
  <1>4. CASE onCancelOperation(m)
    <2>1. /\ m.op.kind \notin {"timer", "cancelWorkflow"} /\ m.act = "cancel"
          /\ phase = "microtasks" /\ microtasks' = microtasks \ {m}
          /\ UNCHANGED <<nextSeqs, issued, completions, cancelRequested, loopVars, coreVars>>
      BY <1>4, Zenon DEF onCancelOperation, Runs
    <2>2. Pending(m.op) <=> \E t \in PendingTypes(m.op.kind) : m.op.seq \in completions[t]
      BY <1>0, <2>1, PendingSeen, Zenon DEF Pending
    <2>3. CASE Pending(m.op)
      <3>1. pushCommand(Cmd("cancel", m.op.kind, m.op.seq))
        BY <1>4, <2>2, <2>3, Zenon DEF onCancelOperation
      <3>2. completions' = IF m.op.kind = "timer" THEN Drop(completions, {"timer"}, m.op.seq)
                                                  ELSE completions
        BY <2>1, Zenon
      <3> QED BY <2>1, <2>3, <3>1, <3>2, PushedCancels, Zenon
    <2>4. CASE ~Pending(m.op)
      <3>1. UNCHANGED commands BY <1>4, <2>2, <2>4, Zenon DEF onCancelOperation
      <3> QED BY <1>2, <2>1, <2>4, <3>1, Zenon
    <2> QED BY <2>3, <2>4, Zenon
  <1>5. CASE onCancelExternal(m)
    BY <1>2, <1>5, Zenon DEF onCancelExternal, Runs
  <1>6. CASE rejectUnscheduled(m)
    <2>1. m.act # "cancel" BY <1>6, Zenon DEF rejectUnscheduled, Runs
    <2> QED BY <1>2, <1>6, <2>1, Zenon DEF rejectUnscheduled, Runs
  <1> QED BY <1>1, <1>3, <1>4, <1>5, <1>6, Zenon

\* What workflow code does.
LEMMA CodeCancels ==
  ASSUME CancelInv, TypeOK, TypeOK', WorkflowCode
  PROVE  CancelInv'
  <1>1. ASSUME NEW s \in Scopes,
               \/ sleep(s) \/ scheduleActivity(s) \/ scheduleLocalActivity(s) \/ startChild(s)
               \/ signalExternal(s) \/ startNexusOperation(s)
        PROVE  CancelInv'
    <2>1. \E k \in Kinds, role \in {"plain", "local"} :
            Start(k, s, role, {StartType(k)}, Always(k), microtasks)
      <3>1. /\ Always("timer") = {} /\ Always("activity") = {} /\ Always("signalWorkflow") = {}
            /\ Always("nexusOperation") = {} /\ Always("childWorkflow") = {"childWorkflowComplete"}
        BY Zenon DEF Always
      <3> QED BY <1>1, <3>1, StartTypes
              DEF Kinds, sleep, scheduleActivity, scheduleLocalActivity, startChild, signalExternal,
                  startNexusOperation
    <2> QED BY <2>1, StartCancels, Zenon
  <1>2. ASSUME NEW s \in Scopes, cancelExternal(s) PROVE CancelInv'
    <2> DEFINE k == "cancelWorkflow"
    <2>1. /\ nextSeqs' = [nextSeqs EXCEPT ![k] = @ + 1]
          /\ pushCommand(Cmd("start", k, nextSeqs[k]))
          /\ completions' = Put(completions, {k}, nextSeqs[k])
          /\ issued' = issued \cup {[kind |-> k, seq |-> nextSeqs[k], scope |-> s, role |-> "plain"]}
          /\ microtasks' = microtasks
          /\ UNCHANGED <<cancelRequested, loopVars, coreVars>>
      BY <1>2, Zenon DEF cancelExternal
    <2>2. {StartType(k)} \cup Always(k) = {k} BY StartTypes DEF Always
    <2>3. k \in Kinds BY Zenon DEF Kinds
    <2> QED BY <2>1, <2>2, <2>3, ScheduledCancels, Zenon
  <1>3. ASSUME NEW s \in Scopes, cancelScope(s) PROVE CancelInv'
    <2>1. Cancel(s) /\ UNCHANGED <<commands, completions, nextSeqs, issued, outstanding, cancelSent,
                                   laterJobs, singleBatch, phase>>
      BY <1>3, Zenon DEF cancelScope, activatorVars, loopVars, coreVars
    <2>2. BatchInv' BY <2>1, BufferedSame, BatchSame, Zenon DEF CancelInv
    <2> QED BY <2>1, <2>2, RequestCancels, Zenon
  <1>4. ASSUME NEW t \in Terminals, endWorkflow(t) PROVE CancelInv'
    <2> DEFINE x == Cmd("terminal", t, 0)
    <2>1. x \in Command /\ x.cmd = "terminal" BY Zenon DEF Cmd, Command
    <2>2. /\ commands' = Append(commands, x) /\ commands \in Seq(Command)
          /\ UNCHANGED <<nextSeqs, completions, cancelRequested, issued, microtasks, laterJobs,
                         singleBatch, phase, outstanding, cancelSent>>
      BY <1>4, Zenon DEF endWorkflow, pushCommand, TypeOK, loopVars, coreVars
    <2> HIDE DEF x
    <2>3. ASSUME NEW c \in {"start", "cancel"}, NEW k PROVE Buffered(c, k)' = Buffered(c, k)
      <3>1. Buffered(c, k)' = Buffered(c, k) \cup (IF x.cmd = c /\ x.kind = k THEN {x.seq} ELSE {})
        BY <2>1, <2>2, BufferedAppend
      <3> QED BY <2>1, <3>1, Zenon
    <2>4. CancelOnceAfterStart' BY <2>1, <2>2, PushedInOrder, Zenon DEF CancelInv
    <2>5. BatchInv' BY <2>2, <2>3, BatchSame, Zenon DEF CancelInv
    <2> QED BY <2>2, <2>3, <2>4, <2>5, QuietKeeps, Zenon
  <1>5. ASSUME recordWorkflowTaskError PROVE CancelInv'
    <2>1. UNCHANGED <<nextSeqs, completions, commands, cancelRequested, issued, microtasks, laterJobs,
                      singleBatch, phase, outstanding, cancelSent>>
      BY <1>5, Zenon DEF recordWorkflowTaskError, loopVars, coreVars
    <2>2. \A c, k : Buffered(c, k)' = Buffered(c, k) BY <2>1, BufferedSame, Zenon
    <2>3. BatchInv' /\ CancelOnceAfterStart' BY <2>1, <2>2, BatchSame, OrderSame, Zenon DEF CancelInv
    <2> QED BY <2>1, <2>2, <2>3, QuietKeeps, Zenon
  <1> QED BY <1>1, <1>2, <1>3, <1>4, <1>5, Zenon DEF WorkflowCode

\* Core takes the buffer: a cancel command that was buffered is now one that was sent.
LEMMA ConcludeCancels ==
  ASSUME CancelInv, TypeOK, concludeActivation
  PROVE  CancelInv'
  <1>0. /\ commands' = <<>> /\ CoreTakes /\ laterJobs = {} /\ microtasks = {}
        /\ UNCHANGED <<nextSeqs, completions, cancelRequested, issued, microtasks, laterJobs>>
    BY Zenon DEF concludeActivation
  <1>1. \A c, k : Buffered(c, k)' = {} BY <1>0 DEF Buffered
  <1>2. \A k \in Kinds : \A n : HasCancel(k, n)' <=> HasCancel(k, n)
    BY <1>0, <1>1 DEF CoreTakes, HasCancel
  <1>3. LiveChildren \subseteq LiveChildren'
    <2>1. "childWorkflow" \in {i \in Kinds : StartType(i) = "childWorkflowStart"}
      BY StartTypes, Zenon DEF Kinds
    <2>2. /\ outstanding["childWorkflowStart"] \cup Buffered("start", "childWorkflow")
               \subseteq outstanding'["childWorkflowStart"]
          /\ outstanding["childWorkflowComplete"] \subseteq outstanding'["childWorkflowComplete"]
      BY <1>0, <2>1, Zenon DEF CoreTakes, CompletionTypes
    <2> QED BY <2>2, Zenon DEF LiveChildren
  <1>4. \A o \in issued : o.kind \in Kinds BY Zenon DEF TypeOK, Op
  <1>5. IssuedInv' BY <1>0, <1>3, Zenon DEF CancelInv, IssuedInv
  <1>6. CallbacksInv' BY <1>0, Zenon DEF CallbacksInv
  <1>7. RequestedInv' BY <1>0, <1>2 DEF CancelInv, RequestedInv
  <1>8. ReachedInv'
    <2>1. \A o \in issued : Handled(o) => Handled(o)' BY <1>0, <1>2, <1>4, Zenon DEF Handled, Pending
    <2> QED BY <1>0, <2>1, Zenon DEF CancelInv, ReachedInv, consideredCancelled
  <1>9. BatchInv' BY <1>0, <1>1, Zenon DEF BatchInv
  <1>10. CancelOnceAfterStart' BY <1>0 DEF CancelOnceAfterStart
  <1>11. CancelTargetsLive' BY <1>1, Zenon DEF CancelTargetsLive
  <1> QED BY <1>5, <1>6, <1>7, <1>8, <1>9, <1>10, <1>11, Zenon DEF CancelInv

\* The other steps of the loop.
LEMMA LoopCancels ==
  ASSUME CancelInv, CoreInv, Loop \/ firstActivation \/ nextActivation \/ UNCHANGED vars
  PROVE  CancelInv'
  <1>0. TypeOK BY Zenon DEF CoreInv
  <1>1. ASSUME UNCHANGED <<nextSeqs, completions, commands, cancelRequested, issued, microtasks,
                           outstanding, cancelSent>>,
               UNCHANGED singleBatch \/ commands = <<>>,
               laterJobs' # {} => ~singleBatch',
               \/ phase' \notin {"jobs", "handler"}
               \/ UNCHANGED <<phase, singleBatch>>
               \/ ~singleBatch' \/ commands = <<>>
               \/ phase = "handler" /\ UNCHANGED singleBatch
        PROVE  CancelInv'
    <2>1. \A c, k : Buffered(c, k)' = Buffered(c, k) BY <1>1, BufferedSame, Zenon
    <2>2. commands = <<>> => \A k : Buffered("cancel", k) = {} BY BufferedEmpty, Zenon
    <2>3. BatchInv' BY <1>1, <2>1, <2>2 DEF CancelInv, BatchInv
    <2>4. CancelOnceAfterStart' BY <1>1, OrderSame, Zenon DEF CancelInv
    <2> QED BY <1>0, <1>1, <2>1, <2>3, <2>4, QuietKeeps, Zenon
  <1>2. laterJobs # {} => ~singleBatch BY Zenon DEF CancelInv, BatchInv
  <1> USE DEF activatorVars, coreVars
  <1>3. CASE handlerReturns BY <1>1, <1>2, <1>3, Zenon DEF handlerReturns
  <1>4. CASE batchReturns BY <1>1, <1>2, <1>4, Zenon DEF batchReturns
  <1>5. CASE failActivation BY <1>1, <1>2, <1>5, Zenon DEF failActivation
  <1>6. CASE nextBatch BY <1>1, <1>2, <1>6, Zenon DEF nextBatch
  <1>7. CASE concludeActivation BY <1>0, <1>7, ConcludeCancels, Zenon
  <1>8. CASE firstActivation \/ nextActivation
    <2>1. commands = <<>> BY <1>8, Zenon DEF CoreInv, LoopShape, firstActivation, nextActivation
    <2>2. PICK J, single : activate(J, single) BY <1>8, Zenon DEF firstActivation, nextActivation
    <2> QED BY <1>1, <2>1, <2>2, Zenon DEF activate
  <1>9. CASE UNCHANGED vars BY <1>1, <1>2, <1>9, Zenon DEF vars
  <1> QED BY <1>3, <1>4, <1>5, <1>6, <1>7, <1>8, <1>9, Zenon DEF Loop

\* Nothing is scheduled or cancelled before the workflow starts.
LEMMA InitCancel == Init => CancelInv
  <1> SUFFICES ASSUME Init PROVE CancelInv OBVIOUS
  <1>1. commands = <<>> /\ issued = {} /\ microtasks = {} /\ cancelSent = {} /\ laterJobs = {}
    BY Zenon DEF Init
  <1>2. \A k : Buffered("cancel", k) = {} BY <1>1, BufferedEmpty, Zenon
  <1>3. \A k, n : ~HasCancel(k, n) BY <1>1, <1>2, Zenon DEF HasCancel
  <1>4. IssuedInv /\ CallbacksInv /\ RequestedInv /\ ReachedInv
    BY <1>1, <1>3, Zenon DEF IssuedInv, CallbacksInv, RequestedInv, ReachedInv
  <1>5. BatchInv /\ CancelTargetsLive BY <1>1, <1>2, Zenon DEF BatchInv, CancelTargetsLive
  <1>6. CancelOnceAfterStart BY <1>1 DEF CancelOnceAfterStart
  <1> QED BY <1>4, <1>5, <1>6, Zenon DEF CancelInv

\* CancelInv is inductive, given CoreInv.
LEMMA NextCancel == CoreInv /\ CancelInv /\ [Next]_vars => CancelInv'
  <1> SUFFICES ASSUME CoreInv, CancelInv, [Next]_vars PROVE CancelInv' BY Zenon
  <1>1. CoreInv' BY NextCore, Zenon
  <1>2. TypeOK /\ TypeOK' BY <1>1, Zenon DEF CoreInv
  <1>3. CASE WorkflowCode BY <1>2, <1>3, CodeCancels, Zenon
  <1>4. CASE RunMicrotask BY <1>1, <1>4, MicrotasksCancel, Zenon DEF RunMicrotask
  <1>5. CASE HandleJob BY <1>5, JobsCancel, Zenon
  <1> QED BY <1>3, <1>4, <1>5, LoopCancels, Zenon DEF Next, Evicted

\* The invariant of cancellation holds in every execution.
LEMMA CancelInvariant == Spec => []CancelInv
  BY InitCancel, NextCancel, CoreInvariant, PTL DEF Spec

\* Cancelling a scope reaches Core: once an activation has ended, a cancelled scope has no
\* running timer, and the cancel command of every other operation pending there was sent.
THEOREM CancelsReachCore == Spec => []CancellationReachesCore
  <1>1. ASSUME CoreInv, CancelInv PROVE CancellationReachesCore
    <2> SUFFICES ASSUME phase = "idle", NEW o \in issued, consideredCancelled(o.scope),
                        o.kind # "cancelWorkflow"
                 PROVE  /\ o.kind = "timer" => o.seq \notin completions["timer"]
                        /\ \A t \in AnswerTypes(o.kind) :
                             o.seq \in completions[t] => <<o.kind, o.seq>> \in cancelSent
      BY Zenon DEF CancellationReachesCore
    <2>1. microtasks = {} /\ commands = <<>> BY <1>1, Zenon DEF CoreInv, LoopShape
    <2>2. Handled(o) BY <1>1, <2>1, Zenon DEF CancelInv, ReachedInv
    <2>3. HasCancel(o.kind, o.seq) => <<o.kind, o.seq>> \in cancelSent
      BY <2>1, BufferedEmpty, Zenon DEF HasCancel
    <2>4. "timer" \in AnswerTypes("timer") BY TypesOfKinds, Zenon
    <2> QED BY <2>2, <2>3, <2>4, Zenon DEF Handled, Pending
  <1> QED BY <1>1, CoreInvariant, CancelInvariant, PTL

\* An operation is cancelled at most once, and after its start, for any number of scopes,
\* cancellations and activations.
THEOREM CancelsFollowStarts == Spec => []CancelOnceAfterStart
  <1>1. CancelInv => CancelOnceAfterStart BY Zenon DEF CancelInv
  <1> QED BY <1>1, CancelInvariant, PTL

\* An activation handled as one batch cancels only what Core still has.
THEOREM CancelsNameLiveOperations == Spec => []CancelTargetsLive
  <1>1. CancelInv => CancelTargetsLive BY Zenon DEF CancelInv
  <1> QED BY <1>1, CancelInvariant, PTL
=============================================================================
