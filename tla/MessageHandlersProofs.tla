------------------------ MODULE MessageHandlersProofs ------------------------
(***************************************************************************)
(* The protocol of updates, the delivery and the order of messages, and    *)
(* the conditions, for every set of messages, names and conditions.        *)
(*                                                                         *)
(* The inductive invariant is built in layers, each resting on the ones    *)
(* before it: the types; the shape of the activation loop, what it records *)
(* and what its batches hold (LoopInv, RecordInv, BatchInv); where every   *)
(* message waits (PlaceInv); the dispatch loops (LoopsInv); the responses  *)
(* (AnswerInv); the conditions (ConditionsQuiesce, DrainedInv); and the    *)
(* order of messages (OrderInv).                                           *)
(***************************************************************************)
EXTENDS MessageHandlers, TLAPS

(***************************************************************************)
(* The invariant                                                           *)
(***************************************************************************)
Jobs == Messages \cup {"initialize", "other"}
Phases == {"new", "jobs", "handler", "microtasks", "idle", "done", "failed"}
Responses == {"accepted", "rejected", "completed"}

TypeOK ==
  /\ handlers \in [Types -> SUBSET Names] /\ default \in [Types -> BOOLEAN]
  /\ buffered \in [Types -> Seq(Messages)]
  /\ inProgress \in SUBSET Messages /\ intercepted \in SUBSET Signals
  /\ running \in SUBSET Messages /\ finalizing \in SUBSET Messages
  /\ conditions \in [Conditions -> {"idle", "blocked", "resolved"}] /\ value \in BOOLEAN
  /\ checkConditions \in BOOLEAN /\ main \in {"none", "starting", "running", "ended"}
  /\ completed \in BOOLEAN /\ error \in BOOLEAN
  /\ jobs \in Seq(Jobs) /\ laterJobs \in Seq(Jobs) /\ singleBatch \in BOOLEAN
  /\ phase \in Phases
  /\ loops \in Seq(Types) /\ code \in BOOLEAN /\ awake \in BOOLEAN
  /\ answers \in [Updates -> Seq(Responses)]
  /\ arrived \in Seq(Messages) /\ started \in Seq(Messages)
  /\ waited \in SUBSET Messages /\ recorded \in BOOLEAN

\* Where control can be in each phase, and which jobs are left then.
LoopInv ==
  /\ phase \notin {"handler", "microtasks"} => ~code /\ loops = <<>>
  /\ phase \notin {"jobs", "handler"} => jobs = <<>>
  /\ phase \in {"new", "idle", "done"} => laterJobs = <<>> /\ ~error
  /\ phase \in {"new", "idle"} => ~completed
  /\ finalizing # {} => awake /\ phase = "microtasks"
  /\ code \/ loops # <<>> => awake
  /\ main = "starting" => phase = "handler" /\ jobs = <<>>
  /\ \A i \in DOMAIN jobs : jobs[i] = "initialize" => i = Len(jobs)
  /\ \A i \in DOMAIN laterJobs : laterJobs[i] = "initialize" => i = Len(laterJobs)

\* What an activation records: workflow code wakes up only in an activation that tests
\* conditions and leaves an event in history, and jobs other than updates are such events.
RecordInv ==
  /\ awake => recorded /\ checkConditions
  /\ \A j \in Range(jobs) \cup Range(laterJobs) : j \notin Updates => recorded /\ checkConditions
  /\ phase # "new" /\ checkConditions => recorded

\* The jobs that wait for the second batch.
BatchInv ==
  /\ Range(laterJobs) \cap Signals = {}
  /\ laterJobs # <<>> => ~singleBatch
  /\ completed => \A m \in Range(jobs) \cap Messages : m \in Updates /\ ~singleBatch

Distinct(s) == \A i, j \in DOMAIN s : s[i] = s[j] => i = j

\* The messages that are not delivered yet.
Waiting == Range(jobs) \cup Range(laterJobs) \cup UNION {Range(buffered[t]) : t \in Types}

\* A message arrives once, and waits in one place at a time.
PlaceInv ==
  /\ Distinct(arrived) /\ Distinct(jobs) /\ Distinct(laterJobs)
  /\ Range(jobs) \cap Range(laterJobs) = {}
  /\ (Range(jobs) \cup Range(laterJobs)) \cap Messages \subseteq Range(arrived)
  /\ \A t \in Types :
       /\ Distinct(buffered[t])
       /\ \A m \in Range(buffered[t]) :
            /\ TypeOf(m) = t
            /\ m \in Range(arrived) /\ m \in waited
            /\ m \notin Range(jobs) \cup Range(laterJobs)
  /\ phase \in {"new", "idle", "done"} => buffered["update"] = <<>>

\* A dispatch loop is under way for every type with a buffered message that has a handler.
LoopsInv ==
  \A t \in Types : \A m \in Range(buffered[t]) : HasHandler(m) => t \in Range(loops)

\* An update has no response exactly as long as it waits.
AnswerInv ==
  \A u \in Updates :
    /\ answers[u] = <<>> <=> u \notin Range(arrived) \/ u \in Waiting
    /\ u \in running => answers[u] = <<"accepted">>
    /\ answers[u] = <<"accepted">> => u \in running \/ completed \/ error

\* Outside the microtasks that workflow code runs in, a workflow that waits for its handlers
\* has one in progress; and no message is left to deliver when that wait is over.
DrainedInv ==
  "drained" \in Conditions =>
    /\ conditions["drained"] = "blocked" =>
         inProgress # {} \/ (phase = "microtasks" /\ awake) \/ phase = "failed"
    /\ conditions["drained"] = "resolved" =>
         phase \in {"handler", "jobs", "microtasks"} /\ jobs = <<>> /\ inProgress \subseteq waited

(***************************************************************************)
(* The order of messages of one name and type.                             *)
(***************************************************************************)
Alike(m, n) == TypeOf(m) = TypeOf(n) /\ NameOf[m] = NameOf[n]

\* m stands before n in the order a in which Core sent the messages.
Before(a, m, n) == \E i, j \in DOMAIN a : i < j /\ a[i] = m /\ a[j] = n

\* Like messages stand in a sequence in the order Core sent them.
InOrder(a, s) ==
  \A i, j \in DOMAIN s :
    i < j /\ s[i] \in Messages /\ s[j] \in Messages /\ Alike(s[i], s[j]) => Before(a, s[i], s[j])

\* Every message of M came before the like messages of N.
AllBefore(a, M, N) == \A m \in M, n \in N : Alike(m, n) => Before(a, m, n)

Undelivered(js, later) == (Range(js) \cup Range(later)) \cap Messages

\* The messages started, then the buffered ones, then those of the jobs left.
Ordered(a, st, buf, js, later) ==
  /\ InOrder(a, st) /\ InOrder(a, js) /\ InOrder(a, later)
  /\ \A t \in Types : InOrder(a, buf[t])
  /\ Range(st) \subseteq Range(a)
  /\ AllBefore(a, Range(js) \cap Messages, Range(later) \cap Messages)
  /\ \A t \in Types :
       /\ AllBefore(a, Range(buf[t]), Undelivered(js, later))
       /\ AllBefore(a, Range(st), Range(buf[t]))
  /\ AllBefore(a, Range(st), Undelivered(js, later))

\* No interceptor holds a signal back, and the messages are in order.
OrderInv == Ordered(arrived, started, buffered, jobs, laterJobs) /\ intercepted = {}

(***************************************************************************)
(* Sequences                                                               *)
(***************************************************************************)
\* The elements of two sequences joined (`arrived \o S \o U`, the batches of an activation).
LEMMA ConcatElements ==
  ASSUME NEW S, NEW s \in Seq(S), NEW t \in Seq(S)
  PROVE  /\ s \o t \in Seq(S) /\ DOMAIN (s \o t) = 1 .. Len(s) + Len(t)
         /\ \A i \in DOMAIN s : i \in DOMAIN (s \o t) /\ (s \o t)[i] = s[i]
         /\ \A i \in DOMAIN t : Len(s) + i \in DOMAIN (s \o t) /\ (s \o t)[Len(s) + i] = t[i]
         /\ \A i \in DOMAIN (s \o t) : \/ i \in DOMAIN s
                                       \/ i - Len(s) \in DOMAIN t
         /\ Range(s \o t) = Range(s) \cup Range(t)
  <1>1. /\ s \o t \in Seq(S) /\ Len(s) \in Nat /\ Len(t) \in Nat
        /\ DOMAIN s = 1 .. Len(s) /\ DOMAIN t = 1 .. Len(t) /\ DOMAIN (s \o t) = 1 .. Len(s) + Len(t)
    OBVIOUS
  <1>2. \A i \in DOMAIN s : i \in DOMAIN (s \o t) /\ (s \o t)[i] = s[i] BY <1>1
  <1>3. \A i \in DOMAIN t : Len(s) + i \in DOMAIN (s \o t) /\ (s \o t)[Len(s) + i] = t[i] BY <1>1
  <1>4. \A i \in DOMAIN (s \o t) : \/ i \in DOMAIN s
                                   \/ i - Len(s) \in DOMAIN t /\ Len(s) + (i - Len(s)) = i
    BY <1>1
  <1>5. Range(s \o t) = Range(s) \cup Range(t)
    <2>1. ASSUME NEW x \in Range(s \o t) PROVE x \in Range(s) \cup Range(t)
      <3>1. PICK i \in DOMAIN (s \o t) : x = (s \o t)[i] BY Zenon DEF Range
      <3>2. CASE i \in DOMAIN s BY <3>1, <3>2, <1>2, Zenon DEF Range
      <3>3. CASE i - Len(s) \in DOMAIN t /\ Len(s) + (i - Len(s)) = i BY <3>1, <3>3, <1>3, Zenon DEF Range
      <3> QED BY <3>1, <3>2, <3>3, <1>4, Zenon
    <2>2. ASSUME NEW x \in Range(s) PROVE x \in Range(s \o t) BY <1>2, Zenon DEF Range
    <2>3. ASSUME NEW x \in Range(t) PROVE x \in Range(s \o t)
      <3>1. PICK i \in DOMAIN t : x = t[i] BY Zenon DEF Range
      <3> QED BY <3>1, <1>3, Zenon DEF Range
    <2> QED BY <2>1, <2>2, <2>3, Zenon
  <1> QED BY <1>1, <1>2, <1>3, <1>4, <1>5, Zenon

\* Sequences with no element twice and none in common join to one with no element twice.
LEMMA ConcatDistinct ==
  ASSUME NEW S, NEW s \in Seq(S), NEW t \in Seq(S), Distinct(s), Distinct(t),
         Range(s) \cap Range(t) = {}
  PROVE  Distinct(s \o t)
  <1>1. /\ Len(s) \in Nat /\ Len(t) \in Nat
        /\ DOMAIN s = 1 .. Len(s) /\ DOMAIN t = 1 .. Len(t) /\ DOMAIN (s \o t) = 1 .. Len(s) + Len(t)
    OBVIOUS
  <1>2. \A i \in DOMAIN (s \o t) : \/ i \in DOMAIN s /\ (s \o t)[i] = s[i]
                                   \/ i - Len(s) \in DOMAIN t /\ (s \o t)[i] = t[i - Len(s)]
    BY <1>1
  <1>3. \A i \in DOMAIN s, j \in DOMAIN t : s[i] # t[j] BY Zenon DEF Range
  <1>4. ASSUME NEW i \in DOMAIN (s \o t), NEW j \in DOMAIN (s \o t), (s \o t)[i] = (s \o t)[j]
        PROVE  i = j
    <2>1. CASE i \in DOMAIN s /\ (s \o t)[i] = s[i]
      BY <1>4, <2>1, <1>2, <1>3, Zenon DEF Distinct
    <2>2. CASE i - Len(s) \in DOMAIN t /\ (s \o t)[i] = t[i - Len(s)]
      <3>1. j - Len(s) \in DOMAIN t /\ (s \o t)[j] = t[j - Len(s)]
        BY <1>4, <2>2, <1>2, <1>3, Zenon
      <3>2. i - Len(s) = j - Len(s) BY <1>4, <2>2, <3>1, Zenon DEF Distinct
      <3> QED BY <3>2, <1>1
    <2> QED BY <2>1, <2>2, <1>2, Zenon
  <1> QED BY <1>4, Zenon DEF Distinct

\* The elements of a buffer or a stack that got one more.
LEMMA AppendElements ==
  ASSUME NEW S, NEW s \in Seq(S), NEW x \in S
  PROVE  /\ Append(s, x) \in Seq(S)
         /\ Range(Append(s, x)) = Range(s) \cup {x}
         /\ Distinct(s) /\ x \notin Range(s) => Distinct(Append(s, x))
  <1>1. /\ Append(s, x) \in Seq(S) /\ Len(s) \in Nat /\ DOMAIN s = 1 .. Len(s)
        /\ DOMAIN Append(s, x) = 1 .. Len(s) + 1 /\ Append(s, x)[Len(s) + 1] = x
        /\ \A i \in DOMAIN s : i \in DOMAIN Append(s, x) /\ Append(s, x)[i] = s[i]
        /\ Len(s) + 1 \in DOMAIN Append(s, x)
    OBVIOUS
  <1>2. \A i \in DOMAIN Append(s, x) : i \in DOMAIN s \/ i = Len(s) + 1 BY <1>1
  <1>3. Range(Append(s, x)) = Range(s) \cup {x} BY <1>1, <1>2, Zenon DEF Range
  <1>4. Distinct(s) /\ x \notin Range(s) => Distinct(Append(s, x))
    BY <1>1, <1>2, Zenon DEF Distinct, Range
  <1> QED BY <1>1, <1>3, <1>4, Zenon

\* Taking the first job leaves the others.
LEMMA TailElements ==
  ASSUME NEW S, NEW s \in Seq(S), s # <<>>
  PROVE  /\ Tail(s) \in Seq(S) /\ Head(s) \in S /\ Head(s) \in Range(s)
         /\ Range(s) = Range(Tail(s)) \cup {Head(s)}
         /\ Distinct(s) => Distinct(Tail(s)) /\ Head(s) \notin Range(Tail(s))
  <1>1. /\ Tail(s) \in Seq(S) /\ Len(s) \in Nat \ {0} /\ DOMAIN s = 1 .. Len(s)
        /\ DOMAIN Tail(s) = 1 .. Len(s) - 1 /\ Head(s) = s[1] /\ s[1] \in S /\ 1 \in DOMAIN s
    OBVIOUS
  <1>2. \A i \in DOMAIN Tail(s) : i + 1 \in DOMAIN s /\ Tail(s)[i] = s[i + 1] /\ i + 1 # 1 BY <1>1
  <1>3. \A i \in DOMAIN s : i = 1 \/ (i - 1 \in DOMAIN Tail(s) /\ Tail(s)[i - 1] = s[i]) BY <1>1
  <1>4. Range(s) = Range(Tail(s)) \cup {Head(s)}
    <2>1. ASSUME NEW x \in Range(s) PROVE x \in Range(Tail(s)) \cup {Head(s)}
      <3>1. PICK i \in DOMAIN s : x = s[i] BY Zenon DEF Range
      <3> QED BY <3>1, <1>1, <1>3, Zenon DEF Range
    <2>2. ASSUME NEW x \in Range(Tail(s)) PROVE x \in Range(s)
      <3>1. PICK i \in DOMAIN Tail(s) : x = Tail(s)[i] BY Zenon DEF Range
      <3> QED BY <3>1, <1>2, Zenon DEF Range
    <2>3. Head(s) \in Range(s) BY <1>1, Zenon DEF Range
    <2> QED BY <2>1, <2>2, <2>3, Zenon
  <1>5. ASSUME Distinct(s) PROVE Distinct(Tail(s)) /\ Head(s) \notin Range(Tail(s))
    <2>1. Head(s) \notin Range(Tail(s)) BY <1>1, <1>2, <1>5 DEF Distinct, Range
    <2>2. ASSUME NEW i \in DOMAIN Tail(s), NEW j \in DOMAIN Tail(s), Tail(s)[i] = Tail(s)[j]
          PROVE  i = j
      <3>1. i + 1 = j + 1 BY <1>2, <1>5, <2>2, Zenon DEF Distinct
      <3> QED BY <3>1, <1>1
    <2> QED BY <2>1, <2>2, Zenon DEF Distinct
  <1> QED BY <1>1, <1>4, <1>5, Zenon

\* splice(index, 1): the elements of a buffer without the one at position k.
LEMMA spliceElements ==
  ASSUME NEW S, NEW s \in Seq(S), NEW k \in DOMAIN s
  PROVE  /\ splice(s, k) \in Seq(S)
         /\ \A i \in DOMAIN splice(s, k) :
              /\ i < k => i \in DOMAIN s /\ splice(s, k)[i] = s[i]
              /\ i >= k => i + 1 \in DOMAIN s /\ splice(s, k)[i] = s[i + 1]
         /\ Range(s) = Range(splice(s, k)) \cup {s[k]}
         /\ Distinct(s) => Distinct(splice(s, k)) /\ s[k] \notin Range(splice(s, k))
  <1> DEFINE r == splice(s, k)
             n == Len(s)
             a == SubSeq(s, 1, k - 1)
             b == SubSeq(s, k + 1, n)
  <1>1. n \in Nat /\ DOMAIN s = 1 .. n /\ k \in 1 .. n OBVIOUS
  <1>2. /\ a \in Seq(S) /\ Len(a) = k - 1 /\ \A i \in 1 .. k - 1 : a[i] = s[i]
        /\ b \in Seq(S) /\ Len(b) = n - k /\ \A i \in 1 .. n - k : b[i] = s[k + i]
    BY <1>1, SMTT(20)
  <1>3. r = a \o b BY Zenon DEF splice
  <1> HIDE DEF r, a, b, n
  <1>4. r \in Seq(S) /\ Len(r) = n - 1 /\ DOMAIN r = 1 .. n - 1
    <2>1. a \in Seq(S) /\ b \in Seq(S) BY <1>2, Zenon
    <2>2. r \in Seq(S) /\ DOMAIN r = 1 .. Len(a) + Len(b) BY <2>1, <1>3, ConcatElements, Zenon
    <2>3. Len(a) = k - 1 /\ Len(b) = n - k BY <1>2, Zenon
    <2>4. Len(a) + Len(b) = n - 1 /\ n - 1 \in Nat BY ONLY <1>1, <2>3
    <2> QED BY <2>2, <2>4
  <1>5. \A i \in DOMAIN r : /\ i \in Nat
                            /\ i < k => i \in DOMAIN s /\ r[i] = s[i]
                            /\ i >= k => i + 1 \in DOMAIN s /\ r[i] = s[i + 1]
    <2>0. a \in Seq(S) /\ b \in Seq(S) BY <1>2, Zenon
    <2>1. \A i \in DOMAIN a : r[i] = a[i] BY <2>0, <1>3, ConcatElements
    <2>2. \A i \in DOMAIN b : r[Len(a) + i] = b[i] BY <2>0, <1>3, ConcatElements, SMTT(20)
    <2>5. DOMAIN a = 1 .. k - 1 /\ DOMAIN b = 1 .. n - k BY <2>0, <1>2
    <2>3. ASSUME NEW i \in 1 .. n - 1, i >= k PROVE i + 1 \in DOMAIN s /\ r[i] = s[i + 1]
      <3>1. i - (k - 1) \in 1 .. n - k /\ (k - 1) + (i - (k - 1)) = i /\ k + (i - (k - 1)) = i + 1
        BY <1>1, <2>3
      <3>2. r[(k - 1) + (i - (k - 1))] = b[i - (k - 1)] BY <3>1, <2>2, <2>5, <1>2, Zenon
      <3>3. b[i - (k - 1)] = s[k + (i - (k - 1))] BY <3>1, <1>2, Zenon
      <3> QED BY <3>1, <3>2, <3>3, <1>1, <2>3
    <2>4. ASSUME NEW i \in 1 .. n - 1, i < k PROVE i \in DOMAIN s /\ r[i] = s[i]
      <3>1. i \in 1 .. k - 1 /\ i \in 1 .. n BY <1>1, <2>4
      <3>2. r[i] = a[i] BY <3>1, <2>1, <2>5, Zenon
      <3>3. a[i] = s[i] BY <3>1, <1>2, Zenon
      <3> QED BY <3>1, <3>2, <3>3, <1>1, Zenon
    <2> QED BY <2>3, <2>4, <1>1, <1>4
  <1>6. \A i \in DOMAIN s : \/ i < k /\ i \in DOMAIN r
                            \/ i = k
                            \/ i > k /\ i - 1 \in DOMAIN r /\ i - 1 >= k /\ (i - 1) + 1 = i
    BY <1>1, <1>4
  <1>7. Range(s) = Range(r) \cup {s[k]}
    <2>1. ASSUME NEW x \in Range(s) PROVE x \in Range(r) \cup {s[k]}
      <3>1. PICK i \in DOMAIN s : x = s[i] BY Zenon DEF Range
      <3>2. CASE i < k /\ i \in DOMAIN r BY <3>1, <3>2, <1>5, Zenon DEF Range
      <3>3. CASE i - 1 \in DOMAIN r /\ i - 1 >= k /\ (i - 1) + 1 = i BY <3>1, <3>3, <1>5, Zenon DEF Range
      <3> QED BY <3>1, <3>2, <3>3, <1>6, Zenon
    <2>2. ASSUME NEW x \in Range(r) PROVE x \in Range(s)
      <3>1. PICK i \in DOMAIN r : x = r[i] BY Zenon DEF Range
      <3>2. i < k \/ i >= k BY <1>1, <1>4
      <3> QED BY <3>1, <3>2, <1>5, Zenon DEF Range
    <2> QED BY <2>1, <2>2, <1>1, Zenon DEF Range
  <1>8. ASSUME Distinct(s) PROVE Distinct(r) /\ s[k] \notin Range(r)
    <2>1. ASSUME NEW i \in DOMAIN r, NEW j \in DOMAIN r, r[i] = r[j] PROVE i = j
      <3> DEFINE at(x) == IF x < k THEN x ELSE x + 1
      <3>1. at(i) \in DOMAIN s /\ at(j) \in DOMAIN s /\ r[i] = s[at(i)] /\ r[j] = s[at(j)]
        BY <1>1, <1>4, <1>5
      <3>2. at(i) = at(j) BY <3>1, <2>1, <1>8, Zenon DEF Distinct
      <3> QED BY <3>2, <1>1, <1>4
    <2>2. ASSUME NEW i \in DOMAIN r PROVE r[i] # s[k]
      <3>1. i < k \/ i >= k BY <1>1, <1>4
      <3>2. i + 1 # k \/ i < k BY <1>1, <1>4
      <3> QED BY <3>1, <3>2, <1>1, <1>4, <1>5, <1>8 DEF Distinct
    <2> QED BY <2>1, <2>2, Zenon DEF Distinct, Range
  <1> QED BY <1>4, <1>5, <1>7, <1>8, Zenon DEF r

\* The sequences of unsent messages Core may choose from.
LEMMA UnsentElements ==
  ASSUME NEW M \in SUBSET Messages, IsFiniteSet(M), NEW s \in Unsent(M)
  PROVE  s \in Seq(M) /\ Distinct(s) /\ Range(s) \subseteq M \ Range(arrived)
  <1>1. PICK n \in 0 .. Cardinality(M \ Range(arrived)) : s \in Injection(1 .. n, M \ Range(arrived))
    BY Zenon DEF Unsent
  <1>2. n \in Nat BY <1>1
  <1>3. /\ s \in [1 .. n -> M \ Range(arrived)]
        /\ \A i, j \in 1 .. n : s[i] = s[j] => i = j
    BY <1>1, Zenon DEF Injection, IsInjective
  <1>4. s \in Seq(M) BY <1>2, <1>3
  <1>5. Distinct(s) BY <1>3, Zenon DEF Distinct
  <1>6. Range(s) \subseteq M \ Range(arrived) BY <1>3, Zenon DEF Range
  <1> QED BY <1>4, <1>5, <1>6, Zenon

(***************************************************************************)
(* Types                                                                   *)
(***************************************************************************)

\* The type of a message is one of the two.
LEMMA TypeOfTypes == \A m \in Messages : TypeOf(m) \in Types
  BY Zenon DEF TypeOf, Types, Messages

\* The dispatch of the buffered message at k, the first position of one with a handler.
Dispatches(t, k) ==
  /\ k \in DOMAIN buffered[t] /\ HasHandler(buffered[t][k])
  /\ \A i \in DOMAIN buffered[t] : HasHandler(buffered[t][i]) => k <= i
  /\ LET m   == buffered[t][k]
         buf == [buffered EXCEPT ![t] = splice(@, k)]
     IN  signalWorkflow(m, buf) \/ doUpdate(m, buf)

\* dispatchBufferedSignals and its like take the first message that has a handler.
LEMMA FirstDispatchable ==
  ASSUME NEW t \in Types, dispatchNext(t)
  PROVE  \E k : Dispatches(t, k)
  BY Zenon DEF dispatchNext, Dispatchable, First, Dispatches

\* Every execution starts well typed.
LEMMA InitTypes == Init => TypeOK
  <1> SUFFICES ASSUME Init PROVE TypeOK BY Zenon
  <1>1. buffered \in [Types -> Seq(Messages)] /\ answers \in [Updates -> Seq(Responses)]
    BY DEF Init
  <1>2. jobs \in Seq(Jobs) /\ laterJobs \in Seq(Jobs) /\ loops \in Seq(Types)
        /\ arrived \in Seq(Messages) /\ started \in Seq(Messages)
    BY DEF Init
  <1> QED BY <1>1, <1>2, Zenon DEF Init, TypeOK, Phases

\* Every step keeps the types.
LEMMA NextTypes == TypeOK /\ [Next]_vars => TypeOK'
  \* The variables signalWorkflow and doUpdate assign keep their types.
  <1>DeliverTypes. ASSUME TypeOK, NEW m \in Messages, NEW buf \in [Types -> Seq(Messages)],
                          signalWorkflow(m, buf) \/ doUpdate(m, buf)
                   PROVE  /\ buffered' \in [Types -> Seq(Messages)]
                          /\ inProgress' \in SUBSET Messages /\ intercepted' \in SUBSET Signals
                          /\ running' \in SUBSET Messages /\ finalizing' \in SUBSET Messages
                          /\ checkConditions' \in BOOLEAN /\ code' \in BOOLEAN /\ awake' \in BOOLEAN
                          /\ answers' \in [Updates -> Seq(Responses)] /\ started' \in Seq(Messages)
                          /\ waited' \in SUBSET Messages /\ recorded' \in BOOLEAN
    <2> USE <1>DeliverTypes
    <2>1. TypeOf(m) \in Types BY TypeOfTypes, Zenon
    <2>2. CASE ToBuffer(m, buf)
      <3>1. [buf EXCEPT ![TypeOf(m)] = Append(@, m)] \in [Types -> Seq(Messages)] BY <2>1
      <3> QED BY <2>2, <3>1, Zenon DEF ToBuffer, runVars, TypeOK
    <2>3. CASE /\ m \in Signals /\ buffered' = buf /\ inProgress' = inProgress \cup {m}
               /\ IF InterceptorYields
                  THEN /\ intercepted' = intercepted \cup {m}
                       /\ code' = FALSE /\ awake' = TRUE
                       /\ UNCHANGED <<running, started>>
                  ELSE Runs(m) /\ UNCHANGED intercepted
               /\ UNCHANGED <<finalizing, checkConditions, recorded, waited, answers>>
      <3>1. CASE InterceptorYields BY <2>3, <3>1, Zenon DEF TypeOK
      <3>2. CASE ~InterceptorYields
        <4>1. started' = Append(started, m) /\ running' = running \cup {m} /\ code' = TRUE
              /\ awake' = TRUE /\ UNCHANGED intercepted
          BY <2>3, <3>2, Zenon DEF Runs
        <4>2. started' \in Seq(Messages) BY <4>1 DEF TypeOK
        <4> QED BY <2>3, <4>1, <4>2, Zenon DEF TypeOK
      <3> QED BY <3>1, <3>2, Zenon
    <2>4. CASE m \in Updates /\ doUpdate(m, buf) /\ ~ToBuffer(m, buf)
      <3>1. \A r \in Responses : [answers EXCEPT ![m] = Append(@, r)] \in [Updates -> Seq(Responses)]
        BY <2>4 DEF TypeOK
      <3>2. answers' \in [Updates -> Seq(Responses)]
        BY <2>4, <3>1, Zenon DEF doUpdate, pushResponse, acceptUpdate, Responses
      <3>3. CASE buffered' = buf /\ code' = FALSE
                 /\ UNCHANGED <<runVars, checkConditions, recorded, waited, awake, started>>
        BY <3>2, <3>3, Zenon DEF runVars, TypeOK
      <3>4. CASE /\ buffered' = buf /\ acceptUpdate(m) /\ inProgress' = inProgress \cup {m}
                 /\ Runs(m) /\ UNCHANGED <<intercepted, finalizing, waited>>
        <4>1. started' \in Seq(Messages) BY <3>4 DEF Runs, TypeOK
        <4> QED BY <3>2, <3>4, <4>1, Zenon DEF Runs, acceptUpdate, TypeOK
      <3> QED BY <2>4, <3>3, <3>4, Zenon DEF doUpdate
    <2>5. signalWorkflow(m, buf) => m \in Signals BY Zenon DEF signalWorkflow
    <2>6. doUpdate(m, buf) => m \in Updates BY Zenon DEF doUpdate
    <2> QED BY <2>2, <2>3, <2>4, <2>5, <2>6, Zenon DEF signalWorkflow
  \* How a workflow fails leaves the types alone.
  <1>FailureTypes.
    ASSUME TypeOK, NEW how \in Failures, handleWorkflowFailure(how)
    PROVE  completed' \in BOOLEAN /\ error' \in BOOLEAN /\ inProgress' \in SUBSET Messages
    BY <1>FailureTypes, Zenon DEF handleWorkflowFailure, Failures, TypeOK
  \* A new activation: the jobs are jobs, and what arrives are messages.
  <1>ActivateTypes.
    ASSUME TypeOK, NEW S \in Unsent(Signals), NEW U \in Unsent(Updates),
           NEW rest \in {<<>>, <<"initialize">>, <<"other">>}, NEW single \in BOOLEAN,
           activate(S, U, rest, single), value' \in BOOLEAN
    PROVE  TypeOK'
    <2> USE <1>ActivateTypes
    <2>1. S \in Seq(Signals) /\ U \in Seq(Updates)
      BY UnsentElements, MessagesAssumption, Zenon DEF Messages
    <2>2. S \in Seq(Messages) /\ U \in Seq(Messages)
      BY <2>1 DEF Messages
    <2>3. S \in Seq(Jobs) /\ U \in Seq(Jobs) /\ rest \in Seq(Jobs) /\ <<>> \in Seq(Jobs)
      <3>1. Messages \subseteq Jobs /\ "initialize" \in Jobs /\ "other" \in Jobs BY Zenon DEF Jobs
      <3>2. S \in Seq(Jobs) /\ U \in Seq(Jobs) BY <2>2, <3>1
      <3>3. <<>> \in Seq(Jobs) /\ <<"initialize">> \in Seq(Jobs) /\ <<"other">> \in Seq(Jobs) BY <3>1
      <3> QED BY <3>2, <3>3, Zenon
    <2>4. S \o U \in Seq(Jobs) /\ S \o U \o rest \in Seq(Jobs) /\ U \o rest \in Seq(Jobs)
      BY <2>3
    <2>5. arrived \o S \o U \in Seq(Messages) BY <2>2 DEF TypeOK
    <2>6. jobs' \in Seq(Jobs) /\ laterJobs' \in Seq(Jobs) /\ arrived' \in Seq(Messages)
      BY <2>3, <2>4, <2>5, Zenon DEF activate
    <2>7. singleBatch' \in BOOLEAN /\ phase' \in Phases /\ checkConditions' \in BOOLEAN
          /\ awake' \in BOOLEAN /\ recorded' \in BOOLEAN
      BY Zenon DEF activate, Phases
    <2> QED BY <2>6, <2>7, SMTT(20) DEF activate, TypeOK, handlerVars, runVars
  \* Steps of workflow code keep the types.
  <1>CodeTypes. ASSUME TypeOK, WorkflowCode
                PROVE  TypeOK'
    <2> USE <1>CodeTypes
    <2> USE DEF codeUnchanged, runVars, loopVars, conditionVars, handlerVars, historyVars
    <2>0. ASSUME NEW t \in Types, EnterLoop(t) PROVE loops' \in Seq(Types) /\ code' \in BOOLEAN
      <3>1. Append(loops, t) \in Seq(Types) BY AppendElements, Zenon DEF TypeOK
      <3>2. CASE buffered[t] = <<>> BY <2>0, <3>2, Zenon DEF EnterLoop, TypeOK
      <3>3. CASE buffered[t] # <<>> BY <2>0, <3>1, <3>3, Zenon DEF EnterLoop
      <3> QED BY <3>2, <3>3, Zenon
    <2>1. ASSUME NEW t \in Types, NEW n \in Names, setHandler(t, n) \/ deleteHandler(t, n)
          PROVE  TypeOK'
      <3>1. handlers' \in [Types -> SUBSET Names]
        BY <2>1, Zenon DEF setHandler, deleteHandler, TypeOK
      <3>2. loops' \in Seq(Types) /\ code' \in BOOLEAN
        BY <2>0, <2>1, Zenon DEF setHandler, deleteHandler, TypeOK
      <3> QED BY <2>1, <3>1, <3>2 DEF setHandler, deleteHandler, TypeOK
    <2>2. ASSUME NEW t \in Types, setDefaultHandler(t) \/ unsetDefaultHandler(t) PROVE TypeOK'
      <3>1. default' \in [Types -> BOOLEAN]
        BY <2>2, Zenon DEF setDefaultHandler, unsetDefaultHandler, TypeOK
      <3>2. loops' \in Seq(Types) /\ code' \in BOOLEAN
        BY <2>0, <2>2, Zenon DEF setDefaultHandler, unsetDefaultHandler, TypeOK
      <3> QED BY <2>2, <3>1, <3>2 DEF setDefaultHandler, unsetDefaultHandler, TypeOK
    <2>3. ASSUME changeValue PROVE TypeOK' BY <2>3, Zenon DEF changeValue, TypeOK
    <2>4. ASSUME NEW c \in Conditions, condition(c) PROVE TypeOK'
      <3>1. conditions' \in [Conditions -> {"idle", "blocked", "resolved"}]
        BY <2>4, Zenon DEF condition, TypeOK
      <3> QED BY <2>4, <3>1, Zenon DEF condition, TypeOK
    <2>5. ASSUME NEW how \in Failures, mainEnds(how) PROVE TypeOK'
      <3>1. completed' \in BOOLEAN /\ error' \in BOOLEAN /\ inProgress' \in SUBSET Messages
        BY <2>5, <1>FailureTypes, Zenon DEF mainEnds
      <3> QED BY <2>5, <3>1, Zenon DEF mainEnds, TypeOK
    <2>6. ASSUME NEW m \in Messages, Settles(m), answers' \in [Updates -> Seq(Responses)],
                 completed' \in BOOLEAN, error' \in BOOLEAN, inProgress' \in SUBSET Messages
          PROVE  TypeOK'
      BY <2>6, Zenon DEF Settles, TypeOK
    <2>7. ASSUME NEW m \in Messages, handlerReturns(m) \/ updateFails(m) PROVE TypeOK'
      <3>1. \A u \in Updates, r \in Responses :
              [answers EXCEPT ![u] = Append(@, r)] \in [Updates -> Seq(Responses)]
        BY DEF TypeOK
      <3>2. answers' \in [Updates -> Seq(Responses)]
        BY <2>7, <3>1, Zenon DEF handlerReturns, updateFails, pushResponse, Responses, TypeOK
      <3>3. Settles(m) /\ UNCHANGED <<inProgress, completed, error>>
        BY <2>7, Zenon DEF handlerReturns, updateFails
      <3> QED BY <3>2, <3>3, <2>6, Zenon DEF TypeOK
    <2>8. ASSUME NEW m \in Messages, NEW how \in Failures, handlerThrows(m, how) PROVE TypeOK'
      <3>1. completed' \in BOOLEAN /\ error' \in BOOLEAN /\ inProgress' \in SUBSET Messages
        BY <2>8, <1>FailureTypes, Zenon DEF handlerThrows
      <3> QED BY <2>6, <2>8, <3>1, Zenon DEF handlerThrows, TypeOK
    <2> QED BY <2>1, <2>2, <2>3, <2>4, <2>5, <2>7, <2>8, TypeOfTypes, Zenon DEF WorkflowCode
  \* The dispatch loops keep the types.
  <1>DispatchTypes. ASSUME TypeOK, Dispatch
                    PROVE  TypeOK'
    <2> USE <1>DispatchTypes
    <2> USE DEF runVars, loopVars, conditionVars, handlerVars, historyVars
    <2>1. ASSUME handlerAwaits PROVE TypeOK' BY <2>1, Zenon DEF handlerAwaits, TypeOK
    <2>2. ASSUME NEW t \in Types, dispatchNext(t) PROVE TypeOK'
      <3>0. PICK k : Dispatches(t, k) BY <2>2, FirstDispatchable, Zenon
      <3> DEFINE m == buffered[t][k]
                 buf == [buffered EXCEPT ![t] = splice(@, k)]
      <3>1. k \in DOMAIN buffered[t] BY <3>0, Zenon DEF Dispatches
      <3>2. m \in Messages /\ buf \in [Types -> Seq(Messages)]
        BY <3>1, spliceElements DEF TypeOK
      <3>3. signalWorkflow(m, buf) \/ doUpdate(m, buf) BY <3>0, Zenon DEF Dispatches
      <3> HIDE DEF m, buf
      <3> QED BY <2>2, <3>2, <3>3, <1>DeliverTypes, Zenon DEF dispatchNext, TypeOK
    <2>3. ASSUME NEW t \in Types, dispatchEnds(t) PROVE TypeOK'
      <3>1. loops' \in Seq(Types) BY <2>3 DEF dispatchEnds, InLoop, TypeOK
      <3> QED BY <2>3, <3>1, Zenon DEF dispatchEnds, TypeOK
    <2> QED BY <2>1, <2>2, <2>3, Zenon DEF Dispatch
  \* Other microtasks keep the types.
  <1>MicrotaskTypes. ASSUME TypeOK, Microtasks
                     PROVE  TypeOK'
    <2> USE <1>MicrotaskTypes
    <2> USE DEF codeUnchanged, runVars, loopVars, conditionVars, handlerVars, historyVars
    <2>1. ASSUME NEW c \in Conditions, resume(c) PROVE TypeOK'
      <3>1. conditions' \in [Conditions -> {"idle", "blocked", "resolved"}]
        BY <2>1, Zenon DEF resume, TypeOK
      <3> QED BY <2>1, <3>1, Zenon DEF resume, TypeOK
    <2>2. ASSUME NEW m \in Messages, finalize(m) PROVE TypeOK' BY <2>2, Zenon DEF finalize, TypeOK
    <2>3. ASSUME NEW m \in Messages, signalWorkflowNextHandler(m) PROVE TypeOK'
      <3>1. CASE HasHandler(m)
        <4>1. Runs(m) /\ UNCHANGED <<inProgress, finalizing, completed, error>>
          BY <2>3, <3>1, Zenon DEF signalWorkflowNextHandler
        <4>2. started' \in Seq(Messages) BY <4>1, AppendElements, Zenon DEF Runs, TypeOK
        <4>3. running' \in SUBSET Messages /\ code' \in BOOLEAN /\ awake' \in BOOLEAN
          BY <4>1, Zenon DEF Runs, TypeOK
        <4> QED BY <2>3, <4>1, <4>2, <4>3, Zenon DEF signalWorkflowNextHandler, TypeOK
      <3>2. CASE ~HasHandler(m)
        <4>1. completed' \in BOOLEAN /\ error' \in BOOLEAN /\ inProgress' \in SUBSET Messages
          BY <2>3, <3>2, <1>FailureTypes, Zenon DEF signalWorkflowNextHandler, Failures
        <4> QED BY <2>3, <3>2, <4>1, Zenon DEF signalWorkflowNextHandler, TypeOK
      <3> QED BY <3>1, <3>2, Zenon
    <2> QED BY <2>1, <2>2, <2>3, Zenon DEF Microtasks
  \* Jobs and the activation loop keep the types.
  <1>LoopTypes. ASSUME TypeOK, Loop
                PROVE  TypeOK'
    <2> USE <1>LoopTypes
    <2> USE DEF runVars, loopVars, conditionVars, handlerVars, historyVars
    <2>0. ASSUME TakesJob PROVE jobs' \in Seq(Jobs) /\ phase' \in Phases /\ Head(jobs) \in Jobs
      BY <2>0, TailElements, Zenon DEF TakesJob, TypeOK, Phases
    <2>1. ASSUME messageJob PROVE TypeOK'
      <3>1. Head(jobs) \in Messages
        BY <2>1, Zenon DEF messageJob, signalWorkflow, doUpdate, Messages
      <3>2. /\ signalWorkflow(Head(jobs), buffered) \/ doUpdate(Head(jobs), buffered)
            /\ buffered \in [Types -> Seq(Messages)] /\ TakesJob
        BY <2>1, Zenon DEF messageJob, TypeOK
      <3> QED BY <2>0, <2>1, <3>1, <3>2, <1>DeliverTypes, Zenon DEF messageJob, TypeOK
    <2>2. ASSUME otherJob PROVE TypeOK'
      BY <2>0, <2>2, Zenon DEF otherJob, TypeOK
    <2>3. ASSUME startWorkflow PROVE TypeOK'
      BY <2>0, <2>3, Zenon DEF startWorkflow, TypeOK
    <2>T. ASSUME tryUnblockConditions
          PROVE  /\ conditions' \in [Conditions -> {"idle", "blocked", "resolved"}]
                 /\ awake' \in BOOLEAN
      BY <2>T, Zenon DEF tryUnblockConditions, TypeOK
    <2>4. ASSUME jobReturns PROVE TypeOK'
      BY <2>4, <2>T, Zenon DEF jobReturns, TypeOK, Phases
    <2>5. ASSUME batchReturns PROVE TypeOK' BY <2>5, Zenon DEF batchReturns, TypeOK, Phases
    <2>6. ASSUME failActivation PROVE TypeOK' BY <2>6, Zenon DEF failActivation, TypeOK, Phases
    <2>7. ASSUME unblock PROVE TypeOK' BY <2>7, <2>T, Zenon DEF unblock, TypeOK
    <2>8. ASSUME nextBatch PROVE TypeOK'
      <3>1. jobs' \in Seq(Jobs) /\ laterJobs' \in Seq(Jobs) BY <2>8 DEF nextBatch, TypeOK
      <3> QED BY <2>8, <3>1, Zenon DEF nextBatch, TypeOK, Phases
    <2>9. ASSUME concludeActivation PROVE TypeOK'
      <3>1. buffered' \in [Types -> Seq(Messages)]
        <4>1. buffered' = [buffered EXCEPT !["update"] = <<>>] /\ <<>> \in Seq(Messages)
          BY <2>9 DEF concludeActivation, rejectBufferedUpdates
        <4> QED BY <4>1, Zenon DEF TypeOK
      <3>2. answers' \in [Updates -> Seq(Responses)]
        <4>1. \A u \in Updates : answers[u] \in Seq(Responses) /\ Append(answers[u], "rejected") \in Seq(Responses)
          BY AppendElements, Zenon DEF TypeOK, Responses
        <4> QED BY <2>9, <4>1, Zenon DEF concludeActivation, rejectBufferedUpdates
      <3> QED BY <2>9, <3>1, <3>2, Zenon DEF concludeActivation, TypeOK, Phases
    <2> QED BY <2>1, <2>2, <2>3, <2>4, <2>5, <2>6, <2>7, <2>8, <2>9, Zenon DEF Loop
  <1> SUFFICES ASSUME TypeOK, [Next]_vars PROVE TypeOK' BY Zenon
  <1>1. CASE firstActivation
    <2>1. value' \in BOOLEAN BY <1>1, Zenon DEF firstActivation, TypeOK
    <2> QED BY <1>1, <2>1, <1>ActivateTypes, Zenon DEF firstActivation
  <1>2. CASE nextActivation
    <2>1. value' \in BOOLEAN BY <1>2, Zenon DEF nextActivation, TypeOK
    <2> QED BY <1>2, <2>1, <1>ActivateTypes, Zenon DEF nextActivation
  <1>3. CASE Evicted \/ UNCHANGED vars BY <1>3 DEF Evicted, vars, TypeOK
  <1> QED BY <1>1, <1>2, <1>3, <1>CodeTypes, <1>DispatchTypes, <1>MicrotaskTypes, <1>LoopTypes, Zenon DEF Next

(***************************************************************************)
(* The shape of the activation loop                                        *)
(***************************************************************************)
ShapeInv == LoopInv /\ RecordInv /\ BatchInv

\* The first activation has not come yet: there are no jobs.
LEMMA InitShape == Init => ShapeInv
  BY DEF Init, ShapeInv, LoopInv, RecordInv, BatchInv, Range

\* What delivering a message does to control and to what is recorded: workflow code wakes
\* up for a signal with a handler or an accepted update, and that update is recorded.
LEMMA DeliverWakes ==
  ASSUME TypeOK, NEW m, NEW buf, signalWorkflow(m, buf) \/ doUpdate(m, buf)
  PROVE  /\ UNCHANGED finalizing /\ (code' => awake') /\ (awake => awake')
         /\ (recorded => recorded') /\ (checkConditions => checkConditions')
         /\ awake' => awake \/ m \in Signals \/ (recorded' /\ checkConditions')
         /\ checkConditions' => checkConditions \/ recorded'
  <1>1. CASE ToBuffer(m, buf) BY <1>1, Zenon DEF ToBuffer, runVars
  <1>2. CASE signalWorkflow(m, buf) /\ ~ToBuffer(m, buf)
    <2>1. CASE InterceptorYields BY <1>2, <2>1 DEF signalWorkflow
    <2>2. CASE ~InterceptorYields BY <1>2, <2>2 DEF signalWorkflow, Runs
    <2> QED BY <2>1, <2>2, Zenon
  <1>3. CASE doUpdate(m, buf) /\ ~ToBuffer(m, buf)
    BY <1>3 DEF doUpdate, Runs, acceptUpdate, runVars
  <1> QED BY <1>1, <1>2, <1>3, Zenon

\* The jobs of a batch: messages and at most one other job, the last one.
LEMMA BatchElements ==
  ASSUME NEW s \in Seq(Messages), NEW rest \in {<<>>, <<"initialize">>, <<"other">>}
  PROVE  /\ s \o rest \in Seq(Jobs) /\ Range(s \o rest) = Range(s) \cup Range(rest)
         /\ Range(s) \subseteq Messages
         /\ Range(rest) \cap Messages = {} /\ Distinct(rest)
         /\ Range(rest) # {} <=> rest # <<>>
         /\ \A i \in DOMAIN (s \o rest) : (s \o rest)[i] = "initialize" => i = Len(s \o rest)
  <1>1. Messages \subseteq Jobs /\ "initialize" \in Jobs /\ "other" \in Jobs BY Zenon DEF Jobs
  <1>2. s \in Seq(Jobs) BY <1>1
  <1>3. rest \in Seq(Jobs)
    <2>1. <<>> \in Seq(Jobs) /\ <<"initialize">> \in Seq(Jobs) /\ <<"other">> \in Seq(Jobs) BY <1>1
    <2> QED BY <2>1, Zenon
  <1>4. Range(s) \subseteq Messages BY DEF Range
  <1>5. \/ rest = <<>> /\ Len(rest) = 0 /\ DOMAIN rest = {} /\ Range(rest) = {}
        \/ Len(rest) = 1 /\ DOMAIN rest = {1} /\ rest[1] \notin Messages /\ Range(rest) = {rest[1]}
           /\ rest # <<>>
    <2>1. CASE rest = <<>> BY <2>1 DEF Range
    <2>2. CASE rest = <<"initialize">> BY <2>2, MessagesAssumption DEF Range
    <2>3. CASE rest = <<"other">> BY <2>3, MessagesAssumption DEF Range
    <2> QED BY <2>1, <2>2, <2>3, Zenon
  <1>6. Range(rest) \cap Messages = {} /\ Distinct(rest) /\ (Range(rest) # {} <=> rest # <<>>)
    BY <1>5, Zenon DEF Distinct
  <1>7. s \o rest \in Seq(Jobs) /\ Range(s \o rest) = Range(s) \cup Range(rest)
    BY <1>2, <1>3, ConcatElements
  <1>8. \A i \in DOMAIN (s \o rest) : (s \o rest)[i] = "initialize" => i = Len(s \o rest)
    <2> SUFFICES ASSUME NEW i \in DOMAIN (s \o rest), (s \o rest)[i] = "initialize"
                 PROVE  i = Len(s \o rest)
      BY Zenon
    <2>1. i \notin DOMAIN s
      <3>1. i \in DOMAIN s => s[i] \in Messages /\ (s \o rest)[i] = s[i]
        BY <1>2, <1>3, ConcatElements
      <3> QED BY <3>1, MessagesAssumption, Zenon
    <2>2. i - Len(s) \in DOMAIN rest BY <1>2, <1>3, <2>1, ConcatElements, Zenon
    <2>3. i - Len(s) = 1 /\ Len(rest) = 1 BY <1>5, <2>2
    <2>4. Len(s \o rest) = Len(s) + Len(rest) /\ Len(s) \in Nat /\ i \in Nat
      BY <1>2, <1>3
    <2> QED BY <2>3, <2>4
  <1> QED BY <1>4, <1>6, <1>7, <1>8, Zenon

\* What a new activation brings: the jobs of its two batches, and the messages that arrive.
LEMMA ActivateElements ==
  ASSUME TypeOK, NEW S \in Unsent(Signals), NEW U \in Unsent(Updates),
         NEW rest \in {<<>>, <<"initialize">>, <<"other">>}, NEW single \in BOOLEAN,
         activate(S, U, rest, single)
  PROVE  /\ S \in Seq(Messages) /\ U \in Seq(Messages)
         /\ Range(S) \subseteq Signals \ Range(arrived) /\ Distinct(S)
         /\ Range(U) \subseteq Updates \ Range(arrived) /\ Distinct(U)
         /\ arrived' = arrived \o (S \o U) /\ S \o U \in Seq(Messages)
         /\ Range(S \o U) = Range(S) \cup Range(U) /\ Distinct(S \o U)
  <1>1. /\ S \in Seq(Signals) /\ Distinct(S) /\ Range(S) \subseteq Signals \ Range(arrived)
        /\ U \in Seq(Updates) /\ Distinct(U) /\ Range(U) \subseteq Updates \ Range(arrived)
    BY UnsentElements, MessagesAssumption, Zenon DEF Messages
  <1>2. S \in Seq(Messages) /\ U \in Seq(Messages) BY <1>1 DEF Messages
  <1>3. S \o U \in Seq(Messages) /\ Range(S \o U) = Range(S) \cup Range(U)
    BY <1>2, ConcatElements
  <1>4. Distinct(S \o U) BY <1>1, <1>2, ConcatDistinct, MessagesAssumption, Zenon
  <1>5. arrived' = arrived \o (S \o U)
    <2>1. arrived' = (arrived \o S) \o U BY Zenon DEF activate
    <2>2. arrived \in Seq(Messages) BY Zenon DEF TypeOK
    <2>3. (arrived \o S) \o U = arrived \o (S \o U) BY ONLY <2>2, <1>2
    <2> QED BY <2>1, <2>3, Zenon
  <1> QED BY <1>1, <1>2, <1>3, <1>4, <1>5, Zenon

\* One batch holds everything, or the signals are a batch of their own.
LEMMA ActivateBatches ==
  ASSUME NEW S, NEW U, NEW rest, NEW single, activate(S, U, rest, single)
  PROVE  \/ jobs' = (S \o U) \o rest /\ laterJobs' = <<>>
         \/ jobs' = S /\ laterJobs' = U \o rest /\ ~singleBatch'
  BY Zenon DEF activate

\* Every step keeps the shape of the loop.
LEMMA NextShape == TypeOK /\ ShapeInv /\ [Next]_vars => ShapeInv'
  \* A step inside a handler or a microtask that takes no job keeps the shape when workflow
  \* code is awake.
  <1>AwakeShape.
    ASSUME TypeOK, ShapeInv, phase \in {"handler", "microtasks"}, awake, awake',
           recorded => recorded', checkConditions => checkConditions',
           main' \in {main, "ended"}, phase = "microtasks" \/ UNCHANGED <<finalizing, completed>>,
           UNCHANGED <<phase, jobs, laterJobs, singleBatch>>
    PROVE  ShapeInv'
    <2> USE <1>AwakeShape
    <2> USE DEF ShapeInv
    <2>1. LoopInv' BY Zenon DEF LoopInv
    <2>2. RecordInv' BY Zenon DEF RecordInv
    <2>3. BatchInv'
      <3>1. phase = "microtasks" => jobs = <<>> BY Zenon DEF LoopInv
      <3>2. phase = "microtasks" => Range(jobs) = {} BY <3>1 DEF Range
      <3> QED BY <3>2 DEF BatchInv
    <2> QED BY <2>1, <2>2, <2>3, Zenon
  \* Steps of workflow code keep the shape.
  <1>CodeShape. ASSUME TypeOK, ShapeInv, WorkflowCode
                PROVE  ShapeInv'
    <2> USE <1>CodeShape
    <2> USE DEF codeUnchanged, runVars, loopVars, historyVars
    <2>0. /\ code => awake /\ phase \in {"handler", "microtasks"}
          /\ awake => recorded /\ checkConditions
      BY Zenon DEF ShapeInv, LoopInv, RecordInv
    <2>1. ASSUME code, codeUnchanged PROVE ShapeInv'
      BY <2>0, <2>1, <1>AwakeShape, Zenon
    <2>2. ASSUME NEW t, NEW n, setHandler(t, n) \/ deleteHandler(t, n) PROVE ShapeInv'
      BY <2>1, <2>2, Zenon DEF setHandler, deleteHandler
    <2>3. ASSUME NEW t, setDefaultHandler(t) \/ unsetDefaultHandler(t) PROVE ShapeInv'
      BY <2>1, <2>3, Zenon DEF setDefaultHandler, unsetDefaultHandler
    <2>4. ASSUME changeValue \/ \E c \in Conditions : condition(c) PROVE ShapeInv'
      BY <2>1, <2>4, Zenon DEF changeValue, condition
    <2>5. ASSUME NEW how \in Failures, mainEnds(how) PROVE ShapeInv'
      BY <2>0, <2>5, <1>AwakeShape, Zenon DEF mainEnds, MainRuns
    <2>6. ASSUME NEW m \in Messages, Settles(m) PROVE ShapeInv'
      BY <2>0, <2>6, <1>AwakeShape, Zenon DEF Settles, InMicrotasks
    <2> QED BY <2>2, <2>3, <2>4, <2>5, <2>6, Zenon
            DEF WorkflowCode, handlerReturns, updateFails, handlerThrows
  \* The dispatch loops keep the shape.
  <1>DispatchShape. ASSUME TypeOK, ShapeInv, Dispatch
                    PROVE  ShapeInv'
    <2> USE <1>DispatchShape
    <2> USE DEF runVars, loopVars, historyVars
    <2>0. /\ code \/ loops # <<>> => awake /\ phase \in {"handler", "microtasks"}
          /\ awake => recorded /\ checkConditions
      BY Zenon DEF ShapeInv, LoopInv, RecordInv
    <2>1. ASSUME handlerAwaits PROVE ShapeInv'
      BY <2>0, <2>1, <1>AwakeShape, Zenon DEF handlerAwaits
    <2>2. ASSUME NEW t \in Types, dispatchNext(t) PROVE ShapeInv'
      <3>1. loops # <<>> /\ UNCHANGED <<phase, jobs, laterJobs, singleBatch, main, completed>>
        BY <2>2, Zenon DEF dispatchNext, InLoop
      <3>2. /\ UNCHANGED finalizing /\ (awake => awake')
            /\ (recorded => recorded') /\ (checkConditions => checkConditions')
        BY <2>2, DeliverWakes, Zenon DEF dispatchNext
      <3> QED BY <2>0, <3>1, <3>2, <1>AwakeShape, Zenon
    <2>3. ASSUME NEW t \in Types, dispatchEnds(t) PROVE ShapeInv'
      BY <2>0, <2>3, <1>AwakeShape, Zenon DEF dispatchEnds, InLoop
    <2> QED BY <2>1, <2>2, <2>3, Zenon DEF Dispatch
  \* Other microtasks keep the shape.
  <1>MicrotaskShape. ASSUME TypeOK, ShapeInv, Microtasks
                     PROVE  ShapeInv'
    <2> USE <1>MicrotaskShape
    <2> USE DEF codeUnchanged, runVars, loopVars, historyVars
    <2>0. /\ finalizing # {} => awake
          /\ awake => recorded /\ checkConditions
      BY Zenon DEF ShapeInv, LoopInv, RecordInv
    <2>1. ASSUME NEW c \in Conditions, resume(c) PROVE ShapeInv'
      BY <2>1, Zenon DEF resume, ShapeInv, LoopInv, RecordInv, BatchInv
    <2>2. ASSUME NEW m \in Messages, finalize(m) PROVE ShapeInv'
      BY <2>0, <2>2, <1>AwakeShape, Zenon DEF finalize, InMicrotasks
    <2>3. ASSUME NEW m \in Messages, signalWorkflowNextHandler(m) PROVE ShapeInv'
      <3>1. awake' BY <2>3, Zenon DEF signalWorkflowNextHandler, Runs
      <3> QED BY <2>0, <2>3, <3>1, <1>AwakeShape, Zenon DEF signalWorkflowNextHandler, InMicrotasks
    <2> QED BY <2>1, <2>2, <2>3, Zenon DEF Microtasks
  \* A job is taken: the jobs left are some of the ones there were, and "initialize" is the
  \* last one.
  <1>TakesJobShape.
    ASSUME TypeOK, ShapeInv, TakesJob, code' => awake', recorded => recorded',
           checkConditions => checkConditions', awake' => recorded' /\ checkConditions',
           checkConditions' => checkConditions \/ recorded',
           main' = main \/ Head(jobs) = "initialize",
           UNCHANGED <<laterJobs, singleBatch, completed, error, loops, finalizing>>
    PROVE  ShapeInv'
    <2> USE <1>TakesJobShape
    <2> USE DEF ShapeInv
    <2>0. phase = "jobs" /\ phase' = "handler" /\ jobs # <<>> /\ jobs' = Tail(jobs)
      BY Zenon DEF TakesJob
    <2>1. /\ Len(jobs) \in Nat \ {0} /\ DOMAIN jobs' = 1 .. Len(jobs) - 1 /\ Len(jobs') = Len(jobs) - 1
          /\ \A i \in DOMAIN jobs' : i + 1 \in DOMAIN jobs /\ jobs'[i] = jobs[i + 1]
          /\ Head(jobs) = jobs[1] /\ 1 \in DOMAIN jobs
      BY <2>0 DEF TypeOK
    <2>2. \A i \in DOMAIN jobs' : jobs'[i] = "initialize" => i = Len(jobs')
      <3> SUFFICES ASSUME NEW i \in DOMAIN jobs', jobs'[i] = "initialize" PROVE i = Len(jobs')
        BY Zenon
      <3>1. i + 1 = Len(jobs) BY <2>1, Zenon DEF LoopInv
      <3> QED BY <2>1, <3>1
    <2>3. Head(jobs) = "initialize" => jobs' = <<>>
      <3> SUFFICES ASSUME Head(jobs) = "initialize" PROVE jobs' = <<>> BY Zenon
      <3>1. 1 = Len(jobs) BY <2>1, Zenon DEF LoopInv
      <3> QED BY <2>0, <3>1 DEF TypeOK
    <2>4. LoopInv' BY <2>0, <2>2, <2>3, Zenon DEF LoopInv
    <2>5. Range(jobs') \subseteq Range(jobs) BY <2>0, TailElements DEF TypeOK
    <2>6. RecordInv' BY <2>0, <2>5, Zenon DEF RecordInv
    <2>7. BatchInv' BY <2>5, Zenon DEF BatchInv
    <2> QED BY <2>4, <2>6, <2>7, Zenon
  \* Jobs and the activation loop keep the shape.
  <1>LoopShape. ASSUME TypeOK, ShapeInv, Loop
                PROVE  ShapeInv'
    <2> USE <1>LoopShape
    <2> USE DEF runVars, loopVars, historyVars
    <2>0. /\ awake => recorded /\ checkConditions
          /\ phase # "new" /\ checkConditions => recorded
          /\ jobs # <<>> /\ Head(jobs) \notin Updates => recorded /\ checkConditions
      <3>1. jobs # <<>> => Head(jobs) \in Range(jobs) BY TailElements, Zenon DEF TypeOK
      <3> QED BY <3>1, Zenon DEF ShapeInv, RecordInv
    <2>1. ASSUME messageJob PROVE ShapeInv'
      <3> DEFINE m == Head(jobs)
      <3>1. /\ TakesJob
            /\ signalWorkflow(m, buffered) \/ doUpdate(m, buffered)
            /\ UNCHANGED <<laterJobs, singleBatch, completed, error, loops, main>>
        BY <2>1, Zenon DEF messageJob
      <3>2. /\ UNCHANGED finalizing /\ (code' => awake')
            /\ (recorded => recorded') /\ (checkConditions => checkConditions')
            /\ awake' => awake \/ m \in Signals \/ (recorded' /\ checkConditions')
            /\ checkConditions' => checkConditions \/ recorded'
        BY <3>1, DeliverWakes, Zenon
      <3>3. m \in Signals => recorded /\ checkConditions
        BY <2>0, <3>1, MessagesAssumption, Zenon DEF TakesJob
      <3>4. awake' => recorded' /\ checkConditions' BY <2>0, <3>2, <3>3, Zenon
      <3> QED BY <3>1, <3>2, <3>4, <1>TakesJobShape, Zenon
    <2>2. ASSUME otherJob PROVE ShapeInv'
      <3>1. /\ TakesJob /\ Head(jobs) = "other" /\ awake' = TRUE
            /\ UNCHANGED <<laterJobs, singleBatch, completed, error, loops, main, finalizing, code,
                           recorded, checkConditions>>
        BY <2>2, Zenon DEF otherJob
      <3>2. recorded /\ checkConditions
        BY <2>0, <3>1, MessagesAssumption, Zenon DEF TakesJob, Messages
      <3> QED BY <3>1, <3>2, <1>TakesJobShape, Zenon
    <2>3. ASSUME startWorkflow PROVE ShapeInv'
      <3>1. /\ TakesJob /\ Head(jobs) = "initialize" /\ awake' = TRUE
            /\ UNCHANGED <<laterJobs, singleBatch, completed, error, loops, finalizing, recorded,
                           checkConditions>>
        BY <2>3, Zenon DEF startWorkflow
      <3>2. recorded /\ checkConditions
        BY <2>0, <3>1, MessagesAssumption, Zenon DEF TakesJob, Messages
      <3> QED BY <3>1, <3>2, <1>TakesJobShape, Zenon
    <2>4. ASSUME jobReturns PROVE ShapeInv'
      <3>1. /\ phase = "handler" /\ phase' = "jobs" /\ loops = <<>> /\ code' = FALSE
            /\ main' # "starting" /\ (awake => awake')
            /\ UNCHANGED <<jobs, laterJobs, singleBatch, completed, error, loops, finalizing, recorded,
                           checkConditions>>
        BY <2>4, Zenon DEF jobReturns, tryUnblockConditions
      <3>2. awake' => awake \/ checkConditions
        BY <2>4, Zenon DEF jobReturns, tryUnblockConditions
      <3>3. LoopInv' BY <3>1, Zenon DEF ShapeInv, LoopInv
      <3>4. RecordInv' BY <2>0, <3>1, <3>2, Zenon DEF ShapeInv, RecordInv
      <3>5. BatchInv' BY <3>1, Zenon DEF ShapeInv, BatchInv
      <3> QED BY <3>3, <3>4, <3>5, Zenon DEF ShapeInv
    <2>5. ASSUME batchReturns PROVE ShapeInv'
      <3>1. LoopInv' BY <2>5, Zenon DEF batchReturns, ShapeInv, LoopInv
      <3>2. RecordInv' /\ BatchInv' BY <2>5, Zenon DEF batchReturns, ShapeInv, RecordInv, BatchInv
      <3> QED BY <3>1, <3>2, Zenon DEF ShapeInv
    <2>6. ASSUME failActivation \/ concludeActivation PROVE ShapeInv'
      <3>1. /\ phase = "microtasks" /\ phase' \in {"failed", "done", "idle"} /\ loops = <<>>
            /\ finalizing = {} /\ ~code'
            /\ phase' # "failed" => laterJobs = <<>> /\ ~error
            /\ phase' = "idle" => ~completed
            /\ UNCHANGED <<jobs, laterJobs, singleBatch, completed, error, loops, finalizing, recorded,
                           checkConditions, awake, main>>
        BY <2>6, Zenon DEF failActivation, concludeActivation, Drained, InMicrotasks
      <3>2. LoopInv' BY <3>1, Zenon DEF ShapeInv, LoopInv
      <3>3. RecordInv' /\ BatchInv' BY <3>1, Zenon DEF ShapeInv, RecordInv, BatchInv
      <3> QED BY <3>2, <3>3, Zenon DEF ShapeInv
    <2>7. ASSUME unblock PROVE ShapeInv'
      <3>1. /\ phase = "microtasks" /\ checkConditions /\ awake' /\ recorded
            /\ UNCHANGED <<phase, jobs, laterJobs, singleBatch, completed, error, loops, finalizing,
                           recorded, checkConditions, main>>
        BY <2>0, <2>7, Zenon DEF unblock, Drained, InMicrotasks, CanUnblock, tryUnblockConditions
      <3>2. LoopInv' BY <3>1, Zenon DEF ShapeInv, LoopInv
      <3>3. RecordInv' /\ BatchInv' BY <3>1, Zenon DEF ShapeInv, RecordInv, BatchInv
      <3> QED BY <3>2, <3>3, Zenon DEF ShapeInv
    <2>8. ASSUME nextBatch PROVE ShapeInv'
      <3>1. /\ phase = "microtasks" /\ phase' = "jobs" /\ loops = <<>> /\ finalizing = {} /\ ~code'
            /\ laterJobs # <<>> /\ jobs' = laterJobs /\ laterJobs' = <<>>
            /\ UNCHANGED <<singleBatch, completed, error, loops, finalizing, recorded,
                           checkConditions, awake, main>>
        BY <2>8, Zenon DEF nextBatch, Drained, InMicrotasks
      <3>2. LoopInv' BY <3>1, Zenon DEF ShapeInv, LoopInv
      <3>3. Range(laterJobs') = {} BY <3>1 DEF Range
      <3>4. RecordInv' BY <3>1, <3>3, Zenon DEF ShapeInv, RecordInv
      <3>5. BatchInv' BY <3>1, <3>3, Zenon DEF ShapeInv, BatchInv, Messages
      <3> QED BY <3>2, <3>4, <3>5, Zenon DEF ShapeInv
    <2> QED BY <2>1, <2>2, <2>3, <2>4, <2>5, <2>6, <2>7, <2>8, Zenon DEF Loop
  \* A new activation has the shape of one that has taken no job yet.
  <1>ActivateShape.
    ASSUME TypeOK, ShapeInv, phase \in {"new", "idle"},
           NEW S \in Unsent(Signals), NEW U \in Unsent(Updates),
           NEW rest \in {<<>>, <<"initialize">>, <<"other">>}, NEW single \in BOOLEAN,
           activate(S, U, rest, single)
    PROVE  ShapeInv'
    <2> USE <1>ActivateShape
    <2>1. /\ ~code /\ loops = <<>> /\ ~completed /\ finalizing = {} /\ main # "starting"
          /\ UNCHANGED <<code, loops, completed, finalizing, main, error>>
      BY Zenon DEF ShapeInv, LoopInv, activate, runVars
    <2>2. phase' = "jobs" /\ awake' = FALSE BY Zenon DEF activate
    <2>3. checkConditions' = (S # <<>> \/ rest # <<>>) /\ recorded' = (S # <<>> \/ rest # <<>>)
      BY Zenon DEF activate
    <2>A. /\ S \in Seq(Messages) /\ U \in Seq(Messages) /\ S \o U \in Seq(Messages)
          /\ Range(S) \subseteq Signals /\ Range(U) \subseteq Updates
          /\ Range(S \o U) = Range(S) \cup Range(U)
      BY ActivateElements
    <2>B. \/ jobs' = (S \o U) \o rest /\ laterJobs' = <<>>
          \/ jobs' = S /\ laterJobs' = U \o rest /\ ~singleBatch'
      BY ActivateBatches, Zenon
    <2>4. /\ \A i \in DOMAIN jobs' : jobs'[i] = "initialize" => i = Len(jobs')
          /\ \A i \in DOMAIN laterJobs' : laterJobs'[i] = "initialize" => i = Len(laterJobs')
      <3> DEFINE AtEnd(q) == \A i \in DOMAIN q : q[i] = "initialize" => i = Len(q)
      <3>1. AtEnd((S \o U) \o rest) /\ AtEnd(U \o rest) BY <2>A, BatchElements, Zenon
      <3>2. AtEnd(<<>>) OBVIOUS
      <3>3. AtEnd(S) BY <2>A, MessagesAssumption
      <3> HIDE DEF AtEnd
      <3>4. AtEnd(jobs') /\ AtEnd(laterJobs') BY <2>B, <3>1, <3>2, <3>3, Zenon
      <3> QED BY <3>4, Zenon DEF AtEnd
    <2>5. LoopInv' BY <2>1, <2>2, <2>4, Zenon DEF LoopInv
    <2>6. /\ Range(jobs') \cup Range(laterJobs') = Range(S) \cup Range(U) \cup Range(rest)
          /\ Range(laterJobs') \subseteq Range(U) \cup Range(rest)
      <3>1. Range(<<>>) = {} BY DEF Range
      <3>2. Range((S \o U) \o rest) = Range(S) \cup Range(U) \cup Range(rest) BY <2>A, BatchElements, Zenon
      <3>3. Range(U \o rest) = Range(U) \cup Range(rest) BY <2>A, BatchElements, Zenon
      <3> QED BY <2>B, <3>1, <3>2, <3>3, Zenon
    <2>7. /\ Range(rest) \cap Messages = {} /\ (Range(rest) # {} => rest # <<>>)
          /\ Range(S) # {} => S # <<>>
      <3>1. Range(rest) \cap Messages = {} /\ (Range(rest) # {} => rest # <<>>)
        BY <2>A, BatchElements, Zenon
      <3> QED BY <3>1 DEF Range
    <2>8. RecordInv' BY <2>2, <2>3, <2>6, <2>7, <2>A, Zenon DEF RecordInv
    <2>9. BatchInv' BY <2>1, <2>6, <2>7, <2>A, <2>B, MessagesAssumption, Zenon DEF BatchInv, Messages
    <2> QED BY <2>5, <2>8, <2>9, Zenon DEF ShapeInv
  <1> SUFFICES ASSUME TypeOK, ShapeInv, [Next]_vars PROVE ShapeInv' BY Zenon
  <1>1. CASE firstActivation \/ nextActivation
    <2>1. /\ phase \in {"new", "idle"}
          /\ \E S \in Unsent(Signals), U \in Unsent(Updates),
                rest \in {<<>>, <<"initialize">>, <<"other">>}, single \in BOOLEAN :
               activate(S, U, rest, single)
      BY <1>1, Zenon DEF firstActivation, nextActivation
    <2> QED BY <2>1, <1>ActivateShape, Zenon
  <1>2. CASE Evicted \/ UNCHANGED vars
    BY <1>2 DEF Evicted, vars, ShapeInv, LoopInv, RecordInv, BatchInv
  <1> QED BY <1>1, <1>2, <1>CodeShape, <1>DispatchShape, <1>MicrotaskShape, <1>LoopShape, Zenon DEF Next

(***************************************************************************)
(* Where a message waits                                                   *)
(***************************************************************************)
placeVars == <<arrived, jobs, laterJobs, buffered, waited>>

\* The step moves no message, and neither starts nor concludes an activation.
Elsewhere == UNCHANGED placeVars /\ (phase' \in {"new", "idle", "done"} => phase' = phase)

\* Only activations, deliveries and jobs move messages.
LEMMA StepCases ==
  ASSUME TypeOK, [Next]_vars
  PROVE  \/ firstActivation \/ nextActivation \/ messageJob \/ otherJob \/ startWorkflow
         \/ nextBatch \/ concludeActivation \/ (\E t \in Types : dispatchNext(t)) \/ Elsewhere
  <1> USE DEF Elsewhere, placeVars, codeUnchanged, loopVars, historyVars
  <1>1. ASSUME WorkflowCode PROVE Elsewhere
    BY <1>1, Zenon DEF WorkflowCode, setHandler, deleteHandler, setDefaultHandler, unsetDefaultHandler,
                changeValue, condition, mainEnds, handlerReturns, updateFails, handlerThrows, Settles
  <1>2. ASSUME Microtasks PROVE Elsewhere
    <2>1. ASSUME NEW m \in Messages, signalWorkflowNextHandler(m) PROVE Elsewhere
      BY <2>1, Zenon DEF signalWorkflowNextHandler
    <2> QED BY <1>2, <2>1, Zenon DEF Microtasks, resume, finalize
  <1>3. ASSUME handlerAwaits \/ \E t \in Types : dispatchEnds(t) PROVE Elsewhere
    BY <1>3, Zenon DEF handlerAwaits, dispatchEnds
  <1>4. ASSUME jobReturns \/ batchReturns \/ failActivation \/ unblock PROVE Elsewhere
    BY <1>4, Zenon DEF jobReturns, batchReturns, failActivation, unblock
  <1>5. ASSUME Evicted \/ UNCHANGED vars PROVE Elsewhere BY <1>5, Zenon DEF Evicted, vars
  <1> QED BY <1>1, <1>2, <1>3, <1>4, <1>5, Zenon DEF Next, Dispatch, Loop

\* A delivered message joins the end of its buffer, or a handler has it.
LEMMA DeliverMoves ==
  ASSUME NEW m, NEW buf, signalWorkflow(m, buf) \/ doUpdate(m, buf)
  PROVE  \/ /\ ~HasHandler(m) /\ buffered' = [buf EXCEPT ![TypeOf(m)] = Append(@, m)]
            /\ waited' = waited \cup {m}
            /\ UNCHANGED <<running, answers, started>>
         \/ HasHandler(m) /\ buffered' = buf /\ UNCHANGED waited
  BY Zenon DEF signalWorkflow, doUpdate, ToBuffer, runVars

\* No message waits before the first activation.
LEMMA InitPlace == Init => PlaceInv
  BY DEF Init, PlaceInv, Distinct, Range, Types

\* A message waits in one place, whatever step is taken.
LEMMA NextPlace == TypeOK /\ ShapeInv /\ PlaceInv /\ [Next]_vars => PlaceInv'
  \* The messages of a new activation are new.
  <1>ActivatePlace.
    ASSUME TypeOK, ShapeInv, PlaceInv, phase \in {"new", "idle"},
           NEW S \in Unsent(Signals), NEW U \in Unsent(Updates),
           NEW rest \in {<<>>, <<"initialize">>, <<"other">>}, NEW single \in BOOLEAN,
           activate(S, U, rest, single)
    PROVE  PlaceInv'
    <2> USE <1>ActivatePlace
    <2>1. /\ S \in Seq(Messages) /\ U \in Seq(Messages) /\ S \o U \in Seq(Messages)
          /\ Range(S) \subseteq Signals \ Range(arrived) /\ Distinct(S)
          /\ Range(U) \subseteq Updates \ Range(arrived) /\ Distinct(U)
          /\ arrived' = arrived \o (S \o U)
          /\ Range(S \o U) = Range(S) \cup Range(U) /\ Distinct(S \o U)
      BY ActivateElements, Zenon
    <2>2. \/ jobs' = (S \o U) \o rest /\ laterJobs' = <<>>
          \/ jobs' = S /\ laterJobs' = U \o rest
      BY ActivateBatches, Zenon
    <2>3. Range(arrived') = Range(arrived) \cup Range(S) \cup Range(U)
      <3>1. arrived \in Seq(Messages) /\ S \o U \in Seq(Messages) BY <2>1, Zenon DEF TypeOK
      <3>2. \A q \in Seq(Messages) : Range(arrived \o q) = Range(arrived) \cup Range(q)
        BY <3>1, ConcatElements
      <3>3. Range(arrived \o (S \o U)) = Range(arrived) \cup Range(S \o U) BY <3>1, <3>2, Zenon
      <3> QED BY <2>1, <3>3, Zenon
    <2>4. Distinct(arrived')
      <3>1. arrived \in Seq(Messages) /\ Distinct(arrived) BY Zenon DEF TypeOK, PlaceInv
      <3>2. Range(arrived) \cap Range(S \o U) = {} BY <2>1, Zenon
      <3> QED BY <2>1, <3>1, <3>2, ConcatDistinct, Zenon
    <2>5. /\ Range(rest) \cap Messages = {}
          /\ Range((S \o U) \o rest) = Range(S) \cup Range(U) \cup Range(rest)
          /\ Range(U \o rest) = Range(U) \cup Range(rest)
      BY <2>1, BatchElements, Zenon
    <2>6. ASSUME NEW q \in Seq(Messages), Distinct(q) PROVE Distinct(q \o rest)
      <3>1. Distinct(rest) /\ Range(q) \subseteq Messages BY BatchElements, Zenon
      <3>2. q \in Seq(Jobs) BY DEF Jobs
      <3>3. rest \in Seq(Jobs)
        <4>1. <<>> \in Seq(Jobs) /\ <<"initialize">> \in Seq(Jobs) /\ <<"other">> \in Seq(Jobs)
          BY DEF Jobs
        <4> QED BY <4>1, Zenon
      <3> QED BY <2>5, <2>6, <3>1, <3>2, <3>3, ConcatDistinct, Zenon
    <2>7. Distinct(<<>>) /\ Range(<<>>) = {} BY DEF Distinct, Range
    <2>8. Distinct(jobs') /\ Distinct(laterJobs') BY <2>1, <2>2, <2>6, <2>7, Zenon
    <2>9. /\ Range(jobs') \cap Range(laterJobs') = {}
          /\ Range(jobs') \cup Range(laterJobs') = Range(S) \cup Range(U) \cup Range(rest)
      BY <2>1, <2>2, <2>5, <2>7, MessagesAssumption, Zenon DEF Messages
    <2>10. UNCHANGED <<buffered, waited>> /\ phase' = "jobs" BY Zenon DEF activate
    <2>11. \A t \in Types : Range(buffered[t]) \subseteq Messages BY DEF TypeOK, Range
    <2> QED BY <2>1, <2>3, <2>4, <2>5, <2>8, <2>9, <2>10, <2>11, Zenon DEF PlaceInv, Messages
  <1> SUFFICES ASSUME TypeOK, ShapeInv, PlaceInv, [Next]_vars PROVE PlaceInv' BY Zenon
  <1>1. CASE firstActivation \/ nextActivation
    <2>1. /\ phase \in {"new", "idle"}
          /\ \E S \in Unsent(Signals), U \in Unsent(Updates),
                rest \in {<<>>, <<"initialize">>, <<"other">>}, single \in BOOLEAN :
               activate(S, U, rest, single)
      BY <1>1, Zenon DEF firstActivation, nextActivation
    <2> QED BY <2>1, <1>ActivatePlace, Zenon
  <1>0. ASSUME TakesJob
        PROVE  /\ Range(jobs) = Range(jobs') \cup {Head(jobs)} /\ Distinct(jobs')
               /\ Head(jobs) \notin Range(jobs') /\ Head(jobs) \notin Range(laterJobs)
               /\ phase' = "handler"
    <2>1. jobs \in Seq(Jobs) /\ jobs # <<>> /\ jobs' = Tail(jobs) BY <1>0, Zenon DEF TakesJob, TypeOK
    <2>2. Distinct(jobs) /\ Range(jobs) \cap Range(laterJobs) = {} BY Zenon DEF PlaceInv
    <2>3. phase' = "handler" BY <1>0, Zenon DEF TakesJob
    <2> QED BY <2>1, <2>2, <2>3, TailElements, Zenon
  <1>2. CASE messageJob
    <2> DEFINE m == Head(jobs)
    <2>1. TakesJob /\ m \in Messages /\ UNCHANGED <<laterJobs, arrived>>
      BY <1>2, Zenon DEF messageJob, signalWorkflow, doUpdate, Messages
    <2>2. \/ /\ buffered' = [buffered EXCEPT ![TypeOf(m)] = Append(@, m)]
             /\ waited' = waited \cup {m}
          \/ buffered' = buffered /\ UNCHANGED waited
      BY <1>2, DeliverMoves, Zenon DEF messageJob
    <2>3. TypeOf(m) \in Types BY <2>1, TypeOfTypes, Zenon
    <2>4. m \in Range(arrived) /\ m \notin Range(jobs') \cup Range(laterJobs)
      BY <1>0, <2>1, Zenon DEF PlaceInv
    <2>5. \A t \in Types : m \notin Range(buffered[t]) BY <1>0, <2>1, Zenon DEF PlaceInv
    <2>6. \A t \in Types : Distinct(buffered'[t])
                           /\ Range(buffered'[t]) \subseteq Range(buffered[t]) \cup {m}
                           /\ (m \in Range(buffered'[t]) => t = TypeOf(m) /\ m \in waited')
      <3> SUFFICES ASSUME NEW t \in Types
                   PROVE  /\ Distinct(buffered'[t])
                          /\ Range(buffered'[t]) \subseteq Range(buffered[t]) \cup {m}
                          /\ (m \in Range(buffered'[t]) => t = TypeOf(m) /\ m \in waited')
        BY Zenon
      <3>1. buffered[t] \in Seq(Messages) /\ Distinct(buffered[t]) BY Zenon DEF TypeOK, PlaceInv
      <3>2. \/ buffered'[t] = buffered[t]
            \/ buffered'[t] = Append(buffered[t], m) /\ t = TypeOf(m) /\ m \in waited'
        BY <2>2, <2>3, SMTT(20) DEF TypeOK
      <3>3. CASE buffered'[t] = buffered[t] BY <3>1, <3>3, <2>5, Zenon
      <3>4. CASE buffered'[t] = Append(buffered[t], m) /\ t = TypeOf(m) /\ m \in waited'
        <4>1. m \notin Range(buffered[t]) BY <2>5, Zenon
        <4> HIDE DEF m
        <4>2. /\ Range(Append(buffered[t], m)) = Range(buffered[t]) \cup {m}
              /\ Distinct(Append(buffered[t], m))
          BY <4>1, <3>1, <2>1, AppendElements, Zenon
        <4> QED BY <3>4, <4>2, Zenon
      <3> QED BY <3>2, <3>3, <3>4, Zenon
    <2>7. waited \subseteq waited' BY <2>2, Zenon
    <2> HIDE DEF m
    <2> QED BY <1>0, <2>1, <2>4, <2>6, <2>7 DEF PlaceInv
  <1>3. CASE otherJob \/ startWorkflow
    <2>1. TakesJob /\ UNCHANGED <<laterJobs, arrived, buffered, waited>>
      BY <1>3, Zenon DEF otherJob, startWorkflow, historyVars
    <2> QED BY <1>0, <2>1, Zenon DEF PlaceInv
  <1>4. CASE nextBatch
    <2>1. jobs' = laterJobs /\ laterJobs' = <<>> /\ phase' = "jobs"
          /\ UNCHANGED <<arrived, buffered, waited>>
      BY <1>4, Zenon DEF nextBatch, historyVars
    <2>2. Distinct(<<>>) /\ Range(<<>>) = {} BY DEF Distinct, Range
    <2> QED BY <2>1, <2>2, Zenon DEF PlaceInv
  <1>5. CASE concludeActivation
    <2>1. /\ buffered' = [buffered EXCEPT !["update"] = <<>>]
          /\ UNCHANGED <<arrived, jobs, laterJobs, waited>>
      BY <1>5, Zenon DEF concludeActivation, rejectBufferedUpdates, historyVars
    <2>2. buffered'["update"] = <<>> /\ \A t \in Types : buffered'[t] \in {buffered[t], <<>>}
      BY <2>1, Zenon DEF TypeOK, Types
    <2>3. Distinct(<<>>) /\ Range(<<>>) = {} BY DEF Distinct, Range
    <2> QED BY <2>1, <2>2, <2>3, Zenon DEF PlaceInv
  <1>6. CASE \E t \in Types : dispatchNext(t)
    <2>1. PICK t \in Types : dispatchNext(t) BY <1>6, Zenon
    <2>0. PICK k : Dispatches(t, k) BY <2>1, FirstDispatchable, Zenon
    <2> DEFINE m == buffered[t][k]
    <2>2. k \in DOMAIN buffered[t] /\ HasHandler(m)
      BY <2>0, Zenon DEF Dispatches
    <2>3. buffered' = [buffered EXCEPT ![t] = splice(@, k)] /\ UNCHANGED waited
      BY <2>0, <2>2, DeliverMoves, Zenon DEF Dispatches
    <2>4. UNCHANGED <<arrived, jobs, laterJobs, phase>> BY <2>1, Zenon DEF dispatchNext, loopVars
    <2>5. \A x \in Types : Distinct(buffered'[x]) /\ Range(buffered'[x]) \subseteq Range(buffered[x])
      <3>1. buffered[t] \in Seq(Messages) /\ Distinct(buffered[t]) BY Zenon DEF TypeOK, PlaceInv
      <3>2. Distinct(splice(buffered[t], k)) /\ Range(splice(buffered[t], k)) \subseteq Range(buffered[t])
        BY <3>1, <2>2, spliceElements
      <3> QED BY <2>3, <3>2, Zenon DEF PlaceInv, TypeOK
    <2>6. phase \notin {"new", "idle", "done"}
      BY <2>1, Zenon DEF dispatchNext, InLoop, ShapeInv, LoopInv
    <2> QED BY <2>3, <2>4, <2>5, <2>6, Zenon DEF PlaceInv
  <1>7. CASE Elsewhere BY <1>7, Zenon DEF Elsewhere, placeVars, PlaceInv
  <1> QED BY <1>1, <1>2, <1>3, <1>4, <1>5, <1>6, <1>7, StepCases, Zenon

(***************************************************************************)
(* The dispatch loops                                                      *)
(***************************************************************************)

\* Nothing is buffered at first.
LEMMA InitLoops == Init => LoopsInv
  BY DEF Init, LoopsInv, Range

\* Every step keeps LoopsInv.
LEMMA NextLoops == TypeOK /\ ShapeInv /\ PlaceInv /\ LoopsInv /\ [Next]_vars => LoopsInv'
  \* The loops under the innermost one.
  <1>FrontElements. ASSUME NEW S, NEW s \in Seq(S), s # <<>>
                    PROVE  Range(s) \subseteq Range(SubSeq(s, 1, Len(s) - 1)) \cup {s[Len(s)]}
    <2> USE <1>FrontElements
    <2>1. /\ Len(s) \in Nat \ {0} /\ DOMAIN s = 1 .. Len(s) /\ DOMAIN SubSeq(s, 1, Len(s) - 1) = 1 .. Len(s) - 1
          /\ \A i \in 1 .. Len(s) - 1 : SubSeq(s, 1, Len(s) - 1)[i] = s[i]
      OBVIOUS
    <2>2. \A i \in DOMAIN s : i \in 1 .. Len(s) - 1 \/ i = Len(s) BY <2>1
    <2> QED BY <2>1, <2>2, Zenon DEF Range
  \* A type gets a handler: if any of its messages is buffered, its loop is entered.
  <1>EnterLoopKeeps.
    ASSUME TypeOK, PlaceInv, LoopsInv, NEW t \in Types, EnterLoop(t), UNCHANGED buffered,
           \A m \in Messages : TypeOf(m) # t /\ HasHandler(m)' => HasHandler(m)
    PROVE  LoopsInv'
    <2> USE <1>EnterLoopKeeps
    <2> SUFFICES ASSUME NEW x \in Types, NEW m \in Range(buffered[x]), HasHandler(m)'
                 PROVE  x \in Range(loops')
      BY Zenon DEF LoopsInv
    <2>1. m \in Messages /\ TypeOf(m) = x /\ buffered[x] # <<>> BY DEF PlaceInv, TypeOK, Range
    <2>2. loops \in Seq(Types) /\ Range(Append(loops, t)) = Range(loops) \cup {t}
      BY AppendElements DEF TypeOK
    <2>3. Range(loops) \subseteq Range(loops') /\ (buffered[t] # <<>> => t \in Range(loops'))
      BY <2>2, Zenon DEF EnterLoop
    <2>4. CASE x = t BY <2>1, <2>3, <2>4, Zenon
    <2>5. CASE x # t
      <3>1. HasHandler(m) BY <2>1, <2>5, Zenon
      <3> QED BY <2>3, <3>1, Zenon DEF LoopsInv
    <2> QED BY <2>4, <2>5, Zenon
  \* Fewer handlers and fewer buffered messages need no further loop.
  <1>LoopsKept.
    ASSUME LoopsInv, UNCHANGED loops, \A m \in Messages : HasHandler(m)' => HasHandler(m),
           \A t \in Types : Range(buffered'[t]) \subseteq Range(buffered[t]) \cap Messages
    PROVE  LoopsInv'
    BY <1>LoopsKept, Zenon DEF LoopsInv
  \* Steps of workflow code keep LoopsInv.
  <1>CodeLoops. ASSUME TypeOK, PlaceInv, LoopsInv, WorkflowCode
                PROVE  LoopsInv'
    <2> USE <1>CodeLoops
    <2> USE DEF codeUnchanged, handlerVars
    <2>0. \A t \in Types : Range(buffered[t]) \subseteq Messages BY DEF TypeOK, Range
    <2>1. ASSUME NEW t \in Types, NEW n \in Names, setHandler(t, n) PROVE LoopsInv'
      <3>1. /\ handlers' = [handlers EXCEPT ![t] = @ \cup {n}] /\ EnterLoop(t)
            /\ UNCHANGED <<default, buffered>>
        BY <2>1, Zenon DEF setHandler
      <3>2. \A m \in Messages : TypeOf(m) # t /\ HasHandler(m)' => HasHandler(m)
        BY <3>1, TypeOfTypes, Zenon DEF HasHandler, TypeOK
      <3> QED BY <3>1, <3>2, <1>EnterLoopKeeps, Zenon
    <2>2. ASSUME NEW t \in Types, NEW n \in Names, deleteHandler(t, n) PROVE LoopsInv'
      <3>1. /\ handlers' = [handlers EXCEPT ![t] = @ \ {n}] /\ UNCHANGED <<default, buffered, loops>>
        BY <2>2, Zenon DEF deleteHandler
      <3>2. \A m \in Messages : HasHandler(m)' => HasHandler(m)
        BY <3>1, TypeOfTypes, Zenon DEF HasHandler, TypeOK
      <3> QED BY <3>1, <3>2, <2>0, <1>LoopsKept, Zenon
    <2>3. ASSUME NEW t \in Types, setDefaultHandler(t) PROVE LoopsInv'
      <3>1. /\ default' = [default EXCEPT ![t] = TRUE] /\ EnterLoop(t)
            /\ UNCHANGED <<handlers, buffered>>
        BY <2>3, Zenon DEF setDefaultHandler
      <3>2. \A m \in Messages : TypeOf(m) # t /\ HasHandler(m)' => HasHandler(m)
        BY <3>1, TypeOfTypes, Zenon DEF HasHandler, TypeOK
      <3> QED BY <3>1, <3>2, <1>EnterLoopKeeps, Zenon
    <2>4. ASSUME NEW t \in Types, unsetDefaultHandler(t) PROVE LoopsInv'
      <3>1. /\ default' = [default EXCEPT ![t] = FALSE] /\ UNCHANGED <<handlers, buffered, loops>>
        BY <2>4, Zenon DEF unsetDefaultHandler
      <3>2. \A m \in Messages : HasHandler(m)' => HasHandler(m)
        BY <3>1, TypeOfTypes, Zenon DEF HasHandler, TypeOK
      <3> QED BY <3>1, <3>2, <2>0, <1>LoopsKept, Zenon
    <2>5. ASSUME UNCHANGED <<handlers, default, buffered, loops>> PROVE LoopsInv'
      BY <2>5, Zenon DEF LoopsInv, HasHandler
    <2>6. ASSUME \/ changeValue \/ \E c \in Conditions : condition(c)
                 \/ \E how \in Failures : mainEnds(how)
                 \/ \E m \in Messages : Settles(m)
          PROVE  LoopsInv'
      BY <2>5, <2>6, Zenon DEF changeValue, condition, mainEnds, Settles
    <2>7. \A m \in Messages : TypeOf(m) \in Types BY TypeOfTypes, Zenon
    <2> QED BY <2>1, <2>2, <2>3, <2>4, <2>6, <2>7, Zenon
            DEF WorkflowCode, handlerReturns, updateFails, handlerThrows
  <1> SUFFICES ASSUME TypeOK, ShapeInv, PlaceInv, LoopsInv, [Next]_vars PROVE LoopsInv' BY Zenon
  <1> USE DEF codeUnchanged, handlerVars
  <1>0. \A t \in Types : Range(buffered[t]) \subseteq Messages BY DEF TypeOK, Range
  <1>1. ASSUME UNCHANGED <<handlers, default, buffered, loops>> PROVE LoopsInv'
    BY <1>1, Zenon DEF LoopsInv, HasHandler
  <1>2. ASSUME UNCHANGED <<handlers, default, loops>>,
               \A t \in Types : Range(buffered'[t]) \subseteq Range(buffered[t])
        PROVE  LoopsInv'
    BY <1>0, <1>2, <1>LoopsKept, Zenon DEF HasHandler
  <1>3. CASE firstActivation \/ nextActivation
    BY <1>1, <1>3, Zenon DEF firstActivation, nextActivation, activate
  <1>4. CASE messageJob
    <2> DEFINE m == Head(jobs)
    <2>1. loops = <<>> /\ m \in Messages /\ UNCHANGED <<handlers, default, loops>>
      BY <1>4, Zenon DEF messageJob, TakesJob, ShapeInv, LoopInv, signalWorkflow, doUpdate, Messages
    <2>2. \/ ~HasHandler(m) /\ buffered' = [buffered EXCEPT ![TypeOf(m)] = Append(@, m)]
          \/ buffered' = buffered
      BY <1>4, DeliverMoves, Zenon DEF messageJob
    <2>3. \A x : HasHandler(x)' = HasHandler(x) BY <2>1, Zenon DEF HasHandler
    <2>4. \A t \in Types : \A x \in Range(buffered[t]) : ~HasHandler(x)
      <3>1. Range(loops) = {} BY <2>1 DEF Range
      <3> QED BY <3>1, Zenon DEF LoopsInv
    <2>5. ASSUME NEW t \in Types, NEW x \in Range(buffered'[t]) PROVE ~HasHandler(x)
      <3> HIDE DEF m
      <3>1. CASE buffered' = buffered BY <2>4, <2>5, <3>1, Zenon
      <3>2. CASE ~HasHandler(m) /\ buffered' = [buffered EXCEPT ![TypeOf(m)] = Append(@, m)]
        <4>1. buffered'[t] \in {buffered[t], Append(buffered[t], m)} BY <3>2, Zenon DEF TypeOK
        <4>2. buffered[t] \in Seq(Messages) BY Zenon DEF TypeOK
        <4>4. Range(Append(buffered[t], m)) = Range(buffered[t]) \cup {m}
          BY <2>1, <4>2, AppendElements
        <4>3. x \in Range(buffered[t]) \cup {m} BY <2>5, <4>1, <4>4, Zenon
        <4> QED BY <4>3, <3>2, <2>4, Zenon
      <3> QED BY <2>2, <3>1, <3>2, Zenon
    <2> QED BY <2>3, <2>5, Zenon DEF LoopsInv
  <1>5. CASE otherJob \/ startWorkflow \/ nextBatch
    BY <1>1, <1>5, Zenon DEF otherJob, startWorkflow, nextBatch
  <1>6. CASE concludeActivation
    <2>1. /\ buffered' = [buffered EXCEPT !["update"] = <<>>]
          /\ UNCHANGED <<handlers, default, loops>>
      BY <1>6, Zenon DEF concludeActivation, rejectBufferedUpdates
    <2>2. \A t \in Types : buffered'[t] \in {buffered[t], <<>>} BY <2>1, Zenon DEF TypeOK
    <2>3. Range(<<>>) = {} BY DEF Range
    <2> QED BY <1>2, <2>1, <2>2, <2>3, Zenon
  <1>7. CASE \E t \in Types : dispatchNext(t)
    <2>1. PICK t \in Types : dispatchNext(t) BY <1>7, Zenon
    <2>0. PICK k : Dispatches(t, k) BY <2>1, FirstDispatchable, Zenon
    <2> DEFINE m == buffered[t][k]
    <2>2. k \in DOMAIN buffered[t] /\ HasHandler(m)
      BY <2>0, Zenon DEF Dispatches
    <2>3. buffered' = [buffered EXCEPT ![t] = splice(@, k)]
      BY <2>0, <2>2, DeliverMoves, Zenon DEF Dispatches
    <2>4. Range(splice(buffered[t], k)) \subseteq Range(buffered[t])
      BY <2>2, spliceElements DEF TypeOK
    <2>5. \A x \in Types : Range(buffered'[x]) \subseteq Range(buffered[x])
      BY <2>3, <2>4, Zenon DEF TypeOK
    <2>6. UNCHANGED <<handlers, default, loops>> BY <2>1, Zenon DEF dispatchNext
    <2> QED BY <1>2, <2>5, <2>6, Zenon
  <1>8. CASE \E t \in Types : dispatchEnds(t)
    <2>1. PICK t \in Types : dispatchEnds(t) BY <1>8, Zenon
    <2>2. /\ loops # <<>> /\ loops[Len(loops)] = t /\ loops' = SubSeq(loops, 1, Len(loops) - 1) /\ Dispatchable(t) = {}
          /\ UNCHANGED <<handlers, default, buffered>>
      BY <2>1, Zenon DEF dispatchEnds, InLoop
    <2>3. Range(loops) \subseteq Range(loops') \cup {t}
      <3>1. loops \in Seq(Types) BY Zenon DEF TypeOK
      <3>2. Range(loops) \subseteq Range(SubSeq(loops, 1, Len(loops) - 1)) \cup {loops[Len(loops)]}
        BY <2>2, <3>1, <1>FrontElements, Zenon
      <3> QED BY <2>2, <3>2, Zenon
    <2>4. \A m \in Range(buffered[t]) : ~HasHandler(m) BY <2>2, Zenon DEF Dispatchable, Range
    <2> QED BY <2>2, <2>3, <2>4, Zenon DEF LoopsInv, HasHandler
  <1>9. CASE Microtasks
    <2>1. ASSUME NEW m \in Messages, signalWorkflowNextHandler(m) PROVE LoopsInv'
      BY <1>1, <2>1, Zenon DEF signalWorkflowNextHandler
    <2> QED BY <1>1, <1>9, <2>1, Zenon DEF Microtasks, resume, finalize
  <1>10. CASE handlerAwaits BY <1>1, <1>10, Zenon DEF handlerAwaits
  <1>11. CASE jobReturns \/ batchReturns \/ failActivation \/ unblock
    BY <1>1, <1>11, Zenon DEF jobReturns, batchReturns, failActivation, unblock
  <1>12. CASE Evicted \/ UNCHANGED vars BY <1>1, <1>12, Zenon DEF Evicted, vars
  <1> QED BY <1>3, <1>4, <1>5, <1>6, <1>7, <1>8, <1>9, <1>10, <1>11, <1>12, <1>CodeLoops, SMTT(20)
          DEF Next, Dispatch, Loop

(***************************************************************************)
(* The responses to updates                                                *)
(***************************************************************************)
Protocol == AnswerInv /\ UpdateProtocol

\* No update has arrived at first.
LEMMA InitAnswers == Init => Protocol
  <1> SUFFICES ASSUME Init PROVE Protocol BY Zenon
  <1>1. Range(arrived) = {} BY DEF Init, Range
  <1> QED BY <1>1, Zenon DEF Init, Protocol, AnswerInv, UpdateProtocol

\* The responses one update may have.
Exchanges == {<<>>, <<"rejected">>, <<"accepted">>, <<"accepted", "completed">>,
              <<"accepted", "rejected">>}

\* Every step follows the update protocol.
LEMMA NextAnswers == TypeOK /\ ShapeInv /\ PlaceInv /\ Protocol /\ [Next]_vars => Protocol'
  \* What one more response makes of an exchange.
  <1>NextResponse.
    /\ Append(<<>>, "rejected") = <<"rejected">> /\ Append(<<>>, "accepted") = <<"accepted">>
    /\ Append(<<"accepted">>, "completed") = <<"accepted", "completed">>
    /\ Append(<<"accepted">>, "rejected") = <<"accepted", "rejected">>
    /\ <<"rejected">> # <<>> /\ <<"accepted">> # <<>> /\ <<"rejected">> # <<"accepted">>
    /\ <<"accepted", "completed">> # <<>> /\ <<"accepted", "rejected">> # <<>>
    /\ <<"accepted", "completed">> # <<"accepted">> /\ <<"accepted", "rejected">> # <<"accepted">>
    <2>1. Append(<<>>, "rejected") = <<"rejected">> /\ Append(<<>>, "accepted") = <<"accepted">>
      OBVIOUS
    <2>2. ASSUME NEW r \in Responses PROVE Append(<<"accepted">>, r) = <<"accepted", r>>
      <3> DEFINE s == Append(<<"accepted">>, r)
                 t == <<"accepted", r>>
      <3>1. <<"accepted">> \in Seq(Responses) /\ t \in Seq(Responses) /\ Len(t) = 2 BY DEF Responses
      <3>2. s \in Seq(Responses) /\ Len(s) = 2 /\ s[1] = "accepted" /\ s[2] = r BY <3>1
      <3>3. t[1] = "accepted" /\ t[2] = r BY Zenon
      <3> HIDE DEF s, t
      <3>4. \A i \in 1 .. Len(s) : s[i] = t[i] BY <3>2, <3>3
      <3>5. s \in [1 .. 2 -> Responses] /\ t \in [1 .. 2 -> Responses] BY <3>1, <3>2
      <3>6. s = t BY <3>2, <3>4, <3>5
      <3> QED BY <3>6, Zenon DEF s, t
    <2>3. /\ Append(<<"accepted">>, "completed") = <<"accepted", "completed">>
          /\ Append(<<"accepted">>, "rejected") = <<"accepted", "rejected">>
      BY <2>2, Zenon DEF Responses
    <2>4. /\ Len(<<>>) = 0 /\ Len(<<"rejected">>) = 1 /\ Len(<<"accepted">>) = 1
          /\ Len(<<"accepted", "completed">>) = 2 /\ Len(<<"accepted", "rejected">>) = 2
          /\ <<"rejected">>[1] # <<"accepted">>[1]
      BY Zenon
    <2> QED BY <2>1, <2>3, <2>4, Zenon
  \* A step that gives no response, and takes no update from where it waits.
  <1>AnswersKept. ASSUME Protocol, UNCHANGED answers, running' \cap Updates = running \cap Updates,
                         completed \/ error => completed' \/ error',
                         \A u \in Updates : (u \notin Range(arrived) \/ u \in Waiting)
                                              <=> (u \notin Range(arrived') \/ u \in Waiting')
                  PROVE  Protocol'
    BY <1>AnswersKept, Zenon DEF Protocol, AnswerInv, UpdateProtocol
  \* A message that is delivered waited until now; it goes on waiting when it has no handler.
  <1>Delivered. ASSUME TypeOK, ShapeInv, PlaceInv, messageJob \/ \E t \in Types : dispatchNext(t)
                PROVE  /\ UNCHANGED <<arrived, completed, error>>
                       /\ \E m \in Messages \cap Waiting, buf \in [Types -> Seq(Messages)] :
                            /\ signalWorkflow(m, buf) \/ doUpdate(m, buf)
                            /\ Waiting' = IF HasHandler(m) THEN Waiting \ {m} ELSE Waiting
    <2> USE <1>Delivered
    <2>0. UNCHANGED <<arrived, completed, error>> BY Zenon DEF messageJob, dispatchNext
    <2>1. CASE messageJob
      <3> DEFINE m == Head(jobs)
      <3>1. /\ TakesJob /\ m \in Messages /\ UNCHANGED laterJobs
            /\ signalWorkflow(m, buffered) \/ doUpdate(m, buffered)
        BY <2>1, Zenon DEF messageJob, signalWorkflow, doUpdate, Messages
      <3>2. \/ ~HasHandler(m) /\ buffered' = [buffered EXCEPT ![TypeOf(m)] = Append(@, m)]
            \/ HasHandler(m) /\ buffered' = buffered
        BY <3>1, DeliverMoves, Zenon
      <3>3. /\ Range(jobs) = Range(jobs') \cup {m} /\ m \notin Range(jobs')
            /\ m \notin Range(laterJobs) /\ \A t \in Types : m \notin Range(buffered[t])
        <4>1. /\ jobs \in Seq(Jobs) /\ jobs # <<>> /\ jobs' = Tail(jobs) /\ Distinct(jobs)
              /\ Range(jobs) \cap Range(laterJobs) = {}
          BY <3>1, Zenon DEF TakesJob, TypeOK, PlaceInv
        <4>2. Range(jobs) = Range(jobs') \cup {m} /\ m \notin Range(jobs')
          BY <4>1, TailElements, Zenon
        <4> QED BY <4>1, <4>2, Zenon DEF PlaceInv
      <3>4. m \in Waiting BY <3>3, Zenon DEF Waiting
      <3>5. TypeOf(m) \in Types BY <3>1, TypeOfTypes, Zenon
      <3> HIDE DEF m
      <3>6. CASE HasHandler(m)
        <4>1. buffered' = buffered BY <3>2, <3>6, Zenon
        <4>2. Waiting' = Waiting \ {m} BY <3>1, <3>3, <4>1, Zenon DEF Waiting
        <4> QED BY <2>0, <3>1, <3>4, <3>6, <4>2, Zenon DEF TypeOK
      <3>7. CASE ~HasHandler(m)
        <4>1. \A t \in Types : buffered'[t] = IF t = TypeOf(m) THEN Append(buffered[t], m)
                                              ELSE buffered[t]
          BY <3>2, <3>7, Zenon DEF TypeOK
        <4>2. \A t \in Types : Range(Append(buffered[t], m)) = Range(buffered[t]) \cup {m}
          BY <3>1, AppendElements DEF TypeOK
        <4>3. \A t \in Types : Range(buffered'[t]) = Range(buffered[t]) \cup
                                  (IF t = TypeOf(m) THEN {m} ELSE {})
          BY <4>1, <4>2, Zenon
        <4>4. Waiting' = Waiting BY <3>1, <3>3, <3>5, <4>3 DEF Waiting
        <4> QED BY <2>0, <3>1, <3>4, <3>7, <4>4, Zenon DEF TypeOK
      <3> QED BY <3>6, <3>7, Zenon
    <2>2. CASE \E t \in Types : dispatchNext(t)
      <3>1. PICK t \in Types : dispatchNext(t) BY <2>2, Zenon
      <3>0. PICK k : Dispatches(t, k) BY <3>1, FirstDispatchable, Zenon
      <3> DEFINE m == buffered[t][k]
                 buf == [buffered EXCEPT ![t] = splice(@, k)]
      <3>2. k \in DOMAIN buffered[t] /\ HasHandler(m)
        BY <3>0, Zenon DEF Dispatches
      <3>3. /\ signalWorkflow(m, buf) \/ doUpdate(m, buf)
            /\ UNCHANGED <<jobs, laterJobs>>
        BY <3>0, <3>1, Zenon DEF Dispatches, dispatchNext, loopVars
      <3>4. buffered' = buf BY <3>2, <3>3, DeliverMoves, Zenon
      <3>5. /\ buffered[t] \in Seq(Messages) /\ Distinct(buffered[t])
            /\ m \in Range(buffered[t]) /\ m \in Messages
        BY <3>2, Zenon DEF TypeOK, PlaceInv, Range
      <3>6. /\ splice(buffered[t], k) \in Seq(Messages)
            /\ Range(buffered[t]) = Range(splice(buffered[t], k)) \cup {m}
            /\ m \notin Range(splice(buffered[t], k))
        BY <3>2, <3>5, spliceElements
      <3>7. buf \in [Types -> Seq(Messages)] /\ m \in Waiting BY <3>5, <3>6, Zenon DEF TypeOK, Waiting
      <3>8. \A x \in Types : Range(buffered'[x]) = Range(buffered[x]) \ {m}
        <4>1. ASSUME NEW x \in Types, x # t PROVE m \notin Range(buffered[x])
          BY <3>5, <4>1, Zenon DEF PlaceInv
        <4> QED BY <3>4, <3>6, <4>1, Zenon DEF TypeOK
      <3>9. m \notin Range(jobs) \cup Range(laterJobs) BY <3>5, Zenon DEF PlaceInv
      <3> HIDE DEF m, buf
      <3>10. Waiting' = Waiting \ {m} BY <3>3, <3>8, <3>9 DEF Waiting
      <3> QED BY <2>0, <3>2, <3>3, <3>5, <3>7, <3>10, Zenon
    <2> QED BY <2>1, <2>2, Zenon
  \* A delivered update is rejected, accepted and run, or buffered.
  <1>DeliverAnswers. ASSUME TypeOK, PlaceInv, Protocol, NEW m \in Messages \cap Waiting, NEW buf,
                            signalWorkflow(m, buf) \/ doUpdate(m, buf),
                            Waiting' = IF HasHandler(m) THEN Waiting \ {m} ELSE Waiting,
                            UNCHANGED <<arrived, completed, error>>
                     PROVE  Protocol'
    <2> USE <1>DeliverAnswers
    <2>0. m \in Range(arrived) BY DEF Waiting, PlaceInv
    <2>1. CASE ~HasHandler(m)
      <3>1. UNCHANGED <<running, answers>> /\ Waiting' = Waiting BY <2>1, DeliverMoves, Zenon
      <3> QED BY <3>1, <1>AnswersKept, Zenon
    <2>2. CASE HasHandler(m) /\ m \in Signals
      <3>1. UNCHANGED answers /\ running' \in {running, running \cup {m}}
        BY <2>2, MessagesAssumption, Zenon DEF signalWorkflow, doUpdate, ToBuffer, Runs
      <3>2. m \notin Updates BY <2>2, MessagesAssumption, Zenon
      <3> QED BY <2>2, <3>1, <3>2, <1>AnswersKept, Zenon
    <2>3. CASE HasHandler(m) /\ m \in Updates
      <3>1. \/ answers' = [answers EXCEPT ![m] = Append(@, "rejected")] /\ UNCHANGED running
            \/ answers' = [answers EXCEPT ![m] = Append(@, "accepted")] /\ running' = running \cup {m}
        BY <2>3, MessagesAssumption, Zenon
           DEF signalWorkflow, doUpdate, ToBuffer, Runs, acceptUpdate, pushResponse, runVars
      <3>2. answers[m] = <<>> /\ m \notin running
        BY <2>3, <1>NextResponse, Zenon DEF Protocol, AnswerInv
      <3>3. \/ answers'[m] = <<"rejected">> /\ m \notin running'
            \/ answers'[m] = <<"accepted">> /\ m \in running'
        BY <2>3, <3>1, <3>2, <1>NextResponse, Zenon DEF TypeOK
      <3>4. \A u \in Updates \ {m} : /\ answers'[u] = answers[u] /\ (u \in running' <=> u \in running)
                                     /\ (u \in Waiting' <=> u \in Waiting)
        BY <2>3, <3>1, Zenon DEF TypeOK
      <3>5. m \notin Waiting' BY <2>3, Zenon
      <3>6. AnswerInv'
        <4> SUFFICES ASSUME NEW u \in Updates
                     PROVE  /\ answers'[u] = <<>> <=> u \notin Range(arrived') \/ u \in Waiting'
                            /\ u \in running' => answers'[u] = <<"accepted">>
                            /\ answers'[u] = <<"accepted">> => u \in running' \/ completed' \/ error'
          BY Zenon DEF AnswerInv
        <4>1. CASE u = m BY <2>0, <3>3, <3>5, <4>1, <1>NextResponse, Zenon
        <4>2. CASE u # m BY <3>4, <4>2, Zenon DEF Protocol, AnswerInv
        <4> QED BY <4>1, <4>2, Zenon
      <3>7. UpdateProtocol'
        <4> SUFFICES ASSUME NEW u \in Updates PROVE answers'[u] \in Exchanges
          BY Zenon DEF UpdateProtocol, Exchanges
        <4>1. CASE u = m BY <3>3, <4>1, Zenon DEF Exchanges
        <4>2. CASE u # m BY <3>4, <4>2, Zenon DEF Protocol, UpdateProtocol, Exchanges
        <4> QED BY <4>1, <4>2, Zenon
      <3> QED BY <3>6, <3>7, Zenon DEF Protocol
    <2> QED BY <2>1, <2>2, <2>3, Zenon DEF Messages
  \* A handler that settles gives the one response that is left, or ends the execution.
  <1>SettleAnswers.
    ASSUME TypeOK, PlaceInv, Protocol, NEW m \in Messages, Settles(m),
           \/ handlerReturns(m) \/ updateFails(m) \/ \E how \in Failures : handlerThrows(m, how)
    PROVE  Protocol'
    <2> USE <1>SettleAnswers
    <2>1. /\ m \in running /\ running' = running \ {m}
          /\ UNCHANGED <<arrived, jobs, laterJobs, buffered>>
      BY Zenon DEF Settles, loopVars, historyVars
    <2>2. Waiting' = Waiting BY <2>1, Zenon DEF Waiting
    <2>3. completed \/ error => completed' \/ error'
      BY Zenon DEF handlerReturns, updateFails, handlerThrows, handleWorkflowFailure, Failures
    <2>4. CASE m \notin Updates
      <3>1. UNCHANGED answers BY <2>4, Zenon DEF handlerReturns, updateFails, handlerThrows
      <3> QED BY <2>1, <2>2, <2>3, <2>4, <3>1, <1>AnswersKept, Zenon
    <2>5. CASE m \in Updates
      <3>1. answers[m] = <<"accepted">> BY <2>1, <2>5, Zenon DEF Protocol, AnswerInv
      <3>2. \/ \E r \in {"completed", "rejected"} : answers' = [answers EXCEPT ![m] = Append(@, r)]
            \/ UNCHANGED answers /\ (completed' \/ error')
        BY <2>5, Zenon DEF handlerReturns, updateFails, handlerThrows, handleWorkflowFailure, Failures,
                    pushResponse
      <3>3. \/ answers'[m] \in {<<"accepted", "completed">>, <<"accepted", "rejected">>}
            \/ answers'[m] = <<"accepted">> /\ (completed' \/ error')
        BY <2>5, <3>1, <3>2, <1>NextResponse, Zenon DEF TypeOK
      <3>4. \A u \in Updates \ {m} : answers'[u] = answers[u] /\ (u \in running' <=> u \in running)
        BY <2>1, <2>5, <3>2, Zenon DEF TypeOK
      <3>5. m \notin running' /\ m \in Range(arrived) /\ m \notin Waiting
        BY <2>1, <2>5, <3>1, <1>NextResponse, Zenon DEF Protocol, AnswerInv
      <3>6. AnswerInv'
        <4> SUFFICES ASSUME NEW u \in Updates
                     PROVE  /\ answers'[u] = <<>> <=> u \notin Range(arrived') \/ u \in Waiting'
                            /\ u \in running' => answers'[u] = <<"accepted">>
                            /\ answers'[u] = <<"accepted">> => u \in running' \/ completed' \/ error'
          BY Zenon DEF AnswerInv
        <4>1. CASE u = m BY <2>1, <2>2, <3>3, <3>5, <4>1, <1>NextResponse, SMTT(20)
        <4>2. CASE u # m BY <2>1, <2>2, <2>3, <3>4, <4>2, Zenon DEF Protocol, AnswerInv
        <4> QED BY <4>1, <4>2, Zenon
      <3>7. UpdateProtocol'
        <4> SUFFICES ASSUME NEW u \in Updates PROVE answers'[u] \in Exchanges
          BY Zenon DEF UpdateProtocol, Exchanges
        <4>1. CASE u = m BY <3>3, <4>1, Zenon DEF Exchanges
        <4>2. CASE u # m BY <3>4, <4>2, Zenon DEF Protocol, UpdateProtocol, Exchanges
        <4> QED BY <4>1, <4>2, Zenon
      <3> QED BY <3>6, <3>7, Zenon DEF Protocol
    <2> QED BY <2>4, <2>5, Zenon
  \* At the end of an activation exactly the updates that still wait are rejected.
  <1>ConcludeAnswers. ASSUME TypeOK, ShapeInv, PlaceInv, Protocol, concludeActivation
                      PROVE  Protocol'
    <2> USE <1>ConcludeAnswers
    <2>1. /\ jobs = <<>> /\ laterJobs = <<>>
          /\ UNCHANGED <<arrived, jobs, laterJobs, running, completed, error>>
          /\ buffered' = [buffered EXCEPT !["update"] = <<>>]
          /\ answers' = [u \in Updates |-> IF u \in Range(buffered["update"])
                                           THEN Append(answers[u], "rejected") ELSE answers[u]]
      BY Zenon DEF concludeActivation, rejectBufferedUpdates, Drained, InMicrotasks, ShapeInv, LoopInv,
             historyVars, runVars
    <2>2. \A u \in Updates : u \in Waiting <=> u \in Range(buffered["update"])
      <3>1. Range(jobs) = {} /\ Range(laterJobs) = {} BY <2>1 DEF Range
      <3>2. \A u \in Updates : u \notin Range(buffered["signal"])
        BY MessagesAssumption, Zenon DEF PlaceInv, Types, TypeOf
      <3> QED BY <3>1, <3>2, Zenon DEF Waiting, Types
    <2>3. \A u \in Updates : u \notin Waiting'
      <3>1. Range(jobs') = {} /\ Range(laterJobs') = {} BY <2>1 DEF Range
      <3>2. \A u \in Updates : u \notin Range(buffered["signal"])
        BY MessagesAssumption, Zenon DEF PlaceInv, Types, TypeOf
      <3>3. buffered'["signal"] = buffered["signal"] /\ buffered'["update"] = <<>>
        BY <2>1, Zenon DEF TypeOK, Types
      <3>4. Range(buffered'["update"]) = {} BY <3>3 DEF Range
      <3> QED BY <3>1, <3>2, <3>3, <3>4, Zenon DEF Waiting, Types
    <2> SUFFICES ASSUME NEW u \in Updates
                 PROVE  /\ answers'[u] = <<>> <=> u \notin Range(arrived') \/ u \in Waiting'
                        /\ u \in running' => answers'[u] = <<"accepted">>
                        /\ answers'[u] = <<"accepted">> => u \in running' \/ completed' \/ error'
                        /\ answers'[u] \in Exchanges
      BY Zenon DEF Protocol, AnswerInv, UpdateProtocol, Exchanges
    <2>4. CASE u \in Waiting
      <3>1. answers[u] = <<>> /\ u \in Range(arrived) /\ u \notin running
        <4>1. u \in Range(arrived) BY <2>4 DEF Waiting, PlaceInv, Messages
        <4> QED BY <2>4, <4>1, <1>NextResponse, Zenon DEF Protocol, AnswerInv
      <3>2. answers'[u] = <<"rejected">> BY <2>1, <2>2, <2>4, <3>1, <1>NextResponse, Zenon
      <3> QED BY <2>1, <2>3, <3>1, <3>2, <1>NextResponse, Zenon DEF Exchanges
    <2>5. CASE u \notin Waiting
      <3>1. answers'[u] = answers[u] BY <2>1, <2>2, <2>5, Zenon
      <3>2. answers[u] \in Exchanges BY Zenon DEF Protocol, UpdateProtocol, Exchanges
      <3> QED BY <2>1, <2>3, <2>5, <3>1, <3>2, Zenon DEF Protocol, AnswerInv
    <2> QED BY <2>4, <2>5, Zenon
  \* The updates of a new activation wait, and have no response yet.
  <1>ActivateAnswers.
    ASSUME TypeOK, ShapeInv, PlaceInv, Protocol, phase \in {"new", "idle"},
           NEW S \in Unsent(Signals), NEW U \in Unsent(Updates),
           NEW rest \in {<<>>, <<"initialize">>, <<"other">>}, NEW single \in BOOLEAN,
           activate(S, U, rest, single)
    PROVE  Protocol'
    <2> USE <1>ActivateAnswers
    <2>1. /\ S \in Seq(Messages) /\ U \in Seq(Messages) /\ S \o U \in Seq(Messages)
          /\ Range(S) \subseteq Signals /\ Range(U) \subseteq Updates \ Range(arrived)
          /\ arrived' = arrived \o (S \o U) /\ Range(S \o U) = Range(S) \cup Range(U)
      BY ActivateElements, Zenon
    <2>2. \/ jobs' = (S \o U) \o rest /\ laterJobs' = <<>>
          \/ jobs' = S /\ laterJobs' = U \o rest
      BY ActivateBatches, Zenon
    <2>3. Range(arrived') = Range(arrived) \cup Range(S) \cup Range(U)
      <3>1. arrived \in Seq(Messages) /\ S \o U \in Seq(Messages) BY <2>1, Zenon DEF TypeOK
      <3>2. \A q \in Seq(Messages) : Range(arrived \o q) = Range(arrived) \cup Range(q)
        BY <3>1, ConcatElements
      <3>3. Range(arrived \o (S \o U)) = Range(arrived) \cup Range(S \o U) BY <3>1, <3>2, Zenon
      <3> QED BY <2>1, <3>3, Zenon
    <2>4. /\ Range(rest) \cap Messages = {}
          /\ Range((S \o U) \o rest) = Range(S) \cup Range(U) \cup Range(rest)
          /\ Range(U \o rest) = Range(U) \cup Range(rest)
      BY <2>1, BatchElements, Zenon
    <2>5. Range(<<>>) = {} BY DEF Range
    <2>6. jobs = <<>> /\ laterJobs = <<>> BY Zenon DEF ShapeInv, LoopInv
    <2>7. Range(jobs') \cup Range(laterJobs') = Range(S) \cup Range(U) \cup Range(rest)
      BY <2>1, <2>2, <2>4, <2>5, Zenon
    <2>8. UNCHANGED <<buffered, answers, running, completed, error>> BY Zenon DEF activate, runVars
    <2>9. \A u \in Updates : u \in Waiting' <=> u \in Waiting \/ u \in Range(U)
      BY <2>1, <2>4, <2>5, <2>6, <2>7, <2>8, MessagesAssumption, Zenon DEF Waiting, Messages
    <2>10. \A u \in Updates : u \in Range(arrived') <=> u \in Range(arrived) \/ u \in Range(U)
      BY <2>1, <2>3, MessagesAssumption, Zenon
    <2> QED BY <2>1, <2>8, <2>9, <2>10, <1>AnswersKept, Zenon
  <1> SUFFICES ASSUME TypeOK, ShapeInv, PlaceInv, Protocol, [Next]_vars PROVE Protocol' BY Zenon
  <1> USE DEF codeUnchanged, runVars, loopVars, historyVars
  <1>1. CASE firstActivation \/ nextActivation
    <2>1. /\ phase \in {"new", "idle"}
          /\ \E S \in Unsent(Signals), U \in Unsent(Updates),
                rest \in {<<>>, <<"initialize">>, <<"other">>}, single \in BOOLEAN :
               activate(S, U, rest, single)
      BY <1>1, Zenon DEF firstActivation, nextActivation
    <2> QED BY <2>1, <1>ActivateAnswers, Zenon
  <1>2. CASE messageJob \/ \E t \in Types : dispatchNext(t)
    BY <1>2, <1>Delivered, <1>DeliverAnswers, Zenon
  <1>3. ASSUME UNCHANGED <<answers, running, jobs, laterJobs, buffered, arrived>>,
               completed \/ error => completed' \/ error'
        PROVE  Protocol'
    <2>1. Waiting' = Waiting BY <1>3, Zenon DEF Waiting
    <2> QED BY <1>3, <2>1, <1>AnswersKept, Zenon
  <1>4. CASE otherJob \/ startWorkflow
    <2>1. /\ TakesJob /\ Head(jobs) \notin Updates
          /\ UNCHANGED <<answers, running, laterJobs, buffered, arrived, completed, error>>
      BY <1>4, MessagesAssumption, Zenon DEF otherJob, startWorkflow, Messages
    <2>2. Range(jobs) = Range(jobs') \cup {Head(jobs)} BY <2>1, TailElements, Zenon DEF TakesJob, TypeOK
    <2>3. \A u \in Updates : u \in Waiting' <=> u \in Waiting BY <2>1, <2>2, Zenon DEF Waiting
    <2> QED BY <2>1, <2>3, <1>AnswersKept, Zenon
  <1>5. CASE nextBatch
    <2>1. /\ jobs' = laterJobs /\ laterJobs' = <<>> /\ jobs = <<>>
          /\ UNCHANGED <<answers, running, buffered, arrived, completed, error>>
      BY <1>5, Zenon DEF nextBatch, Drained, InMicrotasks, ShapeInv, LoopInv
    <2>2. Range(<<>>) = {} BY DEF Range
    <2>3. Waiting' = Waiting BY <2>1, <2>2, Zenon DEF Waiting
    <2> QED BY <2>1, <2>3, <1>AnswersKept, Zenon
  <1>6. CASE concludeActivation BY <1>6, <1>ConcludeAnswers, Zenon
  <1>7. ASSUME NEW m \in Messages,
               handlerReturns(m) \/ updateFails(m) \/ \E how \in Failures : handlerThrows(m, how)
        PROVE  Protocol'
    <2>1. Settles(m) BY <1>7, Zenon DEF handlerReturns, updateFails, handlerThrows
    <2> QED BY <1>7, <2>1, <1>SettleAnswers, Zenon
  <1>8. ASSUME NEW how \in Failures, mainEnds(how) PROVE Protocol'
    <2>1. completed \/ error => completed' \/ error'
      BY <1>8, Zenon DEF mainEnds, handleWorkflowFailure, Failures
    <2> QED BY <1>3, <1>8, <2>1, Zenon DEF mainEnds
  <1>9. CASE WorkflowCode
    <2>1. ASSUME codeUnchanged PROVE Protocol' BY <1>3, <2>1, Zenon
    <2>2. ASSUME \/ \E t, n : setHandler(t, n) \/ deleteHandler(t, n)
                 \/ \E t : setDefaultHandler(t) \/ unsetDefaultHandler(t)
                 \/ changeValue \/ \E c \in Conditions : condition(c)
          PROVE  Protocol'
      BY <2>1, <2>2, Zenon DEF setHandler, deleteHandler, setDefaultHandler, unsetDefaultHandler,
                        changeValue, condition
    <2> QED BY <1>7, <1>8, <1>9, <2>2, Zenon DEF WorkflowCode
  <1>10. CASE Microtasks
    <2>1. ASSUME NEW m \in Messages, signalWorkflowNextHandler(m) PROVE Protocol'
      <3>1. /\ UNCHANGED <<answers, jobs, laterJobs, buffered, arrived>> /\ m \in Signals
            /\ running' \in {running, running \cup {m}}
        BY <2>1, Zenon DEF signalWorkflowNextHandler, Runs, TypeOK
      <3>2. completed \/ error => completed' \/ error'
        BY <2>1, Zenon DEF signalWorkflowNextHandler, handleWorkflowFailure
      <3>3. Waiting' = Waiting BY <3>1, Zenon DEF Waiting
      <3> QED BY <3>1, <3>2, <3>3, <1>AnswersKept, MessagesAssumption, Zenon
    <2> QED BY <1>3, <1>10, <2>1, Zenon DEF Microtasks, resume, finalize
  <1>11. CASE handlerAwaits \/ \E t \in Types : dispatchEnds(t)
    BY <1>3, <1>11, Zenon DEF handlerAwaits, dispatchEnds
  <1>12. CASE jobReturns \/ batchReturns \/ failActivation \/ unblock
    BY <1>3, <1>12, Zenon DEF jobReturns, batchReturns, failActivation, unblock
  <1>13. CASE Evicted \/ UNCHANGED vars BY <1>3, <1>13 DEF Evicted, vars
  <1> QED BY <1>1, <1>2, <1>4, <1>5, <1>6, <1>9, <1>10, <1>11, <1>12, <1>13, SMTT(20)
          DEF Next, Dispatch, Loop

(***************************************************************************)
(* The conditions                                                          *)
(***************************************************************************)

\* No activation is concluded with a condition that holds left blocked.
LEMMA NextQuiesces == TypeOK /\ ShapeInv /\ ConditionsQuiesce /\ [Next]_vars => ConditionsQuiesce'
  \* Between activations nothing happens but the next activation.
  <1>IdleSteps. ASSUME ShapeInv, phase \in {"idle", "done"}, [Next]_vars
                PROVE  phase' = "jobs" \/ UNCHANGED vars
    <2> USE <1>IdleSteps
    <2>0. ~code /\ loops = <<>> BY Zenon DEF ShapeInv, LoopInv
    <2>1. ~WorkflowCode
      BY <2>0, Zenon DEF WorkflowCode, setHandler, deleteHandler, setDefaultHandler, unsetDefaultHandler,
                  changeValue, condition, mainEnds, MainRuns, handlerReturns, updateFails,
                  handlerThrows, Settles, InMicrotasks
    <2>2. ~Dispatch BY <2>0, Zenon DEF Dispatch, handlerAwaits, dispatchNext, dispatchEnds, InLoop
    <2>3. ~Microtasks
      BY Zenon DEF Microtasks, resume, finalize, signalWorkflowNextHandler, InMicrotasks
    <2>4. ~Loop
      BY Zenon DEF Loop, messageJob, otherJob, startWorkflow, TakesJob, jobReturns, batchReturns,
             failActivation, unblock, nextBatch, concludeActivation, Drained, InMicrotasks
    <2>5. firstActivation \/ nextActivation => phase' = "jobs"
      BY Zenon DEF firstActivation, nextActivation, activate
    <2> QED BY <2>1, <2>2, <2>3, <2>4, <2>5, Zenon DEF Next, Evicted
  <1> SUFFICES ASSUME TypeOK, ShapeInv, ConditionsQuiesce, [Next]_vars,
                      phase' \in {"idle", "done"}, checkConditions'
               PROVE  Ready' = {}
    BY Zenon DEF ConditionsQuiesce
  <1>1. CASE concludeActivation
    <2>1. checkConditions /\ Ready = {} BY <1>1, Zenon DEF concludeActivation, CanUnblock
    <2>2. UNCHANGED <<conditions, value, inProgress>>
      BY <1>1, Zenon DEF concludeActivation, conditionVars, runVars
    <2> QED BY <2>1, <2>2, Zenon DEF Ready, Holds
  <1>2. CASE Elsewhere
    <2>1. phase \in {"idle", "done"} BY <1>2, Zenon DEF Elsewhere
    <2>2. UNCHANGED vars BY <2>1, <1>IdleSteps, Zenon
    <2>3. UNCHANGED <<conditions, value, inProgress, checkConditions>> BY <2>2, Zenon DEF vars
    <2> QED BY <2>1, <2>3, Zenon DEF ConditionsQuiesce, Ready, Holds
  <1>3. ~(firstActivation \/ nextActivation)
    BY Zenon DEF firstActivation, nextActivation, activate
  <1>4. ~(messageJob \/ otherJob \/ startWorkflow \/ nextBatch)
    BY Zenon DEF messageJob, otherJob, startWorkflow, TakesJob, nextBatch
  <1>5. CASE \E t \in Types : dispatchNext(t)
    <2>1. phase \in {"idle", "done"} BY <1>5, Zenon DEF dispatchNext, loopVars
    <2>2. loops # <<>> BY <1>5, Zenon DEF dispatchNext, InLoop
    <2> QED BY <2>1, <2>2, Zenon DEF ShapeInv, LoopInv
  <1> QED BY <1>1, <1>2, <1>3, <1>4, <1>5, StepCases, Zenon

\* Every execution starts with no condition blocked.
LEMMA InitDrained == Init => DrainedInv
  BY Zenon DEF Init, DrainedInv

\* Every step keeps DrainedInv.
LEMMA NextDrained == TypeOK /\ ShapeInv /\ PlaceInv /\ DrainedInv /\ [Next]_vars => DrainedInv'
  \* The wait for the handlers is over only with none in progress: in the microtasks that
  \* workflow code runs in, or when the wait begins.
  <1>DrainedKept. ASSUME DrainedInv, \/ UNCHANGED <<conditions, phase, jobs>> /\ (awake => awake')
                                     \/ /\ UNCHANGED <<conditions, jobs>>
                                        /\ phase = "jobs" /\ phase' = "microtasks",
                         inProgress' # {} \/ inProgress = {} \/ (phase' = "microtasks" /\ awake'),
                         inProgress' \subseteq inProgress \cup waited', waited \subseteq waited'
                  PROVE  DrainedInv'
    BY <1>DrainedKept, Zenon DEF DrainedInv
  \* The dispatch loops start handlers of buffered messages only.
  <1>DispatchDrained. ASSUME TypeOK, PlaceInv, DrainedInv, Dispatch
                      PROVE  DrainedInv'
    <2> USE <1>DispatchDrained
    <2> USE DEF runVars, loopVars, historyVars, conditionVars
    <2>1. CASE handlerAwaits BY <2>1, <1>DrainedKept, Zenon DEF handlerAwaits
    <2>2. ASSUME NEW t \in Types, dispatchEnds(t) PROVE DrainedInv'
      BY <2>2, <1>DrainedKept, Zenon DEF dispatchEnds
    <2>3. ASSUME NEW t \in Types, dispatchNext(t) PROVE DrainedInv'
      <3>0. PICK k : Dispatches(t, k) BY <2>3, FirstDispatchable, Zenon
      <3> DEFINE m == buffered[t][k]
                 buf == [buffered EXCEPT ![t] = splice(@, k)]
      <3>1. k \in DOMAIN buffered[t] BY <3>0, Zenon DEF Dispatches
      <3>2. m \in waited BY <3>1, Zenon DEF PlaceInv, Range
      <3>3. /\ signalWorkflow(m, buf) \/ doUpdate(m, buf)
            /\ UNCHANGED <<conditions, phase, jobs>>
        BY <2>3, <3>0, Zenon DEF dispatchNext, Dispatches
      <3> HIDE DEF m, buf
      <3>4. awake => awake' BY <3>3, DeliverWakes, Zenon
      <3>5. inProgress' \in {inProgress, inProgress \cup {m}} /\ waited \subseteq waited'
        BY <3>3, Zenon DEF signalWorkflow, doUpdate, ToBuffer
      <3> QED BY <3>2, <3>3, <3>4, <3>5, <1>DrainedKept, Zenon
    <2> QED BY <2>1, <2>2, <2>3, Zenon DEF Dispatch
  \* Workflow code waits for its handlers in the workflow function only.
  <1>CodeDrained. ASSUME TypeOK, ShapeInv, DrainedInv, WorkflowCode
                  PROVE  DrainedInv'
    <2> USE <1>CodeDrained
    <2> USE DEF codeUnchanged, runVars, loopVars, historyVars, conditionVars
    <2>1. ASSUME codeUnchanged, UNCHANGED conditions PROVE DrainedInv'
      BY <2>1, <1>DrainedKept, Zenon
    <2>2. ASSUME \/ \E t, n : setHandler(t, n) \/ deleteHandler(t, n)
                 \/ \E t : setDefaultHandler(t) \/ unsetDefaultHandler(t)
                 \/ changeValue
          PROVE  DrainedInv'
      BY <2>1, <2>2, Zenon DEF setHandler, deleteHandler, setDefaultHandler, unsetDefaultHandler, changeValue
    <2>3. ASSUME NEW c \in Conditions, condition(c) PROVE DrainedInv'
      <3>1. CASE c # "drained"
        <4>1. conditions'["drained"] = conditions["drained"] \/ "drained" \notin Conditions
          BY <2>3, <3>1, Zenon DEF condition, TypeOK
        <4> QED BY <2>3, <4>1, Zenon DEF condition, DrainedInv
      <3>2. CASE c = "drained"
        <4>1. conditions'["drained"] = IF inProgress = {} THEN "resolved" ELSE "blocked"
          BY <2>3, <3>2, Zenon DEF condition, Holds, TypeOK
        <4>2. phase \in {"handler", "microtasks"} /\ jobs = <<>>
          BY <2>3, <3>2, Zenon DEF condition, MainRuns, ShapeInv, LoopInv
        <4> QED BY <2>3, <4>1, <4>2 DEF condition, DrainedInv
      <3> QED BY <3>1, <3>2, Zenon
    <2>4. ASSUME NEW how \in Failures, mainEnds(how) PROVE DrainedInv'
      <3>1. phase = "microtasks" /\ awake
        BY <2>4, Zenon DEF mainEnds, MainRuns, ShapeInv, LoopInv
      <3>2. inProgress' \subseteq inProgress
        BY <2>4, Zenon DEF mainEnds, handleWorkflowFailure, Failures
      <3> QED BY <2>4, <3>1, <3>2, <1>DrainedKept, Zenon DEF mainEnds
    <2>5. ASSUME NEW m \in Messages, Settles(m), inProgress' \subseteq inProgress PROVE DrainedInv'
      BY <2>5, <1>DrainedKept, Zenon DEF Settles, InMicrotasks
    <2>6. ASSUME NEW m \in Messages, NEW how \in Failures, handlerThrows(m, how) PROVE DrainedInv'
      <3>1. inProgress' \subseteq inProgress
        BY <2>6, Zenon DEF handlerThrows, handleWorkflowFailure, Failures
      <3> QED BY <2>5, <2>6, <3>1, Zenon DEF handlerThrows
    <2>7. ASSUME NEW m \in Messages, handlerReturns(m) \/ updateFails(m) PROVE DrainedInv'
      BY <2>5, <2>7, Zenon DEF handlerReturns, updateFails
    <2> QED BY <2>2, <2>3, <2>4, <2>6, <2>7, Zenon DEF WorkflowCode
  <1> SUFFICES ASSUME TypeOK, ShapeInv, PlaceInv, DrainedInv, [Next]_vars PROVE DrainedInv' BY Zenon
  <1> USE DEF codeUnchanged, runVars, loopVars, historyVars, conditionVars
  <1>1. CASE firstActivation \/ nextActivation
    <2>1. /\ phase \in {"new", "idle"} /\ phase' = "jobs" /\ UNCHANGED <<conditions, inProgress>>
      BY <1>1, Zenon DEF firstActivation, nextActivation, activate
    <2> QED BY <2>1, Zenon DEF DrainedInv
  <1>2. ASSUME TakesJob, UNCHANGED conditions, inProgress \subseteq inProgress' PROVE DrainedInv'
    BY <1>2, Zenon DEF TakesJob, DrainedInv
  <1>3. CASE messageJob
    <2>1. inProgress \subseteq inProgress'
      BY <1>3, Zenon DEF messageJob, signalWorkflow, doUpdate, ToBuffer
    <2> QED BY <1>2, <1>3, <2>1, Zenon DEF messageJob
  <1>4. CASE otherJob \/ startWorkflow BY <1>2, <1>4, Zenon DEF otherJob, startWorkflow
  <1>5. CASE jobReturns
    <2>1. /\ phase = "handler" /\ phase' = "jobs" /\ UNCHANGED <<inProgress, jobs, waited>>
          /\ conditions' \in {conditions, [c \in Conditions |-> IF c \in Ready THEN "resolved"
                                                                ELSE conditions[c]]}
      BY <1>5, Zenon DEF jobReturns, tryUnblockConditions
    <2>2. "drained" \in Conditions => "drained" \notin Ready
      BY <2>1, Zenon DEF DrainedInv, Ready, Holds
    <2>3. "drained" \in Conditions => conditions'["drained"] = conditions["drained"]
      BY <2>1, <2>2, Zenon
    <2> QED BY <2>1, <2>3, Zenon DEF DrainedInv
  <1>6. CASE batchReturns BY <1>6, <1>DrainedKept, Zenon DEF batchReturns
  <1>7. CASE unblock
    <2>1. /\ phase = "microtasks" /\ phase' = phase /\ jobs = <<>> /\ awake'
          /\ UNCHANGED <<inProgress, jobs, waited>>
          /\ conditions' = [c \in Conditions |-> IF c \in Ready THEN "resolved" ELSE conditions[c]]
      BY <1>7, Zenon DEF unblock, tryUnblockConditions, CanUnblock, Drained, InMicrotasks, ShapeInv, LoopInv
    <2>2. "drained" \in Conditions /\ "drained" \in Ready => inProgress = {} BY Zenon DEF Ready, Holds
    <2>3. "drained" \in Conditions /\ "drained" \notin Ready =>
            conditions'["drained"] = conditions["drained"]
      BY <2>1, Zenon
    <2> QED BY <2>1, <2>2, <2>3, Zenon DEF DrainedInv
  <1>8. CASE failActivation
    <2>1. /\ \A c \in Conditions : conditions[c] # "resolved"
          /\ phase' = "failed" /\ UNCHANGED conditions
      BY <1>8, Zenon DEF failActivation, Drained
    <2> QED BY <2>1, Zenon DEF DrainedInv
  <1>9. CASE nextBatch \/ concludeActivation
    <2>1. /\ \A c \in Conditions : conditions[c] # "resolved"
          /\ phase = "microtasks" /\ (checkConditions => Ready = {})
          /\ UNCHANGED <<conditions, inProgress>>
      BY <1>9, Zenon DEF nextBatch, concludeActivation, Drained, InMicrotasks, CanUnblock
    <2>2. awake => checkConditions BY Zenon DEF ShapeInv, RecordInv
    <2>3. "drained" \in Conditions /\ conditions["drained"] = "blocked" => inProgress # {}
      BY <2>1, <2>2, Zenon DEF DrainedInv, Ready, Holds
    <2> QED BY <2>1, <2>3, Zenon DEF DrainedInv
  <1>10. CASE Microtasks
    <2>1. ASSUME NEW c \in Conditions, resume(c) PROVE DrainedInv'
      <3>1. "drained" \in Conditions => conditions'["drained"] \in {conditions["drained"], "idle"}
        BY <2>1, Zenon DEF resume, TypeOK
      <3> QED BY <2>1, <3>1, Zenon DEF resume, DrainedInv
    <2>2. ASSUME NEW m \in Messages, finalize(m) PROVE DrainedInv'
      <3>1. phase = "microtasks" /\ awake BY <2>2, Zenon DEF finalize, ShapeInv, LoopInv
      <3> QED BY <2>2, <3>1, <1>DrainedKept, Zenon DEF finalize
    <2>3. ASSUME NEW m \in Messages, signalWorkflowNextHandler(m) PROVE DrainedInv'
      <3>1. /\ phase = "microtasks" /\ awake /\ awake' /\ inProgress' \subseteq inProgress
            /\ UNCHANGED <<conditions, phase, jobs, waited>>
        BY <2>3, Zenon DEF signalWorkflowNextHandler, InMicrotasks, Runs, handleWorkflowFailure
      <3> QED BY <3>1, <1>DrainedKept, Zenon
    <2> QED BY <1>10, <2>1, <2>2, <2>3, Zenon DEF Microtasks
  <1>11. CASE Evicted \/ UNCHANGED vars BY <1>11, <1>DrainedKept DEF Evicted, vars
  <1> QED BY <1>1, <1>3, <1>4, <1>5, <1>6, <1>7, <1>8, <1>9, <1>10, <1>11, <1>CodeDrained,
             <1>DispatchDrained, SMTT(20) DEF Next, Loop

(***************************************************************************)
(* The order of messages                                                   *)
(***************************************************************************)

\* Messages start in an order that like messages keep.
LEMMA InitOrder == Init => OrderInv
  <1> SUFFICES ASSUME Init PROVE OrderInv BY Zenon
  <1>1. Range(<<>>) = {} BY DEF Range
  <1>2. \A a : InOrder(a, <<>>) BY DEF InOrder
  <1>3. \A a, M : AllBefore(a, {}, M) BY Zenon DEF AllBefore
  <1> QED BY <1>1, <1>2, <1>3, Zenon DEF Init, OrderInv, Ordered, Undelivered, AllBefore

\* Every step keeps like messages in order.
LEMMA NextOrder ==
  ASSUME ~InterceptorYields, TypeOK, ShapeInv, PlaceInv, LoopsInv, OrderInv, [Next]_vars
  PROVE  OrderInv'
  \* The rest of a sequence in order is in order, and comes after its head.
  <1>InOrderTail.
    ASSUME NEW a, NEW S, NEW s \in Seq(S), s # <<>>, InOrder(a, s)
    PROVE  /\ InOrder(a, Tail(s))
           /\ Head(s) \in Messages => AllBefore(a, {Head(s)}, Range(Tail(s)) \cap Messages)
    <2> USE <1>InOrderTail
    <2>1. /\ Len(s) \in Nat \ {0} /\ DOMAIN s = 1 .. Len(s) /\ DOMAIN Tail(s) = 1 .. Len(s) - 1
          /\ Head(s) = s[1] /\ 1 \in DOMAIN s
          /\ \A i \in DOMAIN Tail(s) : i + 1 \in DOMAIN s /\ Tail(s)[i] = s[i + 1] /\ 1 < i + 1
      OBVIOUS
    <2>2. InOrder(a, Tail(s))
      <3> SUFFICES ASSUME NEW i \in DOMAIN Tail(s), NEW j \in DOMAIN Tail(s), i < j,
                          Tail(s)[i] \in Messages, Tail(s)[j] \in Messages,
                          Alike(Tail(s)[i], Tail(s)[j])
                   PROVE  Before(a, Tail(s)[i], Tail(s)[j])
        BY Zenon DEF InOrder
      <3>1. i + 1 < j + 1 BY <2>1
      <3> QED BY <2>1, <3>1, Zenon DEF InOrder
    <2>3. ASSUME Head(s) \in Messages, NEW n \in Range(Tail(s)) \cap Messages, Alike(Head(s), n)
          PROVE  Before(a, Head(s), n)
      <3>1. PICK i \in DOMAIN Tail(s) : n = Tail(s)[i] BY Zenon DEF Range
      <3> QED BY <2>1, <2>3, <3>1, Zenon DEF InOrder
    <2> QED BY <2>2, <2>3, Zenon DEF AllBefore
  \* A sequence in order stays so without one of its elements.
  <1>InOrderRemove. ASSUME NEW a, NEW S, NEW s \in Seq(S), NEW k \in DOMAIN s, InOrder(a, s)
                    PROVE  InOrder(a, splice(s, k))
    <2> USE <1>InOrderRemove
    <2> DEFINE r == splice(s, k)
               at(x) == IF x < k THEN x ELSE x + 1
    <2>1. r \in Seq(S) /\ k \in Nat BY spliceElements
    <2>2. \A i \in DOMAIN r : i \in Nat BY <2>1
    <2>3. \A i \in DOMAIN r : at(i) \in DOMAIN s /\ r[i] = s[at(i)]
      <3>1. \A i \in DOMAIN r : /\ i < k => i \in DOMAIN s /\ r[i] = s[i]
                                /\ i >= k => i + 1 \in DOMAIN s /\ r[i] = s[i + 1]
        BY spliceElements
      <3> HIDE DEF r
      <3> QED BY <2>1, <2>2, <3>1
    <2>4. \A i, j \in DOMAIN r : i < j => at(i) < at(j) BY <2>1, <2>2
    <2> HIDE DEF r, at
    <2>5. InOrder(a, r) BY <2>3, <2>4, Zenon DEF InOrder
    <2> QED BY <2>5, Zenon DEF r
  \* A message that came after the like ones goes to the end.
  <1>InOrderAppend. ASSUME NEW a, NEW s \in Seq(Messages), NEW m \in Messages, InOrder(a, s),
                           AllBefore(a, Range(s), {m})
                    PROVE  InOrder(a, Append(s, m))
    <2> USE <1>InOrderAppend
    <2>1. /\ Len(s) \in Nat /\ DOMAIN s = 1 .. Len(s) /\ DOMAIN Append(s, m) = 1 .. Len(s) + 1
          /\ \A i \in DOMAIN s : Append(s, m)[i] = s[i] /\ s[i] \in Range(s)
          /\ Append(s, m)[Len(s) + 1] = m
      BY DEF Range
    <2>2. \A i, j \in DOMAIN Append(s, m) : i < j => i \in DOMAIN s /\ (j \in DOMAIN s \/ j = Len(s) + 1)
      BY <2>1
    <2> QED BY <2>1, <2>2, Zenon DEF InOrder, AllBefore
  \* Messages that left the buffer or the jobs leave the others in order.
  <1>OrderedFewer.
    ASSUME NEW a, NEW st, NEW buf, NEW js, NEW later, Ordered(a, st, buf, js, later),
           NEW buf2, NEW js2, InOrder(a, js2), Range(js2) \subseteq Range(js),
           \A t \in Types : InOrder(a, buf2[t]) /\ Range(buf2[t]) \subseteq Range(buf[t])
    PROVE  Ordered(a, st, buf2, js2, later)
    <2> USE <1>OrderedFewer
    <2>1. Undelivered(js2, later) \subseteq Undelivered(js, later) BY Zenon DEF Undelivered
    <2>2. AllBefore(a, Range(js2) \cap Messages, Range(later) \cap Messages)
      BY Zenon DEF Ordered, AllBefore
    <2>3. ASSUME NEW t \in Types
          PROVE  /\ AllBefore(a, Range(buf2[t]), Undelivered(js2, later))
                 /\ AllBefore(a, Range(st), Range(buf2[t]))
      BY <2>1, Zenon DEF Ordered, AllBefore
    <2>4. AllBefore(a, Range(st), Undelivered(js2, later)) BY <2>1, Zenon DEF Ordered, AllBefore
    <2> QED BY <2>2, <2>3, <2>4, Zenon DEF Ordered
  \* A handler starts in order when its message came before the like ones that wait.
  <1>OrderedStart. ASSUME NEW a, NEW st \in Seq(Messages), NEW buf, NEW js, NEW later,
                          Ordered(a, st, buf, js, later),
                          NEW m \in Messages, m \in Range(a), AllBefore(a, Range(st), {m}),
                          \A t \in Types : AllBefore(a, {m}, Range(buf[t])),
                          AllBefore(a, {m}, Undelivered(js, later))
                   PROVE  Ordered(a, Append(st, m), buf, js, later)
    <2> USE <1>OrderedStart
    <2>1. Range(Append(st, m)) = Range(st) \cup {m} BY AppendElements
    <2>2. InOrder(a, Append(st, m)) BY <1>InOrderAppend, Zenon DEF Ordered
    <2>3. \A t \in Types : AllBefore(a, Range(st) \cup {m}, Range(buf[t])) BY Zenon DEF Ordered, AllBefore
    <2>4. AllBefore(a, Range(st) \cup {m}, Undelivered(js, later)) BY Zenon DEF Ordered, AllBefore
    <2>5. Range(st) \cup {m} \subseteq Range(a) BY Zenon DEF Ordered
    <2> QED BY <2>1, <2>2, <2>3, <2>4, <2>5, Zenon DEF Ordered
  \* A message is buffered in order when it came after the like ones delivered before it.
  <1>OrderedBuffer.
    ASSUME NEW a, NEW st, NEW buf \in [Types -> Seq(Messages)], NEW js, NEW later,
           Ordered(a, st, buf, js, later), NEW t \in Types,
           NEW m \in Messages, AllBefore(a, Range(st), {m}), AllBefore(a, Range(buf[t]), {m}),
           AllBefore(a, {m}, Undelivered(js, later))
    PROVE  Ordered(a, st, [buf EXCEPT ![t] = Append(@, m)], js, later)
    <2> USE <1>OrderedBuffer
    <2> DEFINE new == [buf EXCEPT ![t] = Append(@, m)]
    <2>1. new[t] = Append(buf[t], m) /\ \A x \in Types : x # t => new[x] = buf[x] BY Zenon
    <2> HIDE DEF new
    <2>2. Range(new[t]) = Range(buf[t]) \cup {m} BY <2>1, AppendElements
    <2>3. InOrder(a, new[t]) BY <2>1, <1>InOrderAppend, Zenon DEF Ordered
    <2>4. AllBefore(a, Range(buf[t]) \cup {m}, Undelivered(js, later)) BY Zenon DEF Ordered, AllBefore
    <2>5. AllBefore(a, Range(st), Range(buf[t]) \cup {m}) BY Zenon DEF Ordered, AllBefore
    <2>6. ASSUME NEW x \in Types
          PROVE  /\ InOrder(a, new[x]) /\ AllBefore(a, Range(new[x]), Undelivered(js, later))
                 /\ AllBefore(a, Range(st), Range(new[x]))
      <3>1. CASE x = t BY <2>2, <2>3, <2>4, <2>5, <3>1, Zenon
      <3>2. CASE x # t BY <2>1, <3>2, Zenon DEF Ordered
      <3> QED BY <3>1, <3>2, Zenon
    <2>7. Ordered(a, st, new, js, later) BY <2>6, Zenon DEF Ordered
    <2> QED BY <2>7, Zenon DEF new
  \* Messages sent later come after all the ones before, in the order they are sent.
  <1>BeforeExtends. ASSUME NEW a \in Seq(Messages), NEW b \in Seq(Messages)
                    PROVE  /\ \A m, n : Before(a, m, n) => Before(a \o b, m, n)
                           /\ \A m \in Range(a), n \in Range(b) : Before(a \o b, m, n)
                           /\ \A i, j \in DOMAIN b : i < j => Before(a \o b, b[i], b[j])
    <2> USE <1>BeforeExtends
    <2> DEFINE c == a \o b
               l == Len(a)
    <2>1. /\ \A i \in DOMAIN a : i \in DOMAIN c /\ c[i] = a[i]
          /\ \A i \in DOMAIN b : l + i \in DOMAIN c /\ c[l + i] = b[i]
      BY ConcatElements
    <2>2. /\ l \in Nat /\ \A i \in DOMAIN a : i \in Nat /\ i <= l
          /\ \A i \in DOMAIN b : i \in Nat /\ 0 < i
      OBVIOUS
    <2> HIDE DEF c, l
    <2>3. ASSUME NEW m, NEW n, Before(a, m, n) PROVE Before(c, m, n)
      <3>1. PICK i \in DOMAIN a, j \in DOMAIN a : i < j /\ a[i] = m /\ a[j] = n BY <2>3, Zenon DEF Before
      <3> QED BY <2>1, <3>1, Zenon DEF Before
    <2>4. ASSUME NEW m \in Range(a), NEW n \in Range(b) PROVE Before(c, m, n)
      <3>1. PICK i \in DOMAIN a : a[i] = m BY Zenon DEF Range
      <3>2. PICK j \in DOMAIN b : b[j] = n BY Zenon DEF Range
      <3>3. i < l + j BY <2>2
      <3> QED BY <2>1, <3>1, <3>2, <3>3, Zenon DEF Before
    <2>5. ASSUME NEW i \in DOMAIN b, NEW j \in DOMAIN b, i < j PROVE Before(c, b[i], b[j])
      <3>1. l + i < l + j BY <2>2, <2>5
      <3> QED BY <2>1, <3>1, Zenon DEF Before
    <2> QED BY <2>3, <2>4, <2>5, Zenon DEF c
  \* The jobs of a batch are in order when its messages are.
  <1>BatchInOrder.
    ASSUME NEW a, NEW s \in Seq(Messages), NEW rest \in {<<>>, <<"initialize">>, <<"other">>},
           \A i, j \in DOMAIN s : i < j => Before(a, s[i], s[j])
    PROVE  InOrder(a, s \o rest) /\ InOrder(a, s)
    <2> USE <1>BatchInOrder
    <2> DEFINE q == s \o rest
    <2>1. Range(rest) \cap Messages = {} BY BatchElements, Zenon
    <2>2. s \in Seq(Jobs) BY DEF Jobs
    <2>3. rest \in Seq(Jobs)
      <3>1. <<>> \in Seq(Jobs) /\ <<"initialize">> \in Seq(Jobs) /\ <<"other">> \in Seq(Jobs)
        BY DEF Jobs
      <3> QED BY <3>1, Zenon
    <2>4. /\ \A i \in DOMAIN s : q[i] = s[i]
          /\ \A i \in DOMAIN rest : q[Len(s) + i] = rest[i]
          /\ \A i \in DOMAIN q : i \in DOMAIN s \/ i - Len(s) \in DOMAIN rest
          /\ DOMAIN q = 1 .. Len(s) + Len(rest)
      BY <2>2, <2>3, ConcatElements
    <2>5. Len(s) \in Nat /\ Len(rest) \in Nat BY <2>2, <2>3
    <2> HIDE DEF q
    <2>6. ASSUME NEW i \in DOMAIN q, q[i] \in Messages PROVE i \in DOMAIN s
      <3> SUFFICES ASSUME i - Len(s) \in DOMAIN rest PROVE FALSE BY <2>4, Zenon
      <3>1. Len(s) + (i - Len(s)) = i BY <2>4, <2>5
      <3>2. q[i] = rest[i - Len(s)] BY <2>4, <3>1, Zenon
      <3> QED BY <2>1, <2>6, <3>2, Zenon DEF Range
    <2>7. InOrder(a, q) BY <2>4, <2>6, Zenon DEF InOrder
    <2>8. InOrder(a, s) BY Zenon DEF InOrder
    <2> QED BY <2>7, <2>8, Zenon DEF q
  \* A new activation brings its messages in the order in which Core sends them.
  <1>ActivateOrder.
    ASSUME TypeOK, ShapeInv, PlaceInv, OrderInv, phase \in {"new", "idle"},
           NEW S \in Unsent(Signals), NEW U \in Unsent(Updates),
           NEW rest \in {<<>>, <<"initialize">>, <<"other">>}, NEW single \in BOOLEAN,
           activate(S, U, rest, single)
    PROVE  OrderInv'
    <2> USE <1>ActivateOrder
    <2> DEFINE b == S \o U
               a == arrived \o b
    <2>1. /\ S \in Seq(Messages) /\ U \in Seq(Messages) /\ b \in Seq(Messages)
          /\ Range(S) \subseteq Signals /\ Range(U) \subseteq Updates
          /\ arrived' = a /\ Range(b) = Range(S) \cup Range(U)
      BY ActivateElements, Zenon
    <2>2. \/ jobs' = b \o rest /\ laterJobs' = <<>>
          \/ jobs' = S /\ laterJobs' = U \o rest
      BY ActivateBatches, Zenon
    <2>3. /\ Range(rest) \cap Messages = {} /\ Range(b \o rest) = Range(b) \cup Range(rest)
          /\ Range(U \o rest) = Range(U) \cup Range(rest)
      BY <2>1, BatchElements, Zenon
    <2>4. UNCHANGED <<buffered, started, intercepted>> BY Zenon DEF activate, runVars
    <2>5. /\ \A i \in DOMAIN S : i \in DOMAIN b /\ b[i] = S[i]
          /\ \A i \in DOMAIN U : Len(S) + i \in DOMAIN b /\ b[Len(S) + i] = U[i]
      BY <2>1, ConcatElements
    <2>6. arrived \in Seq(Messages) BY Zenon DEF TypeOK
    <2>7. Range(<<>>) = {} /\ InOrder(a, <<>>) BY DEF Range, InOrder
    <2> HIDE DEF b
    <2>8. /\ \A m, n : Before(arrived, m, n) => Before(a, m, n)
          /\ \A m \in Range(arrived), n \in Range(b) : Before(a, m, n)
          /\ \A i, j \in DOMAIN b : i < j => Before(a, b[i], b[j])
          /\ Range(arrived) \subseteq Range(a)
      <3>1. Range(arrived \o b) = Range(arrived) \cup Range(b) BY <2>1, <2>6, ConcatElements
      <3> QED BY <2>1, <2>6, <3>1, <1>BeforeExtends, Zenon
    <2> HIDE DEF a
    <2>9. InOrder(a, b \o rest) BY <2>1, <2>8, <1>BatchInOrder, Zenon
    <2>10. InOrder(a, S)
      <3>1. \A i, j \in DOMAIN S : i < j => Before(a, S[i], S[j]) BY <2>5, <2>8, Zenon
      <3> QED BY <2>1, <3>1, <1>BatchInOrder, Zenon
    <2>11. InOrder(a, U \o rest)
      <3>1. ASSUME NEW i \in DOMAIN U, NEW j \in DOMAIN U, i < j PROVE Before(a, U[i], U[j])
        <4>1. Len(S) + i < Len(S) + j BY <2>1, <3>1
        <4> QED BY <2>5, <2>8, <4>1, Zenon
      <3> QED BY <2>1, <3>1, <1>BatchInOrder, Zenon
    <2>12. InOrder(a, jobs') /\ InOrder(a, laterJobs') BY <2>2, <2>7, <2>9, <2>10, <2>11, Zenon
    <2>13. Undelivered(jobs', laterJobs') \subseteq Range(b)
      BY <2>1, <2>2, <2>3, <2>7, Zenon DEF Undelivered
    <2>14. AllBefore(a, Range(jobs') \cap Messages, Range(laterJobs') \cap Messages)
      <3>1. \A m \in Signals, n \in Updates : ~Alike(m, n)
        BY MessagesAssumption, Zenon DEF Alike, TypeOf
      <3>2. CASE laterJobs' = <<>> BY <2>7, <3>2, Zenon DEF AllBefore
      <3>3. CASE jobs' = S /\ laterJobs' = U \o rest BY <2>1, <2>3, <3>1, <3>3, Zenon DEF AllBefore
      <3> QED BY <2>2, <3>2, <3>3, Zenon
    <2>15. /\ Range(started) \subseteq Range(arrived)
           /\ \A t \in Types : Range(buffered[t]) \subseteq Range(arrived)
      BY Zenon DEF OrderInv, Ordered, PlaceInv
    <2>16. ASSUME NEW M, M \subseteq Range(arrived) PROVE AllBefore(a, M, Undelivered(jobs', laterJobs'))
      BY <2>8, <2>13, <2>16, Zenon DEF AllBefore
    <2>17. \A t \in Types : AllBefore(a, Range(started), Range(buffered[t]))
      BY <2>8, Zenon DEF OrderInv, Ordered, AllBefore
    <2>18. InOrder(a, started) /\ \A t \in Types : InOrder(a, buffered[t])
      BY <2>8, Zenon DEF OrderInv, Ordered, InOrder
    <2>19. Ordered(a, started, buffered, jobs', laterJobs')
      BY <2>8, <2>12, <2>14, <2>15, <2>16, <2>17, <2>18, SMTT(20) DEF Ordered
    <2> QED BY <2>1, <2>4, <2>19, Zenon DEF OrderInv
  \* Without interceptors that yield, a delivered message is buffered, or its handler starts
  \* at once, or it is a rejected update.
  <1>DeliverStarts.
    ASSUME ~InterceptorYields, NEW m, NEW buf, signalWorkflow(m, buf) \/ doUpdate(m, buf)
    PROVE  /\ UNCHANGED intercepted
           /\ \/ /\ ~HasHandler(m) /\ buffered' = [buf EXCEPT ![TypeOf(m)] = Append(@, m)]
                 /\ UNCHANGED started
              \/ /\ HasHandler(m) /\ buffered' = buf
                 /\ started' \in {started, Append(started, m)}
    BY <1>DeliverStarts, Zenon DEF signalWorkflow, doUpdate, ToBuffer, Runs, runVars
  \* A message from a job: the like messages that are buffered or started came before it, and
  \* none of the buffered ones could have been delivered.
  <1>JobOrder. ASSUME ~InterceptorYields, TypeOK, ShapeInv, PlaceInv, LoopsInv, OrderInv, messageJob
               PROVE  OrderInv'
    <2> USE <1>JobOrder
    <2> DEFINE m == Head(jobs)
    <2>1. /\ TakesJob /\ m \in Messages /\ UNCHANGED <<laterJobs, arrived>> /\ loops = <<>>
          /\ signalWorkflow(m, buffered) \/ doUpdate(m, buffered)
      BY Zenon DEF messageJob, signalWorkflow, doUpdate, Messages, TakesJob, ShapeInv, LoopInv
    <2>2. /\ jobs \in Seq(Jobs) /\ jobs # <<>> /\ jobs' = Tail(jobs)
          /\ started \in Seq(Messages) /\ buffered \in [Types -> Seq(Messages)]
      BY <2>1, Zenon DEF TakesJob, TypeOK
    <2>3. Ordered(arrived, started, buffered, jobs, laterJobs) /\ intercepted = {} BY Zenon DEF OrderInv
    <2>4. Range(jobs) = Range(jobs') \cup {m} BY <2>2, TailElements, Zenon
    <2>5. /\ InOrder(arrived, jobs')
          /\ AllBefore(arrived, {m}, Range(jobs') \cap Messages)
      BY <2>1, <2>2, <2>3, <1>InOrderTail, Zenon DEF Ordered
    <2>6. \/ ~HasHandler(m) /\ buffered' = [buffered EXCEPT ![TypeOf(m)] = Append(@, m)]
             /\ started' = started
          \/ HasHandler(m) /\ buffered' = buffered /\ started' \in {started, Append(started, m)}
      BY <2>1, <1>DeliverStarts, Zenon
    <2>7. intercepted' = {} BY <2>1, <2>3, <1>DeliverStarts, Zenon
    <2>8. m \in Range(arrived) /\ TypeOf(m) \in Types BY <2>1, <2>4, TypeOfTypes, Zenon DEF PlaceInv
    <2> HIDE DEF m
    <2>9. AllBefore(arrived, {m}, Undelivered(jobs', laterJobs))
      BY <2>1, <2>3, <2>4, <2>5, Zenon DEF Ordered, Undelivered, AllBefore
    <2>10. AllBefore(arrived, Range(started), {m})
      BY <2>1, <2>3, <2>4, Zenon DEF Ordered, Undelivered, AllBefore
    <2>11. \A t \in Types : AllBefore(arrived, Range(buffered[t]), {m})
      BY <2>1, <2>3, <2>4, Zenon DEF Ordered, Undelivered, AllBefore
    <2>12. Ordered(arrived, started, buffered, jobs', laterJobs)
      <3>1. \A t \in Types : InOrder(arrived, buffered[t]) BY <2>3, Zenon DEF Ordered
      <3> QED BY <2>3, <2>4, <2>5, <3>1, <1>OrderedFewer, Zenon
    <2>13. Ordered(arrived, started', buffered', jobs', laterJobs)
      <3>1. CASE started' = started /\ buffered' = buffered BY <2>12, <3>1, Zenon
      <3>2. CASE buffered' = [buffered EXCEPT ![TypeOf(m)] = Append(@, m)] /\ started' = started
        <4>1. AllBefore(arrived, Range(buffered[TypeOf(m)]), {m}) BY <2>8, <2>11, Zenon
        <4>2. Ordered(arrived, started, [buffered EXCEPT ![TypeOf(m)] = Append(@, m)], jobs', laterJobs)
          BY <2>1, <2>2, <2>8, <2>9, <2>10, <2>12, <4>1, <1>OrderedBuffer, Zenon
        <4> QED BY <3>2, <4>2, Zenon
      <3>3. CASE HasHandler(m) /\ buffered' = buffered /\ started' = Append(started, m)
        <4>1. \A t \in Types : \A n \in Range(buffered[t]) : ~HasHandler(n)
          <5>1. Range(loops) = {} BY <2>1 DEF Range
          <5> QED BY <5>1, Zenon DEF LoopsInv
        <4>2. \A n : Alike(m, n) => HasHandler(n) BY <3>3, Zenon DEF Alike, HasHandler
        <4>3. \A t \in Types : AllBefore(arrived, {m}, Range(buffered[t]))
          BY <4>1, <4>2, Zenon DEF AllBefore
        <4>4. Ordered(arrived, Append(started, m), buffered, jobs', laterJobs)
          BY <2>1, <2>2, <2>8, <2>9, <2>10, <2>12, <4>3, <1>OrderedStart, Zenon
        <4> QED BY <3>3, <4>4, Zenon
      <3> QED BY <2>6, <3>1, <3>2, <3>3, Zenon
    <2> QED BY <2>1, <2>7, <2>13, Zenon DEF OrderInv
  \* A message from the buffer: the first one that has a handler, so that the like messages
  \* left behind came after it.
  <1>DispatchOrder.
    ASSUME ~InterceptorYields, TypeOK, PlaceInv, OrderInv, NEW t \in Types, dispatchNext(t)
    PROVE  OrderInv'
    <2> USE <1>DispatchOrder
    <2>0. PICK k : Dispatches(t, k) BY FirstDispatchable, Zenon
    <2> DEFINE m == buffered[t][k]
               buf == [buffered EXCEPT ![t] = splice(@, k)]
    <2>1. /\ k \in DOMAIN buffered[t] /\ HasHandler(m)
          /\ \A i \in DOMAIN buffered[t] : HasHandler(buffered[t][i]) => k <= i
      BY <2>0, Zenon DEF Dispatches
    <2>2. /\ signalWorkflow(m, buf) \/ doUpdate(m, buf)
          /\ UNCHANGED <<arrived, jobs, laterJobs>>
      BY <2>0, Zenon DEF dispatchNext, loopVars, Dispatches
    <2>3. Ordered(arrived, started, buffered, jobs, laterJobs) /\ intercepted = {} BY Zenon DEF OrderInv
    <2>4. buffered' = buf /\ started' \in {started, Append(started, m)} /\ intercepted' = {}
      BY <2>1, <2>2, <2>3, <1>DeliverStarts, Zenon
    <2>5. /\ buffered[t] \in Seq(Messages) /\ Distinct(buffered[t]) /\ m \in Range(buffered[t])
          /\ m \in Messages /\ started \in Seq(Messages) /\ TypeOf(m) = t /\ m \in Range(arrived)
      BY <2>1, Zenon DEF TypeOK, PlaceInv, Range
    <2>6. /\ Range(buffered[t]) = Range(splice(buffered[t], k)) \cup {m}
          /\ m \notin Range(splice(buffered[t], k))
      BY <2>1, <2>5, spliceElements
    <2>7. InOrder(arrived, splice(buffered[t], k))
      BY <2>1, <2>3, <2>5, <1>InOrderRemove, Zenon DEF Ordered
    <2>8. /\ buf[t] = splice(buffered[t], k)
          /\ \A x \in Types : x # t => buf[x] = buffered[x]
      BY Zenon DEF TypeOK
    <2> HIDE DEF buf
    <2>9. \A x \in Types : InOrder(arrived, buf[x]) /\ Range(buf[x]) \subseteq Range(buffered[x])
      BY <2>3, <2>6, <2>7, <2>8, Zenon DEF Ordered
    <2>10. Ordered(arrived, started, buf, jobs, laterJobs)
      <3>1. InOrder(arrived, jobs) BY <2>3, Zenon DEF Ordered
      <3> QED BY <2>3, <2>9, <3>1, <1>OrderedFewer, Zenon
    <2>11. ASSUME NEW x \in Types, NEW n \in Range(buf[x]), Alike(m, n) PROVE Before(arrived, m, n)
      <3>1. n \in Range(buffered[x]) /\ TypeOf(n) = x BY <2>9, <2>11, Zenon DEF PlaceInv
      <3>2. x = t BY <2>5, <2>11, <3>1, Zenon DEF Alike
      <3>3. n # m BY <2>6, <2>8, <2>11, <3>2, SMTT(20)
      <3>4. PICK i \in DOMAIN buffered[t] : buffered[t][i] = n BY <3>1, <3>2, SMTT(20) DEF Range
      <3>5. HasHandler(n) BY <2>1, <2>11, Zenon DEF Alike, HasHandler
      <3>6. k < i
        <4>1. k <= i /\ k # i BY <2>1, <3>3, <3>4, <3>5, Zenon
        <4>2. k \in Nat /\ i \in Nat BY <2>1, <2>5, <3>4
        <4> QED BY <4>1, <4>2
      <3>7. n \in Messages BY <2>5, <3>4
      <3>8. InOrder(arrived, buffered[t]) BY <2>3, Zenon DEF Ordered
      <3> QED BY <2>1, <2>5, <2>11, <3>4, <3>6, <3>7, <3>8, Zenon DEF InOrder
    <2> HIDE DEF m
    <2>12. \A x \in Types : AllBefore(arrived, {m}, Range(buf[x])) BY <2>11, Zenon DEF AllBefore
    <2>13. AllBefore(arrived, {m}, Undelivered(jobs, laterJobs)) BY <2>3, <2>5, Zenon DEF Ordered, AllBefore
    <2>14. AllBefore(arrived, Range(started), {m}) BY <2>3, <2>5, Zenon DEF Ordered, AllBefore
    <2>15. Ordered(arrived, Append(started, m), buf, jobs, laterJobs)
      BY <2>5, <2>10, <2>12, <2>13, <2>14, <1>OrderedStart, Zenon
    <2> QED BY <2>2, <2>4, <2>10, <2>15, Zenon DEF OrderInv
  <1> USE DEF runVars, historyVars, loopVars, codeUnchanged
  <1>0. Ordered(arrived, started, buffered, jobs, laterJobs) /\ intercepted = {} BY Zenon DEF OrderInv
  <1>1. CASE firstActivation \/ nextActivation
    <2>1. /\ phase \in {"new", "idle"}
          /\ \E S \in Unsent(Signals), U \in Unsent(Updates),
                rest \in {<<>>, <<"initialize">>, <<"other">>}, single \in BOOLEAN :
               activate(S, U, rest, single)
      BY <1>1, Zenon DEF firstActivation, nextActivation
    <2> QED BY <2>1, <1>ActivateOrder, Zenon
  <1>2. CASE messageJob BY <1>2, <1>JobOrder, Zenon
  <1>3. CASE \E t \in Types : dispatchNext(t) BY <1>3, <1>DispatchOrder, Zenon
  <1>4. CASE otherJob \/ startWorkflow
    <2>1. TakesJob /\ UNCHANGED <<laterJobs, arrived, buffered, started, intercepted>>
      BY <1>4, Zenon DEF otherJob, startWorkflow
    <2>2. jobs \in Seq(Jobs) /\ jobs # <<>> /\ jobs' = Tail(jobs) BY <2>1, Zenon DEF TakesJob, TypeOK
    <2>3. Range(jobs') \subseteq Range(jobs) BY <2>2, TailElements, Zenon
    <2>4. InOrder(arrived, jobs') BY <1>0, <2>2, <1>InOrderTail, Zenon DEF Ordered
    <2>5. \A t \in Types : InOrder(arrived, buffered[t]) BY <1>0, Zenon DEF Ordered
    <2>6. Ordered(arrived, started, buffered, jobs', laterJobs)
      BY <1>0, <2>3, <2>4, <2>5, <1>OrderedFewer, Zenon
    <2> QED BY <1>0, <2>1, <2>6, Zenon DEF OrderInv
  <1>5. CASE nextBatch
    <2>1. /\ jobs' = laterJobs /\ laterJobs' = <<>> /\ jobs = <<>>
          /\ UNCHANGED <<arrived, buffered, started, intercepted>>
      BY <1>5, Zenon DEF nextBatch, Drained, InMicrotasks, ShapeInv, LoopInv
    <2>2. Range(<<>>) = {} /\ InOrder(arrived, <<>>) BY DEF Range, InOrder
    <2>3. Undelivered(laterJobs, <<>>) = Undelivered(jobs, laterJobs)
      BY <2>1, <2>2, Zenon DEF Undelivered
    <2>4. AllBefore(arrived, Range(laterJobs) \cap Messages, Range(<<>>) \cap Messages)
      BY <2>2, Zenon DEF AllBefore
    <2>5. Ordered(arrived, started, buffered, laterJobs, <<>>)
      BY <1>0, <2>2, <2>3, <2>4, Zenon DEF Ordered
    <2> QED BY <1>0, <2>1, <2>5, Zenon DEF OrderInv
  <1>6. CASE concludeActivation
    <2>1. /\ buffered' = [buffered EXCEPT !["update"] = <<>>]
          /\ UNCHANGED <<arrived, jobs, laterJobs, started, intercepted>>
      BY <1>6, Zenon DEF concludeActivation, rejectBufferedUpdates
    <2>2. \A t \in Types : buffered'[t] \in {buffered[t], <<>>} BY <2>1, Zenon DEF TypeOK
    <2>3. Range(<<>>) = {} /\ InOrder(arrived, <<>>) BY DEF Range, InOrder
    <2>4. \A t \in Types : InOrder(arrived, buffered'[t]) /\ Range(buffered'[t]) \subseteq Range(buffered[t])
      BY <1>0, <2>2, <2>3, Zenon DEF Ordered
    <2>5. InOrder(arrived, jobs) BY <1>0, Zenon DEF Ordered
    <2>6. Ordered(arrived, started, buffered', jobs, laterJobs) BY <1>0, <2>4, <2>5, <1>OrderedFewer, Zenon
    <2> QED BY <1>0, <2>1, <2>6, Zenon DEF OrderInv
  <1>7. ASSUME UNCHANGED <<arrived, started, buffered, jobs, laterJobs, intercepted>> PROVE OrderInv'
    BY <1>7, SMTT(20) DEF OrderInv
  <1>8. CASE WorkflowCode
    BY <1>7, <1>8, Zenon DEF WorkflowCode, setHandler, deleteHandler, setDefaultHandler,
       unsetDefaultHandler, changeValue, condition, mainEnds, handlerReturns, updateFails,
       handlerThrows, Settles
  <1>9. CASE Microtasks
    <2>1. \A m : ~signalWorkflowNextHandler(m) BY <1>0, Zenon DEF signalWorkflowNextHandler
    <2> QED BY <1>7, <1>9, <2>1, Zenon DEF Microtasks, resume, finalize
  <1>10. CASE handlerAwaits \/ \E t \in Types : dispatchEnds(t)
    BY <1>7, <1>10, Zenon DEF handlerAwaits, dispatchEnds
  <1>11. CASE jobReturns \/ batchReturns \/ failActivation \/ unblock
    BY <1>7, <1>11, Zenon DEF jobReturns, batchReturns, failActivation, unblock
  <1>12. CASE Evicted \/ UNCHANGED vars BY <1>7, <1>12, Zenon DEF Evicted, vars
  <1> QED BY <1>1, <1>2, <1>3, <1>4, <1>5, <1>6, <1>8, <1>9, <1>10, <1>11, <1>12, Zenon
          DEF Next, Dispatch, Loop

\* In a sequence without repetitions the position of an element tells what came before it.
LEMMA OrderedPositions ==
  ASSUME TypeOK, PlaceInv, OrderInv
  PROVE  InOrderPerName
  <1>1. ASSUME NEW m, NEW n, Before(arrived, m, n), Before(arrived, n, m) PROVE FALSE
    BY <1>1 DEF Before, TypeOK, PlaceInv, Distinct
  <1>2. ASSUME NEW i \in DOMAIN started, NEW j \in DOMAIN started,
               Alike(started[i], started[j]), Before(arrived, started[i], started[j])
        PROVE  i < j
    <2>1. InOrder(arrived, started) /\ started \in Seq(Messages) BY Zenon DEF OrderInv, Ordered, TypeOK
    <2>2. i # j BY <1>1, <1>2, Zenon
    <2>3. ~(j < i)
      <3> SUFFICES ASSUME j < i PROVE FALSE BY Zenon
      <3>1. Alike(started[j], started[i]) BY <1>2, Zenon DEF Alike
      <3>2. Before(arrived, started[j], started[i]) BY <2>1, <3>1 DEF InOrder
      <3> QED BY <1>1, <1>2, <3>2, Zenon
    <2> QED BY <2>1, <2>2, <2>3
  <1> QED BY <1>2, Zenon DEF InOrderPerName, Alike, Before

(***************************************************************************)
(* The theorems                                                            *)
(***************************************************************************)
MessagesInv ==
  TypeOK /\ ShapeInv /\ PlaceInv /\ LoopsInv /\ Protocol /\ ConditionsQuiesce /\ DrainedInv

\* MessagesInv holds of every reachable state.
LEMMA MessagesInvariant == Spec => []MessagesInv
  <1>1. Init => MessagesInv
    <2>1. Init => ConditionsQuiesce BY Zenon DEF Init, ConditionsQuiesce
    <2> QED BY <2>1, InitTypes, InitShape, InitPlace, InitLoops, InitAnswers, InitDrained, Zenon
            DEF MessagesInv
  <1>2. MessagesInv /\ [Next]_vars => MessagesInv'
    <2> SUFFICES ASSUME MessagesInv, [Next]_vars PROVE MessagesInv' BY Zenon
    <2>1. /\ TypeOK /\ ShapeInv /\ PlaceInv /\ LoopsInv /\ Protocol /\ ConditionsQuiesce
          /\ DrainedInv
      BY Zenon DEF MessagesInv
    <2>2. TypeOK' /\ ShapeInv' /\ PlaceInv' BY <2>1, NextTypes, NextShape, NextPlace, Zenon
    <2>3. LoopsInv' /\ Protocol' BY <2>1, NextLoops, NextAnswers, Zenon
    <2>4. ConditionsQuiesce' /\ DrainedInv' BY <2>1, NextQuiesces, NextDrained, Zenon
    <2> QED BY <2>2, <2>3, <2>4, Zenon DEF MessagesInv
  <1> QED BY <1>1, <1>2, PTL DEF Spec

\* An update is rejected, or accepted and then completed or rejected once: doUpdate, the
\* handler's promise and rejectBufferedUpdates never answer one update twice, nor complete
\* one that was not accepted.
THEOREM UpdatesFollowTheProtocol == Spec => []UpdateProtocol
  <1>1. MessagesInv => UpdateProtocol BY Zenon DEF MessagesInv, Protocol
  <1> QED BY <1>1, MessagesInvariant, PTL

\* When concludeActivation has run, every update that arrived is answered, and one without a
\* final response is still running unless the execution has ended.
THEOREM UpdatesAreAnswered == Spec => []UpdatesAnswered
  <1>1. MessagesInv => UpdatesAnswered
    <2> SUFFICES ASSUME MessagesInv, phase \in {"idle", "done"},
                        NEW u \in Updates, u \in Range(arrived)
                 PROVE  /\ answers[u] # <<>>
                        /\ answers[u] = <<"accepted">> => u \in running \/ completed
      BY Zenon DEF UpdatesAnswered
    <2>1. jobs = <<>> /\ laterJobs = <<>> /\ ~error
      BY Zenon DEF MessagesInv, ShapeInv, LoopInv
    <2>2. buffered["update"] = <<>> BY Zenon DEF MessagesInv, PlaceInv
    <2>3. u \notin Range(buffered["signal"])
      BY MessagesAssumption, Zenon DEF MessagesInv, PlaceInv, Types, TypeOf
    <2>4. u \notin Waiting
      <3>1. Range(<<>>) = {} BY DEF Range
      <3> QED BY <2>1, <2>2, <2>3, <3>1, Zenon DEF Waiting, Types
    <2> QED BY <2>1, <2>4, Zenon DEF MessagesInv, Protocol, AnswerInv
  <1> QED BY <1>1, MessagesInvariant, PTL

\* Whatever handlers are set, replaced and deleted while the dispatch loops run, no buffered
\* message has a handler once the loops have returned.
THEOREM BuffersAreDispatched == Spec => []BufferedHaveNoHandler
  <1>1. MessagesInv => BufferedHaveNoHandler
    <2> SUFFICES ASSUME MessagesInv, loops = <<>>, NEW t \in Types PROVE Dispatchable(t) = {}
      BY Zenon DEF BufferedHaveNoHandler
    <2>1. Range(loops) = {} BY DEF Range
    <2>2. \A m \in Range(buffered[t]) : ~HasHandler(m) BY <2>1, Zenon DEF MessagesInv, LoopsInv
    <2> QED BY <2>2, Zenon DEF Dispatchable, Range
  <1> QED BY <1>1, MessagesInvariant, PTL

\* The workflow ends only after the signals of the activation, and in a single batch its
\* updates, have been delivered.
THEOREM MessagesComeBeforeTheEnd == Spec => []MessagesBeforeEnd
  <1>1. MessagesInv => MessagesBeforeEnd
    <2> SUFFICES ASSUME MessagesInv, completed,
                        NEW m \in Messages \cap (Range(jobs) \cup Range(laterJobs))
                 PROVE  m \in Updates /\ ~singleBatch
      BY Zenon DEF MessagesBeforeEnd
    <2>1. BatchInv BY Zenon DEF MessagesInv, ShapeInv
    <2>2. CASE m \in Range(jobs) BY <2>1, <2>2, Zenon DEF BatchInv
    <2>3. CASE m \in Range(laterJobs)
      <3>1. laterJobs # <<>> BY <2>3 DEF Range
      <3> QED BY <2>1, <2>3, <3>1, Zenon DEF BatchInv, Messages
    <2> QED BY <2>2, <2>3, Zenon
  <1> QED BY <1>1, MessagesInvariant, PTL

\* An activation that leaves no event in history runs no workflow code.
THEOREM UnrecordedActivationsRunNothing == Spec => []UnrecordedRunsNothing
  <1>1. MessagesInv => UnrecordedRunsNothing
    BY Zenon DEF MessagesInv, ShapeInv, RecordInv, UnrecordedRunsNothing
  <1> QED BY <1>1, MessagesInvariant, PTL

\* tryUnblockConditions leaves no condition blocked that holds when the activation ends.
THEOREM ConditionsAreUnblocked == Spec => []ConditionsQuiesce
  <1>1. MessagesInv => ConditionsQuiesce BY Zenon DEF MessagesInv
  <1> QED BY <1>1, MessagesInvariant, PTL

\* A workflow that waits for allHandlersFinished resumes with no handler in progress but
\* those of messages that had been buffered.
THEOREM DrainsBeforeResuming == Spec => []DrainedOnResume
  <1>1. MessagesInv => DrainedOnResume BY Zenon DEF MessagesInv, DrainedInv, DrainedOnResume
  <1> QED BY <1>1, MessagesInvariant, PTL

\* Unless an interceptor awaits before it calls the next one, the messages of one name and
\* type reach their handlers in the order Core sent them, through the jobs and the buffers.
THEOREM MessagesStayInOrder == ASSUME ~InterceptorYields PROVE Spec => []InOrderPerName
  <1>1. Init => OrderInv BY InitOrder, Zenon
  <1>2. MessagesInv /\ OrderInv /\ [Next]_vars => OrderInv' BY NextOrder, Zenon DEF MessagesInv
  <1>3. MessagesInv /\ OrderInv => InOrderPerName BY OrderedPositions, Zenon DEF MessagesInv
  <1> QED BY <1>1, <1>2, <1>3, MessagesInvariant, PTL DEF Spec
=============================================================================
