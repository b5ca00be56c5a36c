-------------------------- MODULE StreamClientProofs --------------------------
(***************************************************************************)
(* The theorems about StreamClient, for every value of the constants where *)
(* every item can be encoded (Unencodable = {}): nothing the client was    *)
(* given is lost silently, flush() is a barrier, and client and workflow   *)
(* together implement StreamLog for a subscription that starts at the      *)
(* beginning (FromOffset = 0, the default).                                *)
(*                                                                         *)
(* They rest on the publisher's invariant of StreamPublisherProofs.  What  *)
(* is added here is what a poll returns (PageCollected, by induction on    *)
(* the log), the types, and what the subscription has still to be given    *)
(* (SubInv): what lies between the last item yielded and the offset it     *)
(* goes on from is unwanted or truncated.                                  *)
(***************************************************************************)
EXTENDS StreamPublisherProofs, WellFoundedInduction

-----------------------------------------------------------------------------
(* The page of a poll                                                      *)

\* The offsets of a page ascend.
InOrder(page) == \A i, j \in DOMAIN page : i < j => page[i].offset < page[j].offset

\* One round of the loop over `allNew`, at log index i: what it has collected before, f[i - 1],
\* and the item if it is wanted.
Step(f, k, i) ==
  IF i <= k THEN <<>>
  ELSE IF Wants(log[i]) THEN Append(f[i - 1], [offset |-> baseOffset + i - 1, item |-> log[i]])
  ELSE f[i - 1]

\* What the loop over `allNew` has collected when it has come to log index m.
Collected(c, k, m) ==
  /\ c \in Seq(Entry)
  /\ \A i \in DOMAIN c :
       /\ c[i].offset \in baseOffset + k .. baseOffset + m - 1
       /\ c[i].item = log[c[i].offset - baseOffset + 1]
       /\ Wants(c[i].item)
  /\ InOrder(c)
  /\ \A p \in baseOffset + k .. baseOffset + m - 1 :
       Wants(log[p - baseOffset + 1]) => \E i \in DOMAIN c : c[i].offset = p

\* Math.max of two numbers.
LEMMA MaxOfTwo ==
  ASSUME NEW a \in Int, NEW b \in Int
  PROVE  Max({a, b}) = IF a >= b THEN a ELSE b
  BY DEF Max

\* The page onPoll returns for a log index: some first candidates, at least one if there is
\* any, and every candidate before the offset it says to go on from.
LEMMA PageCollected ==
  ASSUME StreamTypes, NEW k \in Nat, NEW r, r = Page(k)
  PROVE  /\ r \in Replies /\ r.kind = "items"
         /\ r.next = End \/ r.next \in baseOffset + k + 1 .. End
         /\ Collected(r.items, k, r.next - baseOffset)
  \* A set of numbers that is not empty has a least element.
  <1>LeastNumber. ASSUME NEW T \in SUBSET Nat, T # {}
                  PROVE  \E i \in T : \A j \in T : i <= j
    <2> USE <1>LeastNumber
    <2>1. PICK i \in T : \A j \in T : ~(<<j, i>> \in OpToRel(<, Nat))
      BY NatLessThanWellFounded, WFMin, Zenon
    <2>2. \A j \in T : ~(j < i) BY <2>1, Zenon DEF OpToRel
    <2> QED BY <2>2
  \* Candidates unfolds to a function that takes one round per index, which exists.
  <1>Unfolded. Candidates(k) = (CHOOSE f : f = [i \in 0 .. Len(log) |-> Step(f, k, i)])[Len(log)]
    BY Zenon DEF Candidates, Step
  \* By induction on the number of rounds.
  <1>Exists. ASSUME NEW n \in Nat
             PROVE  \E f : f = [i \in 0 .. n |-> Step(f, k, i)]
    <2> USE <1>Exists
    <2> DEFINE P(m) == \E f : f = [i \in 0 .. m |-> Step(f, k, i)]
               T == {m \in Nat : ~P(m)}
    <2>1. SUFFICES ASSUME T # {} PROVE FALSE BY <2>1, Zenon
    <2>2. PICK m \in T : \A j \in T : m <= j BY <2>1, <1>LeastNumber, Zenon
    <2>3. CASE m = 0
      <3>1. [i \in 0 .. 0 |-> <<>>] = [i \in 0 .. 0 |-> Step([j \in 0 .. 0 |-> <<>>], k, i)] BY DEF Step
      <3> QED BY <2>2, <2>3, <3>1, Zenon
    <2>4. CASE m # 0
      <3>1. m - 1 \in Nat /\ m - 1 \notin T BY <2>2, <2>4
      <3>2. PICK f : f = [i \in 0 .. m - 1 |-> Step(f, k, i)] BY <3>1, Zenon
      <3> DEFINE g == [i \in 0 .. m |-> IF i < m THEN f[i] ELSE Step(f, k, m)]
      <3>3. \A i \in 0 .. m : g[i] = Step(g, k, i)
        <4> TAKE i \in 0 .. m
        <4>1. CASE i <= k BY <3>2, <4>1 DEF Step
        <4>2. CASE i > k
          <5>1. g[i - 1] = f[i - 1] BY <4>2
          <5>2. g[i] = Step(f, k, i) BY <3>2
          <5> QED BY <5>1, <5>2, <4>2, Zenon DEF Step
        <4> QED BY <4>1, <4>2
      <3>4. g = [i \in 0 .. m |-> Step(g, k, i)] BY <3>3, Zenon
      <3> QED BY <2>2, <3>4, Zenon
    <2> QED BY <2>3, <2>4, Zenon
  \* A round keeps what the loop has collected as it should be.
  <1>CollectedNext.
    ASSUME NEW m \in 1 .. Len(log), k < m, NEW c, Collected(c, k, m - 1),
           NEW d, d = IF Wants(log[m]) THEN Append(c, [offset |-> baseOffset + m - 1, item |-> log[m]]) ELSE c
    PROVE  Collected(d, k, m)
    <2> USE <1>CollectedNext
    <2> DEFINE e == [offset |-> baseOffset + m - 1, item |-> log[m]]
    <2>1. e \in Entry /\ baseOffset \in Nat /\ c \in Seq(Entry)
      BY SMTT(20) DEF StreamTypes, Entry, Collected
    <2>2. CASE ~Wants(log[m])
      <3>1. d = c BY <2>2, Zenon
      <3>2. \A p \in baseOffset + k .. baseOffset + m - 1 :
              Wants(log[p - baseOffset + 1]) => p \in baseOffset + k .. baseOffset + (m - 1) - 1
        <4> TAKE p \in baseOffset + k .. baseOffset + m - 1
        <4>1. p = baseOffset + m - 1 => p - baseOffset + 1 = m BY <2>1
        <4> QED BY <2>1, <2>2, <4>1
      <3>3. \A i \in DOMAIN c : c[i].offset \in baseOffset + k .. baseOffset + m - 1 BY <2>1 DEF Collected
      <3> QED BY <3>1, <3>2, <3>3, Zenon DEF Collected
    <2>3. CASE Wants(log[m])
      <3>1. d = Append(c, e) BY <2>3, Zenon
      <3>2. /\ d \in Seq(Entry) /\ Len(d) = Len(c) + 1 /\ DOMAIN d = 1 .. Len(c) + 1
            /\ DOMAIN c = 1 .. Len(c) /\ Len(c) \in Nat
            /\ \A i \in 1 .. Len(c) : d[i] = c[i]
            /\ d[Len(c) + 1] = e
        BY ONLY <2>1, <3>1
      <3>3. \A i \in 1 .. Len(c) : d[i] \in Entry BY <3>2
      <3> HIDE DEF e
      <3>4. e.offset = baseOffset + m - 1 /\ e.item = log[m] BY Zenon DEF e
      <3>5. e.offset \in baseOffset + k .. baseOffset + m - 1 /\ e.item = log[e.offset - baseOffset + 1]
        BY <2>1, <3>4
      <3>6. \A i \in DOMAIN d :
              /\ d[i].offset \in baseOffset + k .. baseOffset + m - 1
              /\ d[i].item = log[d[i].offset - baseOffset + 1]
              /\ Wants(d[i].item)
        <4> TAKE i \in DOMAIN d
        <4>1. CASE i \in 1 .. Len(c)
          <5>1. i \in DOMAIN c /\ d[i] = c[i] BY <3>2, <4>1, Zenon
          <5>2. /\ c[i].offset \in baseOffset + k .. baseOffset + (m - 1) - 1
                /\ c[i].item = log[c[i].offset - baseOffset + 1]
                /\ Wants(c[i].item)
            BY <5>1, Zenon DEF Collected
          <5>3. baseOffset \in Nat BY <2>1, Zenon
          <5>4. c[i].offset \in baseOffset + k .. baseOffset + m - 1 BY <5>2, <5>3
          <5> QED BY <5>1, <5>2, <5>4, Zenon
        <4>2. CASE i = Len(c) + 1 BY <2>3, <3>2, <3>4, <3>5, <4>2, Zenon
        <4> QED BY <3>2, <4>1, <4>2
      <3>7. InOrder(d)
        <4>1. \A i \in 1 .. Len(c) : d[i].offset < e.offset BY <2>1, <3>2, <3>4, SMTT(20) DEF Collected
        <4>2. InOrder(c) BY Zenon DEF Collected
        <4> QED BY <3>2, <4>1, <4>2 DEF InOrder
      <3>8. ASSUME NEW p \in baseOffset + k .. baseOffset + m - 1, Wants(log[p - baseOffset + 1])
            PROVE  \E i \in DOMAIN d : d[i].offset = p
        <4>1. CASE p = baseOffset + m - 1 BY <3>2, <3>4, <4>1, SMTT(20)
        <4>2. CASE p \in baseOffset + k .. baseOffset + (m - 1) - 1
          <5>1. PICK i \in DOMAIN c : c[i].offset = p BY <3>8, <4>2, Zenon DEF Collected
          <5> QED BY <3>2, <5>1
        <4>3. baseOffset \in Nat BY <2>1, Zenon
        <4>4. p = baseOffset + m - 1 \/ p \in baseOffset + k .. baseOffset + (m - 1) - 1 BY <4>3
        <4> QED BY <4>1, <4>2, <4>4, Zenon
      <3> QED BY <3>2, <3>6, <3>7, <3>8, Zenon DEF Collected
    <2> QED BY <2>2, <2>3, Zenon
  \* By induction on the index.
  <1>CandidatesCollected. Collected(Candidates(k), k, Len(log))
    <2> DEFINE f == CHOOSE f : f = [i \in 0 .. Len(log) |-> Step(f, k, i)]
               T == {m \in 0 .. Len(log) : ~Collected(f[m], k, m)}
    <2>1. Len(log) \in Nat /\ baseOffset \in Nat BY DEF StreamTypes
    <2>2. f = [i \in 0 .. Len(log) |-> Step(f, k, i)]
      <3>1. \E g : g = [i \in 0 .. Len(log) |-> Step(g, k, i)] BY <2>1, <1>Exists, Zenon
      <3> QED BY <3>1, SMTT(20)
    <2>3. Candidates(k) = f[Len(log)] BY <1>Unfolded, Zenon
    <2> HIDE DEF f
    <2>4. ASSUME T # {} PROVE FALSE
      <3>0. T \in SUBSET Nat BY <2>1
      <3>1. PICK m \in T : \A j \in T : m <= j BY <2>4, <3>0, <1>LeastNumber, Zenon
      <3>2. f[m] = Step(f, k, m) BY <2>2, Zenon
      <3>3. CASE m <= k
        <4>1. f[m] = <<>> BY <3>2, <3>3, SMTT(20) DEF Step
        <4>2. Collected(<<>>, k, m) BY <2>1, <3>3 DEF Collected, InOrder
        <4> QED BY <3>1, <4>1, <4>2, Zenon
      <3>4. CASE m > k
        <4>1. m - 1 \in 0 .. Len(log) /\ m \in 1 .. Len(log) BY <2>1, <3>4
        <4>2. Collected(f[m - 1], k, m - 1) BY <3>1, <4>1
        <4>3. f[m] = IF Wants(log[m]) THEN Append(f[m - 1], [offset |-> baseOffset + m - 1, item |-> log[m]])
                     ELSE f[m - 1]
          BY <3>2, <3>4 DEF Step
        <4> QED BY <3>1, <3>4, <4>1, <4>2, <4>3, <1>CollectedNext, Zenon
      <3> QED BY <2>1, <3>3, <3>4
    <2> QED BY <2>1, <2>3, <2>4
  \* A page is no longer than its limit and its candidates.
  <1>MinOfTwo. ASSUME NEW a \in Int, NEW b \in Int
               PROVE  Min({a, b}) = IF a <= b THEN a ELSE b
    BY <1>MinOfTwo DEF Min
  <1> DEFINE all == Candidates(k)
             l == Min({Max({ResponseLimit, 1}), Len(all)})
             page == SubSeq(all, 1, l)
             more == Len(page) < Len(all)
             next == IF more THEN all[Len(page) + 1].offset ELSE End
  <1>1. r = [kind |-> "items", items |-> page, more |-> more, next |-> next] BY Zenon DEF Page
  <1>2. Collected(all, k, Len(log)) BY <1>CandidatesCollected, Zenon
  <1>3. /\ Len(log) \in Nat /\ baseOffset \in Nat /\ End = baseOffset + Len(log)
        /\ all \in Seq(Entry) /\ Len(all) \in Nat /\ DOMAIN all = 1 .. Len(all)
    BY <1>2 DEF StreamTypes, Collected, End
  <1> HIDE DEF all
  <1>4. l \in 0 .. Len(all) /\ (Len(all) > 0 => l > 0)
    BY <1>3, MaxOfTwo, <1>MinOfTwo, StreamAssumption, SMTT(20)
  <1> HIDE DEF l
  <1>5. /\ page \in Seq(Entry) /\ Len(page) = l /\ DOMAIN page = 1 .. l
        /\ \A i \in 1 .. l : page[i] = all[i]
    BY ONLY <1>3, <1>4
  <1> HIDE DEF page
  <1>6. InOrder(page) BY <1>2, <1>3, <1>4, <1>5, SMTT(20) DEF Collected, InOrder
  <1>7. CASE more
    <2>1. l + 1 \in DOMAIN all /\ 1 \in DOMAIN all BY <1>3, <1>4, <1>5, <1>7
    <2>2. next = all[l + 1].offset BY <1>5, <1>7, Zenon
    <2> HIDE DEF next, more
    <2>3. /\ next \in baseOffset + k .. End - 1
          /\ all[1].offset \in baseOffset + k .. End - 1
      <3>1. \A i \in DOMAIN all : all[i].offset \in baseOffset + k .. baseOffset + Len(log) - 1
        BY <1>2, Zenon DEF Collected
      <3> QED BY <1>3, <2>1, <2>2, <3>1
    <2>4. all[1].offset < next
      <3>1. 1 < l + 1 BY <1>3, <1>4, <2>1
      <3>2. InOrder(all) BY <1>2, Zenon DEF Collected
      <3> QED BY <2>1, <2>2, <3>1, <3>2, Zenon DEF InOrder
    <2>5. ASSUME NEW i \in DOMAIN page PROVE page[i].offset < next
      <3>1. i \in DOMAIN all /\ i < l + 1 BY <1>3, <1>4, <1>5
      <3>2. all[i].offset < all[l + 1].offset BY <1>2, <2>1, <3>1, Zenon DEF Collected, InOrder
      <3> QED BY <1>5, <2>2, <3>2, Zenon
    <2>6. ASSUME NEW p \in baseOffset + k .. next - 1, Wants(log[p - baseOffset + 1])
          PROVE  \E i \in DOMAIN page : page[i].offset = p
      <3>1. p \in baseOffset + k .. baseOffset + Len(log) - 1 BY <1>3, <2>3
      <3>2. PICK i \in DOMAIN all : all[i].offset = p BY <1>2, <2>6, <3>1, Zenon DEF Collected
      <3>3. ~(l + 1 <= i)
        <4>1. InOrder(all) BY <1>2, Zenon DEF Collected
        <4>2. l + 1 < i => all[l + 1].offset < all[i].offset BY <2>1, <3>2, <4>1, Zenon DEF InOrder
        <4>3. p < all[l + 1].offset BY <1>3, <2>2, <2>3
        <4>4. l \in Nat /\ i \in Nat /\ p \in Int BY <1>3, <1>4, <2>3, <3>2
        <4> QED BY <2>2, <2>3, <3>2, <4>2, <4>3, <4>4
      <3> QED BY <1>3, <1>4, <1>5, <3>2, <3>3
    <2>7. ASSUME NEW i \in DOMAIN page
          PROVE  /\ page[i].offset \in baseOffset + k .. next - 1
                 /\ page[i].item = log[page[i].offset - baseOffset + 1]
                 /\ Wants(page[i].item)
      <3>1. i \in DOMAIN all /\ page[i] = all[i] BY <1>3, <1>4, <1>5
      <3>2. /\ all[i].offset \in baseOffset + k .. baseOffset + Len(log) - 1
            /\ all[i].item = log[all[i].offset - baseOffset + 1]
            /\ Wants(all[i].item)
        BY <1>2, <3>1, Zenon DEF Collected
      <3>3. all[i].offset < next BY <2>5, <3>1, Zenon
      <3> QED BY <1>3, <2>3, <3>1, <3>2, <3>3
    <2>8. Collected(page, k, next - baseOffset)
      <3>1. baseOffset + (next - baseOffset) - 1 = next - 1 BY <1>3, <2>3
      <3> QED BY <1>5, <1>6, <2>6, <2>7, <3>1, Zenon DEF Collected
    <2>9. next \in Nat /\ more \in BOOLEAN BY <1>3, <2>3 DEF more
    <2>10. r \in Replies BY <1>1, <1>5, <2>9 DEF Replies
    <2> QED BY <1>1, <1>3, <2>3, <2>4, <2>8, <2>10
  <1>8. CASE ~more
    <2>1. next = End /\ ~(Len(page) < Len(all)) BY <1>8, Zenon
    <2> HIDE DEF next, more
    <2>2. l = Len(all)
      <3>1. Len(all) \in Nat /\ Len(page) = l BY <1>3, <1>5, Zenon
      <3> QED BY ONLY <1>4, <2>1, <3>1
    <2>3. page = all BY <1>3, <1>5, <2>2
    <2>4. Collected(page, k, next - baseOffset)
      <3>1. next - baseOffset = Len(log) BY <1>3, <2>1
      <3> QED BY <1>2, <2>3, <3>1, Zenon
    <2>5. next \in Nat /\ more \in BOOLEAN BY <1>3, <2>1 DEF more
    <2>6. r \in Replies BY <1>1, <1>5, <2>5 DEF Replies
    <2> QED BY <1>1, <2>1, <2>4, <2>6
  <1> QED BY <1>7, <1>8, Zenon

-----------------------------------------------------------------------------
(* Types                                                                   *)

\* What a poll is answered with.
LEMMA ReplyTypes ==
  /\ NoReply \in Replies /\ NoPoll \in PollType
  /\ \A kind \in {"draining", "truncated", "notFound", "completed"} :
       Failure(kind) \in Replies /\ Failure(kind).kind = kind
  <1>1. NoReply \in Replies BY DEF NoReply, Replies
  <1>2. NoPoll \in PollType BY <1>1, Zenon DEF NoPoll, PollType
  <1>3. ASSUME NEW kind \in {"draining", "truncated", "notFound", "completed"}
        PROVE  Failure(kind) \in Replies /\ Failure(kind).kind = kind
    BY <1>1, Zenon DEF Failure, Replies
  <1> QED BY <1>1, <1>2, <1>3, Zenon

\* What becomes of the subscription when a poll comes back or times out.
Continued(s) ==
  \/ \E offset \in Nat : s = Again(offset)
  \/ \E state \in {"ended", "failed", "waiting"} : s = Stop(state)
  \/ s = [sub EXCEPT !.state = "yielding", !.items = poll.reply.items, !.next = poll.reply.next]

\* The initial state has the types.
LEMMA TypesInit == Init => TypeOK
  <1> SUFFICES ASSUME Init PROVE TypeOK BY Zenon
  <1>1. FromOffset \in Nat BY ClientAssumption, Zenon
  <1>2. StreamTypes BY ReplyTypes DEF Init, StreamInit, StreamTypes, NoPoll
  <1>3. NoCall \in CallType /\ NoPending \in PendingType /\ NoFlush \in FlushType
    BY DEF NoCall, NoPending, NoFlush, CallType, PendingType, FlushType
  <1>4. PublisherTypes
    <2>1. /\ published = 0 /\ buffer = <<>> /\ pending = NoPending /\ sequence = 0
          /\ flusher = "undefined" /\ flusherError = FALSE
          /\ currentFlush = NoFlush /\ call = NoCall
          /\ dropped = {} /\ told = {} /\ confirmed = {}
      BY Zenon DEF Init
    <2>2. flusherError \in BOOLEAN BY <2>1, Zenon
    <2>3. published \in Nat /\ sequence \in Nat /\ buffer \in Seq(Item) BY <2>1
    <2>4. dropped \in SUBSET Item /\ told \in SUBSET Item /\ confirmed \in SUBSET Item BY <2>1, Zenon
    <2>5. pending \in PendingType /\ currentFlush \in FlushType /\ call \in CallType BY <1>3, <2>1, Zenon
    <2> QED BY <2>1, <2>2, <2>3, <2>4, <2>5, Zenon DEF PublisherTypes
  <1>5. SubscriberTypes BY <1>1 DEF Init, SubscriberTypes, SubType, Ready
  <1> QED BY <1>2, <1>4, <1>5, Zenon DEF TypeOK

\* Every step keeps the types.
LEMMA TypesNext ==
  ASSUME Unencodable = {}, TypeOK, [Next]_vars
  PROVE  TypeOK'
  \* A poll is replied to with a reply.
  <1>ReplyKeepsType. ASSUME TypeOK, NEW r \in Replies, r.kind # "none", Reply(r)
                     PROVE  poll' \in PollType /\ poll'.reply.kind # "none"
    BY <1>ReplyKeepsType, Zenon DEF TypeOK, StreamTypes, PollType, Reply
  \* The page for a poll is a reply.
  <1>AnswerTypes. ASSUME TypeOK
                  PROVE  /\ Page(Max({poll.from - baseOffset, 0})) \in Replies
                         /\ Page(Max({poll.from - baseOffset, 0})).kind # "none"
    <2> USE <1>AnswerTypes
    <2>1. PICK k : k = Max({poll.from - baseOffset, 0}) BY Zenon
    <2>2. poll.from \in Nat /\ baseOffset \in Nat /\ StreamTypes
      BY Zenon DEF TypeOK, StreamTypes, PollType
    <2>3. k \in Nat BY <2>1, <2>2, MaxOfTwo
    <2>4. PICK r : r = Page(k) BY Zenon
    <2>5. r \in Replies /\ r.kind # "none" BY <2>2, <2>3, <2>4, PageCollected, Zenon
    <2> QED BY <2>1, <2>4, <2>5, Zenon
  \* The workflow's items and batches keep their types.
  <1>WorkflowTypes. ASSUME TypeOK, StreamStep \/ \E t \in Topics : publishToTopic(t)
                    PROVE  StreamTypes'
    <2> USE <1>WorkflowTypes
    <2> USE DEF TypeOK, StreamTypes, PollType
    <2>1. CASE onPublish
      <3>1. Head(inbox) \in Batch /\ Tail(inbox) \in Seq(Batch) BY <2>1 DEF onPublish
      <3>2. Head(inbox).items \in Seq(Item) /\ Head(inbox).sequence \in Nat BY <3>1, Zenon DEF Batch
      <3>3. log' \in Seq(Item) /\ appended' \in Seq(Item) /\ publisher' \in [seq : Nat, seen : Nat]
        <4>1. CASE Head(inbox).sequence <= publisher.seq BY <2>1, <4>1, Zenon DEF onPublish
        <4>2. CASE ~(Head(inbox).sequence <= publisher.seq)
          <5>1. /\ log' = log \o Head(inbox).items /\ appended' = appended \o Head(inbox).items
                /\ publisher' = [seq |-> Head(inbox).sequence, seen |-> now]
            BY <2>1, <4>2, SMTT(20) DEF onPublish, Push
          <5> QED BY <3>2, <5>1
        <4> QED BY <4>1, <4>2, Zenon
      <3> QED BY <2>1, <3>1, <3>3, Zenon DEF onPublish
    <2>2. ASSUME NEW t \in Topics, publishToTopic(t) PROVE StreamTypes'
      <3>1. [by |-> "workflow", n |-> Len(appended) + 1, topic |-> t] \in Item BY DEF Item
      <3> QED BY <2>2, <3>1 DEF publishToTopic, Push
    <2>3. ASSUME NEW o \in 0 .. End, truncate(o) PROVE StreamTypes'
      <3>1. End = baseOffset + Len(log) /\ Len(log) \in Nat BY DEF End
      <3>2. SubSeq(log, o - baseOffset + 1, Len(log)) \in Seq(Item) BY <2>3, <3>1 DEF truncate
      <3> QED BY <2>3, <3>2 DEF truncate
    <2>4. CASE acceptPoll
      <3>1. poll' \in PollType /\ (poll'.stage = "replied" => poll'.reply.kind # "none")
        <4>1. ASSUME NEW kind \in {"draining", "truncated"}, Reply(Failure(kind))
              PROVE  poll' \in PollType /\ poll'.reply.kind # "none"
          BY <4>1, ReplyTypes, <1>ReplyKeepsType, Zenon
        <4>2. CASE poll' = [poll EXCEPT !.stage = "parked", !.run = run] BY <4>2, Zenon
        <4> QED BY <2>4, <4>1, <4>2, Zenon DEF acceptPoll
      <3> QED BY <2>4, <3>1, Zenon DEF acceptPoll
    <2>5. CASE refusePoll
      <3>1. poll' \in PollType /\ poll'.reply.kind # "none" BY <2>5, ReplyTypes, Zenon DEF refusePoll
      <3> QED BY <2>5, <3>1, Zenon DEF refusePoll
    <2>6. CASE wakePoll BY <2>6, Zenon DEF wakePoll
    <2>7. CASE answerPoll
      <3>1. /\ \/ poll' = [poll EXCEPT !.stage = "replied", !.run = run, !.reply = Failure("truncated")]
               \/ poll' = [poll EXCEPT !.stage = "replied", !.run = run,
                                       !.reply = Page(Max({poll.from - baseOffset, 0}))]
        BY <2>7, Zenon DEF answerPoll, Reply
      <3>2. /\ Page(Max({poll.from - baseOffset, 0})) \in Replies
            /\ Page(Max({poll.from - baseOffset, 0})).kind # "none"
        BY <1>AnswerTypes, Zenon
      <3>3. poll' \in PollType /\ poll'.reply.kind # "none" BY <3>1, <3>2, ReplyTypes, Zenon
      <3> QED BY <2>7, <3>3, Zenon DEF answerPoll
    <2>8. CASE detachPollers BY <2>8, Zenon DEF detachPollers
    <2>9. CASE RollOver
      <3>1. poll' \in PollType /\ (poll'.stage = "replied" => poll'.reply.kind # "none")
        <4>1. Reply(Failure("completed")) \/ poll' = poll BY <2>9, Zenon DEF RollOver, PollAtEnd
        <4> QED BY <4>1, ReplyTypes, <1>ReplyKeepsType, Zenon
      <3>2. publisher' \in [seq : Nat, seen : Nat] BY <2>9, Zenon DEF RollOver, Prune
      <3> QED BY <2>9, <3>1, <3>2 DEF RollOver
    <2>10. CASE complete
      <3>1. poll' \in PollType /\ (poll'.stage = "replied" => poll'.reply.kind # "none")
        <4>1. Reply(Failure("completed")) \/ poll' = poll BY <2>10, Zenon DEF complete, PollAtEnd
        <4> QED BY <4>1, ReplyTypes, <1>ReplyKeepsType, Zenon
      <3> QED BY <2>10, <3>1, Zenon DEF complete
    <2> QED BY <2>1, <2>2, <2>3, <2>4, <2>5, <2>6, <2>7, <2>8, <2>9, <2>10, Zenon
            DEF StreamStep, continueAsNew, continueAsNewAtOnce
  \* The flush a step of _doFlush starts, and what it leaves of the buffer and
  \* of the pending batch.
  <1>FlushTypes.
    ASSUME Unencodable = {}, TypeOK, NEW owner \in {"flusher", "caller"}, _doFlush(owner)
    PROVE  /\ buffer' \in Seq(Item) /\ sequence' \in Nat
           /\ pending' \in PendingType
           /\ currentFlush' \in FlushType
           /\ dropped' \in SUBSET Item
    <2> USE <1>FlushTypes
    <2> USE DEF TypeOK, StreamTypes, PublisherTypes, PendingType, FlushType, CallType
    <2>1. \A stage \in {"sending", "expired", "nothing"} :
            Flushing(owner, stage) \in FlushType
      BY Zenon DEF Flushing
    <2>2. NoPending \in PendingType BY DEF NoPending
    <2>3. Range(pending.items) \subseteq Item BY DEF Range
    <2>4. CASE Expire /\ currentFlush' = Flushing(owner, "expired")
      BY <2>1, <2>2, <2>3, <2>4, Zenon DEF Expire
    <2>5. CASE /\ currentFlush' = Flushing(owner, "sending")
               /\ UNCHANGED <<buffer, pending, sequence, dropped>>
      BY <2>1, <2>5, Zenon
    <2>6. CASE /\ buffer' = <<>> /\ currentFlush' = Flushing(owner, "sending")
               /\ pending' = [items |-> buffer, seq |-> sequence + 1, startedAt |-> now]
               /\ UNCHANGED <<dropped, sequence>>
      BY <2>1, <2>6
    <2>7. CASE /\ currentFlush' = Flushing(owner, "nothing")
               /\ UNCHANGED <<buffer, pending, sequence, dropped>>
      BY <2>1, <2>7, SMTT(20)
    <2> QED BY <2>4, <2>5, <2>6, <2>7, Zenon DEF _doFlush
  \* What becomes of the caller's flush() or dispose.
  <1>CallTypes.
    ASSUME NEW c \in CallType, NEW at \in {"none", "ready", "flushing", "waiting", "joining"}
    PROVE  /\ [c EXCEPT !.at = at] \in CallType
           /\ \A target \in Nat : [c EXCEPT !.at = at, !.target = target] \in CallType
           /\ c.target \in Nat /\ c.barrier \in SUBSET Item
    <2> USE <1>CallTypes
    <2>1. [c EXCEPT !.at = at] \in CallType BY Zenon DEF CallType
    <2>2. ASSUME NEW target \in Nat PROVE [c EXCEPT !.at = at, !.target = target] \in CallType
      BY Zenon DEF CallType
    <2>3. c.target \in Nat /\ c.barrier \in SUBSET Item BY Zenon DEF CallType
    <2> QED BY <2>1, <2>2, <2>3, Zenon
  \* A call of flush() or dispose starts as a call.
  <1>NewCallTypes. ASSUME NEW op \in {"none", "flush", "flushOnce", "join", "drain"},
                          NEW at \in {"none", "ready", "flushing", "waiting", "joining"}
                   PROVE  [NoCall EXCEPT !.op = op, !.at = at] \in CallType
    <2> USE <1>NewCallTypes
    <2>1. NoCall \in CallType BY Zenon DEF NoCall, CallType
    <2> QED BY <2>1, Zenon DEF CallType
  \* The client's own steps that bear on its types.
  <1>PublisherStepTypes.
    ASSUME Unencodable = {}, TypeOK,
           signalArrives \/ Publisher \/ flush \/ dispose \/ \E t \in Topics : publish(t)
    PROVE  PublisherTypes'
    <2> USE <1>PublisherStepTypes
    <2> USE DEF TypeOK, StreamTypes, PublisherTypes
    <2>0. /\ NoCall \in CallType
          /\ NoPending \in PendingType /\ NoFlush \in FlushType
          /\ Range(buffer) \subseteq Item /\ Range(pending.items) \subseteq Item
          /\ pending.seq \in Nat
      BY DEF NoCall, NoPending, NoFlush, CallType, PendingType, FlushType, Range
    <2>1. ASSUME NEW t \in Topics, publish(t) PROVE PublisherTypes'
      <3>1. [by |-> "client", n |-> published + 1, topic |-> t] \in Item BY DEF Item
      <3> QED BY <2>1, <3>1 DEF publish
    <2>2. CASE signalArrives BY <2>2, Zenon DEF signalArrives, FlushType
    <2>3. CASE signalReturns
      <3>1. \/ currentFlush' = [currentFlush EXCEPT !.stage = "done"]
            \/ currentFlush' = [currentFlush EXCEPT !.stage = "failed"]
        BY <2>3, Zenon DEF signalReturns
      <3>2. pending' = NoPending \/ pending' = pending BY <2>3, Zenon DEF signalReturns
      <3>3. sequence' \in Nat BY <2>0, <2>3, Zenon DEF signalReturns
      <3>4. currentFlush' \in FlushType BY <3>1, Zenon DEF FlushType
      <3>5. pending' \in PendingType BY <2>0, <3>2, Zenon
      <3> QED BY <2>3, <3>3, <3>4, <3>5, Zenon DEF signalReturns
    <2>4. CASE settle
      <3>1. flusher' \in {"undefined", "sleeping", "ready", "flushing", "waiting", "ended"}
        BY <2>4, Zenon DEF settle, FlusherAfter
      <3>2. call' = NoCall \/ call' = [call EXCEPT !.at = "ready"] \/ call' = call BY <2>4 DEF settle
      <3>3. call' \in CallType BY <2>0, <3>2, Zenon DEF CallType
      <3>4. flusherError' \in BOOLEAN BY <2>4, Zenon DEF settle
      <3> QED BY <2>0, <2>4, <3>1, <3>3, <3>4, Zenon DEF settle
    <2>5. CASE flusherFlushes BY <2>5, <1>FlushTypes, Zenon DEF flusherFlushes
    <2>6. CASE flusherEnds BY <2>6, Zenon DEF flusherEnds
    <2>7. CASE disposeJoins
      <3>1. call' \in CallType
        BY <2>7, Zenon DEF disposeJoins, NoCall, CallType
      <3> QED BY <2>7, <3>1, Zenon DEF disposeJoins
    <2>8. CASE callFlushes
      <3>1. call' \in CallType
        <4>1. \/ call' = [call EXCEPT !.at = "flushing", !.target = 1]
              \/ call' = [call EXCEPT !.at = "flushing", !.target = call.target]
              \/ call' = [call EXCEPT !.at = "waiting"]
          BY <2>8, Zenon DEF callFlushes
        <4>2. call.target \in Nat BY <1>CallTypes, Zenon
        <4>3. PICK target \in Nat : \/ call' = [call EXCEPT !.at = "flushing", !.target = target]
                                   \/ call' = [call EXCEPT !.at = "waiting"]
          BY <4>1, <4>2, Zenon
        <4>4. call \in CallType BY Zenon
        <4> QED BY ONLY <4>3, <4>4, Zenon DEF CallType
      <3> QED BY <2>8, <3>1, <1>FlushTypes, SMTT(20) DEF callFlushes
    <2>9. ASSUME NEW b \in SUBSET Item, Return(b),
                 UNCHANGED <<published, buffer, pending, sequence, flusher, flusherStopped, currentFlush, dropped>>
          PROVE PublisherTypes'
      <3>1. /\ call' = NoCall /\ flusherError' = FALSE
            /\ told' = dropped \/ told' = told
            /\ confirmed' = confirmed \/ confirmed' = confirmed \cup b
        BY <2>9, Zenon DEF Return
      <3>2. told' \subseteq Item /\ confirmed' \subseteq Item BY <3>1, Zenon
      <3> QED BY <2>0, <2>9, <3>1, <3>2, Zenon
    <2>10. CASE callReturns BY <2>9, <2>10, <1>CallTypes, Zenon DEF callReturns
    <2>11. CASE flush
      <3>1. CASE flusherError \/ Unsent = {} BY <2>9, <2>11, <3>1, Zenon DEF flush
      <3>2. CASE ~(flusherError \/ Unsent = {})
        <4>1. Target \in Nat /\ Unsent \in SUBSET Item BY <2>0, SMTT(20) DEF Target, Unsent, PendingType
        <4> QED BY <2>11, <3>2, <4>1 DEF flush, CallType
      <3> QED BY <3>1, <3>2, Zenon
    <2>12. CASE dispose
      <3>1. call' \in CallType
        <4>1. \/ call' = [NoCall EXCEPT !.op = "flushOnce", !.at = "ready"]
              \/ call' = [NoCall EXCEPT !.op = "join", !.at = "joining"]
          BY <2>12, Zenon DEF dispose
        <4> QED BY <4>1, <1>NewCallTypes, Zenon
      <3> QED BY <2>12, <3>1, Zenon DEF dispose
    <2> QED BY <2>1, <2>2, <2>3, <2>4, <2>5, <2>6, <2>7, <2>8, <2>10, <2>11, <2>12, Zenon DEF Publisher
  \* The subscription goes on with an offset or a page.
  <1>ContinuedTypes. ASSUME TypeOK, NEW s, Continued(s)
                     PROVE  s \in SubType
    <2> USE <1>ContinuedTypes
    <2>1. sub \in SubType /\ poll.reply \in Replies
      BY Zenon DEF TypeOK, SubscriberTypes, StreamTypes, PollType
    <2>2. poll.reply.items \in Seq(Entry) /\ poll.reply.next \in Nat BY <2>1, Zenon DEF Replies
    <2>3. ASSUME NEW offset \in Nat, s = Again(offset) PROVE s \in SubType
      BY ONLY <2>1, <2>3, Zenon DEF Again, SubType
    <2>4. ASSUME NEW state \in {"ended", "failed", "waiting"}, s = Stop(state) PROVE s \in SubType
      BY ONLY <2>1, <2>4, Zenon DEF Stop, SubType
    <2>5. CASE s = [sub EXCEPT !.state = "yielding", !.items = poll.reply.items, !.next = poll.reply.next]
      BY ONLY <2>1, <2>2, <2>5, Zenon DEF SubType
    <2> QED BY <2>3, <2>4, <2>5, Zenon DEF Continued
  \* A poll that comes back or times out lets the subscription go on or end.
  <1>ReceiveContinues. ASSUME TypeOK, receivePoll \/ pollTimesOut
                       PROVE  Continued(sub')
    <2> USE <1>ReceiveContinues
    <2>0. sub.offset \in Nat BY Zenon DEF TypeOK, SubscriberTypes, SubType
    <2>1. ASSUME NEW polled, NEW P, FollowOr(polled, P), P => Continued(sub') PROVE Continued(sub')
      BY <2>0, <2>1, Zenon DEF FollowOr, Continued
    <2>2. CASE pollTimesOut
      <3>1. sub' = Stop("ended") => Continued(sub') BY Zenon DEF Continued
      <3> QED BY <2>1, <2>2, <3>1, Zenon DEF pollTimesOut
    <2>3. CASE receivePoll
      <3>1. ASSUME NEW polled, EndOrFail(polled) PROVE Continued(sub')
        BY <3>1, Zenon DEF EndOrFail, Continued
      <3>0. poll.reply.kind \in {"draining", "truncated", "notFound", "completed", "items"}
        BY <2>3, Zenon DEF receivePoll, TypeOK, StreamTypes, PollType, Replies
      <3>2. PICK polled :
              \/ sub' = [sub EXCEPT !.state = "yielding", !.items = poll.reply.items, !.next = poll.reply.next]
              \/ sub' = Again(0) \/ sub' = Again(sub.offset) \/ sub' = Stop("ended")
              \/ EndOrFail(polled)
        BY <2>3, <3>0, Zenon DEF receivePoll, FollowOr
      <3> QED BY <2>0, <3>1, <3>2, Zenon DEF Continued
    <2> QED BY <2>2, <2>3, Zenon
  <1>1. CASE WorkflowStep /\ UNCHANGED <<publisherVars, subscriberVars>>
    <2>1. StreamTypes' BY <1>1, <1>WorkflowTypes, Zenon DEF WorkflowStep
    <2> QED BY <1>1, <2>1, Zenon DEF TypeOK, PublisherTypes, SubscriberTypes, publisherVars, subscriberVars
  <1>2. CASE ClientStep /\ UNCHANGED subscriberVars
    <2>1. PublisherTypes' BY <1>2, <1>PublisherStepTypes, Zenon DEF ClientStep
    <2>2. SubscriberTypes' BY <1>2, Zenon DEF TypeOK, SubscriberTypes, subscriberVars
    <2>3. CASE signalArrives
      <3>1. [items |-> pending.items, sequence |-> pending.seq] \in Batch
        BY Zenon DEF TypeOK, PublisherTypes, PendingType, Batch
      <3> QED BY <2>1, <2>2, <2>3, <3>1 DEF signalArrives, TypeOK, StreamTypes
    <2>4. CASE ~signalArrives
      <3>1. UNCHANGED streamVars
        BY <1>2, <2>4, Zenon DEF ClientStep, Publisher, flush, dispose, publish, signalReturns, settle,
                          flusherFlushes, flusherEnds, disposeJoins, callFlushes, callReturns
      <3> QED BY <2>1, <2>2, <3>1, Zenon DEF TypeOK, StreamTypes, streamVars
    <2> QED BY <2>3, <2>4, Zenon
  <1>3. CASE tick
    BY <1>3 DEF tick, TypeOK, StreamTypes, PublisherTypes, SubscriberTypes, publisherVars, subscriberVars
  <1>4. CASE startPoll
    <2>1. sub \in SubType /\ sub.offset \in Nat BY Zenon DEF TypeOK, SubscriberTypes, SubType
    <2>2. sub' \in SubType BY ONLY <1>4, <2>1, Zenon DEF startPoll, SubType
    <2>3. poll' = [NoPoll EXCEPT !.stage = "sent", !.from = sub.offset] BY <1>4, Zenon DEF startPoll
    <2>4. NoPoll \in PollType BY ReplyTypes, Zenon
    <2>5. poll' \in PollType /\ poll'.stage = "sent" BY ONLY <2>1, <2>3, <2>4, Zenon DEF PollType
    <2> QED BY <1>4, <2>2, <2>5, Zenon DEF startPoll, TypeOK, StreamTypes, PublisherTypes, SubscriberTypes, publisherVars
  <1>5. CASE receivePoll \/ pollTimesOut
    <2>1. sub' \in SubType BY <1>5, <1>ReceiveContinues, <1>ContinuedTypes, Zenon
    <2>2. poll' \in PollType /\ poll'.stage = "none"
      <3>1. poll' = NoPoll BY <1>5, Zenon DEF receivePoll, pollTimesOut
      <3>2. NoPoll.stage = "none" BY Zenon DEF NoPoll
      <3> QED BY <3>1, <3>2, ReplyTypes, Zenon
    <2>3. /\ UNCHANGED <<log, appended, baseOffset, publisher, inbox, run, now, given>>
          /\ UNCHANGED publisherVars
      BY <1>5, Zenon DEF receivePoll, pollTimesOut
    <2> QED BY <2>1, <2>2, <2>3, Zenon DEF TypeOK, StreamTypes, PublisherTypes, SubscriberTypes, publisherVars
  <1>6. CASE yield
    <2>1. sub \in SubType /\ given \in Seq(Entry) BY Zenon DEF TypeOK, SubscriberTypes
    <2>2. sub.items \in Seq(Entry) /\ sub.next \in Nat BY <2>1, Zenon DEF SubType
    <2>3. sub' \in SubType /\ given' \in Seq(Entry)
      <3>1. CASE sub.items # <<>>
        <4>1. Head(sub.items) \in Entry /\ Tail(sub.items) \in Seq(Entry) BY <2>2, <3>1
        <4>2. /\ given' = Append(given, Head(sub.items))
              /\ sub' = [sub EXCEPT !.items = Tail(sub.items)]
          BY <1>6, <3>1, Zenon DEF yield
        <4>3. sub' \in SubType BY ONLY <2>1, <4>1, <4>2, Zenon DEF SubType
        <4> QED BY <2>1, <4>1, <4>2, <4>3
      <3>2. CASE sub.items = <<>>
        <4>1. sub' = Again(sub.next) /\ given' = given BY <1>6, <3>2, Zenon DEF yield
        <4> QED BY <2>1, <2>2, <4>1, <1>ContinuedTypes, Zenon DEF Continued
      <3> QED BY <3>1, <3>2, Zenon
    <2> QED BY <1>6, <2>3, Zenon DEF yield, TypeOK, StreamTypes, PublisherTypes, SubscriberTypes, streamVars, publisherVars
  <1>7. CASE UNCHANGED vars
    BY <1>7, Zenon DEF vars, streamVars, publisherVars, subscriberVars, TypeOK, StreamTypes,
       PublisherTypes, SubscriberTypes
  <1> QED BY <1>1, <1>2, <1>3, <1>4, <1>5, <1>6, <1>7, StepKinds, Zenon DEF Subscriber

-----------------------------------------------------------------------------
(* The client's theorems                                                    *)

\* Where every item can be encoded, the variables of the client, of the workflow's stream and
\* of the subscription keep to their types: a batch in the workflow's inbox, a reply to a poll
\* and a page of a subscription hold items, each reply to a poll with the offset to go on from.
THEOREM StreamsTypeCorrect ==
  ASSUME Unencodable = {}
  PROVE  Spec => []TypeOK
  <1>1. Init => TypeOK BY TypesInit
  <1>2. TypeOK /\ [Next]_vars => TypeOK' BY TypesNext
  <1> QED BY <1>1, <1>2, PTL DEF Spec

\* Where every item can be encoded the invariant holds.
THEOREM ClientInvariant ==
  ASSUME Unencodable = {}
  PROVE  Spec => []ClientInv
  <1>1. Init => ClientInv BY TypesInit, PublisherInit, Zenon
  <1>2. ClientInv /\ [Next]_vars => ClientInv'
    BY TypesNext, PublisherNext, Zenon DEF ClientInv
  <1> QED BY <1>1, <1>2, PTL DEF Spec

\* An item given to publish is still the client's, or the server has accepted it for good, or
\* some call has thrown, or will throw, a FlushTimeoutError for it, whatever signals are lost,
\* retried, given up or accepted twice, and whenever runs forget the publisher.
THEOREM LossIsNeverSilent ==
  ASSUME Unencodable = {}
  PROVE  Spec => []NoSilentLoss
  <1>1. ASSUME ClientInv PROVE NoSilentLoss
    <2>1. CASE dropped \subseteq told
      BY <1>1, <2>1, Zenon DEF ClientInv, LossInv, NoSilentLoss, Numbers
    <2>2. CASE flusherError \/ currentFlush.stage = "expired"
      BY <1>1, <2>2, Zenon DEF ClientInv, LossInv, NoSilentLoss, Numbers, Surfacing, Settled
    <2> QED BY <1>1, <2>1, <2>2, Zenon DEF ClientInv, LossInv
  <1> QED BY <1>1, ClientInvariant, PTL

\* When flush() returns without an error, everything that was unsent when it was called has been
\* accepted by the server, whoever sent it.
THEOREM FlushWaitsForAll ==
  ASSUME Unencodable = {}
  PROVE  Spec => []FlushIsBarrier
  <1>1. ASSUME ClientInv PROVE FlushIsBarrier BY <1>1, Zenon DEF ClientInv, BarrierInv, FlushIsBarrier
  <1> QED BY <1>1, ClientInvariant, PTL

-----------------------------------------------------------------------------
(* The subscription                                                        *)

\* A subscription that has been given everything before `resume` and goes on from `offset`
\* misses nothing that is there.
ContinuesAt(offset, resume, items, base) ==
  /\ offset <= Len(items)
  /\ resume <= offset \/ resume <= base
  /\ \A p \in resume .. offset - 1 : Wants(items[p + 1]) => p < base

\* A page holds what is wanted, in order, up to the offset that follows it.
GoesOn(page, next, resume, items, base) ==
  /\ next <= Len(items) /\ resume <= next
  /\ \A i \in DOMAIN page :
       /\ page[i].offset \in resume .. next - 1
       /\ page[i].item = items[page[i].offset + 1]
       /\ Wants(page[i].item)
  /\ InOrder(page)
  /\ \A p \in resume .. next - 1 :
       Wants(items[p + 1]) => p < base \/ \E i \in DOMAIN page : page[i].offset = p

\* The same of the log as it is and of what the subscriber has been given.
Continues(offset) == ContinuesAt(offset, Promise!Resume, appended, baseOffset)
PageInv(page, next) == GoesOn(page, next, Promise!Resume, appended, baseOffset)

\* The subscription, waiting or between items, and the reply on its way to it, miss nothing.
SubInv ==
  /\ poll.stage # "none" => sub.state = "waiting" /\ poll.from = sub.offset
  /\ sub.state \in {"ready", "waiting"} => Continues(sub.offset)
  /\ sub.state = "yielding" => PageInv(sub.items, sub.next)
  /\ poll.stage = "replied" /\ poll.reply.kind = "items" => PageInv(poll.reply.items, poll.reply.next)
  /\ poll.stage = "replied" /\ poll.reply.kind = "truncated" => poll.from < baseOffset

\* What the log may have gained and lost at a step.
Later(items, base, items2, base2) ==
  /\ base <= base2 /\ Len(items) <= Len(items2)
  /\ \A i \in 1 .. Len(items) : items2[i] = items[i]

\* The first offset the subscriber has not been given is a number.
LEMMA ResumeIsNumber ==
  ASSUME NEW g \in Seq(Entry), NEW r, r = IF g = <<>> THEN FromOffset ELSE g[Len(g)].offset + 1
  PROVE  r \in Nat
  <1>1. CASE g = <<>> BY <1>1, ClientAssumption, Zenon
  <1>2. CASE g # <<>>
    <2>1. g[Len(g)] \in Entry BY <1>2
    <2>2. g[Len(g)].offset \in Nat BY <2>1, Zenon DEF Entry
    <2> QED BY <1>2, <2>2
  <1> QED BY <1>1, <1>2, Zenon

\* How a step may change the log: onPublish and publish of the workflow push, truncate discards,
\* and neither touches the subscription.
LEMMA LogKinds ==
  ASSUME TypeOK, BatchInv, LogInv, SeenInv, [Next]_vars
  PROVE  \/ \E q \in Seq(Item) : Push(q) /\ UNCHANGED <<baseOffset, poll, sub, given>>
         \/ baseOffset' \in baseOffset + 1 .. Len(appended) /\ UNCHANGED <<appended, poll, sub, given>>
         \/ UNCHANGED <<log, baseOffset, appended>>
  <1>1. CASE onPublish /\ UNCHANGED subscriberVars
    <2>1. CASE Head(inbox).sequence <= publisher.seq BY <1>1, <2>1, Zenon DEF onPublish
    <2>2. CASE ~(Head(inbox).sequence <= publisher.seq)
      <3>1. Push(Head(inbox).items) /\ inbox # <<>> /\ UNCHANGED <<baseOffset, poll, sub, given>>
        BY <1>1, <2>2, Zenon DEF onPublish, subscriberVars
      <3>2. Head(inbox).items \in Seq(Item) BY <2>2, <3>1, TakenIsNew, Zenon
      <3> QED BY <3>1, <3>2, Zenon
    <2> QED BY <2>1, <2>2, Zenon
  <1>2. ASSUME NEW t \in Topics, publishToTopic(t), UNCHANGED subscriberVars
        PROVE  \E q \in Seq(Item) : Push(q) /\ UNCHANGED <<baseOffset, poll, sub, given>>
    <2> DEFINE e == [by |-> "workflow", n |-> Len(appended) + 1, topic |-> t]
    <2>1. Push(<<e>>) /\ UNCHANGED <<baseOffset, poll, sub, given>>
      BY <1>2, Zenon DEF publishToTopic, subscriberVars
    <2>2. e \in Item BY DEF Item, TypeOK, StreamTypes
    <2> HIDE DEF e
    <2>3. <<e>> \in Seq(Item) BY <2>2
    <2> QED BY <2>1, <2>3, Zenon
  <1>3. ASSUME NEW o \in 0 .. End, truncate(o), UNCHANGED subscriberVars
        PROVE  baseOffset' \in baseOffset + 1 .. Len(appended) /\ UNCHANGED <<appended, poll, sub, given>>
    <2>1. o \in Nat BY DEF End, TypeOK, StreamTypes
    <2> QED BY <1>3, <2>1, TruncateKeepsLog, Zenon DEF truncate, subscriberVars
  <1>4. CASE acceptPoll \/ refusePoll \/ wakePoll \/ answerPoll \/ detachPollers \/ RollOver \/ complete
    BY <1>4, Zenon DEF acceptPoll, refusePoll, wakePoll, answerPoll, detachPollers, RollOver, complete
  <1>5. CASE WorkflowStep /\ UNCHANGED <<publisherVars, subscriberVars>>
    BY <1>1, <1>2, <1>3, <1>4, <1>5, Zenon DEF WorkflowStep, StreamStep, continueAsNew,
       continueAsNewAtOnce
  <1>6. CASE ClientStep
    BY <1>6, Zenon DEF ClientStep, Publisher, signalArrives, flush, dispose, publish, signalReturns,
       settle,
           flusherFlushes, flusherEnds, disposeJoins, callFlushes, callReturns, streamVars
  <1>7. CASE tick \/ Subscriber \/ pollTimesOut \/ UNCHANGED vars
    BY <1>7, Zenon DEF tick, Subscriber, startPoll, receivePoll, yield, pollTimesOut, vars, streamVars
  <1> QED BY <1>5, <1>6, <1>7, StepKinds, Zenon

\* The iterator hands out the next item of the page, which is the next one of the log.
LEMMA YieldStep ==
  ASSUME TypeOK, SubInv, yield
  PROVE  SubInv' /\ (Promise!Give \/ UNCHANGED <<appended, baseOffset, given>>)
  \* The first item of a page is the next one to give, and the rest of the page goes on from it.
  <1>HeadGoesOn.
    ASSUME NEW a \in Seq(Item), NEW base \in Nat, NEW r \in Nat, NEW n \in Nat,
           NEW page \in Seq(Entry), page # <<>>, GoesOn(page, n, r, a, base), NEW h, h = Head(page)
    PROVE  /\ h \in Entry /\ h.offset \in r .. n - 1 /\ n <= Len(a)
           /\ h.item = a[h.offset + 1] /\ Wants(h.item)
           /\ \A p \in r .. h.offset - 1 : Wants(a[p + 1]) => p < base
           /\ GoesOn(Tail(page), n, h.offset + 1, a, base)
    <2> USE <1>HeadGoesOn
    <2>1. /\ Len(page) \in Nat \ {0} /\ DOMAIN page = 1 .. Len(page) /\ 1 \in DOMAIN page
          /\ h = page[1] /\ h \in Entry
      OBVIOUS
    <2>2. PICK o : o = h.offset BY Zenon
    <2>3. o \in Nat /\ o \in r .. n - 1 /\ h.item = a[o + 1] /\ Wants(h.item)
      BY <2>1, <2>2, Zenon DEF GoesOn, Entry
    <2>4. ASSUME NEW i \in DOMAIN page PROVE page[i].offset \in Nat
      <3>1. page[i] \in Entry OBVIOUS
      <3> QED BY <3>1, Zenon DEF Entry
    <2>5. \A i \in DOMAIN page : i # 1 => o < page[i].offset
      BY <2>1, <2>2, SMTT(20) DEF GoesOn, InOrder
    <2>6. ASSUME NEW p \in r .. o - 1, Wants(a[p + 1]) PROVE p < base
      <3>0. o \in Nat /\ o \in r .. n - 1 BY <2>3, Zenon
      <3>1. p \in r .. n - 1 BY <3>0
      <3>2. ASSUME NEW i \in DOMAIN page, page[i].offset = p PROVE FALSE
        BY <2>1, <2>2, <2>3, <2>5, <3>2, SMTT(20)
      <3> QED BY <2>6, <3>1, <3>2, Zenon DEF GoesOn
    <2>7. PICK rest : rest = Tail(page) BY Zenon
    <2>8. /\ DOMAIN rest = 1 .. Len(page) - 1
          /\ \A i \in DOMAIN rest : i + 1 \in DOMAIN page /\ rest[i] = page[i + 1]
      BY <2>1, <2>7
    <2>9. GoesOn(rest, n, o + 1, a, base)
      <3>1. n <= Len(a) /\ o + 1 <= n BY <2>3 DEF GoesOn
      <3>2. ASSUME NEW i \in DOMAIN rest
            PROVE  /\ rest[i].offset \in o + 1 .. n - 1
                   /\ rest[i].item = a[rest[i].offset + 1]
                   /\ Wants(rest[i].item)
        <4>1. i + 1 \in DOMAIN page /\ i + 1 # 1 /\ rest[i] = page[i + 1] BY <2>8
        <4>2. PICK e : e = page[i + 1] BY Zenon
        <4>3. /\ o < e.offset /\ e.offset \in Nat /\ e.offset \in r .. n - 1
              /\ e.item = a[e.offset + 1] /\ Wants(e.item)
          BY <2>4, <2>5, <4>1, <4>2, Zenon DEF GoesOn
        <4>4. e.offset \in o + 1 .. n - 1 BY <2>3, <4>3
        <4> QED BY <4>1, <4>2, <4>3, <4>4, Zenon
      <3>3. InOrder(rest)
        <4>1. \A i, j \in DOMAIN rest : i < j => i + 1 < j + 1 BY <2>1, <2>8
        <4> QED BY <2>8, <4>1, Zenon DEF GoesOn, InOrder
      <3>4. ASSUME NEW p \in o + 1 .. n - 1, Wants(a[p + 1]), ~(p < base)
            PROVE  \E i \in DOMAIN rest : rest[i].offset = p
        <4>0. o \in Nat /\ o \in r .. n - 1 BY <2>3, Zenon
        <4>1. p \in r .. n - 1 BY <4>0
        <4>2. PICK i \in DOMAIN page : page[i].offset = p BY <3>4, <4>1, SMTT(20) DEF GoesOn
        <4>3. i # 1 BY <2>1, <2>2, <2>3, <4>2
        <4>4. i - 1 \in DOMAIN rest /\ (i - 1) + 1 = i BY <2>1, <2>8, <4>3
        <4> QED BY <2>8, <4>2, <4>4, Zenon
      <3> QED BY <3>1, <3>2, <3>3, <3>4, Zenon DEF GoesOn
    <2>10. n <= Len(a) BY Zenon DEF GoesOn
    <2> QED BY <2>1, <2>2, <2>3, <2>6, <2>7, <2>9, <2>10, Zenon
  <1>0. /\ sub \in SubType /\ sub.items \in Seq(Entry) /\ sub.next \in Nat /\ given \in Seq(Entry)
        /\ UNCHANGED <<appended, baseOffset, poll>> /\ sub.state = "yielding"
        /\ appended \in Seq(Item) /\ Len(appended) \in Nat /\ baseOffset \in Nat
    BY DEF TypeOK, StreamTypes, SubscriberTypes, SubType, yield, streamVars
  <1>1. poll'.stage = "none" BY <1>0, Zenon DEF SubInv
  <1>2. PICK r : r = Promise!Resume BY Zenon
  <1>3. r \in Nat BY <1>0, <1>2, ResumeIsNumber, Zenon DEF Promise!Resume
  <1>4. GoesOn(sub.items, sub.next, r, appended, baseOffset) BY <1>0, <1>2, Zenon DEF SubInv, PageInv
  <1>5. CASE sub.items # <<>>
    <2>1. PICK h, page, n : h = Head(sub.items) /\ page = sub.items /\ n = sub.next BY Zenon
    <2>0. page \in Seq(Entry) /\ n \in Nat /\ page # <<>> /\ h = Head(page) /\ GoesOn(page, n, r, appended, baseOffset)
      BY <1>0, <1>4, <1>5, <2>1, SMTT(20)
    <2>2. /\ h \in Entry /\ h.offset \in r .. sub.next - 1 /\ sub.next <= Len(appended)
          /\ h.item = appended[h.offset + 1] /\ Wants(h.item)
          /\ \A p \in r .. h.offset - 1 : Wants(appended[p + 1]) => p < baseOffset
          /\ GoesOn(Tail(sub.items), sub.next, h.offset + 1, appended, baseOffset)
      BY <1>0, <1>3, <2>0, <2>1, <1>HeadGoesOn, Zenon
    <2>3. given' = Append(given, h) /\ sub' = [sub EXCEPT !.items = Tail(sub.items)]
      BY <1>5, <2>1, Zenon DEF yield
    <2>4. given' # <<>> /\ given'[Len(given')] = h
      <3>1. given \in Seq(Entry) /\ h \in Entry /\ given' = Append(given, h) BY <1>0, <2>2, <2>3, Zenon
      <3> QED BY ONLY <3>1
    <2>5. Promise!Resume' = h.offset + 1 BY <2>4, Zenon DEF Promise!Resume
    <2>6. sub'.state = "yielding" /\ sub'.items = Tail(sub.items) /\ sub'.next = sub.next
      BY ONLY <1>0, <2>3, Zenon DEF SubType
    <2>7. PageInv(sub.items, sub.next)' BY <1>0, <2>2, <2>5, <2>6, SMTT(20) DEF PageInv
    <2>8. SubInv' BY <1>1, <2>6, <2>7, Zenon DEF SubInv
    <2>9. h = [offset |-> h.offset, item |-> appended[h.offset + 1]] BY <2>2, Zenon DEF Entry
    <2>10. h.offset \in r .. Len(appended) - 1 BY <1>0, <1>3, <2>2
    <2>11. Promise!Give BY <1>0, <1>2, <2>2, <2>3, <2>9, <2>10, SMTT(20) DEF Promise!Give
    <2> QED BY <2>8, <2>11, Zenon
  <1>6. CASE sub.items = <<>>
    <2>1. sub' = Again(sub.next) /\ given' = given BY <1>6, Zenon DEF yield
    <2>2. sub'.state = "ready" /\ sub'.offset = sub.next BY ONLY <1>0, <2>1, Zenon DEF Again, SubType
    <2>3. Promise!Resume' = r BY <1>2, <2>1, Zenon DEF Promise!Resume
    <2>4. ContinuesAt(sub.next, r, appended, baseOffset)
      <3>1. DOMAIN sub.items = {} BY <1>6
      <3> QED BY <1>4, <3>1, Zenon DEF GoesOn, ContinuesAt
    <2>5. Continues(sub.offset)' BY <1>0, <2>2, <2>3, <2>4, Zenon DEF Continues
    <2> QED BY <1>0, <1>1, <2>1, <2>2, <2>5, Zenon DEF SubInv
  <1> QED BY <1>5, <1>6, Zenon

\* The subscription's invariant: it starts at the beginning of the log.
LEMMA SubInit ==
  ASSUME FromOffset = 0, Init
  PROVE  SubInv
  <1>1. poll.stage = "none" /\ sub.state = "ready" /\ sub.offset = 0
    BY Zenon DEF Init, StreamInit, NoPoll, Ready
  <1>2. Promise!Resume = 0 BY Zenon DEF Init, Promise!Resume
  <1>3. appended = <<>> /\ baseOffset = 0 BY Zenon DEF Init, StreamInit
  <1>4. ContinuesAt(0, 0, appended, baseOffset) BY <1>3 DEF ContinuesAt
  <1> QED BY <1>1, <1>2, <1>4, Zenon DEF SubInv, Continues

\* Every step keeps the subscription from missing anything.
LEMMA SubStep ==
  ASSUME TypeOK, TypeOK', BatchInv, LogInv, SeenInv, SubInv, [Next]_vars
  PROVE  SubInv'
  \* The subscription's offset and its pages stay good while the log grows and is truncated.
  <1>LaterContinues.
    ASSUME NEW a \in Seq(Item), NEW base \in Nat, NEW b \in Seq(Item), NEW base2 \in Nat,
           Later(a, base, b, base2), NEW r \in Nat, NEW o \in Nat, ContinuesAt(o, r, a, base)
    PROVE  ContinuesAt(o, r, b, base2)
    <2> USE <1>LaterContinues
    <2>1. Len(a) \in Nat /\ Len(b) \in Nat OBVIOUS
    <2>2. ASSUME NEW p \in r .. o - 1 PROVE b[p + 1] = a[p + 1]
      BY <2>1 DEF Later, ContinuesAt
    <2> QED BY <2>1, <2>2 DEF Later, ContinuesAt
  \* The same of a page.
  <1>LaterGoesOn.
    ASSUME NEW a \in Seq(Item), NEW base \in Nat, NEW b \in Seq(Item), NEW base2 \in Nat,
           Later(a, base, b, base2), NEW r \in Nat, NEW n \in Nat, NEW page \in Seq(Entry),
           GoesOn(page, n, r, a, base)
    PROVE  GoesOn(page, n, r, b, base2)
    <2> USE <1>LaterGoesOn
    <2>1. Len(a) \in Nat /\ Len(b) \in Nat /\ n <= Len(a) /\ r <= n BY DEF GoesOn
    <2>2. \A p \in r .. n - 1 : p + 1 \in 1 .. Len(a) /\ b[p + 1] = a[p + 1] BY <2>1 DEF Later
    <2>3. \A i \in DOMAIN page :
            /\ page[i].offset \in r .. n - 1
            /\ page[i].item = b[page[i].offset + 1]
            /\ Wants(page[i].item)
      BY <2>2, Zenon DEF GoesOn
    <2>4. ASSUME NEW p \in r .. n - 1, Wants(b[p + 1])
          PROVE  p < base2 \/ \E i \in DOMAIN page : page[i].offset = p
      <3>1. p < base \/ \E i \in DOMAIN page : page[i].offset = p BY <2>2, <2>4, SMTT(20) DEF GoesOn
      <3> QED BY <2>1, <3>1 DEF Later
    <2> QED BY <2>1, <2>3, <2>4 DEF Later, GoesOn
  \* A step that changes the log leaves the subscription where it was.
  <1>LogKeepsSub.
    ASSUME TypeOK, TypeOK', LogInv, SubInv, Later(appended, baseOffset, appended', baseOffset'),
           UNCHANGED <<poll, sub, given>>
    PROVE  SubInv'
    <2> USE <1>LogKeepsSub
    <2>1. PICK r : r = Promise!Resume BY Zenon
    <2>2. r \in Nat BY <2>1, ResumeIsNumber, Zenon DEF Promise!Resume, TypeOK, SubscriberTypes
    <2>3. Promise!Resume' = r BY <2>1, Zenon DEF Promise!Resume
    <2>4. PICK a, base, b, base2 : a = appended /\ base = baseOffset /\ b = appended' /\ base2 = baseOffset'
      BY Zenon
    <2>5. /\ a \in Seq(Item) /\ b \in Seq(Item) /\ base \in Nat /\ base2 \in Nat
          /\ Later(a, base, b, base2)
      BY <2>4, Zenon DEF TypeOK, StreamTypes
    <2>6. /\ sub.offset \in Nat /\ sub.next \in Nat /\ sub.items \in Seq(Entry)
          /\ poll.reply.next \in Nat /\ poll.reply.items \in Seq(Entry) /\ poll.from \in Nat
      BY Zenon DEF TypeOK, StreamTypes, SubscriberTypes, PollType, SubType, Replies
    <2>7. Continues(sub.offset) => Continues(sub.offset)'
      BY <2>1, <2>2, <2>3, <2>4, <2>5, <2>6, <1>LaterContinues DEF Continues
    <2>8. ASSUME NEW page \in Seq(Entry), NEW n \in Nat, PageInv(page, n) PROVE PageInv(page, n)'
      BY <2>1, <2>2, <2>3, <2>4, <2>5, <2>8, <1>LaterGoesOn, Zenon DEF PageInv
    <2>9. poll.from < baseOffset => poll.from < baseOffset'
      BY <2>4, <2>5, <2>6 DEF Later
    <2> QED BY <2>6, <2>7, <2>8, <2>9, Zenon DEF SubInv, PageInv
  \* The page onPoll answers with goes on where the subscription is: it skips unwanted items only,
  \* and what has been truncated when `from` is 0.
  <1>AnswerGoesOn. ASSUME TypeOK, LogInv, NEW from \in Nat, Continues(from), ~Truncated(from),
                          NEW k, k = Max({from - baseOffset, 0}), NEW r, r = Page(k)
                   PROVE  r \in Replies /\ r.kind = "items" /\ PageInv(r.items, r.next)
    <2> USE <1>AnswerGoesOn
    <2>0. /\ log \in Seq(Item) /\ appended \in Seq(Item) /\ baseOffset \in Nat
          /\ Len(log) \in Nat /\ Len(appended) \in Nat /\ baseOffset <= Len(appended)
      BY DEF TypeOK, StreamTypes, LogInv
    <2>1. Len(log) = Len(appended) - baseOffset /\ \A i \in 1 .. Len(log) : log[i] = appended[baseOffset + i]
      BY <2>0, LogElements DEF LogInv
    <2>2. k = IF from - baseOffset >= 0 THEN from - baseOffset ELSE 0 BY <2>0, MaxOfTwo
    <2>3. k \in Nat /\ baseOffset + k = IF from >= baseOffset THEN from ELSE baseOffset BY <2>0, <2>2
    <2>4. /\ r \in Replies /\ r.kind = "items"
          /\ r.next = End \/ r.next \in baseOffset + k + 1 .. End
          /\ Collected(r.items, k, r.next - baseOffset)
      BY <2>3, PageCollected, Zenon DEF TypeOK
    <2>5. End = Len(appended) BY <2>0, <2>1 DEF End
    <2>6. PICK f : f = Promise!Resume BY Zenon
    <2>7. f \in Nat BY <2>6, ResumeIsNumber, Zenon DEF Promise!Resume, TypeOK, SubscriberTypes
    <2>8. ContinuesAt(from, f, appended, baseOffset) BY <2>6, Zenon DEF Continues
    <2>9. f <= baseOffset + k /\ baseOffset + k <= Len(appended)
      BY <2>0, <2>3, <2>7, <2>8 DEF ContinuesAt
    <2>10. PICK page, n : page = r.items /\ n = r.next BY Zenon
    <2>11. /\ page \in Seq(Entry) /\ n \in Nat /\ Collected(page, k, n - baseOffset)
           /\ n <= Len(appended) /\ baseOffset + k <= n
      BY <2>0, <2>3, <2>4, <2>5, <2>9, <2>10 DEF Replies
    <2> DEFINE m == n - baseOffset
    <2>13. /\ \A i \in DOMAIN page :
                /\ page[i].offset \in baseOffset + k .. n - 1
                /\ page[i].item = log[page[i].offset - baseOffset + 1]
                /\ Wants(page[i].item)
           /\ InOrder(page)
           /\ \A p \in baseOffset + k .. n - 1 :
                Wants(log[p - baseOffset + 1]) => \E i \in DOMAIN page : page[i].offset = p
      <3>1. Collected(page, k, m) BY <2>11, Zenon
      <3>2. baseOffset + m - 1 = n - 1 BY <2>0, <2>11
      <3> HIDE DEF m
      <3>3. PICK x : x = n - 1 BY Zenon
      <3>4. baseOffset + m - 1 = x BY <3>2, <3>3, Zenon
      <3> QED BY <3>1, <3>3, <3>4, Zenon DEF Collected
    <2>14. ASSUME NEW p \in baseOffset + k .. n - 1 PROVE log[p - baseOffset + 1] = appended[p + 1]
      <3>1. p - baseOffset + 1 \in 1 .. Len(log) /\ baseOffset + (p - baseOffset + 1) = p + 1
        BY <2>0, <2>1, <2>3, <2>11
      <3> QED BY <2>1, <3>1
    <2>15. ASSUME NEW i \in DOMAIN page
           PROVE  /\ page[i].offset \in f .. n - 1
                  /\ page[i].item = appended[page[i].offset + 1]
                  /\ Wants(page[i].item)
      <3>1. page[i].offset \in baseOffset + k .. n - 1 BY <2>13, Zenon
      <3>2. page[i].item = appended[page[i].offset + 1] BY <2>13, <2>14, <3>1, Zenon
      <3>3. page[i].offset \in f .. n - 1 BY <2>0, <2>3, <2>7, <2>9, <2>11, <3>1
      <3> QED BY <2>13, <3>2, <3>3, Zenon
    <2>16. ASSUME NEW p \in f .. n - 1, Wants(appended[p + 1])
           PROVE  p < baseOffset \/ \E i \in DOMAIN page : page[i].offset = p
      <3>1. CASE p >= baseOffset + k
        <4>1. p \in baseOffset + k .. n - 1 BY <2>0, <2>3, <2>7, <2>11, <3>1
        <4> QED BY <2>13, <2>14, <2>16, <4>1, Zenon
      <3>2. CASE p < baseOffset + k
        BY <2>0, <2>3, <2>7, <2>8, <2>16, <3>2 DEF ContinuesAt
      <3> QED BY <2>0, <2>3, <2>7, <2>11, <3>1, <3>2
    <2>17. n <= Len(appended) /\ f <= n BY <2>0, <2>3, <2>7, <2>9, <2>11
    <2>18. GoesOn(page, n, f, appended, baseOffset) BY <2>13, <2>15, <2>16, <2>17, Zenon DEF GoesOn
    <2> QED BY <2>4, <2>6, <2>10, <2>18, Zenon DEF PageInv
  \* The log a step leaves is a later one.
  <1>LogLater. ASSUME TypeOK, BatchInv, LogInv, SeenInv, [Next]_vars
               PROVE  Later(appended, baseOffset, appended', baseOffset')
    <2> USE <1>LogLater
    <2>1. appended \in Seq(Item) /\ Len(appended) \in Nat /\ baseOffset \in Nat BY DEF TypeOK, StreamTypes
    <2>2. ASSUME NEW q \in Seq(Item), Push(q), baseOffset' = baseOffset
          PROVE  Later(appended, baseOffset, appended', baseOffset')
      <3>1. /\ Len(q) \in Nat /\ Len(appended') = Len(appended) + Len(q)
            /\ \A i \in 1 .. Len(appended) : appended'[i] = appended[i]
        BY <2>2, PushKeepsLog
      <3> QED BY <2>1, <2>2, <3>1 DEF Later
    <2>3. CASE baseOffset' \in baseOffset + 1 .. Len(appended) /\ appended' = appended
      BY <2>1, <2>3 DEF Later
    <2>4. CASE UNCHANGED <<baseOffset, appended>> BY <2>1, <2>4 DEF Later
    <2> QED BY <2>2, <2>3, <2>4, LogKinds, Zenon
  \* A step of the workflow that answers the poll or lets it wait.
  <1>PollKeepsSub.
    ASSUME TypeOK, SubInv, UNCHANGED <<appended, baseOffset, given, sub>>, poll.stage # "none",
           poll'.from = poll.from,
           poll'.stage = "replied" /\ poll'.reply.kind = "items" => PageInv(poll'.reply.items, poll'.reply.next),
           poll'.stage = "replied" /\ poll'.reply.kind = "truncated" => poll.from < baseOffset
    PROVE  SubInv'
    <2> USE <1>PollKeepsSub
    <2>1. Promise!Resume' = Promise!Resume BY Zenon DEF Promise!Resume
    <2> QED BY <2>1, Zenon DEF SubInv, Continues, PageInv
  \* What the workflow replies to a poll misses nothing from the offset polled.
  <1>PollStep. ASSUME TypeOK, LogInv, SubInv, UNCHANGED <<given, sub>>,
                      acceptPoll \/ refusePoll \/ wakePoll \/ answerPoll \/ RollOver \/ complete
               PROVE  SubInv' \/ UNCHANGED poll
    <2> USE <1>PollStep
    <2>0. /\ poll \in PollType /\ poll.from \in Nat /\ baseOffset \in Nat
          /\ (poll' # poll => poll.stage # "none")
          /\ UNCHANGED <<appended, baseOffset>>
      BY SMTT(20) DEF TypeOK, StreamTypes, PollType, acceptPoll, refusePoll, wakePoll, answerPoll,
         RollOver, complete,
             PollAtEnd, InHandler
    <2>1. ASSUME NEW r, poll' = [poll EXCEPT !.stage = "replied", !.reply = r]
                        \/ \E n : poll' = [poll EXCEPT !.stage = "replied", !.run = n, !.reply = r]
          PROVE  poll'.from = poll.from /\ poll'.stage = "replied" /\ poll'.reply = r
      <3>0. poll \in PollType BY <2>0, Zenon
      <3>1. CASE poll' = [poll EXCEPT !.stage = "replied", !.reply = r]
        BY ONLY <3>0, <3>1, Zenon DEF PollType
      <3>2. ASSUME NEW n, poll' = [poll EXCEPT !.stage = "replied", !.run = n, !.reply = r]
            PROVE  poll'.from = poll.from /\ poll'.stage = "replied" /\ poll'.reply = r
        BY ONLY <3>0, <3>2, Zenon DEF PollType
      <3> QED BY <2>1, <3>1, <3>2, Zenon
    <2>2. ASSUME NEW n, poll' = [poll EXCEPT !.stage = "parked", !.run = n] \/ poll' = [poll EXCEPT !.stage = "woken"]
          PROVE  poll'.from = poll.from /\ poll'.stage # "replied"
      <3>0. poll \in PollType BY <2>0, Zenon
      <3>1. CASE poll' = [poll EXCEPT !.stage = "parked", !.run = n]
        BY ONLY <3>0, <3>1, Zenon DEF PollType
      <3>2. CASE poll' = [poll EXCEPT !.stage = "woken"] BY ONLY <3>0, <3>2, Zenon DEF PollType
      <3> QED BY <2>2, <3>1, <3>2, Zenon
    <2>3. \A kind : Failure(kind).kind = kind BY Zenon DEF Failure, NoReply
    <2>4. Truncated(poll.from) => poll.from < baseOffset
      <3>1. poll.from \in Nat /\ baseOffset \in Nat BY <2>0, Zenon
      <3> QED BY ONLY <3>1 DEF Truncated
    <2>5. ASSUME NEW kind \in {"draining", "truncated", "notFound", "completed"},
                 kind = "truncated" => Truncated(poll.from), poll.stage # "none",
                 Reply(Failure(kind)) \/ poll' = [poll EXCEPT !.stage = "replied", !.reply = Failure(kind)]
          PROVE  SubInv'
      <3>1. poll'.from = poll.from /\ poll'.stage = "replied" /\ poll'.reply = Failure(kind)
        BY <2>1, <2>5, Zenon DEF Reply
      <3>2. poll'.reply.kind = kind BY <2>3, <3>1, Zenon
      <3> QED BY <2>0, <2>4, <2>5, <3>1, <3>2, <1>PollKeepsSub, SMTT(20)
    <2>6. CASE acceptPoll
      <3>0. poll.stage # "none" BY <2>6, Zenon DEF acceptPoll
      <3>1. CASE Reply(Failure("draining")) BY <2>5, <3>0, <3>1, Zenon
      <3>2. CASE Truncated(poll.from) /\ Reply(Failure("truncated")) BY <2>5, <3>0, <3>2, Zenon
      <3>3. CASE poll' = [poll EXCEPT !.stage = "parked", !.run = run]
        BY <2>0, <2>2, <3>0, <3>3, <1>PollKeepsSub, Zenon
      <3> QED BY <2>6, <3>1, <3>2, <3>3, Zenon DEF acceptPoll
    <2>7. CASE refusePoll BY <2>5, <2>7, Zenon DEF refusePoll
    <2>8. CASE wakePoll BY <2>0, <2>2, <2>8, <1>PollKeepsSub, Zenon DEF wakePoll
    <2>9. CASE answerPoll
      <3>0. poll.stage # "none" BY <2>9, Zenon DEF answerPoll
      <3>1. CASE Truncated(poll.from)
        <4>1. Reply(Failure("truncated")) BY <2>9, <3>1, Zenon DEF answerPoll
        <4> QED BY <2>5, <3>0, <3>1, <4>1, Zenon
      <3>2. CASE ~Truncated(poll.from)
        <4>1. PICK k, r : k = Max({poll.from - baseOffset, 0}) /\ r = Page(k) BY Zenon
        <4>2. Reply(r) BY <2>9, <3>2, <4>1, SMTT(20) DEF answerPoll
        <4>3. poll'.from = poll.from /\ poll'.stage = "replied" /\ poll'.reply = r
          BY <2>1, <4>2, Zenon DEF Reply
        <4>4. Continues(poll.from) BY <3>0, Zenon DEF SubInv
        <4>5. r.kind = "items" /\ PageInv(r.items, r.next)
          BY <2>0, <3>2, <4>1, <4>4, <1>AnswerGoesOn, Zenon
        <4> QED BY <2>0, <3>0, <4>3, <4>5, <1>PollKeepsSub, Zenon
      <3> QED BY <3>1, <3>2, Zenon
    <2>10. CASE RollOver \/ complete
      <3>1. CASE InHandler /\ Reply(Failure("completed")) BY <2>5, <3>1, Zenon DEF InHandler
      <3> QED BY <2>10, <3>1, Zenon DEF RollOver, complete, PollAtEnd
    <2> QED BY <2>6, <2>7, <2>8, <2>9, <2>10, Zenon
  \* A poll that comes back, or does not: the subscription goes on from the page, from the beginning
  \* if what it asked for is gone, or from where it was, or it stops.
  <1>ReceiveStep. ASSUME TypeOK, LogInv, SubInv, receivePoll \/ pollTimesOut
                  PROVE  SubInv' /\ UNCHANGED <<appended, baseOffset, given>>
    <2> USE <1>ReceiveStep
    <2>0. /\ sub \in SubType /\ sub.offset \in Nat /\ sub.state = "waiting" /\ Continues(sub.offset)
          /\ UNCHANGED <<appended, baseOffset, given>> /\ poll' = NoPoll
      BY Zenon DEF TypeOK, SubscriberTypes, SubType, SubInv, receivePoll, pollTimesOut
    <2>1. poll'.stage = "none" BY <2>0, Zenon DEF NoPoll
    <2>2. Promise!Resume' = Promise!Resume BY <2>0, Zenon DEF Promise!Resume
    <2>3. ASSUME NEW offset \in Nat, Continues(offset), sub' = Again(offset) PROVE SubInv'
      <3>1. sub'.state = "ready" /\ sub'.offset = offset BY ONLY <2>0, <2>3, Zenon DEF Again, SubType
      <3>2. Continues(sub'.offset) BY <2>3, <3>1, Zenon
      <3>3. Continues(sub.offset)' BY <2>0, <2>2, <3>2, Zenon DEF Continues
      <3> QED BY <2>1, <3>1, <3>3, Zenon DEF SubInv
    <2>4. ASSUME NEW state \in {"ended", "failed"}, sub' = Stop(state) PROVE SubInv'
      <3>1. sub'.state = state BY ONLY <2>0, <2>4, Zenon DEF Stop, SubType
      <3> QED BY <2>1, <3>1, Zenon DEF SubInv
    <2>5. ASSUME poll.stage = "replied", poll.reply.kind = "items",
                 sub' = [sub EXCEPT !.state = "yielding", !.items = poll.reply.items, !.next = poll.reply.next]
          PROVE  SubInv'
      <3>1. sub'.state = "yielding" /\ sub'.items = poll.reply.items /\ sub'.next = poll.reply.next
        BY ONLY <2>0, <2>5, Zenon DEF SubType
      <3>2. PageInv(sub'.items, sub'.next) BY <2>5, <3>1, Zenon DEF SubInv
      <3>3. PageInv(sub.items, sub.next)' BY <2>0, <2>2, <3>2, Zenon DEF PageInv
      <3> QED BY <2>1, <3>1, <3>3, Zenon DEF SubInv
    <2>6. CASE pollTimesOut BY <2>0, <2>3, <2>4, <2>6, Zenon DEF pollTimesOut, FollowOr
    <2>7. CASE receivePoll
      <3>0. poll.stage = "replied" BY <2>7, Zenon DEF receivePoll
      <3>1. CASE poll.reply.kind = "items"
        BY <2>5, <2>7, <3>0, <3>1, Zenon DEF receivePoll
      <3>2. CASE poll.reply.kind = "truncated"
        <4>1. sub.offset < baseOffset BY <3>0, <3>2, Zenon DEF SubInv
        <4>2. PICK r : r = Promise!Resume BY Zenon
        <4>3. r \in Nat BY <4>2, ResumeIsNumber, Zenon DEF Promise!Resume, TypeOK, SubscriberTypes
        <4>4. baseOffset \in Nat /\ Len(appended) \in Nat BY DEF TypeOK, StreamTypes
        <4>5. r <= baseOffset BY <2>0, <4>1, <4>2, <4>3, <4>4 DEF Continues, ContinuesAt
        <4>6. ContinuesAt(0, r, appended, baseOffset) BY <4>3, <4>4, <4>5 DEF ContinuesAt
        <4>7. Continues(0) BY <4>2, <4>6, Zenon DEF Continues
        <4>8. sub' = Again(0) BY <2>7, <3>2, Zenon DEF receivePoll
        <4> QED BY <2>0, <2>3, <4>7, <4>8, Zenon
      <3>3. CASE poll.reply.kind = "draining" BY <2>0, <2>3, <2>7, <3>3, Zenon DEF receivePoll
      <3>4. CASE poll.reply.kind = "completed"
        BY <2>0, <2>3, <2>4, <2>7, <3>4, SMTT(20) DEF receivePoll, FollowOr
      <3>5. CASE poll.reply.kind = "notFound"
        BY <2>0, <2>3, <2>4, <2>7, <3>5, Zenon DEF receivePoll, FollowOr, EndOrFail
      <3>6. poll.reply.kind \in {"draining", "truncated", "notFound", "completed", "items"}
        BY <3>0, Zenon DEF TypeOK, StreamTypes, PollType, Replies
      <3> QED BY <3>1, <3>2, <3>3, <3>4, <3>5, <3>6, Zenon
    <2> QED BY <2>0, <2>6, <2>7, Zenon
  <1>0. Later(appended, baseOffset, appended', baseOffset') BY <1>LogLater, Zenon
  <1>1. CASE UNCHANGED <<poll, sub, given>> BY <1>0, <1>1, <1>LogKeepsSub, Zenon
  <1>2. CASE WorkflowStep /\ UNCHANGED subscriberVars
    <2>0. UNCHANGED <<sub, given>> BY <1>2, Zenon DEF subscriberVars
    <2>1. CASE acceptPoll \/ refusePoll \/ wakePoll \/ answerPoll \/ RollOver \/ complete
      BY <1>1, <2>0, <2>1, <1>PollStep, Zenon
    <2>2. CASE onPublish \/ detachPollers BY <1>1, <2>0, <2>2 DEF onPublish, detachPollers
    <2>3. CASE (\E t \in Topics : publishToTopic(t)) \/ \E o \in 0 .. End : truncate(o)
      BY <1>1, <2>0, <2>3, Zenon DEF publishToTopic, truncate
    <2> QED BY <1>2, <2>1, <2>2, <2>3, Zenon DEF WorkflowStep, StreamStep, continueAsNew, continueAsNewAtOnce
  <1>3. CASE ClientStep /\ UNCHANGED subscriberVars
    <2>1. UNCHANGED poll
      BY <1>3, Zenon DEF ClientStep, Publisher, signalArrives, flush, dispose, publish, signalReturns,
         settle,
             flusherFlushes, flusherEnds, disposeJoins, callFlushes, callReturns, streamVars
    <2> QED BY <1>1, <1>3, <2>1, Zenon DEF subscriberVars
  <1>4. CASE startPoll
    <2>1. /\ sub \in SubType /\ sub.state = "ready" /\ Continues(sub.offset)
          /\ UNCHANGED <<appended, baseOffset, given>>
          /\ sub' = [sub EXCEPT !.state = "waiting"]
          /\ poll' = [NoPoll EXCEPT !.stage = "sent", !.from = sub.offset]
      BY <1>4, Zenon DEF startPoll, TypeOK, SubscriberTypes, SubInv
    <2>2. sub'.state = "waiting" /\ sub'.offset = sub.offset BY ONLY <2>1, Zenon DEF SubType
    <2>3. poll'.stage = "sent" /\ poll'.from = sub.offset BY <2>1, Zenon DEF NoPoll
    <2>4. Promise!Resume' = Promise!Resume BY <2>1, Zenon DEF Promise!Resume
    <2>5. Continues(sub.offset)' BY <2>1, <2>2, <2>4, Zenon DEF Continues
    <2> QED BY <2>2, <2>3, <2>5, Zenon DEF SubInv
  <1>5. CASE tick BY <1>1, <1>5, Zenon DEF tick, subscriberVars
  <1>6. CASE UNCHANGED vars BY <1>1, <1>6, Zenon DEF vars, streamVars, subscriberVars
  <1> QED BY <1>2, <1>3, <1>4, <1>5, <1>6, <1>ReceiveStep, YieldStep, StepKinds, Zenon DEF Subscriber

-----------------------------------------------------------------------------
(* The refinement                                                          *)

\* Every step is one of StreamLog, or one that nobody can see.
LEMMA StepRefines ==
  ASSUME TypeOK, TypeOK', BatchInv, LogInv, LogInv', SeenInv, SubInv, [Next]_vars
  PROVE  [Promise!LogNext]_(Promise!logVars)
  \* A sequence that another one continues is its beginning.
  <1>Prefix.
    ASSUME NEW S, NEW a \in Seq(S), NEW b \in Seq(S), Len(a) <= Len(b), \A i \in 1 .. Len(a) : b[i] = a[i]
    PROVE  SubSeq(b, 1, Len(a)) = a
    <2> USE <1>Prefix
    <2> DEFINE s == SubSeq(b, 1, Len(a))
    <2>1. Len(a) \in Nat /\ Len(b) \in Nat /\ \A i \in 1 .. Len(a) : b[i] \in S OBVIOUS
    <2>2. Len(s) = IF 1 <= Len(a) THEN Len(a) - 1 + 1 ELSE 0 BY <2>1
    <2>3. s \in Seq(S) /\ \A i \in 1 .. Len(a) - 1 + 1 : s[i] = b[1 + i - 1] BY <2>1
    <2> HIDE DEF s
    <2>4. Len(s) = Len(a) /\ \A i \in 1 .. Len(a) : s[i] = a[i] BY <2>1, <2>2, <2>3
    <2>5. a \in [1 .. Len(a) -> S] /\ s \in [1 .. Len(a) -> S] BY <2>3, <2>4
    <2>6. s = a BY <2>4, <2>5
    <2> QED BY <2>6, Zenon DEF s
  <1>0. /\ appended \in Seq(Item) /\ Len(appended) \in Nat /\ appended' \in Seq(Item)
        /\ Len(appended') \in Nat
    BY DEF TypeOK, StreamTypes
  <1>1. ASSUME NEW q \in Seq(Item), Push(q), UNCHANGED <<baseOffset, given>>
        PROVE  Promise!AppendBatch \/ UNCHANGED <<appended, baseOffset, given>>
    <2>1. /\ Len(q) \in Nat /\ Len(appended') = Len(appended) + Len(q)
          /\ \A i \in 1 .. Len(appended) : appended'[i] = appended[i]
      BY <1>1, PushKeepsLog
    <2>2. CASE q = <<>> BY <1>0, <1>1, <2>2 DEF Push
    <2>3. CASE q # <<>>
      <3>1. Len(appended') > Len(appended) BY <1>0, <2>1, <2>3
      <3>2. SubSeq(appended', 1, Len(appended)) = appended
        BY <1>0, <2>1, <3>1, <1>Prefix
      <3>3. \A i, j \in DOMAIN appended' : appended'[i] = appended'[j] => i = j
        BY Zenon DEF LogInv, IsInjective
      <3> QED BY <1>1, <3>1, <3>2, <3>3, Zenon DEF Promise!AppendBatch
    <2> QED BY <2>2, <2>3, Zenon
  <1>2. CASE baseOffset' \in baseOffset + 1 .. Len(appended) /\ UNCHANGED <<appended, given>>
    BY <1>2, Zenon DEF Promise!LogNext, Promise!Discard
  <1>3. CASE UNCHANGED <<appended, baseOffset>>
    <2>1. CASE yield BY <2>1, YieldStep, Zenon DEF Promise!LogNext, Promise!logVars
    <2>2. CASE ~yield
      <3>1. UNCHANGED given
        <4>1. CASE UNCHANGED subscriberVars BY <4>1, Zenon DEF subscriberVars
        <4>2. CASE tick \/ startPoll \/ receivePoll \/ pollTimesOut \/ UNCHANGED vars
          BY <4>2, Zenon DEF tick, startPoll, receivePoll, pollTimesOut, vars, subscriberVars
        <4> QED BY <2>2, <4>1, <4>2, StepKinds, Zenon DEF Subscriber
      <3> QED BY <1>3, <3>1, Zenon DEF Promise!logVars
    <2> QED BY <2>1, <2>2, Zenon
  <1> QED BY <1>1, <1>2, <1>3, LogKinds, Zenon DEF Promise!LogNext, Promise!logVars

\* The client and the workflow implement the log that StreamLog promises, for a subscription from
\* the beginning: every item appended once, at an offset it keeps, and yielded in order, with no
\* gap but truncated or unwanted items, whatever signals are retried, runs roll over, or polls are
\* lost.
THEOREM ImplementsStreamLog ==
  ASSUME Unencodable = {}, FromOffset = 0
  PROVE  Spec => IsStreamLog
  <1>1. Init => SubInv BY SubInit, Zenon
  <1>2. ClientInv /\ ClientInv' /\ SubInv /\ [Next]_vars => SubInv' BY SubStep, Zenon DEF ClientInv
  <1>3. Init => Promise!LogInit BY Zenon DEF Init, StreamInit, Promise!LogInit
  <1>4. ClientInv /\ ClientInv' /\ SubInv /\ [Next]_vars => [Promise!LogNext]_(Promise!logVars)
    BY StepRefines, Zenon DEF ClientInv
  <1> QED BY <1>1, <1>2, <1>3, <1>4, ClientInvariant, PTL DEF Spec, IsStreamLog, Promise!LogSpec
=============================================================================
