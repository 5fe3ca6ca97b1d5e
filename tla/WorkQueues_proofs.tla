-------------------------- MODULE WorkQueues_proofs --------------------------
(* Theorems about WorkQueues: no key is lost, for any Tasks and Configs.     *)
EXTENDS WorkQueues, FiniteSetTheorems, TLAPS

(* An order of a finite set of keys is a sequence of these keys, each once. *)
LEMMA OrdersAreSequences ==
  ASSUME NEW K, IsFiniteSet(K), NEW s \in Orders(K)
  PROVE  s \in Seq(K) /\ Range(s) = K /\ IsInjective(s)
<1>1. Cardinality(K) \in Nat
  BY FS_CardinalityType
<1>2. /\ s \in [1 .. Cardinality(K) -> K] /\ IsInjective(s)
      /\ \A k \in K : \E i \in 1 .. Cardinality(K) : s[i] = k
  BY DEF Orders, Bijection, Injection, Surjection
<1>3. QED
  BY <1>1, <1>2 DEF Range

(* Two sequences without a key in common, one after the other.              *)
LEMMA AppendedKeys ==
  ASSUME NEW S, NEW q \in Seq(S), NEW r \in Seq(S)
  PROVE  /\ q \o r \in Seq(S)
         /\ Range(q \o r) = Range(q) \cup Range(r)
         /\ IsInjective(q) /\ IsInjective(r) /\ Range(q) \cap Range(r) = {}
              => IsInjective(q \o r)
<1>1. q \o r \in Seq(S) /\ DOMAIN (q \o r) = 1 .. Len(q) + Len(r)
  OBVIOUS
<1>2. DOMAIN q = 1 .. Len(q) /\ DOMAIN r = 1 .. Len(r) /\ Len(q) \in Nat /\ Len(r) \in Nat
  OBVIOUS
<1>3. \A i \in 1 .. Len(q) + Len(r) :
        (q \o r)[i] = IF i <= Len(q) THEN q[i] ELSE r[i - Len(q)]
  OBVIOUS
<1>4. ASSUME NEW i \in 1 .. Len(q) + Len(r)
      PROVE  \/ i \in DOMAIN q /\ (q \o r)[i] = q[i]
             \/ ~(i <= Len(q)) /\ i - Len(q) \in DOMAIN r /\ (q \o r)[i] = r[i - Len(q)]
  BY <1>2, <1>3
<1>5. Range(q \o r) \subseteq Range(q) \cup Range(r)
  BY <1>1, <1>4 DEF Range
<1>6. Range(q) \subseteq Range(q \o r)
  <2> SUFFICES ASSUME NEW i \in 1 .. Len(q)
               PROVE  \E j \in 1 .. Len(q) + Len(r) : (q \o r)[j] = q[i]
    BY <1>1, <1>2 DEF Range
  <2>1. i \in 1 .. Len(q) + Len(r) /\ i <= Len(q)
    BY <1>2
  <2>2. QED
    BY <2>1, <1>3
<1>7. Range(r) \subseteq Range(q \o r)
  <2> SUFFICES ASSUME NEW i \in 1 .. Len(r)
               PROVE  \E j \in 1 .. Len(q) + Len(r) : (q \o r)[j] = r[i]
    BY <1>1, <1>2 DEF Range
  <2>1. /\ i + Len(q) \in 1 .. Len(q) + Len(r) /\ ~(i + Len(q) <= Len(q))
        /\ (i + Len(q)) - Len(q) = i
    BY <1>2
  <2>2. QED
    BY <2>1, <1>3
<1>8. ASSUME IsInjective(q), IsInjective(r), Range(q) \cap Range(r) = {},
             NEW i \in 1 .. Len(q) + Len(r), NEW j \in 1 .. Len(q) + Len(r),
             (q \o r)[i] = (q \o r)[j]
      PROVE  i = j
  <2>1. CASE i \in DOMAIN q /\ (q \o r)[i] = q[i] /\ j \in DOMAIN q /\ (q \o r)[j] = q[j]
    BY <1>8, <2>1 DEF IsInjective
  <2>2. CASE /\ i - Len(q) \in DOMAIN r /\ (q \o r)[i] = r[i - Len(q)]
             /\ j - Len(q) \in DOMAIN r /\ (q \o r)[j] = r[j - Len(q)]
    <3>1. i - Len(q) = j - Len(q)
      BY <1>8, <2>2 DEF IsInjective
    <3>2. QED
      BY <3>1, <1>2
  <2>3. CASE i \in DOMAIN q /\ (q \o r)[i] = q[i]
             /\ j - Len(q) \in DOMAIN r /\ (q \o r)[j] = r[j - Len(q)]
    BY <1>8, <2>3 DEF Range
  <2>4. CASE j \in DOMAIN q /\ (q \o r)[j] = q[j]
             /\ i - Len(q) \in DOMAIN r /\ (q \o r)[i] = r[i - Len(q)]
    BY <1>8, <2>4 DEF Range
  <2>5. QED
    BY <1>4, <2>1, <2>2, <2>3, <2>4
<1>9. QED
  BY <1>1, <1>5, <1>6, <1>7, <1>8 DEF IsInjective

LEMMA AppendIsConcat ==
  ASSUME NEW S, NEW q \in Seq(S), NEW k \in S
  PROVE  Append(q, k) = q \o <<k>>
OBVIOUS

(* The head of a queue without repetitions is not in the rest of it.        *)
LEMMA HeadAndTail ==
  ASSUME NEW S, NEW q \in Seq(S), q # <<>>, IsInjective(q)
  PROVE  /\ Head(q) \in Range(q) /\ Tail(q) \in Seq(S)
         /\ Range(Tail(q)) = Range(q) \ {Head(q)}
         /\ IsInjective(Tail(q))
<1>1. /\ Len(q) \in Nat /\ Len(q) > 0 /\ DOMAIN q = 1 .. Len(q) /\ Head(q) = q[1]
      /\ Tail(q) \in Seq(S) /\ DOMAIN Tail(q) = 1 .. Len(q) - 1
      /\ \A i \in 1 .. Len(q) - 1 : Tail(q)[i] = q[i + 1]
  OBVIOUS
<1>2. \A i \in 1 .. Len(q) - 1 : i + 1 \in 1 .. Len(q) /\ i + 1 # 1
  BY <1>1
<1>3. \A i \in 1 .. Len(q) : i # 1 => i - 1 \in 1 .. Len(q) - 1 /\ (i - 1) + 1 = i
  BY <1>1
<1>4. \A i, j \in 1 .. Len(q) : q[i] = q[j] => i = j
  BY <1>1 DEF IsInjective
<1>5. Range(Tail(q)) \subseteq Range(q) \ {Head(q)}
  BY <1>1, <1>2, <1>4 DEF Range
<1>6. Range(q) \ {Head(q)} \subseteq Range(Tail(q))
  <2>1. ASSUME NEW i \in 1 .. Len(q), q[i] # q[1]
        PROVE  q[i] \in Range(Tail(q))
    <3>1. i # 1 /\ i - 1 \in 1 .. Len(q) - 1 /\ (i - 1) + 1 = i
      BY <1>3, <2>1
    <3>2. Tail(q)[i - 1] = q[i]
      BY <3>1, <1>1
    <3>3. QED
      BY <3>1, <3>2, <1>1 DEF Range
  <2>2. QED
    BY <2>1, <1>1 DEF Range
<1>7. \A i, j \in 1 .. Len(q) - 1 : Tail(q)[i] = Tail(q)[j] => i = j
  BY <1>1, <1>2, <1>4
<1>8. QED
  BY <1>1, <1>5, <1>6, <1>7 DEF Range, IsInjective

QueueInv == TypeOK /\ QueuesAgree /\ SeenKept

(* Adding keys of a controller to its queue keeps the queues in step.       *)
LEMMA AddKeeps ==
  ASSUME QueueInv, NEW c \in Controllers, NEW K \in SUBSET Keys, IsFiniteSet(K),
         \A k \in K : Of(k) = c, Add(c, K), UNCHANGED held
  PROVE  /\ queue' \in [Controllers -> Seq(Keys)]
         /\ dirty' = dirty \cup K
         /\ QueuesAgree'
<1> USE DEF QueueInv, TypeOK
<1>1. IsFiniteSet(NotQueued(K))
  BY FS_Subset DEF NotQueued
<1>2. PICK s \in Orders(NotQueued(K)) : queue' = [queue EXCEPT ![c] = @ \o s]
  BY DEF Add
<1>3. s \in Seq(NotQueued(K)) /\ Range(s) = NotQueued(K) /\ IsInjective(s)
  BY <1>1, <1>2, OrdersAreSequences
<1>4. s \in Seq(Keys)
  BY <1>3 DEF NotQueued
<1>5. /\ queue[c] \in Seq(Keys) /\ IsInjective(queue[c])
      /\ Queued(c) = {k \in dirty : Of(k) = c} \ Busy
  BY DEF QueuesAgree
<1>6. /\ queue[c] \o s \in Seq(Keys)
      /\ Range(queue[c] \o s) = Queued(c) \cup NotQueued(K)
      /\ IsInjective(queue[c] \o s)
  <2>1. Range(queue[c]) \cap Range(s) = {}
    BY <1>3, <1>5 DEF NotQueued, Queued
  <2>2. QED
    BY <2>1, <1>3, <1>4, <1>5, AppendedKeys DEF Queued
<1>7. queue' \in [Controllers -> Seq(Keys)] /\ queue'[c] = queue[c] \o s
      /\ \A d \in Controllers : d # c => queue'[d] = queue[d]
  BY <1>2, <1>6
<1>8. dirty' = dirty \cup K /\ Busy' = Busy
  BY DEF Add, Busy
<1>9. ASSUME NEW d \in Controllers
      PROVE  Queued(d)' = {k \in dirty' : Of(k) = d} \ Busy' /\ IsInjective(queue'[d])
  <2>1. Queued(d) = {k \in dirty : Of(k) = d} \ Busy /\ IsInjective(queue[d])
    BY DEF QueuesAgree
  <2>2. CASE d = c
    <3>1. Queued(d)' = Queued(d) \cup NotQueued(K)
      BY <2>2, <1>6, <1>7 DEF Queued
    <3>2. QED
      BY <3>1, <2>1, <2>2, <1>6, <1>7, <1>8 DEF NotQueued
  <2>3. CASE d # c
    <3>1. Queued(d)' = Queued(d) /\ queue'[d] = queue[d]
      BY <2>3, <1>7 DEF Queued
    <3>2. {k \in dirty' : Of(k) = d} = {k \in dirty : Of(k) = d}
      BY <2>3, <1>8
    <3>3. QED
      BY <3>1, <3>2, <2>1, <1>8
  <2>4. QED
    BY <2>2, <2>3
<1>10. QED
  BY <1>7, <1>8, <1>9 DEF QueuesAgree

(* Types, queues in step and seen keys kept: the inductive invariant.       *)
LEMMA InitEstablishes == Init => QueueInv
<1> SUFFICES ASSUME Init PROVE QueueInv
  OBVIOUS
<1> USE DEF Init
<1>1. TypeOK
  BY LastAssumption, QueueBoundAssumption DEF TypeOK, Stages, Absent, Gone
<1>2. QueuesAgree
  BY DEF QueuesAgree, Queued, Range, IsInjective
<1>3. SeenKept
  BY DEF SeenKept, Open, Exists, Absent
<1>4. QED
  BY <1>1, <1>2, <1>3 DEF QueueInv

LEMMA OneKeyIsFinite == ASSUME NEW k PROVE IsFiniteSet({k})
BY FS_Singleton

(* A reconcile that read an object with something to be done asks for more. *)
LEMMA OpenRequeues ==
  ASSUME NEW k \in Keys, NEW s \in Stages, Open(k, s)
  PROVE  Result(k, s) = "requeue"
BY KeysAssumption, LastAssumption DEF Result, Open, Exists, Keys, Stages

LEMMA NextPreserves == QueueInv /\ [Next]_vars => QueueInv'
<1> SUFFICES ASSUME QueueInv, [Next]_vars PROVE QueueInv'
  OBVIOUS
<1> USE DEF QueueInv, vars, queueVars
<1>t. TypeOK /\ QueuesAgree /\ SeenKept
  OBVIOUS
<1>k. /\ \A k \in Keys : Of(k) \in Controllers
      /\ \A t \in Tasks : t \in Keys /\ Of(t) = "tasks"
      /\ \A k \in Configs : k \in Keys /\ Of(k) = "configs"
      /\ "tasks" \in Controllers /\ "configs" \in Controllers
  BY KeysAssumption DEF Keys, Of, Controllers
<1>1. ASSUME NEW c \in Controllers, Take(c) PROVE QueueInv'
  <2> DEFINE h == Head(queue[c])
  <2>1. /\ queue[c] \in Seq(Keys) /\ queue[c] # <<>> /\ IsInjective(queue[c])
        /\ Queued(c) = {k \in dirty : Of(k) = c} \ Busy /\ held[c] = NoKey
    BY <1>1, <1>t DEF TypeOK, QueuesAgree, Take
  <2>2. /\ h \in Queued(c) /\ Tail(queue[c]) \in Seq(Keys)
        /\ Range(Tail(queue[c])) = Queued(c) \ {h} /\ IsInjective(Tail(queue[c]))
    BY <2>1, HeadAndTail DEF Queued
  <2>3. h \in Keys /\ h \in dirty /\ Of(h) = c /\ h # NoKey
    BY <2>1, <2>2, <1>t, KeysAssumption DEF TypeOK
  <2> HIDE DEF h
  <2>4. /\ queue' = [queue EXCEPT ![c] = Tail(@)] /\ dirty' = dirty \ {h}
        /\ held' = [held EXCEPT ![c] = h] /\ copy' = [copy EXCEPT ![c] = seen[h]]
        /\ UNCHANGED <<object, seen, waiting, incidents>>
    BY <1>1 DEF Take, h
  <2>5. TypeOK'
    BY <2>2, <2>3, <2>4, <1>t DEF TypeOK
  <2>6. Busy' = Busy \cup {h}
    BY <2>1, <2>3, <2>4, <1>t DEF Busy, TypeOK
  <2>7. QueuesAgree'
    <3> SUFFICES ASSUME NEW d \in Controllers
                 PROVE  /\ Queued(d)' = {k \in dirty' : Of(k) = d} \ Busy'
                        /\ IsInjective(queue'[d])
      BY DEF QueuesAgree
    <3>1. Queued(d) = {k \in dirty : Of(k) = d} \ Busy /\ IsInjective(queue[d])
      BY <1>t DEF QueuesAgree
    <3>2. CASE d = c
      <4>1. queue'[d] = Tail(queue[c])
        BY <3>2, <2>4, <1>t DEF TypeOK
      <4>2. QED
        BY <4>1, <3>1, <3>2, <2>2, <2>4, <2>6 DEF Queued
    <3>3. CASE d # c
      <4>1. queue'[d] = queue[d]
        BY <3>3, <2>4, <1>t DEF TypeOK
      <4>2. QED
        BY <4>1, <3>1, <3>3, <2>3, <2>4, <2>6 DEF Queued
    <3>4. QED
      BY <3>2, <3>3
  <2>8. SeenKept'
    <3> SUFFICES ASSUME NEW k \in Keys, Open(k, seen[k])
                 PROVE  k \in dirty' \cup waiting' \/ \E d \in Controllers : WillRequeue(d, k)'
      BY <2>4 DEF SeenKept, Open, Exists
    <3>1. CASE k = h
      <4>1. held'[c] = k /\ copy'[c] = seen[k]
        BY <3>1, <2>4, <1>t DEF TypeOK
      <4>2. Result(k, seen[k]) = "requeue"
        BY OpenRequeues, <1>t DEF TypeOK
      <4>3. QED
        BY <4>1, <4>2 DEF WillRequeue
    <3>2. CASE k # h
      <4>1. \A d \in Controllers : held[d] = k => d # c /\ held'[d] = k /\ copy'[d] = copy[d]
        BY <3>2, <2>1, <2>4, <1>t, KeysAssumption DEF TypeOK
      <4>2. QED
        BY <4>1, <3>2, <2>4, <1>t DEF SeenKept, WillRequeue
    <3>3. QED
      BY <3>1, <3>2
  <2>9. QED
    BY <2>5, <2>7, <2>8
<1>2. ASSUME NEW c \in Controllers, Finish(c) PROVE QueueInv'
  <2> DEFINE k == held[c]
  <2>1. k \in Keys /\ Of(k) = c /\ k # NoKey /\ queue[c] \in Seq(Keys) /\ k \in Busy
    BY <1>2, <1>t DEF Finish, TypeOK, Busy
  <2>2. /\ held' = [held EXCEPT ![c] = NoKey] /\ copy' = [copy EXCEPT ![c] = Absent]
        /\ queue' = PutBack(c, k)
        /\ waiting' = IF Result(k, copy[c]) = "empty" THEN waiting ELSE waiting \cup {k}
        /\ UNCHANGED <<seen, dirty, incidents>>
    BY <1>2 DEF Finish
  <2>3. object' \in [Keys -> Stages]
    <3>1. CASE UNCHANGED object
      BY <3>1, <1>t DEF TypeOK
    <3>2. ASSUME NEW s \in {copy[c] + 1} \cup {Gone}, copy[c] \in 1 .. Last,
                 object' = [object EXCEPT ![k] = s]
          PROVE  object' \in [Keys -> Stages]
      <4>1. s \in Stages
        BY <3>2, LastAssumption DEF Stages, Gone
      <4>2. QED
        BY <4>1, <3>2, <1>t DEF TypeOK
    <3>3. QED
      BY <3>1, <3>2, <1>2 DEF Finish, Open, Exists
  <2> HIDE DEF k
  <2>4. k \in waiting' \/ (Result(k, copy[c]) = "empty" /\ waiting' = waiting)
    BY <2>2
  <2>5. Busy' = Busy \ {k}
    <3>1. \A d \in Controllers : d # c => held[d] # k /\ held'[d] = held[d]
      BY <2>1, <2>2, <1>t, KeysAssumption DEF TypeOK
    <3>2. held'[c] = NoKey /\ held[c] = k
      BY <2>2, <1>t DEF TypeOK, k
    <3>3. QED
      BY <3>1, <3>2 DEF Busy
  <2>6. Queued(c) = {l \in dirty : Of(l) = c} \ Busy /\ IsInjective(queue[c])
    BY <1>t DEF QueuesAgree
  <2>7. ASSUME k \in dirty PROVE QueuesAgree'
    <3>1. queue' = [queue EXCEPT ![c] = queue[c] \o <<k>>]
      <4>1. Append(queue[c], k) = queue[c] \o <<k>>
        BY <2>1, AppendIsConcat
      <4>2. QED
        BY <4>1, <2>2, <2>7 DEF PutBack
    <3>2. <<k>> \in Seq(Keys) /\ Range(<<k>>) = {k} /\ IsInjective(<<k>>)
      BY <2>1 DEF Range, IsInjective
    <3>3. Range(queue[c]) \cap Range(<<k>>) = {}
      BY <3>2, <2>1, <2>6 DEF Queued
    <3>4. /\ queue[c] \o <<k>> \in Seq(Keys)
          /\ Range(queue[c] \o <<k>>) = Queued(c) \cup {k}
          /\ IsInjective(queue[c] \o <<k>>)
      <4> DEFINE r == <<k>>
      <4>1. r \in Seq(Keys) /\ Range(r) = {k} /\ IsInjective(r) /\ Range(queue[c]) \cap Range(r) = {}
        BY <3>2, <3>3
      <4> HIDE DEF r
      <4>2. /\ queue[c] \o r \in Seq(Keys)
            /\ Range(queue[c] \o r) = Range(queue[c]) \cup Range(r)
            /\ IsInjective(queue[c] \o r)
        BY <4>1, <2>1, <2>6, AppendedKeys
      <4>3. QED
        BY <4>1, <4>2 DEF Queued, r
    <3>5. /\ queue' \in [Controllers -> Seq(Keys)] /\ queue'[c] = queue[c] \o <<k>>
          /\ \A d \in Controllers : d # c => queue'[d] = queue[d]
      BY <3>1, <3>4, <1>t DEF TypeOK
    <3>6. ASSUME NEW d \in Controllers
          PROVE  Queued(d)' = {l \in dirty' : Of(l) = d} \ Busy' /\ IsInjective(queue'[d])
      <4>1. Queued(d) = {l \in dirty : Of(l) = d} \ Busy /\ IsInjective(queue[d])
        BY <1>t DEF QueuesAgree
      <4>2. CASE d = c
        <5>1. Queued(d)' = Queued(c) \cup {k}
          BY <4>2, <3>4, <3>5 DEF Queued
        <5>2. QED
          BY <5>1, <4>2, <3>4, <3>5, <2>1, <2>2, <2>5, <2>6, <2>7
      <4>3. CASE d # c
        <5>1. Queued(d)' = Queued(d) /\ queue'[d] = queue[d]
          BY <4>3, <3>5 DEF Queued
        <5>2. QED
          BY <5>1, <4>1, <4>3, <2>1, <2>2, <2>5
      <4>4. QED
        BY <4>2, <4>3
    <3>7. QED
      BY <3>6 DEF QueuesAgree
  <2>8. ASSUME k \notin dirty PROVE QueuesAgree'
    <3>1. queue' = queue
      BY <2>2, <2>8 DEF PutBack
    <3>2. ASSUME NEW d \in Controllers
          PROVE  Queued(d)' = {l \in dirty' : Of(l) = d} \ Busy' /\ IsInjective(queue'[d])
      <4>1. Queued(d) = {l \in dirty : Of(l) = d} \ Busy /\ IsInjective(queue[d])
        BY <1>t DEF QueuesAgree
      <4>2. Queued(d)' = Queued(d)
        BY <3>1 DEF Queued
      <4>3. {l \in dirty' : Of(l) = d} \ Busy' = {l \in dirty : Of(l) = d} \ Busy
        BY <2>2, <2>5, <2>8
      <4>4. QED
        BY <3>1, <4>1, <4>2, <4>3
    <3>3. QED
      BY <3>2 DEF QueuesAgree
  <2>9. QueuesAgree'
    BY <2>7, <2>8
  <2>10. TypeOK'
    <3>1. queue' \in [Controllers -> Seq(Keys)]
      BY <2>1, <2>2, <1>t DEF TypeOK, PutBack
    <3>2. QED
      BY <3>1, <2>1, <2>2, <2>3, <1>t, LastAssumption DEF TypeOK, Stages, Absent
  <2>11. SeenKept'
    <3> SUFFICES ASSUME NEW l \in Keys, Open(l, seen[l])
                 PROVE  l \in dirty' \cup waiting' \/ \E d \in Controllers : WillRequeue(d, l)'
      BY <2>2 DEF SeenKept
    <3>1. l \in dirty \cup waiting \/ \E d \in Controllers : WillRequeue(d, l)
      BY <1>t DEF SeenKept
    <3>2. CASE l \in dirty \cup waiting
      BY <3>2, <2>2
    <3>3. ASSUME NEW d \in Controllers, WillRequeue(d, l), d = c
          PROVE  l \in waiting'
      BY <3>3, <2>4 DEF WillRequeue, k
    <3>4. ASSUME NEW d \in Controllers, WillRequeue(d, l), d # c
          PROVE  WillRequeue(d, l)'
      BY <3>4, <2>2, <1>t DEF WillRequeue, TypeOK
    <3>5. QED
      BY <3>1, <3>2, <3>3, <3>4
  <2>12. QED
    BY <2>9, <2>10, <2>11
<1>3. ASSUME NEW k \in Keys, Expire(k) PROVE QueueInv'
  <2>1. /\ waiting' = waiting \ {k} /\ Add(Of(k), {k})
        /\ UNCHANGED <<object, seen, held, copy, incidents>>
    BY <1>3 DEF Expire
  <2>2. IsFiniteSet({k}) /\ {k} \in SUBSET Keys /\ \A l \in {k} : Of(l) = Of(k)
    BY OneKeyIsFinite
  <2>3. queue' \in [Controllers -> Seq(Keys)] /\ dirty' = dirty \cup {k} /\ QueuesAgree'
    BY <2>1, <2>2, <1>k, AddKeeps
  <2>4. TypeOK'
    BY <2>1, <2>3, <1>t DEF TypeOK
  <2>5. SeenKept'
    BY <2>1, <2>3, <1>t DEF SeenKept, WillRequeue
  <2>6. QED
    BY <2>3, <2>4, <2>5
<1>4. ASSUME NEW k \in Keys, Sync(k) PROVE QueueInv'
  <2>1. /\ seen' = [seen EXCEPT ![k] = object[k]]
        /\ UNCHANGED <<object, waiting, held, copy, incidents>>
    BY <1>4 DEF Sync
  <2>2. PICK K \in SUBSET Keys : /\ Add(Of(k), K) /\ IsFiniteSet(K) /\ k \in K
                                 /\ \A l \in K : Of(l) = Of(k)
    <3>1. CASE Add(Of(k), {k})
      BY <3>1, OneKeyIsFinite
    <3>2. ASSUME k \in Configs, Add("configs", {k} \cup {l \in Configs : Exists(seen'[l])})
          PROVE  \E K \in SUBSET Keys : /\ Add(Of(k), K) /\ IsFiniteSet(K) /\ k \in K
                                       /\ \A l \in K : Of(l) = Of(k)
      <4> DEFINE K == {k} \cup {l \in Configs : Exists(seen'[l])}
      <4>1. K \subseteq Configs
        BY <3>2
      <4>2. IsFiniteSet(K)
        BY <4>1, FiniteKeysAssumption, FS_Subset
      <4>3. k \in K /\ Add(Of(k), K)
        BY <3>2, <1>k
      <4> HIDE DEF K
      <4>4. QED
        BY <4>1, <4>2, <4>3, <3>2, <1>k
    <3>3. QED
      BY <1>4, <3>1, <3>2 DEF Sync
  <2>3. queue' \in [Controllers -> Seq(Keys)] /\ dirty' = dirty \cup K /\ QueuesAgree'
    BY <2>1, <2>2, <1>k, AddKeeps
  <2>4. TypeOK'
    BY <2>1, <2>3, <1>t DEF TypeOK
  <2>5. SeenKept'
    <3> SUFFICES ASSUME NEW l \in Keys, Open(l, seen'[l])
                 PROVE  l \in dirty' \cup waiting' \/ \E d \in Controllers : WillRequeue(d, l)'
      BY DEF SeenKept
    <3>1. CASE l = k
      BY <3>1, <2>2, <2>3
    <3>2. CASE l # k
      <4>1. seen'[l] = seen[l]
        BY <3>2, <2>1, <1>t DEF TypeOK
      <4>2. QED
        BY <4>1, <2>1, <2>3, <1>t DEF SeenKept, WillRequeue
    <3>3. QED
      BY <3>1, <3>2
  <2>6. QED
    BY <2>3, <2>4, <2>5
<1>5. ASSUME NEW t \in Tasks, JobEvent(t) PROVE QueueInv'
  <2>1. /\ Add("tasks", {t}) /\ UNCHANGED <<object, seen, waiting, held, copy>>
        /\ incidents' = incidents + 1 /\ incidents < MaxIncidents
    BY <1>5 DEF JobEvent
  <2>2. IsFiniteSet({t}) /\ {t} \in SUBSET Keys /\ \A l \in {t} : Of(l) = "tasks"
    BY OneKeyIsFinite, <1>k
  <2>3. queue' \in [Controllers -> Seq(Keys)] /\ dirty' = dirty \cup {t} /\ QueuesAgree'
    BY <2>1, <2>2, <1>k, AddKeeps
  <2>4. TypeOK'
    BY <2>1, <2>2, <2>3, <1>t, QueueBoundAssumption DEF TypeOK
  <2>5. SeenKept'
    BY <2>1, <2>3, <1>t DEF SeenKept, WillRequeue
  <2>6. QED
    BY <2>3, <2>4, <2>5
<1>6. ASSUME PVCEvent PROVE QueueInv'
  <2>1. PICK K \in SUBSET {k \in Configs : Exists(seen[k])} : Add("configs", K)
    BY <1>6 DEF PVCEvent
  <2>2. UNCHANGED <<object, seen, waiting, held, copy, incidents>>
    BY <1>6 DEF PVCEvent
  <2>3. IsFiniteSet(K) /\ K \in SUBSET Keys /\ \A l \in K : Of(l) = "configs"
    BY FiniteKeysAssumption, FS_Subset, <1>k
  <2>4. queue' \in [Controllers -> Seq(Keys)] /\ dirty' = dirty \cup K /\ QueuesAgree'
    BY <2>1, <2>2, <2>3, <1>k, AddKeeps
  <2>5. TypeOK'
    BY <2>2, <2>3, <2>4, <1>t DEF TypeOK
  <2>6. SeenKept'
    BY <2>2, <2>4, <1>t DEF SeenKept, WillRequeue
  <2>7. QED
    BY <2>4, <2>5, <2>6
<1>7. ASSUME NEW k \in Keys, Create(k) \/ Delete(k) PROVE QueueInv'
  <2>1. /\ \E s \in {1, Gone} : object' = [object EXCEPT ![k] = s]
        /\ UNCHANGED <<seen, queueVars, incidents>>
    BY <1>7 DEF Create, Delete
  <2>2. TypeOK'
    BY <2>1, <1>t, LastAssumption DEF TypeOK, Stages, Gone
  <2>3. QueuesAgree' /\ SeenKept'
    BY <2>1, <1>t DEF QueuesAgree, Queued, Busy, SeenKept, WillRequeue
  <2>4. QED
    BY <2>2, <2>3
<1>8. ASSUME Restart PROVE QueueInv'
  <2>1. TypeOK'
    BY <1>8, <1>t, LastAssumption, QueueBoundAssumption DEF Restart, TypeOK, Stages, Absent
  <2>2. QueuesAgree'
    BY <1>8 DEF Restart, QueuesAgree, Queued, Range, IsInjective
  <2>3. SeenKept'
    BY <1>8 DEF Restart, SeenKept, Open, Exists, Absent
  <2>4. QED
    BY <2>1, <2>2, <2>3
<1>9. ASSUME UNCHANGED vars PROVE QueueInv'
  BY <1>9, <1>t DEF TypeOK, QueuesAgree, Queued, Busy, SeenKept, WillRequeue
<1>10. QED
  BY <1>1, <1>2, <1>3, <1>4, <1>5, <1>6, <1>7, <1>8, <1>9 DEF Next

LEMMA InvHolds == Spec => []QueueInv
<1>1. QED
  BY InitEstablishes, NextPreserves, PTL DEF Spec

(* TypeOK: the variables of the queues, of the workers and of the informers *)
(* keep their types.                                                        *)
THEOREM QueueTypesHold == Spec => []TypeOK
<1>1. QueueInv => TypeOK
  BY DEF QueueInv
<1>2. QED
  BY <1>1, InvHolds, PTL

(* QueuesAgree: the queues hold the dirty keys that nobody reconciles, each *)
(* once (Add, Take and Finish, as controller-runtime and client-go do it).  *)
THEOREM QueuesStayInStep == Spec => []QueuesAgree
<1>1. QueueInv => QueuesAgree
  BY DEF QueueInv
<1>2. QED
  BY <1>1, InvHolds, PTL

(* KeyKept: the results of Reconcile, the watches and the initial list lose *)
(* no key of a Task with stages to come or of a Config.                     *)
THEOREM NoKeyIsLost == Spec => []KeyKept
<1>1. QueueInv => KeyKept
  BY DEF QueueInv, SeenKept, KeyKept
<1>2. QED
  BY <1>1, InvHolds, PTL
=============================================================================
