-------------------------- MODULE TaskSystemProofs --------------------------
(***************************************************************************)
(* Proofs about TaskSystem: the scheduler, its mutex, its joins and its    *)
(* timer keep their books for any number of tasks, any priorities and any  *)
(* order of calls and events.                                              *)
(***************************************************************************)
EXTENDS TaskSystem, InductionLemmas, SequenceTheorems

-----------------------------------------------------------------------------
(* Sequences with an element more or less. *)

\* r is q with e after its first n elements.
HasAt(r, q, n, e) ==
    /\ Len(r) = Len(q) + 1
    /\ \A i \in 1 .. n : r[i] = q[i]
    /\ r[n + 1] = e
    /\ \A i \in n + 1 .. Len(q) : r[i + 1] = q[i]

\* InsertAt does that.
LEMMA InsertFacts ==
    ASSUME NEW S, NEW q \in Seq(S), NEW n \in 0 .. Len(q), NEW e \in S
    PROVE  InsertAt(q, n + 1, e) \in Seq(S) /\ HasAt(InsertAt(q, n + 1, e), q, n, e)
<1> DEFINE l == Len(q)
           a == SubSeq(q, 1, n)
           b == SubSeq(q, n + 1, l)
           ae == a \o <<e>>
           r == ae \o b
<1>0. l \in Nat /\ n \in Nat /\ n <= l /\ \A i \in 1 .. l : q[i] \in S
  BY LenProperties, ElementOfSeq
<1>1. InsertAt(q, n + 1, e) = r
  <2>1. (n + 1) - 1 = n
    BY <1>0
  <2>2. InsertAt(q, n + 1, e) = SubSeq(q, 1, (n + 1) - 1) \o <<e>> \o SubSeq(q, n + 1, Len(q))
    BY ONLY Zenon DEF InsertAt
  <2> QED BY ONLY <2>1, <2>2, Zenon DEF r, ae, a, b, l
<1> HIDE DEF l
<1>2. a \in Seq(S) /\ Len(a) = n /\ \A i \in 1 .. n : a[i] = q[i]
  <2>1. \A i \in 1 .. n : q[i] \in S
    BY <1>0
  <2>2. /\ a \in Seq(S) /\ Len(a) = (IF 1 <= n THEN n - 1 + 1 ELSE 0)
        /\ \A i \in 1 .. n - 1 + 1 : a[i] = q[1 + i - 1]
    BY <2>1, <1>0, SubSeqProperties
  <2> QED BY <2>2, <1>0
<1>3. b \in Seq(S) /\ Len(b) = l - n /\ \A i \in 1 .. l - n : b[i] = q[n + i]
  <2>1. \A i \in n + 1 .. l : q[i] \in S
    BY <1>0
  <2>2. /\ b \in Seq(S) /\ Len(b) = (IF n + 1 <= l THEN l - (n + 1) + 1 ELSE 0)
        /\ \A i \in 1 .. l - (n + 1) + 1 : b[i] = q[(n + 1) + i - 1]
    BY <2>1, <1>0, SubSeqProperties
  <2> QED BY <2>2, <1>0
<1> HIDE DEF a, b
<1>4. <<e>> \in Seq(S) /\ Len(<<e>>) = 1 /\ <<e>>[1] = e
  OBVIOUS
<1>5. /\ ae \in Seq(S) /\ Len(ae) = n + 1
      /\ \A i \in 1 .. n + 1 : ae[i] = IF i <= n THEN a[i] ELSE <<e>>[i - n]
  BY <1>2, <1>4, ConcatProperties
<1>6. ae[n + 1] = e /\ \A i \in 1 .. n : ae[i] = q[i]
  BY <1>0, <1>2, <1>4, <1>5
<1> HIDE DEF ae
<1>7. /\ r \in Seq(S) /\ Len(r) = n + 1 + (l - n)
      /\ \A i \in 1 .. n + 1 + (l - n) : r[i] = IF i <= n + 1 THEN ae[i] ELSE b[i - (n + 1)]
  <2>1. /\ r \in Seq(S) /\ Len(r) = Len(ae) + Len(b)
        /\ \A i \in 1 .. Len(ae) + Len(b) : r[i] = IF i <= Len(ae) THEN ae[i] ELSE b[i - Len(ae)]
    BY <1>3, <1>5, ConcatProperties
  <2>2. Len(ae) = n + 1 /\ Len(b) = l - n
    BY <1>3, <1>5
  <2> HIDE DEF r
  <2> QED BY ONLY <2>1, <2>2, Zenon
<1> HIDE DEF r
<1>8. Len(r) = l + 1 /\ r[n + 1] = e /\ \A i \in 1 .. n : r[i] = q[i]
  BY <1>0, <1>6, <1>7
<1>9. ASSUME NEW i \in n + 1 .. l PROVE r[i + 1] = q[i]
  <2>1. r[i + 1] = b[i + 1 - (n + 1)]
    BY <1>0, <1>7
  <2>2. i - n \in 1 .. l - n /\ i + 1 - (n + 1) = i - n /\ n + (i - n) = i
    BY <1>0
  <2> QED BY <2>1, <2>2, <1>3
<1>10. HasAt(r, q, n, e)
  BY <1>8, <1>9 DEF HasAt, l
<1> QED BY <1>1, <1>7, <1>10

\* r is q without its k-th element.
LacksAt(r, q, k) ==
    /\ Len(r) = Len(q) - 1
    /\ \A i \in 1 .. k - 1 : r[i] = q[i]
    /\ \A i \in k .. Len(q) - 1 : r[i] = q[i + 1]

\* RemoveAt does that.
LEMMA RemoveFacts ==
    ASSUME NEW S, NEW q \in Seq(S), NEW k \in 1 .. Len(q)
    PROVE  RemoveAt(q, k) \in Seq(S) /\ LacksAt(RemoveAt(q, k), q, k)
<1> DEFINE l == Len(q)
           a == SubSeq(q, 1, k - 1)
           b == SubSeq(q, k + 1, l)
           r == a \o b
<1>0. l \in Nat /\ k \in Nat /\ 1 <= k /\ k <= l /\ \A i \in 1 .. l : q[i] \in S
  BY LenProperties, ElementOfSeq
<1>1. RemoveAt(q, k) = r
  BY DEF RemoveAt
<1> HIDE DEF l
<1>2. a \in Seq(S) /\ Len(a) = k - 1 /\ \A i \in 1 .. k - 1 : a[i] = q[i]
  <2>1. \A i \in 1 .. k - 1 : q[i] \in S
    BY <1>0
  <2>2. /\ a \in Seq(S) /\ Len(a) = (IF 1 <= k - 1 THEN (k - 1) - 1 + 1 ELSE 0)
        /\ \A i \in 1 .. (k - 1) - 1 + 1 : a[i] = q[1 + i - 1]
    BY <2>1, <1>0, SubSeqProperties
  <2> QED BY <2>2, <1>0
<1>3. b \in Seq(S) /\ Len(b) = l - k /\ \A i \in 1 .. l - k : b[i] = q[k + i]
  <2>1. \A i \in k + 1 .. l : q[i] \in S
    BY <1>0
  <2>2. /\ b \in Seq(S) /\ Len(b) = (IF k + 1 <= l THEN l - (k + 1) + 1 ELSE 0)
        /\ \A i \in 1 .. l - (k + 1) + 1 : b[i] = q[(k + 1) + i - 1]
    BY <2>1, <1>0, SubSeqProperties
  <2> QED BY <2>2, <1>0
<1> HIDE DEF a, b
<1>4. /\ r \in Seq(S) /\ Len(r) = k - 1 + (l - k)
      /\ \A i \in 1 .. k - 1 + (l - k) : r[i] = IF i <= k - 1 THEN a[i] ELSE b[i - (k - 1)]
  <2>1. /\ r \in Seq(S) /\ Len(r) = Len(a) + Len(b)
        /\ \A i \in 1 .. Len(a) + Len(b) : r[i] = IF i <= Len(a) THEN a[i] ELSE b[i - Len(a)]
    BY <1>2, <1>3, ConcatProperties
  <2>2. Len(a) = k - 1 /\ Len(b) = l - k
    BY <1>2, <1>3
  <2> HIDE DEF r
  <2> QED BY ONLY <2>1, <2>2, Zenon
<1> HIDE DEF r
<1>5. Len(r) = l - 1 /\ \A i \in 1 .. k - 1 : r[i] = q[i]
  BY <1>0, <1>2, <1>4
<1>6. ASSUME NEW i \in k .. l - 1 PROVE r[i] = q[i + 1]
  <2>1. r[i] = b[i - (k - 1)]
    BY <1>0, <1>4
  <2>2. i - (k - 1) \in 1 .. l - k /\ k + (i - (k - 1)) = i + 1
    BY <1>0
  <2> QED BY <2>1, <2>2, <1>3
<1>7. LacksAt(r, q, k)
  BY <1>5, <1>6 DEF LacksAt, l
<1> QED BY <1>1, <1>4, <1>7

-----------------------------------------------------------------------------
(* The run queue. *)

Scheds == [queue : Seq(Task), key : [Task -> Nat], state : [Task -> States]]

\* The queue holds the tasks of R, each once, in the order of their keys.
Holds(q, R) == /\ \A i \in 1 .. Len(q) : q[i] \in R
               /\ \A t \in R : \E i \in 1 .. Len(q) : q[i] = t
Once(q) == \A i, j \in 1 .. Len(q) : q[i] = q[j] => i = j
Sorted(q, key) == \A i, j \in 1 .. Len(q) : i < j => key[q[i]] <= key[q[j]]
Ordered(s, R) == s \in Scheds /\ Holds(s.queue, R) /\ Once(s.queue) /\ Sorted(s.queue, s.key)

Running(s) == {t \in Task : s.state[t] = "RUNNING"}
Sound(s) == Ordered(s, Running(s))

\* The fields of a scheduler.
LEMMA SchedFields ==
    ASSUME NEW s \in Scheds
    PROVE  /\ s.queue \in Seq(Task) /\ Len(s.queue) \in Nat
           /\ s.key \in [Task -> Nat] /\ s.state \in [Task -> States]
           /\ \A i \in 1 .. Len(s.queue) : s.queue[i] \in Task /\ s.key[s.queue[i]] \in Nat
<1>1. s.queue \in Seq(Task) /\ s.key \in [Task -> Nat] /\ s.state \in [Task -> States]
  BY DEF Scheds
<1> QED BY <1>1, LenProperties, ElementOfSeq

\* s with another queue.
WithQueue(s, q) == [s EXCEPT !.queue = q]

\* Its other fields.
LEMMA WithQueueFacts ==
    ASSUME NEW s \in Scheds, NEW q \in Seq(Task)
    PROVE  /\ WithQueue(s, q) \in Scheds /\ WithQueue(s, q).queue = q
           /\ WithQueue(s, q).key = s.key /\ WithQueue(s, q).state = s.state
BY DEF WithQueue, Scheds

\* The first task of a queue has the smallest key.
LEMMA MinKeyFacts ==
    ASSUME NEW s, NEW R, Ordered(s, R)
    PROVE  /\ MinKey(s) \in Nat
           /\ s.queue # <<>> => /\ 1 \in 1 .. Len(s.queue) /\ Head(s.queue) = s.queue[1]
                                /\ MinKey(s) = s.key[s.queue[1]]
           /\ \A t \in R : MinKey(s) <= s.key[t]
<1> DEFINE q == s.queue
<1>0. /\ q \in Seq(Task) /\ Len(q) \in Nat /\ \A i \in 1 .. Len(q) : q[i] \in Task /\ s.key[q[i]] \in Nat
      /\ Sorted(q, s.key) /\ Holds(q, R)
  BY SchedFields DEF Ordered
<1>1. MinKey(s) = IF q = <<>> THEN 0 ELSE s.key[Head(q)]
  BY DEF MinKey
<1> HIDE DEF q
<1>2. CASE q = <<>>
  <2>1. R = {}
    <3>1. Len(q) = 0
      BY <1>2, EmptySeq
    <3> QED BY <3>1, <1>0 DEF Holds
  <2> QED BY <1>1, <1>2, <2>1 DEF q
<1>3. CASE q # <<>>
  <2>1. Len(q) # 0
    BY <1>0, <1>3, EmptySeq
  <2>2. 1 \in 1 .. Len(q) /\ Head(q) = q[1]
    BY <1>0, <2>1, <1>3
  <2>3. MinKey(s) = s.key[q[1]] /\ MinKey(s) \in Nat
    BY <1>0, <1>1, <1>3, <2>2
  <2>4. ASSUME NEW t \in R PROVE MinKey(s) <= s.key[t]
    <3>1. PICK i \in 1 .. Len(q) : q[i] = t
      BY <1>0 DEF Holds
    <3>2. CASE i = 1
      BY <3>1, <3>2, <2>3
    <3>3. CASE 1 < i
      BY <3>1, <3>3, <2>2, <2>3, <1>0 DEF Sorted
    <3> QED BY <3>1, <3>2, <3>3, <1>0
  <2> QED BY <2>2, <2>3, <2>4 DEF q
<1> QED BY <1>2, <1>3

\* r is s with R in its queue.
Requeued(r, s, R) == Ordered(r, R) /\ r.key = s.key /\ r.state = s.state

\* r has the first task of s in front.
Fronted(r, s) == s.queue # <<>> => r.queue # <<>> /\ r.queue[1] = s.queue[1]

\* A task that is inserted behind those with the same key.
LEMMA QueuedOrdered ==
    ASSUME NEW s, NEW R, Ordered(s, R), NEW t \in Task, t \notin R
    PROVE  /\ Requeued(Queued(s, t), s, R \cup {t})
           /\ MinKey(s) <= s.key[t] => Fronted(Queued(s, t), s)
<1> DEFINE q == s.queue
           l == Len(q)
           K == {i \in 1 .. l : s.key[q[i]] <= s.key[t]}
           n == Cardinality(K)
           r == InsertAt(q, n + 1, t)
           k == s.key
<1>0. /\ s \in Scheds /\ q \in Seq(Task) /\ l \in Nat /\ k \in [Task -> Nat]
      /\ \A i \in 1 .. l : q[i] \in Task /\ k[q[i]] \in Nat
      /\ Holds(q, R) /\ Once(q) /\ Sorted(q, k)
  BY SchedFields DEF Ordered
<1>1. Queued(s, t) = WithQueue(s, r)
  <2>1. DOMAIN q = 1 .. l
    BY <1>0
  <2> QED BY <2>1 DEF Queued, WithQueue
<1> HIDE DEF q, k
<1>2. k[t] \in Nat
  BY <1>0
<1>3. n \in 0 .. l /\ K = 1 .. n
  <2>1. \A i \in K : \A j \in 1 .. i : j \in K
    <3>1. SUFFICES ASSUME NEW i \in K, NEW j \in 1 .. i PROVE j \in K
      OBVIOUS
    <3>2. i \in 1 .. l /\ k[q[i]] <= k[t] /\ j \in 1 .. l
      BY <1>0 DEF q, k
    <3>3. k[q[j]] <= k[q[i]]
      BY <3>1, <3>2, <1>0 DEF Sorted
    <3>4. k[q[j]] <= k[t]
      BY <3>2, <3>3, <1>0, <1>2
    <3> QED BY <3>2, <3>4 DEF q, k
  <2>2. K \in SUBSET (1 .. l)
    OBVIOUS
  <2> HIDE DEF K, l
  <2> QED BY <2>1, <2>2, <1>0, PrefixInterval
<1>4. /\ \A i \in 1 .. n : k[q[i]] <= k[t]
      /\ \A i \in n + 1 .. l : k[t] <= k[q[i]]
  <2>0. \A i : i \in K <=> i \in 1 .. l /\ k[q[i]] <= k[t]
    BY DEF q, k
  <2> HIDE DEF K, l, n
  <2>1. ASSUME NEW i \in 1 .. n PROVE k[q[i]] <= k[t]
    BY <1>3, <2>0
  <2>2. ASSUME NEW i \in n + 1 .. l PROVE k[t] <= k[q[i]]
    <3>1. i \in 1 .. l /\ i \notin 1 .. n
      BY ONLY <1>0, <1>3, <2>2
    <3>2. ~ (k[q[i]] <= k[t])
      BY <3>1, <2>0, <1>3
    <3> QED BY <3>1, <3>2, <1>0, <1>2
  <2> QED BY <2>1, <2>2
<1>5. n \in 0 .. l
  BY <1>3
<1>50. q # <<>> /\ MinKey(s) <= k[t] => 1 \in 1 .. n
  <2>0. \A i : i \in K <=> i \in 1 .. l /\ k[q[i]] <= k[t]
    BY DEF q, k
  <2>1. q # <<>> => 1 \in 1 .. l /\ MinKey(s) = k[q[1]]
    BY MinKeyFacts DEF q, k
  <2> HIDE DEF K, l, n
  <2> QED BY ONLY <2>0, <2>1, <1>3
<1> HIDE DEF n, K
<1>6. r \in Seq(Task) /\ HasAt(r, q, n, t)
  BY <1>0, <1>5, InsertFacts
<1> HIDE DEF r
<1>7. /\ Len(r) = l + 1 /\ r[n + 1] = t /\ \A i \in 1 .. n : r[i] = q[i]
      /\ \A i \in n + 1 .. l : r[i + 1] = q[i]
  BY <1>6 DEF HasAt
<1>70. n \in Nat /\ n <= l /\ l \in Nat
  BY <1>0, <1>5
\* Where an element of r comes from.
<1>8. ASSUME NEW i \in 1 .. Len(r)
      PROVE  \/ i \in 1 .. n /\ r[i] = q[i]
             \/ i = n + 1 /\ r[i] = t
             \/ i \in n + 2 .. l + 1 /\ i - 1 \in n + 1 .. l /\ r[i] = q[i - 1]
  <2>1. i \in 1 .. l + 1
    BY <1>7
  <2>2. i \in 1 .. n \/ i = n + 1 \/ (i \in n + 2 .. l + 1 /\ i - 1 \in n + 1 .. l)
    BY <2>1, <1>0, <1>5
  <2>3. CASE i \in n + 2 .. l + 1 /\ i - 1 \in n + 1 .. l
    <3>1. r[(i - 1) + 1] = q[i - 1] /\ (i - 1) + 1 = i
      BY <2>3, <1>7
    <3> QED BY <3>1, <2>3
  <2> QED BY <2>2, <2>3, <1>7
<1>9. \A i \in 1 .. l : q[i] # t /\ q[i] \in R
  BY <1>0 DEF Holds
<1> HIDE DEF l
<1>90. ASSUME NEW i \in 1 .. Len(r)
       PROVE  \/ i \in 1 .. n /\ i \in 1 .. l /\ r[i] = q[i]
              \/ i = n + 1 /\ r[i] = t
              \/ i > n + 1 /\ i - 1 \in n + 1 .. l /\ i - 1 \in 1 .. l /\ r[i] = q[i - 1]
  BY ONLY <1>8, <1>70, <1>90
<1>10. Holds(r, R \cup {t})
  <2>1. ASSUME NEW i \in 1 .. Len(r) PROVE r[i] \in R \cup {t}
    BY ONLY <1>9, <1>90, <2>1
  <2>2. ASSUME NEW u \in R PROVE \E i \in 1 .. Len(r) : r[i] = u
    <3>1. PICK i \in 1 .. l : q[i] = u
      BY <1>0 DEF Holds, l
    <3>2. CASE i \in 1 .. n
      BY <3>1, <3>2, <1>0, <1>5, <1>7
    <3>3. CASE i \in n + 1 .. l
      <4>1. i + 1 \in 1 .. Len(r) /\ r[i + 1] = u
        BY <3>1, <3>3, <1>0, <1>5, <1>7
      <4> QED BY <4>1
    <3> QED BY <3>1, <3>2, <3>3, <1>0, <1>5
  <2>3. n + 1 \in 1 .. Len(r)
    BY <1>0, <1>5, <1>7
  <2> QED BY <2>1, <2>2, <2>3, <1>7 DEF Holds
<1>11. Once(r)
  <2>1. SUFFICES ASSUME NEW i \in 1 .. Len(r), NEW j \in 1 .. Len(r), r[i] = r[j] PROVE i = j
    BY DEF Once
  <2>2. \A x, y \in 1 .. l : q[x] = q[y] => x = y
    BY <1>0 DEF Once, l
  <2>3. i \in Nat /\ j \in Nat
    OBVIOUS
  <2> QED BY ONLY <2>1, <2>2, <2>3, <1>9, <1>70, <1>90
<1>12. Sorted(r, k)
  <2>1. SUFFICES ASSUME NEW i \in 1 .. Len(r), NEW j \in 1 .. Len(r), i < j
                 PROVE  k[r[i]] <= k[r[j]]
    BY DEF Sorted
  <2>2. \A x, y \in 1 .. l : x < y => k[q[x]] <= k[q[y]]
    BY <1>0 DEF Sorted, l
  <2>3. i \in Nat /\ j \in Nat
    OBVIOUS
  <2>4. CASE i \in 1 .. n /\ i \in 1 .. l /\ r[i] = q[i]
    <3>1. CASE j \in 1 .. n /\ j \in 1 .. l /\ r[j] = q[j]
      BY ONLY <3>1, <2>1, <2>2, <2>4
    <3>2. CASE j = n + 1 /\ r[j] = t
      BY ONLY <3>2, <2>4, <1>4
    <3>3. CASE j > n + 1 /\ j - 1 \in 1 .. l /\ r[j] = q[j - 1]
      <4>1. i < j - 1
        BY ONLY <3>3, <2>4, <2>3, <1>70
      <4> QED BY ONLY <4>1, <3>3, <2>4, <2>2
    <3> QED BY ONLY <3>1, <3>2, <3>3, <1>90, <2>1
  <2>5. CASE i = n + 1 /\ r[i] = t
    <3>1. j - 1 \in n + 1 .. l /\ r[j] = q[j - 1]
      BY ONLY <2>1, <2>5, <2>3, <1>70, <1>90
    <3> QED BY ONLY <3>1, <2>5, <1>4
  <2>6. CASE i > n + 1 /\ i - 1 \in 1 .. l /\ r[i] = q[i - 1]
    <3>1. j - 1 \in 1 .. l /\ r[j] = q[j - 1]
      BY ONLY <2>1, <2>6, <2>3, <1>70, <1>90
    <3>2. i - 1 < j - 1
      BY ONLY <2>1, <2>3
    <3> QED BY ONLY <3>1, <3>2, <2>2, <2>6
  <2> QED BY ONLY <2>4, <2>5, <2>6, <1>90, <2>1
<1> DEFINE w == WithQueue(s, r)
<1>13. w \in Scheds /\ w.queue = r /\ w.key = s.key /\ w.state = s.state
  BY <1>0, <1>6, WithQueueFacts
<1> HIDE DEF w
<1>14. Requeued(w, s, R \cup {t})
  <2>1. w.key = k
    BY <1>13 DEF k
  <2> QED BY ONLY <2>1, <1>10, <1>11, <1>12, <1>13 DEF Requeued, Ordered
<1>15. MinKey(s) <= s.key[t] => Fronted(w, s)
  <2>1. SUFFICES ASSUME MinKey(s) <= k[t], q # <<>> PROVE w.queue # <<>> /\ w.queue[1] = q[1]
    BY DEF Fronted, q, k
  <2>2. r[1] = q[1]
    BY <2>1, <1>50, <1>7
  <2>3. Len(r) # 0
    BY <1>7, <1>70
  <2> QED BY ONLY <2>2, <2>3, <1>13, EmptySeq
<1> QED BY ONLY <1>1, <1>14, <1>15 DEF w

\* A task that is erased.
LEMMA ErasedOrdered ==
    ASSUME NEW s, NEW R, Ordered(s, R), NEW t \in R
    PROVE  Requeued(WithQueue(s, Erased(s.queue, t)), s, R \ {t})
<1> DEFINE q == s.queue
           l == Len(q)
           k == CHOOSE i \in DOMAIN q : q[i] = t
           r == RemoveAt(q, k)
           key == s.key
<1>0. /\ s \in Scheds /\ q \in Seq(Task) /\ l \in Nat
      /\ Holds(q, R) /\ Once(q) /\ Sorted(q, key)
  BY SchedFields DEF Ordered
<1>1. Erased(s.queue, t) = r
  BY DEF Erased
<1>2. k \in 1 .. l /\ q[k] = t
  <2>1. \E i \in DOMAIN q : q[i] = t
    BY <1>0 DEF Holds
  <2>2. DOMAIN q = 1 .. l
    BY <1>0
  <2> HIDE DEF q, l
  <2>3. k \in DOMAIN q /\ q[k] = t
    BY <2>1
  <2> QED BY <2>2, <2>3
<1> HIDE DEF q, k, key
<1>3. r \in Seq(Task) /\ LacksAt(r, q, k)
  BY <1>0, <1>2, RemoveFacts
<1> HIDE DEF r
<1>4. /\ Len(r) = l - 1 /\ \A i \in 1 .. k - 1 : r[i] = q[i]
      /\ \A i \in k .. l - 1 : r[i] = q[i + 1]
  BY <1>3 DEF LacksAt
<1> DEFINE f(i) == IF i < k THEN i ELSE i + 1
<1> HIDE DEF l
<1>5. ASSUME NEW i \in 1 .. Len(r) PROVE f(i) \in 1 .. l /\ f(i) # k /\ r[i] = q[f(i)]
  BY <1>0, <1>2, <1>4
<1>6. ASSUME NEW i \in 1 .. Len(r), NEW j \in 1 .. Len(r)
      PROVE  (f(i) = f(j) => i = j) /\ (i < j => f(i) < f(j))
  BY <1>0, <1>2, <1>4
<1>7. ASSUME NEW i \in 1 .. l, i # k PROVE \E j \in 1 .. Len(r) : r[j] = q[i]
  <2>1. CASE i < k
    BY <2>1, <1>0, <1>2, <1>4
  <2>2. CASE i > k
    <3>1. i - 1 \in k .. l - 1 /\ i - 1 \in 1 .. Len(r) /\ (i - 1) + 1 = i
      BY <2>2, <1>0, <1>2, <1>4
    <3>2. r[i - 1] = q[i]
      BY <3>1, <1>4
    <3> QED BY <3>1, <3>2
  <2> QED BY <2>1, <2>2, <1>0, <1>2, <1>7
<1> HIDE DEF f
<1>8. \A i, j \in 1 .. l : q[i] = q[j] => i = j
  BY <1>0 DEF Once, l
<1>9. Holds(r, R \ {t})
  <2>1. ASSUME NEW i \in 1 .. Len(r) PROVE r[i] \in R \ {t}
    <3>1. f(i) \in 1 .. l /\ f(i) # k /\ r[i] = q[f(i)]
      BY <1>5
    <3>2. q[f(i)] # q[k]
      BY <3>1, <1>2, <1>8
    <3>3. q[f(i)] \in R
      BY <3>1, <1>0 DEF Holds, l
    <3> QED BY <3>1, <3>2, <3>3, <1>2
  <2>2. ASSUME NEW u \in R \ {t} PROVE \E j \in 1 .. Len(r) : r[j] = u
    <3>1. PICK i \in 1 .. l : q[i] = u
      BY <1>0 DEF Holds, l
    <3> QED BY <3>1, <1>2, <1>7
  <2> QED BY <2>1, <2>2 DEF Holds
<1>10. Once(r)
  <2>1. SUFFICES ASSUME NEW i \in 1 .. Len(r), NEW j \in 1 .. Len(r), r[i] = r[j] PROVE i = j
    BY DEF Once
  <2>2. f(i) = f(j)
    BY <2>1, <1>5, <1>8
  <2> QED BY <2>2, <1>6
<1>11. Sorted(r, key)
  <2>1. SUFFICES ASSUME NEW i \in 1 .. Len(r), NEW j \in 1 .. Len(r), i < j
                 PROVE  key[r[i]] <= key[r[j]]
    BY DEF Sorted
  <2>2. f(i) < f(j) /\ f(i) \in 1 .. l /\ f(j) \in 1 .. l /\ r[i] = q[f(i)] /\ r[j] = q[f(j)]
    BY <2>1, <1>5, <1>6
  <2>3. key[q[f(i)]] <= key[q[f(j)]]
    BY <2>2, <1>0 DEF Sorted, l
  <2> QED BY <2>2, <2>3
<1> DEFINE w == WithQueue(s, r)
<1>12. w \in Scheds /\ w.queue = r /\ w.key = s.key /\ w.state = s.state
  BY <1>0, <1>3, WithQueueFacts
<1> HIDE DEF w
<1>13. Requeued(w, s, R \ {t})
  <2>1. w.key = key
    BY <1>12 DEF key
  <2> QED BY ONLY <2>1, <1>9, <1>10, <1>11, <1>12 DEF Requeued, Ordered
<1> QED BY ONLY <1>1, <1>13 DEF w


\* s with another state and another key of t.
Set(s, t, x, k) == [s EXCEPT !.state[t] = x, !.key[t] = k]

\* Its fields.
LEMMA SetFields ==
    ASSUME NEW s \in Scheds, NEW t \in Task, NEW x \in States, NEW k \in Nat
    PROVE  /\ Set(s, t, x, k) \in Scheds /\ Set(s, t, x, k).queue = s.queue
           /\ Set(s, t, x, k).state = [s.state EXCEPT ![t] = x]
           /\ Set(s, t, x, k).key = [s.key EXCEPT ![t] = k]
BY DEF Set, Scheds

\* A task outside the queue may get any key.
LEMMA SetOrdered ==
    ASSUME NEW s, NEW R, Ordered(s, R), NEW t \in Task, t \notin R,
           NEW x \in States, NEW k \in Nat
    PROVE  /\ Ordered(Set(s, t, x, k), R) /\ Set(s, t, x, k).queue = s.queue
           /\ Set(s, t, x, k).state = [s.state EXCEPT ![t] = x]
           /\ Set(s, t, x, k).key = [s.key EXCEPT ![t] = k]
<1> DEFINE r == Set(s, t, x, k)
           q == s.queue
<1>1. /\ r \in Scheds /\ r.queue = q
      /\ r.state = [s.state EXCEPT ![t] = x] /\ r.key = [s.key EXCEPT ![t] = k]
  BY SetFields DEF Ordered
<1> HIDE DEF r
<1>2. s.key \in [Task -> Nat] /\ \A i \in 1 .. Len(q) : q[i] \in Task /\ q[i] # t
  BY SchedFields DEF Ordered, Holds
<1> HIDE DEF q
<1>3. \A i \in 1 .. Len(q) : r.key[q[i]] = s.key[q[i]]
  BY <1>1, <1>2
<1>4. Sorted(q, s.key) /\ Holds(q, R) /\ Once(q)
  BY DEF Ordered, q
<1>5. Sorted(q, r.key)
  BY ONLY <1>3, <1>4 DEF Sorted
<1>6. Ordered(r, R)
  BY ONLY <1>1, <1>4, <1>5 DEF Ordered
<1> QED BY ONLY <1>1, <1>6 DEF r, q

\* Who runs in s with another state of t.
LEMMA RunningSet ==
    ASSUME NEW s \in Scheds, NEW r, NEW t \in Task, NEW x \in States,
           r.state = [s.state EXCEPT ![t] = x]
    PROVE  /\ r.state[t] = x /\ \A u \in Task : u # t => r.state[u] = s.state[u]
           /\ x = "RUNNING" => Running(r) = Running(s) \cup {t}
           /\ x # "RUNNING" => Running(r) = Running(s) \ {t}
<1>1. s.state \in [Task -> States]
  BY SchedFields
<1>2. r.state[t] = x /\ \A u \in Task : u # t => r.state[u] = s.state[u]
  BY <1>1
<1>3. \A u : u \in Running(r) <=> u \in Task /\ r.state[u] = "RUNNING"
  BY DEF Running
<1>4. \A u : u \in Running(s) <=> u \in Task /\ s.state[u] = "RUNNING"
  BY DEF Running
<1> QED BY ONLY <1>2, <1>3, <1>4, t \in Task, Zenon

\* Every running task is in the queue, and r differs from s in tasks that wait in s
\* and run in r.
Rises(r, s) ==
    /\ Sound(r) /\ Fronted(r, s)
    /\ \A u \in Task : \/ r.state[u] = s.state[u]
                       \/ s.state[u] = "WAITING" /\ r.state[u] = "RUNNING"

\* r differs from s in the state of t.
Becomes(r, s, t, x) == Sound(r) /\ r.state = [s.state EXCEPT ![t] = x]

\* Waking some tasks, and then some more.
LEMMA RisesTransitive ==
    ASSUME NEW s, NEW r, NEW w, Rises(r, s), Rises(w, r)
    PROVE  Rises(w, s)
BY DEF Rises, Fronted

\* A task that did not run starts to, with a key that is not the smallest.
LEMMA JoinsQueue ==
    ASSUME NEW s, Sound(s), NEW t \in Task, s.state[t] # "RUNNING", NEW k \in Nat, MinKey(s) <= k
    PROVE  /\ Becomes(Queued(Set(s, t, "RUNNING", k), t), s, t, "RUNNING")
           /\ Fronted(Queued(Set(s, t, "RUNNING", k), t), s)
<1> DEFINE v == Set(s, t, "RUNNING", k)
           w == Queued(v, t)
<1>0. s \in Scheds /\ Ordered(s, Running(s)) /\ t \notin Running(s) /\ "RUNNING" \in States
  BY DEF Sound, Ordered, Running, States
<1>1. /\ Ordered(v, Running(s)) /\ v.queue = s.queue /\ v.state = [s.state EXCEPT ![t] = "RUNNING"]
      /\ v.key = [s.key EXCEPT ![t] = k]
  BY <1>0, SetOrdered
<1> HIDE DEF v
<1>2. v.key[t] = k
  BY <1>0, <1>1, SchedFields
<1>3. MinKey(v) = MinKey(s)
  <2>1. CASE s.queue = <<>>
    BY <2>1, <1>1 DEF MinKey
  <2>2. CASE s.queue # <<>>
    <3>1. /\ 1 \in 1 .. Len(s.queue) /\ MinKey(s) = s.key[s.queue[1]] /\ MinKey(v) = v.key[s.queue[1]]
      BY <2>2, <1>0, <1>1, MinKeyFacts
    <3>2. s.queue[1] \in Task /\ s.queue[1] # t
      BY <3>1, <1>0, SchedFields DEF Ordered, Holds
    <3>3. v.key[s.queue[1]] = s.key[s.queue[1]]
      BY <3>2, <1>0, <1>1, SchedFields
    <3> QED BY ONLY <3>1, <3>3
  <2> QED BY <2>1, <2>2
<1>4. Requeued(w, v, Running(s) \cup {t}) /\ (MinKey(v) <= v.key[t] => Fronted(w, v))
  BY <1>0, <1>1, QueuedOrdered
<1> HIDE DEF w
<1>5. Fronted(w, v)
  BY ONLY <1>2, <1>3, <1>4, MinKey(s) <= k
<1>6. w.state = [s.state EXCEPT ![t] = "RUNNING"] /\ Ordered(w, Running(s) \cup {t})
  BY ONLY <1>1, <1>4 DEF Requeued
<1>7. Running(w) = Running(s) \cup {t}
  BY <1>0, <1>6, RunningSet
<1>8. Becomes(w, s, t, "RUNNING")
  BY ONLY <1>6, <1>7 DEF Becomes, Sound
<1>9. Fronted(w, s)
  BY ONLY <1>1, <1>5 DEF Fronted
<1> QED BY <1>8, <1>9 DEF w, v

\* Wake: the task runs, with its own key added to the smallest.
LEMMA WakeRises ==
    ASSUME NEW s, Sound(s), NEW t \in Task, s.state[t] # "STOPPED"
    PROVE  Rises(Wake(s, t), s) /\ Wake(s, t).state[t] = "RUNNING"
<1>0. s \in Scheds /\ Ordered(s, Running(s)) /\ s.state \in [Task -> States] /\ s.key[t] \in Nat
      /\ MinKey(s) \in Nat
  BY SchedFields, MinKeyFacts DEF Sound, Ordered
<1>1. CASE s.state[t] = "RUNNING"
  <2>1. Wake(s, t) = s
    BY <1>1 DEF Wake
  <2> QED BY <1>1, <2>1 DEF Rises, Fronted
<1>2. CASE s.state[t] = "WAITING"
  <2> DEFINE k == s.key[t] + MinKey(s)
             w == Queued(Set(s, t, "RUNNING", k), t)
  <2>1. Wake(s, t) = w
    BY <1>2 DEF Wake, Set
  <2>2. k \in Nat /\ MinKey(s) <= k
    BY <1>0
  <2> HIDE DEF k
  <2>3. Becomes(w, s, t, "RUNNING") /\ Fronted(w, s)
    BY <2>2, <1>2, JoinsQueue
  <2> HIDE DEF w
  <2>4. w.state = [s.state EXCEPT ![t] = "RUNNING"] /\ Sound(w)
    BY <2>3 DEF Becomes
  <2>5. w.state[t] = "RUNNING" /\ \A u \in Task : u # t => w.state[u] = s.state[u]
    BY ONLY <2>4, <1>0, t \in Task
  <2> QED BY ONLY <2>1, <2>3, <2>4, <2>5, <1>2 DEF Rises
<1> QED BY <1>0, <1>1, <1>2 DEF States

\* Started: a stopped task.
LEMMA StartedFacts ==
    ASSUME NEW s, Sound(s), NEW t \in Task, s.state[t] = "STOPPED"
    PROVE  Becomes(Started(s, t), s, t, "RUNNING") /\ Fronted(Started(s, t), s)
<1> DEFINE k == Priority[t] + MinKey(s)
<1>1. k \in Nat /\ MinKey(s) <= k
  <2>1. MinKey(s) \in Nat /\ Priority[t] \in Nat
    BY MinKeyFacts, TasksAssumption DEF Sound
  <2> QED BY <2>1
<1>2. Started(s, t) = Queued(Set(s, t, "RUNNING", k), t)
  BY DEF Started, Set
<1> HIDE DEF k
<1>3. Becomes(Queued(Set(s, t, "RUNNING", k), t), s, t, "RUNNING")
      /\ Fronted(Queued(Set(s, t, "RUNNING", k), t), s)
  BY <1>1, JoinsQueue
<1> QED BY ONLY <1>2, <1>3

\* v is s without t in the queue.
Left(v, s, t, x) == Ordered(v, Running(s) \ {t}) /\ v.state = [s.state EXCEPT ![t] = x]

\* A running task that leaves the queue with a new key.
LEMMA LeavesQueue ==
    ASSUME NEW s, Sound(s), NEW t \in Running(s), NEW x \in States, NEW k \in Nat
    PROVE  Left(Set(WithQueue(s, Erased(s.queue, t)), t, x, k), s, t, x)
<1>0. t \in Task /\ t \notin Running(s) \ {t}
  BY DEF Running
<1>1. PICK w : w = WithQueue(s, Erased(s.queue, t))
  OBVIOUS
<1>2. Requeued(w, s, Running(s) \ {t})
  BY <1>1, ErasedOrdered DEF Sound
<1>3. PICK R : R = Running(s) \ {t}
  OBVIOUS
<1>4. Ordered(w, R) /\ w.state = s.state /\ t \in Task /\ t \notin R
  BY <1>0, <1>2, <1>3 DEF Requeued
<1> DEFINE v == Set(w, t, x, k)
<1>50. Ordered(v, R)
  BY <1>4, SetOrdered
<1>51. v.state = [w.state EXCEPT ![t] = x]
  <2>1. w \in Scheds
    BY <1>4 DEF Ordered
  <2> QED BY <1>4, <2>1 DEF Set, Scheds
<1>5. Ordered(v, R) /\ v.state = [w.state EXCEPT ![t] = x]
  BY <1>50, <1>51
<1> HIDE DEF v
<1>6. Left(v, s, t, x)
  BY ONLY <1>3, <1>4, <1>5 DEF Left
<1> QED BY <1>1, <1>6 DEF v

\* Parked and Stopped.
LEMMA ParkedFacts ==
    ASSUME NEW s, Sound(s), NEW t \in Task, s.state[t] = "RUNNING"
    PROVE  /\ Becomes(Parked(s, t), s, t, "WAITING")
           /\ Becomes(Stopped(s, t), s, t, "STOPPED")
<1> DEFINE v(x) == Set(WithQueue(s, Erased(s.queue, t)), t, x, Priority[t])
<1>0. s \in Scheds /\ t \in Running(s) /\ Priority[t] \in Nat
  BY TasksAssumption DEF Sound, Ordered, Running
<1>1. ASSUME NEW x \in States, x # "RUNNING" PROVE Becomes(v(x), s, t, x)
  <2> DEFINE w == v(x)
  <2>0. Left(w, s, t, x)
    BY <1>0, LeavesQueue
  <2> HIDE DEF w
  <2>1. Ordered(w, Running(s) \ {t}) /\ w.state = [s.state EXCEPT ![t] = x]
    BY <2>0 DEF Left
  <2>2. Running(w) = Running(s) \ {t}
    BY <1>0, <1>1, <2>1, RunningSet
  <2>3. Becomes(w, s, t, x)
    BY ONLY <2>1, <2>2 DEF Becomes, Sound
  <2> QED BY <2>3 DEF w
<1>2. Parked(s, t) = v("WAITING") /\ Stopped(s, t) = v("STOPPED")
  BY <1>0 DEF Parked, Stopped, Set, WithQueue, Scheds
<1> HIDE DEF v
<1> QED BY <1>1, <1>2 DEF States

\* Switched.
LEMMA SwitchedFacts ==
    ASSUME NEW s, Sound(s), NEW t \in Task, s.state[t] = "RUNNING", NEW n \in Nat
    PROVE  Sound(Switched(s, t, n)) /\ Switched(s, t, n).state = s.state
<1> DEFINE k == s.key[t] + n * Priority[t]
           v == Set(WithQueue(s, Erased(s.queue, t)), t, "RUNNING", k)
           w == Queued(v, t)
<1>0. s \in Scheds /\ t \in Running(s) /\ Priority[t] \in Nat /\ s.key[t] \in Nat
      /\ s.state \in [Task -> States]
  BY TasksAssumption, SchedFields DEF Sound, Ordered, Running
<1>1. k \in Nat
  <2>1. n * Priority[t] \in Nat
    BY <1>0
  <2> QED BY <1>0, <2>1
<1>2. Switched(s, t, n) = w
  <2>1. [s EXCEPT !.key[t] = @ + n * Priority[t], !.queue = Erased(@, t)] = v
    <3> DEFINE e == Erased(s.queue, t)
    <3>1. v = [s EXCEPT !.queue = e, !.state[t] = "RUNNING", !.key[t] = k]
      BY <1>0 DEF Set, WithQueue, Scheds
    <3> HIDE DEF e, k, v
    <3>2. [s.state EXCEPT ![t] = "RUNNING"] = s.state
      BY <1>0
    <3> QED BY <1>0, <3>1, <3>2 DEF Scheds, e, k
  <2> HIDE DEF v
  <2> QED BY ONLY <2>1 DEF Switched, w
<1> HIDE DEF k
<1>30. Left(v, s, t, "RUNNING")
  <2>1. "RUNNING" \in States
    BY DEF States
  <2> QED BY <1>0, <1>1, <2>1, LeavesQueue
<1> HIDE DEF v
<1>3. Ordered(v, Running(s) \ {t}) /\ v.state = [s.state EXCEPT ![t] = "RUNNING"]
  BY <1>30 DEF Left
<1>4. v.state = s.state
  BY <1>0, <1>3
<1>5. Requeued(w, v, (Running(s) \ {t}) \cup {t})
  BY <1>3, QueuedOrdered
<1> HIDE DEF w
<1>6. (Running(s) \ {t}) \cup {t} = Running(s)
  BY <1>0
<1>7. w.state = s.state /\ Ordered(w, Running(s))
  BY <1>4, <1>5, <1>6 DEF Requeued
<1>8. Running(w) = Running(s)
  BY <1>7 DEF Running
<1> QED BY ONLY <1>2, <1>7, <1>8 DEF Sound

\* Relative: the same amount off every key of the queue.
LEMMA RelativeFacts ==
    ASSUME NEW s, Sound(s)
    PROVE  /\ Sound(Relative(s)) /\ Relative(s).state = s.state
           /\ Relative(s).queue = s.queue
<1> DEFINE m == MinKey(s)
           q == s.queue
           f == [t \in Task |-> IF s.state[t] = "RUNNING" THEN s.key[t] - m ELSE s.key[t]]
           r == [s EXCEPT !.key = f]
<1>0. /\ s \in Scheds /\ s.key \in [Task -> Nat] /\ Ordered(s, Running(s))
      /\ m \in Nat /\ \A t \in Running(s) : m <= s.key[t]
  BY SchedFields, MinKeyFacts DEF Sound, Ordered
<1>1. Relative(s) = r
  BY DEF Relative
<1> HIDE DEF m
<1>2. f \in [Task -> Nat] /\ \A t \in Running(s) : f[t] = s.key[t] - m
  BY <1>0 DEF Running
<1> HIDE DEF f
<1>3. r \in Scheds /\ r.queue = q /\ r.state = s.state /\ r.key = f
  BY <1>0, <1>2 DEF Scheds
<1> HIDE DEF r, q
<1>4. Holds(q, Running(s)) /\ Once(q) /\ Sorted(q, s.key)
  BY <1>0 DEF Ordered, q
<1>5. Sorted(q, f)
  <2>1. SUFFICES ASSUME NEW i \in 1 .. Len(q), NEW j \in 1 .. Len(q), i < j PROVE f[q[i]] <= f[q[j]]
    BY DEF Sorted
  <2>2. q[i] \in Running(s) /\ q[j] \in Running(s) /\ s.key[q[i]] <= s.key[q[j]]
    BY <1>4, <2>1 DEF Holds, Sorted
  <2>3. s.key[q[i]] \in Nat /\ s.key[q[j]] \in Nat
    BY <2>2, <1>0 DEF Running
  <2> QED BY <2>2, <2>3, <1>0, <1>2
<1>6. Running(r) = Running(s)
  BY <1>3 DEF Running
<1>7. Sound(r)
  BY ONLY <1>3, <1>4, <1>5, <1>6 DEF Sound, Ordered
<1> QED BY ONLY <1>1, <1>3, <1>7 DEF q

-----------------------------------------------------------------------------
(* A poll wakes one task after the other. *)

\* f is the function that AllWoken defines.
IsAfter(f, s, order) ==
    f = [i \in 0 .. Len(order) |-> IF i = 0 THEN s ELSE Wake(f[i - 1], order[i])]

\* There is such a function.
LEMMA AfterExists ==
    ASSUME NEW s, NEW order \in Seq(Task)
    PROVE  \E f : IsAfter(f, s, order)
<1> DEFINE P(f, n) == f = [i \in 0 .. n |-> IF i = 0 THEN s ELSE Wake(f[i - 1], order[i])]
           E(n) == \E f : P(f, n)
           S == {n \in Nat : E(n)}
<1>0. Len(order) \in Nat
  BY LenProperties
<1>1. 0 \in S
  <2>1. P([i \in 0 .. 0 |-> s], 0)
    OBVIOUS
  <2>2. E(0)
    <3> HIDE DEF P
    <3> QED BY <2>1, Zenon
  <2> HIDE DEF E
  <2> QED BY <2>2
<1>2. ASSUME NEW n \in Nat, n \in S PROVE n + 1 \in S
  <2>1. PICK f : P(f, n)
    BY <1>2, Zenon
  <2>2. \A i \in 0 .. n : f[i] = IF i = 0 THEN s ELSE Wake(f[i - 1], order[i])
    BY <2>1
  <2> DEFINE g == [i \in 0 .. n + 1 |-> IF i = n + 1 THEN Wake(f[n], order[n + 1]) ELSE f[i]]
  <2>3. ASSUME NEW i \in 0 .. n + 1
        PROVE  g[i] = IF i = 0 THEN s ELSE Wake(g[i - 1], order[i])
    <3>1. CASE i = n + 1
      <4>1. i # 0 /\ g[i] = Wake(f[n], order[i]) /\ i - 1 = n /\ g[n] = f[n]
        BY <3>1
      <4> HIDE DEF g
      <4> QED BY <4>1
    <3>2. CASE i \in 0 .. n
      <4>1. g[i] = f[i] /\ (i # 0 => g[i - 1] = f[i - 1])
        BY <3>2
      <4> HIDE DEF g
      <4> QED BY <4>1, <2>2, <3>2
    <3> QED BY <3>1, <3>2
  <2>4. P(g, n + 1)
    <3>1. g = [i \in 0 .. n + 1 |-> g[i]]
      OBVIOUS
    <3> HIDE DEF g
    <3> QED BY <2>3, <3>1
  <2>5. E(n + 1)
    <3> HIDE DEF g, P
    <3> QED BY <2>4, Zenon
  <2> HIDE DEF E
  <2> QED BY <2>5
<1>3. Len(order) \in S
  <2> HIDE DEF S
  <2> QED BY <1>0, <1>1, <1>2, SetInduction
<1> QED BY <1>3, Zenon DEF IsAfter

\* The poll wakes live tasks.
LEMMA AllWokenRises ==
    ASSUME NEW s, Sound(s), NEW order \in Seq(Task),
           \A i \in 1 .. Len(order) : s.state[order[i]] # "STOPPED"
    PROVE  Rises(AllWoken(s, order), s)
<1> DEFINE c == CHOOSE f : IsAfter(f, s, order)
           S == {n \in Nat : n > Len(order) \/ Rises(c[n], s)}
<1>0. Len(order) \in Nat /\ \A i \in 1 .. Len(order) : order[i] \in Task
  BY LenProperties, ElementOfSeq
<1>1. IsAfter(c, s, order)
  BY AfterExists
<1>2. AllWoken(s, order) = c[Len(order)]
  BY DEF AllWoken, IsAfter
<1> HIDE DEF c
<1>3. \A i \in 0 .. Len(order) : c[i] = IF i = 0 THEN s ELSE Wake(c[i - 1], order[i])
  BY <1>1 DEF IsAfter
<1>4. 0 \in S
  <2>1. c[0] = s
    BY <1>0, <1>3
  <2>2. Rises(s, s)
    BY DEF Rises, Fronted
  <2> QED BY <2>1, <2>2
<1>5. ASSUME NEW n \in Nat, n \in S PROVE n + 1 \in S
  <2>1. CASE n + 1 > Len(order)
    BY <2>1
  <2>2. CASE n + 1 <= Len(order)
    <3>0. n + 1 \in 1 .. Len(order) /\ n + 1 \in 0 .. Len(order) /\ n + 1 # 0 /\ (n + 1) - 1 = n
      BY <2>2, <1>0
    <3>1. Rises(c[n], s)
      BY <1>5, <2>2, <1>0
    <3> DEFINE t == order[n + 1]
    <3>2. t \in Task /\ s.state[t] # "STOPPED" /\ c[n + 1] = Wake(c[n], t)
      BY <3>0, <1>0, <1>3
    <3> HIDE DEF t
    <3>3. Sound(c[n]) /\ c[n].state[t] # "STOPPED"
      BY <3>1, <3>2 DEF Rises
    <3>4. Rises(Wake(c[n], t), c[n])
      BY <3>2, <3>3, WakeRises
    <3>5. Rises(c[n + 1], s)
      BY <3>1, <3>2, <3>4, RisesTransitive
    <3> QED BY <3>5
  <2> QED BY <2>1, <2>2, <1>0
<1>6. Len(order) \in S
  <2> HIDE DEF S
  <2> QED BY <1>0, <1>4, <1>5, SetInduction
<1> QED BY <1>0, <1>2, <1>6

\* The timer wakes its first task at most.
LEMMA TimerWakeRises ==
    ASSUME NEW s, Sound(s), NEW tree,
           tree # <<>> => Head(tree).task \in Task /\ s.state[Head(tree).task] # "STOPPED"
    PROVE  Rises(TimerWake(s, tree), s)
<1>1. Rises(s, s)
  BY DEF Rises, Fronted
<1>2. CASE tree # <<>> /\ Head(tree).rem = 0
  <2> DEFINE t == Head(tree).task
  <2>1. TimerWake(s, tree) = Wake(s, t) /\ t \in Task /\ s.state[t] # "STOPPED"
    BY <1>2 DEF TimerWake
  <2> HIDE DEF t
  <2> QED BY ONLY <2>1, WakeRises, Sound(s)
<1>3. CASE ~ (tree # <<>> /\ Head(tree).rem = 0)
  BY <1>1, <1>3 DEF TimerWake
<1> QED BY <1>2, <1>3

-----------------------------------------------------------------------------
(* The invariant. *)

Sleepers == [task : Task, rem : 0 .. MaxSleep]

Typed ==
    /\ op \in [Task -> Ops]
    /\ ready \in SUBSET Task /\ leftmost \in SUBSET Task /\ holders \in SUBSET Task
    /\ timers \in Seq(Sleepers)
    /\ locker \in BOOLEAN /\ waiters \in Seq(Task)
    /\ joiner \in [Task -> 0 .. N]

\* The tasks that have not stopped.
Live(s) == {t \in Task : s.state[t] # "STOPPED"}

\* The current task is the first of the queue.
Leads(s, c) == c \in 0 .. N /\ (c # 0 => s.queue # <<>> /\ s.queue[1] = c)

\* A task in a call has not stopped, one that waits is in a call, and the poll finds
\* events of live tasks only.
Alive(st, o, rd) ==
    /\ \A t \in Task : (o[t] # "none" => st[t] # "STOPPED") /\ (st[t] = "WAITING" => o[t] # "none")
    /\ \A t \in rd : st[t] # "STOPPED"

Lockers(o) == {t \in Task : o[t] = "lock"}

\* The stack holds the tasks in a lock call; one task at most holds the mutex, and
\* the first waiter for a free mutex runs.
MutexOk(st, o, l, w, h) ==
    /\ Holds(w, Lockers(o)) /\ Once(w)
    /\ (l = TRUE <=> h # {}) /\ \A a, b \in h : a = b
    /\ l = FALSE /\ w # <<>> => st[w[1]] = "RUNNING"

\* A task that joins another one is in a join call, joins one only, and not itself;
\* when that has stopped, it runs.
JoinOk(st, o, j) ==
    \A t \in Task : j[t] # 0 =>
        /\ o[j[t]] = "join" /\ j[t] # t
        /\ \A u \in Task : j[u] = j[t] => u = t
        /\ st[t] = "STOPPED" => st[j[t]] = "RUNNING"

\* The order of the timer's tree.  Nodes that have expired stay in the order of
\* their expiry.
Before(a, b) == \/ a.rem < b.rem
                \/ a.rem = b.rem /\ (a.rem = 0 \/ a.task < b.task)

\* The tree holds a node of each task in a sleep call.
TimerOk(o, tm) ==
    /\ \A i \in 1 .. Len(tm) : o[tm[i].task] = "sleep"
    /\ \A t \in Task : o[t] = "sleep" => \E i \in 1 .. Len(tm) : tm[i].task = t
    /\ \A i, j \in 1 .. Len(tm) : /\ tm[i].task = tm[j].task => i = j
                                  /\ i < j => Before(tm[i], tm[j])

\* The books for a scheduler s.
Books(s) ==
    /\ Sound(s) /\ total = Cardinality(Live(s)) /\ Leads(s, current)
    /\ Alive(s.state, op, ready)
    /\ MutexOk(s.state, op, locker, waiters, holders)
    /\ JoinOk(s.state, op, joiner)

IInv == Books(sched) /\ Typed /\ TimerOk(op, timers)

-----------------------------------------------------------------------------
(* What a change of one task's state or call leaves in place. *)

\* The first element of a sequence.
LEMMA FirstFacts ==
    ASSUME NEW S, NEW q \in Seq(S), q # <<>>
    PROVE  1 \in 1 .. Len(q) /\ Head(q) = q[1] /\ q[1] \in S
<1>1. Len(q) \in Nat /\ Len(q) # 0
  BY EmptySeq, LenProperties
<1>2. 1 \in 1 .. Len(q)
  BY <1>1
<1> QED BY <1>2, ElementOfSeq, HeadTailProperties

\* g is f but for t.
Only(f, g, t, x) == g[t] = x /\ \A u \in Task : u # t => g[u] = f[u]

\* An update is such a change.
LEMMA OnlyExcept ==
    ASSUME NEW S, NEW f \in [Task -> S], NEW t \in Task, NEW x
    PROVE  Only(f, [f EXCEPT ![t] = x], t, x)
BY DEF Only

\* Some waiting tasks run.
Rise(f, g) == \A u \in Task : g[u] = f[u] \/ (f[u] = "WAITING" /\ g[u] = "RUNNING")

\* Waking tasks disturbs neither the calls nor the mutex nor the joins: what they ask of a
\* state is that a task runs or has not stopped.
LEMMA RiseKeeps ==
    ASSUME NEW st, NEW st2, Rise(st, st2), NEW o, NEW rd \in SUBSET Task,
           NEW l, NEW w \in Seq(Task), NEW h, NEW j \in [Task -> 0 .. N]
    PROVE  /\ Alive(st, o, rd) => Alive(st2, o, rd)
           /\ MutexOk(st, o, l, w, h) => MutexOk(st2, o, l, w, h)
           /\ JoinOk(st, o, j) => JoinOk(st2, o, j)
<1>1. Alive(st, o, rd) => Alive(st2, o, rd)
  BY DEF Rise, Alive
<1>2. ASSUME MutexOk(st, o, l, w, h) PROVE MutexOk(st2, o, l, w, h)
  <2>1. SUFFICES ASSUME l = FALSE, w # <<>> PROVE st2[w[1]] = "RUNNING"
    BY <1>2 DEF MutexOk
  <2>2. st[w[1]] = "RUNNING" /\ w[1] \in Task
    BY <1>2, <2>1, FirstFacts DEF MutexOk
  <2> QED BY <2>2 DEF Rise
<1>3. ASSUME JoinOk(st, o, j) PROVE JoinOk(st2, o, j)
  <2>1. SUFFICES ASSUME NEW t \in Task, j[t] # 0
                 PROVE  /\ o[j[t]] = "join" /\ j[t] # t
                        /\ \A u \in Task : j[u] = j[t] => u = t
                        /\ st2[t] = "STOPPED" => st2[j[t]] = "RUNNING"
    BY DEF JoinOk
  <2>2. /\ o[j[t]] = "join" /\ j[t] # t
        /\ \A u \in Task : j[u] = j[t] => u = t
        /\ st[t] = "STOPPED" => st[j[t]] = "RUNNING"
    BY <1>3, <2>1 DEF JoinOk
  <2>3. j[t] \in Task
    BY <2>1, TasksAssumption DEF Task
  <2> QED BY <2>2, <2>3 DEF Rise
<1> QED BY <1>1, <1>2, <1>3

\* A task that gets a call or leaves one has not stopped, and one that waits is in one.
LEMMA AliveKeeps ==
    ASSUME NEW st, NEW st2, NEW o, NEW o2, NEW rd \in SUBSET Task, NEW t \in Task, NEW x, NEW c,
           Alive(st, o, rd), Only(st, st2, t, x), Only(o, o2, t, c),
           c # "none" => x # "STOPPED", x = "WAITING" => c # "none"
    PROVE  /\ x # "STOPPED" => Alive(st2, o2, rd)
           /\ Alive(st2, o2, rd \ {t})
BY DEF Alive, Only

\* A task that is and stays outside the lock call does not matter to the mutex ...
LEMMA MutexKeeps ==
    ASSUME NEW st, NEW st2, NEW o, NEW o2, NEW l, NEW w \in Seq(Task), NEW h,
           NEW t \in Task, NEW x, NEW c,
           MutexOk(st, o, l, w, h), Only(st, st2, t, x), Only(o, o2, t, c),
           o[t] # "lock", c # "lock"
    PROVE  MutexOk(st2, o2, l, w, h)
<1>1. \A u : u \in Lockers(o2) <=> u \in Lockers(o)
  BY DEF Lockers, Only
<1>2. Lockers(o2) = Lockers(o)
  BY ONLY <1>1, Zenon
<1>3. l = FALSE /\ w # <<>> => st2[w[1]] = "RUNNING"
  <2>1. SUFFICES ASSUME l = FALSE, w # <<>> PROVE st2[w[1]] = "RUNNING"
    OBVIOUS
  <2>2. 1 \in 1 .. Len(w) /\ st[w[1]] = "RUNNING" /\ Holds(w, Lockers(o))
    BY <2>1, FirstFacts DEF MutexOk
  <2>3. w[1] \in Lockers(o)
    BY <2>2 DEF Holds
  <2>4. w[1] # t /\ w[1] \in Task
    BY <2>3 DEF Lockers
  <2> QED BY <2>2, <2>4 DEF Only
<1> QED BY <1>2, <1>3 DEF MutexOk

\* ... one outside the join call not to the joins, if its joiner was woken ...
LEMMA JoinKeeps ==
    ASSUME NEW st, NEW st2, NEW o, NEW o2, NEW j \in [Task -> 0 .. N],
           NEW t \in Task, NEW x, NEW c,
           JoinOk(st, o, j), Only(st, st2, t, x), Only(o, o2, t, c),
           o[t] # "join", c # "join",
           x = "STOPPED" => j[t] = 0 \/ st[j[t]] = "RUNNING"
    PROVE  JoinOk(st2, o2, j)
<1>1. SUFFICES ASSUME NEW u \in Task, j[u] # 0
               PROVE  /\ o2[j[u]] = "join" /\ j[u] # u
                      /\ \A v \in Task : j[v] = j[u] => v = u
                      /\ st2[u] = "STOPPED" => st2[j[u]] = "RUNNING"
  BY DEF JoinOk
<1>2. /\ o[j[u]] = "join" /\ j[u] # u
      /\ \A v \in Task : j[v] = j[u] => v = u
      /\ st[u] = "STOPPED" => st[j[u]] = "RUNNING"
  BY <1>1 DEF JoinOk
<1>3. j[u] \in Task /\ j[u] # t
  <2>1. j[u] \in Task
    BY <1>1, TasksAssumption DEF Task
  <2> QED BY <1>2, <2>1
<1> QED BY <1>1, <1>2, <1>3 DEF Only

\* ... and one outside the sleep call not to the timer.
LEMMA TimerKeeps ==
    ASSUME NEW o, NEW o2, NEW tm \in Seq(Sleepers), NEW t \in Task, NEW c,
           TimerOk(o, tm), Only(o, o2, t, c), o[t] # "sleep", c # "sleep"
    PROVE  TimerOk(o2, tm)
<1>1. \A i \in 1 .. Len(tm) : tm[i].task \in Task
  <2>1. \A i \in 1 .. Len(tm) : tm[i] \in Sleepers
    BY ElementOfSeq
  <2> QED BY <2>1 DEF Sleepers
<1>2. \A i \in 1 .. Len(tm) : o2[tm[i].task] = "sleep"
  BY <1>1 DEF TimerOk, Only
<1>3. \A u \in Task : o2[u] = "sleep" => \E i \in 1 .. Len(tm) : tm[i].task = u
  BY DEF TimerOk, Only
<1> QED BY <1>2, <1>3 DEF TimerOk

-----------------------------------------------------------------------------
(* The mutex. *)

\* A task that waits for the mutex is pushed on the stack.
LEMMA MutexPush ==
    ASSUME NEW st, NEW st2, NEW o, NEW o2, NEW w \in Seq(Task), NEW h, NEW t \in Task,
           MutexOk(st, o, TRUE, w, h), Only(o, o2, t, "lock"), o[t] # "lock"
    PROVE  MutexOk(st2, o2, TRUE, <<t>> \o w, h) /\ <<t>> \o w \in Seq(Task)
<1> DEFINE r == <<t>> \o w
           l == Len(w)
<1>0. Holds(w, Lockers(o)) /\ Once(w) /\ l \in Nat
  BY LenProperties DEF MutexOk
<1>1. r \in Seq(Task) /\ Len(r) = l + 1 /\ r[1] = t /\ \A i \in 1 .. l : r[i + 1] = w[i]
  <2>1. <<t>> \in Seq(Task) /\ Len(<<t>>) = 1 /\ <<t>>[1] = t
    OBVIOUS
  <2>2. /\ r \in Seq(Task) /\ Len(r) = Len(<<t>>) + l
        /\ \A i \in 1 .. Len(<<t>>) + l : r[i] = IF i <= Len(<<t>>) THEN <<t>>[i] ELSE w[i - Len(<<t>>)]
    BY <2>1, ConcatProperties
  <2> HIDE DEF r, l
  <2> QED BY <2>1, <2>2, <1>0
<1> HIDE DEF r
<1>2. ASSUME NEW i \in 1 .. Len(r)
      PROVE  (i = 1 /\ r[i] = t) \/ (i # 1 /\ i - 1 \in 1 .. l /\ r[i] = w[i - 1])
  <2> HIDE DEF l
  <2>1. i = 1 \/ (i - 1 \in 1 .. l /\ (i - 1) + 1 = i)
    BY <1>0, <1>1
  <2> QED BY <2>1, <1>1
<1>3. \A u : u \in Lockers(o2) <=> u \in Lockers(o) \/ u = t
  BY DEF Lockers, Only
<1>4. \A i \in 1 .. l : w[i] # t
  BY <1>0 DEF Holds, Lockers
<1>5. Holds(r, Lockers(o2))
  <2>1. ASSUME NEW i \in 1 .. Len(r) PROVE r[i] \in Lockers(o2)
    BY <1>0, <1>2, <1>3 DEF Holds
  <2>2. ASSUME NEW u \in Lockers(o2) PROVE \E i \in 1 .. Len(r) : r[i] = u
    <3>1. CASE u = t
      <4>1. 1 \in 1 .. Len(r)
        BY <1>0, <1>1
      <4> QED BY <3>1, <4>1, <1>1
    <3>2. CASE u \in Lockers(o)
      <4>1. PICK i \in 1 .. l : w[i] = u
        BY <3>2, <1>0 DEF Holds
      <4>2. i + 1 \in 1 .. Len(r)
        BY <1>0, <1>1
      <4> QED BY <4>1, <4>2, <1>1
    <3> QED BY <3>1, <3>2, <1>3
  <2> QED BY <2>1, <2>2 DEF Holds
<1>6. Once(r)
  <2>1. SUFFICES ASSUME NEW i \in 1 .. Len(r), NEW k \in 1 .. Len(r), r[i] = r[k] PROVE i = k
    BY DEF Once
  <2>2. \A x, y \in 1 .. l : w[x] = w[y] => x = y
    BY <1>0 DEF Once
  <2>3. i \in Nat /\ k \in Nat
    OBVIOUS
  <2> HIDE DEF l
  <2> QED BY ONLY <2>1, <2>2, <2>3, <1>2, <1>4
<1> QED BY <1>1, <1>5, <1>6 DEF MutexOk, r

\* The first waiter takes the mutex.
LEMMA MutexPop ==
    ASSUME NEW st, NEW o, NEW o2, NEW w \in Seq(Task), NEW t \in Task, w # <<>>, Head(w) = t,
           MutexOk(st, o, FALSE, w, {}), Only(o, o2, t, "none")
    PROVE  MutexOk(st, o2, TRUE, Tail(w), {t}) /\ Tail(w) \in Seq(Task)
<1> DEFINE r == Tail(w)
           l == Len(w)
<1>0. Holds(w, Lockers(o)) /\ Once(w) /\ l \in Nat /\ 1 \in 1 .. l /\ w[1] = t
  BY LenProperties, FirstFacts DEF MutexOk
<1>1. r \in Seq(Task) /\ Len(r) = l - 1 /\ \A i \in 1 .. Len(r) : r[i] = w[i + 1]
  BY HeadTailProperties
<1> HIDE DEF r
<1>2. \A u : u \in Lockers(o2) <=> u \in Lockers(o) /\ u # t
  BY DEF Lockers, Only
<1>3. \A x, y \in 1 .. l : w[x] = w[y] => x = y
  BY <1>0 DEF Once
<1>4. ASSUME NEW i \in 1 .. Len(r) PROVE i + 1 \in 1 .. l /\ i + 1 # 1 /\ r[i] = w[i + 1]
  BY <1>0, <1>1
<1>5. Holds(r, Lockers(o2))
  <2>1. ASSUME NEW i \in 1 .. Len(r) PROVE r[i] \in Lockers(o2)
    <3>1. w[i + 1] # w[1] /\ w[i + 1] \in Lockers(o)
      BY <1>0, <1>3, <1>4 DEF Holds
    <3> QED BY <3>1, <1>0, <1>2, <1>4
  <2>2. ASSUME NEW u \in Lockers(o2) PROVE \E i \in 1 .. Len(r) : r[i] = u
    <3>1. PICK i \in 1 .. l : w[i] = u
      BY <1>0, <1>2 DEF Holds
    <3>2. i # 1
      BY <1>0, <1>2, <3>1
    <3>3. i - 1 \in 1 .. Len(r) /\ (i - 1) + 1 = i
      BY <1>0, <1>1, <3>2
    <3>4. r[i - 1] = u
      BY <1>1, <3>1, <3>3
    <3> QED BY <3>3, <3>4
  <2> QED BY <2>1, <2>2 DEF Holds
<1>6. Once(r)
  <2>1. SUFFICES ASSUME NEW i \in 1 .. Len(r), NEW k \in 1 .. Len(r), r[i] = r[k] PROVE i = k
    BY DEF Once
  <2>2. i + 1 = k + 1
    BY <2>1, <1>3, <1>4
  <2> QED BY <2>2
<1>7. MutexOk(st, o2, TRUE, r, {t})
  BY <1>5, <1>6 DEF MutexOk
<1> QED BY <1>1, <1>7 DEF r

-----------------------------------------------------------------------------
(* Joins. *)

\* t starts to join u, which has not stopped.
LEMMA JoinStarts ==
    ASSUME NEW st, NEW st2, NEW o, NEW o2, NEW j \in [Task -> 0 .. N],
           NEW t \in Task, NEW u \in Task, u # t, j[u] = 0, st[u] # "STOPPED",
           JoinOk(st, o, j), Only(st, st2, t, "WAITING"), Only(o, o2, t, "join"), o[t] # "join"
    PROVE  JoinOk(st2, o2, [j EXCEPT ![u] = t]) /\ [j EXCEPT ![u] = t] \in [Task -> 0 .. N]
<1> DEFINE i == [j EXCEPT ![u] = t]
<1>0. i \in [Task -> 0 .. N] /\ i[u] = t /\ \A v \in Task : v # u => i[v] = j[v]
  BY TasksAssumption DEF Task
<1> HIDE DEF i
<1>1. ASSUME NEW v \in Task, j[v] # 0 PROVE j[v] \in Task /\ j[v] # t
  <2>1. j[v] \in Task
    BY <1>1, TasksAssumption DEF Task
  <2> QED BY <1>1, <2>1 DEF JoinOk
<1>2. t # 0
  BY DEF Task
<1>3. SUFFICES ASSUME NEW v \in Task, i[v] # 0
               PROVE  /\ o2[i[v]] = "join" /\ i[v] # v
                      /\ \A z \in Task : i[z] = i[v] => z = v
                      /\ st2[v] = "STOPPED" => st2[i[v]] = "RUNNING"
  BY <1>0 DEF JoinOk, i
<1>4. CASE v = u
  <2>1. \A z \in Task : i[z] = i[v] => z = v
    BY <1>0, <1>1, <1>2, <1>4
  <2>2. st2[u] = st[u]
    BY DEF Only
  <2> QED BY <1>0, <1>4, <2>1, <2>2 DEF Only
<1>5. CASE v # u
  <2>1. /\ i[v] = j[v] /\ j[v] \in Task /\ j[v] # t
    BY <1>0, <1>1, <1>3, <1>5
  <2>2. /\ o[j[v]] = "join" /\ j[v] # v /\ (\A z \in Task : j[z] = j[v] => z = v)
        /\ (st[v] = "STOPPED" => st[j[v]] = "RUNNING")
    BY <1>3, <2>1 DEF JoinOk
  <2>3. \A z \in Task : i[z] = i[v] => z = v
    BY <1>0, <2>1, <2>2
  <2> QED BY <2>1, <2>2, <2>3 DEF Only
<1> QED BY <1>4, <1>5

\* t, which joins u, waits again: u has not stopped.
LEMMA JoinWaits ==
    ASSUME NEW st, NEW st2, NEW o, NEW j \in [Task -> 0 .. N],
           NEW t \in Task, NEW u \in Task, j[u] = t, st[u] # "STOPPED",
           JoinOk(st, o, j), Only(st, st2, t, "WAITING")
    PROVE  JoinOk(st2, o, j)
<1>1. SUFFICES ASSUME NEW v \in Task, j[v] # 0
               PROVE  st2[v] = "STOPPED" => st2[j[v]] = "RUNNING"
  BY DEF JoinOk
<1>2. t # 0 /\ j[v] \in Task
  BY <1>1, TasksAssumption DEF Task
<1>3. /\ \A z \in Task : j[z] = j[u] => z = u
      /\ st[v] = "STOPPED" => st[j[v]] = "RUNNING"
  BY <1>1, <1>2 DEF JoinOk
<1> QED BY <1>2, <1>3 DEF Only

\* t has joined u.
LEMMA JoinEnds ==
    ASSUME NEW st, NEW o, NEW o2, NEW j \in [Task -> 0 .. N],
           NEW t \in Task, NEW u \in Task, j[u] = t, JoinOk(st, o, j), Only(o, o2, t, "none")
    PROVE  JoinOk(st, o2, [j EXCEPT ![u] = 0]) /\ [j EXCEPT ![u] = 0] \in [Task -> 0 .. N]
<1> DEFINE i == [j EXCEPT ![u] = 0]
<1>0. i \in [Task -> 0 .. N] /\ i[u] = 0 /\ \A v \in Task : v # u => i[v] = j[v]
  BY TasksAssumption DEF Task
<1> HIDE DEF i
<1>1. t # 0 /\ \A z \in Task : j[z] = t => z = u
  <2>1. t # 0
    BY DEF Task
  <2> QED BY <2>1 DEF JoinOk
<1>2. SUFFICES ASSUME NEW v \in Task, i[v] # 0
               PROVE  /\ o2[i[v]] = "join" /\ i[v] # v
                      /\ \A z \in Task : i[z] = i[v] => z = v
                      /\ st[v] = "STOPPED" => st[i[v]] = "RUNNING"
  BY <1>0 DEF JoinOk, i
<1>3. v # u /\ i[v] = j[v] /\ j[v] # t
  BY <1>0, <1>1, <1>2
<1>4. j[v] \in Task
  BY <1>2, <1>3, TasksAssumption DEF Task
<1>5. /\ o[j[v]] = "join" /\ j[v] # v /\ (\A z \in Task : j[z] = j[v] => z = v)
      /\ (st[v] = "STOPPED" => st[j[v]] = "RUNNING")
  BY <1>2, <1>3 DEF JoinOk
<1>6. \A z \in Task : i[z] = i[v] => z = v
  BY <1>0, <1>2, <1>3, <1>5
<1> QED BY <1>3, <1>4, <1>5, <1>6 DEF Only

-----------------------------------------------------------------------------
(* The timer. *)

\* The fields of a node.
LEMMA SleeperFields ==
    ASSUME NEW tm \in Seq(Sleepers)
    PROVE  /\ Len(tm) \in Nat /\ DOMAIN tm = 1 .. Len(tm)
           /\ \A i \in 1 .. Len(tm) : /\ tm[i] \in Sleepers /\ tm[i].task \in Task /\ tm[i].task \in Int
                                      /\ tm[i].rem \in Nat /\ tm[i].rem <= MaxSleep
<1>1. \A i \in 1 .. Len(tm) : tm[i] \in Sleepers
  BY ElementOfSeq
<1>2. (\A t \in Task : t \in Int) /\ MaxSleep \in Nat
  BY TasksAssumption DEF Task
<1>3. ASSUME NEW x \in Sleepers
      PROVE  x.task \in Task /\ x.task \in Int /\ x.rem \in Nat /\ x.rem <= MaxSleep
  <2>1. x.task \in Task /\ x.rem \in 0 .. MaxSleep
    BY DEF Sleepers
  <2>2. x.task \in Int
    BY ONLY <1>2, <2>1, Zenon
  <2>3. x.rem \in Nat /\ x.rem <= MaxSleep
    BY ONLY <1>2, <2>1
  <2> QED BY ONLY <2>1, <2>2, <2>3
<1>4. Len(tm) \in Nat /\ DOMAIN tm = 1 .. Len(tm)
  BY LenProperties
<1> QED BY ONLY <1>1, <1>3, <1>4

\* The elements of a tree with a node more.
Nodes(r, q, n, e) ==
    \A i \in 1 .. Len(r) :
       \/ i \in 1 .. n /\ i \in 1 .. Len(q) /\ r[i] = q[i]
       \/ i = n + 1 /\ r[i] = e
       \/ i > n + 1 /\ i - 1 \in n + 1 .. Len(q) /\ i - 1 \in 1 .. Len(q) /\ r[i] = q[i - 1]

\* They are where they were, one place further on behind the new one.
LEMMA HasAtNodes ==
    ASSUME NEW S, NEW q \in Seq(S), NEW n \in 0 .. Len(q), NEW e, NEW r, HasAt(r, q, n, e)
    PROVE  /\ Nodes(r, q, n, e)
           /\ n + 1 \in 1 .. Len(r) /\ r[n + 1] = e
           /\ \A i \in 1 .. Len(q) : \E k \in 1 .. Len(r) : r[k] = q[i]
<1> DEFINE l == Len(q)
<1>0. l \in Nat /\ n \in Nat /\ n <= l
  BY LenProperties
<1>1. /\ Len(r) = l + 1 /\ r[n + 1] = e /\ \A i \in 1 .. n : r[i] = q[i]
      /\ \A i \in n + 1 .. l : r[i + 1] = q[i]
  BY DEF HasAt
<1>6. Len(q) = l
  OBVIOUS
<1> HIDE DEF l
<1>2. ASSUME NEW i \in 1 .. Len(r)
      PROVE  \/ i \in 1 .. n /\ i \in 1 .. l /\ r[i] = q[i]
             \/ i = n + 1 /\ r[i] = e
             \/ i > n + 1 /\ i - 1 \in n + 1 .. l /\ i - 1 \in 1 .. l /\ r[i] = q[i - 1]
  <2>1. \/ i \in 1 .. n /\ i \in 1 .. l
        \/ i = n + 1
        \/ i > n + 1 /\ i - 1 \in n + 1 .. l /\ i - 1 \in 1 .. l /\ (i - 1) + 1 = i
    BY <1>0, <1>1
  <2> QED BY ONLY <2>1, <1>1
<1>3. n + 1 \in 1 .. Len(r)
  BY <1>0, <1>1
<1>4. ASSUME NEW i \in 1 .. l PROVE \E k \in 1 .. Len(r) : r[k] = q[i]
  <2>1. CASE i \in 1 .. n
    <3>1. i \in 1 .. Len(r)
      BY <1>0, <1>1
    <3> QED BY <3>1, <2>1, <1>1
  <2>2. CASE i \in n + 1 .. l
    <3>1. i + 1 \in 1 .. Len(r) /\ r[i + 1] = q[i]
      BY <2>2, <1>0, <1>1
    <3> QED BY <3>1
  <2> QED BY <2>1, <2>2, <1>0
<1>5. Nodes(r, q, n, e)
  BY ONLY <1>2, <1>6 DEF Nodes
<1> QED BY ONLY <1>1, <1>3, <1>4, <1>5, <1>6

\* A task that goes to sleep: behind the nodes that expire before it, and before those
\* that expire after it.
LEMMA TimerInserts ==
    ASSUME timers \in Seq(Sleepers), NEW o, NEW o2, NEW t \in Task, NEW ms \in 1 .. MaxSleep,
           TimerOk(o, timers), Only(o, o2, t, "sleep"), o[t] # "sleep"
    PROVE  /\ InsertAt(timers, TimerPos(t, ms), [task |-> t, rem |-> ms]) \in Seq(Sleepers)
           /\ TimerOk(o2, InsertAt(timers, TimerPos(t, ms), [task |-> t, rem |-> ms]))
<1> DEFINE q == timers
           l == Len(q)
           K == {i \in DOMAIN timers : \/ timers[i].rem < ms
                                       \/ timers[i].rem = ms /\ timers[i].task < t}
           n == Cardinality(K)
           e == [task |-> t, rem |-> ms]
           r == InsertAt(q, n + 1, e)
           Low(i) == q[i].rem < ms \/ (q[i].rem = ms /\ q[i].task < t)
<1>0. /\ l \in Nat /\ DOMAIN q = 1 .. l /\ ms \in Nat /\ 1 <= ms /\ ms <= MaxSleep /\ t \in Int
      /\ \A i \in 1 .. l : /\ q[i] \in Sleepers /\ q[i].task \in Task /\ q[i].task \in Int
                           /\ q[i].rem \in Nat /\ q[i].rem <= MaxSleep
  BY SleeperFields, TasksAssumption DEF Task
<1>1. /\ \A i \in 1 .. l : o[q[i].task] = "sleep"
      /\ \A u \in Task : o[u] = "sleep" => \E i \in 1 .. l : q[i].task = u
      /\ \A i, j \in 1 .. l : /\ q[i].task = q[j].task => i = j
                              /\ i < j => Before(q[i], q[j])
  BY DEF TimerOk
<1>2. \A i : i \in K <=> i \in 1 .. l /\ Low(i)
  BY <1>0
<1>3. TimerPos(t, ms) = 1 + n
  BY DEF TimerPos
<1>4. e \in Sleepers /\ e.task = t /\ e.rem = ms
  BY <1>0, TasksAssumption DEF Sleepers
<1> HIDE DEF q, l, e
<1>5. ASSUME NEW i \in 1 .. l, NEW j \in 1 .. l, j < i, Low(i) PROVE Low(j)
  <2>1. Before(q[j], q[i])
    BY <1>1, <1>5
  <2> QED BY ONLY <2>1, <1>0, <1>5 DEF Before
<1>6. n \in 0 .. l /\ K = 1 .. n
  <2>1. \A i \in K : \A j \in 1 .. i : j \in K
    <3>1. SUFFICES ASSUME NEW i \in K, NEW j \in 1 .. i PROVE j \in K
      OBVIOUS
    <3> HIDE DEF K, Low
    <3>2. i \in 1 .. l /\ Low(i)
      BY <1>2
    <3>3. j \in 1 .. l /\ (j < i \/ j = i)
      BY <3>2, <1>0
    <3> QED BY <3>2, <3>3, <1>2, <1>5
  <2>2. K \in SUBSET (1 .. l)
    <3> HIDE DEF K, Low
    <3> QED BY <1>2
  <2> HIDE DEF K
  <2> QED BY <2>1, <2>2, <1>0, PrefixInterval
<1> HIDE DEF n, K, Low
<1>7. n \in Nat /\ 1 + n = n + 1
  BY <1>6
<1>8. r \in Seq(Sleepers) /\ HasAt(r, q, n, e)
  <2>1. q \in Seq(Sleepers) /\ l = Len(q)
    BY DEF q, l
  <2> QED BY <2>1, <1>4, <1>6, InsertFacts
<1> HIDE DEF r
<1>9. /\ Nodes(r, q, n, e)
      /\ n + 1 \in 1 .. Len(r) /\ r[n + 1] = e
      /\ \A i \in 1 .. l : \E k \in 1 .. Len(r) : r[k] = q[i]
  <2>1. q \in Seq(Sleepers) /\ l = Len(q)
    BY DEF q, l
  <2> QED BY <2>1, <1>6, <1>8, HasAtNodes
<1>10. ASSUME NEW i \in 1 .. Len(r)
       PROVE  \/ i \in 1 .. n /\ i \in 1 .. l /\ r[i] = q[i]
              \/ i = n + 1 /\ r[i] = e
              \/ i > n + 1 /\ i - 1 \in n + 1 .. l /\ i - 1 \in 1 .. l /\ r[i] = q[i - 1]
  BY <1>9 DEF Nodes, l
<1>11. \A i \in 1 .. l : q[i].task # t /\ o2[q[i].task] = "sleep"
  <2>1. SUFFICES ASSUME NEW i \in 1 .. l PROVE q[i].task # t /\ o2[q[i].task] = "sleep"
    OBVIOUS
  <2>2. q[i].task \in Task /\ o[q[i].task] = "sleep"
    BY <1>0, <1>1
  <2> QED BY ONLY <2>2, Only(o, o2, t, "sleep"), o[t] # "sleep" DEF Only
\* What lies before the new node, and what behind it.
<1>12. ASSUME NEW i \in 1 .. n, i \in 1 .. l PROVE Before(q[i], e)
  <2>1. Low(i)
    BY <1>2, <1>6
  <2> QED BY <2>1, <1>4 DEF Low, Before
<1>13. ASSUME NEW i \in n + 1 .. l, i \in 1 .. l PROVE Before(e, q[i])
  <2>1. i \notin 1 .. n
    BY <1>7
  <2>2. ~ Low(i)
    BY <1>2, <1>6, <1>13, <2>1
  <2>3. q[i].task # t /\ q[i].task \in Int /\ q[i].rem \in Nat
    BY <1>0, <1>11, <1>13
  <2> QED BY ONLY <2>2, <2>3, <1>0, <1>4 DEF Low, Before
<1>14. \A i \in 1 .. Len(r) : o2[r[i].task] = "sleep"
  BY <1>4, <1>10, <1>11 DEF Only
<1>15. ASSUME NEW u \in Task, o2[u] = "sleep" PROVE \E i \in 1 .. Len(r) : r[i].task = u
  <2>1. CASE u = t
    BY <2>1, <1>4, <1>9
  <2>2. CASE u # t
    <3>1. PICK i \in 1 .. l : q[i].task = u
      BY <2>2, <1>1, <1>15 DEF Only
    <3>2. PICK k \in 1 .. Len(r) : r[k] = q[i]
      BY <1>9
    <3> QED BY <3>1, <3>2
  <2> QED BY <2>1, <2>2
<1>16. ASSUME NEW i \in 1 .. Len(r), NEW j \in 1 .. Len(r)
       PROVE  (r[i].task = r[j].task => i = j) /\ (i < j => Before(r[i], r[j]))
  <2>0. i \in Nat /\ j \in Nat
    OBVIOUS
  <2>1. \A x, y \in 1 .. l : (q[x].task = q[y].task => x = y) /\ (x < y => Before(q[x], q[y]))
    BY <1>1
  <2>2. CASE i \in 1 .. n /\ i \in 1 .. l /\ r[i] = q[i]
    <3>1. CASE j \in 1 .. n /\ j \in 1 .. l /\ r[j] = q[j]
      BY ONLY <3>1, <2>1, <2>2
    <3>2. CASE j = n + 1 /\ r[j] = e
      <4>1. Before(q[i], e) /\ q[i].task # e.task
        BY <2>2, <1>4, <1>11, <1>12
      <4> QED BY ONLY <4>1, <3>2, <2>2
    <3>3. CASE j > n + 1 /\ j - 1 \in 1 .. l /\ r[j] = q[j - 1]
      <4>1. i < j - 1
        BY ONLY <3>3, <2>2, <2>0, <1>7
      <4>2. i # j - 1
        BY ONLY <4>1, <2>0
      <4> QED BY ONLY <4>1, <4>2, <3>3, <2>2, <2>1
    <3> QED BY ONLY <3>1, <3>2, <3>3, <1>10, <1>16
  <2>3. CASE i = n + 1 /\ r[i] = e
    <3>1. CASE j \in 1 .. n /\ j \in 1 .. l /\ r[j] = q[j]
      <4>1. ~ (i < j) /\ q[j].task # e.task
        BY <3>1, <2>0, <2>3, <1>4, <1>7, <1>11
      <4> QED BY ONLY <4>1, <3>1, <2>3
    <3>2. CASE j = n + 1
      BY ONLY <3>2, <2>3, <2>0
    <3>3. CASE j - 1 \in n + 1 .. l /\ j - 1 \in 1 .. l /\ r[j] = q[j - 1]
      <4>1. Before(e, q[j - 1]) /\ q[j - 1].task # e.task
        BY <3>3, <1>4, <1>11, <1>13
      <4> QED BY ONLY <4>1, <3>3, <2>3
    <3> QED BY ONLY <3>1, <3>2, <3>3, <1>10, <1>16
  <2>4. CASE i > n + 1 /\ i - 1 \in 1 .. l /\ r[i] = q[i - 1]
    <3>1. CASE j \in 1 .. n /\ j \in 1 .. l /\ r[j] = q[j]
      <4>1. ~ (i < j) /\ i - 1 # j
        BY ONLY <3>1, <2>0, <2>4, <1>7
      <4> QED BY ONLY <4>1, <3>1, <2>4, <2>1
    <3>2. CASE j = n + 1 /\ r[j] = e
      <4>1. ~ (i < j) /\ q[i - 1].task # e.task
        BY <3>2, <2>0, <2>4, <1>4, <1>7, <1>11
      <4> QED BY ONLY <4>1, <3>2, <2>4
    <3>3. CASE j - 1 \in 1 .. l /\ r[j] = q[j - 1]
      <4>1. (i < j => i - 1 < j - 1) /\ (i - 1 = j - 1 => i = j)
        BY ONLY <2>0
      <4> QED BY ONLY <4>1, <3>3, <2>4, <2>1
    <3> QED BY ONLY <3>1, <3>2, <3>3, <1>10, <1>16
  <2> QED BY ONLY <2>2, <2>3, <2>4, <1>10, <1>16
<1>17. TimerOk(o2, r)
  BY ONLY <1>14, <1>15, <1>16 DEF TimerOk
<1>18. InsertAt(timers, TimerPos(t, ms), [task |-> t, rem |-> ms]) = r
  BY ONLY <1>3, <1>7, Zenon DEF r, e, q
<1> QED BY ONLY <1>8, <1>17, <1>18

\* The tree without the node of t.
Rest(tm, t) == RemoveAt(tm, CHOOSE i \in DOMAIN tm : tm[i].task = t)

\* A task that has slept takes its node out.
LEMMA TimerRemoves ==
    ASSUME NEW tm \in Seq(Sleepers), NEW o, NEW o2, NEW t \in Task,
           TimerOk(o, tm), Only(o, o2, t, "none"), o[t] = "sleep"
    PROVE  Rest(tm, t) \in Seq(Sleepers) /\ TimerOk(o2, Rest(tm, t))
<1> DEFINE l == Len(tm)
           k == CHOOSE i \in DOMAIN tm : tm[i].task = t
           r == RemoveAt(tm, k)
<1>0. /\ l \in Nat /\ DOMAIN tm = 1 .. l
      /\ \A i \in 1 .. l : tm[i] \in Sleepers /\ tm[i].task \in Task
  BY SleeperFields
<1>1. /\ \A i \in 1 .. l : o[tm[i].task] = "sleep"
      /\ \A u \in Task : o[u] = "sleep" => \E i \in 1 .. l : tm[i].task = u
      /\ \A i, j \in 1 .. l : /\ tm[i].task = tm[j].task => i = j
                              /\ i < j => Before(tm[i], tm[j])
  BY DEF TimerOk
<1>2. k \in 1 .. l /\ tm[k].task = t
  <2>1. \E i \in DOMAIN tm : tm[i].task = t
    BY <1>0, <1>1
  <2> HIDE DEF l
  <2>3. k \in DOMAIN tm /\ tm[k].task = t
    BY <2>1
  <2> QED BY <1>0, <2>3
<1> HIDE DEF k
<1>3. r \in Seq(Sleepers) /\ LacksAt(r, tm, k)
  BY <1>2, RemoveFacts
<1> HIDE DEF r
<1>4. /\ Len(r) = l - 1 /\ \A i \in 1 .. k - 1 : r[i] = tm[i]
      /\ \A i \in k .. l - 1 : r[i] = tm[i + 1]
  BY <1>3 DEF LacksAt
<1> DEFINE f(i) == IF i < k THEN i ELSE i + 1
<1> HIDE DEF l
<1>5. ASSUME NEW i \in 1 .. Len(r) PROVE f(i) \in 1 .. l /\ f(i) # k /\ r[i] = tm[f(i)]
  BY <1>0, <1>2, <1>4
<1>6. ASSUME NEW i \in 1 .. Len(r), NEW j \in 1 .. Len(r)
      PROVE  (f(i) = f(j) => i = j) /\ (i < j => f(i) < f(j))
  BY <1>0, <1>2, <1>4
<1>7. ASSUME NEW i \in 1 .. l, i # k PROVE \E j \in 1 .. Len(r) : r[j] = tm[i]
  <2>1. CASE i < k
    BY <2>1, <1>0, <1>2, <1>4
  <2>2. CASE i > k
    <3>1. i - 1 \in k .. l - 1 /\ i - 1 \in 1 .. Len(r) /\ (i - 1) + 1 = i
      BY <2>2, <1>0, <1>2, <1>4
    <3>2. r[i - 1] = tm[i]
      BY <3>1, <1>4
    <3> QED BY <3>1, <3>2
  <2> QED BY <2>1, <2>2, <1>0, <1>2, <1>7
<1> HIDE DEF f
<1>8. ASSUME NEW i \in 1 .. Len(r) PROVE o2[r[i].task] = "sleep"
  <2>1. f(i) \in 1 .. l /\ f(i) # k /\ r[i] = tm[f(i)]
    BY <1>5
  <2>2. tm[f(i)].task # t /\ tm[f(i)].task \in Task /\ o[tm[f(i)].task] = "sleep"
    BY <2>1, <1>0, <1>1, <1>2
  <2> QED BY <2>1, <2>2 DEF Only
<1>9. ASSUME NEW u \in Task, o2[u] = "sleep" PROVE \E j \in 1 .. Len(r) : r[j].task = u
  <2>1. u # t /\ o[u] = "sleep"
    BY <1>9 DEF Only
  <2>2. PICK i \in 1 .. l : tm[i].task = u
    BY <2>1, <1>1
  <2>3. i # k
    BY <2>1, <2>2, <1>2
  <2>4. PICK j \in 1 .. Len(r) : r[j] = tm[i]
    BY <2>3, <1>7
  <2> QED BY <2>2, <2>4
<1>10. ASSUME NEW i \in 1 .. Len(r), NEW j \in 1 .. Len(r)
       PROVE  (r[i].task = r[j].task => i = j) /\ (i < j => Before(r[i], r[j]))
  <2>1. /\ f(i) \in 1 .. l /\ f(j) \in 1 .. l /\ r[i] = tm[f(i)] /\ r[j] = tm[f(j)]
        /\ (f(i) = f(j) => i = j) /\ (i < j => f(i) < f(j))
    BY <1>5, <1>6
  <2> QED BY ONLY <2>1, <1>1
<1>11. TimerOk(o2, r)
  BY ONLY <1>8, <1>9, <1>10 DEF TimerOk
<1> QED BY <1>3, <1>11 DEF r, k, Rest

\* A millisecond passes.
LEMMA TimerTicks ==
    ASSUME NEW tm \in Seq(Sleepers), NEW o, TimerOk(o, tm),
           NEW r, r = [i \in DOMAIN tm |-> [tm[i] EXCEPT !.rem = IF @ > 0 THEN @ - 1 ELSE 0]]
    PROVE  r \in Seq(Sleepers) /\ TimerOk(o, r)
<1> DEFINE l == Len(tm)
<1>0. /\ l \in Nat /\ DOMAIN tm = 1 .. l
      /\ \A i \in 1 .. l : /\ tm[i] \in Sleepers /\ tm[i].task \in Task /\ tm[i].task \in Int
                           /\ tm[i].rem \in Nat /\ tm[i].rem <= MaxSleep
  BY SleeperFields
<1>1. /\ \A i \in 1 .. l : o[tm[i].task] = "sleep"
      /\ \A u \in Task : o[u] = "sleep" => \E i \in 1 .. l : tm[i].task = u
      /\ \A i, j \in 1 .. l : /\ tm[i].task = tm[j].task => i = j
                              /\ i < j => Before(tm[i], tm[j])
  BY DEF TimerOk
<1> HIDE DEF l
<1>2. ASSUME NEW i \in 1 .. l
      PROVE  /\ r[i] \in Sleepers /\ r[i].task = tm[i].task
             /\ r[i].rem = IF tm[i].rem > 0 THEN tm[i].rem - 1 ELSE 0
  <2>1. r[i] = [tm[i] EXCEPT !.rem = IF tm[i].rem > 0 THEN tm[i].rem - 1 ELSE 0]
    BY <1>0
  <2>2. tm[i] \in [task : Task, rem : 0 .. MaxSleep] /\ tm[i].rem \in Nat /\ tm[i].rem <= MaxSleep
        /\ MaxSleep \in Nat
    BY <1>0, TasksAssumption DEF Sleepers
  <2> QED BY ONLY <2>1, <2>2 DEF Sleepers
<1>3. r \in Seq(Sleepers) /\ Len(r) = l
  <2>1. DOMAIN r = 1 .. l
    BY <1>0
  <2>2. r = [i \in 1 .. l |-> r[i]]
    BY <1>0
  <2>3. r \in [1 .. l -> Sleepers]
    BY <1>2, <2>2
  <2>4. r \in Seq(Sleepers)
    BY <1>0, <2>3, SeqDef
  <2>5. Len(r) \in Nat /\ DOMAIN r = 1 .. Len(r)
    BY <2>4, LenProperties
  <2> QED BY ONLY <1>0, <2>1, <2>4, <2>5
<1>4. ASSUME NEW i \in 1 .. l, NEW j \in 1 .. l, i < j PROVE Before(r[i], r[j])
  <2>1. Before(tm[i], tm[j])
    BY <1>1, <1>4
  <2>2. /\ r[i].task = tm[i].task /\ r[i].rem = IF tm[i].rem > 0 THEN tm[i].rem - 1 ELSE 0
        /\ r[j].task = tm[j].task /\ r[j].rem = IF tm[j].rem > 0 THEN tm[j].rem - 1 ELSE 0
    BY <1>2
  <2>3. tm[i].rem \in Nat /\ tm[j].rem \in Nat
    BY <1>0
  <2> QED BY ONLY <2>1, <2>2, <2>3 DEF Before
<1>5. TimerOk(o, r)
  BY ONLY <1>1, <1>2, <1>3, <1>4 DEF TimerOk
<1> QED BY <1>3, <1>5

-----------------------------------------------------------------------------
(* Steps. *)

\* There are finitely many tasks.
LEMMA TaskFinite == IsFiniteSet(Task) /\ Cardinality(Task) = N
BY FS_Interval, TasksAssumption DEF Task

\* So the tasks that have not stopped can be counted.
LEMMA LiveFinite ==
    ASSUME NEW s
    PROVE  IsFiniteSet(Live(s)) /\ Cardinality(Live(s)) \in 0 .. N
<1>1. Live(s) \subseteq Task
  BY DEF Live
<1>2. IsFiniteSet(Live(s)) /\ Cardinality(Live(s)) <= Cardinality(Task)
  BY <1>1, TaskFinite, FS_Subset
<1> QED BY <1>2, TaskFinite, FS_CardinalityType, TasksAssumption

\* What is known of the current task.
LEMMA CurrentRuns ==
    ASSUME IInv, NEW t \in Task, current = t
    PROVE  sched.state[t] = "RUNNING" /\ sched.queue # <<>> /\ sched.queue[1] = t
<1>1. Sound(sched) /\ Leads(sched, current) /\ t # 0
  BY DEF IInv, Books, Task
<1>2. sched.queue # <<>> /\ sched.queue[1] = t
  BY <1>1 DEF Leads
<1>3. sched.queue \in Seq(Task) /\ Holds(sched.queue, Running(sched))
  BY <1>1, SchedFields DEF Sound, Ordered
<1>4. 1 \in 1 .. Len(sched.queue)
  BY <1>2, <1>3, FirstFacts
<1>5. t \in Running(sched)
  BY <1>2, <1>3, <1>4 DEF Holds
<1> QED BY <1>2, <1>5 DEF Running

\* The states of a sound scheduler.
LEMMA SoundStates ==
    ASSUME NEW s, Sound(s)
    PROVE  s \in Scheds /\ s.state \in [Task -> States]
BY SchedFields DEF Sound, Ordered

\* Waking tasks leaves all books in order.
LEMMA RisesBooks ==
    ASSUME NEW s, NEW r, Books(s), Typed, Rises(r, s)
    PROVE  Books(r)
<1>1. Rise(s.state, r.state) /\ Sound(r) /\ Fronted(r, s)
  BY DEF Rises, Rise
<1>2. Sound(s) /\ Leads(s, current) /\ total = Cardinality(Live(s)) /\ Alive(s.state, op, ready)
      /\ MutexOk(s.state, op, locker, waiters, holders) /\ JoinOk(s.state, op, joiner)
  BY DEF Books
<1>3. ready \in SUBSET Task /\ waiters \in Seq(Task) /\ joiner \in [Task -> 0 .. N]
  BY DEF Typed
<1>4. /\ Alive(r.state, op, ready) /\ MutexOk(r.state, op, locker, waiters, holders)
      /\ JoinOk(r.state, op, joiner)
  BY <1>1, <1>2, <1>3, RiseKeeps
<1>5. \A u : u \in Live(r) <=> u \in Live(s)
  BY <1>1 DEF Live, Rise
<1>6. Live(r) = Live(s)
  BY ONLY <1>5, Zenon
<1>7. Leads(r, current)
  BY <1>1, <1>2 DEF Leads, Fronted
<1> QED BY ONLY <1>1, <1>2, <1>4, <1>6, <1>7 DEF Books

\* A task that runs gives the processor back and waits in a call.
LEMMA ParkStep ==
    ASSUME NEW s, Books(s), Typed, NEW t \in Task, s.state[t] = "RUNNING", NEW c \in Ops, c # "none",
           Leaves(t, c, Parked(s, t)), UNCHANGED total
    PROVE  /\ Sound(sched') /\ total' = Cardinality(Live(sched')) /\ Leads(sched', current')
           /\ Alive(sched'.state, op', ready)
           /\ Only(s.state, sched'.state, t, "WAITING") /\ Only(op, op', t, c)
           /\ op' \in [Task -> Ops]
<1>1. Sound(s) /\ total = Cardinality(Live(s)) /\ Alive(s.state, op, ready)
  BY DEF Books
<1>2. s.state \in [Task -> States]
  BY <1>1, SoundStates
<1>3. sched' = Parked(s, t) /\ current' = 0 /\ op' = [op EXCEPT ![t] = c]
      /\ op \in [Task -> Ops] /\ ready \in SUBSET Task
  BY DEF Leaves, Typed
<1>4. Becomes(Parked(s, t), s, t, "WAITING")
  BY <1>1, ParkedFacts
<1>5. Sound(sched') /\ sched'.state = [s.state EXCEPT ![t] = "WAITING"]
  BY ONLY <1>3, <1>4 DEF Becomes
<1>6. Only(s.state, sched'.state, t, "WAITING")
  BY ONLY <1>2, <1>5, t \in Task DEF Only
<1>7. Only(op, op', t, c) /\ op' \in [Task -> Ops]
  BY <1>3 DEF Only
<1>8. Alive(sched'.state, op', ready)
  <2>1. "WAITING" # "STOPPED"
    OBVIOUS
  <2> QED BY <2>1, <1>1, <1>3, <1>6, <1>7, AliveKeeps
<1>9. \A u : u \in Live(sched') <=> u \in Live(s)
  BY <1>6 DEF Live, Only
<1>10. Live(sched') = Live(s)
  BY ONLY <1>9, Zenon
<1>11. Leads(sched', current')
  BY <1>3, TasksAssumption DEF Leads
<1> QED BY ONLY <1>1, <1>5, <1>6, <1>7, <1>8, <1>10, <1>11, UNCHANGED total

\* The parts of the invariant.
LEMMA Parts ==
    ASSUME IInv
    PROVE  /\ Books(sched) /\ Typed
           /\ Sound(sched) /\ total = Cardinality(Live(sched)) /\ Leads(sched, current)
           /\ Alive(sched.state, op, ready)
           /\ MutexOk(sched.state, op, locker, waiters, holders)
           /\ JoinOk(sched.state, op, joiner) /\ TimerOk(op, timers)
           /\ op \in [Task -> Ops]
           /\ ready \in SUBSET Task /\ leftmost \in SUBSET Task /\ holders \in SUBSET Task
           /\ timers \in Seq(Sleepers)
           /\ locker \in BOOLEAN /\ waiters \in Seq(Task)
           /\ joiner \in [Task -> 0 .. N]
BY DEF IInv, Books, Typed

\* The invariant after a step, from its parts.
LEMMA Whole ==
    ASSUME Sound(sched'), total' = Cardinality(Live(sched')), Leads(sched', current'),
           Alive(sched'.state, op', ready'),
           MutexOk(sched'.state, op', locker', waiters', holders'),
           JoinOk(sched'.state, op', joiner'), TimerOk(op', timers'),
           op' \in [Task -> Ops],
           ready' \in SUBSET Task, leftmost' \in SUBSET Task, holders' \in SUBSET Task,
           timers' \in Seq(Sleepers),
           locker' \in BOOLEAN, waiters' \in Seq(Task),
           joiner' \in [Task -> 0 .. N]
    PROVE  IInv'
BY DEF IInv, Books, Typed

\* Only tasks are woken.
LEMMA WokenStep ==
    ASSUME IInv, Rises(sched', sched), UNCHANGED <<total, current, op, timers, leftmost, syncVars>>,
           ready' \in SUBSET ready
    PROVE  IInv'
<1>1. Books(sched')
  <2>1. Books(sched) /\ Typed
    BY Parts
  <2> QED BY <2>1, RisesBooks
<1>2. Alive(sched'.state, op, ready')
  BY <1>1, Parts DEF Books, Alive
<1>3. ready' \in SUBSET Task
  BY Parts
<1> QED BY <1>1, <1>2, <1>3, Parts, Whole DEF Books, syncVars

\* The kernel polls and picks the first task.
LEMMA PickStep == ASSUME IInv, Pick PROVE IInv'
<1>0. /\ Sound(sched) /\ timers \in Seq(Sleepers) /\ ready \in SUBSET Task
      /\ Alive(sched.state, op, ready) /\ TimerOk(op, timers) /\ Books(sched) /\ Typed
  BY Parts
<1>1. PICK s : /\ Rises(s, sched) /\ sched' = Relative(s) /\ ready' \in SUBSET ready
  <2>1. CASE Len(sched.queue) < total
    <3>1. PICK order \in SetToSeqs(ready) : sched' = Relative(Polled(order)) /\ ready' = {}
      BY <2>1 DEF Pick
    <3>2. order \in [1 .. Cardinality(ready) -> ready]
      BY <3>1 DEF SetToSeqs
    <3>3. Cardinality(ready) \in Nat
      <4>1. IsFiniteSet(Task)
        BY FS_Interval, TasksAssumption DEF Task
      <4>2. IsFiniteSet(ready)
        BY <4>1, <1>0, FS_Subset
      <4> QED BY <4>2, FS_CardinalityType
    <3>4. order \in Seq(ready)
      BY <3>2, <3>3, SeqDef
    <3>5. order \in Seq(Task) /\ \A i \in 1 .. Len(order) : sched.state[order[i]] # "STOPPED"
      <4>1. \A i \in 1 .. Len(order) : order[i] \in ready
        BY <3>4, ElementOfSeq
      <4>2. order \in [1 .. Cardinality(ready) -> Task]
        BY <3>2, <1>0
      <4>3. order \in Seq(Task)
        BY <4>2, <3>3, SeqDef
      <4> QED BY <4>1, <4>3, <1>0 DEF Alive
    <3> DEFINE a == AllWoken(sched, order)
    <3>6. Rises(a, sched)
      BY <3>5, <1>0, AllWokenRises
    <3> HIDE DEF a
    <3>7. Books(a)
      BY <3>6, <1>0, RisesBooks
    <3>8. Sound(a) /\ Alive(a.state, op, ready)
      BY <3>7 DEF Books
    <3>9. timers # <<>> => Head(timers).task \in Task /\ a.state[Head(timers).task] # "STOPPED"
      <4>1. SUFFICES ASSUME timers # <<>>
                     PROVE  Head(timers).task \in Task /\ a.state[Head(timers).task] # "STOPPED"
        OBVIOUS
      <4>2. 1 \in 1 .. Len(timers) /\ Head(timers) = timers[1]
        BY <4>1, <1>0, FirstFacts
      <4>3. timers[1].task \in Task
        BY <4>2, <1>0, SleeperFields
      <4>4. op[timers[1].task] = "sleep"
        BY <4>2, <1>0 DEF TimerOk
      <4> QED BY <4>2, <4>3, <4>4, <3>8 DEF Alive
    <3>10. Rises(TimerWake(a, timers), a)
      BY <3>8, <3>9, TimerWakeRises
    <3>11. Rises(TimerWake(a, timers), sched)
      BY <3>6, <3>10, RisesTransitive
    <3>12. sched' = Relative(TimerWake(a, timers))
      BY <3>1 DEF Polled, a
    <3>13. ready' \in SUBSET ready
      BY <3>1
    <3> QED BY <3>11, <3>12, <3>13
  <2>2. CASE ~ (Len(sched.queue) < total)
    <3>1. sched' = Relative(sched) /\ ready' = ready
      BY <2>2 DEF Pick
    <3>2. Rises(sched, sched)
      BY <1>0 DEF Rises, Fronted
    <3> QED BY <3>1, <3>2
  <2> QED BY <2>1, <2>2
<1>2. Books(s) /\ Sound(s)
  <2>1. Books(s)
    BY <1>0, <1>1, RisesBooks
  <2> QED BY <2>1 DEF Books
<1>3. Sound(sched') /\ sched'.state = s.state /\ sched'.queue = s.queue
  <2>1. Sound(Relative(s)) /\ Relative(s).state = s.state /\ Relative(s).queue = s.queue
    BY <1>2, RelativeFacts
  <2> QED BY <2>1, <1>1
<1>4. Live(sched') = Live(s)
  BY <1>3 DEF Live
<1>5. Leads(sched', current')
  <2>1. sched'.queue # <<>> /\ current' = Head(sched'.queue)
    BY DEF Pick
  <2>2. sched'.queue \in Seq(Task)
    BY <1>3, SoundStates, SchedFields
  <2>3. Head(sched'.queue) = sched'.queue[1] /\ sched'.queue[1] \in Task
    BY <2>1, <2>2, FirstFacts
  <2> QED BY <2>1, <2>3, TasksAssumption DEF Leads, Task
<1>6. UNCHANGED <<total, op, timers, leftmost, syncVars>>
  BY DEF Pick
<1>7. Alive(sched'.state, op', ready')
  BY <1>1, <1>2, <1>3, <1>6 DEF Books, Alive
<1>8. ready' \in SUBSET Task
  BY <1>0, <1>1
<1>9. /\ MutexOk(sched'.state, op', locker', waiters', holders')
      /\ JoinOk(sched'.state, op', joiner') /\ total' = Cardinality(Live(sched'))
  BY <1>2, <1>3, <1>4, <1>6 DEF Books, syncVars
<1> QED BY <1>3, <1>5, <1>6, <1>7, <1>8, <1>9, Parts, Whole DEF syncVars

\* The current task yields and stays runnable.
LEMMA YieldStep ==
    ASSUME IInv, NEW t \in Task, NEW n \in 1 .. MaxRuntime, Yield(t, n)
    PROVE  IInv'
<1>1. sched' = Switched(sched, t, n) /\ current' = 0 /\ op' = [op EXCEPT ![t] = "none"]
      /\ current = t /\ op[t] = "none" /\ UNCHANGED <<total, timeVars, syncVars>>
  BY DEF Yield, User, Leaves
<1>2. sched.state[t] = "RUNNING" /\ n \in Nat /\ Sound(sched)
  BY <1>1, CurrentRuns, Parts, TasksAssumption
<1>3. Sound(sched') /\ sched'.state = sched.state
  BY <1>1, <1>2, SwitchedFacts
<1>4. op' = op
  BY <1>1, Parts
<1>5. Live(sched') = Live(sched)
  BY <1>3 DEF Live
<1>6. Leads(sched', current')
  BY <1>1, TasksAssumption DEF Leads
<1> QED BY <1>1, <1>3, <1>4, <1>5, <1>6, Parts, Whole DEF timeVars, syncVars

\* It waits for a descriptor.
LEMMA WaitIOStep == ASSUME IInv, NEW t \in Task, WaitIO(t) PROVE IInv'
<1>1. Leaves(t, "io", Parked(sched, t)) /\ current = t /\ op[t] = "none"
      /\ UNCHANGED <<total, timeVars, syncVars>> /\ "io" \in Ops /\ UNCHANGED total
  BY DEF WaitIO, User, Ops
<1>2. sched.state[t] = "RUNNING" /\ Books(sched) /\ Typed
  BY <1>1, CurrentRuns, Parts
<1>3. /\ Sound(sched') /\ total' = Cardinality(Live(sched')) /\ Leads(sched', current')
      /\ Alive(sched'.state, op', ready)
      /\ Only(sched.state, sched'.state, t, "WAITING") /\ Only(op, op', t, "io")
      /\ op' \in [Task -> Ops]
  BY <1>1, <1>2, ParkStep
<1>4. MutexOk(sched'.state, op', locker, waiters, holders)
  BY <1>1, <1>3, Parts, MutexKeeps
<1>5. JoinOk(sched'.state, op', joiner)
  BY <1>1, <1>3, Parts, JoinKeeps
<1>6. TimerOk(op', timers)
  BY <1>1, <1>3, Parts, TimerKeeps
<1> QED BY <1>1, <1>3, <1>4, <1>5, <1>6, Parts, Whole DEF timeVars, syncVars

\* The current task returns from a call.
LEMMA ReturnStep ==
    ASSUME IInv, NEW t \in Task, current = t, op' = [op EXCEPT ![t] = "none"]
    PROVE  /\ Alive(sched.state, op', ready) /\ op' \in [Task -> Ops]
           /\ Only(op, op', t, "none") /\ Only(sched.state, sched.state, t, "RUNNING")
<1>1. sched.state[t] = "RUNNING" /\ op \in [Task -> Ops] /\ ready \in SUBSET Task
      /\ Alive(sched.state, op, ready)
  BY CurrentRuns, Parts
<1>2. Only(op, op', t, "none") /\ Only(sched.state, sched.state, t, "RUNNING")
  BY <1>1 DEF Only
<1>3. op' \in [Task -> Ops]
  BY <1>1 DEF Ops
<1>4. Alive(sched.state, op', ready)
  BY <1>1, <1>2 DEF Alive, Only
<1> QED BY <1>2, <1>3, <1>4

\* It was woken.
LEMMA WaitIOReturnsStep == ASSUME IInv, NEW t \in Task, WaitIOReturns(t) PROVE IInv'
<1>1. current = t /\ op[t] = "io" /\ op' = [op EXCEPT ![t] = "none"]
      /\ UNCHANGED <<sched, total, current, timeVars, syncVars>>
  BY DEF WaitIOReturns
<1>2. /\ Alive(sched.state, op', ready) /\ op' \in [Task -> Ops]
      /\ Only(op, op', t, "none") /\ Only(sched.state, sched.state, t, "RUNNING")
  BY <1>1, ReturnStep
<1>3. MutexOk(sched.state, op', locker, waiters, holders)
  BY <1>1, <1>2, Parts, MutexKeeps
<1>4. JoinOk(sched.state, op', joiner)
  BY <1>1, <1>2, Parts, JoinKeeps
<1>5. TimerOk(op', timers)
  BY <1>1, <1>2, Parts, TimerKeeps
<1> QED BY <1>1, <1>2, <1>3, <1>4, <1>5, Parts, Whole DEF timeVars, syncVars

\* It goes to sleep, with a node in the tree.
LEMMA SleepStep ==
    ASSUME IInv, NEW t \in Task, NEW ms \in 1 .. MaxSleep, Sleep(t, ms)
    PROVE  IInv'
<1>1. /\ Leaves(t, "sleep", Parked(sched, t)) /\ current = t /\ op[t] = "none"
      /\ UNCHANGED <<total, ready, syncVars>> /\ "sleep" \in Ops /\ UNCHANGED total
      /\ timers' = InsertAt(timers, TimerPos(t, ms), [task |-> t, rem |-> ms])
      /\ leftmost' \in {leftmost \cup {t}, leftmost}
  BY DEF Sleep, User, Ops
<1>2. sched.state[t] = "RUNNING" /\ Books(sched) /\ Typed
  BY <1>1, CurrentRuns, Parts
<1>3. /\ Sound(sched') /\ total' = Cardinality(Live(sched')) /\ Leads(sched', current')
      /\ Alive(sched'.state, op', ready)
      /\ Only(sched.state, sched'.state, t, "WAITING") /\ Only(op, op', t, "sleep")
      /\ op' \in [Task -> Ops]
  BY <1>1, <1>2, ParkStep
<1>4. MutexOk(sched'.state, op', locker, waiters, holders)
  BY <1>1, <1>3, Parts, MutexKeeps
<1>5. JoinOk(sched'.state, op', joiner)
  BY <1>1, <1>3, Parts, JoinKeeps
<1>6. timers' \in Seq(Sleepers) /\ TimerOk(op', timers')
  <2>1. /\ InsertAt(timers, TimerPos(t, ms), [task |-> t, rem |-> ms]) \in Seq(Sleepers)
        /\ TimerOk(op', InsertAt(timers, TimerPos(t, ms), [task |-> t, rem |-> ms]))
    BY <1>1, <1>3, Parts, TimerInserts
  <2>2. timers' = InsertAt(timers, TimerPos(t, ms), [task |-> t, rem |-> ms])
    BY <1>1
  <2> QED BY ONLY <2>1, <2>2, Zenon
<1>7. leftmost' \in SUBSET Task
  BY <1>1, Parts
<1> QED BY <1>1, <1>3, <1>4, <1>5, <1>6, <1>7, Parts, Whole DEF syncVars

\* It wakes up and takes its node out; the next one may have expired too.
LEMMA SleepReturnsStep == ASSUME IInv, NEW t \in Task, SleepReturns(t) PROVE IInv'
<1>1. /\ current = t /\ op[t] = "sleep" /\ op' = [op EXCEPT ![t] = "none"]
      /\ timers' = Rest(timers, t)
      /\ sched' = TimerWake(sched, timers') \/ sched' = sched
      /\ leftmost' = leftmost \ {t}
      /\ UNCHANGED <<total, current, ready, syncVars>>
  BY DEF SleepReturns, Rest
<1>2. /\ Alive(sched.state, op', ready) /\ op' \in [Task -> Ops]
      /\ Only(op, op', t, "none") /\ Only(sched.state, sched.state, t, "RUNNING")
  BY <1>1, ReturnStep
<1>3. timers' \in Seq(Sleepers) /\ TimerOk(op', timers')
  <2>1. Rest(timers, t) \in Seq(Sleepers) /\ TimerOk(op', Rest(timers, t))
    BY <1>1, <1>2, Parts, TimerRemoves
  <2>2. timers' = Rest(timers, t)
    BY <1>1
  <2> QED BY ONLY <2>1, <2>2, Zenon
<1>4. Rises(sched', sched)
  <2>0. Rises(sched, sched)
    BY Parts DEF Rises, Fronted
  <2>1. CASE sched' = TimerWake(sched, timers')
    <3>1. timers' # <<>> => Head(timers').task \in Task /\ sched.state[Head(timers').task] # "STOPPED"
      <4> DEFINE q == timers'
      <4>1. q \in Seq(Sleepers) /\ TimerOk(op', q)
        BY <1>3
      <4> HIDE DEF q
      <4>2. SUFFICES ASSUME q # <<>>
                     PROVE  Head(q).task \in Task /\ sched.state[Head(q).task] # "STOPPED"
        BY DEF q
      <4>3. 1 \in 1 .. Len(q) /\ Head(q) = q[1]
        BY <4>1, <4>2, FirstFacts
      <4>4. q[1].task \in Task
        BY <4>1, <4>3, SleeperFields
      <4>5. op'[q[1].task] = "sleep"
        BY <4>1, <4>3 DEF TimerOk
      <4> QED BY <4>3, <4>4, <4>5, <1>2 DEF Alive
    <3>2. Rises(TimerWake(sched, timers'), sched)
      BY <3>1, Parts, TimerWakeRises
    <3> QED BY <2>1, <3>2
  <2> QED BY <2>0, <2>1, <1>1
<1>5. /\ MutexOk(sched.state, op', locker, waiters, holders) /\ JoinOk(sched.state, op', joiner)
  <2>1. MutexOk(sched.state, op', locker, waiters, holders)
    BY <1>1, <1>2, Parts, MutexKeeps
  <2>2. JoinOk(sched.state, op', joiner)
    BY <1>1, <1>2, Parts, JoinKeeps
  <2> QED BY <2>1, <2>2
<1>6. Rise(sched.state, sched'.state) /\ Sound(sched')
  BY <1>4 DEF Rises, Rise
<1>7. /\ Alive(sched'.state, op', ready) /\ MutexOk(sched'.state, op', locker, waiters, holders)
      /\ JoinOk(sched'.state, op', joiner)
  BY <1>2, <1>5, <1>6, Parts, RiseKeeps
<1>9. total = Cardinality(Live(sched')) /\ Leads(sched', current)
  <2>1. \A u : u \in Live(sched') <=> u \in Live(sched)
    BY <1>6 DEF Live, Rise
  <2>2. Live(sched') = Live(sched)
    BY ONLY <2>1, Zenon
  <2>3. Leads(sched', current)
    BY <1>4, Parts DEF Rises, Leads, Fronted
  <2> QED BY <2>2, <2>3, Parts
<1>10. leftmost' \in SUBSET Task
  BY <1>1, Parts
<1> QED BY <1>1, <1>2, <1>3, <1>6, <1>7, <1>9, <1>10, Parts, Whole DEF syncVars

\* It takes the mutex or waits on the stack.
LEMMA LockStep == ASSUME IInv, NEW t \in Task, Lock(t) PROVE IInv'
<1>1. current = t /\ op[t] = "none" /\ t \notin holders /\ UNCHANGED <<total, timeVars, joiner>>
      /\ UNCHANGED total
  BY DEF Lock, User
<1>2. sched.state[t] = "RUNNING" /\ Books(sched) /\ Typed
  BY <1>1, CurrentRuns, Parts
<1>3. CASE locker = TRUE
  <2>1. /\ waiters' = <<t>> \o waiters /\ Leaves(t, "lock", Parked(sched, t))
        /\ UNCHANGED <<locker, holders>> /\ "lock" \in Ops
    BY <1>3 DEF Lock, Ops
  <2>2. /\ Sound(sched') /\ total' = Cardinality(Live(sched')) /\ Leads(sched', current')
        /\ Alive(sched'.state, op', ready)
        /\ Only(sched.state, sched'.state, t, "WAITING") /\ Only(op, op', t, "lock")
        /\ op' \in [Task -> Ops]
    BY <1>1, <1>2, <2>1, ParkStep
  <2>3. MutexOk(sched.state, op, TRUE, waiters, holders)
    BY <1>3, Parts
  <2>4. MutexOk(sched'.state, op', TRUE, <<t>> \o waiters, holders) /\ <<t>> \o waiters \in Seq(Task)
    BY <1>1, <2>2, <2>3, Parts, MutexPush
  <2>5. MutexOk(sched'.state, op', locker', waiters', holders') /\ waiters' \in Seq(Task)
    BY ONLY <1>3, <2>1, <2>4
  <2>6. JoinOk(sched'.state, op', joiner)
    BY <1>1, <2>2, Parts, JoinKeeps
  <2>7. TimerOk(op', timers)
    BY <1>1, <2>2, Parts, TimerKeeps
  <2> QED BY <1>1, <2>1, <2>2, <2>5, <2>6, <2>7, Parts, Whole DEF timeVars
<1>4. CASE locker = FALSE
  <2>1. /\ locker' = TRUE /\ holders' = holders \cup {t} /\ UNCHANGED <<waiters, current, op, sched>>
    BY <1>4 DEF Lock
  <2>2. holders = {}
    BY <1>4, Parts DEF MutexOk
  <2>3. MutexOk(sched.state, op, TRUE, waiters, {t}) /\ holders' = {t}
    BY <2>1, <2>2, Parts DEF MutexOk
  <2>4. MutexOk(sched'.state, op', locker', waiters', holders')
    BY <2>1, <2>3
  <2> QED BY <1>1, <2>1, <2>3, <2>4, Parts, Whole DEF timeVars
<1> QED BY <1>3, <1>4, Parts

\* It was woken: it takes the mutex, or waits again.
LEMMA LockResumesStep == ASSUME IInv, NEW t \in Task, LockResumes(t) PROVE IInv'
<1>1. current = t /\ op[t] = "lock" /\ UNCHANGED <<total, timeVars, joiner>> /\ UNCHANGED total
  BY DEF LockResumes
<1>2. sched.state[t] = "RUNNING" /\ Books(sched) /\ Typed
  BY <1>1, CurrentRuns, Parts
<1>3. waiters # <<>>
  <2>1. PICK i \in 1 .. Len(waiters) : waiters[i] = t
    BY <1>1, Parts DEF MutexOk, Holds, Lockers
  <2>2. Len(waiters) # 0
    BY <2>1, Parts, LenProperties
  <2> QED BY <2>2, EmptySeq
<1>4. 1 \in 1 .. Len(waiters) /\ Head(waiters) = waiters[1]
  BY <1>3, Parts, FirstFacts
<1>5. CASE MayLock(t)
  <2>1. /\ waiters' = Tail(waiters) /\ locker' = TRUE /\ holders' = holders \cup {t}
        /\ op' = [op EXCEPT ![t] = "none"] /\ UNCHANGED <<current, sched>>
    BY <1>5 DEF LockResumes
  <2>2. Head(waiters) = t /\ locker = FALSE
    BY <1>5, Parts DEF MayLock
  <2>3. /\ Alive(sched.state, op', ready) /\ op' \in [Task -> Ops]
        /\ Only(op, op', t, "none") /\ Only(sched.state, sched.state, t, "RUNNING")
    BY <1>1, <2>1, ReturnStep
  <2>4. MutexOk(sched.state, op, FALSE, waiters, {}) /\ holders = {}
    <3>1. holders = {}
      BY <2>2, Parts DEF MutexOk
    <3> QED BY <3>1, <2>2, Parts
  <2>5. MutexOk(sched.state, op', TRUE, Tail(waiters), {t}) /\ Tail(waiters) \in Seq(Task)
    BY <1>3, <2>2, <2>3, <2>4, Parts, MutexPop
  <2>6. holders' = {t}
    BY <2>1, <2>4
  <2>7. MutexOk(sched'.state, op', locker', waiters', holders') /\ waiters' \in Seq(Task)
    BY ONLY <2>1, <2>5, <2>6
  <2>8. JoinOk(sched.state, op', joiner)
    BY <1>1, <2>3, Parts, JoinKeeps
  <2>9. TimerOk(op', timers)
    BY <1>1, <2>3, Parts, TimerKeeps
  <2> QED BY <1>1, <2>1, <2>3, <2>6, <2>7, <2>8, <2>9, Parts, Whole DEF timeVars
<1>6. CASE ~ MayLock(t)
  <2>1. /\ Leaves(t, "lock", Parked(sched, t)) /\ UNCHANGED <<locker, waiters, holders>>
        /\ "lock" \in Ops
    BY <1>6 DEF LockResumes, Ops
  <2>2. /\ Sound(sched') /\ total' = Cardinality(Live(sched')) /\ Leads(sched', current')
        /\ Alive(sched'.state, op', ready)
        /\ Only(sched.state, sched'.state, t, "WAITING") /\ Only(op, op', t, "lock")
        /\ op' \in [Task -> Ops]
    BY <1>1, <1>2, <2>1, ParkStep
  <2>3. op' = op
    BY <1>1, <2>1, Parts DEF Leaves
  <2>4. locker = FALSE /\ waiters # <<>> => sched'.state[waiters[1]] = "RUNNING"
    <3>1. SUFFICES ASSUME locker = FALSE PROVE sched'.state[waiters[1]] = "RUNNING"
      OBVIOUS
    <3>2. waiters[1] # t /\ waiters[1] \in Task
      BY <3>1, <1>3, <1>4, <1>6, Parts, FirstFacts DEF MayLock
    <3>3. sched.state[waiters[1]] = "RUNNING"
      BY <3>1, <1>3, Parts DEF MutexOk
    <3> QED BY <3>2, <3>3, <2>2 DEF Only
  <2>5. MutexOk(sched'.state, op, locker, waiters, holders)
    BY <2>4, Parts DEF MutexOk
  <2>6. JoinOk(sched'.state, op', joiner)
    BY <1>1, <2>2, Parts, JoinKeeps
  <2> QED BY <1>1, <2>1, <2>2, <2>3, <2>5, <2>6, Parts, Whole DEF timeVars
<1> QED BY <1>5, <1>6

\* It gives the mutex back and wakes the first waiter.
LEMMA UnlockStep == ASSUME IInv, NEW t \in Task, Unlock(t) PROVE IInv'
<1>1. /\ t \in holders /\ locker' = FALSE /\ holders' = holders \ {t}
      /\ sched' = IF waiters = <<>> THEN sched ELSE Wake(sched, Head(waiters))
      /\ UNCHANGED <<total, current, op, timeVars, waiters, joiner>>
  BY DEF Unlock
<1>2. holders' = {}
  BY <1>1, Parts DEF MutexOk
<1>3. Rises(sched', sched) /\ (waiters # <<>> => sched'.state[waiters[1]] = "RUNNING")
  <2>1. CASE waiters = <<>>
    <3>1. sched' = sched
      BY <1>1, <2>1
    <3> QED BY <2>1, <3>1, Parts DEF Rises, Fronted
  <2>2. CASE waiters # <<>>
    <3> DEFINE u == waiters[1]
    <3>1. u \in Task /\ 1 \in 1 .. Len(waiters) /\ Head(waiters) = u
      BY <2>2, Parts, FirstFacts
    <3>2. op[u] = "lock"
      BY <3>1, Parts DEF MutexOk, Holds, Lockers
    <3>3. sched.state[u] # "STOPPED"
      BY <3>1, <3>2, Parts DEF Alive
    <3>4. sched' = Wake(sched, u)
      BY <1>1, <2>2, <3>1
    <3> HIDE DEF u
    <3>5. Rises(Wake(sched, u), sched) /\ Wake(sched, u).state[u] = "RUNNING"
      BY <3>1, <3>3, Parts, WakeRises
    <3>6. Rises(sched', sched) /\ sched'.state[u] = "RUNNING"
      BY <3>4, <3>5
    <3> QED BY <3>6 DEF u
  <2> QED BY <2>1, <2>2
<1>4. Books(sched')
  BY <1>3, Parts, RisesBooks
<1>5. MutexOk(sched'.state, op, FALSE, waiters, {})
  BY <1>3, Parts DEF MutexOk
<1>6. MutexOk(sched'.state, op', locker', waiters', holders')
  BY <1>1, <1>2, <1>5
<1> QED BY <1>1, <1>2, <1>4, <1>6, Parts, Whole DEF Books, timeVars

\* It wakes a task.
LEMMA WakeupStep == ASSUME IInv, NEW t \in Task, NEW u \in Task, Wakeup(t, u) PROVE IInv'
<1>1. /\ sched.state[u] = "WAITING" /\ sched' = Wake(sched, u)
      /\ UNCHANGED <<total, current, op, timeVars, syncVars>>
  BY DEF Wakeup
<1>2. Rises(sched', sched)
  BY <1>1, Parts, WakeRises
<1>3. ready' \in SUBSET ready /\ UNCHANGED <<total, current, op, timers, leftmost, syncVars>>
  BY <1>1 DEF timeVars
<1> QED BY <1>2, <1>3, WokenStep

\* It starts a task, which is one more.
LEMMA RunStep == ASSUME IInv, NEW t \in Task, NEW u \in Task, Run(t, u) PROVE IInv'
<1>1. /\ sched.state[u] = "STOPPED" /\ joiner[u] = 0 /\ sched' = Started(sched, u)
      /\ total' = total + 1 /\ UNCHANGED <<current, op, timeVars, syncVars>>
  BY DEF Run
<1>2. Becomes(sched', sched, u, "RUNNING") /\ Fronted(sched', sched)
  BY <1>1, Parts, StartedFacts
<1>3. Sound(sched') /\ sched'.state = [sched.state EXCEPT ![u] = "RUNNING"]
  BY <1>2 DEF Becomes
<1>4. sched.state \in [Task -> States]
  BY Parts, SoundStates
<1>5. Only(sched.state, sched'.state, u, "RUNNING")
  BY ONLY <1>3, <1>4, u \in Task DEF Only
<1>6. op[u] = "none" /\ u \notin ready /\ Only(op, op, u, "none")
  BY <1>1, Parts DEF Alive, Only
<1>7. Alive(sched'.state, op, ready)
  BY <1>5, <1>6, Parts DEF Alive, Only
<1>8. MutexOk(sched'.state, op, locker, waiters, holders)
  BY <1>5, <1>6, Parts, MutexKeeps
<1>9. JoinOk(sched'.state, op, joiner)
  BY <1>5, <1>6, Parts, JoinKeeps
<1>10. total' = Cardinality(Live(sched'))
  <2>1. \A v : v \in Live(sched') <=> v \in Live(sched) \/ v = u
    BY <1>5 DEF Live, Only
  <2>2. Live(sched') = Live(sched) \cup {u}
    BY ONLY <2>1, Zenon
  <2>3. u \notin Live(sched) /\ IsFiniteSet(Live(sched))
    BY <1>1, LiveFinite DEF Live
  <2>4. Cardinality(Live(sched) \cup {u}) = Cardinality(Live(sched)) + 1
    BY <2>3, FS_AddElement
  <2> QED BY <1>1, <2>2, <2>4, Parts
<1>11. Leads(sched', current')
  BY <1>1, <1>2, Parts DEF Leads, Fronted
<1> QED BY <1>1, <1>3, <1>7, <1>8, <1>9, <1>10, <1>11, Parts, Whole DEF timeVars, syncVars

\* The books after a live task was woken by the current one, which still runs.
LEMMA WokenBooks ==
    ASSUME IInv, NEW t \in Task, current = t, NEW u \in Task, sched.state[u] # "STOPPED"
    PROVE  /\ Books(Wake(sched, u)) /\ Wake(sched, u).state[t] = "RUNNING"
           /\ Wake(sched, u).state[u] = "RUNNING"
<1> DEFINE s == Wake(sched, u)
<1>1. Rises(s, sched) /\ s.state[u] = "RUNNING"
  BY Parts, WakeRises
<1> HIDE DEF s
<1>2. Books(s)
  BY <1>1, Parts, RisesBooks
<1>3. s.state[t] = "RUNNING"
  BY <1>1, CurrentRuns DEF Rises
<1> QED BY <1>1, <1>2, <1>3 DEF s

\* It joins a task.
LEMMA JoinStep == ASSUME IInv, NEW t \in Task, NEW u \in Task, Join(t, u) PROVE IInv'
<1>1. /\ current = t /\ op[t] = "none" /\ u # t /\ joiner[u] = 0
      /\ UNCHANGED <<total, timeVars, locker, waiters, holders>> /\ UNCHANGED total
  BY DEF Join, User
<1>2. CASE sched.state[u] = "STOPPED"
  <2>1. UNCHANGED <<sched, current, op, joiner>>
    BY <1>2 DEF Join
  <2> QED BY <1>1, <2>1, Parts, Whole DEF timeVars
<1>3. CASE sched.state[u] # "STOPPED"
  <2> DEFINE s == Wake(sched, u)
             j == [joiner EXCEPT ![u] = t]
  <2>1. joiner' = j /\ Leaves(t, "join", Parked(s, t)) /\ "join" \in Ops
    BY <1>3 DEF Join, Ops
  <2>2. Books(s) /\ s.state[t] = "RUNNING" /\ s.state[u] = "RUNNING"
    BY <1>1, <1>3, WokenBooks
  <2> HIDE DEF s
  <2>3. /\ Sound(sched') /\ total' = Cardinality(Live(sched')) /\ Leads(sched', current')
        /\ Alive(sched'.state, op', ready)
        /\ Only(s.state, sched'.state, t, "WAITING") /\ Only(op, op', t, "join")
        /\ op' \in [Task -> Ops]
    BY <1>1, <2>1, <2>2, Parts, ParkStep
  <2>4. MutexOk(s.state, op, locker, waiters, holders) /\ JoinOk(s.state, op, joiner)
    BY <2>2 DEF Books
  <2>5. MutexOk(sched'.state, op', locker, waiters, holders)
    BY <1>1, <2>3, <2>4, Parts, MutexKeeps
  <2>6. JoinOk(sched'.state, op', j) /\ j \in [Task -> 0 .. N]
    BY <1>1, <2>2, <2>3, <2>4, Parts, JoinStarts
  <2>7. TimerOk(op', timers)
    BY <1>1, <2>3, Parts, TimerKeeps
  <2> HIDE DEF j
  <2> QED BY <1>1, <2>1, <2>3, <2>5, <2>6, <2>7, Parts, Whole DEF timeVars
<1> QED BY <1>2, <1>3

\* It was woken in its join: the other task has stopped, or it waits again.
LEMMA JoinResumesStep == ASSUME IInv, NEW t \in Task, JoinResumes(t) PROVE IInv'
<1>1. /\ current = t /\ op[t] = "join"
      /\ UNCHANGED <<total, timeVars, locker, waiters, holders>> /\ UNCHANGED total
  BY DEF JoinResumes
<1>2. PICK u \in Task :
         /\ joiner[u] = t
         /\ IF sched.state[u] = "STOPPED"
              THEN /\ joiner' = [joiner EXCEPT ![u] = 0]
                   /\ op' = [op EXCEPT ![t] = "none"]
                   /\ UNCHANGED <<current, sched>>
              ELSE /\ Leaves(t, "join", Parked(Wake(sched, u), t))
                   /\ UNCHANGED joiner
  BY DEF JoinResumes
<1>3. CASE sched.state[u] = "STOPPED"
  <2> DEFINE j == [joiner EXCEPT ![u] = 0]
  <2>1. /\ joiner' = j /\ op' = [op EXCEPT ![t] = "none"] /\ UNCHANGED <<current, sched>>
    BY <1>2, <1>3
  <2>2. /\ Alive(sched.state, op', ready) /\ op' \in [Task -> Ops]
        /\ Only(op, op', t, "none") /\ Only(sched.state, sched.state, t, "RUNNING")
    BY <1>1, <2>1, ReturnStep
  <2>3. MutexOk(sched.state, op', locker, waiters, holders)
    BY <1>1, <2>2, Parts, MutexKeeps
  <2>4. JoinOk(sched.state, op', j) /\ j \in [Task -> 0 .. N]
    BY <1>2, <2>2, Parts, JoinEnds
  <2>5. TimerOk(op', timers)
    BY <1>1, <2>2, Parts, TimerKeeps
  <2> HIDE DEF j
  <2> QED BY <1>1, <2>1, <2>2, <2>3, <2>4, <2>5, Parts, Whole DEF timeVars
<1>4. CASE sched.state[u] # "STOPPED"
  <2> DEFINE s == Wake(sched, u)
  <2>1. UNCHANGED joiner /\ Leaves(t, "join", Parked(s, t)) /\ "join" \in Ops
    BY <1>2, <1>4 DEF Ops
  <2>2. Books(s) /\ s.state[t] = "RUNNING" /\ s.state[u] = "RUNNING"
    BY <1>1, <1>4, WokenBooks
  <2> HIDE DEF s
  <2>3. /\ Sound(sched') /\ total' = Cardinality(Live(sched')) /\ Leads(sched', current')
        /\ Alive(sched'.state, op', ready)
        /\ Only(s.state, sched'.state, t, "WAITING") /\ Only(op, op', t, "join")
        /\ op' \in [Task -> Ops]
    BY <1>1, <2>1, <2>2, Parts, ParkStep
  <2>4. MutexOk(s.state, op, locker, waiters, holders) /\ JoinOk(s.state, op, joiner)
    BY <2>2 DEF Books
  <2>5. MutexOk(sched'.state, op', locker, waiters, holders)
    BY <1>1, <2>3, <2>4, Parts, MutexKeeps
  <2>6. JoinOk(sched'.state, op, joiner)
    BY <1>2, <2>2, <2>3, <2>4, Parts, JoinWaits
  <2>7. op' = op
    BY <1>1, <2>1, Parts DEF Leaves
  <2> QED BY <1>1, <2>1, <2>3, <2>5, <2>6, <2>7, Parts, Whole DEF timeVars
<1> QED BY <1>3, <1>4

\* It ends; its joiner was woken before.
LEMMA ExitStep == ASSUME IInv, NEW t \in Task, Exit(t) PROVE IInv'
<1> DEFINE s == IF joiner[t] = 0 THEN sched ELSE Wake(sched, joiner[t])
<1>1. /\ current = t /\ op[t] = "none" /\ Leaves(t, "none", Stopped(s, t))
      /\ total' = total - 1 /\ ready' = ready \ {t} /\ UNCHANGED <<timers, leftmost, syncVars>>
  BY DEF Exit, User
<1>2. /\ Books(s) /\ s.state[t] = "RUNNING" /\ (joiner[t] = 0 \/ s.state[joiner[t]] = "RUNNING")
  <2>1. CASE joiner[t] = 0
    BY <2>1, <1>1, Parts, CurrentRuns
  <2>2. CASE joiner[t] # 0
    <3> DEFINE u == joiner[t]
    <3>1. u \in Task
      BY <2>2, Parts, TasksAssumption DEF Task
    <3>2. op[u] = "join"
      BY <2>2, Parts DEF JoinOk
    <3>3. sched.state[u] # "STOPPED"
      BY <3>1, <3>2, Parts DEF Alive
    <3>4. s = Wake(sched, u)
      BY <2>2
    <3> HIDE DEF u, s
    <3>5. Books(Wake(sched, u)) /\ Wake(sched, u).state[t] = "RUNNING"
          /\ Wake(sched, u).state[u] = "RUNNING"
      BY <3>1, <3>3, <1>1, WokenBooks
    <3>6. Books(s) /\ s.state[t] = "RUNNING" /\ s.state[u] = "RUNNING"
      BY <3>4, <3>5
    <3> QED BY <3>6 DEF u
  <2> QED BY <2>1, <2>2
<1> HIDE DEF s
<1>3. /\ Sound(s) /\ total = Cardinality(Live(s)) /\ Alive(s.state, op, ready)
      /\ MutexOk(s.state, op, locker, waiters, holders) /\ JoinOk(s.state, op, joiner)
  BY <1>2 DEF Books
<1>4. sched' = Stopped(s, t) /\ current' = 0 /\ op' = [op EXCEPT ![t] = "none"]
  BY <1>1 DEF Leaves
<1>5. op' = op /\ Only(op, op, t, "none")
  BY <1>1, <1>4, Parts DEF Only
<1>6. Becomes(Stopped(s, t), s, t, "STOPPED")
  BY <1>2, <1>3, ParkedFacts
<1>7. Sound(sched') /\ sched'.state = [s.state EXCEPT ![t] = "STOPPED"]
  BY ONLY <1>4, <1>6 DEF Becomes
<1>8. s.state \in [Task -> States]
  BY <1>3, SoundStates
<1>9. Only(s.state, sched'.state, t, "STOPPED")
  BY ONLY <1>7, <1>8, t \in Task DEF Only
<1>10. Alive(sched'.state, op, ready \ {t})
  BY <1>3, <1>5, <1>9, Parts, AliveKeeps
<1>11. MutexOk(sched'.state, op, locker, waiters, holders)
  BY <1>1, <1>3, <1>5, <1>9, Parts, MutexKeeps
<1>12. JoinOk(sched'.state, op, joiner)
  BY <1>1, <1>2, <1>3, <1>5, <1>9, Parts, JoinKeeps
<1>13. total' = Cardinality(Live(sched'))
  <2>1. \A v : v \in Live(sched') <=> v \in Live(s) /\ v # t
    BY <1>9 DEF Live, Only
  <2>2. Live(sched') = Live(s) \ {t}
    BY ONLY <2>1, Zenon
  <2>3. t \in Live(s) /\ IsFiniteSet(Live(s))
    BY <1>2, LiveFinite DEF Live
  <2>4. Cardinality(Live(s) \ {t}) = Cardinality(Live(s)) - 1
    BY <2>3, FS_RemoveElement
  <2> QED BY <1>1, <1>3, <2>2, <2>4
<1>14. Leads(sched', current')
  BY <1>4, TasksAssumption DEF Leads
<1>15. ready' \in SUBSET Task /\ Alive(sched'.state, op', ready')
  BY <1>1, <1>5, <1>10, Parts
<1> QED BY <1>1, <1>5, <1>7, <1>11, <1>12, <1>13, <1>14, <1>15, Parts, Whole DEF syncVars

\* An event of a waiting task.
LEMMA EdgeStep == ASSUME IInv, NEW t \in Task, Edge(t) PROVE IInv'
<1>1. /\ sched.state[t] = "WAITING" /\ ready' = ready \cup {t}
      /\ UNCHANGED <<kernVars, timers, leftmost, syncVars>>
  BY DEF Edge
<1>2. ready' \in SUBSET Task /\ Alive(sched.state, op, ready')
  BY <1>1, Parts DEF Alive
<1> QED BY <1>1, <1>2, Parts, Whole DEF kernVars, syncVars

\* Time passes.
LEMMA TickStep == ASSUME IInv, Tick PROVE IInv'
<1>1. /\ timers' = [i \in DOMAIN timers |->
                      [timers[i] EXCEPT !.rem = IF @ > 0 THEN @ - 1 ELSE 0]]
      /\ UNCHANGED <<kernVars, ready, leftmost, syncVars>>
  BY DEF Tick
<1>2. timers' \in Seq(Sleepers) /\ TimerOk(op, timers')
  BY <1>1, Parts, TimerTicks
<1> QED BY <1>1, <1>2, Parts, Whole DEF kernVars, syncVars

\* Nothing happens.
LEMMA StutterStep == ASSUME IInv, UNCHANGED vars PROVE IInv'
BY Parts, Whole DEF vars, kernVars, timeVars, syncVars

\* An injection of n indices into a set of n elements reaches each.
LEMMA InjectionOnto ==
    ASSUME NEW S, IsFiniteSet(S), NEW q \in [1 .. Cardinality(S) -> S],
           \A i, j \in 1 .. Cardinality(S) : i # j => q[i] # q[j]
    PROVE  \A t \in S : \E i \in 1 .. Cardinality(S) : q[i] = t
<1> DEFINE n == Cardinality(S)
<1>0. n \in Nat
  BY FS_CardinalityType
<1>1. IsFiniteSet(1 .. n) /\ Cardinality(1 .. n) = n
  BY <1>0, FS_Interval
<1>2. q \in Injection(1 .. n, S)
  BY DEF Injection, IsInjective
<1> HIDE DEF n
<1>3. q \in Surjection(1 .. n, S)
  BY <1>1, <1>2, FS_Injection DEF n
<1>4. \A t \in S : \E i \in 1 .. n : q[i] = t
  BY <1>3 DEF Surjection
<1> QED BY <1>4 DEF n

\* The start: the first tasks in the queue, nobody in a call.
LEMMA InitHolds == ASSUME Init PROVE IInv
<1>1. PICK q \in SetToSeqs(First) :
         /\ \A i, j \in DOMAIN q : i < j => Priority[q[i]] <= Priority[q[j]]
         /\ sched = [queue |-> q, key |-> Priority,
                     state |-> [t \in Task |-> IF t \in First THEN "RUNNING" ELSE "STOPPED"]]
  BY DEF Init
<1>2. First \subseteq Task /\ IsFiniteSet(Task) /\ Priority \in [Task -> Nat]
  BY TaskFinite, TasksAssumption
<1>3. IsFiniteSet(First) /\ Cardinality(First) \in Nat
  BY <1>2, FS_Subset, FS_CardinalityType
<1> DEFINE n == Cardinality(First)
<1>4. q \in [1 .. n -> First] /\ \A i, j \in 1 .. n : i # j => q[i] # q[j]
  BY <1>1 DEF SetToSeqs
<1>5. q \in Seq(Task) /\ Len(q) = n
  <2>1. q \in [1 .. n -> Task]
    BY <1>2, <1>4
  <2>2. q \in Seq(Task)
    BY <2>1, <1>3, SeqDef
  <2>3. Len(q) \in Nat /\ DOMAIN q = 1 .. Len(q) /\ DOMAIN q = 1 .. n
    BY <1>4, <2>2, LenProperties
  <2> HIDE DEF n
  <2> QED BY <1>3, <2>2, <2>3 DEF n
<1>6. \A t \in First : \E i \in 1 .. n : q[i] = t
  BY <1>2, <1>3, <1>4, InjectionOnto
<1>7. /\ sched \in Scheds /\ sched.queue = q /\ sched.key = Priority
      /\ \A t \in Task : sched.state[t] = IF t \in First THEN "RUNNING" ELSE "STOPPED"
  BY <1>1, <1>2, <1>5 DEF Scheds, States
<1>8. Running(sched) = First /\ Live(sched) = First
  <2>1. \A t : (t \in Running(sched) <=> t \in First) /\ (t \in Live(sched) <=> t \in First)
    BY <1>2, <1>7 DEF Running, Live
  <2> QED BY ONLY <2>1, Zenon
<1>9. Holds(q, First) /\ Once(q) /\ Sorted(q, Priority)
  BY <1>1, <1>4, <1>5, <1>6 DEF Holds, Once, Sorted
<1>10. Sound(sched)
  BY ONLY <1>7, <1>8, <1>9 DEF Sound, Ordered
<1>11. /\ total = Cardinality(First) /\ current = 0 /\ op = [t \in Task |-> "none"]
       /\ ready = {} /\ timers = <<>> /\ leftmost = {} /\ locker = FALSE /\ waiters = <<>>
       /\ holders = {} /\ joiner = [t \in Task |-> 0]
  BY DEF Init
<1>12. Typed
  <2>1. timers \in Seq(Sleepers) /\ waiters \in Seq(Task)
    BY <1>11, EmptySeq
  <2>2. op \in [Task -> Ops] /\ joiner \in [Task -> 0 .. N]
    BY <1>11, TasksAssumption DEF Ops
  <2> QED BY <1>11, <2>1, <2>2 DEF Typed
<1>13. Leads(sched, current) /\ total = Cardinality(Live(sched))
  BY <1>8, <1>11, TasksAssumption DEF Leads
<1>14. Alive(sched.state, op, ready) /\ JoinOk(sched.state, op, joiner)
  BY <1>7, <1>11 DEF Alive, JoinOk
<1>15. Len(<<>>) = 0
  BY EmptySeq
<1>16. MutexOk(sched.state, op, locker, waiters, holders)
  BY <1>11, <1>15 DEF MutexOk, Holds, Once, Lockers
<1>17. TimerOk(op, timers)
  BY <1>11, <1>15 DEF TimerOk
<1> QED BY <1>10, <1>12, <1>13, <1>14, <1>16, <1>17 DEF IInv, Books

-----------------------------------------------------------------------------
(* What follows. *)

\* The parts of the invariant hold for every reachable state: the run queue, the count
\* of tasks, the mutex's stack, the joins and the timer's tree agree with the states
\* and the calls of the tasks.
THEOREM TaskInvariant == Spec => []IInv
<1>1. Init => IInv
  BY InitHolds
<1>2. ASSUME IInv, [Next]_vars PROVE IInv'
  <2>1. CASE Pick
    BY <1>2, <2>1, PickStep
  <2>2. ASSUME NEW t \in Task, Resumes(t) PROVE IInv'
    BY <1>2, <2>2, WaitIOReturnsStep, SleepReturnsStep, LockResumesStep, JoinResumesStep DEF Resumes
  <2>3. ASSUME NEW t \in Task, WaitIO(t) \/ Lock(t) \/ Unlock(t) \/ Exit(t) PROVE IInv'
    BY <1>2, <2>3, WaitIOStep, LockStep, UnlockStep, ExitStep
  <2>4. ASSUME NEW t \in Task, NEW n \in 1 .. MaxRuntime, Yield(t, n) PROVE IInv'
    BY <1>2, <2>4, YieldStep
  <2>5. ASSUME NEW t \in Task, NEW ms \in 1 .. MaxSleep, Sleep(t, ms) PROVE IInv'
    BY <1>2, <2>5, SleepStep
  <2>6. ASSUME NEW t \in Task, NEW u \in Task, Wakeup(t, u) \/ Run(t, u) \/ Join(t, u) PROVE IInv'
    BY <1>2, <2>6, WakeupStep, RunStep, JoinStep
  <2>7. ASSUME NEW t \in Task, Edge(t) PROVE IInv'
    BY <1>2, <2>7, EdgeStep
  <2>8. CASE Tick
    BY <1>2, <2>8, TickStep
  <2>9. CASE UNCHANGED vars
    BY <1>2, <2>9, StutterStep
  <2> QED BY <1>2, <2>1, <2>2, <2>3, <2>4, <2>5, <2>6, <2>7, <2>8, <2>9 DEF Next
<1> QED BY <1>1, <1>2, PTL DEF Spec

\* hev-task-system.c, hev-task-system-schedule.c: for any number of tasks and any
\* priorities, the run queue holds each running task once and in the order of the keys,
\* the current one first; the count decides rightly whether to poll and when to return;
\* the abort in the wakeup of a stopped task is never reached.
THEOREM QueueSoundHolds == Spec => []QueueSound
<1>1. ASSUME IInv PROVE QueueSound
  <2> DEFINE q == sched.queue
  <2>1. Sound(sched) /\ sched \in Scheds /\ q \in Seq(Task) /\ DOMAIN q = 1 .. Len(q)
        /\ sched.key \in [Task -> Nat] /\ sched.state \in [Task -> States]
    <3>1. Sound(sched) /\ sched \in Scheds
      BY <1>1, Parts, SoundStates
    <3> QED BY <3>1, SchedFields, LenProperties
  <2>2. Holds(q, Running(sched)) /\ Once(q) /\ Sorted(q, sched.key)
    BY <2>1 DEF Sound, Ordered
  <2>3. current \in 0 .. N /\ (current # 0 => q # <<>> /\ Head(q) = current)
    <3>1. Leads(sched, current)
      BY <1>1, Parts
    <3>2. q # <<>> => Head(q) = q[1]
      BY <2>1, FirstFacts
    <3> QED BY <3>1, <3>2 DEF Leads
  <2>4. total \in 0 .. N /\ total = Cardinality({t \in Task : sched.state[t] # "STOPPED"})
    BY <1>1, Parts, LiveFinite DEF Live
  <2>5. TypeOK
    <3>1. DOMAIN sched.key = Task /\ \A t \in Task : sched.key[t] \in Nat
      BY <2>1
    <3>2. timers \in Seq([task : Task, rem : 0 .. MaxSleep])
      BY <1>1, Parts DEF Sleepers
    <3> QED BY <1>1, <2>1, <2>3, <2>4, <3>1, <3>2, Parts DEF TypeOK
  <2>6. ToSet(q) = Running(sched)
    <3>1. \A t : t \in ToSet(q) <=> \E i \in 1 .. Len(q) : q[i] = t
      BY <2>1 DEF ToSet
    <3>2. \A t : t \in ToSet(q) <=> t \in Running(sched)
      BY <2>2, <3>1 DEF Holds
    <3> QED BY ONLY <3>2, Zenon
  <2>7. IsInjective(q)
    BY <2>1, <2>2 DEF IsInjective, Once
  <2>8. \A i, j \in DOMAIN q : i < j => sched.key[q[i]] <= sched.key[q[j]]
    BY <2>1, <2>2 DEF Sorted
  <2> QED BY <2>3, <2>4, <2>5, <2>6, <2>7, <2>8 DEF QueueSound, Running
<1> QED BY <1>1, TaskInvariant, PTL

\* hev-task-mutex.c: for any number of tasks the mutex excludes, and a free mutex with
\* waiters has woken the one that may take it, whoever barges in and whatever else
\* wakes them.
THEOREM MutexSoundHolds == Spec => []MutexSound
<1>1. ASSUME IInv PROVE MutexSound
  <2>1. MutexOk(sched.state, op, locker, waiters, holders) /\ waiters \in Seq(Task)
        /\ locker \in BOOLEAN
    BY <1>1, Parts
  <2>2. (locker <=> holders # {}) /\ \A a, b \in holders : a = b
    BY <2>1 DEF MutexOk
  <2>3. Cardinality(holders) <= 1
    <3>1. CASE holders = {}
      BY <3>1, FS_EmptySet
    <3>2. CASE holders # {}
      <4>1. PICK a : a \in holders
        BY <3>2
      <4>2. holders = {a}
        BY <4>1, <2>2
      <4> QED BY <4>2, FS_Singleton
    <3> QED BY <3>1, <3>2
  <2>4. ~ locker /\ waiters # <<>> => sched.state[Head(waiters)] = "RUNNING"
    <3>1. SUFFICES ASSUME ~ locker, waiters # <<>> PROVE sched.state[Head(waiters)] = "RUNNING"
      OBVIOUS
    <3>2. Head(waiters) = waiters[1]
      BY <2>1, <3>1, FirstFacts
    <3> QED BY <2>1, <3>1, <3>2 DEF MutexOk
  <2> QED BY <2>2, <2>3, <2>4 DEF MutexSound
<1> QED BY <1>1, TaskInvariant, PTL

\* hev_task_join and hev-task-timer.c: for any number of tasks, a joiner of a stopped
\* task runs, and the timer's tree holds each sleeper once, in the order in which they
\* expire.
THEOREM WaitersWokenHolds == Spec => []WaitersWoken
<1>1. ASSUME IInv PROVE WaitersWoken
  <2> DEFINE l == Len(timers)
  <2>1. /\ DOMAIN timers = 1 .. l
        /\ \A i \in 1 .. l : timers[i].rem \in Nat
    BY <1>1, Parts, SleeperFields
  <2>2. /\ \A i \in 1 .. l : op[timers[i].task] = "sleep"
        /\ \A t \in Task : op[t] = "sleep" => \E i \in 1 .. l : timers[i].task = t
        /\ \A i, j \in 1 .. l : /\ timers[i].task = timers[j].task => i = j
                                /\ i < j => Before(timers[i], timers[j])
    BY <1>1, Parts DEF TimerOk
  <2> HIDE DEF l
  <2>3. \A i, j \in DOMAIN timers : i < j => timers[i].rem <= timers[j].rem
    <3>1. SUFFICES ASSUME NEW i \in 1 .. l, NEW j \in 1 .. l, i < j
                   PROVE  timers[i].rem <= timers[j].rem
      BY <2>1
    <3>2. Before(timers[i], timers[j]) /\ timers[i].rem \in Nat /\ timers[j].rem \in Nat
      BY <2>1, <2>2, <3>1
    <3> QED BY ONLY <3>2 DEF Before
  <2>4. ASSUME NEW t \in Task
        PROVE  Cardinality({i \in DOMAIN timers : timers[i].task = t})
               = IF op[t] = "sleep" THEN 1 ELSE 0
    <3> DEFINE S == {i \in DOMAIN timers : timers[i].task = t}
    <3>0. \A i : i \in S <=> i \in 1 .. l /\ timers[i].task = t
      BY <2>1
    <3> HIDE DEF S
    <3>1. CASE op[t] = "sleep"
      <4>1. PICK i \in 1 .. l : timers[i].task = t
        BY <3>1, <2>2
      <4>2. \A k : k \in S <=> k = i
        BY <3>0, <4>1, <2>2
      <4>3. S = {i}
        BY ONLY <4>2, Zenon
      <4>4. Cardinality(S) = 1
        BY <4>3, FS_Singleton
      <4> QED BY <3>1, <4>4 DEF S
    <3>2. CASE op[t] # "sleep"
      <4>1. S = {}
        BY <3>0, <3>2, <2>2
      <4>2. Cardinality(S) = 0
        BY <4>1, FS_EmptySet
      <4> QED BY <3>2, <4>2 DEF S
    <3> QED BY <3>1, <3>2
  <2>5. \A t \in Task : joiner[t] # 0 /\ sched.state[t] = "STOPPED"
                        => sched.state[joiner[t]] = "RUNNING"
    BY <1>1, Parts DEF JoinOk
  <2> QED BY <2>3, <2>4, <2>5 DEF WaitersWoken
<1> QED BY <1>1, TaskInvariant, PTL
=============================================================================
