-------------------------- MODULE InductionLemmas --------------------------
(***************************************************************************)
(* Induction over the natural numbers for a set instead of a predicate,    *)
(* and the facts about prefixes, maxima and recursively defined sums that  *)
(* the proofs about queues rest on.                                        *)
(***************************************************************************)
EXTENDS Integers, Sequences, FiniteSets, FiniteSetTheorems, WellFoundedInduction, TLAPS

\* A set that holds 0 and the successor of each of its numbers holds all of them:
\* the least number outside it would have its predecessor inside.
LEMMA SetInduction ==
    ASSUME NEW S, 0 \in S, \A n \in Nat : n \in S => n + 1 \in S
    PROVE  \A n \in Nat : n \in S
<1> DEFINE T == {n \in Nat : n \notin S}
           R == {ss \in Nat \X Nat : ss[1] < ss[2]}
<1>1. SUFFICES ASSUME T # {} PROVE FALSE
  OBVIOUS
<1>2. IsWellFoundedOn(R, Nat)
  BY NatLessThanWellFounded DEF OpToRel
<1>3. \E x \in T : \A y \in T : ~ (<<y, x>> \in R)
  <2> HIDE DEF R
  <2> QED BY <1>1, <1>2, WFMin
<1>4. PICK x \in T : \A y \in T : ~ (<<y, x>> \in R)
  BY <1>3
<1>5. \A y \in T : ~ (y < x)
  BY <1>4
<1>6. x # 0 /\ x - 1 \in Nat /\ x - 1 < x
  OBVIOUS
<1>7. x - 1 \in S
  BY <1>5, <1>6
<1> QED BY <1>6, <1>7

\* A set of indices that holds every smaller index with each of its own is an
\* initial interval, and its cardinality is where that ends.
LEMMA PrefixInterval ==
    ASSUME NEW n \in Nat, NEW K \in SUBSET (1 .. n),
           \A k \in K : \A i \in 1 .. k : i \in K
    PROVE  Cardinality(K) \in 0 .. n /\ K = 1 .. Cardinality(K)
<1> DEFINE S == {m \in Nat : m > n \/ (1 .. m) \subseteq K \/ \E c \in 0 .. n : K = 1 .. c}
<1>1. 0 \in S
  OBVIOUS
<1>2. ASSUME NEW m \in Nat, m \in S PROVE m + 1 \in S
  <2>1. CASE m + 1 > n \/ \E c \in 0 .. n : K = 1 .. c
    BY <2>1
  <2>2. CASE m + 1 <= n /\ (1 .. m) \subseteq K
    <3>1. CASE m + 1 \in K
      BY <3>1, <2>2
    <3>2. CASE m + 1 \notin K
      <4>1. \A k \in K : k <= m
        BY <3>2
      <4>2. K \subseteq 1 .. m
        BY <4>1
      <4>3. K = 1 .. m
        BY <4>2, <2>2, Zenon
      <4> QED BY <4>3, <2>2
    <3> QED BY <3>1, <3>2
  <2> QED BY <1>2, <2>1, <2>2
<1>3. n \in S
  <2> HIDE DEF S
  <2> QED BY <1>1, <1>2, SetInduction
<1>4. PICK c \in 0 .. n : K = 1 .. c
  <2>1. CASE (1 .. n) \subseteq K
    <3>1. K = 1 .. n
      BY <2>1, Zenon
    <3> QED BY <3>1
  <2> QED BY <1>3, <2>1
<1>5. Cardinality(1 .. c) = c
  BY <1>4, FS_Interval
<1> QED BY <1>4, <1>5

\* A number and the values of a function on an interval have a greatest one.
LEMMA MaxExists ==
    ASSUME NEW n \in Nat, NEW f, \A i \in 1 .. n : f[i] \in Int, NEW x \in Int
    PROVE  \E m \in {x} \cup {f[i] : i \in 1 .. n} :
              \A y \in {x} \cup {f[i] : i \in 1 .. n} : m >= y
<1> DEFINE V(k) == {x} \cup {f[i] : i \in 1 .. k}
           S == {k \in Nat : k > n \/ \E m \in V(k) : m \in Int /\ \A y \in V(k) : m >= y}
<1>1. 0 \in S
  OBVIOUS
<1>2. ASSUME NEW k \in Nat, k \in S PROVE k + 1 \in S
  <2>1. CASE k + 1 > n
    BY <2>1
  <2>2. CASE k + 1 <= n
    <3>1. PICK m \in V(k) : m \in Int /\ \A y \in V(k) : m >= y
      BY <1>2, <2>2
    <3>2. f[k + 1] \in Int
      BY <2>2
    <3>3. V(k + 1) = V(k) \cup {f[k + 1]}
      <4>1. 1 .. k + 1 = (1 .. k) \cup {k + 1}
        OBVIOUS
      <4> QED BY <4>1
    <3> HIDE DEF V
    <3>4. \E r \in V(k + 1) : r \in Int /\ \A y \in V(k + 1) : r >= y
      <4>1. CASE f[k + 1] >= m
        BY <4>1, <3>1, <3>2, <3>3
      <4>2. CASE ~ (f[k + 1] >= m)
        BY <4>2, <3>1, <3>2, <3>3
      <4> QED BY <4>1, <4>2
    <3> QED BY <3>4
  <2> QED BY <2>1, <2>2
<1>3. n \in S
  <2> HIDE DEF S
  <2> QED BY <1>1, <1>2, SetInduction
<1> QED BY <1>3
=============================================================================
