------------------------- MODULE TunnelStartupProofs -------------------------
(***************************************************************************)
(* The properties of TunnelStartup for every set of kinds and any number   *)
(* of transports.                                                          *)
(*                                                                         *)
(* A program is safe for two bounds on what the service holds (components, *)
(* references, the interface, the profile): each of its steps is allowed   *)
(* while at most the upper bound and at least the lower one is held, and   *)
(* leaves a program that is safe for the bounds after the step.  Programs  *)
(* are data, and the failure path of a step is a program too, so that this *)
(* is a greatest fixed point: a program is safe if some closed set of      *)
(* abstract states contains it (Closed, Safe).                             *)
(*                                                                         *)
(* The first part shows that each program of the model is safe: rules for  *)
(* the operations, then the stop programs, the failure paths, connectXxx() *)
(* and the restarts.  The second part is the inductive invariant: the rest *)
(* of the running program is safe for what is held in the present state.   *)
(***************************************************************************)
EXTENDS TunnelStartup, SequenceTheorems, InductionLemmas, TLAPS
-----------------------------------------------------------------------------
(* Programs are sequences.                                                 *)

IsSeq(q) == \E S : q \in Seq(S)

\* Tuples are sequences.
LEMMA Seq0 == IsSeq(<<>>)
BY DEF IsSeq

\* A tuple of 1 is a sequence.
LEMMA Seq1 ==
    ASSUME NEW a
    PROVE  IsSeq(<<a>>)
<1>1. <<a>> \in Seq({a})
  OBVIOUS
<1> QED BY <1>1 DEF IsSeq

\* A tuple of 2 is a sequence.
LEMMA Seq2 ==
    ASSUME NEW a, NEW b
    PROVE  IsSeq(<<a, b>>)
<1>1. <<a, b>> \in Seq({a, b})
  OBVIOUS
<1> QED BY <1>1 DEF IsSeq

\* A tuple of 3 is a sequence.
LEMMA Seq3 ==
    ASSUME NEW a, NEW b, NEW c
    PROVE  IsSeq(<<a, b, c>>)
<1>1. <<a, b, c>> \in Seq({a, b, c})
  OBVIOUS
<1> QED BY <1>1 DEF IsSeq

\* A tuple of 4 is a sequence.
LEMMA Seq4 ==
    ASSUME NEW a, NEW b, NEW c, NEW d
    PROVE  IsSeq(<<a, b, c, d>>)
<1>1. <<a, b, c, d>> \in Seq({a, b, c, d})
  OBVIOUS
<1> QED BY <1>1 DEF IsSeq

\* A tuple of 5 is a sequence.
LEMMA Seq5 ==
    ASSUME NEW a, NEW b, NEW c, NEW d, NEW e
    PROVE  IsSeq(<<a, b, c, d, e>>)
<1>1. <<a, b, c, d, e>> \in Seq({a, b, c, d, e})
  OBVIOUS
<1> QED BY <1>1 DEF IsSeq

\* A tuple of 6 is a sequence.
LEMMA Seq6 ==
    ASSUME NEW a, NEW b, NEW c, NEW d, NEW e, NEW f
    PROVE  IsSeq(<<a, b, c, d, e, f>>)
<1>1. <<a, b, c, d, e, f>> \in Seq({a, b, c, d, e, f})
  OBVIOUS
<1> QED BY <1>1 DEF IsSeq

\* A tuple of 7 is a sequence.
LEMMA Seq7 ==
    ASSUME NEW a, NEW b, NEW c, NEW d, NEW e, NEW f, NEW g
    PROVE  IsSeq(<<a, b, c, d, e, f, g>>)
<1>1. <<a, b, c, d, e, f, g>> \in Seq({a, b, c, d, e, f, g})
  OBVIOUS
<1> QED BY <1>1 DEF IsSeq

\* A tuple of 8 is a sequence.
LEMMA Seq8 ==
    ASSUME NEW a, NEW b, NEW c, NEW d, NEW e, NEW f, NEW g, NEW h
    PROVE  IsSeq(<<a, b, c, d, e, f, g, h>>)
<1>1. <<a, b, c, d, e, f, g, h>> \in Seq({a, b, c, d, e, f, g, h})
  OBVIOUS
<1> QED BY <1>1 DEF IsSeq

\* A tuple of 9 is a sequence.
LEMMA Seq9 ==
    ASSUME NEW a, NEW b, NEW c, NEW d, NEW e, NEW f, NEW g, NEW h, NEW i
    PROVE  IsSeq(<<a, b, c, d, e, f, g, h, i>>)
<1>1. <<a, b, c, d, e, f, g, h, i>> \in Seq({a, b, c, d, e, f, g, h, i})
  OBVIOUS
<1> QED BY <1>1 DEF IsSeq

\* A tuple of 10 is a sequence.
LEMMA Seq10 ==
    ASSUME NEW a, NEW b, NEW c, NEW d, NEW e, NEW f, NEW g, NEW h, NEW i, NEW j
    PROVE  IsSeq(<<a, b, c, d, e, f, g, h, i, j>>)
<1>1. <<a, b, c, d, e, f, g, h, i, j>> \in Seq({a, b, c, d, e, f, g, h, i, j})
  OBVIOUS
<1> QED BY <1>1 DEF IsSeq

\* Programs are put together from programs, in any grouping.
LEMMA ConcatIsSeq ==
    ASSUME NEW q, NEW r, IsSeq(q), IsSeq(r)
    PROVE  IsSeq(q \o r)
<1>1. PICK S : q \in Seq(S)
  BY DEF IsSeq
<1>2. PICK T : r \in Seq(T)
  BY DEF IsSeq
<1>3. q \in Seq(S \cup T) /\ r \in Seq(S \cup T)
  BY <1>1, <1>2
<1>4. q \o r \in Seq(S \cup T)
  BY <1>3
<1> QED BY <1>4 DEF IsSeq

\* Concatenation is associative.
LEMMA Regroup ==
    ASSUME NEW q, NEW r, NEW s, IsSeq(q), IsSeq(r), IsSeq(s)
    PROVE  (q \o r) \o s = q \o (r \o s)
<1>1. PICK S : q \in Seq(S)
  BY DEF IsSeq
<1>2. PICK T : r \in Seq(T)
  BY DEF IsSeq
<1>3. PICK U : s \in Seq(U)
  BY DEF IsSeq
<1> DEFINE V == S \cup T \cup U
<1>4. q \in Seq(V) /\ r \in Seq(V) /\ s \in Seq(V)
  BY <1>1, <1>2, <1>3
<1> HIDE DEF V
<1> QED BY <1>4, ConcatAssociative

\* The head and the tail of a program that begins with a known step.
LEMMA Cons ==
    ASSUME NEW a, NEW q, IsSeq(q)
    PROVE  /\ Head(<<a>> \o q) = a /\ Tail(<<a>> \o q) = q
           /\ <<a>> \o q # <<>> /\ IsSeq(<<a>> \o q)
<1>1. PICK S : q \in Seq(S)
  BY DEF IsSeq
<1> DEFINE T == S \cup {a}
           p == <<a>> \o q
<1>2. q \in Seq(T) /\ <<a>> \in Seq(T)
  BY <1>1
<1> HIDE DEF T
<1>3. p \in Seq(T) /\ Len(p) = Len(q) + 1 /\ p[1] = a /\ Len(q) \in Nat
  BY <1>2
<1>4. \A i \in 1 .. Len(q) : p[i + 1] = q[i]
  BY <1>2
<1> HIDE DEF p
<1>5. p # <<>> /\ Head(p) = a
  BY <1>3
<1>6. Tail(p) \in Seq(T) /\ Len(Tail(p)) = Len(q)
  BY <1>3, <1>5
<1>7. \A i \in 1 .. Len(q) : Tail(p)[i] = q[i]
  BY <1>3, <1>4, <1>5
<1>8. Tail(p) = q
  BY <1>2, <1>6, <1>7, SeqEqual
<1> QED BY <1>3, <1>5, <1>8 DEF IsSeq, p

\* p is the step a followed by q.
Begins(p, a, q) ==
    /\ IsSeq(p) /\ IsSeq(q)
    /\ Len(p) = Len(q) + 1 /\ p[1] = a /\ \A i \in 1 .. Len(q) : p[i + 1] = q[i]

\* A tuple of steps in front of a program, taken apart step by step.
LEMMA TupleSplit ==
    ASSUME NEW p, NEW a, NEW q, NEW r, Begins(p, a, q), IsSeq(r)
    PROVE  p \o r = <<a>> \o (q \o r)
<1>0. /\ IsSeq(p) /\ IsSeq(q)
      /\ Len(p) = Len(q) + 1 /\ p[1] = a /\ \A i \in 1 .. Len(q) : p[i + 1] = q[i]
  BY DEF Begins
<1>1. PICK S : p \in Seq(S)
  BY <1>0 DEF IsSeq
<1>2. PICK T : q \in Seq(T)
  BY <1>0 DEF IsSeq
<1> DEFINE V == S \cup T \cup {a}
           t == <<a>> \o q
<1>3. p \in Seq(V) /\ q \in Seq(V) /\ <<a>> \in Seq(V)
  BY <1>1, <1>2
<1> HIDE DEF V
<1>4. t \in Seq(V) /\ Len(t) = Len(q) + 1 /\ Len(q) \in Nat /\ t[1] = a
  BY <1>3
<1>5. \A i \in 1 .. Len(q) : t[i + 1] = q[i]
  BY <1>3
<1> HIDE DEF t
<1>6. ASSUME NEW i \in 1 .. Len(p) PROVE p[i] = t[i]
  <2>1. CASE i = 1
    BY <2>1, <1>4, <1>0
  <2>2. CASE i # 1
    <3>1. i - 1 \in 1 .. Len(q) /\ (i - 1) + 1 = i
      BY <2>2, <1>4, <1>0
    <3> DEFINE jj == i - 1
    <3>2. jj \in 1 .. Len(q) /\ jj + 1 = i
      BY <3>1
    <3> HIDE DEF jj
    <3> QED BY <3>2, <1>5, <1>0
  <2> QED BY <2>1, <2>2
<1>7. p = t
  BY <1>0, <1>3, <1>4, <1>6, SeqEqual
<1>8. IsSeq(<<a>>)
  BY Seq1
<1>9. (<<a>> \o q) \o r = <<a>> \o (q \o r)
  BY <1>0, <1>8, Regroup
<1> QED BY <1>7, <1>9 DEF t

\* The first step of a program that begins with 2 known steps.
LEMMA Cons2 ==
    ASSUME NEW a, NEW b, NEW r, IsSeq(r)
    PROVE  <<a, b>> \o r = <<a>> \o (<<b>> \o r)
<1> DEFINE p == <<a, b>>
           q == <<b>>
<1>1. IsSeq(p) /\ IsSeq(q)
  BY Seq2, Seq1
<1>2. Len(p) = 2 /\ Len(q) = 1 /\ p[1] = a
  OBVIOUS
<1>3. \A x \in 1 .. 1 : p[x + 1] = q[x]
  OBVIOUS
<1>4. Begins(p, a, q)
  BY <1>1, <1>2, <1>3 DEF Begins
<1> HIDE DEF p, q
<1>5. p \o r = <<a>> \o (q \o r)
  BY <1>4, TupleSplit
<1> QED BY <1>5 DEF p, q

\* The first step of a program that begins with 3 known steps.
LEMMA Cons3 ==
    ASSUME NEW a, NEW b, NEW c, NEW r, IsSeq(r)
    PROVE  <<a, b, c>> \o r = <<a>> \o (<<b, c>> \o r)
<1> DEFINE p == <<a, b, c>>
           q == <<b, c>>
<1>1. IsSeq(p) /\ IsSeq(q)
  BY Seq3, Seq2
<1>2. Len(p) = 3 /\ Len(q) = 2 /\ p[1] = a
  OBVIOUS
<1>3. \A x \in 1 .. 2 : p[x + 1] = q[x]
  OBVIOUS
<1>4. Begins(p, a, q)
  BY <1>1, <1>2, <1>3 DEF Begins
<1> HIDE DEF p, q
<1>5. p \o r = <<a>> \o (q \o r)
  BY <1>4, TupleSplit
<1> QED BY <1>5 DEF p, q

\* The first step of a program that begins with 4 known steps.
LEMMA Cons4 ==
    ASSUME NEW a, NEW b, NEW c, NEW d, NEW r, IsSeq(r)
    PROVE  <<a, b, c, d>> \o r = <<a>> \o (<<b, c, d>> \o r)
<1> DEFINE p == <<a, b, c, d>>
           q == <<b, c, d>>
<1>1. IsSeq(p) /\ IsSeq(q)
  BY Seq4, Seq3
<1>2. Len(p) = 4 /\ Len(q) = 3 /\ p[1] = a
  OBVIOUS
<1>3. \A x \in 1 .. 3 : p[x + 1] = q[x]
  OBVIOUS
<1>4. Begins(p, a, q)
  BY <1>1, <1>2, <1>3 DEF Begins
<1> HIDE DEF p, q
<1>5. p \o r = <<a>> \o (q \o r)
  BY <1>4, TupleSplit
<1> QED BY <1>5 DEF p, q

\* The first step of a program that begins with 5 known steps.
LEMMA Cons5 ==
    ASSUME NEW a, NEW b, NEW c, NEW d, NEW e, NEW r, IsSeq(r)
    PROVE  <<a, b, c, d, e>> \o r = <<a>> \o (<<b, c, d, e>> \o r)
<1> DEFINE p == <<a, b, c, d, e>>
           q == <<b, c, d, e>>
<1>1. IsSeq(p) /\ IsSeq(q)
  BY Seq5, Seq4
<1>2. Len(p) = 5 /\ Len(q) = 4 /\ p[1] = a
  OBVIOUS
<1>3. \A x \in 1 .. 4 : p[x + 1] = q[x]
  OBVIOUS
<1>4. Begins(p, a, q)
  BY <1>1, <1>2, <1>3 DEF Begins
<1> HIDE DEF p, q
<1>5. p \o r = <<a>> \o (q \o r)
  BY <1>4, TupleSplit
<1> QED BY <1>5 DEF p, q

\* The first step of a program that begins with 6 known steps.
LEMMA Cons6 ==
    ASSUME NEW a, NEW b, NEW c, NEW d, NEW e, NEW f, NEW r, IsSeq(r)
    PROVE  <<a, b, c, d, e, f>> \o r = <<a>> \o (<<b, c, d, e, f>> \o r)
<1> DEFINE p == <<a, b, c, d, e, f>>
           q == <<b, c, d, e, f>>
<1>1. IsSeq(p) /\ IsSeq(q)
  BY Seq6, Seq5
<1>2. Len(p) = 6 /\ Len(q) = 5 /\ p[1] = a
  OBVIOUS
<1>3. \A x \in 1 .. 5 : p[x + 1] = q[x]
  OBVIOUS
<1>4. Begins(p, a, q)
  BY <1>1, <1>2, <1>3 DEF Begins
<1> HIDE DEF p, q
<1>5. p \o r = <<a>> \o (q \o r)
  BY <1>4, TupleSplit
<1> QED BY <1>5 DEF p, q

\* The first step of a program that begins with 7 known steps.
LEMMA Cons7 ==
    ASSUME NEW a, NEW b, NEW c, NEW d, NEW e, NEW f, NEW g, NEW r, IsSeq(r)
    PROVE  <<a, b, c, d, e, f, g>> \o r = <<a>> \o (<<b, c, d, e, f, g>> \o r)
<1> DEFINE p == <<a, b, c, d, e, f, g>>
           q == <<b, c, d, e, f, g>>
<1>1. IsSeq(p) /\ IsSeq(q)
  BY Seq7, Seq6
<1>2. Len(p) = 7 /\ Len(q) = 6 /\ p[1] = a
  OBVIOUS
<1>3. \A x \in 1 .. 6 : p[x + 1] = q[x]
  OBVIOUS
<1>4. Begins(p, a, q)
  BY <1>1, <1>2, <1>3 DEF Begins
<1> HIDE DEF p, q
<1>5. p \o r = <<a>> \o (q \o r)
  BY <1>4, TupleSplit
<1> QED BY <1>5 DEF p, q

\* The first step of a program that begins with 8 known steps.
LEMMA Cons8 ==
    ASSUME NEW a, NEW b, NEW c, NEW d, NEW e, NEW f, NEW g, NEW h, NEW r, IsSeq(r)
    PROVE  <<a, b, c, d, e, f, g, h>> \o r = <<a>> \o (<<b, c, d, e, f, g, h>> \o r)
<1> DEFINE p == <<a, b, c, d, e, f, g, h>>
           q == <<b, c, d, e, f, g, h>>
<1>1. IsSeq(p) /\ IsSeq(q)
  BY Seq8, Seq7
<1>2. Len(p) = 8 /\ Len(q) = 7 /\ p[1] = a
  OBVIOUS
<1>3. \A x \in 1 .. 7 : p[x + 1] = q[x]
  OBVIOUS
<1>4. Begins(p, a, q)
  BY <1>1, <1>2, <1>3 DEF Begins
<1> HIDE DEF p, q
<1>5. p \o r = <<a>> \o (q \o r)
  BY <1>4, TupleSplit
<1> QED BY <1>5 DEF p, q

\* The first step of a program that begins with 9 known steps.
LEMMA Cons9 ==
    ASSUME NEW a, NEW b, NEW c, NEW d, NEW e, NEW f, NEW g, NEW h, NEW i, NEW r, IsSeq(r)
    PROVE  <<a, b, c, d, e, f, g, h, i>> \o r = <<a>> \o (<<b, c, d, e, f, g, h, i>> \o r)
<1> DEFINE p == <<a, b, c, d, e, f, g, h, i>>
           q == <<b, c, d, e, f, g, h, i>>
<1>1. IsSeq(p) /\ IsSeq(q)
  BY Seq9, Seq8
<1>2. Len(p) = 9 /\ Len(q) = 8 /\ p[1] = a
  OBVIOUS
<1>3. \A x \in 1 .. 8 : p[x + 1] = q[x]
  OBVIOUS
<1>4. Begins(p, a, q)
  BY <1>1, <1>2, <1>3 DEF Begins
<1> HIDE DEF p, q
<1>5. p \o r = <<a>> \o (q \o r)
  BY <1>4, TupleSplit
<1> QED BY <1>5 DEF p, q

\* The first step of a program that begins with 10 known steps.
LEMMA Cons10 ==
    ASSUME NEW a, NEW b, NEW c, NEW d, NEW e, NEW f, NEW g, NEW h, NEW i, NEW j, NEW r, IsSeq(r)
    PROVE  <<a, b, c, d, e, f, g, h, i, j>> \o r = <<a>> \o (<<b, c, d, e, f, g, h, i, j>> \o r)
<1> DEFINE p == <<a, b, c, d, e, f, g, h, i, j>>
           q == <<b, c, d, e, f, g, h, i, j>>
<1>1. IsSeq(p) /\ IsSeq(q)
  BY Seq10, Seq9
<1>2. Len(p) = 10 /\ Len(q) = 9 /\ p[1] = a
  OBVIOUS
<1>3. \A x \in 1 .. 9 : p[x + 1] = q[x]
  OBVIOUS
<1>4. Begins(p, a, q)
  BY <1>1, <1>2, <1>3 DEF Begins
<1> HIDE DEF p, q
<1>5. p \o r = <<a>> \o (q \o r)
  BY <1>4, TupleSplit
<1> QED BY <1>5 DEF p, q

\* The same as a nest of single steps.
Same(x, y) == x = y

\* 4 known steps, one in front of the other.
LEMMA Unroll4 ==
    ASSUME NEW a, NEW b, NEW c, NEW d, NEW r, IsSeq(r)
    PROVE  Same(<<a, b, c, d>> \o r, <<a>> \o (<<b>> \o (<<c>> \o (<<d>> \o r))))
<1>1. <<a, b, c, d>> \o r = <<a>> \o (<<b, c, d>> \o r)
  BY Cons4, SMTT(40)
<1>2. <<b, c, d>> \o r = <<b>> \o (<<c, d>> \o r)
  BY Cons3, SMTT(40)
<1>3. <<c, d>> \o r = <<c>> \o (<<d>> \o r)
  BY Cons2, SMTT(40)
<1> QED BY <1>1, <1>2, <1>3 DEF Same

\* 5 known steps, one in front of the other.
LEMMA Unroll5 ==
    ASSUME NEW a, NEW b, NEW c, NEW d, NEW e, NEW r, IsSeq(r)
    PROVE  Same(<<a, b, c, d, e>> \o r, <<a>> \o (<<b>> \o (<<c>> \o (<<d>> \o (<<e>> \o r)))))
<1>1. <<a, b, c, d, e>> \o r = <<a>> \o (<<b, c, d, e>> \o r)
  BY Cons5, SMTT(40)
<1>2. <<b, c, d, e>> \o r = <<b>> \o (<<c, d, e>> \o r)
  BY Cons4, SMTT(40)
<1>3. <<c, d, e>> \o r = <<c>> \o (<<d, e>> \o r)
  BY Cons3, SMTT(40)
<1>4. <<d, e>> \o r = <<d>> \o (<<e>> \o r)
  BY Cons2, SMTT(40)
<1> QED BY <1>1, <1>2, <1>3, <1>4 DEF Same

\* 6 known steps, one in front of the other.
LEMMA Unroll6 ==
    ASSUME NEW a, NEW b, NEW c, NEW d, NEW e, NEW f, NEW r, IsSeq(r)
    PROVE  Same(<<a, b, c, d, e, f>> \o r,
               <<a>> \o (<<b>> \o (<<c>> \o (<<d>> \o (<<e>> \o (<<f>> \o r))))))
<1>1. <<a, b, c, d, e, f>> \o r = <<a>> \o (<<b, c, d, e, f>> \o r)
  BY Cons6, SMTT(40)
<1>2. <<b, c, d, e, f>> \o r = <<b>> \o (<<c, d, e, f>> \o r)
  BY Cons5, SMTT(40)
<1>3. <<c, d, e, f>> \o r = <<c>> \o (<<d, e, f>> \o r)
  BY Cons4, SMTT(40)
<1>4. <<d, e, f>> \o r = <<d>> \o (<<e, f>> \o r)
  BY Cons3, SMTT(40)
<1>5. <<e, f>> \o r = <<e>> \o (<<f>> \o r)
  BY Cons2, SMTT(40)
<1> QED BY <1>1, <1>2, <1>3, <1>4, <1>5 DEF Same

\* 7 known steps, one in front of the other.
LEMMA Unroll7 ==
    ASSUME NEW a, NEW b, NEW c, NEW d, NEW e, NEW f, NEW g, NEW r, IsSeq(r)
    PROVE  Same(<<a, b, c, d, e, f, g>> \o r,
               <<a>> \o (<<b>> \o (<<c>> \o (<<d>> \o (<<e>> \o (<<f>> \o (<<g>> \o r)))))))
<1>1. <<a, b, c, d, e, f, g>> \o r = <<a>> \o (<<b, c, d, e, f, g>> \o r)
  BY Cons7, SMTT(40)
<1>2. <<b, c, d, e, f, g>> \o r = <<b>> \o (<<c, d, e, f, g>> \o r)
  BY Cons6, SMTT(40)
<1>3. <<c, d, e, f, g>> \o r = <<c>> \o (<<d, e, f, g>> \o r)
  BY Cons5, SMTT(40)
<1>4. <<d, e, f, g>> \o r = <<d>> \o (<<e, f, g>> \o r)
  BY Cons4, SMTT(40)
<1>5. <<e, f, g>> \o r = <<e>> \o (<<f, g>> \o r)
  BY Cons3, SMTT(40)
<1>6. <<f, g>> \o r = <<f>> \o (<<g>> \o r)
  BY Cons2, SMTT(40)
<1> QED BY <1>1, <1>2, <1>3, <1>4, <1>5, <1>6 DEF Same

\* 8 known steps, one in front of the other.
LEMMA Unroll8 ==
    ASSUME NEW a, NEW b, NEW c, NEW d, NEW e, NEW f, NEW g, NEW h, NEW r, IsSeq(r)
    PROVE  Same(<<a, b, c, d, e, f, g, h>> \o r,
               <<a>> \o (<<b>> \o (<<c>> \o (<<d>> \o (<<e>> \o (<<f>> \o (<<g>> \o (<<h>> \o r))))))))
<1>1. <<a, b, c, d, e, f, g, h>> \o r = <<a>> \o (<<b, c, d, e, f, g, h>> \o r)
  BY Cons8, SMTT(40)
<1>2. <<b, c, d, e, f, g, h>> \o r = <<b>> \o (<<c, d, e, f, g, h>> \o r)
  BY Cons7, SMTT(40)
<1>3. <<c, d, e, f, g, h>> \o r = <<c>> \o (<<d, e, f, g, h>> \o r)
  BY Cons6, SMTT(40)
<1>4. <<d, e, f, g, h>> \o r = <<d>> \o (<<e, f, g, h>> \o r)
  BY Cons5, SMTT(40)
<1>5. <<e, f, g, h>> \o r = <<e>> \o (<<f, g, h>> \o r)
  BY Cons4, SMTT(40)
<1>6. <<f, g, h>> \o r = <<f>> \o (<<g, h>> \o r)
  BY Cons3, SMTT(40)
<1>7. <<g, h>> \o r = <<g>> \o (<<h>> \o r)
  BY Cons2, SMTT(40)
<1> QED BY <1>1, <1>2, <1>3, <1>4, <1>5, <1>6, <1>7 DEF Same

\* 9 known steps, one in front of the other.
LEMMA Unroll9 ==
    ASSUME NEW a, NEW b, NEW c, NEW d, NEW e, NEW f, NEW g, NEW h, NEW i, NEW r, IsSeq(r)
    PROVE  Same(<<a, b, c, d, e, f, g, h, i>> \o r,
               <<a>> \o (<<b>> \o (<<c>> \o (<<d>> \o (<<e>> \o (<<f>> \o (<<g>> \o (<<h>> \o (<<i>> \o r)))))))))
<1>1. <<a, b, c, d, e, f, g, h, i>> \o r = <<a>> \o (<<b, c, d, e, f, g, h, i>> \o r)
  BY Cons9, SMTT(40)
<1>2. <<b, c, d, e, f, g, h, i>> \o r = <<b>> \o (<<c, d, e, f, g, h, i>> \o r)
  BY Cons8, SMTT(40)
<1>3. <<c, d, e, f, g, h, i>> \o r = <<c>> \o (<<d, e, f, g, h, i>> \o r)
  BY Cons7, SMTT(40)
<1>4. <<d, e, f, g, h, i>> \o r = <<d>> \o (<<e, f, g, h, i>> \o r)
  BY Cons6, SMTT(40)
<1>5. <<e, f, g, h, i>> \o r = <<e>> \o (<<f, g, h, i>> \o r)
  BY Cons5, SMTT(40)
<1>6. <<f, g, h, i>> \o r = <<f>> \o (<<g, h, i>> \o r)
  BY Cons4, SMTT(40)
<1>7. <<g, h, i>> \o r = <<g>> \o (<<h, i>> \o r)
  BY Cons3, SMTT(40)
<1>8. <<h, i>> \o r = <<h>> \o (<<i>> \o r)
  BY Cons2, SMTT(40)
<1> QED BY <1>1, <1>2, <1>3, <1>4, <1>5, <1>6, <1>7, <1>8 DEF Same

-----------------------------------------------------------------------------
(* What a program may hold.                                                *)

\* The clients that take a reference to the service.
Native == {"Slipstream", "Dnstt"}

\* The types that the repository notes, and the kinds whose restart only waits
\* for the proxy port.
RepoTypes == {"SLIPSTREAM", "SLIPSTREAM_SSH", "DNSTT", "DNSTT_SSH", "VAYDNS",
              "VAYDNS_SSH", "SSH", "DOH", "SNOWFLAKE", "SOCKS5", "VLESS", "HYSTERIA2"}
PortOnly == {"SOCKS5", "VLESS", "VLESS_REALITY", "HYSTERIA2"}

\* Resources: the components, the references, the interface, the profile.
Ref(c) == IF c = "Slipstream" THEN "SlipstreamRef" ELSE "DnsttRef"
RefOf(t) == CASE t \in {"SLIPSTREAM", "SLIPSTREAM_SSH"} -> {"SlipstreamRef"}
              [] t \in {"DNSTT", "DNSTT_SSH"} -> {"DnsttRef"}
              [] OTHER -> {}

\* What stopCurrentProxy() stops besides the HTTP proxy.
Parts(t) ==
    CASE t = "SLIPSTREAM" -> {"SlipstreamSocks", "Slipstream"}
      [] t = "SLIPSTREAM_SSH" -> {"Ssh", "Slipstream"}
      [] t = "DNSTT" -> {"DnsttSocks", "Dnstt"}
      [] t = "VAYDNS" -> {"DnsttSocks", "Vaydns"}
      [] t = "SSH" -> {"Ssh"}
      [] t = "DNSTT_SSH" -> {"Ssh", "DnsttSocks", "Dnstt"}
      [] t = "VAYDNS_SSH" -> {"Ssh", "Vaydns"}
      [] t = "DOH" -> {"Doh"}
      [] t = "NAIVE_SSH" -> {"Ssh", "Naive"}
      [] t = "NAIVE" -> {"NaiveSocks", "Naive"}
      [] t = "SNOWFLAKE" -> {"TorSocks", "Snowflake"}
      [] t = "SOCKS5" -> {"Socks5"}
      [] t = "VLESS" -> {"Vless"}
      [] t = "HYSTERIA2" -> {"Hysteria2"}

\* The resources that cleanupConnection() gives back, and those a connection of
\* kind k takes: the Reality proxy is stopped by nobody.
Returned(t) == Parts(t) \cup RefOf(t) \cup {"Http", "Hev", "tun", "profile"}
Taken(k) == Returned(TunnelType(k)) \cup (IF k = "VLESS_REALITY" THEN {"Reality"} ELSE {})

-----------------------------------------------------------------------------
(* Safe programs.  A set X of abstract states is closed under the steps of *)
(* the programs in it; q is what is left to do, up and low bound the       *)
(* resources held from above and from below, repo is the repository's type.*)
(* p.k is the kind of the profile; a lax program may stop a client before  *)
(* its bridge; when p.loose, up does not see all that runs.                *)

NotedType(c, r) ==
    CASE c = "Slipstream" -> "SLIPSTREAM"
      [] c = "Dnstt" -> "DNSTT"
      [] c = "Vaydns" -> "VAYDNS"
      [] c = "Doh" -> "DOH"
      [] c = "TorSocks" -> "SNOWFLAKE"
      [] OTHER -> r

\* X knows a state with these or weaker bounds.
Covered(X, q, up, low, repo) ==
    \E z \in X : z.q = q /\ up \subseteq z.up /\ z.low \subseteq low /\ z.repo = repo

\* A component may be stopped when nothing that runs is in front of it.
FrontFirst(p, c, up) ==
    c \in Components /\ (p.lax \/ c \notin up \/ \A f \in up : c \notin Behind(f))

ReleaseOk(p, X, s, rest, up, low, repo) ==
    \/ /\ s.op = "stop" /\ FrontFirst(p, s.c, up)
       /\ Covered(X, rest, up \ {s.c}, low \ {s.c}, repo)
    \/ /\ s.op = "unref" /\ s.c \in Native /\ s.c \notin up
       /\ Covered(X, rest, up \ {Ref(s.c)}, low \ {Ref(s.c)}, repo)
    \/ /\ s.op = "close" /\ "Hev" \notin up
       /\ Covered(X, rest, up \ {"tun"}, low \ {"tun"}, repo)
    \/ /\ s.op = "forget" /\ ~p.lax /\ up \subseteq {"profile"}
       /\ Covered(X, rest, {}, {}, repo)

AcquireOk(p, X, s, rest, up, low, repo) ==
    \/ /\ s.op = "ref" /\ "profile" \in low /\ s.c \in Native
       /\ Covered(X, rest, up \cup {Ref(s.c)}, low \cup {Ref(s.c)}, repo)
    \/ s.op = "repo" /\ s.c \in RepoTypes /\ Covered(X, rest, up, low, s.c)
    \/ /\ s.op = "start" /\ "profile" \in low /\ s.c \in Clients \cup Listeners
       /\ s.c \in Native => Ref(s.c) \in low
       /\ Covered(X, rest, up \cup {s.c}, low \cup {s.c}, NotedType(s.c, repo))
       /\ Covered(X, s.orElse, up, low, repo)
    \/ /\ s.op = "ready"
       /\ \/ Covered(X, rest, up, low, repo)
          \/ s.c = "proxyPort" /\ ~p.loose /\ up \cap Listeners = {}
       /\ Covered(X, s.orElse, up, low, repo)
    \/ /\ s.op = "tun" /\ "profile" \in low /\ "Hev" \notin up
       /\ Covered(X, rest, up \cup {"tun", "Http"}, low \cup {"tun"}, repo)
       /\ Covered(X, s.orElse, up \cup {"Http"}, low \ {"tun"}, repo)
    \/ /\ s.op = "hev" /\ "profile" \in low /\ "tun" \in low
       /\ Covered(X, rest, up \cup {"Hev"}, low, repo)
       /\ Covered(X, RepoStopCurrentProxy(repo) \o s.orElse, up, low, "none")
    \/ /\ s.op = "retun"
       /\ Covered(X, rest, up, low, repo)
       /\ Covered(X, RepoStopCurrentProxy(repo) \o s.orElse,
                  up \ {"Hev"}, low \ {"Hev"}, "none")

EndOk(p, s, rest, up, low) ==
    \/ /\ s.op = "accept" /\ ~p.lax /\ p.phase = "starting"
       /\ s.c \in Kinds /\ (p.late => s.c \in LateKinds)
       /\ up \subseteq RefOf(TunnelType(s.c)) \cup {"tun", "profile"}
    \/ /\ rest = <<>>
       /\ \/ /\ s.op = "finish"
             /\ {"profile"} \cup RefOf(TunnelType(p.k)) \subseteq low
             /\ (p.loose /\ p.k \in PortOnly) \/ Needs(p.k) \subseteq low
          \/ s.op = "broken" /\ ("profile" \in up => RefOf(TunnelType(p.k)) \subseteq low)
          \/ s.op = "stopSelf" /\ (p.lax \/ up \cap Listeners = {})
          \/ s.op = "gone" /\ up = {}

\* The bounds and the repository's type make sense for the kind.
Within(p, up, repo) == up \subseteq Taken(p.k) /\ repo \in RepoTypes \cup {"none"}

StepOk(p, X, z) ==
    /\ z.q # <<>> /\ Within(p, z.up, z.repo)
    /\ \/ ReleaseOk(p, X, Head(z.q), Tail(z.q), z.up, z.low, z.repo)
       \/ AcquireOk(p, X, Head(z.q), Tail(z.q), z.up, z.low, z.repo)
       \/ EndOk(p, Head(z.q), Tail(z.q), z.up, z.low)

Closed(p, X) == \A z \in X : StepOk(p, X, z)

\* The program q is safe whenever at most up and at least low is held.
Safe(p, q, up, low, repo) ==
    IsSeq(q) /\ \E X : Closed(p, X) /\ Covered(X, q, up, low, repo)
-----------------------------------------------------------------------------
(* Rules for safe programs.                                                *)

\* A larger set of states covers more, and the union of closed sets is closed.
LEMMA CoveredGrows ==
    ASSUME NEW X, NEW Y, X \subseteq Y, NEW q, NEW up, NEW low, NEW repo,
           Covered(X, q, up, low, repo)
    PROVE  Covered(Y, q, up, low, repo)
BY DEF Covered

\* A step that is allowed in a set of states is allowed in a larger one.
LEMMA StepOkGrows ==
    ASSUME NEW p, NEW X, NEW Y, X \subseteq Y, NEW z, StepOk(p, X, z)
    PROVE  StepOk(p, Y, z)
<1>1. \A q, up, low, repo : Covered(X, q, up, low, repo) => Covered(Y, q, up, low, repo)
  BY CoveredGrows
<1> DEFINE s == Head(z.q)
           rest == Tail(z.q)
<1>2. ASSUME ReleaseOk(p, X, s, rest, z.up, z.low, z.repo) PROVE ReleaseOk(p, Y, s, rest, z.up,
                 z.low, z.repo)
  <2> HIDE DEF s, rest
  <2> QED BY <1>1, <1>2 DEF ReleaseOk
<1>3. ASSUME AcquireOk(p, X, s, rest, z.up, z.low, z.repo) PROVE AcquireOk(p, Y, s, rest, z.up,
                 z.low, z.repo)
  <2> HIDE DEF s, rest
  <2> QED BY <1>1, <1>3 DEF AcquireOk
<1> QED BY <1>2, <1>3 DEF StepOk

\* The union of closed sets is closed.
LEMMA ClosedUnion ==
    ASSUME NEW p, NEW X, NEW Y, Closed(p, X), Closed(p, Y)
    PROVE  Closed(p, X \cup Y)
<1> DEFINE U == X \cup Y
<1>1. X \subseteq U /\ Y \subseteq U /\ \A z \in U : z \in X \/ z \in Y
  OBVIOUS
<1> HIDE DEF U
<1>2. \A z \in U : StepOk(p, U, z)
  BY <1>1, StepOkGrows DEF Closed
<1> QED BY <1>2 DEF Closed, U

\* One closed set covers two safe programs.
LEMMA SafeBoth ==
    ASSUME NEW p, NEW q1, NEW u1, NEW l1, NEW r1, Safe(p, q1, u1, l1, r1),
           NEW q2, NEW u2, NEW l2, NEW r2, Safe(p, q2, u2, l2, r2)
    PROVE  \E X : /\ Closed(p, X)
                  /\ Covered(X, q1, u1, l1, r1) /\ Covered(X, q2, u2, l2, r2)
<1>1. PICK X : Closed(p, X) /\ Covered(X, q1, u1, l1, r1)
  BY DEF Safe
<1>2. PICK Y : Closed(p, Y) /\ Covered(Y, q2, u2, l2, r2)
  BY DEF Safe
<1> DEFINE U == X \cup Y
<1>3. X \subseteq U /\ Y \subseteq U /\ Closed(p, U)
  BY <1>1, <1>2, ClosedUnion
<1> HIDE DEF U
<1>4. Covered(U, q1, u1, l1, r1) /\ Covered(U, q2, u2, l2, r2)
  BY <1>1, <1>2, <1>3, CoveredGrows
<1> QED BY <1>3, <1>4

\* A program whose first step leads to states that X covers is safe.
LEMMA SafeCons ==
    ASSUME NEW p, NEW X, Closed(p, X), NEW s, NEW rest, IsSeq(rest),
           NEW up, NEW low, NEW repo, Within(p, up, repo),
           \/ ReleaseOk(p, X, s, rest, up, low, repo)
           \/ AcquireOk(p, X, s, rest, up, low, repo)
           \/ EndOk(p, s, rest, up, low)
    PROVE  Safe(p, <<s>> \o rest, up, low, repo)
<1> DEFINE q == <<s>> \o rest
           z == [q |-> q, up |-> up, low |-> low, repo |-> repo]
           U == X \cup {z}
<1>1. Head(q) = s /\ Tail(q) = rest /\ q # <<>> /\ IsSeq(q)
  BY Cons, SMTT(40)
<1> HIDE DEF q
<1>2. z.q = q /\ z.up = up /\ z.low = low /\ z.repo = repo
  OBVIOUS
<1> HIDE DEF z
<1>3. StepOk(p, X, z)
  BY <1>1, <1>2 DEF StepOk
<1>4. X \subseteq U /\ z \in U /\ \A y \in U : y \in X \/ y = z
  OBVIOUS
<1> HIDE DEF U
<1>5. \A y \in U : StepOk(p, U, y)
  BY <1>3, <1>4, StepOkGrows DEF Closed
<1>6. Covered(U, q, up, low, repo)
  BY <1>2, <1>4 DEF Covered
<1> QED BY <1>1, <1>5, <1>6 DEF Safe, Closed, q

\* The same for the last step of a program.
LEMMA SafeEnd ==
    ASSUME NEW p, NEW s, NEW up, NEW low, NEW repo, Within(p, up, repo),
           EndOk(p, s, <<>>, up, low)
    PROVE  Safe(p, <<s>>, up, low, repo)
<1>1. Closed(p, {})
  BY DEF Closed
<1>2. IsSeq(<<>>)
  BY DEF IsSeq
<1>3. <<s>> \o <<>> = <<s>>
  <2>1. <<s>> \in Seq({s})
    OBVIOUS
  <2> QED BY <2>1, ConcatEmptySeq
<1>4. Safe(p, <<s>> \o <<>>, up, low, repo)
  BY <1>1, <1>2, SafeCons
<1> QED BY <1>3, <1>4

\* Safety needs no more than its bounds.
LEMMA SafeWeaken ==
    ASSUME NEW p, NEW q, NEW up, NEW low, NEW repo, Safe(p, q, up, low, repo),
           NEW up1, NEW low1, up1 \subseteq up, low \subseteq low1
    PROVE  Safe(p, q, up1, low1, repo)
<1>1. PICK X : Closed(p, X) /\ Covered(X, q, up, low, repo)
  BY DEF Safe
<1>2. Covered(X, q, up1, low1, repo)
  BY <1>1 DEF Covered
<1> QED BY <1>1, <1>2 DEF Safe

\* A component may be stopped once nothing in front of it runs.
LEMMA RuleStop ==
    ASSUME NEW p, NEW q, NEW up, NEW low, NEW repo, Within(p, up, repo), NEW c, FrontFirst(p, c,
               up),
           NEW u, NEW l, Safe(p, q, u, l, repo), up \ {c} \subseteq u, l \subseteq low \ {c}
    PROVE  Safe(p, <<Stop(c)>> \o q, up, low, repo)
<1> DEFINE s == Stop(c)
<1>1. PICK X : Closed(p, X) /\ Covered(X, q, u, l, repo)
  BY DEF Safe
<1>2. Covered(X, q, up \ {c}, low \ {c}, repo)
  BY <1>1 DEF Covered
<1>3. IsSeq(q) /\ s.op = "stop" /\ s.c = c
  BY DEF Safe, Stop, Do
<1> HIDE DEF s
<1>4. ReleaseOk(p, X, s, q, up, low, repo)
  BY <1>2, <1>3 DEF ReleaseOk
<1>5. Safe(p, <<s>> \o q, up, low, repo)
  BY <1>1, <1>3, <1>4, SafeCons
<1> QED BY <1>5 DEF s

\* A reference may be cleared once its client does not run.
LEMMA RuleUnref ==
    ASSUME NEW p, NEW q, NEW up, NEW low, NEW repo, Within(p, up, repo), NEW c, c \in Native,
               c \notin up,
           NEW u, NEW l, Safe(p, q, u, l, repo), up \ {Ref(c)} \subseteq u,
               l \subseteq low \ {Ref(c)}
    PROVE  Safe(p, <<Do("unref", c)>> \o q, up, low, repo)
<1> DEFINE s == Do("unref", c)
<1>1. PICK X : Closed(p, X) /\ Covered(X, q, u, l, repo)
  BY DEF Safe
<1>2. Covered(X, q, up \ {Ref(c)}, low \ {Ref(c)}, repo)
  BY <1>1 DEF Covered
<1>3. IsSeq(q) /\ s.op = "unref" /\ s.c = c
  BY DEF Safe, Do
<1> HIDE DEF s
<1>4. ReleaseOk(p, X, s, q, up, low, repo)
  BY <1>2, <1>3 DEF ReleaseOk
<1>5. Safe(p, <<s>> \o q, up, low, repo)
  BY <1>1, <1>3, <1>4, SafeCons
<1> QED BY <1>5 DEF s

\* The interface may be closed once tun2socks does not run.
LEMMA RuleClose ==
    ASSUME NEW p, NEW q, NEW up, NEW low, NEW repo, Within(p, up, repo), "Hev" \notin up,
           NEW u, NEW l, Safe(p, q, u, l, repo), up \ {"tun"} \subseteq u, l \subseteq low \ {"tun"}
    PROVE  Safe(p, <<Close>> \o q, up, low, repo)
<1> DEFINE s == Close
<1>1. PICK X : Closed(p, X) /\ Covered(X, q, u, l, repo)
  BY DEF Safe
<1>2. Covered(X, q, up \ {"tun"}, low \ {"tun"}, repo)
  BY <1>1 DEF Covered
<1>3. IsSeq(q) /\ s.op = "close" /\ s.c = "-"
  BY DEF Safe, Close, Do
<1> HIDE DEF s
<1>4. ReleaseOk(p, X, s, q, up, low, repo)
  BY <1>2, <1>3 DEF ReleaseOk
<1>5. Safe(p, <<s>> \o q, up, low, repo)
  BY <1>1, <1>3, <1>4, SafeCons
<1> QED BY <1>5 DEF s

\* The profile may be forgotten once nothing else is held.
LEMMA RuleForget ==
    ASSUME NEW p, NEW q, NEW up, NEW low, NEW repo, Within(p, up, repo), ~p.lax,
               up \subseteq {"profile"},
           NEW u, NEW l, Safe(p, q, u, l, repo), {} \subseteq u, l \subseteq {}
    PROVE  Safe(p, <<Do("forget", "-")>> \o q, up, low, repo)
<1> DEFINE s == Do("forget", "-")
<1>1. PICK X : Closed(p, X) /\ Covered(X, q, u, l, repo)
  BY DEF Safe
<1>2. Covered(X, q, {}, {}, repo)
  BY <1>1 DEF Covered
<1>3. IsSeq(q) /\ s.op = "forget" /\ s.c = "-"
  BY DEF Safe, Do
<1> HIDE DEF s
<1>4. ReleaseOk(p, X, s, q, up, low, repo)
  BY <1>2, <1>3 DEF ReleaseOk
<1>5. Safe(p, <<s>> \o q, up, low, repo)
  BY <1>1, <1>3, <1>4, SafeCons
<1> QED BY <1>5 DEF s

\* A reference may be set.
LEMMA RuleRef ==
    ASSUME NEW p, NEW q, NEW up, NEW low, NEW repo, Within(p, up, repo), NEW c, c \in Native,
               "profile" \in low,
           NEW u, NEW l, Safe(p, q, u, l, repo), up \cup {Ref(c)} \subseteq u,
               l \subseteq low \cup {Ref(c)}
    PROVE  Safe(p, <<Do("ref", c)>> \o q, up, low, repo)
<1> DEFINE s == Do("ref", c)
<1>1. PICK X : Closed(p, X) /\ Covered(X, q, u, l, repo)
  BY DEF Safe
<1>2. Covered(X, q, up \cup {Ref(c)}, low \cup {Ref(c)}, repo)
  BY <1>1 DEF Covered
<1>3. IsSeq(q) /\ s.op = "ref" /\ s.c = c
  BY DEF Safe, Do
<1> HIDE DEF s
<1>4. AcquireOk(p, X, s, q, up, low, repo)
  BY <1>2, <1>3 DEF AcquireOk
<1>5. Safe(p, <<s>> \o q, up, low, repo)
  BY <1>1, <1>3, <1>4, SafeCons
<1> QED BY <1>5 DEF s

\* The repository may note a type.
LEMMA RuleRepo ==
    ASSUME NEW p, NEW q, NEW up, NEW low, NEW repo, Within(p, up, repo), NEW c, c \in RepoTypes,
           NEW u, NEW l, Safe(p, q, u, l, c), up \subseteq u, l \subseteq low
    PROVE  Safe(p, <<Do("repo", c)>> \o q, up, low, repo)
<1> DEFINE s == Do("repo", c)
<1>1. PICK X : Closed(p, X) /\ Covered(X, q, u, l, c)
  BY DEF Safe
<1>2. Covered(X, q, up, low, c)
  BY <1>1 DEF Covered
<1>3. IsSeq(q) /\ s.op = "repo" /\ s.c = c
  BY DEF Safe, Do
<1> HIDE DEF s
<1>4. AcquireOk(p, X, s, q, up, low, repo)
  BY <1>2, <1>3 DEF AcquireOk
<1>5. Safe(p, <<s>> \o q, up, low, repo)
  BY <1>1, <1>3, <1>4, SafeCons
<1> QED BY <1>5 DEF s

\* A component may be started, a native client with its reference.
LEMMA RuleStart ==
    ASSUME NEW p, NEW q, NEW up, NEW low, NEW repo, Within(p, up, repo), NEW c, NEW v,
               c \in Clients \cup Listeners,
           c \in Native => Ref(c) \in low, "profile" \in low,
           NEW u, NEW l, Safe(p, q, u, l, NotedType(c, repo)),
           up \cup {c} \subseteq u, l \subseteq low \cup {c},
           NEW u2, NEW l2, Safe(p, v, u2, l2, repo),
           up \subseteq u2, l2 \subseteq low
    PROVE  Safe(p, <<Try("start", c, v)>> \o q, up, low, repo)
<1> DEFINE s == Try("start", c, v)
<1>1. PICK X : /\ Closed(p, X) /\ Covered(X, q, u, l, NotedType(c, repo))
              /\ Covered(X, v, u2, l2, repo)
  BY SafeBoth
<1>2. Covered(X, q, up \cup {c}, low \cup {c}, NotedType(c, repo))
  BY <1>1 DEF Covered
<1>3. Covered(X, v, up, low, repo)
  BY <1>1 DEF Covered
<1>4. IsSeq(q) /\ s.op = "start" /\ s.c = c /\ s.orElse = v
  BY DEF Safe, Try
<1> HIDE DEF s
<1>5. AcquireOk(p, X, s, q, up, low, repo)
  BY <1>2, <1>3, <1>4 DEF AcquireOk
<1>6. Safe(p, <<s>> \o q, up, low, repo)
  BY <1>1, <1>4, <1>5, SafeCons
<1> QED BY <1>6 DEF s

\* Waiting for a component changes nothing.
LEMMA RuleReady ==
    ASSUME NEW p, NEW q, NEW up, NEW low, NEW repo, Within(p, up, repo), NEW c, NEW v,
           NEW u, NEW l, Safe(p, q, u, l, repo),
           up \subseteq u, l \subseteq low,
           NEW u2, NEW l2, Safe(p, v, u2, l2, repo),
           up \subseteq u2, l2 \subseteq low
    PROVE  Safe(p, <<Try("ready", c, v)>> \o q, up, low, repo)
<1> DEFINE s == Try("ready", c, v)
<1>1. PICK X : /\ Closed(p, X) /\ Covered(X, q, u, l, repo)
              /\ Covered(X, v, u2, l2, repo)
  BY SafeBoth
<1>2. Covered(X, q, up, low, repo)
  BY <1>1 DEF Covered
<1>3. Covered(X, v, up, low, repo)
  BY <1>1 DEF Covered
<1>4. IsSeq(q) /\ s.op = "ready" /\ s.c = c /\ s.orElse = v
  BY DEF Safe, Try
<1> HIDE DEF s
<1>5. AcquireOk(p, X, s, q, up, low, repo)
  BY <1>2, <1>3, <1>4 DEF AcquireOk
<1>6. Safe(p, <<s>> \o q, up, low, repo)
  BY <1>1, <1>4, <1>5, SafeCons
<1> QED BY <1>6 DEF s

\* The interface may be opened while tun2socks does not run.
LEMMA RuleTun ==
    ASSUME NEW p, NEW q, NEW up, NEW low, NEW repo, Within(p, up, repo), NEW v, "Hev" \notin up,
               "profile" \in low,
           NEW u, NEW l, Safe(p, q, u, l, repo),
           up \cup {"tun", "Http"} \subseteq u, l \subseteq low \cup {"tun"},
           NEW u2, NEW l2, Safe(p, v, u2, l2, repo),
           up \cup {"Http"} \subseteq u2, l2 \subseteq low \ {"tun"}
    PROVE  Safe(p, <<Try("tun", "-", v)>> \o q, up, low, repo)
<1> DEFINE s == Try("tun", "-", v)
<1>1. PICK X : /\ Closed(p, X) /\ Covered(X, q, u, l, repo)
              /\ Covered(X, v, u2, l2, repo)
  BY SafeBoth
<1>2. Covered(X, q, up \cup {"tun", "Http"}, low \cup {"tun"}, repo)
  BY <1>1 DEF Covered
<1>3. Covered(X, v, up \cup {"Http"}, low \ {"tun"}, repo)
  BY <1>1 DEF Covered
<1>4. IsSeq(q) /\ s.op = "tun" /\ s.c = "-" /\ s.orElse = v
  BY DEF Safe, Try
<1> HIDE DEF s
<1>5. AcquireOk(p, X, s, q, up, low, repo)
  BY <1>2, <1>3, <1>4 DEF AcquireOk
<1>6. Safe(p, <<s>> \o q, up, low, repo)
  BY <1>1, <1>4, <1>5, SafeCons
<1> QED BY <1>6 DEF s

\* tun2socks may be started on an interface.
LEMMA RuleHev ==
    ASSUME NEW p, NEW q, NEW up, NEW low, NEW repo, Within(p, up, repo), NEW v, "tun" \in low,
               "profile" \in low,
           NEW u, NEW l, Safe(p, q, u, l, repo),
           up \cup {"Hev"} \subseteq u, l \subseteq low,
           NEW u2, NEW l2, Safe(p, RepoStopCurrentProxy(repo) \o v, u2, l2, "none"),
           up \subseteq u2, l2 \subseteq low
    PROVE  Safe(p, <<Try("hev", "-", v)>> \o q, up, low, repo)
<1> DEFINE s == Try("hev", "-", v)
<1>1. PICK X : /\ Closed(p, X) /\ Covered(X, q, u, l, repo)
              /\ Covered(X, RepoStopCurrentProxy(repo) \o v, u2, l2, "none")
  BY SafeBoth
<1>2. Covered(X, q, up \cup {"Hev"}, low, repo)
  BY <1>1 DEF Covered
<1>3. Covered(X, RepoStopCurrentProxy(repo) \o v, up, low, "none")
  BY <1>1 DEF Covered
<1>4. IsSeq(q) /\ s.op = "hev" /\ s.c = "-" /\ s.orElse = v
  BY DEF Safe, Try
<1> HIDE DEF s
<1>5. AcquireOk(p, X, s, q, up, low, repo)
  BY <1>2, <1>3, <1>4 DEF AcquireOk
<1>6. Safe(p, <<s>> \o q, up, low, repo)
  BY <1>1, <1>4, <1>5, SafeCons
<1> QED BY <1>6 DEF s

\* tun2socks may be looked at.
LEMMA RuleRetun ==
    ASSUME NEW p, NEW q, NEW up, NEW low, NEW repo, Within(p, up, repo), NEW v,
           NEW u, NEW l, Safe(p, q, u, l, repo),
           up \subseteq u, l \subseteq low,
           NEW u2, NEW l2, Safe(p, RepoStopCurrentProxy(repo) \o v, u2, l2, "none"),
           up \ {"Hev"} \subseteq u2, l2 \subseteq low \ {"Hev"}
    PROVE  Safe(p, <<Try("retun", "-", v)>> \o q, up, low, repo)
<1> DEFINE s == Try("retun", "-", v)
<1>1. PICK X : /\ Closed(p, X) /\ Covered(X, q, u, l, repo)
              /\ Covered(X, RepoStopCurrentProxy(repo) \o v, u2, l2, "none")
  BY SafeBoth
<1>2. Covered(X, q, up, low, repo)
  BY <1>1 DEF Covered
<1>3. Covered(X, RepoStopCurrentProxy(repo) \o v, up \ {"Hev"}, low \ {"Hev"}, "none")
  BY <1>1 DEF Covered
<1>4. IsSeq(q) /\ s.op = "retun" /\ s.c = "-" /\ s.orElse = v
  BY DEF Safe, Try
<1> HIDE DEF s
<1>5. AcquireOk(p, X, s, q, up, low, repo)
  BY <1>2, <1>3, <1>4 DEF AcquireOk
<1>6. Safe(p, <<s>> \o q, up, low, repo)
  BY <1>1, <1>4, <1>5, SafeCons
<1> QED BY <1>6 DEF s

\* Nothing answers on a port that nothing listens on.
LEMMA RulePort ==
    ASSUME NEW p, NEW q, NEW up, NEW low, NEW repo, Within(p, up, repo), 
           NEW v, NEW u, NEW l, Safe(p, v, u, l, repo), up \subseteq u, l \subseteq low,
           IsSeq(q), ~p.loose, up \cap Listeners = {}
    PROVE  Safe(p, <<Try("ready", "proxyPort", v)>> \o q, up, low, repo)
<1> DEFINE s == Try("ready", "proxyPort", v)
<1>1. PICK X : Closed(p, X) /\ Covered(X, v, u, l, repo)
  BY DEF Safe
<1>2. Covered(X, v, up, low, repo)
  BY <1>1 DEF Covered
<1>3. IsSeq(q) /\ s.op = "ready" /\ s.c = "proxyPort" /\ s.orElse = v
  BY DEF Safe, Try
<1> HIDE DEF s
<1>4. AcquireOk(p, X, s, q, up, low, repo)
  BY <1>2, <1>3 DEF AcquireOk
<1>5. Safe(p, <<s>> \o q, up, low, repo)
  BY <1>1, <1>3, <1>4, SafeCons
<1> QED BY <1>5 DEF s

\* connect() goes on with a profile once nothing of the old one runs.
LEMMA RuleAccept ==
    ASSUME NEW p, NEW up, NEW low, NEW repo, Within(p, up, repo), NEW c \in Kinds, ~p.lax,
           p.phase = "starting", p.late => c \in LateKinds,
           up \subseteq RefOf(TunnelType(c)) \cup {"tun", "profile"}
    PROVE  Safe(p, <<Do("accept", c)>>, up, low, repo)
<1> DEFINE s == Do("accept", c)
<1>1. s.op = "accept" /\ s.c = c
  BY DEF Do
<1> HIDE DEF s
<1>2. EndOk(p, s, <<>>, up, low)
  BY <1>1 DEF EndOk
<1>3. Safe(p, <<s>>, up, low, repo)
  BY <1>2, SafeEnd
<1> QED BY <1>3 DEF s

\* A connection is complete when all parts of its proxy run.
LEMMA RuleFinish ==
    ASSUME NEW p, NEW up, NEW low, NEW repo, Within(p, up, repo),
           "profile" \in low, RefOf(TunnelType(p.k)) \subseteq low,
           (p.loose /\ p.k \in PortOnly) \/ Needs(p.k) \subseteq low
    PROVE  Safe(p, <<Do("finish", "-")>>, up, low, repo)
<1> DEFINE s == Do("finish", "-")
<1>1. s.op = "finish" /\ s.c = "-"
  BY DEF Do
<1> HIDE DEF s
<1>2. EndOk(p, s, <<>>, up, low)
  BY <1>1 DEF EndOk
<1>3. Safe(p, <<s>>, up, low, repo)
  BY <1>2, SafeEnd
<1> QED BY <1>3 DEF s

\* A failed restart keeps the reference.
LEMMA RuleBroken ==
    ASSUME NEW p, NEW up, NEW low, NEW repo, Within(p, up, repo),
           "profile" \in up => RefOf(TunnelType(p.k)) \subseteq low
    PROVE  Safe(p, <<Broken>>, up, low, repo)
<1> DEFINE s == Broken
<1>1. s.op = "broken" /\ s.c = "-"
  BY DEF Broken, Do
<1> HIDE DEF s
<1>2. EndOk(p, s, <<>>, up, low)
  BY <1>1 DEF EndOk
<1>3. Safe(p, <<s>>, up, low, repo)
  BY <1>2, SafeEnd
<1> QED BY <1>3 DEF s

\* A program that gives up has stopped what listens.
LEMMA RuleStopSelf ==
    ASSUME NEW p, NEW up, NEW low, NEW repo, Within(p, up, repo),
           p.lax \/ up \cap Listeners = {}
    PROVE  Safe(p, <<StopSelf>>, up, low, repo)
<1> DEFINE s == StopSelf
<1>1. s.op = "stopSelf" /\ s.c = "-"
  BY DEF StopSelf, Do
<1> HIDE DEF s
<1>2. EndOk(p, s, <<>>, up, low)
  BY <1>1 DEF EndOk
<1>3. Safe(p, <<s>>, up, low, repo)
  BY <1>2, SafeEnd
<1> QED BY <1>3 DEF s

\* A service that is destroyed holds nothing.
LEMMA RuleGone ==
    ASSUME NEW p, NEW up, NEW low, NEW repo, Within(p, up, repo), up = {}
    PROVE  Safe(p, <<Do("gone", "-")>>, up, low, repo)
<1> DEFINE s == Do("gone", "-")
<1>1. s.op = "gone" /\ s.c = "-"
  BY DEF Do
<1> HIDE DEF s
<1>2. EndOk(p, s, <<>>, up, low)
  BY <1>1 DEF EndOk
<1>3. Safe(p, <<s>>, up, low, repo)
  BY <1>2, SafeEnd
<1> QED BY <1>3 DEF s
-----------------------------------------------------------------------------
(* The programs that only stop, clear and close.                           *)

\* The fronts of each client; nothing is in front of anything else.
LEMMA Fronts ==
    ASSUME NEW f
    PROVE  /\ Behind(f) \subseteq Clients
           /\ "Slipstream" \in Behind(f) => f \in {"SlipstreamSocks", "Ssh"}
           /\ "Dnstt" \in Behind(f) => f \in {"DnsttSocks", "Ssh"}
           /\ "Vaydns" \in Behind(f) => f \in {"DnsttSocks", "Ssh"}
           /\ "Naive" \in Behind(f) => f \in {"NaiveSocks", "Ssh"}
           /\ "Snowflake" \in Behind(f) => f = "TorSocks"
BY DEF Behind, Clients

\* A component that is no client may be stopped at any time, a client when it has
\* no front.
LEMMA FrontFirstListener ==
    ASSUME NEW p, NEW up, NEW c \in Components, c \notin Clients
    PROVE  FrontFirst(p, c, up)
BY Fronts DEF FrontFirst

\* A client may be stopped when nothing in front of it runs.
LEMMA FrontFirstClient ==
    ASSUME NEW p, NEW up
    PROVE  /\ up \cap {"SlipstreamSocks", "Ssh"} = {} => FrontFirst(p, "Slipstream", up)
           /\ up \cap {"DnsttSocks", "Ssh"} = {} => FrontFirst(p, "Dnstt", up)
           /\ up \cap {"DnsttSocks", "Ssh"} = {} => FrontFirst(p, "Vaydns", up)
           /\ up \cap {"NaiveSocks", "Ssh"} = {} => FrontFirst(p, "Naive", up)
           /\ "TorSocks" \notin up => FrontFirst(p, "Snowflake", up)
BY Fronts DEF FrontFirst, Components, Clients

\* What is given back keeps the bounds.
LEMMA WithinShrinks ==
    ASSUME NEW p, NEW up, NEW repo, Within(p, up, repo), NEW u, u \subseteq up
    PROVE  Within(p, u, repo)
BY DEF Within

\* One, two or three components behind the HTTP proxy.
LEMMA StopTwo ==
    ASSUME NEW p, NEW q, NEW up, NEW low, NEW repo, Within(p, up, repo),
           NEW a, NEW b, FrontFirst(p, a, up), FrontFirst(p, b, up \ {a}),
           Safe(p, q, up \ {a, b}, low \ {a, b}, repo)
    PROVE  Safe(p, <<Stop(a), Stop(b)>> \o q, up, low, repo)
<1> DEFINE u == up \ {a}
           l == low \ {a}
           ra == <<Stop(a)>>
           rb == <<Stop(b)>>
<1>1. Within(p, u, repo) /\ FrontFirst(p, b, u) /\ u \ {b} \subseteq up \ {a, b}
      /\ low \ {a, b} \subseteq l \ {b} /\ u \subseteq up
  BY WithinShrinks
<1>2. Safe(p, rb \o q, u, l, repo)
  <2> HIDE DEF u, l
  <2> QED BY <1>1, RuleStop
<1>3. Safe(p, ra \o (rb \o q), up, low, repo)
  <2> HIDE DEF rb
  <2> QED BY <1>2, RuleStop
<1>4. IsSeq(q)
  BY DEF Safe
<1>5. <<Stop(a), Stop(b)>> \o q = ra \o (rb \o q)
  BY <1>4, Cons2
<1> QED BY <1>3, <1>5

\* The types stopCurrentProxy() knows are those of the profiles.
Types == {"SLIPSTREAM", "SLIPSTREAM_SSH", "DNSTT", "DNSTT_SSH", "VAYDNS", "VAYDNS_SSH",
          "SSH", "DOH", "NAIVE", "NAIVE_SSH", "SNOWFLAKE", "SOCKS5", "VLESS", "HYSTERIA2"}

\* Three components, each behind the one before.
LEMMA StopThree ==
    ASSUME NEW p, NEW q, NEW up, NEW low, NEW repo, Within(p, up, repo),
           NEW a, NEW b, NEW c, FrontFirst(p, a, up), FrontFirst(p, b, up \ {a}),
           FrontFirst(p, c, up \ {a, b}),
           Safe(p, q, up \ {a, b, c}, low \ {a, b, c}, repo)
    PROVE  Safe(p, <<Stop(a), Stop(b), Stop(c)>> \o q, up, low, repo)
<1> DEFINE u == up \ {a}
           l == low \ {a}
           r == <<Stop(b), Stop(c)>> \o q
<1>1. /\ Within(p, u, repo) /\ FrontFirst(p, b, u) /\ u \subseteq up
      /\ u \ {b} = up \ {a, b} /\ u \ {b, c} = up \ {a, b, c} /\ l \ {b, c} = low \ {a, b, c}
  BY WithinShrinks
<1>2. FrontFirst(p, c, u \ {b}) /\ Safe(p, q, u \ {b, c}, l \ {b, c}, repo)
  BY <1>1
<1>3. Safe(p, r, u, l, repo)
  <2> HIDE DEF u, l
  <2> QED BY <1>1, <1>2, StopTwo
<1>4. Safe(p, <<Stop(a)>> \o r, up, low, repo)
  <2> HIDE DEF r
  <2> QED BY <1>3, RuleStop
<1>5. IsSeq(q)
  BY DEF Safe
<1>6. <<Stop(a), Stop(b), Stop(c)>> \o q = <<Stop(a)>> \o r
  BY <1>5, Cons3
<1> QED BY <1>4, <1>6

\* stopCurrentProxy() is a sequence of stops.
LEMMA ProxyIsSeq ==
    ASSUME NEW t \in Types
    PROVE  IsSeq(StopCurrentProxy(t))
<1>1. ASSUME NEW body, IsSeq(body) PROVE IsSeq(<<Stop("Http")>> \o body)
  BY <1>1, Seq1, ConcatIsSeq
<1> QED BY <1>1, Seq1, Seq2, Seq3 DEF StopCurrentProxy, Types

\* stopCurrentProxy() may run at any time, whatever of its type runs.
LEMMA StopProxySafe ==
    ASSUME NEW p, NEW t \in Types, NEW q, NEW up, NEW low, NEW repo, Within(p, up, repo),
           up \subseteq Returned(t),
           Safe(p, q, up \ ({"Http"} \cup Parts(t)), low \ ({"Http"} \cup Parts(t)), repo)
    PROVE  /\ IsSeq(StopCurrentProxy(t))
           /\ Safe(p, StopCurrentProxy(t) \o q, up, low, repo)
<1> DEFINE u == up \ {"Http"}
           l == low \ {"Http"}
           h == <<Stop("Http")>>
<1>1. Within(p, u, repo) /\ u \subseteq Returned(t) /\ IsSeq(q) /\ IsSeq(h)
      /\ u \subseteq up
  BY WithinShrinks, Seq1 DEF Safe
<1>2. Safe(p, q, u \ Parts(t), l \ Parts(t), repo)
  <2>1. u \ Parts(t) = up \ ({"Http"} \cup Parts(t)) /\ l \ Parts(t) = low \ ({"Http"} \cup Parts(t))
    OBVIOUS
  <2> QED BY <2>1
<1>3. ASSUME NEW body, IsSeq(body), StopCurrentProxy(t) = h \o body, Safe(p, body \o q, u, l, repo)
      PROVE  /\ IsSeq(StopCurrentProxy(t))
             /\ Safe(p, StopCurrentProxy(t) \o q, up, low, repo)
  <2>1. FrontFirst(p, "Http", up)
    BY FrontFirstListener DEF Components, Clients, Listeners
  <2>2. Safe(p, <<Stop("Http")>> \o (body \o q), up, low, repo)
    BY <1>3, <2>1, RuleStop
  <2>3. (h \o body) \o q = h \o (body \o q)
    <3> HIDE DEF h
    <3> QED BY <1>1, <1>3, Regroup, SMTT(40)
  <2>4. IsSeq(h \o body)
    <3> HIDE DEF h
    <3> QED BY <1>1, <1>3, ConcatIsSeq
  <2> QED BY <1>3, <2>2, <2>3, <2>4
<1> HIDE DEF u, l
<1>4. CASE t = "SLIPSTREAM"
  <2> DEFINE a == "SlipstreamSocks"
             b == "Slipstream"
             body == <<Stop(a), Stop(b)>>
  <2>1. Parts(t) = {a, b} /\ StopCurrentProxy(t) = h \o body
    BY <1>4 DEF Parts, StopCurrentProxy
  <2>2. Safe(p, q, u \ {a, b}, l \ {a, b}, repo)
    BY <1>2, <2>1
  <2>3. u \ {a} \subseteq {b, "Http", "Hev", "tun", "profile"} \cup RefOf(t)
    BY <1>1, <2>1 DEF Returned
  <2>4. FrontFirst(p, a, u) /\ FrontFirst(p, b, u \ {a})
    BY <1>4, <2>3, FrontFirstListener, FrontFirstClient DEF Components, Clients, Listeners, RefOf
  <2> HIDE DEF a, b
  <2>5. Safe(p, body \o q, u, l, repo) /\ IsSeq(body)
    BY <1>1, <2>2, <2>4, StopTwo, Seq2
  <2> QED BY <1>3, <2>1, <2>5
<1>5. CASE t = "SLIPSTREAM_SSH"
  <2> DEFINE a == "Ssh"
             b == "Slipstream"
             body == <<Stop(a), Stop(b)>>
  <2>1. Parts(t) = {a, b} /\ StopCurrentProxy(t) = h \o body
    BY <1>5 DEF Parts, StopCurrentProxy
  <2>2. Safe(p, q, u \ {a, b}, l \ {a, b}, repo)
    BY <1>2, <2>1
  <2>3. u \ {a} \subseteq {b, "Http", "Hev", "tun", "profile"} \cup RefOf(t)
    BY <1>1, <2>1 DEF Returned
  <2>4. FrontFirst(p, a, u) /\ FrontFirst(p, b, u \ {a})
    BY <1>5, <2>3, FrontFirstListener, FrontFirstClient DEF Components, Clients, Listeners, RefOf
  <2> HIDE DEF a, b
  <2>5. Safe(p, body \o q, u, l, repo) /\ IsSeq(body)
    BY <1>1, <2>2, <2>4, StopTwo, Seq2
  <2> QED BY <1>3, <2>1, <2>5
<1>6. CASE t = "DNSTT"
  <2> DEFINE a == "DnsttSocks"
             b == "Dnstt"
             body == <<Stop(a), Stop(b)>>
  <2>1. Parts(t) = {a, b} /\ StopCurrentProxy(t) = h \o body
    BY <1>6 DEF Parts, StopCurrentProxy
  <2>2. Safe(p, q, u \ {a, b}, l \ {a, b}, repo)
    BY <1>2, <2>1
  <2>3. u \ {a} \subseteq {b, "Http", "Hev", "tun", "profile"} \cup RefOf(t)
    BY <1>1, <2>1 DEF Returned
  <2>4. FrontFirst(p, a, u) /\ FrontFirst(p, b, u \ {a})
    BY <1>6, <2>3, FrontFirstListener, FrontFirstClient DEF Components, Clients, Listeners, RefOf
  <2> HIDE DEF a, b
  <2>5. Safe(p, body \o q, u, l, repo) /\ IsSeq(body)
    BY <1>1, <2>2, <2>4, StopTwo, Seq2
  <2> QED BY <1>3, <2>1, <2>5
<1>7. CASE t = "VAYDNS"
  <2> DEFINE a == "DnsttSocks"
             b == "Vaydns"
             body == <<Stop(a), Stop(b)>>
  <2>1. Parts(t) = {a, b} /\ StopCurrentProxy(t) = h \o body
    BY <1>7 DEF Parts, StopCurrentProxy
  <2>2. Safe(p, q, u \ {a, b}, l \ {a, b}, repo)
    BY <1>2, <2>1
  <2>3. u \ {a} \subseteq {b, "Http", "Hev", "tun", "profile"} \cup RefOf(t)
    BY <1>1, <2>1 DEF Returned
  <2>4. FrontFirst(p, a, u) /\ FrontFirst(p, b, u \ {a})
    BY <1>7, <2>3, FrontFirstListener, FrontFirstClient DEF Components, Clients, Listeners, RefOf
  <2> HIDE DEF a, b
  <2>5. Safe(p, body \o q, u, l, repo) /\ IsSeq(body)
    BY <1>1, <2>2, <2>4, StopTwo, Seq2
  <2> QED BY <1>3, <2>1, <2>5
<1>8. CASE t = "VAYDNS_SSH"
  <2> DEFINE a == "Ssh"
             b == "Vaydns"
             body == <<Stop(a), Stop(b)>>
  <2>1. Parts(t) = {a, b} /\ StopCurrentProxy(t) = h \o body
    BY <1>8 DEF Parts, StopCurrentProxy
  <2>2. Safe(p, q, u \ {a, b}, l \ {a, b}, repo)
    BY <1>2, <2>1
  <2>3. u \ {a} \subseteq {b, "Http", "Hev", "tun", "profile"} \cup RefOf(t)
    BY <1>1, <2>1 DEF Returned
  <2>4. FrontFirst(p, a, u) /\ FrontFirst(p, b, u \ {a})
    BY <1>8, <2>3, FrontFirstListener, FrontFirstClient DEF Components, Clients, Listeners, RefOf
  <2> HIDE DEF a, b
  <2>5. Safe(p, body \o q, u, l, repo) /\ IsSeq(body)
    BY <1>1, <2>2, <2>4, StopTwo, Seq2
  <2> QED BY <1>3, <2>1, <2>5
<1>9. CASE t = "NAIVE_SSH"
  <2> DEFINE a == "Ssh"
             b == "Naive"
             body == <<Stop(a), Stop(b)>>
  <2>1. Parts(t) = {a, b} /\ StopCurrentProxy(t) = h \o body
    BY <1>9 DEF Parts, StopCurrentProxy
  <2>2. Safe(p, q, u \ {a, b}, l \ {a, b}, repo)
    BY <1>2, <2>1
  <2>3. u \ {a} \subseteq {b, "Http", "Hev", "tun", "profile"} \cup RefOf(t)
    BY <1>1, <2>1 DEF Returned
  <2>4. FrontFirst(p, a, u) /\ FrontFirst(p, b, u \ {a})
    BY <1>9, <2>3, FrontFirstListener, FrontFirstClient DEF Components, Clients, Listeners, RefOf
  <2> HIDE DEF a, b
  <2>5. Safe(p, body \o q, u, l, repo) /\ IsSeq(body)
    BY <1>1, <2>2, <2>4, StopTwo, Seq2
  <2> QED BY <1>3, <2>1, <2>5
<1>10. CASE t = "NAIVE"
  <2> DEFINE a == "NaiveSocks"
             b == "Naive"
             body == <<Stop(a), Stop(b)>>
  <2>1. Parts(t) = {a, b} /\ StopCurrentProxy(t) = h \o body
    BY <1>10 DEF Parts, StopCurrentProxy
  <2>2. Safe(p, q, u \ {a, b}, l \ {a, b}, repo)
    BY <1>2, <2>1
  <2>3. u \ {a} \subseteq {b, "Http", "Hev", "tun", "profile"} \cup RefOf(t)
    BY <1>1, <2>1 DEF Returned
  <2>4. FrontFirst(p, a, u) /\ FrontFirst(p, b, u \ {a})
    BY <1>10, <2>3, FrontFirstListener, FrontFirstClient DEF Components, Clients, Listeners, RefOf
  <2> HIDE DEF a, b
  <2>5. Safe(p, body \o q, u, l, repo) /\ IsSeq(body)
    BY <1>1, <2>2, <2>4, StopTwo, Seq2
  <2> QED BY <1>3, <2>1, <2>5
<1>11. CASE t = "SNOWFLAKE"
  <2> DEFINE a == "TorSocks"
             b == "Snowflake"
             body == <<Stop(a), Stop(b)>>
  <2>1. Parts(t) = {a, b} /\ StopCurrentProxy(t) = h \o body
    BY <1>11 DEF Parts, StopCurrentProxy
  <2>2. Safe(p, q, u \ {a, b}, l \ {a, b}, repo)
    BY <1>2, <2>1
  <2>3. u \ {a} \subseteq {b, "Http", "Hev", "tun", "profile"} \cup RefOf(t)
    BY <1>1, <2>1 DEF Returned
  <2>4. FrontFirst(p, a, u) /\ FrontFirst(p, b, u \ {a})
    BY <1>11, <2>3, FrontFirstListener, FrontFirstClient DEF Components, Clients, Listeners, RefOf
  <2> HIDE DEF a, b
  <2>5. Safe(p, body \o q, u, l, repo) /\ IsSeq(body)
    BY <1>1, <2>2, <2>4, StopTwo, Seq2
  <2> QED BY <1>3, <2>1, <2>5
<1>12. CASE t = "DNSTT_SSH"
  <2> DEFINE a == "Ssh"
             b == "DnsttSocks"
             c == "Dnstt"
             body == <<Stop(a), Stop(b), Stop(c)>>
  <2>1. Parts(t) = {a, b, c} /\ StopCurrentProxy(t) = h \o body
    BY <1>12 DEF Parts, StopCurrentProxy
  <2>2. Safe(p, q, u \ {a, b, c}, l \ {a, b, c}, repo)
    BY <1>2, <2>1
  <2>3. u \ {a, b} \subseteq {c, "Http", "Hev", "tun", "profile"} \cup RefOf(t)
    BY <1>1, <2>1 DEF Returned
  <2>4. FrontFirst(p, a, u) /\ FrontFirst(p, b, u \ {a}) /\ FrontFirst(p, c, u \ {a, b})
    BY <1>12, <2>3, FrontFirstListener, FrontFirstClient DEF Components, Clients, Listeners, RefOf
  <2> HIDE DEF a, b, c
  <2>5. Safe(p, body \o q, u, l, repo) /\ IsSeq(body)
    BY <1>1, <2>2, <2>4, StopThree, Seq3
  <2> QED BY <1>3, <2>1, <2>5
<1>13. CASE t = "SSH"
  <2> DEFINE a == "Ssh"
             body == <<Stop(a)>>
  <2>1. Parts(t) = {a} /\ StopCurrentProxy(t) = h \o body
    BY <1>13 DEF Parts, StopCurrentProxy
  <2>2. Safe(p, q, u \ {a}, l \ {a}, repo)
    BY <1>2, <2>1
  <2>3. FrontFirst(p, a, u)
    BY FrontFirstListener DEF Components, Clients, Listeners
  <2> HIDE DEF a
  <2>4. Safe(p, body \o q, u, l, repo) /\ IsSeq(body)
    BY <1>1, <2>2, <2>3, RuleStop, Seq1
  <2> QED BY <1>3, <2>1, <2>4
<1>14. CASE t = "DOH"
  <2> DEFINE a == "Doh"
             body == <<Stop(a)>>
  <2>1. Parts(t) = {a} /\ StopCurrentProxy(t) = h \o body
    BY <1>14 DEF Parts, StopCurrentProxy
  <2>2. Safe(p, q, u \ {a}, l \ {a}, repo)
    BY <1>2, <2>1
  <2>3. FrontFirst(p, a, u)
    BY FrontFirstListener DEF Components, Clients, Listeners
  <2> HIDE DEF a
  <2>4. Safe(p, body \o q, u, l, repo) /\ IsSeq(body)
    BY <1>1, <2>2, <2>3, RuleStop, Seq1
  <2> QED BY <1>3, <2>1, <2>4
<1>15. CASE t = "SOCKS5"
  <2> DEFINE a == "Socks5"
             body == <<Stop(a)>>
  <2>1. Parts(t) = {a} /\ StopCurrentProxy(t) = h \o body
    BY <1>15 DEF Parts, StopCurrentProxy
  <2>2. Safe(p, q, u \ {a}, l \ {a}, repo)
    BY <1>2, <2>1
  <2>3. FrontFirst(p, a, u)
    BY FrontFirstListener DEF Components, Clients, Listeners
  <2> HIDE DEF a
  <2>4. Safe(p, body \o q, u, l, repo) /\ IsSeq(body)
    BY <1>1, <2>2, <2>3, RuleStop, Seq1
  <2> QED BY <1>3, <2>1, <2>4
<1>16. CASE t = "VLESS"
  <2> DEFINE a == "Vless"
             body == <<Stop(a)>>
  <2>1. Parts(t) = {a} /\ StopCurrentProxy(t) = h \o body
    BY <1>16 DEF Parts, StopCurrentProxy
  <2>2. Safe(p, q, u \ {a}, l \ {a}, repo)
    BY <1>2, <2>1
  <2>3. FrontFirst(p, a, u)
    BY FrontFirstListener DEF Components, Clients, Listeners
  <2> HIDE DEF a
  <2>4. Safe(p, body \o q, u, l, repo) /\ IsSeq(body)
    BY <1>1, <2>2, <2>3, RuleStop, Seq1
  <2> QED BY <1>3, <2>1, <2>4
<1>17. CASE t = "HYSTERIA2"
  <2> DEFINE a == "Hysteria2"
             body == <<Stop(a)>>
  <2>1. Parts(t) = {a} /\ StopCurrentProxy(t) = h \o body
    BY <1>17 DEF Parts, StopCurrentProxy
  <2>2. Safe(p, q, u \ {a}, l \ {a}, repo)
    BY <1>2, <2>1
  <2>3. FrontFirst(p, a, u)
    BY FrontFirstListener DEF Components, Clients, Listeners
  <2> HIDE DEF a
  <2>4. Safe(p, body \o q, u, l, repo) /\ IsSeq(body)
    BY <1>1, <2>2, <2>3, RuleStop, Seq1
  <2> QED BY <1>3, <2>1, <2>4
<1> QED BY <1>4, <1>5, <1>6, <1>7, <1>8, <1>9, <1>10, <1>11, <1>12, <1>13, <1>14, <1>15, <1>16,
               <1>17 DEF Types

\* clearVpnServiceRef() may run once the client does not.
LEMMA ClearRefSafe ==
    ASSUME NEW p, NEW t \in Types, NEW q, NEW up, NEW low, NEW repo, Within(p, up, repo),
           up \cap Native = {},
           Safe(p, q, up \ RefOf(t), low \ RefOf(t), repo)
    PROVE  /\ IsSeq(ClearVpnServiceRef(t))
           /\ Safe(p, ClearVpnServiceRef(t) \o q, up, low, repo)
<1>1. CASE t \in {"SLIPSTREAM", "SLIPSTREAM_SSH"}
  <2>1. /\ RefOf(t) = {Ref("Slipstream")}
        /\ ClearVpnServiceRef(t) = <<Do("unref", "Slipstream")>>
        /\ "Slipstream" \in Native /\ "Slipstream" \notin up
    BY <1>1 DEF RefOf, Ref, ClearVpnServiceRef, Native
  <2> QED BY <2>1, RuleUnref, Seq1
<1>2. CASE t \in {"DNSTT", "DNSTT_SSH"}
  <2>1. /\ RefOf(t) = {Ref("Dnstt")}
        /\ ClearVpnServiceRef(t) = <<Do("unref", "Dnstt")>>
        /\ "Dnstt" \in Native /\ "Dnstt" \notin up
    BY <1>2 DEF RefOf, Ref, ClearVpnServiceRef, Native
  <2> QED BY <2>1, RuleUnref, Seq1
<1>3. CASE t \notin {"SLIPSTREAM", "SLIPSTREAM_SSH", "DNSTT", "DNSTT_SSH"}
  <2>1. RefOf(t) = {} /\ ClearVpnServiceRef(t) = <<>>
    BY <1>3 DEF RefOf, ClearVpnServiceRef
  <2>2. Safe(p, q, up, low, repo)
    <3>1. up \ {} = up /\ low \ {} = low
      OBVIOUS
    <3> QED BY <2>1, <3>1
  <2>3. PICK S : q \in Seq(S)
    BY <2>2 DEF Safe, IsSeq
  <2>4. <<>> \o q = q
    BY <2>3, ConcatEmptySeq
  <2> QED BY <2>1, <2>2, <2>4, Seq0
<1> QED BY <1>1, <1>2, <1>3

\* cleanupConnection() gives back everything.
LEMMA CleanupSafe ==
    ASSUME NEW p, ~p.lax, NEW t \in Types, NEW po, NEW q, NEW up, NEW low, NEW repo,
           Within(p, up, repo), up \subseteq Returned(t), po => "Hev" \notin up,
           Safe(p, q, {}, {}, repo)
    PROVE  /\ IsSeq(CleanupConnection(t, po))
           /\ Safe(p, CleanupConnection(t, po) \o q, up, low, repo)
<1> DEFINE N == {"Http"} \cup Parts(t)
           A == IF po THEN <<>> ELSE <<Stop("Hev")>>
           B == StopCurrentProxy(t)
           C == ClearVpnServiceRef(t)
           D == <<Close, Do("forget", "-")>>
           F == <<Do("forget", "-")>>
           u1 == up \ {"Hev"}
           l1 == low \ {"Hev"}
           u2 == u1 \ N
           l2 == l1 \ N
           u3 == u2 \ RefOf(t)
           l3 == l2 \ RefOf(t)
<1>1. /\ IsSeq(q)
      /\ u1 \subseteq up /\ u2 \subseteq up /\ u3 \subseteq up
      /\ u3 \subseteq {"tun", "profile"} /\ "Hev" \notin u3
  BY DEF Safe, Returned
<1>2. Within(p, u1, repo) /\ Within(p, u2, repo) /\ Within(p, u3, repo)
  BY <1>1, WithinShrinks
<1>3. u2 \cap Native = {}
  <2>1. Returned(t) \cap Native \subseteq Parts(t)
    BY DEF Returned, Native, RefOf
  <2> QED BY <2>1
<1>4. IsSeq(D) /\ Safe(p, D \o q, u3, l3, repo)
  <2>1. Within(p, {"profile"}, repo)
    BY <1>2 DEF Within, Taken, Returned
  <2> DEFINE u4 == {"profile"}
             l4 == {}
             r == F \o q
  <2>2. Safe(p, r, u4, l4, repo)
    BY <2>1, RuleForget
  <2>3. u3 \ {"tun"} \subseteq u4 /\ l4 \subseteq l3 \ {"tun"} /\ "Hev" \notin u3
    BY <1>1
  <2> HIDE DEF u3, l3, u4, l4, r
  <2>4. Safe(p, <<Close>> \o r, u3, l3, repo)
    BY <1>2, <2>2, <2>3, RuleClose
  <2>5. IsSeq(D) /\ IsSeq(q)
    BY <1>1, Seq2
  <2>6. D \o q = <<Close>> \o r
    BY <2>5, Cons2 DEF F, r
  <2> QED BY <2>4, <2>5, <2>6
<1>5. IsSeq(C) /\ Safe(p, C \o (D \o q), u2, l2, repo)
  <2> HIDE DEF u2, l2, D
  <2> QED BY <1>2, <1>3, <1>4, ClearRefSafe
<1>6. IsSeq(B) /\ Safe(p, B \o (C \o (D \o q)), u1, l1, repo)
  <2>1. u1 \subseteq Returned(t)
    OBVIOUS
  <2> HIDE DEF u1, l1, C, D
  <2> QED BY <1>2, <1>5, <2>1, StopProxySafe
<1>7. IsSeq(A) /\ Safe(p, A \o (B \o (C \o (D \o q))), up, low, repo)
  <2> DEFINE r == B \o (C \o (D \o q))
  <2> HIDE DEF r
  <2>1. Safe(p, r, u1, l1, repo) /\ IsSeq(r)
    BY <1>6 DEF r, Safe
  <2>2. CASE po
    <3>1. up \subseteq u1 /\ l1 \subseteq low
      BY <2>2
    <3>2. Safe(p, r, up, low, repo)
      BY <2>1, <3>1, SafeWeaken
    <3>3. A = <<>> /\ IsSeq(<<>>)
      BY <2>2, Seq0
    <3>4. PICK S : r \in Seq(S)
      BY <2>1 DEF IsSeq
    <3>5. <<>> \o r = r
      BY <3>4, ConcatEmptySeq
    <3> QED BY <3>2, <3>3, <3>5 DEF r
  <2>3. CASE ~po
    <3>1. A = <<Stop("Hev")>> /\ IsSeq(<<Stop("Hev")>>)
      BY <2>3, Seq1
    <3>2. FrontFirst(p, "Hev", up)
      BY FrontFirstListener DEF Components, Clients, Listeners
    <3>3. Safe(p, <<Stop("Hev")>> \o r, up, low, repo)
      BY <2>1, <3>2, RuleStop
    <3> QED BY <3>1, <3>3 DEF r
  <2> QED BY <2>2, <2>3
<1>8. CleanupConnection(t, po) = ((A \o B) \o C) \o D
  BY DEF CleanupConnection
<1> HIDE DEF A, B, C, D
<1>9. IsSeq(A \o B) /\ IsSeq((A \o B) \o C) /\ IsSeq(((A \o B) \o C) \o D) /\ IsSeq(D \o q)
      /\ IsSeq(C \o (D \o q))
  BY <1>1, <1>4, <1>5, <1>6, <1>7, ConcatIsSeq
<1>10. (((A \o B) \o C) \o D) \o q = ((A \o B) \o C) \o (D \o q)
  BY <1>1, <1>4, <1>9, Regroup, SMTT(40)
<1>11. ((A \o B) \o C) \o (D \o q) = (A \o B) \o (C \o (D \o q))
  BY <1>5, <1>9, Regroup, SMTT(40)
<1>13. IsSeq(A) /\ IsSeq(B) /\ IsSeq(C \o (D \o q))
  BY <1>6, <1>7, <1>9
<1>12. (A \o B) \o (C \o (D \o q)) = A \o (B \o (C \o (D \o q)))
  BY <1>13, Regroup, SMTT(40)
<1> QED BY <1>7, <1>8, <1>9, <1>10, <1>11, <1>12

\* What does not run, or is no client, may be stopped at any time.
LEMMA StopAnyway ==
    ASSUME NEW p, NEW q, NEW up, NEW low, NEW repo, Within(p, up, repo), NEW c \in Components,
           c \notin up \/ c \notin Clients,
           NEW l, Safe(p, q, up, l, repo), l \subseteq low, c \notin l
    PROVE  Safe(p, <<Stop(c)>> \o q, up, low, repo)
<1>1. FrontFirst(p, c, up)
  BY FrontFirstListener DEF FrontFirst
<1>2. up \ {c} \subseteq up /\ l \subseteq low \ {c}
  OBVIOUS
<1> QED BY <1>1, <1>2, RuleStop

\* connect() stops what any earlier profile may have left running.
LEMMA AllBridgesSafe ==
    ASSUME NEW p, NEW t \in Types, NEW q, NEW up, NEW low, NEW repo, Within(p, up, repo),
           up \subseteq Returned(t), NEW u, up \cap (RefOf(t) \cup {"tun", "profile"}) \subseteq u,
           Safe(p, q, u, {}, repo)
    PROVE  /\ IsSeq(StopAllBridges(t))
           /\ Safe(p, StopAllBridges(t) \o q, up, low, repo)
<1> DEFINE u2 == up \cap (RefOf(t) \cup {"tun", "profile"})
<1>1. Within(p, u2, repo) /\ IsSeq(q) /\ u2 \subseteq up
  BY WithinShrinks DEF Safe
<1>2. Safe(p, q, u2, {}, repo)
  BY SafeWeaken
<1>3. u2 \cap Components = {} /\ u2 \cap (Clients \cup Listeners) = {}
  BY DEF Components, Clients, Listeners, RefOf
<1>20. /\ "DnsttSocks" \notin u2 /\ "Ssh" \notin u2 /\ "SlipstreamSocks" \notin u2
       /\ "NaiveSocks" \notin u2 /\ "TorSocks" \notin u2 /\ "Socks5" \notin u2
       /\ "Dnstt" \notin u2 /\ "Vaydns" \notin u2 /\ "Slipstream" \notin u2
  BY <1>3 DEF Clients, Listeners
<1> HIDE DEF u2
<1> DEFINE r0 == q
           r1 == <<Stop("Slipstream")>> \o r0
           r2 == <<Stop("Vaydns")>> \o r1
           r3 == <<Stop("Dnstt")>> \o r2
           r4 == <<Stop("Socks5")>> \o r3
           r5 == <<Stop("TorSocks")>> \o r4
           r6 == <<Stop("NaiveSocks")>> \o r5
           r7 == <<Stop("SlipstreamSocks")>> \o r6
           r8 == <<Stop("Ssh")>> \o r7
           r9 == <<Stop("DnsttSocks")>> \o r8
<1>4. Safe(p, r0, u2, {}, repo)
  BY <1>2
<1>5. Safe(p, r1, u2, {}, repo)
  <2> HIDE DEF r0
  <2> QED BY <1>1, <1>20, <1>4, StopAnyway DEF Components, Clients, Listeners
<1>6. Safe(p, r2, u2, {}, repo)
  <2> HIDE DEF r1
  <2> QED BY <1>1, <1>20, <1>5, StopAnyway DEF Components, Clients, Listeners
<1>7. Safe(p, r3, u2, {}, repo)
  <2> HIDE DEF r2
  <2> QED BY <1>1, <1>20, <1>6, StopAnyway DEF Components, Clients, Listeners
<1>8. Safe(p, r4, u2, {}, repo)
  <2> HIDE DEF r3
  <2> QED BY <1>1, <1>20, <1>7, StopAnyway DEF Components, Clients, Listeners
<1>9. Safe(p, r5, u2, {}, repo)
  <2> HIDE DEF r4
  <2> QED BY <1>1, <1>20, <1>8, StopAnyway DEF Components, Clients, Listeners
<1>10. Safe(p, r6, u2, {}, repo)
  <2> HIDE DEF r5
  <2> QED BY <1>1, <1>20, <1>9, StopAnyway DEF Components, Clients, Listeners
<1>11. Safe(p, r7, u2, {}, repo)
  <2> HIDE DEF r6
  <2> QED BY <1>1, <1>20, <1>10, StopAnyway DEF Components, Clients, Listeners
<1>12. Safe(p, r8, u2, {}, repo)
  <2> HIDE DEF r7
  <2> QED BY <1>1, <1>20, <1>11, StopAnyway DEF Components, Clients, Listeners
<1>13. Safe(p, r9, u2, {}, repo)
  <2> HIDE DEF r8
  <2> QED BY <1>1, <1>20, <1>12, StopAnyway DEF Components, Clients, Listeners
<1>19. IsSeq(r0)
  BY <1>1
<1> HIDE DEF r0
<1>14. <<Stop("DnsttSocks"), Stop("Ssh"), Stop("SlipstreamSocks"), Stop("NaiveSocks"),
           Stop("TorSocks"), Stop("Socks5"), Stop("Dnstt"), Stop("Vaydns"),
               Stop("Slipstream")>> \o r0 = r9
  BY <1>19, Unroll9 DEF Same
<1>16. Safe(p, <<Stop("DnsttSocks"), Stop("Ssh"), Stop("SlipstreamSocks"), Stop("NaiveSocks"),
           Stop("TorSocks"), Stop("Socks5"), Stop("Dnstt"), Stop("Vaydns"),
               Stop("Slipstream")>> \o q, u2, {}, repo)
  BY <1>13, <1>14 DEF r0
<1> DEFINE R == <<Stop("DnsttSocks"), Stop("Ssh"), Stop("SlipstreamSocks"), Stop("NaiveSocks"),
    Stop("TorSocks"), Stop("Socks5"), Stop("Dnstt"), Stop("Vaydns"), Stop("Slipstream")>>
           B == <<Stop("Hev"), Stop("DnsttSocks"), Stop("Ssh"), Stop("SlipstreamSocks"),
               Stop("NaiveSocks"), Stop("TorSocks"), Stop("Socks5"), Stop("Dnstt"),
                   Stop("Vaydns"), Stop("Slipstream")>>
           A == StopCurrentProxy(t)
           u1 == up \ ({"Http"} \cup Parts(t))
           l1 == low \ ({"Http"} \cup Parts(t))
<1>30. u1 \subseteq up /\ Within(p, u1,
           repo) /\ u1 \ {"Hev"} \subseteq u2 /\ {} \subseteq l1 \ {"Hev"}
  BY WithinShrinks DEF Returned, u2
<1>31. FrontFirst(p, "Hev", u1)
  BY FrontFirstListener DEF Components, Clients, Listeners
<1>32. Safe(p, <<Stop("Hev")>> \o (R \o q), u1, l1, repo)
  <2> HIDE DEF R, u1, l1
  <2>1. Safe(p, R \o q, u2, {}, repo)
    BY <1>16 DEF R
  <2> QED BY <1>30, <1>31, <2>1, RuleStop
<1>33. B \o q = <<Stop("Hev")>> \o (R \o q) /\ IsSeq(B)
  BY <1>1, Cons10, Seq10
<1>34. Safe(p, B \o q, u1, l1, repo)
  BY <1>32, <1>33
<1> HIDE DEF B
<1>35. IsSeq(A) /\ Safe(p, A \o (B \o q), up, low, repo)
  BY <1>34, StopProxySafe
<1>37. IsSeq(A) /\ IsSeq(B) /\ IsSeq(q)
  BY <1>1, <1>33, <1>35
<1>36. (A \o B) \o q = A \o (B \o q) /\ IsSeq(A \o B)
  BY <1>37, ConcatIsSeq, Regroup, SMTT(40)
<1> QED BY <1>35, <1>36 DEF StopAllBridges, B
-----------------------------------------------------------------------------
(* Undo paths.  A program fragment s takes the bound up to up2, whatever   *)
(* the repository has noted, and leaves the resources low alone.           *)

Repos == RepoTypes \cup {"none"}

SafeAny(p, q, up, low) == \A r \in Repos : Safe(p, q, up, low, r)

Undoes(p, s, low, up, up2) ==
    IsSeq(s) /\ \A q : SafeAny(p, q, up2, low) => SafeAny(p, s \o q, up, low)

\* Fragments are put together.
LEMMA UndoEmpty ==
    ASSUME NEW p, NEW low, NEW up
    PROVE  Undoes(p, <<>>, low, up, up)
<1>1. ASSUME NEW q, SafeAny(p, q, up, low) PROVE SafeAny(p, <<>> \o q, up, low)
  <2>1. "none" \in Repos
    BY DEF Repos
  <2>2. IsSeq(q)
    BY <1>1, <2>1 DEF SafeAny, Safe
  <2>3. PICK S : q \in Seq(S)
    BY <2>2 DEF IsSeq
  <2>4. <<>> \o q = q
    BY <2>3, ConcatEmptySeq
  <2> QED BY <1>1, <2>4
<1> QED BY <1>1, Seq0 DEF Undoes

\* One fragment after the other.
LEMMA UndoConcat ==
    ASSUME NEW p, NEW low, NEW up, NEW up1, NEW up2, NEW s, NEW t,
           Undoes(p, s, low, up, up1), Undoes(p, t, low, up1, up2)
    PROVE  Undoes(p, s \o t, low, up, up2)
<1>1. IsSeq(s) /\ IsSeq(t) /\ IsSeq(s \o t)
  BY ConcatIsSeq DEF Undoes
<1>2. ASSUME NEW q, SafeAny(p, q, up2, low) PROVE SafeAny(p, (s \o t) \o q, up, low)
  <2>1. SafeAny(p, t \o q, up1, low)
    BY <1>2 DEF Undoes
  <2>2. SafeAny(p, s \o (t \o q), up, low)
    BY <2>1 DEF Undoes
  <2>3. "none" \in Repos
    BY DEF Repos
  <2>4. IsSeq(q)
    BY <1>2, <2>3 DEF SafeAny, Safe
  <2>5. (s \o t) \o q = s \o (t \o q)
    BY <1>1, <2>4, Regroup, SMTT(40)
  <2> QED BY <2>2, <2>5
<1> QED BY <1>1, <1>2 DEF Undoes

\* Two steps, one after the other.
LEMMA UndoPair ==
    ASSUME NEW p, NEW low, NEW up, NEW up1, NEW up2, NEW a, NEW b,
           Undoes(p, <<a>>, low, up, up1), Undoes(p, <<b>>, low, up1, up2)
    PROVE  Undoes(p, <<a, b>>, low, up, up2)
<1>1. ASSUME NEW q, SafeAny(p, q, up2, low) PROVE SafeAny(p, <<a, b>> \o q, up, low)
  <2>1. SafeAny(p, <<b>> \o q, up1, low)
    BY <1>1 DEF Undoes
  <2>2. SafeAny(p, <<a>> \o (<<b>> \o q), up, low)
    BY <2>1 DEF Undoes
  <2>3. "none" \in Repos
    BY DEF Repos
  <2>4. IsSeq(q)
    BY <1>1, <2>3 DEF SafeAny, Safe
  <2>5. <<a, b>> \o q = <<a>> \o (<<b>> \o q)
    BY <2>4, Cons2
  <2> QED BY <2>2, <2>5
<1>2. IsSeq(<<a, b>>)
  BY Seq2
<1> QED BY <1>1, <1>2 DEF Undoes

\* A step before two others.
LEMMA UndoTriple ==
    ASSUME NEW p, NEW low, NEW up, NEW up1, NEW up2, NEW a, NEW b, NEW c,
           Undoes(p, <<a>>, low, up, up1), Undoes(p, <<b, c>>, low, up1, up2)
    PROVE  Undoes(p, <<a, b, c>>, low, up, up2)
<1>1. ASSUME NEW q, SafeAny(p, q, up2, low) PROVE SafeAny(p, <<a, b, c>> \o q, up, low)
  <2>1. SafeAny(p, <<b, c>> \o q, up1, low)
    BY <1>1 DEF Undoes
  <2>2. SafeAny(p, <<a>> \o (<<b, c>> \o q), up, low)
    BY <2>1 DEF Undoes
  <2>3. "none" \in Repos
    BY DEF Repos
  <2>4. IsSeq(q)
    BY <1>1, <2>3 DEF SafeAny, Safe
  <2>5. <<a, b, c>> \o q = <<a>> \o (<<b, c>> \o q)
    BY <2>4, Cons3
  <2> QED BY <2>2, <2>5
<1>2. IsSeq(<<a, b, c>>)
  BY Seq3
<1> QED BY <1>1, <1>2 DEF Undoes

\* The fragments of one step, and the two functions they share.
LEMMA UndoStop ==
    ASSUME NEW p, NEW low, NEW up, up \subseteq Taken(p.k), NEW c, c \notin low,
           FrontFirst(p, c, up), NEW up2, up \ {c} \subseteq up2
    PROVE  Undoes(p, <<Stop(c)>>, low, up, up2)
<1>1. ASSUME NEW q, SafeAny(p, q, up2, low), NEW r \in Repos
      PROVE  Safe(p, <<Stop(c)>> \o q, up, low, r)
  <2>1. Within(p, up, r) /\ Safe(p, q, up2, low, r) /\ low \subseteq low \ {c}
    BY <1>1 DEF Within, Repos, SafeAny
  <2> QED BY <2>1, RuleStop
<1> QED BY <1>1, Seq1 DEF Undoes, SafeAny

\* The interface is closed when tun2socks does not run.
LEMMA UndoClose ==
    ASSUME NEW p, NEW low, NEW up, up \subseteq Taken(p.k), "tun" \notin low,
           "Hev" \notin up, NEW up2, up \ {"tun"} \subseteq up2
    PROVE  Undoes(p, <<Close>>, low, up, up2)
<1>1. ASSUME NEW q, SafeAny(p, q, up2, low), NEW r \in Repos
      PROVE  Safe(p, <<Close>> \o q, up, low, r)
  <2>1. Within(p, up, r) /\ Safe(p, q, up2, low, r) /\ low \subseteq low \ {"tun"}
    BY <1>1 DEF Within, Repos, SafeAny
  <2> QED BY <2>1, RuleClose
<1> QED BY <1>1, Seq1 DEF Undoes, SafeAny

\* clearVpnServiceRef() comes after the native client.
LEMMA UndoRef ==
    ASSUME NEW p, NEW t \in Types, NEW low, NEW up, up \subseteq Taken(p.k),
           low \cap RefOf(t) = {}, up \cap Native = {}, NEW up2, up \ RefOf(t) \subseteq up2
    PROVE  Undoes(p, ClearVpnServiceRef(t), low, up, up2)
<1>1. ASSUME NEW q, SafeAny(p, q, up2, low), NEW r \in Repos
      PROVE  IsSeq(ClearVpnServiceRef(t)) /\ Safe(p, ClearVpnServiceRef(t) \o q, up, low, r)
  <2>1. Within(p, up, r) /\ Safe(p, q, up2, low, r) /\ low \subseteq low \ RefOf(t)
    BY <1>1 DEF Within, Repos, SafeAny
  <2>2. Safe(p, q, up \ RefOf(t), low \ RefOf(t), r)
    BY <2>1, SafeWeaken
  <2> QED BY <2>1, <2>2, ClearRefSafe
<1>2. IsSeq(ClearVpnServiceRef(t))
  BY Seq0, Seq1 DEF ClearVpnServiceRef, Types
<1> QED BY <1>1, <1>2 DEF Undoes, SafeAny

\* stopCurrentProxy() stops all parts of its type, front first.
LEMMA UndoProxy ==
    ASSUME NEW p, NEW t \in Types, NEW low, NEW up, up \subseteq Taken(p.k),
           low \cap ({"Http"} \cup Parts(t)) = {}, up \subseteq Returned(t),
           NEW up2, up \ ({"Http"} \cup Parts(t)) \subseteq up2
    PROVE  Undoes(p, StopCurrentProxy(t), low, up, up2)
<1> DEFINE N == {"Http"} \cup Parts(t)
<1>1. ASSUME NEW q, SafeAny(p, q, up2, low), NEW r \in Repos
      PROVE  Safe(p, StopCurrentProxy(t) \o q, up, low, r)
  <2>1. Within(p, up, r) /\ Safe(p, q, up2, low, r) /\ low \subseteq low \ N /\ up \ N \subseteq up2
    BY <1>1 DEF Within, Repos, SafeAny
  <2>2. Safe(p, q, up \ N, low \ N, r)
    <3> HIDE DEF N
    <3> QED BY <2>1, SafeWeaken
  <2> QED BY <2>1, <2>2, StopProxySafe
<1>2. IsSeq(StopCurrentProxy(t))
  BY ProxyIsSeq
<1> QED BY <1>1, <1>2 DEF Undoes, SafeAny

\* handleProxyStartupFailure() stops the parts and clears the reference.
LEMMA UndoFailure ==
    ASSUME NEW p, NEW t \in Types, NEW low, NEW up, up \subseteq Taken(p.k),
           low \cap ({"Http"} \cup Parts(t) \cup RefOf(t)) = {}, up \subseteq Returned(t),
           NEW up2, up \ ({"Http"} \cup Parts(t) \cup RefOf(t)) \subseteq up2
    PROVE  Undoes(p, HandleProxyStartupFailure(t), low, up, up2)
<1> DEFINE u == up \ ({"Http"} \cup Parts(t))
<1>1. Undoes(p, StopCurrentProxy(t), low, up, u)
  <2>1. low \cap ({"Http"} \cup Parts(t)) = {}
    OBVIOUS
  <2> QED BY <2>1, UndoProxy
<1>2. /\ u \subseteq Taken(p.k) /\ low \cap RefOf(t) = {} /\ u \ RefOf(t) \subseteq up2
  OBVIOUS
<1>3. u \cap Native = {}
  <2>1. Returned(t) \cap Native \subseteq Parts(t)
    BY DEF Returned, Native, RefOf
  <2> QED BY <2>1
<1> HIDE DEF u
<1>4. Undoes(p, ClearVpnServiceRef(t), low, u, up2)
  BY <1>2, <1>3, UndoRef
<1> QED BY <1>1, <1>4, UndoConcat DEF HandleProxyStartupFailure

\* Stopping what does not run, or is no client, undoes nothing that matters.
LEMMA UndoAnyway ==
    ASSUME NEW p, NEW low, NEW up, up \subseteq Taken(p.k), NEW c \in Components, c \notin low,
           c \notin up \/ c \notin Clients
    PROVE  Undoes(p, <<Stop(c)>>, low, up, up)
<1>1. FrontFirst(p, c, up) /\ up \ {c} \subseteq up
  BY FrontFirstListener DEF FrontFirst
<1> QED BY <1>1, UndoStop

\* The nine stops of a repository that has noted nothing.
LEMMA UndoNine ==
    ASSUME NEW p, NEW low, NEW up, NEW u1, NEW u2, NEW up2,
           NEW a, NEW b, NEW c, NEW d, NEW e, NEW f, NEW g, NEW h, NEW i,
           Undoes(p, <<a>>, low, up, up),
           Undoes(p, <<b>>, low, up, up),
           Undoes(p, <<c>>, low, up, up),
           Undoes(p, <<d>>, low, up, up),
           Undoes(p, <<e>>, low, up, u1),
           Undoes(p, <<f>>, low, u1, u1),
           Undoes(p, <<g>>, low, u1, u1),
           Undoes(p, <<h>>, low, u1, u2),
           Undoes(p, <<i>>, low, u2, up2)
    PROVE  Undoes(p, <<a, b, c, d, e, f, g, h, i>>, low, up, up2)
<1>1. ASSUME NEW q, SafeAny(p, q, up2, low)
      PROVE  SafeAny(p, <<a, b, c, d, e, f, g, h, i>> \o q, up, low)
  <2>10. "none" \in Repos
    BY DEF Repos
  <2>11. IsSeq(q)
    BY <1>1, <2>10 DEF SafeAny, Safe
  <2>12. Same(<<a, b, c, d, e, f, g, h, i>> \o q,
             <<a>> \o (<<b>> \o (<<c>> \o (<<d>> \o (<<e>> \o (<<f>> \o (<<g>> \o (<<h>> \o (<<i>> \o q)))))))))
    BY ONLY <2>11, Unroll9, ZenonT(60)
  <2> DEFINE r9 == <<i>> \o q
             r8 == <<h>> \o r9
             r7 == <<g>> \o r8
             r6 == <<f>> \o r7
             r5 == <<e>> \o r6
             r4 == <<d>> \o r5
             r3 == <<c>> \o r4
             r2 == <<b>> \o r3
             r1 == <<a>> \o r2
  <2>9. SafeAny(p, r9, u2, low)
    BY <1>1 DEF Undoes
  <2>8. SafeAny(p, r8, u1, low)
    <3> HIDE DEF r9
    <3> QED BY <2>9 DEF Undoes
  <2>7. SafeAny(p, r7, u1, low)
    <3> HIDE DEF r8
    <3> QED BY <2>8 DEF Undoes
  <2>6. SafeAny(p, r6, u1, low)
    <3> HIDE DEF r7
    <3> QED BY <2>7 DEF Undoes
  <2>5. SafeAny(p, r5, up, low)
    <3> HIDE DEF r6
    <3> QED BY <2>6 DEF Undoes
  <2>4. SafeAny(p, r4, up, low)
    <3> HIDE DEF r5
    <3> QED BY <2>5 DEF Undoes
  <2>3. SafeAny(p, r3, up, low)
    <3> HIDE DEF r4
    <3> QED BY <2>4 DEF Undoes
  <2>2. SafeAny(p, r2, up, low)
    <3> HIDE DEF r3
    <3> QED BY <2>3 DEF Undoes
  <2>1. SafeAny(p, r1, up, low)
    <3> HIDE DEF r2
    <3> QED BY <2>2 DEF Undoes
  <2> QED BY <2>1, <2>12 DEF Same
<1>2. IsSeq(<<a, b, c, d, e, f, g, h, i>>)
  BY Seq9
<1> QED BY <1>1, <1>2 DEF Undoes

\* Whatever the repository believes to run, it stops no client behind a listener,
\* when NaiveProxy is the only client that may run.
LEMMA UndoRepoAny ==
    ASSUME NEW p, NEW low, NEW up, up \subseteq Taken(p.k), low \cap Components = {},
           up \cap Clients \subseteq {"Naive"}, NEW r \in Repos
    PROVE  Undoes(p, RepoStopCurrentProxy(r), low, up, up)
<1>1. ASSUME NEW c, c \in Components, c # "Naive" PROVE Undoes(p, <<Stop(c)>>, low, up, up)
  <2>1. c \notin low /\ (c \notin up \/ c \notin Clients)
    BY <1>1
  <2> QED BY <1>1, <2>1, UndoAnyway
<1>2. ASSUME NEW a, NEW b, a \in Components, b \in Components, a # "Naive", b # "Naive"
      PROVE  Undoes(p, <<Stop(a), Stop(b)>>, low, up, up)
  BY <1>1, <1>2, UndoPair
<1>3. CASE r = "SLIPSTREAM"
  <2>1. RepoStopCurrentProxy(r) = <<Stop("SlipstreamSocks"), Stop("Slipstream")>>
    BY <1>3 DEF RepoStopCurrentProxy
  <2>2. "SlipstreamSocks" \in Components /\ "Slipstream" \in Components
    BY DEF Components, Clients, Listeners
  <2> QED BY <2>1, <2>2, <1>2
<1>4. CASE r = "SLIPSTREAM_SSH"
  <2>1. RepoStopCurrentProxy(r) = <<Stop("Ssh"), Stop("Slipstream")>>
    BY <1>4 DEF RepoStopCurrentProxy
  <2>2. "Ssh" \in Components /\ "Slipstream" \in Components
    BY DEF Components, Clients, Listeners
  <2> QED BY <2>1, <2>2, <1>2
<1>5. CASE r = "DNSTT"
  <2>1. RepoStopCurrentProxy(r) = <<Stop("Dnstt")>>
    BY <1>5 DEF RepoStopCurrentProxy
  <2>2. "Dnstt" \in Components
    BY DEF Components, Clients, Listeners
  <2> QED BY <2>1, <2>2, <1>1
<1>6. CASE r = "VAYDNS"
  <2>1. RepoStopCurrentProxy(r) = <<Stop("Vaydns")>>
    BY <1>6 DEF RepoStopCurrentProxy
  <2>2. "Vaydns" \in Components
    BY DEF Components, Clients, Listeners
  <2> QED BY <2>1, <2>2, <1>1
<1>7. CASE r = "SSH"
  <2>1. RepoStopCurrentProxy(r) = <<Stop("Ssh")>>
    BY <1>7 DEF RepoStopCurrentProxy
  <2>2. "Ssh" \in Components
    BY DEF Components, Clients, Listeners
  <2> QED BY <2>1, <2>2, <1>1
<1>8. CASE r = "DNSTT_SSH"
  <2>1. RepoStopCurrentProxy(r) = <<Stop("Ssh"), Stop("Dnstt")>>
    BY <1>8 DEF RepoStopCurrentProxy
  <2>2. "Ssh" \in Components /\ "Dnstt" \in Components
    BY DEF Components, Clients, Listeners
  <2> QED BY <2>1, <2>2, <1>2
<1>9. CASE r = "VAYDNS_SSH"
  <2>1. RepoStopCurrentProxy(r) = <<Stop("Ssh"), Stop("Vaydns")>>
    BY <1>9 DEF RepoStopCurrentProxy
  <2>2. "Ssh" \in Components /\ "Vaydns" \in Components
    BY DEF Components, Clients, Listeners
  <2> QED BY <2>1, <2>2, <1>2
<1>10. CASE r = "DOH"
  <2>1. RepoStopCurrentProxy(r) = <<Stop("Doh")>>
    BY <1>10 DEF RepoStopCurrentProxy
  <2>2. "Doh" \in Components
    BY DEF Components, Clients, Listeners
  <2> QED BY <2>1, <2>2, <1>1
<1>11. CASE r = "SNOWFLAKE"
  <2>1. RepoStopCurrentProxy(r) = <<Stop("TorSocks"), Stop("Snowflake")>>
    BY <1>11 DEF RepoStopCurrentProxy
  <2>2. "TorSocks" \in Components /\ "Snowflake" \in Components
    BY DEF Components, Clients, Listeners
  <2> QED BY <2>1, <2>2, <1>2
<1>12. CASE r = "SOCKS5"
  <2>1. RepoStopCurrentProxy(r) = <<Stop("Socks5")>>
    BY <1>12 DEF RepoStopCurrentProxy
  <2>2. "Socks5" \in Components
    BY DEF Components, Clients, Listeners
  <2> QED BY <2>1, <2>2, <1>1
<1>13. CASE r = "VLESS"
  <2>1. RepoStopCurrentProxy(r) = <<Stop("Reality"), Stop("Vless")>>
    BY <1>13 DEF RepoStopCurrentProxy
  <2>2. "Reality" \in Components /\ "Vless" \in Components
    BY DEF Components, Clients, Listeners
  <2> QED BY <2>1, <2>2, <1>2
<1>14. CASE r = "HYSTERIA2"
  <2>1. RepoStopCurrentProxy(r) = <<Stop("Hysteria2")>>
    BY <1>14 DEF RepoStopCurrentProxy
  <2>2. "Hysteria2" \in Components
    BY DEF Components, Clients, Listeners
  <2> QED BY <2>1, <2>2, <1>1
<1>15. CASE r = "none"
  <2> DEFINE u1 == up \ {"Ssh"}
             u2 == up \ {"Ssh", "NaiveSocks"}
  <2>1. RepoStopCurrentProxy(r) = <<Stop("SlipstreamSocks"), Stop("Slipstream"), Stop("Dnstt"),
            Stop("Vaydns"), Stop("Ssh"), Stop("TorSocks"), Stop("Snowflake"), Stop("NaiveSocks"),
                Stop("Naive")>>
    BY <1>15 DEF RepoStopCurrentProxy
  <2>2. /\ u1 \subseteq Taken(p.k) /\ u2 \subseteq Taken(p.k)
        /\ u1 \cap Clients \subseteq {"Naive"} /\ up \ {"Ssh"} \subseteq u1
        /\ u1 \ {"NaiveSocks"} \subseteq u2 /\ u2 \cap {"NaiveSocks", "Ssh"} = {}
        /\ u2 \ {"Naive"} \subseteq up
    OBVIOUS
  <2>3. /\ "Ssh" \notin low /\ "TorSocks" \notin low /\ "Snowflake" \notin low
        /\ "NaiveSocks" \notin low /\ "Naive" \notin low
    BY DEF Components, Clients, Listeners
  <2>4. "Snowflake" \notin u1
    BY <2>2 DEF Clients
  <2> HIDE DEF u1, u2
  <2>5. /\ FrontFirst(p, "Ssh", up) /\ FrontFirst(p, "NaiveSocks", u1) /\ FrontFirst(p, "Naive", u2)
    BY <2>2, FrontFirstListener, FrontFirstClient DEF Components, Clients, Listeners
  <2>6. Undoes(p, <<Stop("Ssh")>>, low, up, u1)
    BY <2>2, <2>3, <2>5, UndoStop
  <2>7. Undoes(p, <<Stop("TorSocks")>>, low, u1, u1)
    BY <2>2, <2>3, UndoAnyway DEF Components, Clients, Listeners
  <2>8. Undoes(p, <<Stop("Snowflake")>>, low, u1, u1)
    BY <2>2, <2>3, <2>4, UndoAnyway DEF Components, Clients, Listeners
  <2>9. Undoes(p, <<Stop("NaiveSocks")>>, low, u1, u2)
    BY <2>2, <2>3, <2>5, UndoStop
  <2>10. Undoes(p, <<Stop("Naive")>>, low, u2, up)
    BY <2>2, <2>3, <2>5, UndoStop
  <2>11. /\ Undoes(p, <<Stop("SlipstreamSocks")>>, low, up, up)
         /\ Undoes(p, <<Stop("Slipstream")>>, low, up, up)
         /\ Undoes(p, <<Stop("Dnstt")>>, low, up, up)
         /\ Undoes(p, <<Stop("Vaydns")>>, low, up, up)
    BY <1>1 DEF Components, Clients, Listeners
  <2>12. Undoes(p, <<Stop("SlipstreamSocks"), Stop("Slipstream"), Stop("Dnstt"), Stop("Vaydns"),
             Stop("Ssh"), Stop("TorSocks"), Stop("Snowflake"), Stop("NaiveSocks"),
                 Stop("Naive")>>, low, up, up)
    BY ONLY <2>6, <2>7, <2>8, <2>9, <2>10, <2>11, UndoNine
  <2> QED BY <2>1, <2>12
<1> QED BY <1>3, <1>4, <1>5, <1>6, <1>7, <1>8, <1>9, <1>10, <1>11, <1>12, <1>13, <1>14,
               <1>15 DEF Repos, RepoTypes

\* A failure path ends with stopSelf() or is left to handleTunnelFailure().
LEMMA UndoThenStopSelf ==
    ASSUME NEW p, NEW s, NEW up, NEW up2, NEW low, Undoes(p, s, low, up, up2),
           up2 \subseteq Taken(p.k), p.lax \/ up2 \cap Listeners = {}
    PROVE  SafeAny(p, s \o <<StopSelf>>, up, low)
<1>1. SafeAny(p, <<StopSelf>>, up2, low)
  BY RuleStopSelf DEF SafeAny, Within, Repos
<1> QED BY <1>1 DEF Undoes

\* An undo path in front of another one.
LEMMA UndoApply ==
    ASSUME NEW p, NEW s, NEW low, NEW up, NEW up2, Undoes(p, s, low, up, up2),
           NEW q, SafeAny(p, q, up2, low)
    PROVE  SafeAny(p, s \o q, up, low)
BY DEF Undoes

-----------------------------------------------------------------------------
(* The steps of a start, with failure paths that are safe whatever the     *)
(* repository has noted.                                                   *)

\* A start of a component, or its failure path.
LEMMA MainStart ==
    ASSUME NEW p, NEW q, NEW up, NEW low, NEW repo, Within(p, up, repo), NEW c, NEW v,
           c \in Clients \cup Listeners, c \in Native => Ref(c) \in low, "profile" \in low,
           NEW u, NEW l, Safe(p, q, u, l, NotedType(c, repo)), up \cup {c} \subseteq u,
               l \subseteq low \cup {c},
           NEW u2, NEW l2, SafeAny(p, v, u2, l2), up \subseteq u2, l2 \subseteq low
    PROVE  Safe(p, <<Try("start", c, v)>> \o q, up, low, repo)
<1>1. repo \in Repos /\ "none" \in Repos
  BY DEF Within, Repos
<1>2. Safe(p, v, u2, l2, repo)
  BY <1>1 DEF SafeAny
<1> QED BY <1>2, RuleStart

\* A wait for a component, or its failure path.
LEMMA MainReady ==
    ASSUME NEW p, NEW q, NEW up, NEW low, NEW repo, Within(p, up, repo), NEW c, NEW v,
           NEW u, NEW l, Safe(p, q, u, l, repo), up \subseteq u, l \subseteq low,
           NEW u2, NEW l2, SafeAny(p, v, u2, l2), up \subseteq u2, l2 \subseteq low
    PROVE  Safe(p, <<Try("ready", c, v)>> \o q, up, low, repo)
<1>1. repo \in Repos /\ "none" \in Repos
  BY DEF Within, Repos
<1>2. Safe(p, v, u2, l2, repo)
  BY <1>1 DEF SafeAny
<1> QED BY <1>2, RuleReady

\* establishVpnInterface(), or its failure path.
LEMMA MainTun ==
    ASSUME NEW p, NEW q, NEW up, NEW low, NEW repo, Within(p, up, repo), NEW v, "Hev" \notin up,
               "profile" \in low,
           NEW u, NEW l, Safe(p, q, u, l, repo), up \cup {"tun", "Http"} \subseteq u,
               l \subseteq low \cup {"tun"},
           NEW u2, NEW l2, SafeAny(p, v, u2, l2), up \cup {"Http"} \subseteq u2,
               l2 \subseteq low \ {"tun"}
    PROVE  Safe(p, <<Try("tun", "-", v)>> \o q, up, low, repo)
<1>1. repo \in Repos /\ "none" \in Repos
  BY DEF Within, Repos
<1>2. Safe(p, v, u2, l2, repo)
  BY <1>1 DEF SafeAny
<1> QED BY <1>2, RuleTun

\* The start of tun2socks, or stopCurrentProxy() of the repository and the failure path.
LEMMA MainHev ==
    ASSUME NEW p, NEW q, NEW up, NEW low, NEW repo, Within(p, up, repo), NEW v, "tun" \in low,
               "profile" \in low,
           NEW u, NEW l, Safe(p, q, u, l, repo), up \cup {"Hev"} \subseteq u, l \subseteq low,
           NEW u2, NEW l2, SafeAny(p, RepoStopCurrentProxy(repo) \o v, u2, l2), up \subseteq u2,
               l2 \subseteq low
    PROVE  Safe(p, <<Try("hev", "-", v)>> \o q, up, low, repo)
<1>1. repo \in Repos /\ "none" \in Repos
  BY DEF Within, Repos
<1>2. Safe(p, RepoStopCurrentProxy(repo) \o v, u2, l2, "none")
  BY <1>1 DEF SafeAny
<1> QED BY <1>2, RuleHev

\* The check of tun2socks after a restart, or the same two.
LEMMA MainRetun ==
    ASSUME NEW p, NEW q, NEW up, NEW low, NEW repo, Within(p, up, repo), NEW v,
           NEW u, NEW l, Safe(p, q, u, l, repo), up \subseteq u, l \subseteq low,
           NEW u2, NEW l2, SafeAny(p, RepoStopCurrentProxy(repo) \o v, u2, l2),
               up \ {"Hev"} \subseteq u2, l2 \subseteq low \ {"Hev"}
    PROVE  Safe(p, <<Try("retun", "-", v)>> \o q, up, low, repo)
<1>1. repo \in Repos /\ "none" \in Repos
  BY DEF Within, Repos
<1>2. Safe(p, RepoStopCurrentProxy(repo) \o v, u2, l2, "none")
  BY <1>1 DEF SafeAny
<1> QED BY <1>2, RuleRetun

\* connectSlipstream() is safe from the state in which connect() accepts the profile.
LEMMA ConnectSlipstream ==
    ASSUME NEW p, p.k = "SLIPSTREAM", NEW r \in Repos
    PROVE  Safe(p, connectOf("SLIPSTREAM"), {"profile", "tun", "SlipstreamRef"}, {"profile"}, r)
<1> DEFINE n == {}
           P == HandleProxyStartupFailure("SLIPSTREAM")
           R == ClearVpnServiceRef("SLIPSTREAM")
           v0 == R \o <<StopSelf>>
           v1 == P \o <<StopSelf>>
           v2 == (<<Close>> \o R) \o <<StopSelf>>
           e0 == Do("ref", "Slipstream")
           e1 == Try("start", "Slipstream", v0)
           e2 == Try("ready", "Slipstream", v1)
           e3 == Try("start", "SlipstreamSocks", v1)
           e4 == Try("ready", "SlipstreamSocks", v1)
           e5 == Try("tun", "-", v1)
           e6 == Try("hev", "-", v2)
           m7 == <<Do("finish", "-")>>
           m6 == <<e6>> \o m7
           m5 == <<e5>> \o m6
           m4 == <<e4>> \o m5
           m3 == <<e3>> \o m4
           m2 == <<e2>> \o m3
           m1 == <<e1>> \o m2
           m0 == <<e0>> \o m1
           a0 == {"profile", "tun", "SlipstreamRef"}
           a1 == {"profile", "tun", "SlipstreamRef", "Slipstream"}
           a2 == {"profile", "tun", "SlipstreamRef", "Slipstream", "SlipstreamSocks"}
           a3 == {"profile", "tun", "SlipstreamRef", "Http", "Slipstream", "SlipstreamSocks"}
           a4 == {"profile", "tun", "SlipstreamRef", "Http", "Hev", "Slipstream", "SlipstreamSocks"}
           a5 == {"profile"}
           a6 == {"profile", "SlipstreamRef"}
           a7 == {"profile", "SlipstreamRef", "Slipstream"}
           a8 == {"profile", "SlipstreamRef", "Slipstream", "SlipstreamSocks"}
           a9 == {"profile", "tun"}
           a10 == {"profile", "tun", "SlipstreamRef", "Http", "Slipstream"}
           a11 == {"profile", "tun", "SlipstreamRef", "Http"}
           a12 == {"profile", "SlipstreamRef", "Http"}
           a13 == {"profile", "Http"}
<1>1. Taken(p.k) = {"profile", "tun", "SlipstreamRef", "Http", "Hev", "Slipstream",
          "SlipstreamSocks"}
  BY DEF Taken, Returned, TunnelType, Parts, RefOf
<1>2. \A y : y \notin n
  OBVIOUS
<1> HIDE DEF n
\* What is held along the program and its failure paths.
<1>3. /\ a0 \subseteq Taken(p.k) /\ a1 \subseteq Taken(p.k) /\ a2 \subseteq Taken(p.k)
      /\ a3 \subseteq Taken(p.k) /\ a4 \subseteq Taken(p.k) /\ a5 \subseteq Taken(p.k)
      /\ a6 \subseteq Taken(p.k) /\ a7 \subseteq Taken(p.k) /\ a8 \subseteq Taken(p.k)
      /\ a9 \subseteq Taken(p.k) /\ a10 \subseteq Taken(p.k) /\ a11 \subseteq Taken(p.k)
      /\ a12 \subseteq Taken(p.k) /\ a13 \subseteq Taken(p.k)
  BY <1>1
<1>4. /\ "SLIPSTREAM" \in Types /\ a0 \cap Native = {} /\ a0 \ RefOf("SLIPSTREAM") \subseteq a9
      /\ n \cap RefOf("SLIPSTREAM") = {}
  BY <1>2 DEF Types, RefOf, Native
<1>5. p.lax \/ a9 \cap Listeners = {}
  BY DEF Listeners
<1>6. /\ "SLIPSTREAM" \in Types /\ a3 \subseteq Returned("SLIPSTREAM")
      /\ a3 \ ({"Http"} \cup Parts("SLIPSTREAM") \cup RefOf("SLIPSTREAM")) \subseteq a9
      /\ n \cap ({"Http"} \cup Parts("SLIPSTREAM") \cup RefOf("SLIPSTREAM")) = {}
  BY <1>2 DEF Types, Returned, Parts, RefOf
<1>7. /\ a3 \ {"SlipstreamSocks"} \subseteq a10 /\ "SlipstreamSocks" \notin n
      /\ FrontFirst(p, "SlipstreamSocks", a3)
  BY <1>2, FrontFirstListener DEF Components, Clients, Listeners
<1>8. /\ a10 \ {"Slipstream"} \subseteq a11 /\ "Slipstream" \notin n
      /\ FrontFirst(p, "Slipstream", a10)
  BY <1>2, FrontFirstClient
<1>9. a11 \ {"tun"} \subseteq a12 /\ "tun" \notin n /\ "Hev" \notin a11
  BY <1>2
<1>10. /\ "SLIPSTREAM" \in Types /\ a12 \cap Native = {}
       /\ a12 \ RefOf("SLIPSTREAM") \subseteq a13 /\ n \cap RefOf("SLIPSTREAM") = {}
  BY <1>2 DEF Types, RefOf, Native
<1>11. p.lax \/ a13 \cap Listeners = {}
  BY DEF Listeners
<1>12. /\ "SLIPSTREAM" \in Repos /\ "profile" \in a2 /\ RefOf(TunnelType(p.k)) \subseteq a2
       /\ Needs(p.k) \subseteq a2
  BY DEF Repos, RepoTypes, TunnelType, RefOf, Needs
<1>13. /\ "SLIPSTREAM" \in Repos /\ "profile" \in a2 /\ "tun" \in a2
       /\ a3 \cup {"Hev"} \subseteq a4 /\ n \subseteq a2
  BY <1>2 DEF Repos, RepoTypes
<1>14. /\ "SLIPSTREAM" \in Repos /\ "profile" \in a8 /\ "Hev" \notin a2
       /\ a2 \cup {"tun", "Http"} \subseteq a3 /\ a2 \subseteq a8 \cup {"tun"}
       /\ a2 \cup {"Http"} \subseteq a3 /\ n \subseteq a8 \ {"tun"}
  BY <1>2 DEF Repos, RepoTypes
<1>15. "SLIPSTREAM" \in Repos /\ a2 \subseteq a3 /\ n \subseteq a8
  BY <1>2 DEF Repos, RepoTypes
<1>16. /\ "SLIPSTREAM" \in Repos /\ "profile" \in a7
       /\ "SlipstreamSocks" \in Clients \cup Listeners
       /\ ("SlipstreamSocks" \in Native => Ref("SlipstreamSocks") \in a7)
       /\ a1 \cup {"SlipstreamSocks"} \subseteq a2 /\ a8 \subseteq a7 \cup {"SlipstreamSocks"}
       /\ NotedType("SlipstreamSocks", "SLIPSTREAM") = "SLIPSTREAM" /\ a1 \subseteq a3
       /\ n \subseteq a7
  BY <1>2 DEF Repos, RepoTypes, Clients, Listeners, Native, Ref, NotedType
<1>17. "SLIPSTREAM" \in Repos /\ a1 \subseteq a3 /\ n \subseteq a7
  BY <1>2 DEF Repos, RepoTypes
<1>18. /\ r \in Repos /\ "profile" \in a6 /\ "Slipstream" \in Clients \cup Listeners
       /\ ("Slipstream" \in Native => Ref("Slipstream") \in a6)
       /\ a0 \cup {"Slipstream"} \subseteq a1 /\ a7 \subseteq a6 \cup {"Slipstream"}
       /\ NotedType("Slipstream", r) = "SLIPSTREAM" /\ n \subseteq a6
  BY <1>2 DEF Repos, RepoTypes, Clients, Listeners, Native, Ref, NotedType
<1>19. /\ r \in Repos /\ "profile" \in a5 /\ "Slipstream" \in Native
       /\ a0 \cup {Ref("Slipstream")} \subseteq a0 /\ a6 \subseteq a5 \cup {Ref("Slipstream")}
  BY <1>2 DEF Repos, RepoTypes, Native, Ref
<1> HIDE DEF v0, v1, v2, m0, m1, m2, m3, m4, m5, m6, m7, a0, a1, a2, a3, a4, a5, a6, a7, a8, a9,
       a10, a11, a12, a13
\* The failure paths, and the program from its end.
<1>20. Undoes(p, R, n, a0, a9)
  BY <1>3, <1>4, UndoRef
<1>21. SafeAny(p, v0, a0, n)
  BY <1>3, <1>20, <1>5, UndoThenStopSelf DEF v0
<1>22. Undoes(p, P, n, a3, a9)
  BY <1>3, <1>6, UndoFailure
<1>23. SafeAny(p, v1, a3, n)
  BY <1>3, <1>22, <1>5, UndoThenStopSelf DEF v1
<1>24. Undoes(p, <<Stop("SlipstreamSocks")>>, n, a3, a10)
  BY <1>3, <1>7, UndoStop
<1>25. Undoes(p, <<Stop("Slipstream")>>, n, a10, a11)
  BY <1>3, <1>8, UndoStop
<1>26. Undoes(p, <<Stop("SlipstreamSocks"), Stop("Slipstream")>>, n, a3, a11)
  BY <1>24, <1>25, UndoPair
<1>27. Undoes(p, RepoStopCurrentProxy("SLIPSTREAM"), n, a3, a11)
  BY <1>26 DEF RepoStopCurrentProxy
<1>28. Undoes(p, <<Close>>, n, a11, a12)
  BY <1>3, <1>9, UndoClose
<1>29. Undoes(p, R, n, a12, a13)
  BY <1>3, <1>10, UndoRef
<1>30. Undoes(p, <<Close>> \o R, n, a11, a13)
  BY <1>28, <1>29, UndoConcat
<1>31. SafeAny(p, v2, a11, n)
  BY <1>3, <1>30, <1>11, UndoThenStopSelf DEF v2
<1>32. SafeAny(p, RepoStopCurrentProxy("SLIPSTREAM") \o v2, a3, n)
  BY <1>27, <1>31, UndoApply
<1>33. Safe(p, m7, a4, a2, "SLIPSTREAM")
  BY <1>3, <1>12, RuleFinish DEF m7, Within, Repos
<1>34. Safe(p, m6, a3, a2, "SLIPSTREAM")
  BY <1>3, <1>32, <1>13, <1>33, MainHev DEF m6, Within, Repos
<1>35. Safe(p, m5, a2, a8, "SLIPSTREAM")
  BY <1>3, <1>23, <1>14, <1>34, MainTun DEF m5, Within, Repos
<1>36. Safe(p, m4, a2, a8, "SLIPSTREAM")
  BY <1>3, <1>23, <1>15, <1>35, MainReady DEF m4, Within, Repos
<1>37. Safe(p, m3, a1, a7, "SLIPSTREAM")
  BY <1>3, <1>23, <1>16, <1>36, MainStart DEF m3, Within, Repos
<1>38. Safe(p, m2, a1, a7, "SLIPSTREAM")
  BY <1>3, <1>23, <1>17, <1>37, MainReady DEF m2, Within, Repos
<1>39. Safe(p, m1, a0, a6, r)
  BY <1>3, <1>21, <1>18, <1>38, MainStart DEF m1, Within, Repos
<1>40. Safe(p, m0, a0, a5, r)
  BY <1>3, <1>19, <1>39, RuleRef DEF m0, Within, Repos
<1>41. connectOf("SLIPSTREAM") = connectSlipstream \o m7
  BY DEF connectOf, m7
<1>42. connectSlipstream = <<e0, e1, e2, e3, e4, e5, e6>>
  BY DEF connectSlipstream, Start, Ready, OpenTun, Tun2Socks, v0, v1, v2
<1> HIDE DEF e0, e1, e2, e3, e4, e5, e6
<1>43. IsSeq(m7)
  BY Seq1 DEF m7
<1>44. Same(<<e0, e1, e2, e3, e4, e5, e6>> \o m7, m0)
  BY <1>43, Unroll7, ZenonT(60) DEF m0, m1, m2, m3, m4, m5, m6
<1> QED BY <1>40, <1>41, <1>42, <1>44 DEF Same, a0, a5

\* connectSlipstreamSsh() is safe from the state in which connect() accepts the profile.
LEMMA ConnectSlipstreamSsh ==
    ASSUME NEW p, p.k = "SLIPSTREAM_SSH", NEW r \in Repos
    PROVE  Safe(p, connectOf("SLIPSTREAM_SSH"), {"profile", "tun", "SlipstreamRef"}, {"profile"}, r)
<1> DEFINE n == {}
           P == HandleProxyStartupFailure("SLIPSTREAM_SSH")
           R == ClearVpnServiceRef("SLIPSTREAM_SSH")
           v0 == R \o <<StopSelf>>
           v1 == P \o <<StopSelf>>
           v2 == (<<Stop("Slipstream")>> \o R) \o <<StopSelf>>
           v3 == (<<Stop("Ssh")>> \o (<<Stop("Slipstream")>> \o R)) \o <<StopSelf>>
           v4 == (<<Stop("Ssh"), Stop("Slipstream"), Close>> \o R) \o <<StopSelf>>
           e0 == Do("ref", "Slipstream")
           e1 == Try("start", "Slipstream", v0)
           e2 == Try("ready", "Slipstream", v1)
           e3 == Try("ready", "Slipstream", v2)
           e4 == Do("repo", "SLIPSTREAM_SSH")
           e5 == Try("start", "Ssh", v2)
           e6 == Try("ready", "Ssh", v3)
           e7 == Try("tun", "-", v3)
           e8 == Try("hev", "-", v4)
           m9 == <<Do("finish", "-")>>
           m8 == <<e8>> \o m9
           m7 == <<e7>> \o m8
           m6 == <<e6>> \o m7
           m5 == <<e5>> \o m6
           m4 == <<e4>> \o m5
           m3 == <<e3>> \o m4
           m2 == <<e2>> \o m3
           m1 == <<e1>> \o m2
           m0 == <<e0>> \o m1
           a0 == {"profile", "tun", "SlipstreamRef"}
           a1 == {"profile", "tun", "SlipstreamRef", "Slipstream"}
           a2 == {"profile", "tun", "SlipstreamRef", "Slipstream", "Ssh"}
           a3 == {"profile", "tun", "SlipstreamRef", "Http", "Slipstream", "Ssh"}
           a4 == {"profile", "tun", "SlipstreamRef", "Http", "Hev", "Slipstream", "Ssh"}
           a5 == {"profile"}
           a6 == {"profile", "SlipstreamRef"}
           a7 == {"profile", "SlipstreamRef", "Slipstream"}
           a8 == {"profile", "SlipstreamRef", "Slipstream", "Ssh"}
           a9 == {"profile", "tun"}
           a10 == {"profile", "tun", "SlipstreamRef", "Http", "Slipstream"}
           a11 == {"profile", "tun", "SlipstreamRef", "Http"}
           a12 == {"profile", "tun", "Http"}
           a13 == {"profile", "SlipstreamRef", "Http"}
           a14 == {"profile", "Http"}
<1>1. Taken(p.k) = {"profile", "tun", "SlipstreamRef", "Http", "Hev", "Slipstream", "Ssh"}
  BY DEF Taken, Returned, TunnelType, Parts, RefOf
<1>2. \A y : y \notin n
  OBVIOUS
<1> HIDE DEF n
\* What is held along the program and its failure paths.
<1>3. /\ a0 \subseteq Taken(p.k) /\ a1 \subseteq Taken(p.k) /\ a2 \subseteq Taken(p.k)
      /\ a3 \subseteq Taken(p.k) /\ a4 \subseteq Taken(p.k) /\ a5 \subseteq Taken(p.k)
      /\ a6 \subseteq Taken(p.k) /\ a7 \subseteq Taken(p.k) /\ a8 \subseteq Taken(p.k)
      /\ a9 \subseteq Taken(p.k) /\ a10 \subseteq Taken(p.k) /\ a11 \subseteq Taken(p.k)
      /\ a12 \subseteq Taken(p.k) /\ a13 \subseteq Taken(p.k) /\ a14 \subseteq Taken(p.k)
  BY <1>1
<1>4. /\ "SLIPSTREAM_SSH" \in Types /\ a0 \cap Native = {}
      /\ a0 \ RefOf("SLIPSTREAM_SSH") \subseteq a9 /\ n \cap RefOf("SLIPSTREAM_SSH") = {}
  BY <1>2 DEF Types, RefOf, Native
<1>5. p.lax \/ a9 \cap Listeners = {}
  BY DEF Listeners
<1>6. /\ "SLIPSTREAM_SSH" \in Types /\ a1 \subseteq Returned("SLIPSTREAM_SSH")
      /\ a1 \ ({"Http"} \cup Parts("SLIPSTREAM_SSH") \cup RefOf("SLIPSTREAM_SSH")) \subseteq a9
      /\ n \cap ({"Http"} \cup Parts("SLIPSTREAM_SSH") \cup RefOf("SLIPSTREAM_SSH")) = {}
  BY <1>2 DEF Types, Returned, Parts, RefOf
<1>7. /\ a1 \ {"Slipstream"} \subseteq a0 /\ "Slipstream" \notin n
      /\ FrontFirst(p, "Slipstream", a1)
  BY <1>2, FrontFirstClient
<1>8. a3 \ {"Ssh"} \subseteq a10 /\ "Ssh" \notin n /\ FrontFirst(p, "Ssh", a3)
  BY <1>2, FrontFirstListener DEF Components, Clients, Listeners
<1>9. /\ a10 \ {"Slipstream"} \subseteq a11 /\ "Slipstream" \notin n
      /\ FrontFirst(p, "Slipstream", a10)
  BY <1>2, FrontFirstClient
<1>10. /\ "SLIPSTREAM_SSH" \in Types /\ a11 \cap Native = {}
       /\ a11 \ RefOf("SLIPSTREAM_SSH") \subseteq a12 /\ n \cap RefOf("SLIPSTREAM_SSH") = {}
  BY <1>2 DEF Types, RefOf, Native
<1>11. p.lax \/ a12 \cap Listeners = {}
  BY DEF Listeners
<1>12. a11 \ {"Ssh"} \subseteq a11 /\ "Ssh" \notin n /\ FrontFirst(p, "Ssh", a11)
  BY <1>2, FrontFirstListener DEF Components, Clients, Listeners
<1>13. /\ a11 \ {"Slipstream"} \subseteq a11 /\ "Slipstream" \notin n
       /\ FrontFirst(p, "Slipstream", a11)
  BY <1>2 DEF FrontFirst, Components, Clients
<1>14. a11 \ {"tun"} \subseteq a13 /\ "tun" \notin n /\ "Hev" \notin a11
  BY <1>2
<1>15. /\ "SLIPSTREAM_SSH" \in Types /\ a13 \cap Native = {}
       /\ a13 \ RefOf("SLIPSTREAM_SSH") \subseteq a14 /\ n \cap RefOf("SLIPSTREAM_SSH") = {}
  BY <1>2 DEF Types, RefOf, Native
<1>16. p.lax \/ a14 \cap Listeners = {}
  BY DEF Listeners
<1>17. /\ "SLIPSTREAM_SSH" \in Repos /\ "profile" \in a2 /\ RefOf(TunnelType(p.k)) \subseteq a2
       /\ Needs(p.k) \subseteq a2
  BY DEF Repos, RepoTypes, TunnelType, RefOf, Needs
<1>18. /\ "SLIPSTREAM_SSH" \in Repos /\ "profile" \in a2 /\ "tun" \in a2
       /\ a3 \cup {"Hev"} \subseteq a4 /\ n \subseteq a2
  BY <1>2 DEF Repos, RepoTypes
<1>19. /\ "SLIPSTREAM_SSH" \in Repos /\ "profile" \in a8 /\ "Hev" \notin a2
       /\ a2 \cup {"tun", "Http"} \subseteq a3 /\ a2 \subseteq a8 \cup {"tun"}
       /\ a2 \cup {"Http"} \subseteq a3 /\ n \subseteq a8 \ {"tun"}
  BY <1>2 DEF Repos, RepoTypes
<1>20. "SLIPSTREAM_SSH" \in Repos /\ a2 \subseteq a3 /\ n \subseteq a8
  BY <1>2 DEF Repos, RepoTypes
<1>21. /\ "SLIPSTREAM_SSH" \in Repos /\ "profile" \in a7 /\ "Ssh" \in Clients \cup Listeners
       /\ ("Ssh" \in Native => Ref("Ssh") \in a7) /\ a1 \cup {"Ssh"} \subseteq a2
       /\ a8 \subseteq a7 \cup {"Ssh"} /\ NotedType("Ssh", "SLIPSTREAM_SSH") = "SLIPSTREAM_SSH"
       /\ n \subseteq a7
  BY <1>2 DEF Repos, RepoTypes, Clients, Listeners, Native, Ref, NotedType
<1>22. "SLIPSTREAM" \in Repos /\ "SLIPSTREAM_SSH" \in RepoTypes
  BY <1>2 DEF Repos, RepoTypes
<1>23. "SLIPSTREAM" \in Repos /\ n \subseteq a7
  BY <1>2 DEF Repos, RepoTypes
<1>24. /\ r \in Repos /\ "profile" \in a6 /\ "Slipstream" \in Clients \cup Listeners
       /\ ("Slipstream" \in Native => Ref("Slipstream") \in a6)
       /\ a0 \cup {"Slipstream"} \subseteq a1 /\ a7 \subseteq a6 \cup {"Slipstream"}
       /\ NotedType("Slipstream", r) = "SLIPSTREAM" /\ n \subseteq a6
  BY <1>2 DEF Repos, RepoTypes, Clients, Listeners, Native, Ref, NotedType
<1>25. /\ r \in Repos /\ "profile" \in a5 /\ "Slipstream" \in Native
       /\ a0 \cup {Ref("Slipstream")} \subseteq a0 /\ a6 \subseteq a5 \cup {Ref("Slipstream")}
  BY <1>2 DEF Repos, RepoTypes, Native, Ref
<1> HIDE DEF v0, v1, v2, v3, v4, m0, m1, m2, m3, m4, m5, m6, m7, m8, m9, a0, a1, a2, a3, a4, a5,
       a6, a7, a8, a9, a10, a11, a12, a13, a14
\* The failure paths, and the program from its end.
<1>26. Undoes(p, R, n, a0, a9)
  BY <1>3, <1>4, UndoRef
<1>27. SafeAny(p, v0, a0, n)
  BY <1>3, <1>26, <1>5, UndoThenStopSelf DEF v0
<1>28. Undoes(p, P, n, a1, a9)
  BY <1>3, <1>6, UndoFailure
<1>29. SafeAny(p, v1, a1, n)
  BY <1>3, <1>28, <1>5, UndoThenStopSelf DEF v1
<1>30. Undoes(p, <<Stop("Slipstream")>>, n, a1, a0)
  BY <1>3, <1>7, UndoStop
<1>31. Undoes(p, <<Stop("Slipstream")>> \o R, n, a1, a9)
  BY <1>30, <1>26, UndoConcat
<1>32. SafeAny(p, v2, a1, n)
  BY <1>3, <1>31, <1>5, UndoThenStopSelf DEF v2
<1>33. Undoes(p, <<Stop("Ssh")>>, n, a3, a10)
  BY <1>3, <1>8, UndoStop
<1>34. Undoes(p, <<Stop("Slipstream")>>, n, a10, a11)
  BY <1>3, <1>9, UndoStop
<1>35. Undoes(p, R, n, a11, a12)
  BY <1>3, <1>10, UndoRef
<1>36. Undoes(p, <<Stop("Slipstream")>> \o R, n, a10, a12)
  BY <1>34, <1>35, UndoConcat
<1>37. Undoes(p, <<Stop("Ssh")>> \o (<<Stop("Slipstream")>> \o R), n, a3, a12)
  BY <1>33, <1>36, UndoConcat
<1>38. SafeAny(p, v3, a3, n)
  BY <1>3, <1>37, <1>11, UndoThenStopSelf DEF v3
<1>39. Undoes(p, <<Stop("Ssh"), Stop("Slipstream")>>, n, a3, a11)
  BY <1>33, <1>34, UndoPair
<1>40. Undoes(p, RepoStopCurrentProxy("SLIPSTREAM_SSH"), n, a3, a11)
  BY <1>39 DEF RepoStopCurrentProxy
<1>41. Undoes(p, <<Stop("Ssh")>>, n, a11, a11)
  BY <1>3, <1>12, UndoStop
<1>42. Undoes(p, <<Stop("Slipstream")>>, n, a11, a11)
  BY <1>3, <1>13, UndoStop
<1>43. Undoes(p, <<Close>>, n, a11, a13)
  BY <1>3, <1>14, UndoClose
<1>44. Undoes(p, <<Stop("Slipstream"), Close>>, n, a11, a13)
  BY <1>42, <1>43, UndoPair
<1>45. Undoes(p, <<Stop("Ssh"), Stop("Slipstream"), Close>>, n, a11, a13)
  BY <1>41, <1>44, UndoTriple
<1>46. Undoes(p, R, n, a13, a14)
  BY <1>3, <1>15, UndoRef
<1>47. Undoes(p, <<Stop("Ssh"), Stop("Slipstream"), Close>> \o R, n, a11, a14)
  BY <1>45, <1>46, UndoConcat
<1>48. SafeAny(p, v4, a11, n)
  BY <1>3, <1>47, <1>16, UndoThenStopSelf DEF v4
<1>49. SafeAny(p, RepoStopCurrentProxy("SLIPSTREAM_SSH") \o v4, a3, n)
  BY <1>40, <1>48, UndoApply
<1>50. Safe(p, m9, a4, a2, "SLIPSTREAM_SSH")
  BY <1>3, <1>17, RuleFinish DEF m9, Within, Repos
<1>51. Safe(p, m8, a3, a2, "SLIPSTREAM_SSH")
  BY <1>3, <1>49, <1>18, <1>50, MainHev DEF m8, Within, Repos
<1>52. Safe(p, m7, a2, a8, "SLIPSTREAM_SSH")
  BY <1>3, <1>38, <1>19, <1>51, MainTun DEF m7, Within, Repos
<1>53. Safe(p, m6, a2, a8, "SLIPSTREAM_SSH")
  BY <1>3, <1>38, <1>20, <1>52, MainReady DEF m6, Within, Repos
<1>54. Safe(p, m5, a1, a7, "SLIPSTREAM_SSH")
  BY <1>3, <1>32, <1>21, <1>53, MainStart DEF m5, Within, Repos
<1>55. Safe(p, m4, a1, a7, "SLIPSTREAM")
  BY <1>3, <1>22, <1>54, RuleRepo DEF m4, Within, Repos
<1>56. Safe(p, m3, a1, a7, "SLIPSTREAM")
  BY <1>3, <1>32, <1>23, <1>55, MainReady DEF m3, Within, Repos
<1>57. Safe(p, m2, a1, a7, "SLIPSTREAM")
  BY <1>3, <1>29, <1>23, <1>56, MainReady DEF m2, Within, Repos
<1>58. Safe(p, m1, a0, a6, r)
  BY <1>3, <1>27, <1>24, <1>57, MainStart DEF m1, Within, Repos
<1>59. Safe(p, m0, a0, a5, r)
  BY <1>3, <1>25, <1>58, RuleRef DEF m0, Within, Repos
<1>60. connectOf("SLIPSTREAM_SSH") = connectSlipstreamSsh \o m9
  BY DEF connectOf, m9
<1>61. connectSlipstreamSsh = <<e0, e1, e2, e3, e4, e5, e6, e7, e8>>
  BY DEF connectSlipstreamSsh, Start, Ready, OpenTun, Tun2Socks, v0, v1, v2, v3, v4
<1> HIDE DEF e0, e1, e2, e3, e4, e5, e6, e7, e8
<1>62. IsSeq(m9)
  BY Seq1 DEF m9
<1>63. Same(<<e0, e1, e2, e3, e4, e5, e6, e7, e8>> \o m9, m0)
  BY <1>62, Unroll9, ZenonT(60) DEF m0, m1, m2, m3, m4, m5, m6, m7, m8
<1> QED BY <1>59, <1>60, <1>61, <1>63 DEF Same, a0, a5

\* connectDnstt() is safe from the state in which connect() accepts the profile.
LEMMA ConnectDnstt ==
    ASSUME NEW p, p.k = "DNSTT", p.lax, NEW r \in Repos
    PROVE  Safe(p, connectOf("DNSTT"), {"profile", "tun", "DnsttRef"}, {"profile"}, r)
<1> DEFINE n == {}
           P == HandleProxyStartupFailure("DNSTT")
           R == ClearVpnServiceRef("DNSTT")
           v0 == R \o <<StopSelf>>
           v1 == (<<Close>> \o R) \o <<StopSelf>>
           v2 == (P \o <<Close>>) \o <<StopSelf>>
           v3 == P \o <<StopSelf>>
           v4 == (<<Close>> \o R) \o <<StopSelf>>
           e0 == Do("ref", "Dnstt")
           e1 == Try("tun", "-", v0)
           e2 == Try("start", "Dnstt", v1)
           e3 == Try("ready", "Dnstt", v2)
           e4 == Try("start", "DnsttSocks", v3)
           e5 == Try("ready", "DnsttSocks", v3)
           e6 == Try("hev", "-", v4)
           m7 == <<Do("finish", "-")>>
           m6 == <<e6>> \o m7
           m5 == <<e5>> \o m6
           m4 == <<e4>> \o m5
           m3 == <<e3>> \o m4
           m2 == <<e2>> \o m3
           m1 == <<e1>> \o m2
           m0 == <<e0>> \o m1
           a0 == {"profile", "tun", "DnsttRef"}
           a1 == {"profile", "tun", "DnsttRef", "Http"}
           a2 == {"profile", "tun", "DnsttRef", "Http", "Dnstt"}
           a3 == {"profile", "tun", "DnsttRef", "Http", "Dnstt", "DnsttSocks"}
           a4 == {"profile", "tun", "DnsttRef", "Http", "Hev", "Dnstt", "DnsttSocks"}
           a5 == {"profile"}
           a6 == {"profile", "DnsttRef"}
           a7 == {"profile", "tun", "DnsttRef", "Dnstt"}
           a8 == {"profile", "tun", "DnsttRef", "Dnstt", "DnsttSocks"}
           a9 == {"profile", "tun", "Http"}
           a10 == {"profile", "DnsttRef", "Http"}
           a11 == {"profile", "Http"}
           a12 == {"profile", "tun"}
           a13 == {"profile", "tun", "DnsttRef", "Http", "DnsttSocks"}
           a14 == {"profile", "DnsttRef", "Http", "DnsttSocks"}
           a15 == {"profile", "Http", "DnsttSocks"}
<1>1. Taken(p.k) = {"profile", "tun", "DnsttRef", "Http", "Hev", "Dnstt", "DnsttSocks"}
  BY DEF Taken, Returned, TunnelType, Parts, RefOf
<1>2. \A y : y \notin n
  OBVIOUS
<1> HIDE DEF n
\* What is held along the program and its failure paths.
<1>3. /\ a0 \subseteq Taken(p.k) /\ a1 \subseteq Taken(p.k) /\ a2 \subseteq Taken(p.k)
      /\ a3 \subseteq Taken(p.k) /\ a4 \subseteq Taken(p.k) /\ a5 \subseteq Taken(p.k)
      /\ a6 \subseteq Taken(p.k) /\ a7 \subseteq Taken(p.k) /\ a8 \subseteq Taken(p.k)
      /\ a9 \subseteq Taken(p.k) /\ a10 \subseteq Taken(p.k) /\ a11 \subseteq Taken(p.k)
      /\ a12 \subseteq Taken(p.k) /\ a13 \subseteq Taken(p.k) /\ a14 \subseteq Taken(p.k)
      /\ a15 \subseteq Taken(p.k)
  BY <1>1
<1>4. /\ "DNSTT" \in Types /\ a1 \cap Native = {} /\ a1 \ RefOf("DNSTT") \subseteq a9
      /\ n \cap RefOf("DNSTT") = {}
  BY <1>2 DEF Types, RefOf, Native
<1>5. p.lax \/ a9 \cap Listeners = {}
  BY DEF Listeners
<1>6. a1 \ {"tun"} \subseteq a10 /\ "tun" \notin n /\ "Hev" \notin a1
  BY <1>2
<1>7. /\ "DNSTT" \in Types /\ a10 \cap Native = {} /\ a10 \ RefOf("DNSTT") \subseteq a11
      /\ n \cap RefOf("DNSTT") = {}
  BY <1>2 DEF Types, RefOf, Native
<1>8. p.lax \/ a11 \cap Listeners = {}
  BY DEF Listeners
<1>9. /\ "DNSTT" \in Types /\ a2 \subseteq Returned("DNSTT")
      /\ a2 \ ({"Http"} \cup Parts("DNSTT") \cup RefOf("DNSTT")) \subseteq a12
      /\ n \cap ({"Http"} \cup Parts("DNSTT") \cup RefOf("DNSTT")) = {}
  BY <1>2 DEF Types, Returned, Parts, RefOf
<1>10. a12 \ {"tun"} \subseteq a5 /\ "tun" \notin n /\ "Hev" \notin a12
  BY <1>2
<1>11. p.lax \/ a5 \cap Listeners = {}
  BY DEF Listeners
<1>12. /\ "DNSTT" \in Types /\ a3 \subseteq Returned("DNSTT")
       /\ a3 \ ({"Http"} \cup Parts("DNSTT") \cup RefOf("DNSTT")) \subseteq a12
       /\ n \cap ({"Http"} \cup Parts("DNSTT") \cup RefOf("DNSTT")) = {}
  BY <1>2 DEF Types, Returned, Parts, RefOf
<1>13. p.lax \/ a12 \cap Listeners = {}
  BY DEF Listeners
<1>14. a3 \ {"Dnstt"} \subseteq a13 /\ "Dnstt" \notin n /\ FrontFirst(p, "Dnstt", a3)
  BY <1>2 DEF FrontFirst, Components, Clients
<1>15. a13 \ {"tun"} \subseteq a14 /\ "tun" \notin n /\ "Hev" \notin a13
  BY <1>2
<1>16. /\ "DNSTT" \in Types /\ a14 \cap Native = {} /\ a14 \ RefOf("DNSTT") \subseteq a15
       /\ n \cap RefOf("DNSTT") = {}
  BY <1>2 DEF Types, RefOf, Native
<1>17. p.lax \/ a15 \cap Listeners = {}
  BY DEF Listeners
<1>18. /\ "DNSTT" \in Repos /\ "profile" \in a8 /\ RefOf(TunnelType(p.k)) \subseteq a8
       /\ Needs(p.k) \subseteq a8
  BY DEF Repos, RepoTypes, TunnelType, RefOf, Needs
<1>19. /\ "DNSTT" \in Repos /\ "profile" \in a8 /\ "tun" \in a8 /\ a3 \cup {"Hev"} \subseteq a4
       /\ n \subseteq a8
  BY <1>2 DEF Repos, RepoTypes
<1>20. "DNSTT" \in Repos /\ n \subseteq a8
  BY <1>2 DEF Repos, RepoTypes
<1>21. /\ "DNSTT" \in Repos /\ "profile" \in a7 /\ "DnsttSocks" \in Clients \cup Listeners
       /\ ("DnsttSocks" \in Native => Ref("DnsttSocks") \in a7)
       /\ a2 \cup {"DnsttSocks"} \subseteq a3 /\ a8 \subseteq a7 \cup {"DnsttSocks"}
       /\ NotedType("DnsttSocks", "DNSTT") = "DNSTT" /\ a2 \subseteq a3 /\ n \subseteq a7
  BY <1>2 DEF Repos, RepoTypes, Clients, Listeners, Native, Ref, NotedType
<1>22. "DNSTT" \in Repos /\ n \subseteq a7
  BY <1>2 DEF Repos, RepoTypes
<1>23. /\ r \in Repos /\ "profile" \in a0 /\ "Dnstt" \in Clients \cup Listeners
       /\ ("Dnstt" \in Native => Ref("Dnstt") \in a0) /\ a1 \cup {"Dnstt"} \subseteq a2
       /\ a7 \subseteq a0 \cup {"Dnstt"} /\ NotedType("Dnstt", r) = "DNSTT" /\ n \subseteq a0
  BY <1>2 DEF Repos, RepoTypes, Clients, Listeners, Native, Ref, NotedType
<1>24. /\ r \in Repos /\ "profile" \in a6 /\ "Hev" \notin a0
       /\ a0 \cup {"tun", "Http"} \subseteq a1 /\ a0 \subseteq a6 \cup {"tun"}
       /\ a0 \cup {"Http"} \subseteq a1 /\ n \subseteq a6 \ {"tun"}
  BY <1>2 DEF Repos, RepoTypes
<1>25. /\ r \in Repos /\ "profile" \in a5 /\ "Dnstt" \in Native
       /\ a0 \cup {Ref("Dnstt")} \subseteq a0 /\ a6 \subseteq a5 \cup {Ref("Dnstt")}
  BY <1>2 DEF Repos, RepoTypes, Native, Ref
<1> HIDE DEF v0, v1, v2, v3, v4, m0, m1, m2, m3, m4, m5, m6, m7, a0, a1, a2, a3, a4, a5, a6, a7,
       a8, a9, a10, a11, a12, a13, a14, a15
\* The failure paths, and the program from its end.
<1>26. Undoes(p, R, n, a1, a9)
  BY <1>3, <1>4, UndoRef
<1>27. SafeAny(p, v0, a1, n)
  BY <1>3, <1>26, <1>5, UndoThenStopSelf DEF v0
<1>28. Undoes(p, <<Close>>, n, a1, a10)
  BY <1>3, <1>6, UndoClose
<1>29. Undoes(p, R, n, a10, a11)
  BY <1>3, <1>7, UndoRef
<1>30. Undoes(p, <<Close>> \o R, n, a1, a11)
  BY <1>28, <1>29, UndoConcat
<1>31. SafeAny(p, v1, a1, n)
  BY <1>3, <1>30, <1>8, UndoThenStopSelf DEF v1
<1>32. Undoes(p, P, n, a2, a12)
  BY <1>3, <1>9, UndoFailure
<1>33. Undoes(p, <<Close>>, n, a12, a5)
  BY <1>3, <1>10, UndoClose
<1>34. Undoes(p, P \o <<Close>>, n, a2, a5)
  BY <1>32, <1>33, UndoConcat
<1>35. SafeAny(p, v2, a2, n)
  BY <1>3, <1>34, <1>11, UndoThenStopSelf DEF v2
<1>36. Undoes(p, P, n, a3, a12)
  BY <1>3, <1>12, UndoFailure
<1>37. SafeAny(p, v3, a3, n)
  BY <1>3, <1>36, <1>13, UndoThenStopSelf DEF v3
<1>38. Undoes(p, <<Stop("Dnstt")>>, n, a3, a13)
  BY <1>3, <1>14, UndoStop
<1>39. Undoes(p, RepoStopCurrentProxy("DNSTT"), n, a3, a13)
  BY <1>38 DEF RepoStopCurrentProxy
<1>40. Undoes(p, <<Close>>, n, a13, a14)
  BY <1>3, <1>15, UndoClose
<1>41. Undoes(p, R, n, a14, a15)
  BY <1>3, <1>16, UndoRef
<1>42. Undoes(p, <<Close>> \o R, n, a13, a15)
  BY <1>40, <1>41, UndoConcat
<1>43. SafeAny(p, v4, a13, n)
  BY <1>3, <1>42, <1>17, UndoThenStopSelf DEF v4
<1>44. SafeAny(p, RepoStopCurrentProxy("DNSTT") \o v4, a3, n)
  BY <1>39, <1>43, UndoApply
<1>45. Safe(p, m7, a4, a8, "DNSTT")
  BY <1>3, <1>18, RuleFinish DEF m7, Within, Repos
<1>46. Safe(p, m6, a3, a8, "DNSTT")
  BY <1>3, <1>44, <1>19, <1>45, MainHev DEF m6, Within, Repos
<1>47. Safe(p, m5, a3, a8, "DNSTT")
  BY <1>3, <1>37, <1>20, <1>46, MainReady DEF m5, Within, Repos
<1>48. Safe(p, m4, a2, a7, "DNSTT")
  BY <1>3, <1>37, <1>21, <1>47, MainStart DEF m4, Within, Repos
<1>49. Safe(p, m3, a2, a7, "DNSTT")
  BY <1>3, <1>35, <1>22, <1>48, MainReady DEF m3, Within, Repos
<1>50. Safe(p, m2, a1, a0, r)
  BY <1>3, <1>31, <1>23, <1>49, MainStart DEF m2, Within, Repos
<1>51. Safe(p, m1, a0, a6, r)
  BY <1>3, <1>27, <1>24, <1>50, MainTun DEF m1, Within, Repos
<1>52. Safe(p, m0, a0, a5, r)
  BY <1>3, <1>25, <1>51, RuleRef DEF m0, Within, Repos
<1>53. connectOf("DNSTT") = connectDnstt \o m7
  BY DEF connectOf, m7
<1>54. connectDnstt = <<e0, e1, e2, e3, e4, e5, e6>>
  BY DEF connectDnstt, Start, Ready, OpenTun, Tun2Socks, v0, v1, v2, v3, v4
<1> HIDE DEF e0, e1, e2, e3, e4, e5, e6
<1>55. IsSeq(m7)
  BY Seq1 DEF m7
<1>56. Same(<<e0, e1, e2, e3, e4, e5, e6>> \o m7, m0)
  BY <1>55, Unroll7, ZenonT(60) DEF m0, m1, m2, m3, m4, m5, m6
<1> QED BY <1>52, <1>53, <1>54, <1>56 DEF Same, a0, a5

\* connectDnsttSsh() is safe from the state in which connect() accepts the profile.
LEMMA ConnectDnsttSsh ==
    ASSUME NEW p, p.k = "DNSTT_SSH", NEW r \in Repos
    PROVE  Safe(p, connectOf("DNSTT_SSH"), {"profile", "tun", "DnsttRef"}, {"profile"}, r)
<1> DEFINE n == {}
           P == HandleProxyStartupFailure("DNSTT_SSH")
           R == ClearVpnServiceRef("DNSTT_SSH")
           v0 == R \o <<StopSelf>>
           v1 == (<<Close>> \o R) \o <<StopSelf>>
           v2 == (P \o <<Close>>) \o <<StopSelf>>
           v3 == (<<Stop("Dnstt"), Close>> \o R) \o <<StopSelf>>
           v4 == (<<Stop("Ssh")>> \o (<<Stop("Dnstt"), Close>> \o R)) \o <<StopSelf>>
           v5 == (<<Stop("Ssh")>> \o (<<Stop("Dnstt"), Close>> \o R)) \o <<StopSelf>>
           e0 == Do("ref", "Dnstt")
           e1 == Try("tun", "-", v0)
           e2 == Try("start", "Dnstt", v1)
           e3 == Try("ready", "Dnstt", v2)
           e4 == Do("repo", "DNSTT_SSH")
           e5 == Try("start", "Ssh", v3)
           e6 == Try("ready", "Ssh", v4)
           e7 == Try("hev", "-", v5)
           m8 == <<Do("finish", "-")>>
           m7 == <<e7>> \o m8
           m6 == <<e6>> \o m7
           m5 == <<e5>> \o m6
           m4 == <<e4>> \o m5
           m3 == <<e3>> \o m4
           m2 == <<e2>> \o m3
           m1 == <<e1>> \o m2
           m0 == <<e0>> \o m1
           a0 == {"profile", "tun", "DnsttRef"}
           a1 == {"profile", "tun", "DnsttRef", "Http"}
           a2 == {"profile", "tun", "DnsttRef", "Http", "Dnstt"}
           a3 == {"profile", "tun", "DnsttRef", "Http", "Dnstt", "Ssh"}
           a4 == {"profile", "tun", "DnsttRef", "Http", "Hev", "Dnstt", "Ssh"}
           a5 == {"profile"}
           a6 == {"profile", "DnsttRef"}
           a7 == {"profile", "tun", "DnsttRef", "Dnstt"}
           a8 == {"profile", "tun", "DnsttRef", "Dnstt", "Ssh"}
           a9 == {"profile", "tun", "Http"}
           a10 == {"profile", "DnsttRef", "Http"}
           a11 == {"profile", "Http"}
           a12 == {"profile", "tun"}
<1>1. Taken(p.k) = {"profile", "tun", "DnsttRef", "Http", "Hev", "Dnstt", "DnsttSocks", "Ssh"}
  BY DEF Taken, Returned, TunnelType, Parts, RefOf
<1>2. \A y : y \notin n
  OBVIOUS
<1> HIDE DEF n
\* What is held along the program and its failure paths.
<1>3. /\ a0 \subseteq Taken(p.k) /\ a1 \subseteq Taken(p.k) /\ a2 \subseteq Taken(p.k)
      /\ a3 \subseteq Taken(p.k) /\ a4 \subseteq Taken(p.k) /\ a5 \subseteq Taken(p.k)
      /\ a6 \subseteq Taken(p.k) /\ a7 \subseteq Taken(p.k) /\ a8 \subseteq Taken(p.k)
      /\ a9 \subseteq Taken(p.k) /\ a10 \subseteq Taken(p.k) /\ a11 \subseteq Taken(p.k)
      /\ a12 \subseteq Taken(p.k)
  BY <1>1
<1>4. /\ "DNSTT_SSH" \in Types /\ a1 \cap Native = {} /\ a1 \ RefOf("DNSTT_SSH") \subseteq a9
      /\ n \cap RefOf("DNSTT_SSH") = {}
  BY <1>2 DEF Types, RefOf, Native
<1>5. p.lax \/ a9 \cap Listeners = {}
  BY DEF Listeners
<1>6. a1 \ {"tun"} \subseteq a10 /\ "tun" \notin n /\ "Hev" \notin a1
  BY <1>2
<1>7. /\ "DNSTT_SSH" \in Types /\ a10 \cap Native = {} /\ a10 \ RefOf("DNSTT_SSH") \subseteq a11
      /\ n \cap RefOf("DNSTT_SSH") = {}
  BY <1>2 DEF Types, RefOf, Native
<1>8. p.lax \/ a11 \cap Listeners = {}
  BY DEF Listeners
<1>9. /\ "DNSTT_SSH" \in Types /\ a2 \subseteq Returned("DNSTT_SSH")
      /\ a2 \ ({"Http"} \cup Parts("DNSTT_SSH") \cup RefOf("DNSTT_SSH")) \subseteq a12
      /\ n \cap ({"Http"} \cup Parts("DNSTT_SSH") \cup RefOf("DNSTT_SSH")) = {}
  BY <1>2 DEF Types, Returned, Parts, RefOf
<1>10. a12 \ {"tun"} \subseteq a5 /\ "tun" \notin n /\ "Hev" \notin a12
  BY <1>2
<1>11. p.lax \/ a5 \cap Listeners = {}
  BY DEF Listeners
<1>12. a2 \ {"Dnstt"} \subseteq a1 /\ "Dnstt" \notin n /\ FrontFirst(p, "Dnstt", a2)
  BY <1>2, FrontFirstClient
<1>13. a3 \ {"Ssh"} \subseteq a2 /\ "Ssh" \notin n /\ FrontFirst(p, "Ssh", a3)
  BY <1>2, FrontFirstListener DEF Components, Clients, Listeners
<1>14. a1 \ {"Ssh"} \subseteq a1 /\ "Ssh" \notin n /\ FrontFirst(p, "Ssh", a1)
  BY <1>2, FrontFirstListener DEF Components, Clients, Listeners
<1>15. a1 \ {"Dnstt"} \subseteq a1 /\ "Dnstt" \notin n /\ FrontFirst(p, "Dnstt", a1)
  BY <1>2 DEF FrontFirst, Components, Clients
<1>16. /\ "DNSTT_SSH" \in Repos /\ "profile" \in a8 /\ RefOf(TunnelType(p.k)) \subseteq a8
       /\ Needs(p.k) \subseteq a8
  BY DEF Repos, RepoTypes, TunnelType, RefOf, Needs
<1>17. /\ "DNSTT_SSH" \in Repos /\ "profile" \in a8 /\ "tun" \in a8
       /\ a3 \cup {"Hev"} \subseteq a4 /\ n \subseteq a8
  BY <1>2 DEF Repos, RepoTypes
<1>18. "DNSTT_SSH" \in Repos /\ n \subseteq a8
  BY <1>2 DEF Repos, RepoTypes
<1>19. /\ "DNSTT_SSH" \in Repos /\ "profile" \in a7 /\ "Ssh" \in Clients \cup Listeners
       /\ ("Ssh" \in Native => Ref("Ssh") \in a7) /\ a2 \cup {"Ssh"} \subseteq a3
       /\ a8 \subseteq a7 \cup {"Ssh"} /\ NotedType("Ssh", "DNSTT_SSH") = "DNSTT_SSH"
       /\ n \subseteq a7
  BY <1>2 DEF Repos, RepoTypes, Clients, Listeners, Native, Ref, NotedType
<1>20. "DNSTT" \in Repos /\ "DNSTT_SSH" \in RepoTypes
  BY <1>2 DEF Repos, RepoTypes
<1>21. "DNSTT" \in Repos /\ n \subseteq a7
  BY <1>2 DEF Repos, RepoTypes
<1>22. /\ r \in Repos /\ "profile" \in a0 /\ "Dnstt" \in Clients \cup Listeners
       /\ ("Dnstt" \in Native => Ref("Dnstt") \in a0) /\ a1 \cup {"Dnstt"} \subseteq a2
       /\ a7 \subseteq a0 \cup {"Dnstt"} /\ NotedType("Dnstt", r) = "DNSTT" /\ n \subseteq a0
  BY <1>2 DEF Repos, RepoTypes, Clients, Listeners, Native, Ref, NotedType
<1>23. /\ r \in Repos /\ "profile" \in a6 /\ "Hev" \notin a0
       /\ a0 \cup {"tun", "Http"} \subseteq a1 /\ a0 \subseteq a6 \cup {"tun"}
       /\ a0 \cup {"Http"} \subseteq a1 /\ n \subseteq a6 \ {"tun"}
  BY <1>2 DEF Repos, RepoTypes
<1>24. /\ r \in Repos /\ "profile" \in a5 /\ "Dnstt" \in Native
       /\ a0 \cup {Ref("Dnstt")} \subseteq a0 /\ a6 \subseteq a5 \cup {Ref("Dnstt")}
  BY <1>2 DEF Repos, RepoTypes, Native, Ref
<1> HIDE DEF v0, v1, v2, v3, v4, v5, m0, m1, m2, m3, m4, m5, m6, m7, m8, a0, a1, a2, a3, a4, a5,
       a6, a7, a8, a9, a10, a11, a12
\* The failure paths, and the program from its end.
<1>25. Undoes(p, R, n, a1, a9)
  BY <1>3, <1>4, UndoRef
<1>26. SafeAny(p, v0, a1, n)
  BY <1>3, <1>25, <1>5, UndoThenStopSelf DEF v0
<1>27. Undoes(p, <<Close>>, n, a1, a10)
  BY <1>3, <1>6, UndoClose
<1>28. Undoes(p, R, n, a10, a11)
  BY <1>3, <1>7, UndoRef
<1>29. Undoes(p, <<Close>> \o R, n, a1, a11)
  BY <1>27, <1>28, UndoConcat
<1>30. SafeAny(p, v1, a1, n)
  BY <1>3, <1>29, <1>8, UndoThenStopSelf DEF v1
<1>31. Undoes(p, P, n, a2, a12)
  BY <1>3, <1>9, UndoFailure
<1>32. Undoes(p, <<Close>>, n, a12, a5)
  BY <1>3, <1>10, UndoClose
<1>33. Undoes(p, P \o <<Close>>, n, a2, a5)
  BY <1>31, <1>32, UndoConcat
<1>34. SafeAny(p, v2, a2, n)
  BY <1>3, <1>33, <1>11, UndoThenStopSelf DEF v2
<1>35. Undoes(p, <<Stop("Dnstt")>>, n, a2, a1)
  BY <1>3, <1>12, UndoStop
<1>36. Undoes(p, <<Stop("Dnstt"), Close>>, n, a2, a10)
  BY <1>35, <1>27, UndoPair
<1>37. Undoes(p, <<Stop("Dnstt"), Close>> \o R, n, a2, a11)
  BY <1>36, <1>28, UndoConcat
<1>38. SafeAny(p, v3, a2, n)
  BY <1>3, <1>37, <1>8, UndoThenStopSelf DEF v3
<1>39. Undoes(p, <<Stop("Ssh")>>, n, a3, a2)
  BY <1>3, <1>13, UndoStop
<1>40. Undoes(p, <<Stop("Ssh")>> \o (<<Stop("Dnstt"), Close>> \o R), n, a3, a11)
  BY <1>39, <1>37, UndoConcat
<1>41. SafeAny(p, v4, a3, n)
  BY <1>3, <1>40, <1>8, UndoThenStopSelf DEF v4
<1>42. Undoes(p, <<Stop("Ssh"), Stop("Dnstt")>>, n, a3, a1)
  BY <1>39, <1>35, UndoPair
<1>43. Undoes(p, RepoStopCurrentProxy("DNSTT_SSH"), n, a3, a1)
  BY <1>42 DEF RepoStopCurrentProxy
<1>44. Undoes(p, <<Stop("Ssh")>>, n, a1, a1)
  BY <1>3, <1>14, UndoStop
<1>45. Undoes(p, <<Stop("Dnstt")>>, n, a1, a1)
  BY <1>3, <1>15, UndoStop
<1>46. Undoes(p, <<Stop("Dnstt"), Close>>, n, a1, a10)
  BY <1>45, <1>27, UndoPair
<1>47. Undoes(p, <<Stop("Dnstt"), Close>> \o R, n, a1, a11)
  BY <1>46, <1>28, UndoConcat
<1>48. Undoes(p, <<Stop("Ssh")>> \o (<<Stop("Dnstt"), Close>> \o R), n, a1, a11)
  BY <1>44, <1>47, UndoConcat
<1>49. SafeAny(p, v5, a1, n)
  BY <1>3, <1>48, <1>8, UndoThenStopSelf DEF v5
<1>50. SafeAny(p, RepoStopCurrentProxy("DNSTT_SSH") \o v5, a3, n)
  BY <1>43, <1>49, UndoApply
<1>51. Safe(p, m8, a4, a8, "DNSTT_SSH")
  BY <1>3, <1>16, RuleFinish DEF m8, Within, Repos
<1>52. Safe(p, m7, a3, a8, "DNSTT_SSH")
  BY <1>3, <1>50, <1>17, <1>51, MainHev DEF m7, Within, Repos
<1>53. Safe(p, m6, a3, a8, "DNSTT_SSH")
  BY <1>3, <1>41, <1>18, <1>52, MainReady DEF m6, Within, Repos
<1>54. Safe(p, m5, a2, a7, "DNSTT_SSH")
  BY <1>3, <1>38, <1>19, <1>53, MainStart DEF m5, Within, Repos
<1>55. Safe(p, m4, a2, a7, "DNSTT")
  BY <1>3, <1>20, <1>54, RuleRepo DEF m4, Within, Repos
<1>56. Safe(p, m3, a2, a7, "DNSTT")
  BY <1>3, <1>34, <1>21, <1>55, MainReady DEF m3, Within, Repos
<1>57. Safe(p, m2, a1, a0, r)
  BY <1>3, <1>30, <1>22, <1>56, MainStart DEF m2, Within, Repos
<1>58. Safe(p, m1, a0, a6, r)
  BY <1>3, <1>26, <1>23, <1>57, MainTun DEF m1, Within, Repos
<1>59. Safe(p, m0, a0, a5, r)
  BY <1>3, <1>24, <1>58, RuleRef DEF m0, Within, Repos
<1>60. connectOf("DNSTT_SSH") = connectDnsttSsh \o m8
  BY DEF connectOf, m8
<1>61. connectDnsttSsh = <<e0, e1, e2, e3, e4, e5, e6, e7>>
  BY DEF connectDnsttSsh, Start, Ready, OpenTun, Tun2Socks, v0, v1, v2, v3, v4, v5
<1> HIDE DEF e0, e1, e2, e3, e4, e5, e6, e7
<1>62. IsSeq(m8)
  BY Seq1 DEF m8
<1>63. Same(<<e0, e1, e2, e3, e4, e5, e6, e7>> \o m8, m0)
  BY <1>62, Unroll8, ZenonT(60) DEF m0, m1, m2, m3, m4, m5, m6, m7
<1> QED BY <1>59, <1>60, <1>61, <1>63 DEF Same, a0, a5

\* connectVaydns() is safe from the state in which connect() accepts the profile.
LEMMA ConnectVaydns ==
    ASSUME NEW p, p.k = "VAYDNS", p.lax, NEW r \in Repos
    PROVE  Safe(p, connectOf("VAYDNS"), {"profile", "tun"}, {"profile"}, r)
<1> DEFINE n == {}
           P == HandleProxyStartupFailure("VAYDNS")
           v0 == <<>> \o <<StopSelf>>
           v1 == <<Close>> \o <<StopSelf>>
           v2 == (P \o <<Close>>) \o <<StopSelf>>
           v3 == P \o <<StopSelf>>
           v4 == <<Close>> \o <<StopSelf>>
           e0 == Try("tun", "-", v0)
           e1 == Try("start", "Vaydns", v1)
           e2 == Try("ready", "Vaydns", v2)
           e3 == Try("start", "DnsttSocks", v3)
           e4 == Try("ready", "DnsttSocks", v3)
           e5 == Try("hev", "-", v4)
           m6 == <<Do("finish", "-")>>
           m5 == <<e5>> \o m6
           m4 == <<e4>> \o m5
           m3 == <<e3>> \o m4
           m2 == <<e2>> \o m3
           m1 == <<e1>> \o m2
           m0 == <<e0>> \o m1
           a0 == {"profile", "tun"}
           a1 == {"profile", "tun", "Http"}
           a2 == {"profile", "tun", "Http", "Vaydns"}
           a3 == {"profile", "tun", "Http", "Vaydns", "DnsttSocks"}
           a4 == {"profile", "tun", "Http", "Hev", "Vaydns", "DnsttSocks"}
           a5 == {"profile"}
           a6 == {"profile", "tun", "Vaydns"}
           a7 == {"profile", "tun", "Vaydns", "DnsttSocks"}
           a8 == {"profile", "Http"}
           a9 == {"profile", "tun", "Http", "DnsttSocks"}
           a10 == {"profile", "Http", "DnsttSocks"}
<1>1. Taken(p.k) = {"profile", "tun", "Http", "Hev", "Vaydns", "DnsttSocks"}
  BY DEF Taken, Returned, TunnelType, Parts, RefOf
<1>2. \A y : y \notin n
  OBVIOUS
<1> HIDE DEF n
\* What is held along the program and its failure paths.
<1>3. /\ a0 \subseteq Taken(p.k) /\ a1 \subseteq Taken(p.k) /\ a2 \subseteq Taken(p.k)
      /\ a3 \subseteq Taken(p.k) /\ a4 \subseteq Taken(p.k) /\ a5 \subseteq Taken(p.k)
      /\ a6 \subseteq Taken(p.k) /\ a7 \subseteq Taken(p.k) /\ a8 \subseteq Taken(p.k)
      /\ a9 \subseteq Taken(p.k) /\ a10 \subseteq Taken(p.k)
  BY <1>1
<1>4. p.lax \/ a1 \cap Listeners = {}
  BY DEF Listeners
<1>5. a1 \ {"tun"} \subseteq a8 /\ "tun" \notin n /\ "Hev" \notin a1
  BY <1>2
<1>6. p.lax \/ a8 \cap Listeners = {}
  BY DEF Listeners
<1>7. /\ "VAYDNS" \in Types /\ a2 \subseteq Returned("VAYDNS")
      /\ a2 \ ({"Http"} \cup Parts("VAYDNS") \cup RefOf("VAYDNS")) \subseteq a0
      /\ n \cap ({"Http"} \cup Parts("VAYDNS") \cup RefOf("VAYDNS")) = {}
  BY <1>2 DEF Types, Returned, Parts, RefOf
<1>8. a0 \ {"tun"} \subseteq a5 /\ "tun" \notin n /\ "Hev" \notin a0
  BY <1>2
<1>9. p.lax \/ a5 \cap Listeners = {}
  BY DEF Listeners
<1>10. /\ "VAYDNS" \in Types /\ a3 \subseteq Returned("VAYDNS")
       /\ a3 \ ({"Http"} \cup Parts("VAYDNS") \cup RefOf("VAYDNS")) \subseteq a0
       /\ n \cap ({"Http"} \cup Parts("VAYDNS") \cup RefOf("VAYDNS")) = {}
  BY <1>2 DEF Types, Returned, Parts, RefOf
<1>11. p.lax \/ a0 \cap Listeners = {}
  BY DEF Listeners
<1>12. a3 \ {"Vaydns"} \subseteq a9 /\ "Vaydns" \notin n /\ FrontFirst(p, "Vaydns", a3)
  BY <1>2 DEF FrontFirst, Components, Clients
<1>13. a9 \ {"tun"} \subseteq a10 /\ "tun" \notin n /\ "Hev" \notin a9
  BY <1>2
<1>14. p.lax \/ a10 \cap Listeners = {}
  BY DEF Listeners
<1>15. /\ "VAYDNS" \in Repos /\ "profile" \in a7 /\ RefOf(TunnelType(p.k)) \subseteq a7
       /\ Needs(p.k) \subseteq a7
  BY DEF Repos, RepoTypes, TunnelType, RefOf, Needs
<1>16. /\ "VAYDNS" \in Repos /\ "profile" \in a7 /\ "tun" \in a7 /\ a3 \cup {"Hev"} \subseteq a4
       /\ n \subseteq a7
  BY <1>2 DEF Repos, RepoTypes
<1>17. "VAYDNS" \in Repos /\ n \subseteq a7
  BY <1>2 DEF Repos, RepoTypes
<1>18. /\ "VAYDNS" \in Repos /\ "profile" \in a6 /\ "DnsttSocks" \in Clients \cup Listeners
       /\ ("DnsttSocks" \in Native => Ref("DnsttSocks") \in a6)
       /\ a2 \cup {"DnsttSocks"} \subseteq a3 /\ a7 \subseteq a6 \cup {"DnsttSocks"}
       /\ NotedType("DnsttSocks", "VAYDNS") = "VAYDNS" /\ a2 \subseteq a3 /\ n \subseteq a6
  BY <1>2 DEF Repos, RepoTypes, Clients, Listeners, Native, Ref, NotedType
<1>19. "VAYDNS" \in Repos /\ n \subseteq a6
  BY <1>2 DEF Repos, RepoTypes
<1>20. /\ r \in Repos /\ "profile" \in a0 /\ "Vaydns" \in Clients \cup Listeners
       /\ ("Vaydns" \in Native => Ref("Vaydns") \in a0) /\ a1 \cup {"Vaydns"} \subseteq a2
       /\ a6 \subseteq a0 \cup {"Vaydns"} /\ NotedType("Vaydns", r) = "VAYDNS" /\ n \subseteq a0
  BY <1>2 DEF Repos, RepoTypes, Clients, Listeners, Native, Ref, NotedType
<1>21. /\ r \in Repos /\ "profile" \in a5 /\ "Hev" \notin a0
       /\ a0 \cup {"tun", "Http"} \subseteq a1 /\ a0 \subseteq a5 \cup {"tun"}
       /\ a0 \cup {"Http"} \subseteq a1 /\ n \subseteq a5 \ {"tun"}
  BY <1>2 DEF Repos, RepoTypes
<1> HIDE DEF v0, v1, v2, v3, v4, m0, m1, m2, m3, m4, m5, m6, a0, a1, a2, a3, a4, a5, a6, a7, a8,
       a9, a10
\* The failure paths, and the program from its end.
<1>22. Undoes(p, <<>>, n, a1, a1)
  BY UndoEmpty
<1>23. SafeAny(p, v0, a1, n)
  BY <1>3, <1>22, <1>4, UndoThenStopSelf DEF v0
<1>24. Undoes(p, <<Close>>, n, a1, a8)
  BY <1>3, <1>5, UndoClose
<1>25. SafeAny(p, v1, a1, n)
  BY <1>3, <1>24, <1>6, UndoThenStopSelf DEF v1
<1>26. Undoes(p, P, n, a2, a0)
  BY <1>3, <1>7, UndoFailure
<1>27. Undoes(p, <<Close>>, n, a0, a5)
  BY <1>3, <1>8, UndoClose
<1>28. Undoes(p, P \o <<Close>>, n, a2, a5)
  BY <1>26, <1>27, UndoConcat
<1>29. SafeAny(p, v2, a2, n)
  BY <1>3, <1>28, <1>9, UndoThenStopSelf DEF v2
<1>30. Undoes(p, P, n, a3, a0)
  BY <1>3, <1>10, UndoFailure
<1>31. SafeAny(p, v3, a3, n)
  BY <1>3, <1>30, <1>11, UndoThenStopSelf DEF v3
<1>32. Undoes(p, <<Stop("Vaydns")>>, n, a3, a9)
  BY <1>3, <1>12, UndoStop
<1>33. Undoes(p, RepoStopCurrentProxy("VAYDNS"), n, a3, a9)
  BY <1>32 DEF RepoStopCurrentProxy
<1>34. Undoes(p, <<Close>>, n, a9, a10)
  BY <1>3, <1>13, UndoClose
<1>35. SafeAny(p, v4, a9, n)
  BY <1>3, <1>34, <1>14, UndoThenStopSelf DEF v4
<1>36. SafeAny(p, RepoStopCurrentProxy("VAYDNS") \o v4, a3, n)
  BY <1>33, <1>35, UndoApply
<1>37. Safe(p, m6, a4, a7, "VAYDNS")
  BY <1>3, <1>15, RuleFinish DEF m6, Within, Repos
<1>38. Safe(p, m5, a3, a7, "VAYDNS")
  BY <1>3, <1>36, <1>16, <1>37, MainHev DEF m5, Within, Repos
<1>39. Safe(p, m4, a3, a7, "VAYDNS")
  BY <1>3, <1>31, <1>17, <1>38, MainReady DEF m4, Within, Repos
<1>40. Safe(p, m3, a2, a6, "VAYDNS")
  BY <1>3, <1>31, <1>18, <1>39, MainStart DEF m3, Within, Repos
<1>41. Safe(p, m2, a2, a6, "VAYDNS")
  BY <1>3, <1>29, <1>19, <1>40, MainReady DEF m2, Within, Repos
<1>42. Safe(p, m1, a1, a0, r)
  BY <1>3, <1>25, <1>20, <1>41, MainStart DEF m1, Within, Repos
<1>43. Safe(p, m0, a0, a5, r)
  BY <1>3, <1>23, <1>21, <1>42, MainTun DEF m0, Within, Repos
<1>44. connectOf("VAYDNS") = connectVaydns \o m6
  BY DEF connectOf, m6
<1>45. connectVaydns = <<e0, e1, e2, e3, e4, e5>>
  BY DEF connectVaydns, Start, Ready, OpenTun, Tun2Socks, v0, v1, v2, v3, v4
<1> HIDE DEF e0, e1, e2, e3, e4, e5
<1>46. IsSeq(m6)
  BY Seq1 DEF m6
<1>47. Same(<<e0, e1, e2, e3, e4, e5>> \o m6, m0)
  BY <1>46, Unroll6, ZenonT(60) DEF m0, m1, m2, m3, m4, m5
<1> QED BY <1>43, <1>44, <1>45, <1>47 DEF Same, a0, a5

\* connectVaydnsSsh() is safe from the state in which connect() accepts the profile.
LEMMA ConnectVaydnsSsh ==
    ASSUME NEW p, p.k = "VAYDNS_SSH", NEW r \in Repos
    PROVE  Safe(p, connectOf("VAYDNS_SSH"), {"profile", "tun"}, {"profile"}, r)
<1> DEFINE n == {}
           P == HandleProxyStartupFailure("VAYDNS_SSH")
           v0 == <<>> \o <<StopSelf>>
           v1 == <<Close>> \o <<StopSelf>>
           v2 == (P \o <<Close>>) \o <<StopSelf>>
           v3 == <<Stop("Vaydns"), Close>> \o <<StopSelf>>
           v4 == (<<Stop("Ssh")>> \o <<Stop("Vaydns"), Close>>) \o <<StopSelf>>
           v5 == (<<Stop("Ssh")>> \o <<Stop("Vaydns"), Close>>) \o <<StopSelf>>
           e0 == Try("tun", "-", v0)
           e1 == Try("start", "Vaydns", v1)
           e2 == Try("ready", "Vaydns", v2)
           e3 == Do("repo", "VAYDNS_SSH")
           e4 == Try("start", "Ssh", v3)
           e5 == Try("ready", "Ssh", v4)
           e6 == Try("hev", "-", v5)
           m7 == <<Do("finish", "-")>>
           m6 == <<e6>> \o m7
           m5 == <<e5>> \o m6
           m4 == <<e4>> \o m5
           m3 == <<e3>> \o m4
           m2 == <<e2>> \o m3
           m1 == <<e1>> \o m2
           m0 == <<e0>> \o m1
           a0 == {"profile", "tun"}
           a1 == {"profile", "tun", "Http"}
           a2 == {"profile", "tun", "Http", "Vaydns"}
           a3 == {"profile", "tun", "Http", "Vaydns", "Ssh"}
           a4 == {"profile", "tun", "Http", "Hev", "Vaydns", "Ssh"}
           a5 == {"profile"}
           a6 == {"profile", "tun", "Vaydns"}
           a7 == {"profile", "tun", "Vaydns", "Ssh"}
           a8 == {"profile", "Http"}
<1>1. Taken(p.k) = {"profile", "tun", "Http", "Hev", "Vaydns", "Ssh"}
  BY DEF Taken, Returned, TunnelType, Parts, RefOf
<1>2. \A y : y \notin n
  OBVIOUS
<1> HIDE DEF n
\* What is held along the program and its failure paths.
<1>3. /\ a0 \subseteq Taken(p.k) /\ a1 \subseteq Taken(p.k) /\ a2 \subseteq Taken(p.k)
      /\ a3 \subseteq Taken(p.k) /\ a4 \subseteq Taken(p.k) /\ a5 \subseteq Taken(p.k)
      /\ a6 \subseteq Taken(p.k) /\ a7 \subseteq Taken(p.k) /\ a8 \subseteq Taken(p.k)
  BY <1>1
<1>4. p.lax \/ a1 \cap Listeners = {}
  BY DEF Listeners
<1>5. a1 \ {"tun"} \subseteq a8 /\ "tun" \notin n /\ "Hev" \notin a1
  BY <1>2
<1>6. p.lax \/ a8 \cap Listeners = {}
  BY DEF Listeners
<1>7. /\ "VAYDNS_SSH" \in Types /\ a2 \subseteq Returned("VAYDNS_SSH")
      /\ a2 \ ({"Http"} \cup Parts("VAYDNS_SSH") \cup RefOf("VAYDNS_SSH")) \subseteq a0
      /\ n \cap ({"Http"} \cup Parts("VAYDNS_SSH") \cup RefOf("VAYDNS_SSH")) = {}
  BY <1>2 DEF Types, Returned, Parts, RefOf
<1>8. a0 \ {"tun"} \subseteq a5 /\ "tun" \notin n /\ "Hev" \notin a0
  BY <1>2
<1>9. p.lax \/ a5 \cap Listeners = {}
  BY DEF Listeners
<1>10. a2 \ {"Vaydns"} \subseteq a1 /\ "Vaydns" \notin n /\ FrontFirst(p, "Vaydns", a2)
  BY <1>2, FrontFirstClient
<1>11. a3 \ {"Ssh"} \subseteq a2 /\ "Ssh" \notin n /\ FrontFirst(p, "Ssh", a3)
  BY <1>2, FrontFirstListener DEF Components, Clients, Listeners
<1>12. a1 \ {"Ssh"} \subseteq a1 /\ "Ssh" \notin n /\ FrontFirst(p, "Ssh", a1)
  BY <1>2, FrontFirstListener DEF Components, Clients, Listeners
<1>13. a1 \ {"Vaydns"} \subseteq a1 /\ "Vaydns" \notin n /\ FrontFirst(p, "Vaydns", a1)
  BY <1>2 DEF FrontFirst, Components, Clients
<1>14. /\ "VAYDNS_SSH" \in Repos /\ "profile" \in a7 /\ RefOf(TunnelType(p.k)) \subseteq a7
       /\ Needs(p.k) \subseteq a7
  BY DEF Repos, RepoTypes, TunnelType, RefOf, Needs
<1>15. /\ "VAYDNS_SSH" \in Repos /\ "profile" \in a7 /\ "tun" \in a7
       /\ a3 \cup {"Hev"} \subseteq a4 /\ n \subseteq a7
  BY <1>2 DEF Repos, RepoTypes
<1>16. "VAYDNS_SSH" \in Repos /\ n \subseteq a7
  BY <1>2 DEF Repos, RepoTypes
<1>17. /\ "VAYDNS_SSH" \in Repos /\ "profile" \in a6 /\ "Ssh" \in Clients \cup Listeners
       /\ ("Ssh" \in Native => Ref("Ssh") \in a6) /\ a2 \cup {"Ssh"} \subseteq a3
       /\ a7 \subseteq a6 \cup {"Ssh"} /\ NotedType("Ssh", "VAYDNS_SSH") = "VAYDNS_SSH"
       /\ n \subseteq a6
  BY <1>2 DEF Repos, RepoTypes, Clients, Listeners, Native, Ref, NotedType
<1>18. "VAYDNS" \in Repos /\ "VAYDNS_SSH" \in RepoTypes
  BY <1>2 DEF Repos, RepoTypes
<1>19. "VAYDNS" \in Repos /\ n \subseteq a6
  BY <1>2 DEF Repos, RepoTypes
<1>20. /\ r \in Repos /\ "profile" \in a0 /\ "Vaydns" \in Clients \cup Listeners
       /\ ("Vaydns" \in Native => Ref("Vaydns") \in a0) /\ a1 \cup {"Vaydns"} \subseteq a2
       /\ a6 \subseteq a0 \cup {"Vaydns"} /\ NotedType("Vaydns", r) = "VAYDNS" /\ n \subseteq a0
  BY <1>2 DEF Repos, RepoTypes, Clients, Listeners, Native, Ref, NotedType
<1>21. /\ r \in Repos /\ "profile" \in a5 /\ "Hev" \notin a0
       /\ a0 \cup {"tun", "Http"} \subseteq a1 /\ a0 \subseteq a5 \cup {"tun"}
       /\ a0 \cup {"Http"} \subseteq a1 /\ n \subseteq a5 \ {"tun"}
  BY <1>2 DEF Repos, RepoTypes
<1> HIDE DEF v0, v1, v2, v3, v4, v5, m0, m1, m2, m3, m4, m5, m6, m7, a0, a1, a2, a3, a4, a5, a6,
       a7, a8
\* The failure paths, and the program from its end.
<1>22. Undoes(p, <<>>, n, a1, a1)
  BY UndoEmpty
<1>23. SafeAny(p, v0, a1, n)
  BY <1>3, <1>22, <1>4, UndoThenStopSelf DEF v0
<1>24. Undoes(p, <<Close>>, n, a1, a8)
  BY <1>3, <1>5, UndoClose
<1>25. SafeAny(p, v1, a1, n)
  BY <1>3, <1>24, <1>6, UndoThenStopSelf DEF v1
<1>26. Undoes(p, P, n, a2, a0)
  BY <1>3, <1>7, UndoFailure
<1>27. Undoes(p, <<Close>>, n, a0, a5)
  BY <1>3, <1>8, UndoClose
<1>28. Undoes(p, P \o <<Close>>, n, a2, a5)
  BY <1>26, <1>27, UndoConcat
<1>29. SafeAny(p, v2, a2, n)
  BY <1>3, <1>28, <1>9, UndoThenStopSelf DEF v2
<1>30. Undoes(p, <<Stop("Vaydns")>>, n, a2, a1)
  BY <1>3, <1>10, UndoStop
<1>31. Undoes(p, <<Stop("Vaydns"), Close>>, n, a2, a8)
  BY <1>30, <1>24, UndoPair
<1>32. SafeAny(p, v3, a2, n)
  BY <1>3, <1>31, <1>6, UndoThenStopSelf DEF v3
<1>33. Undoes(p, <<Stop("Ssh")>>, n, a3, a2)
  BY <1>3, <1>11, UndoStop
<1>34. Undoes(p, <<Stop("Ssh")>> \o <<Stop("Vaydns"), Close>>, n, a3, a8)
  BY <1>33, <1>31, UndoConcat
<1>35. SafeAny(p, v4, a3, n)
  BY <1>3, <1>34, <1>6, UndoThenStopSelf DEF v4
<1>36. Undoes(p, <<Stop("Ssh"), Stop("Vaydns")>>, n, a3, a1)
  BY <1>33, <1>30, UndoPair
<1>37. Undoes(p, RepoStopCurrentProxy("VAYDNS_SSH"), n, a3, a1)
  BY <1>36 DEF RepoStopCurrentProxy
<1>38. Undoes(p, <<Stop("Ssh")>>, n, a1, a1)
  BY <1>3, <1>12, UndoStop
<1>39. Undoes(p, <<Stop("Vaydns")>>, n, a1, a1)
  BY <1>3, <1>13, UndoStop
<1>40. Undoes(p, <<Stop("Vaydns"), Close>>, n, a1, a8)
  BY <1>39, <1>24, UndoPair
<1>41. Undoes(p, <<Stop("Ssh")>> \o <<Stop("Vaydns"), Close>>, n, a1, a8)
  BY <1>38, <1>40, UndoConcat
<1>42. SafeAny(p, v5, a1, n)
  BY <1>3, <1>41, <1>6, UndoThenStopSelf DEF v5
<1>43. SafeAny(p, RepoStopCurrentProxy("VAYDNS_SSH") \o v5, a3, n)
  BY <1>37, <1>42, UndoApply
<1>44. Safe(p, m7, a4, a7, "VAYDNS_SSH")
  BY <1>3, <1>14, RuleFinish DEF m7, Within, Repos
<1>45. Safe(p, m6, a3, a7, "VAYDNS_SSH")
  BY <1>3, <1>43, <1>15, <1>44, MainHev DEF m6, Within, Repos
<1>46. Safe(p, m5, a3, a7, "VAYDNS_SSH")
  BY <1>3, <1>35, <1>16, <1>45, MainReady DEF m5, Within, Repos
<1>47. Safe(p, m4, a2, a6, "VAYDNS_SSH")
  BY <1>3, <1>32, <1>17, <1>46, MainStart DEF m4, Within, Repos
<1>48. Safe(p, m3, a2, a6, "VAYDNS")
  BY <1>3, <1>18, <1>47, RuleRepo DEF m3, Within, Repos
<1>49. Safe(p, m2, a2, a6, "VAYDNS")
  BY <1>3, <1>29, <1>19, <1>48, MainReady DEF m2, Within, Repos
<1>50. Safe(p, m1, a1, a0, r)
  BY <1>3, <1>25, <1>20, <1>49, MainStart DEF m1, Within, Repos
<1>51. Safe(p, m0, a0, a5, r)
  BY <1>3, <1>23, <1>21, <1>50, MainTun DEF m0, Within, Repos
<1>52. connectOf("VAYDNS_SSH") = connectVaydnsSsh \o m7
  BY DEF connectOf, m7
<1>53. connectVaydnsSsh = <<e0, e1, e2, e3, e4, e5, e6>>
  BY DEF connectVaydnsSsh, Start, Ready, OpenTun, Tun2Socks, v0, v1, v2, v3, v4, v5
<1> HIDE DEF e0, e1, e2, e3, e4, e5, e6
<1>54. IsSeq(m7)
  BY Seq1 DEF m7
<1>55. Same(<<e0, e1, e2, e3, e4, e5, e6>> \o m7, m0)
  BY <1>54, Unroll7, ZenonT(60) DEF m0, m1, m2, m3, m4, m5, m6
<1> QED BY <1>51, <1>52, <1>53, <1>55 DEF Same, a0, a5

\* connectSsh() is safe from the state in which connect() accepts the profile.
LEMMA ConnectSsh ==
    ASSUME NEW p, p.k = "SSH", NEW r \in Repos
    PROVE  Safe(p, connectOf("SSH"), {"profile", "tun"}, {"profile"}, r)
<1> DEFINE n == {}
           v0 == <<>> \o <<StopSelf>>
           v1 == <<Close>> \o <<StopSelf>>
           v2 == <<Stop("Ssh"), Close>> \o <<StopSelf>>
           v3 == <<Stop("Ssh"), Close>> \o <<StopSelf>>
           e0 == Do("repo", "SSH")
           e1 == Try("tun", "-", v0)
           e2 == Try("start", "Ssh", v1)
           e3 == Try("ready", "Ssh", v2)
           e4 == Try("hev", "-", v3)
           m5 == <<Do("finish", "-")>>
           m4 == <<e4>> \o m5
           m3 == <<e3>> \o m4
           m2 == <<e2>> \o m3
           m1 == <<e1>> \o m2
           m0 == <<e0>> \o m1
           a0 == {"profile", "tun"}
           a1 == {"profile", "tun", "Http"}
           a2 == {"profile", "tun", "Http", "Ssh"}
           a3 == {"profile", "tun", "Http", "Hev", "Ssh"}
           a4 == {"profile"}
           a5 == {"profile", "tun", "Ssh"}
           a6 == {"profile", "Http"}
<1>1. Taken(p.k) = {"profile", "tun", "Http", "Hev", "Ssh"}
  BY DEF Taken, Returned, TunnelType, Parts, RefOf
<1>2. \A y : y \notin n
  OBVIOUS
<1> HIDE DEF n
\* What is held along the program and its failure paths.
<1>3. /\ a0 \subseteq Taken(p.k) /\ a1 \subseteq Taken(p.k) /\ a2 \subseteq Taken(p.k)
      /\ a3 \subseteq Taken(p.k) /\ a4 \subseteq Taken(p.k) /\ a5 \subseteq Taken(p.k)
      /\ a6 \subseteq Taken(p.k)
  BY <1>1
<1>4. p.lax \/ a1 \cap Listeners = {}
  BY DEF Listeners
<1>5. a1 \ {"tun"} \subseteq a6 /\ "tun" \notin n /\ "Hev" \notin a1
  BY <1>2
<1>6. p.lax \/ a6 \cap Listeners = {}
  BY DEF Listeners
<1>7. a2 \ {"Ssh"} \subseteq a1 /\ "Ssh" \notin n /\ FrontFirst(p, "Ssh", a2)
  BY <1>2, FrontFirstListener DEF Components, Clients, Listeners
<1>8. a1 \ {"Ssh"} \subseteq a1 /\ "Ssh" \notin n /\ FrontFirst(p, "Ssh", a1)
  BY <1>2, FrontFirstListener DEF Components, Clients, Listeners
<1>9. /\ "SSH" \in Repos /\ "profile" \in a5 /\ RefOf(TunnelType(p.k)) \subseteq a5
      /\ Needs(p.k) \subseteq a5
  BY DEF Repos, RepoTypes, TunnelType, RefOf, Needs
<1>10. /\ "SSH" \in Repos /\ "profile" \in a5 /\ "tun" \in a5 /\ a2 \cup {"Hev"} \subseteq a3
       /\ n \subseteq a5
  BY <1>2 DEF Repos, RepoTypes
<1>11. "SSH" \in Repos /\ n \subseteq a5
  BY <1>2 DEF Repos, RepoTypes
<1>12. /\ "SSH" \in Repos /\ "profile" \in a0 /\ "Ssh" \in Clients \cup Listeners
       /\ ("Ssh" \in Native => Ref("Ssh") \in a0) /\ a1 \cup {"Ssh"} \subseteq a2
       /\ a5 \subseteq a0 \cup {"Ssh"} /\ NotedType("Ssh", "SSH") = "SSH" /\ n \subseteq a0
  BY <1>2 DEF Repos, RepoTypes, Clients, Listeners, Native, Ref, NotedType
<1>13. /\ "SSH" \in Repos /\ "profile" \in a4 /\ "Hev" \notin a0
       /\ a0 \cup {"tun", "Http"} \subseteq a1 /\ a0 \subseteq a4 \cup {"tun"}
       /\ a0 \cup {"Http"} \subseteq a1 /\ n \subseteq a4 \ {"tun"}
  BY <1>2 DEF Repos, RepoTypes
<1>14. r \in Repos /\ "SSH" \in RepoTypes
  BY <1>2 DEF Repos, RepoTypes
<1> HIDE DEF v0, v1, v2, v3, m0, m1, m2, m3, m4, m5, a0, a1, a2, a3, a4, a5, a6
\* The failure paths, and the program from its end.
<1>15. Undoes(p, <<>>, n, a1, a1)
  BY UndoEmpty
<1>16. SafeAny(p, v0, a1, n)
  BY <1>3, <1>15, <1>4, UndoThenStopSelf DEF v0
<1>17. Undoes(p, <<Close>>, n, a1, a6)
  BY <1>3, <1>5, UndoClose
<1>18. SafeAny(p, v1, a1, n)
  BY <1>3, <1>17, <1>6, UndoThenStopSelf DEF v1
<1>19. Undoes(p, <<Stop("Ssh")>>, n, a2, a1)
  BY <1>3, <1>7, UndoStop
<1>20. Undoes(p, <<Stop("Ssh"), Close>>, n, a2, a6)
  BY <1>19, <1>17, UndoPair
<1>21. SafeAny(p, v2, a2, n)
  BY <1>3, <1>20, <1>6, UndoThenStopSelf DEF v2
<1>22. Undoes(p, RepoStopCurrentProxy("SSH"), n, a2, a1)
  BY <1>19 DEF RepoStopCurrentProxy
<1>23. Undoes(p, <<Stop("Ssh")>>, n, a1, a1)
  BY <1>3, <1>8, UndoStop
<1>24. Undoes(p, <<Stop("Ssh"), Close>>, n, a1, a6)
  BY <1>23, <1>17, UndoPair
<1>25. SafeAny(p, v3, a1, n)
  BY <1>3, <1>24, <1>6, UndoThenStopSelf DEF v3
<1>26. SafeAny(p, RepoStopCurrentProxy("SSH") \o v3, a2, n)
  BY <1>22, <1>25, UndoApply
<1>27. Safe(p, m5, a3, a5, "SSH")
  BY <1>3, <1>9, RuleFinish DEF m5, Within, Repos
<1>28. Safe(p, m4, a2, a5, "SSH")
  BY <1>3, <1>26, <1>10, <1>27, MainHev DEF m4, Within, Repos
<1>29. Safe(p, m3, a2, a5, "SSH")
  BY <1>3, <1>21, <1>11, <1>28, MainReady DEF m3, Within, Repos
<1>30. Safe(p, m2, a1, a0, "SSH")
  BY <1>3, <1>18, <1>12, <1>29, MainStart DEF m2, Within, Repos
<1>31. Safe(p, m1, a0, a4, "SSH")
  BY <1>3, <1>16, <1>13, <1>30, MainTun DEF m1, Within, Repos
<1>32. Safe(p, m0, a0, a4, r)
  BY <1>3, <1>14, <1>31, RuleRepo DEF m0, Within, Repos
<1>33. connectOf("SSH") = connectSsh \o m5
  BY DEF connectOf, m5
<1>34. connectSsh = <<e0, e1, e2, e3, e4>>
  BY DEF connectSsh, Start, Ready, OpenTun, Tun2Socks, v0, v1, v2, v3
<1> HIDE DEF e0, e1, e2, e3, e4
<1>35. IsSeq(m5)
  BY Seq1 DEF m5
<1>36. Same(<<e0, e1, e2, e3, e4>> \o m5, m0)
  BY <1>35, Unroll5, ZenonT(60) DEF m0, m1, m2, m3, m4
<1> QED BY <1>32, <1>33, <1>34, <1>36 DEF Same, a0, a4

\* connectSocks5() is safe from the state in which connect() accepts the profile.
LEMMA ConnectSocks5 ==
    ASSUME NEW p, p.k = "SOCKS5", NEW r \in Repos
    PROVE  Safe(p, connectOf("SOCKS5"), {"profile", "tun"}, {"profile"}, r)
<1> DEFINE n == {}
           v0 == <<>> \o <<StopSelf>>
           v1 == <<Close>> \o <<StopSelf>>
           v2 == <<Stop("Socks5"), Close>> \o <<StopSelf>>
           v3 == <<Stop("Socks5"), Close>> \o <<StopSelf>>
           e0 == Do("repo", "SOCKS5")
           e1 == Try("tun", "-", v0)
           e2 == Try("start", "Socks5", v1)
           e3 == Try("ready", "Socks5", v2)
           e4 == Try("hev", "-", v3)
           m5 == <<Do("finish", "-")>>
           m4 == <<e4>> \o m5
           m3 == <<e3>> \o m4
           m2 == <<e2>> \o m3
           m1 == <<e1>> \o m2
           m0 == <<e0>> \o m1
           a0 == {"profile", "tun"}
           a1 == {"profile", "tun", "Http"}
           a2 == {"profile", "tun", "Http", "Socks5"}
           a3 == {"profile", "tun", "Http", "Hev", "Socks5"}
           a4 == {"profile"}
           a5 == {"profile", "tun", "Socks5"}
           a6 == {"profile", "Http"}
<1>1. Taken(p.k) = {"profile", "tun", "Http", "Hev", "Socks5"}
  BY DEF Taken, Returned, TunnelType, Parts, RefOf
<1>2. \A y : y \notin n
  OBVIOUS
<1> HIDE DEF n
\* What is held along the program and its failure paths.
<1>3. /\ a0 \subseteq Taken(p.k) /\ a1 \subseteq Taken(p.k) /\ a2 \subseteq Taken(p.k)
      /\ a3 \subseteq Taken(p.k) /\ a4 \subseteq Taken(p.k) /\ a5 \subseteq Taken(p.k)
      /\ a6 \subseteq Taken(p.k)
  BY <1>1
<1>4. p.lax \/ a1 \cap Listeners = {}
  BY DEF Listeners
<1>5. a1 \ {"tun"} \subseteq a6 /\ "tun" \notin n /\ "Hev" \notin a1
  BY <1>2
<1>6. p.lax \/ a6 \cap Listeners = {}
  BY DEF Listeners
<1>7. a2 \ {"Socks5"} \subseteq a1 /\ "Socks5" \notin n /\ FrontFirst(p, "Socks5", a2)
  BY <1>2, FrontFirstListener DEF Components, Clients, Listeners
<1>8. a1 \ {"Socks5"} \subseteq a1 /\ "Socks5" \notin n /\ FrontFirst(p, "Socks5", a1)
  BY <1>2, FrontFirstListener DEF Components, Clients, Listeners
<1>9. /\ "SOCKS5" \in Repos /\ "profile" \in a5 /\ RefOf(TunnelType(p.k)) \subseteq a5
      /\ Needs(p.k) \subseteq a5
  BY DEF Repos, RepoTypes, TunnelType, RefOf, Needs
<1>10. /\ "SOCKS5" \in Repos /\ "profile" \in a5 /\ "tun" \in a5 /\ a2 \cup {"Hev"} \subseteq a3
       /\ n \subseteq a5
  BY <1>2 DEF Repos, RepoTypes
<1>11. "SOCKS5" \in Repos /\ n \subseteq a5
  BY <1>2 DEF Repos, RepoTypes
<1>12. /\ "SOCKS5" \in Repos /\ "profile" \in a0 /\ "Socks5" \in Clients \cup Listeners
       /\ ("Socks5" \in Native => Ref("Socks5") \in a0) /\ a1 \cup {"Socks5"} \subseteq a2
       /\ a5 \subseteq a0 \cup {"Socks5"} /\ NotedType("Socks5", "SOCKS5") = "SOCKS5"
       /\ n \subseteq a0
  BY <1>2 DEF Repos, RepoTypes, Clients, Listeners, Native, Ref, NotedType
<1>13. /\ "SOCKS5" \in Repos /\ "profile" \in a4 /\ "Hev" \notin a0
       /\ a0 \cup {"tun", "Http"} \subseteq a1 /\ a0 \subseteq a4 \cup {"tun"}
       /\ a0 \cup {"Http"} \subseteq a1 /\ n \subseteq a4 \ {"tun"}
  BY <1>2 DEF Repos, RepoTypes
<1>14. r \in Repos /\ "SOCKS5" \in RepoTypes
  BY <1>2 DEF Repos, RepoTypes
<1> HIDE DEF v0, v1, v2, v3, m0, m1, m2, m3, m4, m5, a0, a1, a2, a3, a4, a5, a6
\* The failure paths, and the program from its end.
<1>15. Undoes(p, <<>>, n, a1, a1)
  BY UndoEmpty
<1>16. SafeAny(p, v0, a1, n)
  BY <1>3, <1>15, <1>4, UndoThenStopSelf DEF v0
<1>17. Undoes(p, <<Close>>, n, a1, a6)
  BY <1>3, <1>5, UndoClose
<1>18. SafeAny(p, v1, a1, n)
  BY <1>3, <1>17, <1>6, UndoThenStopSelf DEF v1
<1>19. Undoes(p, <<Stop("Socks5")>>, n, a2, a1)
  BY <1>3, <1>7, UndoStop
<1>20. Undoes(p, <<Stop("Socks5"), Close>>, n, a2, a6)
  BY <1>19, <1>17, UndoPair
<1>21. SafeAny(p, v2, a2, n)
  BY <1>3, <1>20, <1>6, UndoThenStopSelf DEF v2
<1>22. Undoes(p, RepoStopCurrentProxy("SOCKS5"), n, a2, a1)
  BY <1>19 DEF RepoStopCurrentProxy
<1>23. Undoes(p, <<Stop("Socks5")>>, n, a1, a1)
  BY <1>3, <1>8, UndoStop
<1>24. Undoes(p, <<Stop("Socks5"), Close>>, n, a1, a6)
  BY <1>23, <1>17, UndoPair
<1>25. SafeAny(p, v3, a1, n)
  BY <1>3, <1>24, <1>6, UndoThenStopSelf DEF v3
<1>26. SafeAny(p, RepoStopCurrentProxy("SOCKS5") \o v3, a2, n)
  BY <1>22, <1>25, UndoApply
<1>27. Safe(p, m5, a3, a5, "SOCKS5")
  BY <1>3, <1>9, RuleFinish DEF m5, Within, Repos
<1>28. Safe(p, m4, a2, a5, "SOCKS5")
  BY <1>3, <1>26, <1>10, <1>27, MainHev DEF m4, Within, Repos
<1>29. Safe(p, m3, a2, a5, "SOCKS5")
  BY <1>3, <1>21, <1>11, <1>28, MainReady DEF m3, Within, Repos
<1>30. Safe(p, m2, a1, a0, "SOCKS5")
  BY <1>3, <1>18, <1>12, <1>29, MainStart DEF m2, Within, Repos
<1>31. Safe(p, m1, a0, a4, "SOCKS5")
  BY <1>3, <1>16, <1>13, <1>30, MainTun DEF m1, Within, Repos
<1>32. Safe(p, m0, a0, a4, r)
  BY <1>3, <1>14, <1>31, RuleRepo DEF m0, Within, Repos
<1>33. connectOf("SOCKS5") = connectSocks5 \o m5
  BY DEF connectOf, m5
<1>34. connectSocks5 = <<e0, e1, e2, e3, e4>>
  BY DEF connectSocks5, Start, Ready, OpenTun, Tun2Socks, v0, v1, v2, v3
<1> HIDE DEF e0, e1, e2, e3, e4
<1>35. IsSeq(m5)
  BY Seq1 DEF m5
<1>36. Same(<<e0, e1, e2, e3, e4>> \o m5, m0)
  BY <1>35, Unroll5, ZenonT(60) DEF m0, m1, m2, m3, m4
<1> QED BY <1>32, <1>33, <1>34, <1>36 DEF Same, a0, a4

\* connectVless() is safe from the state in which connect() accepts the profile.
LEMMA ConnectVless ==
    ASSUME NEW p, p.k = "VLESS", NEW r \in Repos
    PROVE  Safe(p, connectOf("VLESS"), {"profile", "tun"}, {"profile"}, r)
<1> DEFINE n == {}
           v0 == <<>> \o <<StopSelf>>
           v1 == <<Close>> \o <<StopSelf>>
           v2 == <<Stop("Vless"), Close>> \o <<StopSelf>>
           v3 == <<Stop("Vless"), Close>> \o <<StopSelf>>
           e0 == Do("repo", "VLESS")
           e1 == Try("tun", "-", v0)
           e2 == Try("start", "Vless", v1)
           e3 == Try("ready", "Vless", v2)
           e4 == Try("ready", "Vless", v2)
           e5 == Try("hev", "-", v3)
           m6 == <<Do("finish", "-")>>
           m5 == <<e5>> \o m6
           m4 == <<e4>> \o m5
           m3 == <<e3>> \o m4
           m2 == <<e2>> \o m3
           m1 == <<e1>> \o m2
           m0 == <<e0>> \o m1
           a0 == {"profile", "tun"}
           a1 == {"profile", "tun", "Http"}
           a2 == {"profile", "tun", "Http", "Vless"}
           a3 == {"profile", "tun", "Http", "Hev", "Vless"}
           a4 == {"profile"}
           a5 == {"profile", "tun", "Vless"}
           a6 == {"profile", "Http"}
<1>1. Taken(p.k) = {"profile", "tun", "Http", "Hev", "Vless"}
  BY DEF Taken, Returned, TunnelType, Parts, RefOf
<1>2. \A y : y \notin n
  OBVIOUS
<1> HIDE DEF n
\* What is held along the program and its failure paths.
<1>3. /\ a0 \subseteq Taken(p.k) /\ a1 \subseteq Taken(p.k) /\ a2 \subseteq Taken(p.k)
      /\ a3 \subseteq Taken(p.k) /\ a4 \subseteq Taken(p.k) /\ a5 \subseteq Taken(p.k)
      /\ a6 \subseteq Taken(p.k)
  BY <1>1
<1>4. p.lax \/ a1 \cap Listeners = {}
  BY DEF Listeners
<1>5. a1 \ {"tun"} \subseteq a6 /\ "tun" \notin n /\ "Hev" \notin a1
  BY <1>2
<1>6. p.lax \/ a6 \cap Listeners = {}
  BY DEF Listeners
<1>7. a2 \ {"Vless"} \subseteq a1 /\ "Vless" \notin n /\ FrontFirst(p, "Vless", a2)
  BY <1>2, FrontFirstListener DEF Components, Clients, Listeners
<1>8. a2 \ {"Reality"} \subseteq a2 /\ "Reality" \notin n /\ FrontFirst(p, "Reality", a2)
  BY <1>2, FrontFirstListener DEF Components, Clients, Listeners
<1>9. a1 \ {"Vless"} \subseteq a1 /\ "Vless" \notin n /\ FrontFirst(p, "Vless", a1)
  BY <1>2, FrontFirstListener DEF Components, Clients, Listeners
<1>10. /\ "VLESS" \in Repos /\ "profile" \in a5 /\ RefOf(TunnelType(p.k)) \subseteq a5
       /\ Needs(p.k) \subseteq a5
  BY DEF Repos, RepoTypes, TunnelType, RefOf, Needs
<1>11. /\ "VLESS" \in Repos /\ "profile" \in a5 /\ "tun" \in a5 /\ a2 \cup {"Hev"} \subseteq a3
       /\ n \subseteq a5
  BY <1>2 DEF Repos, RepoTypes
<1>12. "VLESS" \in Repos /\ n \subseteq a5
  BY <1>2 DEF Repos, RepoTypes
<1>13. /\ "VLESS" \in Repos /\ "profile" \in a0 /\ "Vless" \in Clients \cup Listeners
       /\ ("Vless" \in Native => Ref("Vless") \in a0) /\ a1 \cup {"Vless"} \subseteq a2
       /\ a5 \subseteq a0 \cup {"Vless"} /\ NotedType("Vless", "VLESS") = "VLESS"
       /\ n \subseteq a0
  BY <1>2 DEF Repos, RepoTypes, Clients, Listeners, Native, Ref, NotedType
<1>14. /\ "VLESS" \in Repos /\ "profile" \in a4 /\ "Hev" \notin a0
       /\ a0 \cup {"tun", "Http"} \subseteq a1 /\ a0 \subseteq a4 \cup {"tun"}
       /\ a0 \cup {"Http"} \subseteq a1 /\ n \subseteq a4 \ {"tun"}
  BY <1>2 DEF Repos, RepoTypes
<1>15. r \in Repos /\ "VLESS" \in RepoTypes
  BY <1>2 DEF Repos, RepoTypes
<1> HIDE DEF v0, v1, v2, v3, m0, m1, m2, m3, m4, m5, m6, a0, a1, a2, a3, a4, a5, a6
\* The failure paths, and the program from its end.
<1>16. Undoes(p, <<>>, n, a1, a1)
  BY UndoEmpty
<1>17. SafeAny(p, v0, a1, n)
  BY <1>3, <1>16, <1>4, UndoThenStopSelf DEF v0
<1>18. Undoes(p, <<Close>>, n, a1, a6)
  BY <1>3, <1>5, UndoClose
<1>19. SafeAny(p, v1, a1, n)
  BY <1>3, <1>18, <1>6, UndoThenStopSelf DEF v1
<1>20. Undoes(p, <<Stop("Vless")>>, n, a2, a1)
  BY <1>3, <1>7, UndoStop
<1>21. Undoes(p, <<Stop("Vless"), Close>>, n, a2, a6)
  BY <1>20, <1>18, UndoPair
<1>22. SafeAny(p, v2, a2, n)
  BY <1>3, <1>21, <1>6, UndoThenStopSelf DEF v2
<1>23. Undoes(p, <<Stop("Reality")>>, n, a2, a2)
  BY <1>3, <1>8, UndoStop
<1>24. Undoes(p, <<Stop("Reality"), Stop("Vless")>>, n, a2, a1)
  BY <1>23, <1>20, UndoPair
<1>25. Undoes(p, RepoStopCurrentProxy("VLESS"), n, a2, a1)
  BY <1>24 DEF RepoStopCurrentProxy
<1>26. Undoes(p, <<Stop("Vless")>>, n, a1, a1)
  BY <1>3, <1>9, UndoStop
<1>27. Undoes(p, <<Stop("Vless"), Close>>, n, a1, a6)
  BY <1>26, <1>18, UndoPair
<1>28. SafeAny(p, v3, a1, n)
  BY <1>3, <1>27, <1>6, UndoThenStopSelf DEF v3
<1>29. SafeAny(p, RepoStopCurrentProxy("VLESS") \o v3, a2, n)
  BY <1>25, <1>28, UndoApply
<1>30. Safe(p, m6, a3, a5, "VLESS")
  BY <1>3, <1>10, RuleFinish DEF m6, Within, Repos
<1>31. Safe(p, m5, a2, a5, "VLESS")
  BY <1>3, <1>29, <1>11, <1>30, MainHev DEF m5, Within, Repos
<1>32. Safe(p, m4, a2, a5, "VLESS")
  BY <1>3, <1>22, <1>12, <1>31, MainReady DEF m4, Within, Repos
<1>33. Safe(p, m3, a2, a5, "VLESS")
  BY <1>3, <1>22, <1>12, <1>32, MainReady DEF m3, Within, Repos
<1>34. Safe(p, m2, a1, a0, "VLESS")
  BY <1>3, <1>19, <1>13, <1>33, MainStart DEF m2, Within, Repos
<1>35. Safe(p, m1, a0, a4, "VLESS")
  BY <1>3, <1>17, <1>14, <1>34, MainTun DEF m1, Within, Repos
<1>36. Safe(p, m0, a0, a4, r)
  BY <1>3, <1>15, <1>35, RuleRepo DEF m0, Within, Repos
<1>37. connectOf("VLESS") = connectVless \o m6
  BY DEF connectOf, m6
<1>38. connectVless = <<e0, e1, e2, e3, e4, e5>>
  BY DEF connectVless, Start, Ready, OpenTun, Tun2Socks, v0, v1, v2, v3
<1> HIDE DEF e0, e1, e2, e3, e4, e5
<1>39. IsSeq(m6)
  BY Seq1 DEF m6
<1>40. Same(<<e0, e1, e2, e3, e4, e5>> \o m6, m0)
  BY <1>39, Unroll6, ZenonT(60) DEF m0, m1, m2, m3, m4, m5
<1> QED BY <1>36, <1>37, <1>38, <1>40 DEF Same, a0, a4

\* connectVlessReality() is safe from the state in which connect() accepts the profile.
LEMMA ConnectVlessReality ==
    ASSUME NEW p, p.k = "VLESS_REALITY", NEW r \in Repos
    PROVE  Safe(p, connectOf("VLESS_REALITY"), {"profile", "tun"}, {"profile"}, r)
<1> DEFINE n == {}
           v0 == <<>> \o <<StopSelf>>
           v1 == <<Close>> \o <<StopSelf>>
           v2 == <<Stop("Reality"), Close>> \o <<StopSelf>>
           v3 == <<Stop("Reality"), Close>> \o <<StopSelf>>
           e0 == Do("repo", "VLESS")
           e1 == Try("tun", "-", v0)
           e2 == Try("start", "Reality", v1)
           e3 == Try("ready", "Reality", v2)
           e4 == Try("hev", "-", v3)
           m5 == <<Do("finish", "-")>>
           m4 == <<e4>> \o m5
           m3 == <<e3>> \o m4
           m2 == <<e2>> \o m3
           m1 == <<e1>> \o m2
           m0 == <<e0>> \o m1
           a0 == {"profile", "tun"}
           a1 == {"profile", "tun", "Http"}
           a2 == {"profile", "tun", "Http", "Reality"}
           a3 == {"profile", "tun", "Http", "Hev", "Reality"}
           a4 == {"profile"}
           a5 == {"profile", "tun", "Reality"}
           a6 == {"profile", "Http"}
<1>1. Taken(p.k) = {"profile", "tun", "Http", "Hev", "Vless", "Reality"}
  BY DEF Taken, Returned, TunnelType, Parts, RefOf
<1>2. \A y : y \notin n
  OBVIOUS
<1> HIDE DEF n
\* What is held along the program and its failure paths.
<1>3. /\ a0 \subseteq Taken(p.k) /\ a1 \subseteq Taken(p.k) /\ a2 \subseteq Taken(p.k)
      /\ a3 \subseteq Taken(p.k) /\ a4 \subseteq Taken(p.k) /\ a5 \subseteq Taken(p.k)
      /\ a6 \subseteq Taken(p.k)
  BY <1>1
<1>4. p.lax \/ a1 \cap Listeners = {}
  BY DEF Listeners
<1>5. a1 \ {"tun"} \subseteq a6 /\ "tun" \notin n /\ "Hev" \notin a1
  BY <1>2
<1>6. p.lax \/ a6 \cap Listeners = {}
  BY DEF Listeners
<1>7. a2 \ {"Reality"} \subseteq a1 /\ "Reality" \notin n /\ FrontFirst(p, "Reality", a2)
  BY <1>2, FrontFirstListener DEF Components, Clients, Listeners
<1>8. a1 \ {"Vless"} \subseteq a1 /\ "Vless" \notin n /\ FrontFirst(p, "Vless", a1)
  BY <1>2, FrontFirstListener DEF Components, Clients, Listeners
<1>9. a1 \ {"Reality"} \subseteq a1 /\ "Reality" \notin n /\ FrontFirst(p, "Reality", a1)
  BY <1>2, FrontFirstListener DEF Components, Clients, Listeners
<1>10. /\ "VLESS" \in Repos /\ "profile" \in a5 /\ RefOf(TunnelType(p.k)) \subseteq a5
       /\ Needs(p.k) \subseteq a5
  BY DEF Repos, RepoTypes, TunnelType, RefOf, Needs
<1>11. /\ "VLESS" \in Repos /\ "profile" \in a5 /\ "tun" \in a5 /\ a2 \cup {"Hev"} \subseteq a3
       /\ n \subseteq a5
  BY <1>2 DEF Repos, RepoTypes
<1>12. "VLESS" \in Repos /\ n \subseteq a5
  BY <1>2 DEF Repos, RepoTypes
<1>13. /\ "VLESS" \in Repos /\ "profile" \in a0 /\ "Reality" \in Clients \cup Listeners
       /\ ("Reality" \in Native => Ref("Reality") \in a0) /\ a1 \cup {"Reality"} \subseteq a2
       /\ a5 \subseteq a0 \cup {"Reality"} /\ NotedType("Reality", "VLESS") = "VLESS"
       /\ n \subseteq a0
  BY <1>2 DEF Repos, RepoTypes, Clients, Listeners, Native, Ref, NotedType
<1>14. /\ "VLESS" \in Repos /\ "profile" \in a4 /\ "Hev" \notin a0
       /\ a0 \cup {"tun", "Http"} \subseteq a1 /\ a0 \subseteq a4 \cup {"tun"}
       /\ a0 \cup {"Http"} \subseteq a1 /\ n \subseteq a4 \ {"tun"}
  BY <1>2 DEF Repos, RepoTypes
<1>15. r \in Repos /\ "VLESS" \in RepoTypes
  BY <1>2 DEF Repos, RepoTypes
<1> HIDE DEF v0, v1, v2, v3, m0, m1, m2, m3, m4, m5, a0, a1, a2, a3, a4, a5, a6
\* The failure paths, and the program from its end.
<1>16. Undoes(p, <<>>, n, a1, a1)
  BY UndoEmpty
<1>17. SafeAny(p, v0, a1, n)
  BY <1>3, <1>16, <1>4, UndoThenStopSelf DEF v0
<1>18. Undoes(p, <<Close>>, n, a1, a6)
  BY <1>3, <1>5, UndoClose
<1>19. SafeAny(p, v1, a1, n)
  BY <1>3, <1>18, <1>6, UndoThenStopSelf DEF v1
<1>20. Undoes(p, <<Stop("Reality")>>, n, a2, a1)
  BY <1>3, <1>7, UndoStop
<1>21. Undoes(p, <<Stop("Reality"), Close>>, n, a2, a6)
  BY <1>20, <1>18, UndoPair
<1>22. SafeAny(p, v2, a2, n)
  BY <1>3, <1>21, <1>6, UndoThenStopSelf DEF v2
<1>23. Undoes(p, <<Stop("Vless")>>, n, a1, a1)
  BY <1>3, <1>8, UndoStop
<1>24. Undoes(p, <<Stop("Reality"), Stop("Vless")>>, n, a2, a1)
  BY <1>20, <1>23, UndoPair
<1>25. Undoes(p, RepoStopCurrentProxy("VLESS"), n, a2, a1)
  BY <1>24 DEF RepoStopCurrentProxy
<1>26. Undoes(p, <<Stop("Reality")>>, n, a1, a1)
  BY <1>3, <1>9, UndoStop
<1>27. Undoes(p, <<Stop("Reality"), Close>>, n, a1, a6)
  BY <1>26, <1>18, UndoPair
<1>28. SafeAny(p, v3, a1, n)
  BY <1>3, <1>27, <1>6, UndoThenStopSelf DEF v3
<1>29. SafeAny(p, RepoStopCurrentProxy("VLESS") \o v3, a2, n)
  BY <1>25, <1>28, UndoApply
<1>30. Safe(p, m5, a3, a5, "VLESS")
  BY <1>3, <1>10, RuleFinish DEF m5, Within, Repos
<1>31. Safe(p, m4, a2, a5, "VLESS")
  BY <1>3, <1>29, <1>11, <1>30, MainHev DEF m4, Within, Repos
<1>32. Safe(p, m3, a2, a5, "VLESS")
  BY <1>3, <1>22, <1>12, <1>31, MainReady DEF m3, Within, Repos
<1>33. Safe(p, m2, a1, a0, "VLESS")
  BY <1>3, <1>19, <1>13, <1>32, MainStart DEF m2, Within, Repos
<1>34. Safe(p, m1, a0, a4, "VLESS")
  BY <1>3, <1>17, <1>14, <1>33, MainTun DEF m1, Within, Repos
<1>35. Safe(p, m0, a0, a4, r)
  BY <1>3, <1>15, <1>34, RuleRepo DEF m0, Within, Repos
<1>36. connectOf("VLESS_REALITY") = connectVlessReality \o m5
  BY DEF connectOf, m5
<1>37. connectVlessReality = <<e0, e1, e2, e3, e4>>
  BY DEF connectVlessReality, Start, Ready, OpenTun, Tun2Socks, v0, v1, v2, v3
<1> HIDE DEF e0, e1, e2, e3, e4
<1>38. IsSeq(m5)
  BY Seq1 DEF m5
<1>39. Same(<<e0, e1, e2, e3, e4>> \o m5, m0)
  BY <1>38, Unroll5, ZenonT(60) DEF m0, m1, m2, m3, m4
<1> QED BY <1>35, <1>36, <1>37, <1>39 DEF Same, a0, a4

\* connectHysteria2() is safe from the state in which connect() accepts the profile.
LEMMA ConnectHysteria2 ==
    ASSUME NEW p, p.k = "HYSTERIA2", NEW r \in Repos
    PROVE  Safe(p, connectOf("HYSTERIA2"), {"profile", "tun"}, {"profile"}, r)
<1> DEFINE n == {}
           v0 == <<>> \o <<StopSelf>>
           v1 == <<Close>> \o <<StopSelf>>
           v2 == <<Stop("Hysteria2"), Close>> \o <<StopSelf>>
           v3 == <<Stop("Hysteria2"), Close>> \o <<StopSelf>>
           e0 == Do("repo", "HYSTERIA2")
           e1 == Try("tun", "-", v0)
           e2 == Try("start", "Hysteria2", v1)
           e3 == Try("ready", "Hysteria2", v2)
           e4 == Try("hev", "-", v3)
           m5 == <<Do("finish", "-")>>
           m4 == <<e4>> \o m5
           m3 == <<e3>> \o m4
           m2 == <<e2>> \o m3
           m1 == <<e1>> \o m2
           m0 == <<e0>> \o m1
           a0 == {"profile", "tun"}
           a1 == {"profile", "tun", "Http"}
           a2 == {"profile", "tun", "Http", "Hysteria2"}
           a3 == {"profile", "tun", "Http", "Hev", "Hysteria2"}
           a4 == {"profile"}
           a5 == {"profile", "tun", "Hysteria2"}
           a6 == {"profile", "Http"}
<1>1. Taken(p.k) = {"profile", "tun", "Http", "Hev", "Hysteria2"}
  BY DEF Taken, Returned, TunnelType, Parts, RefOf
<1>2. \A y : y \notin n
  OBVIOUS
<1> HIDE DEF n
\* What is held along the program and its failure paths.
<1>3. /\ a0 \subseteq Taken(p.k) /\ a1 \subseteq Taken(p.k) /\ a2 \subseteq Taken(p.k)
      /\ a3 \subseteq Taken(p.k) /\ a4 \subseteq Taken(p.k) /\ a5 \subseteq Taken(p.k)
      /\ a6 \subseteq Taken(p.k)
  BY <1>1
<1>4. p.lax \/ a1 \cap Listeners = {}
  BY DEF Listeners
<1>5. a1 \ {"tun"} \subseteq a6 /\ "tun" \notin n /\ "Hev" \notin a1
  BY <1>2
<1>6. p.lax \/ a6 \cap Listeners = {}
  BY DEF Listeners
<1>7. a2 \ {"Hysteria2"} \subseteq a1 /\ "Hysteria2" \notin n /\ FrontFirst(p, "Hysteria2", a2)
  BY <1>2, FrontFirstListener DEF Components, Clients, Listeners
<1>8. a1 \ {"Hysteria2"} \subseteq a1 /\ "Hysteria2" \notin n /\ FrontFirst(p, "Hysteria2", a1)
  BY <1>2, FrontFirstListener DEF Components, Clients, Listeners
<1>9. /\ "HYSTERIA2" \in Repos /\ "profile" \in a5 /\ RefOf(TunnelType(p.k)) \subseteq a5
      /\ Needs(p.k) \subseteq a5
  BY DEF Repos, RepoTypes, TunnelType, RefOf, Needs
<1>10. /\ "HYSTERIA2" \in Repos /\ "profile" \in a5 /\ "tun" \in a5
       /\ a2 \cup {"Hev"} \subseteq a3 /\ n \subseteq a5
  BY <1>2 DEF Repos, RepoTypes
<1>11. "HYSTERIA2" \in Repos /\ n \subseteq a5
  BY <1>2 DEF Repos, RepoTypes
<1>12. /\ "HYSTERIA2" \in Repos /\ "profile" \in a0 /\ "Hysteria2" \in Clients \cup Listeners
       /\ ("Hysteria2" \in Native => Ref("Hysteria2") \in a0)
       /\ a1 \cup {"Hysteria2"} \subseteq a2 /\ a5 \subseteq a0 \cup {"Hysteria2"}
       /\ NotedType("Hysteria2", "HYSTERIA2") = "HYSTERIA2" /\ n \subseteq a0
  BY <1>2 DEF Repos, RepoTypes, Clients, Listeners, Native, Ref, NotedType
<1>13. /\ "HYSTERIA2" \in Repos /\ "profile" \in a4 /\ "Hev" \notin a0
       /\ a0 \cup {"tun", "Http"} \subseteq a1 /\ a0 \subseteq a4 \cup {"tun"}
       /\ a0 \cup {"Http"} \subseteq a1 /\ n \subseteq a4 \ {"tun"}
  BY <1>2 DEF Repos, RepoTypes
<1>14. r \in Repos /\ "HYSTERIA2" \in RepoTypes
  BY <1>2 DEF Repos, RepoTypes
<1> HIDE DEF v0, v1, v2, v3, m0, m1, m2, m3, m4, m5, a0, a1, a2, a3, a4, a5, a6
\* The failure paths, and the program from its end.
<1>15. Undoes(p, <<>>, n, a1, a1)
  BY UndoEmpty
<1>16. SafeAny(p, v0, a1, n)
  BY <1>3, <1>15, <1>4, UndoThenStopSelf DEF v0
<1>17. Undoes(p, <<Close>>, n, a1, a6)
  BY <1>3, <1>5, UndoClose
<1>18. SafeAny(p, v1, a1, n)
  BY <1>3, <1>17, <1>6, UndoThenStopSelf DEF v1
<1>19. Undoes(p, <<Stop("Hysteria2")>>, n, a2, a1)
  BY <1>3, <1>7, UndoStop
<1>20. Undoes(p, <<Stop("Hysteria2"), Close>>, n, a2, a6)
  BY <1>19, <1>17, UndoPair
<1>21. SafeAny(p, v2, a2, n)
  BY <1>3, <1>20, <1>6, UndoThenStopSelf DEF v2
<1>22. Undoes(p, RepoStopCurrentProxy("HYSTERIA2"), n, a2, a1)
  BY <1>19 DEF RepoStopCurrentProxy
<1>23. Undoes(p, <<Stop("Hysteria2")>>, n, a1, a1)
  BY <1>3, <1>8, UndoStop
<1>24. Undoes(p, <<Stop("Hysteria2"), Close>>, n, a1, a6)
  BY <1>23, <1>17, UndoPair
<1>25. SafeAny(p, v3, a1, n)
  BY <1>3, <1>24, <1>6, UndoThenStopSelf DEF v3
<1>26. SafeAny(p, RepoStopCurrentProxy("HYSTERIA2") \o v3, a2, n)
  BY <1>22, <1>25, UndoApply
<1>27. Safe(p, m5, a3, a5, "HYSTERIA2")
  BY <1>3, <1>9, RuleFinish DEF m5, Within, Repos
<1>28. Safe(p, m4, a2, a5, "HYSTERIA2")
  BY <1>3, <1>26, <1>10, <1>27, MainHev DEF m4, Within, Repos
<1>29. Safe(p, m3, a2, a5, "HYSTERIA2")
  BY <1>3, <1>21, <1>11, <1>28, MainReady DEF m3, Within, Repos
<1>30. Safe(p, m2, a1, a0, "HYSTERIA2")
  BY <1>3, <1>18, <1>12, <1>29, MainStart DEF m2, Within, Repos
<1>31. Safe(p, m1, a0, a4, "HYSTERIA2")
  BY <1>3, <1>16, <1>13, <1>30, MainTun DEF m1, Within, Repos
<1>32. Safe(p, m0, a0, a4, r)
  BY <1>3, <1>14, <1>31, RuleRepo DEF m0, Within, Repos
<1>33. connectOf("HYSTERIA2") = connectHysteria2 \o m5
  BY DEF connectOf, m5
<1>34. connectHysteria2 = <<e0, e1, e2, e3, e4>>
  BY DEF connectHysteria2, Start, Ready, OpenTun, Tun2Socks, v0, v1, v2, v3
<1> HIDE DEF e0, e1, e2, e3, e4
<1>35. IsSeq(m5)
  BY Seq1 DEF m5
<1>36. Same(<<e0, e1, e2, e3, e4>> \o m5, m0)
  BY <1>35, Unroll5, ZenonT(60) DEF m0, m1, m2, m3, m4
<1> QED BY <1>32, <1>33, <1>34, <1>36 DEF Same, a0, a4

\* connectNaive() is safe from the state in which connect() accepts the profile.
LEMMA ConnectNaive ==
    ASSUME NEW p, p.k = "NAIVE", NEW r \in Repos
    PROVE  Safe(p, connectOf("NAIVE"), {"profile", "tun"}, {"profile"}, r)
<1> DEFINE n == {}
           v0 == <<>> \o <<StopSelf>>
           v1 == <<Close>> \o <<StopSelf>>
           v2 == <<Stop("Naive"), Close>> \o <<StopSelf>>
           v3 == <<Stop("NaiveSocks"), Stop("Naive"), Close>> \o <<StopSelf>>
           v4 == <<Stop("NaiveSocks"), Stop("Naive"), Close>> \o <<StopSelf>>
           e0 == Try("tun", "-", v0)
           e1 == Try("start", "Naive", v1)
           e2 == Try("ready", "Naive", v2)
           e3 == Try("start", "NaiveSocks", v2)
           e4 == Try("ready", "NaiveSocks", v3)
           e5 == Try("hev", "-", v4)
           m6 == <<Do("finish", "-")>>
           m5 == <<e5>> \o m6
           m4 == <<e4>> \o m5
           m3 == <<e3>> \o m4
           m2 == <<e2>> \o m3
           m1 == <<e1>> \o m2
           m0 == <<e0>> \o m1
           a0 == {"profile", "tun"}
           a1 == {"profile", "tun", "Http"}
           a2 == {"profile", "tun", "Http", "Naive"}
           a3 == {"profile", "tun", "Http", "Naive", "NaiveSocks"}
           a4 == {"profile", "tun", "Http", "Hev", "Naive", "NaiveSocks"}
           a5 == {"profile"}
           a6 == {"profile", "tun", "Naive"}
           a7 == {"profile", "tun", "Naive", "NaiveSocks"}
           a8 == {"profile", "Http"}
<1>1. Taken(p.k) = {"profile", "tun", "Http", "Hev", "Naive", "NaiveSocks"}
  BY DEF Taken, Returned, TunnelType, Parts, RefOf
<1>2. \A y : y \notin n
  OBVIOUS
<1> HIDE DEF n
\* What is held along the program and its failure paths.
<1>3. /\ a0 \subseteq Taken(p.k) /\ a1 \subseteq Taken(p.k) /\ a2 \subseteq Taken(p.k)
      /\ a3 \subseteq Taken(p.k) /\ a4 \subseteq Taken(p.k) /\ a5 \subseteq Taken(p.k)
      /\ a6 \subseteq Taken(p.k) /\ a7 \subseteq Taken(p.k) /\ a8 \subseteq Taken(p.k)
  BY <1>1
<1>4. p.lax \/ a1 \cap Listeners = {}
  BY DEF Listeners
<1>5. a1 \ {"tun"} \subseteq a8 /\ "tun" \notin n /\ "Hev" \notin a1
  BY <1>2
<1>6. p.lax \/ a8 \cap Listeners = {}
  BY DEF Listeners
<1>7. a2 \ {"Naive"} \subseteq a1 /\ "Naive" \notin n /\ FrontFirst(p, "Naive", a2)
  BY <1>2, FrontFirstClient
<1>8. /\ a3 \ {"NaiveSocks"} \subseteq a2 /\ "NaiveSocks" \notin n
      /\ FrontFirst(p, "NaiveSocks", a3)
  BY <1>2, FrontFirstListener DEF Components, Clients, Listeners
<1>9. n \cap Components = {} /\ a3 \cap Clients \subseteq {"Naive"}
  BY <1>2 DEF Clients
<1>10. /\ r \in Repos /\ "profile" \in a7 /\ RefOf(TunnelType(p.k)) \subseteq a7
       /\ Needs(p.k) \subseteq a7
  BY DEF Repos, RepoTypes, TunnelType, RefOf, Needs
<1>11. /\ r \in Repos /\ "profile" \in a7 /\ "tun" \in a7 /\ a3 \cup {"Hev"} \subseteq a4
       /\ n \subseteq a7
  BY <1>2 DEF Repos, RepoTypes
<1>12. r \in Repos /\ n \subseteq a7
  BY <1>2 DEF Repos, RepoTypes
<1>13. /\ r \in Repos /\ "profile" \in a6 /\ "NaiveSocks" \in Clients \cup Listeners
       /\ ("NaiveSocks" \in Native => Ref("NaiveSocks") \in a6)
       /\ a2 \cup {"NaiveSocks"} \subseteq a3 /\ a7 \subseteq a6 \cup {"NaiveSocks"}
       /\ NotedType("NaiveSocks", r) = r /\ n \subseteq a6
  BY <1>2 DEF Repos, RepoTypes, Clients, Listeners, Native, Ref, NotedType
<1>14. r \in Repos /\ n \subseteq a6
  BY <1>2 DEF Repos, RepoTypes
<1>15. /\ r \in Repos /\ "profile" \in a0 /\ "Naive" \in Clients \cup Listeners
       /\ ("Naive" \in Native => Ref("Naive") \in a0) /\ a1 \cup {"Naive"} \subseteq a2
       /\ a6 \subseteq a0 \cup {"Naive"} /\ NotedType("Naive", r) = r /\ n \subseteq a0
  BY <1>2 DEF Repos, RepoTypes, Clients, Listeners, Native, Ref, NotedType
<1>16. /\ r \in Repos /\ "profile" \in a5 /\ "Hev" \notin a0
       /\ a0 \cup {"tun", "Http"} \subseteq a1 /\ a0 \subseteq a5 \cup {"tun"}
       /\ a0 \cup {"Http"} \subseteq a1 /\ n \subseteq a5 \ {"tun"}
  BY <1>2 DEF Repos, RepoTypes
<1> HIDE DEF v0, v1, v2, v3, v4, m0, m1, m2, m3, m4, m5, m6, a0, a1, a2, a3, a4, a5, a6, a7, a8
\* The failure paths, and the program from its end.
<1>17. Undoes(p, <<>>, n, a1, a1)
  BY UndoEmpty
<1>18. SafeAny(p, v0, a1, n)
  BY <1>3, <1>17, <1>4, UndoThenStopSelf DEF v0
<1>19. Undoes(p, <<Close>>, n, a1, a8)
  BY <1>3, <1>5, UndoClose
<1>20. SafeAny(p, v1, a1, n)
  BY <1>3, <1>19, <1>6, UndoThenStopSelf DEF v1
<1>21. Undoes(p, <<Stop("Naive")>>, n, a2, a1)
  BY <1>3, <1>7, UndoStop
<1>22. Undoes(p, <<Stop("Naive"), Close>>, n, a2, a8)
  BY <1>21, <1>19, UndoPair
<1>23. SafeAny(p, v2, a2, n)
  BY <1>3, <1>22, <1>6, UndoThenStopSelf DEF v2
<1>24. Undoes(p, <<Stop("NaiveSocks")>>, n, a3, a2)
  BY <1>3, <1>8, UndoStop
<1>25. Undoes(p, <<Stop("NaiveSocks"), Stop("Naive"), Close>>, n, a3, a8)
  BY <1>24, <1>22, UndoTriple
<1>26. SafeAny(p, v3, a3, n)
  BY <1>3, <1>25, <1>6, UndoThenStopSelf DEF v3
<1>27. Undoes(p, RepoStopCurrentProxy(r), n, a3, a3)
  BY <1>3, <1>9, UndoRepoAny
<1>28. SafeAny(p, v4, a3, n)
  BY <1>3, <1>25, <1>6, UndoThenStopSelf DEF v4
<1>29. SafeAny(p, RepoStopCurrentProxy(r) \o v4, a3, n)
  BY <1>27, <1>28, UndoApply
<1>30. Safe(p, m6, a4, a7, r)
  BY <1>3, <1>10, RuleFinish DEF m6, Within, Repos
<1>31. Safe(p, m5, a3, a7, r)
  BY <1>3, <1>29, <1>11, <1>30, MainHev DEF m5, Within, Repos
<1>32. Safe(p, m4, a3, a7, r)
  BY <1>3, <1>26, <1>12, <1>31, MainReady DEF m4, Within, Repos
<1>33. Safe(p, m3, a2, a6, r)
  BY <1>3, <1>23, <1>13, <1>32, MainStart DEF m3, Within, Repos
<1>34. Safe(p, m2, a2, a6, r)
  BY <1>3, <1>23, <1>14, <1>33, MainReady DEF m2, Within, Repos
<1>35. Safe(p, m1, a1, a0, r)
  BY <1>3, <1>20, <1>15, <1>34, MainStart DEF m1, Within, Repos
<1>36. Safe(p, m0, a0, a5, r)
  BY <1>3, <1>18, <1>16, <1>35, MainTun DEF m0, Within, Repos
<1>37. connectOf("NAIVE") = connectNaive \o m6
  BY DEF connectOf, m6
<1>38. connectNaive = <<e0, e1, e2, e3, e4, e5>>
  BY DEF connectNaive, overNaive, Start, Ready, OpenTun, Tun2Socks, v0, v1, v2, v3, v4
<1> HIDE DEF e0, e1, e2, e3, e4, e5
<1>39. IsSeq(m6)
  BY Seq1 DEF m6
<1>40. Same(<<e0, e1, e2, e3, e4, e5>> \o m6, m0)
  BY <1>39, Unroll6, ZenonT(60) DEF m0, m1, m2, m3, m4, m5
<1> QED BY <1>36, <1>37, <1>38, <1>40 DEF Same, a0, a5

\* connectNaiveSsh() is safe from the state in which connect() accepts the profile.
LEMMA ConnectNaiveSsh ==
    ASSUME NEW p, p.k = "NAIVE_SSH", NEW r \in Repos
    PROVE  Safe(p, connectOf("NAIVE_SSH"), {"profile", "tun"}, {"profile"}, r)
<1> DEFINE n == {}
           v0 == <<>> \o <<StopSelf>>
           v1 == <<Close>> \o <<StopSelf>>
           v2 == <<Stop("Naive"), Close>> \o <<StopSelf>>
           v3 == <<Stop("Ssh"), Stop("Naive"), Close>> \o <<StopSelf>>
           v4 == <<Stop("Ssh"), Stop("Naive"), Close>> \o <<StopSelf>>
           e0 == Try("tun", "-", v0)
           e1 == Try("start", "Naive", v1)
           e2 == Try("ready", "Naive", v2)
           e3 == Try("start", "Ssh", v2)
           e4 == Try("ready", "Ssh", v3)
           e5 == Try("hev", "-", v4)
           m6 == <<Do("finish", "-")>>
           m5 == <<e5>> \o m6
           m4 == <<e4>> \o m5
           m3 == <<e3>> \o m4
           m2 == <<e2>> \o m3
           m1 == <<e1>> \o m2
           m0 == <<e0>> \o m1
           a0 == {"profile", "tun"}
           a1 == {"profile", "tun", "Http"}
           a2 == {"profile", "tun", "Http", "Naive"}
           a3 == {"profile", "tun", "Http", "Naive", "Ssh"}
           a4 == {"profile", "tun", "Http", "Hev", "Naive", "Ssh"}
           a5 == {"profile"}
           a6 == {"profile", "tun", "Naive"}
           a7 == {"profile", "tun", "Naive", "Ssh"}
           a8 == {"profile", "Http"}
<1>1. Taken(p.k) = {"profile", "tun", "Http", "Hev", "Naive", "Ssh"}
  BY DEF Taken, Returned, TunnelType, Parts, RefOf
<1>2. \A y : y \notin n
  OBVIOUS
<1> HIDE DEF n
\* What is held along the program and its failure paths.
<1>3. /\ a0 \subseteq Taken(p.k) /\ a1 \subseteq Taken(p.k) /\ a2 \subseteq Taken(p.k)
      /\ a3 \subseteq Taken(p.k) /\ a4 \subseteq Taken(p.k) /\ a5 \subseteq Taken(p.k)
      /\ a6 \subseteq Taken(p.k) /\ a7 \subseteq Taken(p.k) /\ a8 \subseteq Taken(p.k)
  BY <1>1
<1>4. p.lax \/ a1 \cap Listeners = {}
  BY DEF Listeners
<1>5. a1 \ {"tun"} \subseteq a8 /\ "tun" \notin n /\ "Hev" \notin a1
  BY <1>2
<1>6. p.lax \/ a8 \cap Listeners = {}
  BY DEF Listeners
<1>7. a2 \ {"Naive"} \subseteq a1 /\ "Naive" \notin n /\ FrontFirst(p, "Naive", a2)
  BY <1>2, FrontFirstClient
<1>8. a3 \ {"Ssh"} \subseteq a2 /\ "Ssh" \notin n /\ FrontFirst(p, "Ssh", a3)
  BY <1>2, FrontFirstListener DEF Components, Clients, Listeners
<1>9. n \cap Components = {} /\ a3 \cap Clients \subseteq {"Naive"}
  BY <1>2 DEF Clients
<1>10. /\ r \in Repos /\ "profile" \in a7 /\ RefOf(TunnelType(p.k)) \subseteq a7
       /\ Needs(p.k) \subseteq a7
  BY DEF Repos, RepoTypes, TunnelType, RefOf, Needs
<1>11. /\ r \in Repos /\ "profile" \in a7 /\ "tun" \in a7 /\ a3 \cup {"Hev"} \subseteq a4
       /\ n \subseteq a7
  BY <1>2 DEF Repos, RepoTypes
<1>12. r \in Repos /\ n \subseteq a7
  BY <1>2 DEF Repos, RepoTypes
<1>13. /\ r \in Repos /\ "profile" \in a6 /\ "Ssh" \in Clients \cup Listeners
       /\ ("Ssh" \in Native => Ref("Ssh") \in a6) /\ a2 \cup {"Ssh"} \subseteq a3
       /\ a7 \subseteq a6 \cup {"Ssh"} /\ NotedType("Ssh", r) = r /\ n \subseteq a6
  BY <1>2 DEF Repos, RepoTypes, Clients, Listeners, Native, Ref, NotedType
<1>14. r \in Repos /\ n \subseteq a6
  BY <1>2 DEF Repos, RepoTypes
<1>15. /\ r \in Repos /\ "profile" \in a0 /\ "Naive" \in Clients \cup Listeners
       /\ ("Naive" \in Native => Ref("Naive") \in a0) /\ a1 \cup {"Naive"} \subseteq a2
       /\ a6 \subseteq a0 \cup {"Naive"} /\ NotedType("Naive", r) = r /\ n \subseteq a0
  BY <1>2 DEF Repos, RepoTypes, Clients, Listeners, Native, Ref, NotedType
<1>16. /\ r \in Repos /\ "profile" \in a5 /\ "Hev" \notin a0
       /\ a0 \cup {"tun", "Http"} \subseteq a1 /\ a0 \subseteq a5 \cup {"tun"}
       /\ a0 \cup {"Http"} \subseteq a1 /\ n \subseteq a5 \ {"tun"}
  BY <1>2 DEF Repos, RepoTypes
<1> HIDE DEF v0, v1, v2, v3, v4, m0, m1, m2, m3, m4, m5, m6, a0, a1, a2, a3, a4, a5, a6, a7, a8
\* The failure paths, and the program from its end.
<1>17. Undoes(p, <<>>, n, a1, a1)
  BY UndoEmpty
<1>18. SafeAny(p, v0, a1, n)
  BY <1>3, <1>17, <1>4, UndoThenStopSelf DEF v0
<1>19. Undoes(p, <<Close>>, n, a1, a8)
  BY <1>3, <1>5, UndoClose
<1>20. SafeAny(p, v1, a1, n)
  BY <1>3, <1>19, <1>6, UndoThenStopSelf DEF v1
<1>21. Undoes(p, <<Stop("Naive")>>, n, a2, a1)
  BY <1>3, <1>7, UndoStop
<1>22. Undoes(p, <<Stop("Naive"), Close>>, n, a2, a8)
  BY <1>21, <1>19, UndoPair
<1>23. SafeAny(p, v2, a2, n)
  BY <1>3, <1>22, <1>6, UndoThenStopSelf DEF v2
<1>24. Undoes(p, <<Stop("Ssh")>>, n, a3, a2)
  BY <1>3, <1>8, UndoStop
<1>25. Undoes(p, <<Stop("Ssh"), Stop("Naive"), Close>>, n, a3, a8)
  BY <1>24, <1>22, UndoTriple
<1>26. SafeAny(p, v3, a3, n)
  BY <1>3, <1>25, <1>6, UndoThenStopSelf DEF v3
<1>27. Undoes(p, RepoStopCurrentProxy(r), n, a3, a3)
  BY <1>3, <1>9, UndoRepoAny
<1>28. SafeAny(p, v4, a3, n)
  BY <1>3, <1>25, <1>6, UndoThenStopSelf DEF v4
<1>29. SafeAny(p, RepoStopCurrentProxy(r) \o v4, a3, n)
  BY <1>27, <1>28, UndoApply
<1>30. Safe(p, m6, a4, a7, r)
  BY <1>3, <1>10, RuleFinish DEF m6, Within, Repos
<1>31. Safe(p, m5, a3, a7, r)
  BY <1>3, <1>29, <1>11, <1>30, MainHev DEF m5, Within, Repos
<1>32. Safe(p, m4, a3, a7, r)
  BY <1>3, <1>26, <1>12, <1>31, MainReady DEF m4, Within, Repos
<1>33. Safe(p, m3, a2, a6, r)
  BY <1>3, <1>23, <1>13, <1>32, MainStart DEF m3, Within, Repos
<1>34. Safe(p, m2, a2, a6, r)
  BY <1>3, <1>23, <1>14, <1>33, MainReady DEF m2, Within, Repos
<1>35. Safe(p, m1, a1, a0, r)
  BY <1>3, <1>20, <1>15, <1>34, MainStart DEF m1, Within, Repos
<1>36. Safe(p, m0, a0, a5, r)
  BY <1>3, <1>18, <1>16, <1>35, MainTun DEF m0, Within, Repos
<1>37. connectOf("NAIVE_SSH") = connectNaiveSsh \o m6
  BY DEF connectOf, m6
<1>38. connectNaiveSsh = <<e0, e1, e2, e3, e4, e5>>
  BY DEF connectNaiveSsh, overNaive, Start, Ready, OpenTun, Tun2Socks, v0, v1, v2, v3, v4
<1> HIDE DEF e0, e1, e2, e3, e4, e5
<1>39. IsSeq(m6)
  BY Seq1 DEF m6
<1>40. Same(<<e0, e1, e2, e3, e4, e5>> \o m6, m0)
  BY <1>39, Unroll6, ZenonT(60) DEF m0, m1, m2, m3, m4, m5
<1> QED BY <1>36, <1>37, <1>38, <1>40 DEF Same, a0, a5

\* connectDoh() is safe from the state in which connect() accepts the profile.
LEMMA ConnectDoh ==
    ASSUME NEW p, p.k = "DOH", NEW r \in Repos
    PROVE  Safe(p, connectOf("DOH"), {"profile", "tun"}, {"profile"}, r)
<1> DEFINE n == {}
           P == HandleProxyStartupFailure("DOH")
           v0 == <<>> \o <<StopSelf>>
           v1 == <<Close>> \o <<StopSelf>>
           v2 == (P \o <<Close>>) \o <<StopSelf>>
           v3 == <<Close>> \o <<StopSelf>>
           e0 == Try("tun", "-", v0)
           e1 == Try("start", "Doh", v1)
           e2 == Try("ready", "Doh", v2)
           e3 == Try("hev", "-", v3)
           m4 == <<Do("finish", "-")>>
           m3 == <<e3>> \o m4
           m2 == <<e2>> \o m3
           m1 == <<e1>> \o m2
           m0 == <<e0>> \o m1
           a0 == {"profile", "tun"}
           a1 == {"profile", "tun", "Http"}
           a2 == {"profile", "tun", "Http", "Doh"}
           a3 == {"profile", "tun", "Http", "Hev", "Doh"}
           a4 == {"profile"}
           a5 == {"profile", "tun", "Doh"}
           a6 == {"profile", "Http"}
<1>1. Taken(p.k) = {"profile", "tun", "Http", "Hev", "Doh"}
  BY DEF Taken, Returned, TunnelType, Parts, RefOf
<1>2. \A y : y \notin n
  OBVIOUS
<1> HIDE DEF n
\* What is held along the program and its failure paths.
<1>3. /\ a0 \subseteq Taken(p.k) /\ a1 \subseteq Taken(p.k) /\ a2 \subseteq Taken(p.k)
      /\ a3 \subseteq Taken(p.k) /\ a4 \subseteq Taken(p.k) /\ a5 \subseteq Taken(p.k)
      /\ a6 \subseteq Taken(p.k)
  BY <1>1
<1>4. p.lax \/ a1 \cap Listeners = {}
  BY DEF Listeners
<1>5. a1 \ {"tun"} \subseteq a6 /\ "tun" \notin n /\ "Hev" \notin a1
  BY <1>2
<1>6. p.lax \/ a6 \cap Listeners = {}
  BY DEF Listeners
<1>7. /\ "DOH" \in Types /\ a2 \subseteq Returned("DOH")
      /\ a2 \ ({"Http"} \cup Parts("DOH") \cup RefOf("DOH")) \subseteq a0
      /\ n \cap ({"Http"} \cup Parts("DOH") \cup RefOf("DOH")) = {}
  BY <1>2 DEF Types, Returned, Parts, RefOf
<1>8. a0 \ {"tun"} \subseteq a4 /\ "tun" \notin n /\ "Hev" \notin a0
  BY <1>2
<1>9. p.lax \/ a4 \cap Listeners = {}
  BY DEF Listeners
<1>10. a2 \ {"Doh"} \subseteq a1 /\ "Doh" \notin n /\ FrontFirst(p, "Doh", a2)
  BY <1>2, FrontFirstListener DEF Components, Clients, Listeners
<1>11. /\ "DOH" \in Repos /\ "profile" \in a5 /\ RefOf(TunnelType(p.k)) \subseteq a5
       /\ Needs(p.k) \subseteq a5
  BY DEF Repos, RepoTypes, TunnelType, RefOf, Needs
<1>12. /\ "DOH" \in Repos /\ "profile" \in a5 /\ "tun" \in a5 /\ a2 \cup {"Hev"} \subseteq a3
       /\ n \subseteq a5
  BY <1>2 DEF Repos, RepoTypes
<1>13. "DOH" \in Repos /\ n \subseteq a5
  BY <1>2 DEF Repos, RepoTypes
<1>14. /\ r \in Repos /\ "profile" \in a0 /\ "Doh" \in Clients \cup Listeners
       /\ ("Doh" \in Native => Ref("Doh") \in a0) /\ a1 \cup {"Doh"} \subseteq a2
       /\ a5 \subseteq a0 \cup {"Doh"} /\ NotedType("Doh", r) = "DOH" /\ n \subseteq a0
  BY <1>2 DEF Repos, RepoTypes, Clients, Listeners, Native, Ref, NotedType
<1>15. /\ r \in Repos /\ "profile" \in a4 /\ "Hev" \notin a0
       /\ a0 \cup {"tun", "Http"} \subseteq a1 /\ a0 \subseteq a4 \cup {"tun"}
       /\ a0 \cup {"Http"} \subseteq a1 /\ n \subseteq a4 \ {"tun"}
  BY <1>2 DEF Repos, RepoTypes
<1> HIDE DEF v0, v1, v2, v3, m0, m1, m2, m3, m4, a0, a1, a2, a3, a4, a5, a6
\* The failure paths, and the program from its end.
<1>16. Undoes(p, <<>>, n, a1, a1)
  BY UndoEmpty
<1>17. SafeAny(p, v0, a1, n)
  BY <1>3, <1>16, <1>4, UndoThenStopSelf DEF v0
<1>18. Undoes(p, <<Close>>, n, a1, a6)
  BY <1>3, <1>5, UndoClose
<1>19. SafeAny(p, v1, a1, n)
  BY <1>3, <1>18, <1>6, UndoThenStopSelf DEF v1
<1>20. Undoes(p, P, n, a2, a0)
  BY <1>3, <1>7, UndoFailure
<1>21. Undoes(p, <<Close>>, n, a0, a4)
  BY <1>3, <1>8, UndoClose
<1>22. Undoes(p, P \o <<Close>>, n, a2, a4)
  BY <1>20, <1>21, UndoConcat
<1>23. SafeAny(p, v2, a2, n)
  BY <1>3, <1>22, <1>9, UndoThenStopSelf DEF v2
<1>24. Undoes(p, <<Stop("Doh")>>, n, a2, a1)
  BY <1>3, <1>10, UndoStop
<1>25. Undoes(p, RepoStopCurrentProxy("DOH"), n, a2, a1)
  BY <1>24 DEF RepoStopCurrentProxy
<1>26. SafeAny(p, v3, a1, n)
  BY <1>3, <1>18, <1>6, UndoThenStopSelf DEF v3
<1>27. SafeAny(p, RepoStopCurrentProxy("DOH") \o v3, a2, n)
  BY <1>25, <1>26, UndoApply
<1>28. Safe(p, m4, a3, a5, "DOH")
  BY <1>3, <1>11, RuleFinish DEF m4, Within, Repos
<1>29. Safe(p, m3, a2, a5, "DOH")
  BY <1>3, <1>27, <1>12, <1>28, MainHev DEF m3, Within, Repos
<1>30. Safe(p, m2, a2, a5, "DOH")
  BY <1>3, <1>23, <1>13, <1>29, MainReady DEF m2, Within, Repos
<1>31. Safe(p, m1, a1, a0, r)
  BY <1>3, <1>19, <1>14, <1>30, MainStart DEF m1, Within, Repos
<1>32. Safe(p, m0, a0, a4, r)
  BY <1>3, <1>17, <1>15, <1>31, MainTun DEF m0, Within, Repos
<1>33. connectOf("DOH") = connectDoh \o m4
  BY DEF connectOf, m4
<1>34. connectDoh = <<e0, e1, e2, e3>>
  BY DEF connectDoh, Start, Ready, OpenTun, Tun2Socks, v0, v1, v2, v3
<1> HIDE DEF e0, e1, e2, e3
<1>35. IsSeq(m4)
  BY Seq1 DEF m4
<1>36. Same(<<e0, e1, e2, e3>> \o m4, m0)
  BY <1>35, Unroll4, ZenonT(60) DEF m0, m1, m2, m3
<1> QED BY <1>32, <1>33, <1>34, <1>36 DEF Same, a0, a4

-----------------------------------------------------------------------------
(* Snowflake: one transport, or one after the other.                       *)

\* A transport, the interface and tun2socks.  The failure paths a, b and c of the
\* transport, and d of the interface, are those of the caller.
LEMMA TransportSafe ==
    ASSUME NEW p, p.k \in {"SNOWFLAKE", "SNOWFLAKE_SMART"}, NEW r \in Repos,
           NEW a, SafeAny(p, a, {"profile", "tun"}, {"profile"}),
           NEW b, SafeAny(p, b, {"profile", "tun", "Snowflake"}, {"profile"}),
           NEW c, SafeAny(p, c, {"profile", "tun", "Snowflake", "TorSocks"}, {"profile"}),
           NEW d, SafeAny(p, d, {"profile", "tun", "Http", "Snowflake", "TorSocks"}, {})
    PROVE  Safe(p, <<Try("start", "Snowflake", a)>> \o (<<Try("start", "TorSocks", b)>> \o
                   (<<Try("ready", "Snowflake", c)>> \o (<<Try("ready", "TorSocks", c)>> \o
                   (<<Try("tun", "-", d)>> \o (<<Tun2Socks(<<Close>>)>> \o
                   <<Do("finish", "-")>>))))), {"profile", "tun"}, {"profile"}, r)
<1> DEFINE v == <<Close>> \o <<StopSelf>>
           m6 == <<Do("finish", "-")>>
           m5 == <<Try("hev", "-", v)>> \o m6
           m4 == <<Try("tun", "-", d)>> \o m5
           m3 == <<Try("ready", "TorSocks", c)>> \o m4
           m2 == <<Try("ready", "Snowflake", c)>> \o m3
           m1 == <<Try("start", "TorSocks", b)>> \o m2
           m0 == <<Try("start", "Snowflake", a)>> \o m1
           n == {}
           n1 == {"profile"}
           u0 == {"profile", "tun"}
           u1 == {"profile", "tun", "Snowflake"}
           u2 == {"profile", "tun", "Snowflake", "TorSocks"}
           u5 == {"profile", "tun", "Http", "Snowflake", "TorSocks"}
           u6 == {"profile", "tun", "Http", "Hev", "Snowflake", "TorSocks"}
           l2 == {"profile", "Snowflake", "TorSocks"}
           l1 == {"profile", "Snowflake"}
           l5 == {"profile", "tun", "Snowflake", "TorSocks"}
<1>1. Taken(p.k) = u6
  BY DEF Taken, Returned, TunnelType, Parts, RefOf
<1>2. /\ SafeAny(p, a, u0, n1) /\ SafeAny(p, b, u1, n1) /\ SafeAny(p, c, u2, n1)
      /\ SafeAny(p, d, u5, n)
  OBVIOUS
<1>3. SafeAny(p, RepoStopCurrentProxy("SNOWFLAKE") \o v, u5, n)
  <2> DEFINE x1 == {"profile", "tun", "Http", "Snowflake"}
             x2 == {"profile", "tun", "Http"}
             x3 == {"profile", "Http"}
  <2>1. /\ u5 \subseteq Taken(p.k) /\ u5 \ {"TorSocks"} \subseteq x1 /\ "TorSocks" \notin n
        /\ x1 \subseteq Taken(p.k) /\ x1 \ {"Snowflake"} \subseteq x2 /\ "Snowflake" \notin n
        /\ x2 \subseteq Taken(p.k) /\ x2 \ {"tun"} \subseteq x3 /\ "tun" \notin n
        /\ "Hev" \notin x2 /\ x3 \subseteq Taken(p.k) /\ x3 \cap Listeners = {}
        /\ "TorSocks" \notin x1
    BY <1>1 DEF Listeners
  <2>2. FrontFirst(p, "TorSocks", u5) /\ FrontFirst(p, "Snowflake", x1)
    BY <2>1, FrontFirstListener, FrontFirstClient DEF Components, Clients, Listeners
  <2> HIDE DEF u5, x1, x2, x3, n
  <2>3. Undoes(p, <<Stop("TorSocks")>>, n, u5, x1)
    BY <2>1, <2>2, UndoStop
  <2>4. Undoes(p, <<Stop("Snowflake")>>, n, x1, x2)
    BY <2>1, <2>2, UndoStop
  <2>5. Undoes(p, <<Stop("TorSocks"), Stop("Snowflake")>>, n, u5, x2)
    BY <2>3, <2>4, UndoPair
  <2>6. Undoes(p, RepoStopCurrentProxy("SNOWFLAKE"), n, u5, x2)
    BY <2>5 DEF RepoStopCurrentProxy
  <2>7. Undoes(p, <<Close>>, n, x2, x3)
    BY <2>1, UndoClose
  <2>8. SafeAny(p, v, x2, n)
    BY <2>1, <2>7, UndoThenStopSelf
  <2> QED BY <2>6, <2>8, UndoApply
<1> HIDE DEF v
<1>4. Safe(p, m6, u6, l5, "SNOWFLAKE")
  <2>1. /\ Within(p, u6, "SNOWFLAKE") /\ "profile" \in l5 /\ RefOf(TunnelType(p.k)) \subseteq l5
        /\ Needs(p.k) \subseteq l5
    BY <1>1 DEF Within, Repos, RepoTypes, TunnelType, RefOf, Needs
  <2> HIDE DEF u6, l5
  <2> QED BY <2>1, RuleFinish
<1>5. Safe(p, m5, u5, l5, "SNOWFLAKE")
  <2>1. /\ Within(p, u5, "SNOWFLAKE") /\ "tun" \in l5 /\ "profile" \in l5
        /\ u5 \cup {"Hev"} \subseteq u6 /\ l5 \subseteq l5 /\ u5 \subseteq u5 /\ n \subseteq l5
    BY <1>1 DEF Within, Repos, RepoTypes
  <2> HIDE DEF l5, m6, n, n1, u5, u6
  <2> QED BY <2>1, <1>3, <1>4, MainHev
<1>6. Safe(p, m4, u2, l2, "SNOWFLAKE")
  <2>1. /\ Within(p, u2, "SNOWFLAKE") /\ "Hev" \notin u2 /\ "profile" \in l2
        /\ u2 \cup {"tun", "Http"} \subseteq u5 /\ l5 \subseteq l2 \cup {"tun"}
        /\ u2 \cup {"Http"} \subseteq u5 /\ n \subseteq l2 \ {"tun"}
    BY <1>1 DEF Within, Repos, RepoTypes
  <2> HIDE DEF l2, l5, m5, n, n1, u2, u5
  <2> QED BY <2>1, <1>2, <1>5, MainTun
<1>7. Safe(p, m3, u2, l2, "SNOWFLAKE")
  <2>1. /\ Within(p, u2, "SNOWFLAKE") /\ u2 \subseteq u2 /\ l2 \subseteq l2 /\ n1 \subseteq l2
    BY <1>1 DEF Within, Repos, RepoTypes
  <2> HIDE DEF l2, m4, n, n1, u2
  <2> QED BY <2>1, <1>2, <1>6, MainReady
<1>8. Safe(p, m2, u2, l2, "SNOWFLAKE")
  <2>1. /\ Within(p, u2, "SNOWFLAKE") /\ u2 \subseteq u2 /\ l2 \subseteq l2 /\ n1 \subseteq l2
    BY <1>1 DEF Within, Repos, RepoTypes
  <2> HIDE DEF l2, m3, n, n1, u2
  <2> QED BY <2>1, <1>2, <1>7, MainReady
<1>9. Safe(p, m1, u1, l1, r)
  <2>1. /\ Within(p, u1, r) /\ "TorSocks" \in Clients \cup Listeners
        /\ "profile" \in l1 /\ "TorSocks" \notin Native /\ NotedType("TorSocks", r) = "SNOWFLAKE"
        /\ u1 \cup {"TorSocks"} \subseteq u2 /\ l2 \subseteq l1 \cup {"TorSocks"}
        /\ u1 \subseteq u1 /\ n1 \subseteq l1
    BY <1>1 DEF Within, Repos, RepoTypes, Clients, Listeners, Native, NotedType
  <2> HIDE DEF l1, l2, m2, n, n1, u1, u2
  <2> QED BY <2>1, <1>2, <1>8, MainStart
<1>10. Safe(p, m0, u0, n1, r)
  <2>1. /\ Within(p, u0, r) /\ "Snowflake" \in Clients \cup Listeners
        /\ "profile" \in n1 /\ "Snowflake" \notin Native /\ NotedType("Snowflake", r) = r
        /\ u0 \cup {"Snowflake"} \subseteq u1 /\ l1 \subseteq n1 \cup {"Snowflake"}
        /\ u0 \subseteq u0 /\ n1 \subseteq n1
    BY <1>1 DEF Within, Repos, RepoTypes, Clients, Listeners, Native, NotedType
  <2> HIDE DEF l1, m1, n, n1, u0, u1
  <2> QED BY <2>1, <1>2, <1>9, MainStart
<1> QED BY <1>10 DEF Tun2Socks, v

\* connectSnowflake() is safe from the state in which connect() accepts the profile.
LEMMA ConnectSnowflake ==
    ASSUME NEW p, p.k = "SNOWFLAKE", NEW r \in Repos
    PROVE  Safe(p, connectOf("SNOWFLAKE"), {"profile", "tun"}, {"profile"}, r)
<1> DEFINE P == HandleProxyStartupFailure("SNOWFLAKE")
           a == <<StopSelf>>
           b == <<Stop("Snowflake")>> \o <<StopSelf>>
           c == P \o <<StopSelf>>
           e0 == Try("start", "Snowflake", a)
           e1 == Try("start", "TorSocks", b)
           e2 == Try("ready", "Snowflake", c)
           e3 == Try("ready", "TorSocks", c)
           e4 == Try("tun", "-", c)
           e5 == Tun2Socks(<<Close>>)
           f == <<Do("finish", "-")>>
           m2 == <<e2>> \o (<<e3>> \o (<<e4>> \o (<<e5>> \o f)))
           n == {}
           n1 == {"profile"}
           x0 == {"profile", "tun"}
           x1 == {"profile", "tun", "Snowflake"}
           x2 == {"profile", "tun", "Snowflake", "TorSocks"}
           x3 == {"profile", "tun", "Http", "Snowflake", "TorSocks"}
<1>1. Taken(p.k) = {"profile", "tun", "Http", "Hev", "Snowflake", "TorSocks"}
  BY DEF Taken, Returned, TunnelType, Parts, RefOf
<1>2. /\ x0 \subseteq Taken(p.k) /\ x1 \subseteq Taken(p.k) /\ x2 \subseteq Taken(p.k)
      /\ x3 \subseteq Taken(p.k) /\ x0 \cap Listeners = {}
      /\ "Snowflake" \notin n1 /\ x1 \ {"Snowflake"} \subseteq x0 /\ "TorSocks" \notin x1
  BY <1>1 DEF Listeners
<1>3. "SNOWFLAKE" \in Types /\ Returned("SNOWFLAKE") = Taken(p.k)
  BY <1>1 DEF Types, Returned, Parts, RefOf
<1>4. {"Http"} \cup Parts("SNOWFLAKE") \cup RefOf("SNOWFLAKE") = {"Http", "Snowflake", "TorSocks"}
  BY DEF Parts, RefOf
<1>5. SafeAny(p, a, x0, n1)
  <2> HIDE DEF x0, n1
  <2> QED BY <1>2, RuleStopSelf DEF SafeAny, Within, Repos
<1>6. SafeAny(p, b, x1, n1)
  <2> HIDE DEF x0, x1, n1
  <2>1. FrontFirst(p, "Snowflake", x1)
    BY <1>2, FrontFirstClient
  <2>2. Undoes(p, <<Stop("Snowflake")>>, n1, x1, x0)
    BY <1>2, <2>1, UndoStop
  <2> QED BY <1>2, <2>2, UndoThenStopSelf
<1>7. SafeAny(p, c, x2, n1)
  <2>1. /\ x2 \ ({"Http"} \cup Parts("SNOWFLAKE") \cup RefOf("SNOWFLAKE")) \subseteq x0
        /\ n1 \cap ({"Http"} \cup Parts("SNOWFLAKE") \cup RefOf("SNOWFLAKE")) = {}
    BY <1>4
  <2> HIDE DEF x0, x2, n1
  <2>2. Undoes(p, P, n1, x2, x0)
    BY <1>2, <1>3, <2>1, UndoFailure
  <2> QED BY <1>2, <2>2, UndoThenStopSelf
<1>8. SafeAny(p, c, x3, n)
  <2>1. /\ x3 \ ({"Http"} \cup Parts("SNOWFLAKE") \cup RefOf("SNOWFLAKE")) \subseteq x0
        /\ n \cap ({"Http"} \cup Parts("SNOWFLAKE") \cup RefOf("SNOWFLAKE")) = {}
    BY <1>4
  <2> HIDE DEF x0, x3, n
  <2>2. Undoes(p, P, n, x3, x0)
    BY <1>2, <1>3, <2>1, UndoFailure
  <2> QED BY <1>2, <2>2, UndoThenStopSelf
<1>9. Safe(p, <<e0>> \o (<<e1>> \o m2), x0, n1, r)
  <2>1. p.k \in {"SNOWFLAKE", "SNOWFLAKE_SMART"}
    OBVIOUS
  <2> HIDE DEF a, b, c
  <2> QED BY <2>1, <1>5, <1>6, <1>7, <1>8, TransportSafe
<1>10. connectOf("SNOWFLAKE") = (<<e0, e1>> \o <<e2, e3, e4, e5>>) \o f
  BY DEF connectOf, connectSnowflake, startSnowflakeProxy, Ready, OpenTun
<1> HIDE DEF e0, e1, e2, e3, e4, e5
<1>11. /\ IsSeq(f) /\ IsSeq(<<e0, e1>>) /\ IsSeq(<<e2, e3, e4, e5>>)
  BY Seq1, Seq2, Seq4
<1> HIDE DEF f
<1>12. Same(<<e2, e3, e4, e5>> \o f, m2)
  BY <1>11, Unroll4
<1>13. (<<e0, e1>> \o <<e2, e3, e4, e5>>) \o f = <<e0, e1>> \o (<<e2, e3, e4, e5>> \o f)
  BY <1>11, Regroup, SMTT(40)
<1>14. IsSeq(<<e2, e3, e4, e5>> \o f)
  BY <1>11, ConcatIsSeq
<1>15. connectOf("SNOWFLAKE") = <<e0, e1>> \o m2 /\ IsSeq(m2)
  BY <1>10, <1>12, <1>13, <1>14 DEF Same
<1> HIDE DEF m2
<1>16. <<e0, e1>> \o m2 = <<e0>> \o (<<e1>> \o m2)
  BY <1>15, Cons2
<1> QED BY <1>9, <1>15, <1>16

\* What Smart Connect does with a transport; t is what it does when that one does
\* not come up.
SmartRest == <<OpenTun(StopCurrentProxy("SNOWFLAKE")), Tun2Socks(<<Close>>),
               Do("finish", "-")>>
TryTransport(t) ==
    startSnowflakeProxy(t)
    \o <<Try("ready", "Snowflake", <<Stop("TorSocks"), Stop("Snowflake")>> \o t),
         Try("ready", "TorSocks", <<Stop("TorSocks"), Stop("Snowflake")>> \o t)>>
    \o SmartRest

\* f is the function that connectSnowflakeSmart defines.
IsTransports(f) ==
    f = [n \in 0 .. MaxTransports |-> IF n = 0 THEN <<StopSelf>> ELSE TryTransport(f[n - 1])]

\* There is such a function: each number of transports extends the one before.
LEMMA TransportsExist == \E f : IsTransports(f)
<1> DEFINE A == <<StopSelf>>
           P(f, n) == f = [i \in 0 .. n |-> IF i = 0 THEN A ELSE TryTransport(f[i - 1])]
           E(n) == \E f : P(f, n)
           S == {n \in Nat : E(n)}
<1> HIDE DEF A
<1>1. 0 \in S
  <2>1. P([i \in 0 .. 0 |-> A], 0)
    OBVIOUS
  <2> QED BY <2>1
<1>2. ASSUME NEW n \in Nat, n \in S PROVE n + 1 \in S
  <2>1. PICK f : P(f, n)
    BY <1>2, Zenon
  <2> DEFINE g == [i \in 0 .. n + 1 |-> IF i = n + 1 THEN TryTransport(f[n]) ELSE f[i]]
  <2>2. ASSUME NEW i \in 0 .. n + 1
        PROVE  g[i] = IF i = 0 THEN A ELSE TryTransport(g[i - 1])
    <3>1. CASE i = n + 1
      BY <3>1
    <3>2. CASE i \in 0 .. n
      <4>1. f[i] = IF i = 0 THEN A ELSE TryTransport(f[i - 1])
        BY <2>1, <3>2
      <4>2. g[i] = f[i] /\ (i # 0 => g[i - 1] = f[i - 1])
        BY <3>2
      <4> QED BY <4>1, <4>2
    <3> QED BY <3>1, <3>2
  <2>3. g = [i \in 0 .. n + 1 |-> g[i]]
    OBVIOUS
  <2>4. P(g, n + 1)
    <3> HIDE DEF g
    <3> QED BY <2>2, <2>3
  <2>5. E(n + 1)
    <3> HIDE DEF g, P
    <3> QED BY <2>4, Zenon
  <2> HIDE DEF E
  <2> QED BY <2>5
<1>3. MaxTransports \in Nat
  BY BoundsAssumption
<1>4. MaxTransports \in S
  <2> HIDE DEF S
  <2> QED BY <1>1, <1>2, <1>3, SetInduction
<1>5. E(MaxTransports)
  <2> HIDE DEF E
  <2> QED BY <1>4
<1> QED BY <1>5, Zenon DEF IsTransports, A

\* Smart Connect runs the last value of such a function.
LEMMA SmartIs == \E f : IsTransports(f) /\ connectSnowflakeSmart = f[MaxTransports]
<1> DEFINE c == CHOOSE f : IsTransports(f)
<1>1. IsTransports(c)
  BY TransportsExist
<1>2. connectSnowflakeSmart = c[MaxTransports]
  BY DEF connectSnowflakeSmart, IsTransports, TryTransport, SmartRest
<1> HIDE DEF c
<1> QED BY <1>1, <1>2

\* A transport is safe to try if what follows its failure is.
LEMMA TryTransportSafe ==
    ASSUME NEW p, p.k = "SNOWFLAKE_SMART", NEW t,
           SafeAny(p, t, {"profile", "tun"}, {"profile"})
    PROVE  SafeAny(p, TryTransport(t), {"profile", "tun"}, {"profile"})
<1> DEFINE D == StopCurrentProxy("SNOWFLAKE")
           b == <<Stop("Snowflake")>> \o t
           c == <<Stop("TorSocks"), Stop("Snowflake")>> \o t
           d == D \o <<StopSelf>>
           e0 == Try("start", "Snowflake", t)
           e1 == Try("start", "TorSocks", b)
           e2 == Try("ready", "Snowflake", c)
           e3 == Try("ready", "TorSocks", c)
           e4 == Try("tun", "-", d)
           e5 == Tun2Socks(<<Close>>)
           f == Do("finish", "-")
           m4 == <<e4>> \o (<<e5>> \o <<f>>)
           m2 == <<e2>> \o (<<e3>> \o m4)
           n == {}
           n1 == {"profile"}
           x0 == {"profile", "tun"}
           x1 == {"profile", "tun", "Snowflake"}
           x2 == {"profile", "tun", "Snowflake", "TorSocks"}
           x3 == {"profile", "tun", "Http", "Snowflake", "TorSocks"}
<1>1. Taken(p.k) = {"profile", "tun", "Http", "Hev", "Snowflake", "TorSocks"}
  BY DEF Taken, Returned, TunnelType, Parts, RefOf
<1>2. /\ x0 \subseteq Taken(p.k) /\ x1 \subseteq Taken(p.k) /\ x2 \subseteq Taken(p.k)
      /\ x3 \subseteq Taken(p.k) /\ x0 \cap Listeners = {}
      /\ "Snowflake" \notin n1 /\ x1 \ {"Snowflake"} \subseteq x0 /\ "TorSocks" \notin x1
      /\ "TorSocks" \notin n1 /\ x2 \ {"TorSocks"} \subseteq x1
  BY <1>1 DEF Listeners
<1>3. "SNOWFLAKE" \in Types /\ Returned("SNOWFLAKE") = Taken(p.k)
  BY <1>1 DEF Types, Returned, Parts, RefOf
<1>4. SafeAny(p, t, x0, n1)
  OBVIOUS
<1>5. SafeAny(p, b, x1, n1) /\ SafeAny(p, c, x2, n1)
  <2> HIDE DEF x0, x1, x2, n1
  <2>1. FrontFirst(p, "Snowflake", x1) /\ FrontFirst(p, "TorSocks", x2)
    BY <1>2, FrontFirstClient, FrontFirstListener DEF Components, Clients, Listeners
  <2>2. Undoes(p, <<Stop("Snowflake")>>, n1, x1, x0)
    BY <1>2, <2>1, UndoStop
  <2>3. Undoes(p, <<Stop("TorSocks")>>, n1, x2, x1)
    BY <1>2, <2>1, UndoStop
  <2>4. Undoes(p, <<Stop("TorSocks"), Stop("Snowflake")>>, n1, x2, x0)
    BY <2>2, <2>3, UndoPair
  <2> QED BY <1>4, <2>2, <2>4, UndoApply
<1>6. SafeAny(p, d, x3, n)
  <2>1. /\ x3 \ ({"Http"} \cup Parts("SNOWFLAKE")) \subseteq x0
        /\ n \cap ({"Http"} \cup Parts("SNOWFLAKE")) = {}
    BY DEF Parts
  <2> HIDE DEF x0, x3, n
  <2>2. Undoes(p, D, n, x3, x0)
    BY <1>2, <1>3, <2>1, UndoProxy
  <2> QED BY <1>2, <2>2, UndoThenStopSelf
<1>7. ASSUME NEW r \in Repos PROVE Safe(p, <<e0>> \o (<<e1>> \o m2), x0, n1, r)
  <2>1. p.k \in {"SNOWFLAKE", "SNOWFLAKE_SMART"}
    OBVIOUS
  <2> HIDE DEF b, c, d
  <2> QED BY <2>1, <1>4, <1>5, <1>6, <1>7, TransportSafe
<1>8. TryTransport(t) = (<<e0, e1>> \o <<e2, e3>>) \o <<e4, e5, f>>
  BY DEF TryTransport, startSnowflakeProxy, SmartRest, OpenTun
<1> HIDE DEF e0, e1, e2, e3, e4, e5, f
<1>9. /\ IsSeq(<<f>>) /\ IsSeq(<<e0, e1>>) /\ IsSeq(<<e2, e3>>) /\ IsSeq(<<e4, e5, f>>)
  BY Seq1, Seq2, Seq3
<1>10. Same(<<e4, e5, f>>, m4)
  <2> DEFINE z == <<f>>
  <2>1. <<e4, e5, f>> = <<e4, e5>> \o z /\ IsSeq(z)
    BY <1>9
  <2> HIDE DEF z
  <2>2. <<e4, e5>> \o z = <<e4>> \o (<<e5>> \o z)
    BY <2>1, Cons2
  <2>3. Same(<<e4, e5, f>>, <<e4>> \o (<<e5>> \o z))
    BY <2>1, <2>2 DEF Same
  <2> QED BY <2>3 DEF z
<1>11. IsSeq(m4) /\ TryTransport(t) = (<<e0, e1>> \o <<e2, e3>>) \o m4
  BY <1>8, <1>9, <1>10 DEF Same
<1> HIDE DEF m4
<1>12. (<<e0, e1>> \o <<e2, e3>>) \o m4 = <<e0, e1>> \o (<<e2, e3>> \o m4)
  BY <1>9, <1>11, Regroup, SMTT(40)
<1>13. <<e2, e3>> \o m4 = m2 /\ IsSeq(<<e2, e3>> \o m4)
  BY <1>9, <1>11, Cons2, ConcatIsSeq
<1>14. TryTransport(t) = <<e0, e1>> \o m2 /\ IsSeq(m2)
  <2> HIDE DEF m2
  <2> QED BY <1>11, <1>12, <1>13
<1> HIDE DEF m2
<1>15. <<e0, e1>> \o m2 = <<e0>> \o (<<e1>> \o m2)
  BY <1>14, Cons2
<1> QED BY <1>7, <1>14, <1>15 DEF SafeAny

\* connectSnowflakeSmart() is safe, however many transports it tries.
LEMMA ConnectSnowflakeSmart ==
    ASSUME NEW p, p.k = "SNOWFLAKE_SMART", NEW r \in Repos
    PROVE  Safe(p, connectOf("SNOWFLAKE_SMART"), {"profile", "tun"}, {"profile"}, r)
<1> DEFINE x == {"profile", "tun"}
           n == {"profile"}
<1>1. PICK f : IsTransports(f) /\ connectSnowflakeSmart = f[MaxTransports]
  BY SmartIs
<1> DEFINE S == {i \in Nat : i > MaxTransports \/ SafeAny(p, f[i], x, n)}
<1>2. MaxTransports \in Nat
  BY BoundsAssumption
<1>3. \A i \in 0 .. MaxTransports :
         f[i] = IF i = 0 THEN <<StopSelf>> ELSE TryTransport(f[i - 1])
  BY <1>1 DEF IsTransports
<1>4. x \subseteq Taken(p.k) /\ x \cap Listeners = {}
  BY DEF Taken, Returned, Listeners
<1>5. SafeAny(p, <<StopSelf>>, x, n)
  <2> HIDE DEF x, n
  <2> QED BY <1>4, RuleStopSelf DEF SafeAny, Within, Repos
<1>6. 0 \in S
  <2>1. f[0] = <<StopSelf>>
    BY <1>2, <1>3
  <2> HIDE DEF x, n
  <2> QED BY <1>5, <2>1
<1>7. ASSUME NEW i \in Nat, i \in S PROVE i + 1 \in S
  <2>1. CASE i + 1 > MaxTransports
    BY <2>1
  <2>2. CASE i + 1 <= MaxTransports
    <3>1. f[i + 1] = TryTransport(f[i]) /\ SafeAny(p, f[i], x, n)
      <4> HIDE DEF x, n
      <4> QED BY <1>2, <1>3, <1>7, <2>2
    <3>2. SafeAny(p, TryTransport(f[i]), x, n)
      BY <3>1, TryTransportSafe
    <3> HIDE DEF x, n
    <3> QED BY <3>1, <3>2
  <2> QED BY <2>1, <2>2, <1>2
<1>8. MaxTransports \in S
  <2> HIDE DEF S
  <2> QED BY <1>2, <1>6, <1>7, SetInduction
<1>9. SafeAny(p, connectSnowflakeSmart, x, n)
  <2> HIDE DEF x, n
  <2> QED BY <1>1, <1>2, <1>8
<1> QED BY <1>9 DEF SafeAny, connectOf

-----------------------------------------------------------------------------
(* handleNetworkChange().                                                  *)

Finish == <<Do("finish", "-")>>
Retun == <<Try("retun", "-", <<Broken>>)>>

\* A program may be left to handleTunnelFailure() as long as the reference is set.
LEMMA BrokenSafe ==
    ASSUME NEW p, NEW up, up \subseteq Taken(p.k), NEW low, RefOf(TunnelType(p.k)) \subseteq low
    PROVE  SafeAny(p, <<Broken>>, up, low)
BY RuleBroken DEF SafeAny, Within, Repos

\* The repository's stopCurrentProxy() after a failed restart of tun2socks, when
\* its type is a bridge in front of a client.
LEMMA UndoRepoPair ==
    ASSUME NEW p, NEW up, up \subseteq Taken(p.k), NEW low, NEW f \in Listeners, NEW c,
           f \notin low, c \notin low, FrontFirst(p, c, up \ {f})
    PROVE  Undoes(p, <<Stop(f), Stop(c)>>, low, up, up)
<1> DEFINE u == up \ {f}
<1>1. u \subseteq Taken(p.k) /\ up \ {f} \subseteq u /\ u \ {c} \subseteq up
  OBVIOUS
<1>2. FrontFirst(p, f, up) /\ FrontFirst(p, c, u)
  BY FrontFirstListener DEF Components, Clients, Listeners
<1> HIDE DEF u
<1>3. Undoes(p, <<Stop(f)>>, low, up, u)
  BY <1>1, <1>2, UndoStop
<1>4. Undoes(p, <<Stop(c)>>, low, u, up)
  BY <1>1, <1>2, UndoStop
<1> QED BY <1>3, <1>4, UndoPair

\* The end of a restart.
LEMMA RestartEnd ==
    ASSUME NEW p, NEW repo \in Repos, NEW up, up \subseteq Taken(p.k), NEW low,
           "profile" \in low, RefOf(TunnelType(p.k)) \subseteq low,
           (p.loose /\ p.k \in PortOnly) \/ Needs(p.k) \subseteq low,
           Undoes(p, RepoStopCurrentProxy(repo), RefOf(TunnelType(p.k)), up, up)
    PROVE  Safe(p, Retun \o Finish, up, low, repo)
<1> DEFINE n == RefOf(TunnelType(p.k))
           v == <<Broken>>
           f == Finish
<1>1. Within(p, up, repo)
  BY DEF Within, Repos
<1>2. Safe(p, Finish, up, low, repo)
  BY <1>1, RuleFinish DEF Finish
<1>3. SafeAny(p, v, up, n)
  BY BrokenSafe
<1>4. "Hev" \notin n
  BY DEF RefOf
<1> HIDE DEF n, v
<1>5. SafeAny(p, RepoStopCurrentProxy(repo) \o v, up, n)
  BY <1>3, UndoApply DEF n
<1>6. up \subseteq up /\ low \subseteq low /\ up \ {"Hev"} \subseteq up /\ n \subseteq low \ {"Hev"}
  BY <1>4 DEF n
<1>7. Safe(p, f, up, low, repo)
  BY <1>2
<1> HIDE DEF f
<1>8. Safe(p, <<Try("retun", "-", v)>> \o f, up, low, repo)
  BY ONLY <1>1, <1>5, <1>6, <1>7, MainRetun
<1> QED BY <1>8 DEF Retun, f, v

\* A component is started again.
LEMMA AgainSafe ==
    ASSUME NEW p, NEW q, NEW up, NEW low, NEW repo \in Repos, NEW c \in Clients \cup Listeners,
           up \cup {c} \subseteq Taken(p.k), RefOf(TunnelType(p.k)) \subseteq low,
           c \in Native => Ref(c) \in low, "profile" \in low,
           Safe(p, q, up \cup {c}, low \cup {c}, NotedType(c, repo))
    PROVE  Safe(p, Again(c) \o q, up, low, repo) /\ IsSeq(Again(c))
<1> DEFINE v == <<Broken>>
           e == Try("ready", c, v)
           s == Try("start", c, v)
           u == up \cup {c}
           l == low \cup {c}
<1>1. /\ up \subseteq u /\ low \subseteq l /\ up \subseteq up /\ low \subseteq low /\ u \subseteq u
      /\ l \subseteq l /\ u \subseteq Taken(p.k) /\ up \subseteq Taken(p.k)
      /\ up \cup {c} \subseteq u /\ l \subseteq low \cup {c}
  OBVIOUS
<1>2. NotedType(c, repo) \in Repos
  BY DEF NotedType, Repos, RepoTypes
<1>3. Safe(p, q, u, l, NotedType(c, repo)) /\ IsSeq(q)
  BY DEF Safe
<1>4. RefOf(TunnelType(p.k)) \subseteq l
  OBVIOUS
<1> HIDE DEF u, l
<1>5. SafeAny(p, v, up, low) /\ SafeAny(p, v, u, l)
  BY <1>1, <1>4, BrokenSafe
<1>6. Within(p, up, repo) /\ Within(p, u, NotedType(c, repo))
  BY <1>1, <1>2 DEF Within, Repos
<1> HIDE DEF v
<1>7. Safe(p, <<e>> \o q, u, l, NotedType(c, repo))
  BY <1>1, <1>3, <1>5, <1>6, MainReady
<1>8. Safe(p, <<s>> \o (<<e>> \o q), up, low, repo)
  <2> DEFINE q2 == <<e>> \o q
  <2>1. Safe(p, q2, u, l, NotedType(c, repo))
    BY <1>7
  <2> HIDE DEF q2, e
  <2>2. Safe(p, <<s>> \o q2, up, low, repo)
    BY <1>1, <2>1, <1>5, <1>6, MainStart
  <2> QED BY <2>2 DEF q2
<1>9. Again(c) = <<s, e>>
  BY DEF Again, v
<1> HIDE DEF s, e
<1>10. <<s, e>> \o q = <<s>> \o (<<e>> \o q)
  BY <1>3, Cons2
<1> QED BY <1>8, <1>9, <1>10, Seq2

\* The three shapes of a restart.
LEMMA RestartOne ==
    ASSUME NEW p, NEW q, NEW up, NEW low, NEW repo \in Repos, NEW c \in Clients \cup Listeners,
           up \cup {c} \subseteq Taken(p.k), RefOf(TunnelType(p.k)) \subseteq low,
               c \notin Native, "profile" \in low,
           Safe(p, q, up \cup {c}, low \cup {c}, NotedType(c, repo))
    PROVE  Safe(p, Again(c) \o q, up, low, repo)
BY AgainSafe

\* The restart of a client and of the bridge in front of it.
LEMMA RestartTwo ==
    ASSUME NEW p, NEW q, NEW up, NEW low, NEW repo \in Repos,
           NEW b \in Clients, NEW c \in Listeners \ {"Doh", "TorSocks"},
           up \cup {b, c} \subseteq Taken(p.k), RefOf(TunnelType(p.k)) \subseteq low,
           b \in Native => Ref(b) \in low, "profile" \in low,
           Safe(p, q, up \cup {b, c}, low \cup {b, c}, NotedType(b, repo))
    PROVE  Safe(p, (Again(b) \o Again(c)) \o q, up, low, repo)
<1> DEFINE u == up \cup {b}
           l == low \cup {b}
<1>1. u \cup {c} = up \cup {b, c} /\ l \cup {c} = low \cup {b, c}
  OBVIOUS
<1>2. c \notin Native /\ \A r : NotedType(c, r) = r
  BY DEF Native, NotedType, Listeners
<1>3. NotedType(b, repo) \in Repos
  BY DEF NotedType, Repos, RepoTypes
<1>4. /\ u \cup {c} \subseteq Taken(p.k) /\ RefOf(TunnelType(p.k)) \subseteq l
      /\ Safe(p, q, u \cup {c}, l \cup {c}, NotedType(c, NotedType(b, repo)))
      /\ c \in Clients \cup Listeners /\ b \in Clients \cup Listeners
      /\ up \cup {b} \subseteq Taken(p.k) /\ IsSeq(q) /\ "profile" \in l
  BY <1>1, <1>2 DEF Safe
<1>5. Safe(p, Again(c) \o q, u, l, NotedType(b, repo)) /\ IsSeq(Again(c))
  <2> HIDE DEF u, l
  <2> QED BY <1>2, <1>3, <1>4, AgainSafe
<1>6. Safe(p, Again(b) \o (Again(c) \o q), up, low, repo) /\ IsSeq(Again(b))
  <2> DEFINE q2 == Again(c) \o q
  <2> HIDE DEF q2
  <2>1. Safe(p, q2, up \cup {b}, low \cup {b}, NotedType(b, repo))
    BY <1>5 DEF q2
  <2>2. Safe(p, Again(b) \o q2, up, low, repo) /\ IsSeq(Again(b))
    BY <1>4, <2>1, AgainSafe
  <2> QED BY <2>2 DEF q2
<1>7. (Again(b) \o Again(c)) \o q = Again(b) \o (Again(c) \o q)
  BY <1>4, <1>5, <1>6, Regroup, SMTT(40)
<1> QED BY <1>6, <1>7

\* The restart of a client, a note of the type, and the restart of SSH.
LEMMA RestartNoted ==
    ASSUME NEW p, NEW q, NEW up, NEW low, NEW repo \in Repos, NEW t \in RepoTypes,
           NEW b \in Clients, up \cup {b, "Ssh"} \subseteq Taken(p.k),
           RefOf(TunnelType(p.k)) \subseteq low, b \in Native => Ref(b) \in low, "profile" \in low,
           Safe(p, q, up \cup {b, "Ssh"}, low \cup {b, "Ssh"}, t)
    PROVE  Safe(p, ((Again(b) \o <<Do("repo", t)>>) \o Again("Ssh")) \o q, up, low, repo)
<1> DEFINE u == up \cup {b}
           l == low \cup {b}
           s == <<Do("repo", t)>>
           q2 == Again("Ssh") \o q
           q1 == s \o q2
<1>1. u \cup {"Ssh"} = up \cup {b, "Ssh"} /\ l \cup {"Ssh"} = low \cup {b, "Ssh"}
  OBVIOUS
<1>2. "Ssh" \notin Native /\ NotedType("Ssh", t) = t /\ t \in Repos
  BY DEF Native, NotedType, Repos
<1>3. NotedType(b, repo) \in Repos
  BY DEF NotedType, Repos, RepoTypes
<1>4. /\ u \cup {"Ssh"} \subseteq Taken(p.k) /\ RefOf(TunnelType(p.k)) \subseteq l
      /\ Safe(p, q, u \cup {"Ssh"}, l \cup {"Ssh"}, NotedType("Ssh", t))
      /\ "Ssh" \in Clients \cup Listeners /\ b \in Clients \cup Listeners
      /\ up \cup {b} \subseteq Taken(p.k) /\ IsSeq(q) /\ "profile" \in l
      /\ u \subseteq u /\ l \subseteq l /\ u \subseteq Taken(p.k)
  BY <1>1, <1>2 DEF Safe, Listeners
<1>5. Safe(p, q2, u, l, t) /\ IsSeq(Again("Ssh")) /\ IsSeq(q2)
  <2> HIDE DEF u, l
  <2>1. Safe(p, Again("Ssh") \o q, u, l, t) /\ IsSeq(Again("Ssh"))
    BY <1>2, <1>4, AgainSafe
  <2> QED BY <2>1 DEF Safe
<1>6. Within(p, u, NotedType(b, repo))
  BY <1>3, <1>4 DEF Within, Repos
<1>7. Safe(p, q1, u, l, NotedType(b, repo)) /\ IsSeq(s)
  <2> HIDE DEF u, l, q2
  <2> QED BY <1>4, <1>5, <1>6, RuleRepo, Seq1
<1>8. Safe(p, Again(b) \o q1, up, low, repo) /\ IsSeq(Again(b))
  <2> HIDE DEF q1
  <2>1. Safe(p, q1, up \cup {b}, low \cup {b}, NotedType(b, repo))
    BY <1>7
  <2> QED BY <1>4, <2>1, AgainSafe
<1> HIDE DEF s
<1>9. IsSeq(Again(b) \o s)
  BY <1>7, <1>8, ConcatIsSeq
<1>10. ((Again(b) \o s) \o Again("Ssh")) \o q = (Again(b) \o s) \o q2
  BY <1>4, <1>5, <1>9, Regroup, SMTT(40)
<1> HIDE DEF q2
<1>11. (Again(b) \o s) \o q2 = Again(b) \o q1
  BY <1>5, <1>7, <1>8, Regroup, SMTT(40)
<1> QED BY <1>8, <1>10, <1>11 DEF s

\* What is up and what is held between the stop and the restart.
Down(t) == RefOf(t) \cup {"Hev", "tun", "profile"}
Kept(t) == RefOf(t) \cup {"profile"}

\* A restart of one component is a sequence.
LEMMA AgainIsSeq ==
    ASSUME NEW c
    PROVE  IsSeq(Again(c))
BY Seq2 DEF Again

\* The restart of SLIPSTREAM.
LEMMA RestartSlipstream ==
    ASSUME NEW p, p.k = "SLIPSTREAM", NEW r \in Repos
    PROVE  /\ IsSeq(restart("SLIPSTREAM"))
           /\ Safe(p, restart("SLIPSTREAM") \o (Retun \o Finish), Down("SLIPSTREAM"),
                  Kept("SLIPSTREAM"), r)
<1> DEFINE q == Retun \o Finish
           u == Down("SLIPSTREAM")
           l == Kept("SLIPSTREAM")
           u2 == {"profile", "tun", "SlipstreamRef", "Hev", "Slipstream", "SlipstreamSocks"}
           l2 == {"profile", "SlipstreamRef", "Slipstream", "SlipstreamSocks"}
           n == RefOf("SLIPSTREAM")
<1>1. /\ TunnelType(p.k) = "SLIPSTREAM" /\ u2 \subseteq Taken(p.k) /\ "profile" \in l2 /\ n \subseteq l2
      /\ Needs(p.k) \subseteq l2 /\ n \cap Components = {}
      /\ u \cup {"Slipstream", "SlipstreamSocks"} = u2 /\ l \cup {"Slipstream",
             "SlipstreamSocks"} = l2 /\ n \subseteq l
      /\ "profile" \in l
  BY DEF Taken, Returned, TunnelType, Parts, RefOf, Needs, Down, Kept, Components, Clients,
     Listeners
<1>2. "SLIPSTREAM" \in Repos
  BY DEF Repos, RepoTypes
<1>3. Undoes(p, RepoStopCurrentProxy("SLIPSTREAM"), n, u2, u2)
  <2>1. "SlipstreamSocks" \notin n /\ "Slipstream" \notin n /\ "SlipstreamSocks" \in Listeners
    BY DEF RefOf, Listeners
  <2>2. FrontFirst(p, "Slipstream", u2 \ {"SlipstreamSocks"})
    <3>1. (u2 \ {"SlipstreamSocks"}) \cap {"SlipstreamSocks", "Ssh"} = {}
      OBVIOUS
    <3> HIDE DEF u2
    <3> QED BY <3>1, FrontFirstClient
  <2> HIDE DEF u2, n
  <2>3. Undoes(p, <<Stop("SlipstreamSocks"), Stop("Slipstream")>>, n, u2, u2)
    BY <1>1, <2>1, <2>2, UndoRepoPair
  <2> QED BY <2>3 DEF RepoStopCurrentProxy
<1>4. Safe(p, q, u2, l2, "SLIPSTREAM")
  <2> HIDE DEF u2, l2
  <2> QED BY <1>1, <1>2, <1>3, RestartEnd
<1> HIDE DEF q, u, l, u2, l2
<1>5. /\ "Slipstream" \in Clients /\ "SlipstreamSocks" \in Listeners \ {"Doh",
             "TorSocks"} /\ NotedType("Slipstream", r) = "SLIPSTREAM"
      /\ "Slipstream" \in Native => Ref("Slipstream") \in l
  BY DEF Clients, Listeners, Native, NotedType, Ref, l, Kept, RefOf
<1>6. Safe(p, (Again("Slipstream") \o Again("SlipstreamSocks")) \o q, u, l, r)
  BY <1>1, <1>4, <1>5, RestartTwo
<1>7. restart("SLIPSTREAM") = Again("Slipstream") \o Again("SlipstreamSocks")
  BY DEF restart
<1>8. IsSeq(restart("SLIPSTREAM"))
  BY <1>7, AgainIsSeq, ConcatIsSeq
<1> QED BY <1>6, <1>7, <1>8 DEF q, u, l

\* The restart of DNSTT.
LEMMA RestartDnstt ==
    ASSUME NEW p, p.k = "DNSTT", p.lax, NEW r \in Repos
    PROVE  /\ IsSeq(restart("DNSTT"))
           /\ Safe(p, restart("DNSTT") \o (Retun \o Finish), Down("DNSTT"), Kept("DNSTT"), r)
<1> DEFINE q == Retun \o Finish
           u == Down("DNSTT")
           l == Kept("DNSTT")
           u2 == {"profile", "tun", "DnsttRef", "Hev", "Dnstt", "DnsttSocks"}
           l2 == {"profile", "DnsttRef", "Dnstt", "DnsttSocks"}
           n == RefOf("DNSTT")
<1>1. /\ TunnelType(p.k) = "DNSTT" /\ u2 \subseteq Taken(p.k) /\ "profile" \in l2 /\ n \subseteq l2
      /\ Needs(p.k) \subseteq l2 /\ n \cap Components = {}
      /\ u \cup {"Dnstt", "DnsttSocks"} = u2 /\ l \cup {"Dnstt", "DnsttSocks"} = l2 /\ n \subseteq l
      /\ "profile" \in l
  BY DEF Taken, Returned, TunnelType, Parts, RefOf, Needs, Down, Kept, Components, Clients,
     Listeners
<1>2. "DNSTT" \in Repos
  BY DEF Repos, RepoTypes
<1>3. Undoes(p, RepoStopCurrentProxy("DNSTT"), n, u2, u2)
  <2>1. "Dnstt" \notin n /\ u2 \ {"Dnstt"} \subseteq u2 /\ FrontFirst(p, "Dnstt", u2)
    BY DEF RefOf, FrontFirst, Components, Clients
  <2> HIDE DEF u2, n
  <2>2. Undoes(p, <<Stop("Dnstt")>>, n, u2, u2)
    BY <1>1, <2>1, UndoStop
  <2> QED BY <2>2 DEF RepoStopCurrentProxy
<1>4. Safe(p, q, u2, l2, "DNSTT")
  <2> HIDE DEF u2, l2
  <2> QED BY <1>1, <1>2, <1>3, RestartEnd
<1> HIDE DEF q, u, l, u2, l2
<1>5. /\ "Dnstt" \in Clients /\ "DnsttSocks" \in Listeners \ {"Doh",
             "TorSocks"} /\ NotedType("Dnstt", r) = "DNSTT"
      /\ "Dnstt" \in Native => Ref("Dnstt") \in l
  BY DEF Clients, Listeners, Native, NotedType, Ref, l, Kept, RefOf
<1>6. Safe(p, (Again("Dnstt") \o Again("DnsttSocks")) \o q, u, l, r)
  BY <1>1, <1>4, <1>5, RestartTwo
<1>7. restart("DNSTT") = Again("Dnstt") \o Again("DnsttSocks")
  BY DEF restart
<1>8. IsSeq(restart("DNSTT"))
  BY <1>7, AgainIsSeq, ConcatIsSeq
<1> QED BY <1>6, <1>7, <1>8 DEF q, u, l

\* The restart of VAYDNS.
LEMMA RestartVaydns ==
    ASSUME NEW p, p.k = "VAYDNS", p.lax, NEW r \in Repos
    PROVE  /\ IsSeq(restart("VAYDNS"))
           /\ Safe(p, restart("VAYDNS") \o (Retun \o Finish), Down("VAYDNS"), Kept("VAYDNS"), r)
<1> DEFINE q == Retun \o Finish
           u == Down("VAYDNS")
           l == Kept("VAYDNS")
           u2 == {"profile", "tun", "Hev", "Vaydns", "DnsttSocks"}
           l2 == {"profile", "Vaydns", "DnsttSocks"}
           n == RefOf("VAYDNS")
<1>1. /\ TunnelType(p.k) = "VAYDNS" /\ u2 \subseteq Taken(p.k) /\ "profile" \in l2 /\ n \subseteq l2
      /\ Needs(p.k) \subseteq l2 /\ n \cap Components = {}
      /\ u \cup {"Vaydns", "DnsttSocks"} = u2 /\ l \cup {"Vaydns",
             "DnsttSocks"} = l2 /\ n \subseteq l
      /\ "profile" \in l
  BY DEF Taken, Returned, TunnelType, Parts, RefOf, Needs, Down, Kept, Components, Clients,
     Listeners
<1>2. "VAYDNS" \in Repos
  BY DEF Repos, RepoTypes
<1>3. Undoes(p, RepoStopCurrentProxy("VAYDNS"), n, u2, u2)
  <2>1. "Vaydns" \notin n /\ u2 \ {"Vaydns"} \subseteq u2 /\ FrontFirst(p, "Vaydns", u2)
    BY DEF RefOf, FrontFirst, Components, Clients
  <2> HIDE DEF u2, n
  <2>2. Undoes(p, <<Stop("Vaydns")>>, n, u2, u2)
    BY <1>1, <2>1, UndoStop
  <2> QED BY <2>2 DEF RepoStopCurrentProxy
<1>4. Safe(p, q, u2, l2, "VAYDNS")
  <2> HIDE DEF u2, l2
  <2> QED BY <1>1, <1>2, <1>3, RestartEnd
<1> HIDE DEF q, u, l, u2, l2
<1>5. /\ "Vaydns" \in Clients /\ "DnsttSocks" \in Listeners \ {"Doh",
             "TorSocks"} /\ NotedType("Vaydns", r) = "VAYDNS"
      /\ "Vaydns" \in Native => Ref("Vaydns") \in l
  BY DEF Clients, Listeners, Native, NotedType, Ref, l, Kept, RefOf
<1>6. Safe(p, (Again("Vaydns") \o Again("DnsttSocks")) \o q, u, l, r)
  BY <1>1, <1>4, <1>5, RestartTwo
<1>7. restart("VAYDNS") = Again("Vaydns") \o Again("DnsttSocks")
  BY DEF restart
<1>8. IsSeq(restart("VAYDNS"))
  BY <1>7, AgainIsSeq, ConcatIsSeq
<1> QED BY <1>6, <1>7, <1>8 DEF q, u, l

\* The restart of NAIVE.
LEMMA RestartNaive ==
    ASSUME NEW p, p.k = "NAIVE", NEW r \in Repos
    PROVE  /\ IsSeq(restart("NAIVE"))
           /\ Safe(p, restart("NAIVE") \o (Retun \o Finish), Down("NAIVE"), Kept("NAIVE"), r)
<1> DEFINE q == Retun \o Finish
           u == Down("NAIVE")
           l == Kept("NAIVE")
           u2 == {"profile", "tun", "Hev", "Naive", "NaiveSocks"}
           l2 == {"profile", "Naive", "NaiveSocks"}
           n == RefOf("NAIVE")
<1>1. /\ TunnelType(p.k) = "NAIVE" /\ u2 \subseteq Taken(p.k) /\ "profile" \in l2 /\ n \subseteq l2
      /\ Needs(p.k) \subseteq l2 /\ n \cap Components = {}
      /\ u \cup {"Naive", "NaiveSocks"} = u2 /\ l \cup {"Naive", "NaiveSocks"} = l2 /\ n \subseteq l
      /\ "profile" \in l
  BY DEF Taken, Returned, TunnelType, Parts, RefOf, Needs, Down, Kept, Components, Clients,
     Listeners
<1>2. r \in Repos
  BY DEF Repos, RepoTypes
<1>3. Undoes(p, RepoStopCurrentProxy(r), n, u2, u2)
  <2>1. u2 \cap Clients \subseteq {"Naive"}
    BY DEF Clients
  <2> HIDE DEF u2, n
  <2> QED BY <1>1, <1>2, <2>1, UndoRepoAny
<1>4. Safe(p, q, u2, l2, r)
  <2> HIDE DEF u2, l2
  <2> QED BY <1>1, <1>2, <1>3, RestartEnd
<1> HIDE DEF q, u, l, u2, l2
<1>5. /\ "Naive" \in Clients /\ "NaiveSocks" \in Listeners \ {"Doh",
             "TorSocks"} /\ NotedType("Naive", r) = r
      /\ "Naive" \in Native => Ref("Naive") \in l
  BY DEF Clients, Listeners, Native, NotedType, Ref, l, Kept, RefOf
<1>6. Safe(p, (Again("Naive") \o Again("NaiveSocks")) \o q, u, l, r)
  BY <1>1, <1>4, <1>5, RestartTwo
<1>7. restart("NAIVE") = Again("Naive") \o Again("NaiveSocks")
  BY DEF restart
<1>8. IsSeq(restart("NAIVE"))
  BY <1>7, AgainIsSeq, ConcatIsSeq
<1> QED BY <1>6, <1>7, <1>8 DEF q, u, l

\* The restart of NAIVE_SSH.
LEMMA RestartNaiveSsh ==
    ASSUME NEW p, p.k = "NAIVE_SSH", NEW r \in Repos
    PROVE  /\ IsSeq(restart("NAIVE_SSH"))
           /\ Safe(p, restart("NAIVE_SSH") \o (Retun \o Finish), Down("NAIVE_SSH"),
                  Kept("NAIVE_SSH"), r)
<1> DEFINE q == Retun \o Finish
           u == Down("NAIVE_SSH")
           l == Kept("NAIVE_SSH")
           u2 == {"profile", "tun", "Hev", "Naive", "Ssh"}
           l2 == {"profile", "Naive", "Ssh"}
           n == RefOf("NAIVE_SSH")
<1>1. /\ TunnelType(p.k) = "NAIVE_SSH" /\ u2 \subseteq Taken(p.k) /\ "profile" \in l2 /\ n \subseteq l2
      /\ Needs(p.k) \subseteq l2 /\ n \cap Components = {}
      /\ u \cup {"Naive", "Ssh"} = u2 /\ l \cup {"Naive", "Ssh"} = l2 /\ n \subseteq l
      /\ "profile" \in l
  BY DEF Taken, Returned, TunnelType, Parts, RefOf, Needs, Down, Kept, Components, Clients,
     Listeners
<1>2. r \in Repos
  BY DEF Repos, RepoTypes
<1>3. Undoes(p, RepoStopCurrentProxy(r), n, u2, u2)
  <2>1. u2 \cap Clients \subseteq {"Naive"}
    BY DEF Clients
  <2> HIDE DEF u2, n
  <2> QED BY <1>1, <1>2, <2>1, UndoRepoAny
<1>4. Safe(p, q, u2, l2, r)
  <2> HIDE DEF u2, l2
  <2> QED BY <1>1, <1>2, <1>3, RestartEnd
<1> HIDE DEF q, u, l, u2, l2
<1>5. /\ "Naive" \in Clients /\ "Ssh" \in Listeners \ {"Doh", "TorSocks"} /\ NotedType("Naive",
             r) = r
      /\ "Naive" \in Native => Ref("Naive") \in l
  BY DEF Clients, Listeners, Native, NotedType, Ref, l, Kept, RefOf
<1>6. Safe(p, (Again("Naive") \o Again("Ssh")) \o q, u, l, r)
  BY <1>1, <1>4, <1>5, RestartTwo
<1>7. restart("NAIVE_SSH") = Again("Naive") \o Again("Ssh")
  BY DEF restart
<1>8. IsSeq(restart("NAIVE_SSH"))
  BY <1>7, AgainIsSeq, ConcatIsSeq
<1> QED BY <1>6, <1>7, <1>8 DEF q, u, l

\* The restart of SLIPSTREAM_SSH.
LEMMA RestartSlipstreamSsh ==
    ASSUME NEW p, p.k = "SLIPSTREAM_SSH", NEW r \in Repos
    PROVE  /\ IsSeq(restart("SLIPSTREAM_SSH"))
           /\ Safe(p, restart("SLIPSTREAM_SSH") \o (Retun \o Finish), Down("SLIPSTREAM_SSH"),
                  Kept("SLIPSTREAM_SSH"), r)
<1> DEFINE q == Retun \o Finish
           u == Down("SLIPSTREAM_SSH")
           l == Kept("SLIPSTREAM_SSH")
           u2 == {"profile", "tun", "SlipstreamRef", "Hev", "Slipstream", "Ssh"}
           l2 == {"profile", "SlipstreamRef", "Slipstream", "Ssh"}
           n == RefOf("SLIPSTREAM_SSH")
<1>1. /\ TunnelType(p.k) = "SLIPSTREAM_SSH" /\ u2 \subseteq Taken(p.k) /\ "profile" \in l2 /\ n \subseteq l2
      /\ Needs(p.k) \subseteq l2 /\ n \cap Components = {}
      /\ u \cup {"Slipstream", "Ssh"} = u2 /\ l \cup {"Slipstream", "Ssh"} = l2 /\ n \subseteq l
      /\ "profile" \in l
  BY DEF Taken, Returned, TunnelType, Parts, RefOf, Needs, Down, Kept, Components, Clients,
     Listeners
<1>2. "SLIPSTREAM_SSH" \in Repos
  BY DEF Repos, RepoTypes
<1>3. Undoes(p, RepoStopCurrentProxy("SLIPSTREAM_SSH"), n, u2, u2)
  <2>1. "Ssh" \notin n /\ "Slipstream" \notin n /\ "Ssh" \in Listeners
    BY DEF RefOf, Listeners
  <2>2. FrontFirst(p, "Slipstream", u2 \ {"Ssh"})
    <3>1. (u2 \ {"Ssh"}) \cap {"SlipstreamSocks", "Ssh"} = {}
      OBVIOUS
    <3> HIDE DEF u2
    <3> QED BY <3>1, FrontFirstClient
  <2> HIDE DEF u2, n
  <2>3. Undoes(p, <<Stop("Ssh"), Stop("Slipstream")>>, n, u2, u2)
    BY <1>1, <2>1, <2>2, UndoRepoPair
  <2> QED BY <2>3 DEF RepoStopCurrentProxy
<1>4. Safe(p, q, u2, l2, "SLIPSTREAM_SSH")
  <2> HIDE DEF u2, l2
  <2> QED BY <1>1, <1>2, <1>3, RestartEnd
<1> HIDE DEF q, u, l, u2, l2
<1>5. /\ "Slipstream" \in Clients /\ "SLIPSTREAM_SSH" \in RepoTypes
      /\ "Slipstream" \in Native => Ref("Slipstream") \in l
  BY DEF Clients, Native, Ref, l, Kept, RefOf, RepoTypes
<1>6. Safe(p, ((Again("Slipstream") \o <<Do("repo", "SLIPSTREAM_SSH")>>) \o Again("Ssh")) \o q, u,
          l, r)
  BY <1>1, <1>4, <1>5, RestartNoted
<1>7. restart("SLIPSTREAM_SSH") = (Again("Slipstream") \o <<Do("repo",
          "SLIPSTREAM_SSH")>>) \o Again("Ssh")
  BY DEF restart
<1>8. IsSeq((Again("Slipstream") \o <<Do("repo", "SLIPSTREAM_SSH")>>) \o Again("Ssh"))
  BY AgainIsSeq, Seq1, ConcatIsSeq
<1> QED BY <1>6, <1>7, <1>8 DEF q, u, l

\* The restart of DNSTT_SSH.
LEMMA RestartDnsttSsh ==
    ASSUME NEW p, p.k = "DNSTT_SSH", NEW r \in Repos
    PROVE  /\ IsSeq(restart("DNSTT_SSH"))
           /\ Safe(p, restart("DNSTT_SSH") \o (Retun \o Finish), Down("DNSTT_SSH"),
                  Kept("DNSTT_SSH"), r)
<1> DEFINE q == Retun \o Finish
           u == Down("DNSTT_SSH")
           l == Kept("DNSTT_SSH")
           u2 == {"profile", "tun", "DnsttRef", "Hev", "Dnstt", "Ssh"}
           l2 == {"profile", "DnsttRef", "Dnstt", "Ssh"}
           n == RefOf("DNSTT_SSH")
<1>1. /\ TunnelType(p.k) = "DNSTT_SSH" /\ u2 \subseteq Taken(p.k) /\ "profile" \in l2 /\ n \subseteq l2
      /\ Needs(p.k) \subseteq l2 /\ n \cap Components = {}
      /\ u \cup {"Dnstt", "Ssh"} = u2 /\ l \cup {"Dnstt", "Ssh"} = l2 /\ n \subseteq l
      /\ "profile" \in l
  BY DEF Taken, Returned, TunnelType, Parts, RefOf, Needs, Down, Kept, Components, Clients,
     Listeners
<1>2. "DNSTT_SSH" \in Repos
  BY DEF Repos, RepoTypes
<1>3. Undoes(p, RepoStopCurrentProxy("DNSTT_SSH"), n, u2, u2)
  <2>1. "Ssh" \notin n /\ "Dnstt" \notin n /\ "Ssh" \in Listeners
    BY DEF RefOf, Listeners
  <2>2. FrontFirst(p, "Dnstt", u2 \ {"Ssh"})
    <3>1. (u2 \ {"Ssh"}) \cap {"DnsttSocks", "Ssh"} = {}
      OBVIOUS
    <3> HIDE DEF u2
    <3> QED BY <3>1, FrontFirstClient
  <2> HIDE DEF u2, n
  <2>3. Undoes(p, <<Stop("Ssh"), Stop("Dnstt")>>, n, u2, u2)
    BY <1>1, <2>1, <2>2, UndoRepoPair
  <2> QED BY <2>3 DEF RepoStopCurrentProxy
<1>4. Safe(p, q, u2, l2, "DNSTT_SSH")
  <2> HIDE DEF u2, l2
  <2> QED BY <1>1, <1>2, <1>3, RestartEnd
<1> HIDE DEF q, u, l, u2, l2
<1>5. /\ "Dnstt" \in Clients /\ "DNSTT_SSH" \in RepoTypes
      /\ "Dnstt" \in Native => Ref("Dnstt") \in l
  BY DEF Clients, Native, Ref, l, Kept, RefOf, RepoTypes
<1>6. Safe(p, ((Again("Dnstt") \o <<Do("repo", "DNSTT_SSH")>>) \o Again("Ssh")) \o q, u, l, r)
  BY <1>1, <1>4, <1>5, RestartNoted
<1>7. restart("DNSTT_SSH") = (Again("Dnstt") \o <<Do("repo", "DNSTT_SSH")>>) \o Again("Ssh")
  BY DEF restart
<1>8. IsSeq((Again("Dnstt") \o <<Do("repo", "DNSTT_SSH")>>) \o Again("Ssh"))
  BY AgainIsSeq, Seq1, ConcatIsSeq
<1> QED BY <1>6, <1>7, <1>8 DEF q, u, l

\* The restart of VAYDNS_SSH.
LEMMA RestartVaydnsSsh ==
    ASSUME NEW p, p.k = "VAYDNS_SSH", NEW r \in Repos
    PROVE  /\ IsSeq(restart("VAYDNS_SSH"))
           /\ Safe(p, restart("VAYDNS_SSH") \o (Retun \o Finish), Down("VAYDNS_SSH"),
                  Kept("VAYDNS_SSH"), r)
<1> DEFINE q == Retun \o Finish
           u == Down("VAYDNS_SSH")
           l == Kept("VAYDNS_SSH")
           u2 == {"profile", "tun", "Hev", "Vaydns", "Ssh"}
           l2 == {"profile", "Vaydns", "Ssh"}
           n == RefOf("VAYDNS_SSH")
<1>1. /\ TunnelType(p.k) = "VAYDNS_SSH" /\ u2 \subseteq Taken(p.k) /\ "profile" \in l2 /\ n \subseteq l2
      /\ Needs(p.k) \subseteq l2 /\ n \cap Components = {}
      /\ u \cup {"Vaydns", "Ssh"} = u2 /\ l \cup {"Vaydns", "Ssh"} = l2 /\ n \subseteq l
      /\ "profile" \in l
  BY DEF Taken, Returned, TunnelType, Parts, RefOf, Needs, Down, Kept, Components, Clients,
     Listeners
<1>2. "VAYDNS_SSH" \in Repos
  BY DEF Repos, RepoTypes
<1>3. Undoes(p, RepoStopCurrentProxy("VAYDNS_SSH"), n, u2, u2)
  <2>1. "Ssh" \notin n /\ "Vaydns" \notin n /\ "Ssh" \in Listeners
    BY DEF RefOf, Listeners
  <2>2. FrontFirst(p, "Vaydns", u2 \ {"Ssh"})
    <3>1. (u2 \ {"Ssh"}) \cap {"DnsttSocks", "Ssh"} = {}
      OBVIOUS
    <3> HIDE DEF u2
    <3> QED BY <3>1, FrontFirstClient
  <2> HIDE DEF u2, n
  <2>3. Undoes(p, <<Stop("Ssh"), Stop("Vaydns")>>, n, u2, u2)
    BY <1>1, <2>1, <2>2, UndoRepoPair
  <2> QED BY <2>3 DEF RepoStopCurrentProxy
<1>4. Safe(p, q, u2, l2, "VAYDNS_SSH")
  <2> HIDE DEF u2, l2
  <2> QED BY <1>1, <1>2, <1>3, RestartEnd
<1> HIDE DEF q, u, l, u2, l2
<1>5. /\ "Vaydns" \in Clients /\ "VAYDNS_SSH" \in RepoTypes
      /\ "Vaydns" \in Native => Ref("Vaydns") \in l
  BY DEF Clients, Native, Ref, l, Kept, RefOf, RepoTypes
<1>6. Safe(p, ((Again("Vaydns") \o <<Do("repo", "VAYDNS_SSH")>>) \o Again("Ssh")) \o q, u, l, r)
  BY <1>1, <1>4, <1>5, RestartNoted
<1>7. restart("VAYDNS_SSH") = (Again("Vaydns") \o <<Do("repo", "VAYDNS_SSH")>>) \o Again("Ssh")
  BY DEF restart
<1>8. IsSeq((Again("Vaydns") \o <<Do("repo", "VAYDNS_SSH")>>) \o Again("Ssh"))
  BY AgainIsSeq, Seq1, ConcatIsSeq
<1> QED BY <1>6, <1>7, <1>8 DEF q, u, l

\* The restart of SSH.
LEMMA RestartSsh ==
    ASSUME NEW p, p.k = "SSH", NEW r \in Repos
    PROVE  /\ IsSeq(restart("SSH"))
           /\ Safe(p, restart("SSH") \o (Retun \o Finish), Down("SSH"), Kept("SSH"), r)
<1> DEFINE q == Retun \o Finish
           u == Down("SSH")
           l == Kept("SSH")
           u2 == {"profile", "tun", "Hev", "Ssh"}
           l2 == {"profile", "Ssh"}
           n == RefOf("SSH")
<1>1. /\ TunnelType(p.k) = "SSH" /\ u2 \subseteq Taken(p.k) /\ "profile" \in l2 /\ n \subseteq l2
      /\ Needs(p.k) \subseteq l2 /\ n \cap Components = {}
      /\ u \cup {"Ssh"} = u2 /\ l \cup {"Ssh"} = l2 /\ n \subseteq l
      /\ "profile" \in l
  BY DEF Taken, Returned, TunnelType, Parts, RefOf, Needs, Down, Kept, Components, Clients,
     Listeners
<1>2. r \in Repos
  BY DEF Repos, RepoTypes
<1>3. Undoes(p, RepoStopCurrentProxy(r), n, u2, u2)
  <2>1. u2 \cap Clients \subseteq {"Naive"}
    BY DEF Clients
  <2> HIDE DEF u2, n
  <2> QED BY <1>1, <1>2, <2>1, UndoRepoAny
<1>4. Safe(p, q, u2, l2, r)
  <2> HIDE DEF u2, l2
  <2> QED BY <1>1, <1>2, <1>3, RestartEnd
<1> HIDE DEF q, u, l, u2, l2
<1>5. "Ssh" \in Clients \cup Listeners /\ "Ssh" \notin Native /\ NotedType("Ssh", r) = r
  BY DEF Clients, Listeners, Native, NotedType
<1>6. Safe(p, Again("Ssh") \o q, u, l, r)
  BY <1>1, <1>4, <1>5, RestartOne
<1>7. restart("SSH") = Again("Ssh")
  BY DEF restart
<1>8. IsSeq(restart("SSH"))
  BY <1>7, AgainIsSeq, ConcatIsSeq
<1> QED BY <1>6, <1>7, <1>8 DEF q, u, l

\* The restart of DOH.
LEMMA RestartDoh ==
    ASSUME NEW p, p.k = "DOH", NEW r \in Repos
    PROVE  /\ IsSeq(restart("DOH"))
           /\ Safe(p, restart("DOH") \o (Retun \o Finish), Down("DOH"), Kept("DOH"), r)
<1> DEFINE q == Retun \o Finish
           u == Down("DOH")
           l == Kept("DOH")
           u2 == {"profile", "tun", "Hev", "Doh"}
           l2 == {"profile", "Doh"}
           n == RefOf("DOH")
<1>1. /\ TunnelType(p.k) = "DOH" /\ u2 \subseteq Taken(p.k) /\ "profile" \in l2 /\ n \subseteq l2
      /\ Needs(p.k) \subseteq l2 /\ n \cap Components = {}
      /\ u \cup {"Doh"} = u2 /\ l \cup {"Doh"} = l2 /\ n \subseteq l
      /\ "profile" \in l
  BY DEF Taken, Returned, TunnelType, Parts, RefOf, Needs, Down, Kept, Components, Clients,
     Listeners
<1>2. "DOH" \in Repos
  BY DEF Repos, RepoTypes
<1>3. Undoes(p, RepoStopCurrentProxy("DOH"), n, u2, u2)
  <2>1. u2 \cap Clients \subseteq {"Naive"}
    BY DEF Clients
  <2> HIDE DEF u2, n
  <2> QED BY <1>1, <1>2, <2>1, UndoRepoAny
<1>4. Safe(p, q, u2, l2, "DOH")
  <2> HIDE DEF u2, l2
  <2> QED BY <1>1, <1>2, <1>3, RestartEnd
<1> HIDE DEF q, u, l, u2, l2
<1>5. "Doh" \in Clients \cup Listeners /\ "Doh" \notin Native /\ NotedType("Doh", r) = "DOH"
  BY DEF Clients, Listeners, Native, NotedType
<1>6. Safe(p, Again("Doh") \o q, u, l, r)
  BY <1>1, <1>4, <1>5, RestartOne
<1>7. restart("DOH") = Again("Doh")
  BY DEF restart
<1>8. IsSeq(restart("DOH"))
  BY <1>7, AgainIsSeq, ConcatIsSeq
<1> QED BY <1>6, <1>7, <1>8 DEF q, u, l

\* The kinds whose restart waits for the proxy port only.  Nothing listens there
\* any more, unless a component was started that up does not see.
LEMMA RestartPort ==
    ASSUME NEW p, p.k \in PortOnly, NEW r \in Repos, NEW t, t = TunnelType(p.k)
    PROVE  /\ IsSeq(restart(t))
           /\ Safe(p, restart(t) \o (Retun \o Finish), Down(t), Kept(t), r)
<1> DEFINE q == Retun \o Finish
           u == Down(t)
           l == Kept(t)
           n == RefOf(t)
           v == <<Broken>>
<1>1. restart(t) = <<Try("ready", "proxyPort", v)>>
  BY DEF restart, WaitPort, TunnelType, PortOnly
<1>2. /\ u \subseteq Taken(p.k) /\ "profile" \in l /\ n \subseteq l /\ n \cap Components = {}
      /\ u \cap Clients \subseteq {"Naive"} /\ u \cap Listeners = {}
      /\ u \subseteq u /\ l \subseteq l
  BY DEF Taken, Returned, TunnelType, PortOnly, RefOf, Down, Kept, Components, Clients, Listeners
<1>3. Within(p, u, r)
  BY <1>2 DEF Within, Repos
<1>4. IsSeq(q)
  BY Seq1, ConcatIsSeq DEF Retun, Finish
<1> HIDE DEF u, l
<1>5. SafeAny(p, v, u, l)
  BY <1>2, BrokenSafe
<1> HIDE DEF n, v
<1>6. Safe(p, v, u, l, r)
  BY <1>5 DEF SafeAny
<1>7. Safe(p, <<Try("ready", "proxyPort", v)>> \o q, u, l, r)
  <2>1. CASE p.loose
    <3>1. Undoes(p, RepoStopCurrentProxy(r), n, u, u)
      BY <1>2, UndoRepoAny
    <3>2. Safe(p, q, u, l, r)
      BY <1>2, <2>1, <3>1, RestartEnd DEF n
    <3> HIDE DEF q
    <3> QED BY <1>2, <1>3, <1>5, <3>2, MainReady
  <2>2. CASE ~p.loose
    <3> HIDE DEF q
    <3> QED BY <1>2, <1>3, <1>4, <1>6, <2>2, RulePort
  <2> QED BY <2>1, <2>2
<1>8. IsSeq(restart(t))
  BY <1>1, Seq1
<1> QED BY <1>1, <1>7, <1>8 DEF u, l

\* The restart of Snowflake and its bridge, with the wait for Tor at the end.
LEMMA RestartSnowflake ==
    ASSUME NEW p, p.k \in {"SNOWFLAKE", "SNOWFLAKE_SMART"}, NEW r \in Repos
    PROVE  /\ IsSeq(restart("SNOWFLAKE"))
           /\ Safe(p, restart("SNOWFLAKE") \o (Retun \o (<<Try("ready", "Snowflake",
                  <<Broken>>)>> \o Finish)),
                   Down("SNOWFLAKE"), Kept("SNOWFLAKE"), r)
<1> DEFINE v == <<Broken>>
           b == <<Stop("Snowflake")>> \o v
           e0 == Try("start", "Snowflake", v)
           e1 == Try("start", "TorSocks", b)
           e2 == Try("ready", "proxyPort", v)
           e3 == Try("retun", "-", v)
           e4 == Try("ready", "Snowflake", v)
           f == Finish
           m4 == <<e4>> \o f
           m3 == <<e3>> \o m4
           m2 == <<e2>> \o m3
           m1 == <<e1>> \o m2
           m0 == <<e0>> \o m1
           n == RefOf("SNOWFLAKE")
           u0 == {"Hev", "tun", "profile"}
           u1 == {"Hev", "tun", "profile", "Snowflake"}
           u2 == {"Hev", "tun", "profile", "Snowflake", "TorSocks"}
           l0 == {"profile"}
           l1 == {"profile", "Snowflake"}
           l2 == {"profile", "Snowflake", "TorSocks"}
           t == "SNOWFLAKE"
<1>1. Down(t) = u0 /\ Kept(t) = l0 /\ TunnelType(p.k) = t /\ n = {}
  BY DEF Down, Kept, RefOf, TunnelType
<1>2. /\ u0 \subseteq Taken(p.k) /\ u1 \subseteq Taken(p.k) /\ u2 \subseteq Taken(p.k)
      /\ Needs(p.k) \subseteq l2 /\ "profile" \in l2 /\ "profile" \in l1 /\ "profile" \in l0
      /\ u2 \subseteq u2 /\ l2 \subseteq l2 /\ u1 \subseteq u1 /\ u0 \subseteq u0 /\ u2 \ {"Hev"} \subseteq u2
      /\ u1 \cup {"TorSocks"} \subseteq u2 /\ l2 \subseteq l1 \cup {"TorSocks"}
      /\ u0 \cup {"Snowflake"} \subseteq u1 /\ l1 \subseteq l0 \cup {"Snowflake"}
      /\ u1 \ {"Snowflake"} \subseteq u1 /\ "TorSocks" \notin u1 /\ u2 \cap {"TorSocks"} = {"TorSocks"}
  BY DEF Taken, Returned, Parts, RefOf, TunnelType, Needs
<1>3. /\ n \subseteq l0 /\ n \subseteq l1 /\ n \subseteq l2 /\ n \subseteq l2 \ {"Hev"}
      /\ "Snowflake" \notin n /\ "TorSocks" \notin n
  BY <1>1
<1>4. FrontFirst(p, "Snowflake", u1) /\ FrontFirst(p, "Snowflake", u2 \ {"TorSocks"})
  <2>1. "TorSocks" \notin u2 \ {"TorSocks"}
    OBVIOUS
  <2> HIDE DEF u1, u2
  <2> QED BY <1>2, <2>1, FrontFirstClient
<1>5. \A s \in Repos : Within(p, u0, s) /\ Within(p, u1, s) /\ Within(p, u2, s)
  BY <1>2 DEF Within, Repos
<1>6. t \in Repos /\ NotedType("Snowflake", r) = r /\ NotedType("TorSocks", r) = t
  BY DEF Repos, RepoTypes, NotedType
<1>7. /\ "Snowflake" \in Clients \cup Listeners /\ "TorSocks" \in Clients \cup Listeners
      /\ "TorSocks" \in Listeners /\ "Snowflake" \notin Native /\ "TorSocks" \notin Native
  BY DEF Clients, Listeners, Native
<1> HIDE DEF u0, u1, u2, l0, l1, l2, n, t
<1>8. RefOf(TunnelType(p.k)) = n
  BY <1>1 DEF n, t
<1>9. SafeAny(p, v, u0, n) /\ SafeAny(p, v, u1, n) /\ SafeAny(p, v, u2, n)
  <2>1. n \subseteq n
    OBVIOUS
  <2> QED BY <1>2, <1>8, <2>1, BrokenSafe
<1>10. SafeAny(p, b, u1, n)
  <2>1. Undoes(p, <<Stop("Snowflake")>>, n, u1, u1)
    BY <1>2, <1>3, <1>4, UndoStop
  <2> HIDE DEF v
  <2> QED BY <1>9, <2>1, UndoApply
<1>11. SafeAny(p, RepoStopCurrentProxy(t) \o v, u2, n)
  <2>1. Undoes(p, <<Stop("TorSocks"), Stop("Snowflake")>>, n, u2, u2)
    BY <1>2, <1>3, <1>4, <1>7, UndoRepoPair
  <2>2. Undoes(p, RepoStopCurrentProxy(t), n, u2, u2)
    BY <2>1 DEF RepoStopCurrentProxy, t
  <2> HIDE DEF v
  <2> QED BY <1>9, <2>2, UndoApply
<1> HIDE DEF v, b
<1>12. Safe(p, f, u2, l2, t)
  BY <1>2, <1>3, <1>5, <1>6, <1>8, RuleFinish DEF Finish
<1> HIDE DEF f
<1>13. Safe(p, m4, u2, l2, t)
  BY <1>2, <1>3, <1>5, <1>6, <1>9, <1>12, MainReady
<1>14. Safe(p, m3, u2, l2, t)
  <2> HIDE DEF m4
  <2> QED BY <1>2, <1>3, <1>5, <1>6, <1>11, <1>13, MainRetun
<1>15. Safe(p, m2, u2, l2, t)
  <2> HIDE DEF m3
  <2> QED BY <1>2, <1>3, <1>5, <1>6, <1>9, <1>14, MainReady
<1>16. Safe(p, m1, u1, l1, r)
  <2> HIDE DEF m2
  <2> QED BY <1>2, <1>3, <1>5, <1>6, <1>7, <1>10, <1>15, MainStart
<1>17. Safe(p, m0, u0, l0, r)
  <2> HIDE DEF m1
  <2> QED BY <1>2, <1>3, <1>5, <1>6, <1>7, <1>9, <1>16, MainStart
<1>18. restart("SNOWFLAKE") = <<e0, e1>> \o <<e2>> /\ Retun = <<e3>>
  BY DEF restart, startSnowflakeProxy, WaitPort, Retun, v, b
<1>19. IsSeq(m3)
  BY <1>14 DEF Safe
<1> HIDE DEF e0, e1, e2, e3, e4, m3
<1>20. IsSeq(<<e0, e1>>) /\ IsSeq(<<e2>>) /\ IsSeq(m2)
  BY <1>15, Seq1, Seq2 DEF Safe
<1>21. IsSeq(<<e0, e1>> \o <<e2>>)
  BY <1>20, ConcatIsSeq
<1>22. (<<e0, e1>> \o <<e2>>) \o m3 = <<e0, e1>> \o m2
  BY <1>19, <1>20, Regroup, SMTT(40)
<1> HIDE DEF m2
<1>23. <<e0, e1>> \o m2 = m0
  BY <1>20, Cons2
<1>24. Safe(p, (<<e0, e1>> \o <<e2>>) \o m3, u0, l0, r)
  BY <1>17, <1>22, <1>23
<1>25. m3 = Retun \o (<<Try("ready", "Snowflake", <<Broken>>)>> \o Finish)
  BY <1>18 DEF m3, e4, f, v
<1> HIDE DEF m0
<1> QED BY <1>1, <1>18, <1>21, <1>24, <1>25 DEF t

\* What follows the restart of the proxy.
RestartTail(t) ==
    Retun
    \o ((IF t = "SNOWFLAKE" THEN <<Try("ready", "Snowflake", <<Broken>>)>> ELSE <<>>) \o Finish)

\* Whatever the profile, its restart is safe ...
LEMMA RestartSafe ==
    ASSUME NEW p, p.k \in AllKinds, p.k \in BridgeForgotten => p.lax, NEW r \in Repos,
           NEW t, t = TunnelType(p.k)
    PROVE  /\ IsSeq(restart(t))
           /\ Safe(p, restart(t) \o RestartTail(t), Down(t), Kept(t), r)
<1>1. CASE t # "SNOWFLAKE"
  <2>1. RestartTail(t) = Retun \o Finish
    <3>1. Finish \in Seq({Do("finish", "-")})
      BY DEF Finish
    <3>2. <<>> \o Finish = Finish
      BY <3>1, ConcatEmptySeq
    <3> QED BY <1>1, <3>2 DEF RestartTail
  <2>2. IsSeq(restart(t)) /\ Safe(p, restart(t) \o (Retun \o Finish), Down(t), Kept(t), r)
    <3>1. CASE p.k = "SLIPSTREAM"
      <4>1. t = "SLIPSTREAM"
        BY <3>1 DEF TunnelType
      <4> QED BY <3>1, <4>1, RestartSlipstream
    <3>2. CASE p.k = "SLIPSTREAM_SSH"
      <4>1. t = "SLIPSTREAM_SSH"
        BY <3>2 DEF TunnelType
      <4> QED BY <3>2, <4>1, RestartSlipstreamSsh
    <3>3. CASE p.k = "DNSTT"
      <4>1. t = "DNSTT" /\ p.lax
        BY <3>3 DEF TunnelType, BridgeForgotten
      <4> QED BY <3>3, <4>1, RestartDnstt
    <3>4. CASE p.k = "DNSTT_SSH"
      <4>1. t = "DNSTT_SSH"
        BY <3>4 DEF TunnelType
      <4> QED BY <3>4, <4>1, RestartDnsttSsh
    <3>5. CASE p.k = "VAYDNS"
      <4>1. t = "VAYDNS" /\ p.lax
        BY <3>5 DEF TunnelType, BridgeForgotten
      <4> QED BY <3>5, <4>1, RestartVaydns
    <3>6. CASE p.k = "VAYDNS_SSH"
      <4>1. t = "VAYDNS_SSH"
        BY <3>6 DEF TunnelType
      <4> QED BY <3>6, <4>1, RestartVaydnsSsh
    <3>7. CASE p.k = "SSH"
      <4>1. t = "SSH"
        BY <3>7 DEF TunnelType
      <4> QED BY <3>7, <4>1, RestartSsh
    <3>8. CASE p.k = "DOH"
      <4>1. t = "DOH"
        BY <3>8 DEF TunnelType
      <4> QED BY <3>8, <4>1, RestartDoh
    <3>9. CASE p.k = "NAIVE"
      <4>1. t = "NAIVE"
        BY <3>9 DEF TunnelType
      <4> QED BY <3>9, <4>1, RestartNaive
    <3>10. CASE p.k = "NAIVE_SSH"
      <4>1. t = "NAIVE_SSH"
        BY <3>10 DEF TunnelType
      <4> QED BY <3>10, <4>1, RestartNaiveSsh
    <3>11. CASE p.k \in PortOnly
      BY <3>11, RestartPort
    <3>12. p.k \notin {"SNOWFLAKE", "SNOWFLAKE_SMART"}
      BY <1>1 DEF TunnelType
    <3> QED BY <3>1, <3>2, <3>3, <3>4, <3>5, <3>6, <3>7, <3>8, <3>9, <3>10, <3>11,
                   <3>12 DEF AllKinds, PortOnly
  <2> QED BY <2>1, <2>2
<1>2. CASE t = "SNOWFLAKE"
  <2>1. p.k \in {"SNOWFLAKE", "SNOWFLAKE_SMART"}
    BY <1>2 DEF TunnelType
  <2>2. RestartTail(t) = Retun \o (<<Try("ready", "Snowflake", <<Broken>>)>> \o Finish)
    BY <1>2 DEF RestartTail
  <2> DEFINE z == Retun \o (<<Try("ready", "Snowflake", <<Broken>>)>> \o Finish)
  <2>3. IsSeq(restart(t)) /\ Safe(p, restart(t) \o z, Down(t), Kept(t), r)
    BY <1>2, <2>1, RestartSnowflake
  <2>4. RestartTail(t) = z
    BY <2>2
  <2> HIDE DEF z
  <2> QED BY <2>3, <2>4
<1> QED BY <1>1, <1>2

\* ... and so is handleNetworkChange() as a whole, from any state of a connection.
LEMMA NetworkChangeSafe ==
    ASSUME NEW p, p.k \in AllKinds, p.k \in BridgeForgotten => p.lax, NEW r \in Repos,
           NEW t, t = TunnelType(p.k)
    PROVE  Safe(p, HandleNetworkChange(t), Returned(t), Kept(t), r)
<1> DEFINE A == StopCurrentProxy(t)
           B == DrainPort(t)
           C == restart(t)
           X == IF t = "SNOWFLAKE" THEN <<Try("ready", "Snowflake", <<Broken>>)>> ELSE <<>>
           q3 == C \o RestartTail(t)
           q2 == B \o q3
           u == Down(t)
           l == Kept(t)
           N == {"Http"} \cup Parts(t)
<1>1. t \in Types
  BY DEF TunnelType, Types, AllKinds
<1>2. IsSeq(C) /\ Safe(p, q3, u, l, r)
  BY RestartSafe
<1>3. /\ u \subseteq Taken(p.k) /\ u \cap Clients = {} /\ l \cap Clients = {} /\ l \subseteq l
      /\ Returned(t) \subseteq Taken(p.k)
  BY DEF Down, Kept, Taken, Returned, Clients, RefOf
<1>4. Within(p, u, r) /\ Within(p, Returned(t), r)
  BY <1>3 DEF Within, Repos
<1> HIDE DEF q3, u, l
<1>5. ASSUME NEW c \in Clients PROVE Safe(p, <<Stop(c)>> \o q3, u, l, r)
  <2>1. c \in Components
    BY DEF Components
  <2> QED BY <1>2, <1>3, <1>4, <2>1, StopAnyway
<1>6. Safe(p, q2, u, l, r) /\ IsSeq(B)
  <2>1. CASE B = <<>>
    <3>1. IsSeq(q3)
      BY <1>2 DEF Safe
    <3>2. PICK S : q3 \in Seq(S)
      BY <3>1 DEF IsSeq
    <3>3. <<>> \o q3 = q3
      BY <3>2, ConcatEmptySeq
    <3> QED BY <1>2, <2>1, <3>3, Seq0
  <2>2. CASE \E c \in Clients : B = <<Stop(c)>>
    BY <1>5, <2>2, Seq1
  <2>3. B = <<>> \/ \E c \in Clients : B = <<Stop(c)>>
    BY DEF DrainPort, Clients
  <2> QED BY <2>1, <2>2, <2>3
<1>7. Returned(t) \ N \subseteq u /\ l \subseteq l \ N
  <2>1. N \subseteq Components /\ l \cap Components = {}
    BY <1>1 DEF Parts, Types, Components, Clients, Listeners, l, Kept, RefOf
  <2>2. Returned(t) \ N \subseteq u
    BY DEF Returned, u, Down
  <2> QED BY <2>1, <2>2
<1> HIDE DEF q2
<1>8. Safe(p, q2, Returned(t) \ N, l \ N, r)
  <2> HIDE DEF N
  <2> QED BY <1>6, <1>7, SafeWeaken
<1>9. Safe(p, A \o q2, Returned(t), l, r) /\ IsSeq(A)
  <2>1. Returned(t) \subseteq Returned(t)
    OBVIOUS
  <2> QED BY <1>1, <1>4, <1>8, <2>1, StopProxySafe
<1>10. IsSeq(X) /\ IsSeq(Retun) /\ IsSeq(Finish)
  BY Seq0, Seq1 DEF Retun, Finish
<1>11. HandleNetworkChange(t) = ((((A \o B) \o C) \o Retun) \o X) \o Finish
  BY DEF HandleNetworkChange, Retun, Finish
<1> HIDE DEF A, B, C, X
<1>12. RestartTail(t) = Retun \o (X \o Finish)
  BY DEF RestartTail, X
<1> DEFINE y1 == X \o Finish
           y2 == Retun \o y1
<1>13. IsSeq(y1) /\ IsSeq(A \o B)
  BY <1>6, <1>9, <1>10, ConcatIsSeq
<1>14. IsSeq(y2) /\ IsSeq((A \o B) \o C)
  <2> HIDE DEF y1
  <2> QED BY <1>2, <1>10, <1>13, ConcatIsSeq
<1>15. IsSeq(((A \o B) \o C) \o Retun) /\ IsSeq(C \o y2)
  <2> HIDE DEF y2
  <2> QED BY <1>2, <1>10, <1>14, ConcatIsSeq
<1>16. HandleNetworkChange(t) = (((A \o B) \o C) \o Retun) \o y1
  <2> DEFINE z == ((A \o B) \o C) \o Retun
  <2>1. IsSeq(z) /\ HandleNetworkChange(t) = (z \o X) \o Finish
    BY <1>11, <1>15
  <2> HIDE DEF z
  <2>2. (z \o X) \o Finish = z \o y1
    BY <2>1, <1>10, Regroup, SMTT(40)
  <2> QED BY <2>1, <2>2 DEF z
<1> HIDE DEF y1
<1>17. (((A \o B) \o C) \o Retun) \o y1 = ((A \o B) \o C) \o y2
  <2> DEFINE z == (A \o B) \o C
  <2>1. IsSeq(z)
    BY <1>14
  <2> HIDE DEF z
  <2>2. (z \o Retun) \o y1 = z \o y2
    BY <2>1, <1>10, <1>13, Regroup, SMTT(40)
  <2> QED BY <2>2 DEF z
<1> HIDE DEF y2
<1>18. ((A \o B) \o C) \o y2 = (A \o B) \o (C \o y2)
  BY <1>2, <1>13, <1>14, Regroup, SMTT(40)
<1>19. C \o y2 = q3
  BY <1>12 DEF q3, y2, y1, C
<1>20. (A \o B) \o q3 = A \o q2
  <2>1. IsSeq(q3)
    BY <1>2 DEF Safe
  <2> QED BY <1>6, <1>9, <2>1, Regroup, SMTT(40) DEF q2, A, B
<1>21. HandleNetworkChange(t) = A \o q2
  BY <1>16, <1>17, <1>18, <1>19, <1>20
<1> QED BY <1>9, <1>21 DEF l

\* Every connect function is safe from the state in which connect() accepts the
\* profile.
LEMMA ConnectSafe ==
    ASSUME NEW p, p.k \in AllKinds, p.k \in BridgeForgotten => p.lax, NEW r \in Repos
    PROVE  Safe(p, connectOf(p.k), RefOf(TunnelType(p.k)) \cup {"tun", "profile"}, {"profile"}, r)
<1>1. CASE p.k = "SLIPSTREAM"
  <2>1. RefOf(TunnelType(p.k)) \cup {"tun", "profile"} = {"profile", "tun", "SlipstreamRef"}
    BY <1>1 DEF RefOf, TunnelType
  <2> QED BY <1>1, <2>1, ConnectSlipstream
<1>2. CASE p.k = "SLIPSTREAM_SSH"
  <2>1. RefOf(TunnelType(p.k)) \cup {"tun", "profile"} = {"profile", "tun", "SlipstreamRef"}
    BY <1>2 DEF RefOf, TunnelType
  <2> QED BY <1>2, <2>1, ConnectSlipstreamSsh
<1>3. CASE p.k = "DNSTT"
  <2>1. RefOf(TunnelType(p.k)) \cup {"tun", "profile"} = {"profile", "tun", "DnsttRef"}
    BY <1>3 DEF RefOf, TunnelType
  <2> QED BY <1>3, <2>1, ConnectDnstt DEF BridgeForgotten
<1>4. CASE p.k = "DNSTT_SSH"
  <2>1. RefOf(TunnelType(p.k)) \cup {"tun", "profile"} = {"profile", "tun", "DnsttRef"}
    BY <1>4 DEF RefOf, TunnelType
  <2> QED BY <1>4, <2>1, ConnectDnsttSsh
<1>5. CASE p.k = "VAYDNS"
  <2>1. RefOf(TunnelType(p.k)) \cup {"tun", "profile"} = {"profile", "tun"}
    BY <1>5 DEF RefOf, TunnelType
  <2> QED BY <1>5, <2>1, ConnectVaydns DEF BridgeForgotten
<1>6. CASE p.k = "VAYDNS_SSH"
  <2>1. RefOf(TunnelType(p.k)) \cup {"tun", "profile"} = {"profile", "tun"}
    BY <1>6 DEF RefOf, TunnelType
  <2> QED BY <1>6, <2>1, ConnectVaydnsSsh
<1>7. CASE p.k = "SSH"
  <2>1. RefOf(TunnelType(p.k)) \cup {"tun", "profile"} = {"profile", "tun"}
    BY <1>7 DEF RefOf, TunnelType
  <2> QED BY <1>7, <2>1, ConnectSsh
<1>8. CASE p.k = "DOH"
  <2>1. RefOf(TunnelType(p.k)) \cup {"tun", "profile"} = {"profile", "tun"}
    BY <1>8 DEF RefOf, TunnelType
  <2> QED BY <1>8, <2>1, ConnectDoh
<1>9. CASE p.k = "NAIVE"
  <2>1. RefOf(TunnelType(p.k)) \cup {"tun", "profile"} = {"profile", "tun"}
    BY <1>9 DEF RefOf, TunnelType
  <2> QED BY <1>9, <2>1, ConnectNaive
<1>10. CASE p.k = "NAIVE_SSH"
  <2>1. RefOf(TunnelType(p.k)) \cup {"tun", "profile"} = {"profile", "tun"}
    BY <1>10 DEF RefOf, TunnelType
  <2> QED BY <1>10, <2>1, ConnectNaiveSsh
<1>11. CASE p.k = "SNOWFLAKE"
  <2>1. RefOf(TunnelType(p.k)) \cup {"tun", "profile"} = {"profile", "tun"}
    BY <1>11 DEF RefOf, TunnelType
  <2> QED BY <1>11, <2>1, ConnectSnowflake
<1>12. CASE p.k = "SNOWFLAKE_SMART"
  <2>1. RefOf(TunnelType(p.k)) \cup {"tun", "profile"} = {"profile", "tun"}
    BY <1>12 DEF RefOf, TunnelType
  <2> QED BY <1>12, <2>1, ConnectSnowflakeSmart
<1>13. CASE p.k = "SOCKS5"
  <2>1. RefOf(TunnelType(p.k)) \cup {"tun", "profile"} = {"profile", "tun"}
    BY <1>13 DEF RefOf, TunnelType
  <2> QED BY <1>13, <2>1, ConnectSocks5
<1>14. CASE p.k = "VLESS"
  <2>1. RefOf(TunnelType(p.k)) \cup {"tun", "profile"} = {"profile", "tun"}
    BY <1>14 DEF RefOf, TunnelType
  <2> QED BY <1>14, <2>1, ConnectVless
<1>15. CASE p.k = "VLESS_REALITY"
  <2>1. RefOf(TunnelType(p.k)) \cup {"tun", "profile"} = {"profile", "tun"}
    BY <1>15 DEF RefOf, TunnelType
  <2> QED BY <1>15, <2>1, ConnectVlessReality
<1>16. CASE p.k = "HYSTERIA2"
  <2>1. RefOf(TunnelType(p.k)) \cup {"tun", "profile"} = {"profile", "tun"}
    BY <1>16 DEF RefOf, TunnelType
  <2> QED BY <1>16, <2>1, ConnectHysteria2
<1> QED BY <1>1, <1>2, <1>3, <1>4, <1>5, <1>6, <1>7, <1>8, <1>9, <1>10, <1>11, <1>12, <1>13,
               <1>14, <1>15, <1>16 DEF AllKinds

-----------------------------------------------------------------------------
(* What a safe program may do next.                                        *)

\* The rest of a program that has been started.
Runs(p, q, up, low, repo) == \E X : Closed(p, X) /\ Covered(X, q, up, low, repo)

\* A safe program can be started.
LEMMA SafeRuns ==
    ASSUME NEW p, NEW q, NEW up, NEW low, NEW repo, Safe(p, q, up, low, repo)
    PROVE  Runs(p, q, up, low, repo)
BY DEF Safe, Runs

\* Tighter bounds keep a program safe.
LEMMA RunsWeaken ==
    ASSUME NEW p, NEW q, NEW up, NEW low, NEW repo, Runs(p, q, up, low, repo),
           NEW up1, NEW low1, up1 \subseteq up, low \subseteq low1
    PROVE  Runs(p, q, up1, low1, repo)
<1>1. PICK X : Closed(p, X) /\ Covered(X, q, up, low, repo)
  BY DEF Runs
<1>2. Covered(X, q, up1, low1, repo)
  BY <1>1 DEF Covered
<1> QED BY <1>1, <1>2 DEF Runs

\* Tighter bounds keep what the rules ask for.
LEMMA ReleaseShrinks ==
    ASSUME NEW p, NEW X, NEW s, NEW q, NEW repo, NEW u, NEW l,
           ReleaseOk(p, X, s, q, u, l, repo), NEW up, up \subseteq u, NEW low, l \subseteq low
    PROVE  ReleaseOk(p, X, s, q, up, low, repo)
<1>1. \A y, r, u1, l1, u2, l2 : u2 \subseteq u1 /\ l1 \subseteq l2 /\ Covered(X, y, u1, l1, r)
          => Covered(X, y, u2, l2, r)
  BY DEF Covered
<1>2. FrontFirst(p, s.c, u) => FrontFirst(p, s.c, up)
  BY DEF FrontFirst
<1>3. CASE s.op = "stop"
  <2>1. up \ {s.c} \subseteq u \ {s.c} /\ l \ {s.c} \subseteq low \ {s.c}
    OBVIOUS
  <2> QED BY <1>1, <1>2, <1>3, <2>1 DEF ReleaseOk
<1>4. CASE s.op = "unref"
  <2>1. up \ {Ref(s.c)} \subseteq u \ {Ref(s.c)} /\ l \ {Ref(s.c)} \subseteq low \ {Ref(s.c)}
    OBVIOUS
  <2> QED BY <1>1, <1>4, <2>1 DEF ReleaseOk
<1>5. CASE s.op = "close"
  <2>1. up \ {"tun"} \subseteq u \ {"tun"} /\ l \ {"tun"} \subseteq low \ {"tun"}
    OBVIOUS
  <2> QED BY <1>1, <1>5, <2>1 DEF ReleaseOk
<1>6. CASE s.op = "forget"
  BY <1>6 DEF ReleaseOk
<1> QED BY <1>3, <1>4, <1>5, <1>6 DEF ReleaseOk

\* The same for the steps that take something.
LEMMA AcquireShrinks ==
    ASSUME NEW p, NEW X, NEW s, NEW q, NEW repo, NEW u, NEW l,
           AcquireOk(p, X, s, q, u, l, repo), NEW up, up \subseteq u, NEW low, l \subseteq low
    PROVE  AcquireOk(p, X, s, q, up, low, repo)
<1>1. \A y, r, u1, l1, u2, l2 : u2 \subseteq u1 /\ l1 \subseteq l2 /\ Covered(X, y, u1, l1, r)
          => Covered(X, y, u2, l2, r)
  BY DEF Covered
<1>2. CASE s.op = "ref"
  <2>1. /\ up \subseteq u /\ l \subseteq low
        /\ up \cup {Ref(s.c)} \subseteq u \cup {Ref(s.c)} /\ l \cup {Ref(s.c)} \subseteq low \cup {Ref(s.c)}
        /\ up \ {Ref(s.c)} \subseteq u \ {Ref(s.c)} /\ l \ {Ref(s.c)} \subseteq low \ {Ref(s.c)}
    OBVIOUS
  <2> QED BY <1>1, <1>2, <2>1 DEF AcquireOk
<1>3. CASE s.op = "repo"
  <2>1. /\ up \subseteq u /\ l \subseteq low
    OBVIOUS
  <2> QED BY <1>1, <1>3, <2>1 DEF AcquireOk
<1>4. CASE s.op = "start"
  <2>1. /\ up \subseteq u /\ l \subseteq low
        /\ up \cup {s.c} \subseteq u \cup {s.c} /\ l \cup {s.c} \subseteq low \cup {s.c}
        /\ up \ {s.c} \subseteq u \ {s.c} /\ l \ {s.c} \subseteq low \ {s.c}
    OBVIOUS
  <2> QED BY <1>1, <1>4, <2>1 DEF AcquireOk
<1>5. CASE s.op = "ready"
  <2>1. /\ up \subseteq u /\ l \subseteq low
    OBVIOUS
  <2> QED BY <1>1, <1>5, <2>1 DEF AcquireOk
<1>6. CASE s.op = "tun"
  <2>1. /\ up \subseteq u /\ l \subseteq low
        /\ up \cup {"tun", "Http"} \subseteq u \cup {"tun", "Http"} /\ l \cup {"tun",
               "Http"} \subseteq low \cup {"tun", "Http"}
        /\ up \ {"tun", "Http"} \subseteq u \ {"tun", "Http"} /\ l \ {"tun",
               "Http"} \subseteq low \ {"tun", "Http"}
        /\ up \cup {"Http"} \subseteq u \cup {"Http"} /\ l \cup {"Http"} \subseteq low \cup {"Http"}
        /\ up \ {"Http"} \subseteq u \ {"Http"} /\ l \ {"Http"} \subseteq low \ {"Http"}
        /\ up \cup {"tun"} \subseteq u \cup {"tun"} /\ l \cup {"tun"} \subseteq low \cup {"tun"}
        /\ up \ {"tun"} \subseteq u \ {"tun"} /\ l \ {"tun"} \subseteq low \ {"tun"}
    OBVIOUS
  <2> QED BY <1>1, <1>6, <2>1 DEF AcquireOk
<1>7. CASE s.op = "hev"
  <2>1. /\ up \subseteq u /\ l \subseteq low
        /\ up \cup {"Hev"} \subseteq u \cup {"Hev"} /\ l \cup {"Hev"} \subseteq low \cup {"Hev"}
        /\ up \ {"Hev"} \subseteq u \ {"Hev"} /\ l \ {"Hev"} \subseteq low \ {"Hev"}
    OBVIOUS
  <2> QED BY <1>1, <1>7, <2>1 DEF AcquireOk
<1>8. CASE s.op = "retun"
  <2>1. /\ up \subseteq u /\ l \subseteq low
        /\ up \cup {"Hev"} \subseteq u \cup {"Hev"} /\ l \cup {"Hev"} \subseteq low \cup {"Hev"}
        /\ up \ {"Hev"} \subseteq u \ {"Hev"} /\ l \ {"Hev"} \subseteq low \ {"Hev"}
    OBVIOUS
  <2> QED BY <1>1, <1>8, <2>1 DEF AcquireOk
<1> QED BY <1>2, <1>3, <1>4, <1>5, <1>6, <1>7, <1>8 DEF AcquireOk

\* The same for the last steps.
LEMMA EndShrinks ==
    ASSUME NEW p, NEW s, NEW q, NEW u, NEW l, EndOk(p, s, q, u, l),
           NEW up, up \subseteq u, NEW low, l \subseteq low
    PROVE  EndOk(p, s, q, up, low)
BY DEF EndOk

\* A program that runs has a first step, and may take it.
LEMMA RunsStep ==
    ASSUME NEW p, NEW q, NEW up, NEW low, NEW repo, Runs(p, q, up, low, repo)
    PROVE  /\ q # <<>> /\ Within(p, up, repo)
           /\ \E X : /\ Closed(p, X)
                     /\ \/ ReleaseOk(p, X, Head(q), Tail(q), up, low, repo)
                        \/ AcquireOk(p, X, Head(q), Tail(q), up, low, repo)
                        \/ EndOk(p, Head(q), Tail(q), up, low)
<1>1. PICK X : Closed(p, X) /\ Covered(X, q, up, low, repo)
  BY DEF Runs
<1>2. PICK z \in X : z.q = q /\ up \subseteq z.up /\ z.low \subseteq low /\ z.repo = repo
  BY <1>1 DEF Covered
<1>3. StepOk(p, X, z)
  BY <1>1, <1>2 DEF Closed
<1>4. q # <<>> /\ Within(p, z.up, repo)
  BY <1>2, <1>3 DEF StepOk
<1>5. Within(p, up, repo)
  BY <1>2, <1>4 DEF Within
<1> DEFINE s == Head(q)
           t == Tail(q)
<1>6. \/ ReleaseOk(p, X, s, t, z.up, z.low, repo)
      \/ AcquireOk(p, X, s, t, z.up, z.low, repo)
      \/ EndOk(p, s, t, z.up, z.low)
  BY <1>2, <1>3 DEF StepOk
<1> HIDE DEF s, t
<1>7. \/ ReleaseOk(p, X, s, t, up, low, repo)
      \/ AcquireOk(p, X, s, t, up, low, repo)
      \/ EndOk(p, s, t, up, low)
  BY <1>2, <1>6, ReleaseShrinks, AcquireShrinks, EndShrinks
<1> QED BY <1>1, <1>4, <1>5, <1>7 DEF s, t

\* What that means for each operation.
LEMMA NextStop ==
    ASSUME NEW p, NEW q, NEW up, NEW low, NEW repo, Runs(p, q, up, low, repo),
           NEW s, s = Head(q), NEW rest, rest = Tail(q), s.op = "stop"
    PROVE  /\ FrontFirst(p, s.c, up)
           /\ Runs(p, rest, up \ {s.c}, low \ {s.c}, repo)
<1>1. PICK X : /\ Closed(p, X)
              /\ \/ ReleaseOk(p, X, s, rest, up, low, repo)
                 \/ AcquireOk(p, X, s, rest, up, low, repo)
                 \/ EndOk(p, s, rest, up, low)
  BY RunsStep
<1> QED BY <1>1 DEF ReleaseOk, AcquireOk, EndOk, Runs

\* The native client no longer runs when its reference is cleared.
LEMMA NextUnref ==
    ASSUME NEW p, NEW q, NEW up, NEW low, NEW repo, Runs(p, q, up, low, repo),
           NEW s, s = Head(q), NEW rest, rest = Tail(q), s.op = "unref"
    PROVE  /\ s.c \in Native /\ s.c \notin up
           /\ Runs(p, rest, up \ {Ref(s.c)}, low \ {Ref(s.c)}, repo)
<1>1. PICK X : /\ Closed(p, X)
              /\ \/ ReleaseOk(p, X, s, rest, up, low, repo)
                 \/ AcquireOk(p, X, s, rest, up, low, repo)
                 \/ EndOk(p, s, rest, up, low)
  BY RunsStep
<1> QED BY <1>1 DEF ReleaseOk, AcquireOk, EndOk, Runs

\* tun2socks does not run when the interface is closed.
LEMMA NextClose ==
    ASSUME NEW p, NEW q, NEW up, NEW low, NEW repo, Runs(p, q, up, low, repo),
           NEW s, s = Head(q), NEW rest, rest = Tail(q), s.op = "close"
    PROVE  /\ "Hev" \notin up
           /\ Runs(p, rest, up \ {"tun"}, low \ {"tun"}, repo)
<1>1. PICK X : /\ Closed(p, X)
              /\ \/ ReleaseOk(p, X, s, rest, up, low, repo)
                 \/ AcquireOk(p, X, s, rest, up, low, repo)
                 \/ EndOk(p, s, rest, up, low)
  BY RunsStep
<1> QED BY <1>1 DEF ReleaseOk, AcquireOk, EndOk, Runs

\* Nothing but the profile is held when the profile is forgotten.
LEMMA NextForget ==
    ASSUME NEW p, NEW q, NEW up, NEW low, NEW repo, Runs(p, q, up, low, repo),
           NEW s, s = Head(q), NEW rest, rest = Tail(q), s.op = "forget"
    PROVE  /\ ~p.lax /\ up \subseteq {"profile"}
           /\ Runs(p, rest, {}, {}, repo)
<1>1. PICK X : /\ Closed(p, X)
              /\ \/ ReleaseOk(p, X, s, rest, up, low, repo)
                 \/ AcquireOk(p, X, s, rest, up, low, repo)
                 \/ EndOk(p, s, rest, up, low)
  BY RunsStep
<1> QED BY <1>1 DEF ReleaseOk, AcquireOk, EndOk, Runs

\* A reference is taken for a profile.
LEMMA NextRef ==
    ASSUME NEW p, NEW q, NEW up, NEW low, NEW repo, Runs(p, q, up, low, repo),
           NEW s, s = Head(q), NEW rest, rest = Tail(q), s.op = "ref"
    PROVE  /\ "profile" \in low /\ s.c \in Native
           /\ Runs(p, rest, up \cup {Ref(s.c)}, low \cup {Ref(s.c)}, repo)
<1>1. PICK X : /\ Closed(p, X)
              /\ \/ ReleaseOk(p, X, s, rest, up, low, repo)
                 \/ AcquireOk(p, X, s, rest, up, low, repo)
                 \/ EndOk(p, s, rest, up, low)
  BY RunsStep
<1> QED BY <1>1 DEF ReleaseOk, AcquireOk, EndOk, Runs

\* The repository notes a type.
LEMMA NextRepo ==
    ASSUME NEW p, NEW q, NEW up, NEW low, NEW repo, Runs(p, q, up, low, repo),
           NEW s, s = Head(q), NEW rest, rest = Tail(q), s.op = "repo"
    PROVE  /\ s.c \in RepoTypes
           /\ Runs(p, rest, up, low, s.c)
<1>1. PICK X : /\ Closed(p, X)
              /\ \/ ReleaseOk(p, X, s, rest, up, low, repo)
                 \/ AcquireOk(p, X, s, rest, up, low, repo)
                 \/ EndOk(p, s, rest, up, low)
  BY RunsStep
<1> QED BY <1>1 DEF ReleaseOk, AcquireOk, EndOk, Runs

\* A native client is started with its reference set.
LEMMA NextStart ==
    ASSUME NEW p, NEW q, NEW up, NEW low, NEW repo, Runs(p, q, up, low, repo),
           NEW s, s = Head(q), NEW rest, rest = Tail(q), s.op = "start"
    PROVE  /\ "profile" \in low /\ s.c \in Clients \cup Listeners
           /\ s.c \in Native => Ref(s.c) \in low
           /\ Runs(p, rest, up \cup {s.c}, low \cup {s.c}, NotedType(s.c, repo))
           /\ Runs(p, s.orElse, up, low, repo)
<1>1. PICK X : /\ Closed(p, X)
              /\ \/ ReleaseOk(p, X, s, rest, up, low, repo)
                 \/ AcquireOk(p, X, s, rest, up, low, repo)
                 \/ EndOk(p, s, rest, up, low)
  BY RunsStep
<1> QED BY <1>1 DEF ReleaseOk, AcquireOk, EndOk, Runs

\* A wait goes on with the rest or with the failure path; nothing answers on an
\* empty port.
LEMMA NextReady ==
    ASSUME NEW p, NEW q, NEW up, NEW low, NEW repo, Runs(p, q, up, low, repo),
           NEW s, s = Head(q), NEW rest, rest = Tail(q), s.op = "ready"
    PROVE  /\ \/ Runs(p, rest, up, low, repo)
              \/ s.c = "proxyPort" /\ ~p.loose /\ up \cap Listeners = {}
           /\ Runs(p, s.orElse, up, low, repo)
<1>1. PICK X : /\ Closed(p, X)
              /\ \/ ReleaseOk(p, X, s, rest, up, low, repo)
                 \/ AcquireOk(p, X, s, rest, up, low, repo)
                 \/ EndOk(p, s, rest, up, low)
  BY RunsStep
<1> QED BY <1>1 DEF ReleaseOk, AcquireOk, EndOk, Runs

\* No tun2socks is there when an interface is established.
LEMMA NextTun ==
    ASSUME NEW p, NEW q, NEW up, NEW low, NEW repo, Runs(p, q, up, low, repo),
           NEW s, s = Head(q), NEW rest, rest = Tail(q), s.op = "tun"
    PROVE  /\ "profile" \in low /\ "Hev" \notin up
           /\ Runs(p, rest, up \cup {"tun", "Http"}, low \cup {"tun"}, repo)
           /\ Runs(p, s.orElse, up \cup {"Http"}, low \ {"tun"}, repo)
<1>1. PICK X : /\ Closed(p, X)
              /\ \/ ReleaseOk(p, X, s, rest, up, low, repo)
                 \/ AcquireOk(p, X, s, rest, up, low, repo)
                 \/ EndOk(p, s, rest, up, low)
  BY RunsStep
<1> QED BY <1>1 DEF ReleaseOk, AcquireOk, EndOk, Runs

\* The interface is there when tun2socks is started.
LEMMA NextHev ==
    ASSUME NEW p, NEW q, NEW up, NEW low, NEW repo, Runs(p, q, up, low, repo),
           NEW s, s = Head(q), NEW rest, rest = Tail(q), s.op = "hev"
    PROVE  /\ "profile" \in low /\ "tun" \in low
           /\ Runs(p, rest, up \cup {"Hev"}, low, repo)
           /\ Runs(p, RepoStopCurrentProxy(repo) \o s.orElse, up, low, "none")
<1>1. PICK X : /\ Closed(p, X)
              /\ \/ ReleaseOk(p, X, s, rest, up, low, repo)
                 \/ AcquireOk(p, X, s, rest, up, low, repo)
                 \/ EndOk(p, s, rest, up, low)
  BY RunsStep
<1> QED BY <1>1 DEF ReleaseOk, AcquireOk, EndOk, Runs

\* A restart of tun2socks that fails leaves a safe program, too.
LEMMA NextRetun ==
    ASSUME NEW p, NEW q, NEW up, NEW low, NEW repo, Runs(p, q, up, low, repo),
           NEW s, s = Head(q), NEW rest, rest = Tail(q), s.op = "retun"
    PROVE  /\ Runs(p, rest, up, low, repo)
           /\ Runs(p, RepoStopCurrentProxy(repo) \o s.orElse, up \ {"Hev"}, low \ {"Hev"}, "none")
<1>1. PICK X : /\ Closed(p, X)
              /\ \/ ReleaseOk(p, X, s, rest, up, low, repo)
                 \/ AcquireOk(p, X, s, rest, up, low, repo)
                 \/ EndOk(p, s, rest, up, low)
  BY RunsStep
<1> QED BY <1>1 DEF ReleaseOk, AcquireOk, EndOk, Runs

\* What is left when a profile is accepted suits it.
LEMMA NextAccept ==
    ASSUME NEW p, NEW q, NEW up, NEW low, NEW repo, Runs(p, q, up, low, repo),
           NEW s, s = Head(q), NEW rest, rest = Tail(q), s.op = "accept"
    PROVE  /\ ~p.lax /\ p.phase = "starting" /\ s.c \in Kinds /\ (p.late => s.c \in LateKinds)
           /\ up \subseteq RefOf(TunnelType(s.c)) \cup {"tun", "profile"}
<1>1. PICK X : /\ Closed(p, X)
              /\ \/ ReleaseOk(p, X, s, rest, up, low, repo)
                 \/ AcquireOk(p, X, s, rest, up, low, repo)
                 \/ EndOk(p, s, rest, up, low)
  BY RunsStep
<1> QED BY <1>1 DEF ReleaseOk, AcquireOk, EndOk, Runs

\* All parts of the tunnel are there at the end of a start.
LEMMA NextFinish ==
    ASSUME NEW p, NEW q, NEW up, NEW low, NEW repo, Runs(p, q, up, low, repo),
           NEW s, s = Head(q), NEW rest, rest = Tail(q), s.op = "finish"
    PROVE  /\ rest = <<>>
           /\ {"profile"} \cup RefOf(TunnelType(p.k)) \subseteq low
           /\ (p.loose /\ p.k \in PortOnly) \/ Needs(p.k) \subseteq low
<1>1. PICK X : /\ Closed(p, X)
              /\ \/ ReleaseOk(p, X, s, rest, up, low, repo)
                 \/ AcquireOk(p, X, s, rest, up, low, repo)
                 \/ EndOk(p, s, rest, up, low)
  BY RunsStep
<1> QED BY <1>1 DEF ReleaseOk, AcquireOk, EndOk, Runs

\* A profile that is kept keeps its reference.
LEMMA NextBroken ==
    ASSUME NEW p, NEW q, NEW up, NEW low, NEW repo, Runs(p, q, up, low, repo),
           NEW s, s = Head(q), NEW rest, rest = Tail(q), s.op = "broken"
    PROVE  /\ rest = <<>>
           /\ "profile" \in up => RefOf(TunnelType(p.k)) \subseteq low
<1>1. PICK X : /\ Closed(p, X)
              /\ \/ ReleaseOk(p, X, s, rest, up, low, repo)
                 \/ AcquireOk(p, X, s, rest, up, low, repo)
                 \/ EndOk(p, s, rest, up, low)
  BY RunsStep
<1> QED BY <1>1 DEF ReleaseOk, AcquireOk, EndOk, Runs

\* No listener is left at stopSelf().
LEMMA NextStopSelf ==
    ASSUME NEW p, NEW q, NEW up, NEW low, NEW repo, Runs(p, q, up, low, repo),
           NEW s, s = Head(q), NEW rest, rest = Tail(q), s.op = "stopSelf"
    PROVE  /\ rest = <<>>
           /\ p.lax \/ up \cap Listeners = {}
<1>1. PICK X : /\ Closed(p, X)
              /\ \/ ReleaseOk(p, X, s, rest, up, low, repo)
                 \/ AcquireOk(p, X, s, rest, up, low, repo)
                 \/ EndOk(p, s, rest, up, low)
  BY RunsStep
<1> QED BY <1>1 DEF ReleaseOk, AcquireOk, EndOk, Runs

\* Nothing is left when the service is gone.
LEMMA NextGone ==
    ASSUME NEW p, NEW q, NEW up, NEW low, NEW repo, Runs(p, q, up, low, repo),
           NEW s, s = Head(q), NEW rest, rest = Tail(q), s.op = "gone"
    PROVE  /\ rest = <<>>
           /\ up = {}
<1>1. PICK X : /\ Closed(p, X)
              /\ \/ ReleaseOk(p, X, s, rest, up, low, repo)
                 \/ AcquireOk(p, X, s, rest, up, low, repo)
                 \/ EndOk(p, s, rest, up, low)
  BY RunsStep
<1> QED BY <1>1 DEF ReleaseOk, AcquireOk, EndOk, Runs

-----------------------------------------------------------------------------
(* The inductive invariant.                                                *)

\* A component that was started behind the back of the programs is not seen: any
\* that a cancelled coroutine may have started, and the Reality proxy.
Loose == overruns \/ "VLESS_REALITY" \in Kinds
Unstopped == IF "VLESS_REALITY" \in Kinds THEN {"Reality"} ELSE {}
Seen == IF overruns THEN running \cap {"Hev"} ELSE running \ Unstopped

\* What the service holds, at most and at least.  In proxy-only mode programs go
\* on as if there were an interface.
Noted == (IF "Slipstream" \in refs THEN {"SlipstreamRef"} ELSE {})
         \cup (IF "Dnstt" \in refs THEN {"DnsttRef"} ELSE {})
         \cup (IF kind # "none" THEN {"profile"} ELSE {})
Held == Seen \cup Noted \cup (IF tun THEN {"tun"} ELSE {})
Have == running \cup Noted \cup (IF tun \/ proxyOnly THEN {"tun"} ELSE {})

Program(k, lax) ==
    [k |-> k, lax |-> lax, loose |-> Loose, late |-> overruns, phase |-> phase]

LaxOnly(lax) == lax => phase \in {"starting", "restarting"} /\ kind \in BridgeForgotten

\* The rest of the program is safe in the present state.
Running(k) ==
    \E lax \in BOOLEAN : LaxOnly(lax) /\ Runs(Program(k, lax), todo, Held, Have, repoType)

\* The service works for a profile of kind k, or has forgotten it.
ForKind(k) ==
    /\ kind \in {k, "none"}
    /\ type = TunnelType(k)
    /\ k = "VLESS_REALITY" => "VLESS_REALITY" \in Kinds
    /\ Held \subseteq Returned(type)
    /\ todo # <<>> => Running(k)

Ordered ==
    /\ kind = "none" => Held = {}
    /\ proxyOnly => "Hev" \notin running
    /\ "Hev" \in running => tun
    /\ Seen \cap Native \subseteq refs
    /\ overruns /\ kind # "none" => kind \in LateKinds

\* What the end of each program has reached.
Reached ==
    /\ phase = "idle" => Held = {}
    /\ phase = "stopped" /\ kind \notin BridgeForgotten => Held \cap Listeners = {}
    /\ phase \in {"connected", "broken"} /\ kind # "none" => RefOf(type) \subseteq Have
    /\ phase = "connected" =>
          /\ kind # "none"
          /\ fault \/ (Loose /\ kind \in PortOnly) \/ Needs(kind) \subseteq running

IInv ==
    /\ TypeOK
    /\ repoType \in Repos
    /\ Ordered
    /\ Reached
    /\ \E k \in AllKinds : ForKind(k)

-----------------------------------------------------------------------------
(* Its steps.                                                              *)

\* The types of the kinds.
LEMMA TypesOfKinds == {TunnelType(k) : k \in AllKinds} = Types
BY DEF TunnelType, AllKinds, Types

\* The types of the repository are types of kinds.
LEMMA ReposAreTypes == Repos \subseteq {TunnelType(k) : k \in AllKinds} \cup {"none"}
BY TypesOfKinds DEF Repos, RepoTypes, Types

\* Initially nothing is held.
LEMMA InitIInv ==
    ASSUME Init
    PROVE  IInv
<1>1. Held = {}
  BY DEF Init, Held, Seen, Noted
<1>2. TunnelType("SLIPSTREAM") = "SLIPSTREAM" /\ "SLIPSTREAM" \in AllKinds
  BY DEF TunnelType, AllKinds
<1>3. TypeOK
  <2>1. fault \in BOOLEAN /\ overruns \in BOOLEAN /\ tun \in BOOLEAN /\ proxyOnly \in BOOLEAN
    BY Zenon DEF Init
  <2>2. type \in {TunnelType(k) : k \in AllKinds}
    BY <1>2 DEF Init
  <2>3. /\ kind \in Kinds \cup {"none"} /\ running \subseteq Components /\ late = {}
        /\ repoType \in {TunnelType(k) : k \in AllKinds} \cup {"none"}
        /\ phase \in Phases /\ (todo = <<>> <=> phase \in {"idle", "connected", "broken",
               "stopped"})
        /\ refs \subseteq {"Slipstream", "Dnstt"} /\ late \subseteq Clients \cup Listeners
    BY DEF Init, Phases
  <2> QED BY <2>1, <2>2, <2>3 DEF TypeOK
<1>4. Ordered /\ Reached
  <2>1. kind = "none" /\ phase = "idle" /\ running = {} /\ Seen \subseteq running
    BY DEF Init, Seen
  <2>2. ~proxyOnly
    BY DEF Init
  <2>3. Ordered
    BY <1>1, <2>1, <2>2 DEF Ordered
  <2>4. Reached
    BY <1>1, <2>1 DEF Reached
  <2> QED BY <2>3, <2>4
<1>5. ForKind("SLIPSTREAM")
  BY <1>1, <1>2 DEF Init, ForKind
<1>6. repoType \in Repos
  BY DEF Init, Repos
<1> QED BY <1>2, <1>3, <1>4, <1>5, <1>6 DEF IInv

\* The program that is running, and the kind it is for.
LEMMA Current ==
    ASSUME IInv, todo # <<>>
    PROVE  \E k \in AllKinds, lax \in BOOLEAN :
              /\ ForKind(k) /\ LaxOnly(lax)
              /\ Runs(Program(k, lax), todo, Held, Have, repoType)
BY DEF IInv, ForKind, Running

\* A state in which a safe program runs.
LEMMA ProgramState ==
    ASSUME NEW k \in AllKinds, k = "VLESS_REALITY" => "VLESS_REALITY" \in Kinds,
           kind' \in {k, "none"}, kind' \in Kinds \cup {"none"}, type' = TunnelType(k),
           proxyOnly' \in BOOLEAN, phase' \in {"starting", "restarting", "blocking", "stopping"},
           late' \subseteq Clients \cup Listeners, overruns' \/ late' = {}, fault' \in BOOLEAN,
           running' \subseteq Components, tun' \in BOOLEAN, refs' \subseteq Native, Ordered',
           NEW lax \in BOOLEAN, LaxOnly(lax)',
           Runs(Program(k, lax)', todo', Held', Have', repoType')
    PROVE  IInv'
<1> DEFINE p == Program(k, lax)'
<1>1. todo' # <<>> /\ Within(p, Held', repoType')
  BY RunsStep
<1>2. p.k = k
  BY DEF Program
<1>3. Running(k)'
  BY DEF Running
<1> HIDE DEF p
<1>4. Held' \subseteq Taken(k) /\ repoType' \in Repos
  BY <1>1, <1>2 DEF Within, Repos
<1>5. repoType' \in {TunnelType(j) : j \in AllKinds} \cup {"none"}
  BY <1>4, ReposAreTypes
<1>6. TypeOK'
  <2>1. type' \in {TunnelType(j) : j \in AllKinds}
    OBVIOUS
  <2>2. phase' \in Phases /\ (todo' = <<>> <=> phase' \in {"idle", "connected", "broken",
            "stopped"})
    BY <1>1 DEF Phases
  <2>3. refs' \subseteq {"Slipstream", "Dnstt"}
    BY DEF Native
  <2> QED BY <1>5, <2>1, <2>2, <2>3 DEF TypeOK
<1>7. Reached'
  BY DEF Reached
<1>8. Held' \subseteq Returned(type')
  <2>1. k = "VLESS_REALITY" => "Reality" \notin Held'
    BY DEF Held, Seen, Noted, Unstopped
  <2> QED BY <1>4, <2>1 DEF Taken
<1>9. ForKind(k)'
  BY <1>3, <1>8 DEF ForKind
<1> QED BY <1>4, <1>6, <1>7, <1>9 DEF IInv

\* A state in which no program runs.
LEMMA EndState ==
    ASSUME NEW k \in AllKinds, k = "VLESS_REALITY" => "VLESS_REALITY" \in Kinds,
           kind' \in {k, "none"}, kind' \in Kinds \cup {"none"}, type' = TunnelType(k),
           proxyOnly' \in BOOLEAN, phase' \in {"idle", "connected", "broken", "stopped"},
           late' \subseteq Clients \cup Listeners, overruns' \/ late' = {}, fault' \in BOOLEAN,
           running' \subseteq Components, tun' \in BOOLEAN, refs' \subseteq Native, Ordered',
           Reached', repoType' \in Repos, todo' = <<>>, Held' \subseteq Returned(type')
    PROVE  IInv'
<1>1. TypeOK'
  <2>1. type' \in {TunnelType(j) : j \in AllKinds}
    OBVIOUS
  <2>2. phase' \in Phases /\ (todo' = <<>> <=> phase' \in {"idle", "connected", "broken",
            "stopped"})
    BY DEF Phases
  <2>3. refs' \subseteq {"Slipstream", "Dnstt"}
    BY DEF Native
  <2>4. repoType' \in {TunnelType(j) : j \in AllKinds} \cup {"none"}
    BY ReposAreTypes
  <2> QED BY <2>1, <2>2, <2>3, <2>4 DEF TypeOK
<1>2. ForKind(k)'
  BY DEF ForKind
<1> QED BY <1>1, <1>2 DEF IInv

\* The step of a program that goes on afterwards.
LEMMA MidStep ==
    ASSUME IInv, todo # <<>>, NEW k \in AllKinds, ForKind(k), NEW lax \in BOOLEAN, LaxOnly(lax),
           UNCHANGED <<kind, type, proxyOnly, phase, late, fault, overruns>>,
           NEW u, NEW l, Runs(Program(k, lax), todo', u, l, repoType'),
           Held' \subseteq u, l \subseteq Have',
           running' \subseteq Components, tun' \in BOOLEAN, refs' \subseteq Native, Ordered'
    PROVE  IInv'
<1>1. phase' \in {"starting", "restarting", "blocking", "stopping"}
  BY DEF IInv, TypeOK, Phases
<1>2. /\ kind' \in Kinds \cup {"none"} /\ kind' \in {k, "none"} /\ type' = TunnelType(k)
      /\ late' \subseteq Clients \cup Listeners
  BY DEF IInv, TypeOK, ForKind
<1>3. proxyOnly' \in BOOLEAN /\ fault' \in BOOLEAN /\ (overruns' \/ late' = {})
  BY Zenon DEF IInv, TypeOK
<1>4. k = "VLESS_REALITY" => "VLESS_REALITY" \in Kinds
  BY DEF ForKind
<1>5. Program(k, lax)' = Program(k, lax) /\ LaxOnly(lax)'
  BY DEF Program, Loose, LaxOnly
<1>6. Runs(Program(k, lax), todo', Held', Have', repoType')
  BY RunsWeaken
<1>7. Runs(Program(k, lax)', todo', Held', Have', repoType')
  BY <1>5, <1>6
<1> QED BY <1>1, <1>2, <1>3, <1>4, <1>5, <1>7, ProgramState

\* Resources of different sorts have different names.
LEMMA Names ==
    /\ "tun" \notin Components /\ "profile" \notin Components
    /\ "SlipstreamRef" \notin Components /\ "DnsttRef" \notin Components
    /\ Native \subseteq Components /\ Clients \subseteq Components /\ Listeners \subseteq Components
    /\ "Http" \in Components /\ "Hev" \in Components
    /\ \A c \in Clients \cup Listeners : c \notin {"Http", "Hev"}
BY DEF Components, Clients, Listeners, Native

\* What is held, resource by resource.
LEMMA HeldIs ==
    /\ \A c \in Components : c \in Held <=> c \in Seen
    /\ "tun" \in Held <=> "tun" \in Seen \/ tun
    /\ "profile" \in Held <=> "profile" \in Seen \/ kind # "none"
    /\ \A c : c \in Held => c \in Seen \/ c \in {"SlipstreamRef", "DnsttRef", "tun", "profile"}
BY Names DEF Held, Noted

\* StopComponent: the fronts are stopped first, and what is held shrinks.
LEMMA StopComponentStep ==
    ASSUME IInv, StopComponent
    PROVE  IInv'
<1>1. PICK k \in AllKinds, lax \in BOOLEAN :
              /\ ForKind(k) /\ LaxOnly(lax)
              /\ Runs(Program(k, lax), todo, Held, Have, repoType)
  BY Current DEF StopComponent, Step
<1> DEFINE p == Program(k, lax)
           c == Component
<1>2. FrontFirst(p, c, Held) /\ Runs(p, todo', Held \ {c}, Have \ {c}, repoType)
  BY <1>1, NextStop DEF StopComponent, Step, Component, Proceed
<1>3. c \in Components /\ running' = running \ {c} /\ Noted' = Noted
  BY <1>2 DEF FrontFirst, StopComponent, Noted
<1>4. Seen' \subseteq Seen \ {c}
  BY <1>3 DEF Seen, StopComponent, Unstopped
<1> HIDE DEF p, c
<1>5. Held' \subseteq Held \ {c} /\ Have \ {c} \subseteq Have'
  BY <1>3, <1>4, Names DEF Held, Have, Noted, StopComponent
<1>6. running' \subseteq Components /\ tun' \in BOOLEAN /\ refs' \subseteq Native
  BY <1>3 DEF IInv, TypeOK, StopComponent, Native
<1>7. Ordered'
  BY <1>3, <1>4, <1>5 DEF IInv, Ordered, StopComponent
<1>8. todo # <<>> /\ UNCHANGED <<kind, type, proxyOnly, phase, late, fault, overruns>>
      /\ repoType' = repoType
  BY DEF StopComponent, Step
<1> QED BY <1>1, <1>2, <1>5, <1>6, <1>7, <1>8, MidStep DEF p

\* Only what runs is seen, and tun2socks always is.
LEMMA SeenIs ==
    /\ Seen \subseteq running /\ ("Hev" \in running => "Hev" \in Seen)
    /\ ~overruns => running \ Unstopped \subseteq Seen
    /\ ~Loose => Seen = running
BY DEF Seen, Unstopped, Loose

\* What the service has, it has noted, or it is a component.
LEMMA HaveIs ==
    ASSUME IInv
    PROVE  /\ "profile" \in Have => kind # "none"
           /\ \A c \in Native : Ref(c) \in Have => c \in refs
           /\ "tun" \in Have => tun \/ proxyOnly
           /\ \A c \in Components : c \in Have => c \in running
<1>1. running \subseteq Components
  BY DEF IInv, TypeOK
<1> QED BY <1>1, Names DEF Have, Noted, Ref, Native

\* SetVpnService: a reference is taken before the client starts and cleared when it
\* no longer runs.
LEMMA SetVpnServiceStep ==
    ASSUME IInv, SetVpnService
    PROVE  IInv'
<1>1. todo # <<>> /\ UNCHANGED <<kind, type, proxyOnly, phase, late, fault, overruns>>
      /\ repoType' = repoType /\ running' = running /\ tun' = tun
  BY DEF SetVpnService, Step
<1>2. PICK k \in AllKinds, lax \in BOOLEAN :
              /\ ForKind(k) /\ LaxOnly(lax)
              /\ Runs(Program(k, lax), todo, Held, Have, repoType)
  BY <1>1, Current
<1> DEFINE p == Program(k, lax)
           c == Component
<1>3. Seen' = Seen /\ running' \subseteq Components /\ tun' \in BOOLEAN /\ refs \subseteq Native
  BY <1>1 DEF Seen, Unstopped, IInv, TypeOK, Native
<1>4. CASE Step("ref")
  <2>1. "profile" \in Have /\ c \in Native /\ Runs(p, todo', Held \cup {Ref(c)},
            Have \cup {Ref(c)}, repoType)
    BY <1>2, <1>4, NextRef DEF Step, SetVpnService, Component, Proceed
  <2>2. refs' = refs \cup {c}
    BY <1>4 DEF Step, SetVpnService
  <2> HIDE DEF p, c
  <2>3. Noted' = Noted \cup {Ref(c)}
    BY <1>1, <2>1, <2>2 DEF Noted, Ref, Native
  <2>4. Held' \subseteq Held \cup {Ref(c)} /\ Have \cup {Ref(c)} \subseteq Have'
    BY <1>1, <1>3, <2>3 DEF Held, Have
  <2>5. kind # "none"
    BY <2>1, HaveIs
  <2>6. refs' \subseteq Native
    BY <1>3, <2>1, <2>2
  <2>7. Ordered'
    BY <1>1, <1>3, <2>2, <2>5 DEF IInv, Ordered
  <2> QED BY <1>1, <1>2, <1>3, <2>1, <2>4, <2>6, <2>7, MidStep DEF p
<1>5. CASE Step("unref")
  <2>1. c \in Native /\ c \notin Held /\ Runs(p, todo', Held \ {Ref(c)}, Have \ {Ref(c)}, repoType)
    BY <1>2, <1>5, NextUnref DEF Step, SetVpnService, Component, Proceed
  <2>2. refs' = refs \ {c}
    BY <1>5 DEF Step, SetVpnService
  <2> HIDE DEF p, c
  <2>3. Noted' = Noted \ {Ref(c)}
    BY <1>1, <2>1, <2>2 DEF Noted, Ref, Native
  <2>4. Ref(c) \notin Seen /\ Ref(c) # "tun"
    BY <1>1, <1>3, SeenIs, Names DEF Ref
  <2>5. Held' \subseteq Held \ {Ref(c)} /\ Have \ {Ref(c)} \subseteq Have'
    BY <1>1, <1>3, <2>3, <2>4 DEF Held, Have
  <2>6. c \notin Seen
    BY <2>1 DEF Held
  <2>7. refs' \subseteq Native
    BY <1>3, <2>2
  <2>8. Ordered'
    BY <1>1, <1>3, <2>2, <2>5, <2>6 DEF IInv, Ordered
  <2> QED BY <1>1, <1>2, <1>3, <2>1, <2>5, <2>7, <2>8, MidStep DEF p
<1> QED BY <1>4, <1>5 DEF SetVpnService

\* SetCurrentTunnelType: the repository notes a type.
LEMMA SetCurrentTunnelTypeStep ==
    ASSUME IInv, SetCurrentTunnelType
    PROVE  IInv'
<1>1. todo # <<>> /\ UNCHANGED <<kind, type, proxyOnly, phase, late, fault, overruns>>
      /\ UNCHANGED <<running, tun, refs>> /\ repoType' = Component
  BY DEF SetCurrentTunnelType, Step
<1>2. PICK k \in AllKinds, lax \in BOOLEAN :
              /\ ForKind(k) /\ LaxOnly(lax)
              /\ Runs(Program(k, lax), todo, Held, Have, repoType)
  BY <1>1, Current
<1>3. Runs(Program(k, lax), todo', Held, Have, repoType')
  BY <1>1, <1>2, NextRepo DEF Step, SetCurrentTunnelType, Component, Proceed
<1>4. Held' = Held /\ Have' = Have /\ Seen' = Seen
  BY <1>1 DEF Held, Have, Seen, Noted, Unstopped
<1>5. running' \subseteq Components /\ tun' \in BOOLEAN /\ refs' \subseteq Native
  BY <1>1 DEF IInv, TypeOK, Native
<1>6. Ordered'
  BY <1>1, <1>4 DEF IInv, Ordered
<1> QED BY <1>1, <1>2, <1>3, <1>4, <1>5, <1>6, MidStep

\* StartComponent: a client starts when its reference is set.
LEMMA StartComponentStep ==
    ASSUME IInv, StartComponent
    PROVE  IInv'
<1>1. todo # <<>> /\ UNCHANGED <<kind, type, proxyOnly, phase, late, fault, overruns>>
      /\ UNCHANGED <<tun, refs>>
  BY DEF StartComponent, Step
<1>2. PICK k \in AllKinds, lax \in BOOLEAN :
              /\ ForKind(k) /\ LaxOnly(lax)
              /\ Runs(Program(k, lax), todo, Held, Have, repoType)
  BY <1>1, Current
<1> DEFINE p == Program(k, lax)
           c == Component
<1>3. /\ "profile" \in Have /\ c \in Clients \cup Listeners /\ (c \in Native => Ref(c) \in Have)
      /\ Runs(p, Tail(todo), Held \cup {c}, Have \cup {c}, NotedType(c, repoType))
      /\ Runs(p, Head(todo).orElse, Held, Have, repoType)
  BY <1>2, NextStart DEF Step, StartComponent, Component
<1>4. kind # "none" /\ (c \in Native => c \in refs)
  <2> HIDE DEF p, c
  <2> QED BY <1>3, HaveIs
<1>5. Noted' = Noted /\ running \subseteq Components /\ tun' \in BOOLEAN /\ refs' \subseteq Native
  BY <1>1 DEF Noted, IInv, TypeOK, Native
<1>6. CASE running' = running \cup {c} /\ repoType' = StartedType(c) /\ Proceed
  <2>1. Runs(p, todo', Held \cup {c}, Have \cup {c}, repoType')
    BY <1>3, <1>6 DEF Proceed, StartedType, NotedType
  <2> HIDE DEF p, c
  <2>2. Seen \subseteq Seen' /\ Seen' \subseteq Seen \cup {c} /\ c \in Components /\ c # "Hev"
    BY <1>1, <1>3, <1>6, Names DEF Seen, Unstopped
  <2>3. Held' \subseteq Held \cup {c} /\ Have \cup {c} \subseteq Have'
    BY <1>1, <1>5, <1>6, <2>2 DEF Held, Have
  <2>4. Ordered'
    BY <1>1, <1>4, <1>6, <2>2 DEF IInv, Ordered
  <2>5. running' \subseteq Components
    BY <1>5, <1>6, <2>2
  <2> QED BY <1>1, <1>2, <1>5, <2>1, <2>3, <2>4, <2>5, MidStep DEF p
<1>7. CASE Fail /\ UNCHANGED <<running, repoType>>
  <2>1. Runs(p, todo', Held, Have, repoType')
    BY <1>3, <1>7 DEF Fail
  <2>2. Held' = Held /\ Have' = Have /\ Seen' = Seen
    BY <1>1, <1>7 DEF Held, Have, Seen, Noted, Unstopped
  <2>3. Ordered'
    BY <1>1, <1>7, <2>2 DEF IInv, Ordered
  <2> HIDE DEF p, c
  <2> QED BY <1>1, <1>2, <1>5, <1>7, <2>1, <2>2, <2>3, MidStep DEF p
<1> QED BY <1>6, <1>7 DEF StartComponent

\* WaitForProxyReady: when the port is all that counts and nothing unseen runs,
\* nothing answers.
LEMMA WaitForProxyReadyStep ==
    ASSUME IInv, WaitForProxyReady
    PROVE  IInv'
<1>1. todo # <<>> /\ UNCHANGED <<kind, type, proxyOnly, phase, late, fault, overruns>>
      /\ UNCHANGED <<running, tun, refs, repoType>>
  BY DEF WaitForProxyReady, Step
<1>2. PICK k \in AllKinds, lax \in BOOLEAN :
              /\ ForKind(k) /\ LaxOnly(lax)
              /\ Runs(Program(k, lax), todo, Held, Have, repoType)
  BY <1>1, Current
<1> DEFINE p == Program(k, lax)
           c == Component
<1>3. /\ \/ Runs(p, Tail(todo), Held, Have, repoType)
         \/ c = "proxyPort" /\ ~p.loose /\ Held \cap Listeners = {}
      /\ Runs(p, Head(todo).orElse, Held, Have, repoType)
  BY <1>2, NextReady DEF Step, WaitForProxyReady, Component
<1>4. Runs(p, todo', Held, Have, repoType')
  <2>1. CASE Fail
    BY <1>1, <1>3, <2>1 DEF Fail
  <2>2. CASE Listening(c) /\ Proceed
    <3>1. CASE c = "proxyPort" /\ ~p.loose /\ Held \cap Listeners = {}
      <4>1. ~Loose
        BY <3>1 DEF Program
      <4>2. running \subseteq Held
        BY <4>1, SeenIs DEF Held
      <4> QED BY <2>2, <3>1, <4>2 DEF Listening
    <3> QED BY <1>1, <1>3, <2>2, <3>1 DEF Proceed
  <2> QED BY <2>1, <2>2 DEF WaitForProxyReady
<1>5. Held' = Held /\ Have' = Have /\ Seen' = Seen
  BY <1>1 DEF Held, Have, Seen, Noted, Unstopped
<1>6. running' \subseteq Components /\ tun' \in BOOLEAN /\ refs' \subseteq Native
  BY <1>1 DEF IInv, TypeOK, Native
<1>7. Ordered'
  BY <1>1, <1>5 DEF IInv, Ordered
<1> HIDE DEF p
<1> QED BY <1>1, <1>2, <1>4, <1>5, <1>6, <1>7, MidStep DEF p

\* EstablishVpnInterface: no tun2socks is there that could lose its interface.
LEMMA EstablishVpnInterfaceStep ==
    ASSUME IInv, EstablishVpnInterface
    PROVE  IInv'
<1>1. todo # <<>> /\ UNCHANGED <<kind, type, proxyOnly, phase, late, fault, overruns>>
      /\ UNCHANGED <<refs, repoType>> /\ running' \in {running, running \cup {"Http"}}
  BY DEF EstablishVpnInterface, Step
<1>2. PICK k \in AllKinds, lax \in BOOLEAN :
              /\ ForKind(k) /\ LaxOnly(lax)
              /\ Runs(Program(k, lax), todo, Held, Have, repoType)
  BY <1>1, Current
<1> DEFINE p == Program(k, lax)
<1>3. /\ "profile" \in Have /\ "Hev" \notin Held
      /\ Runs(p, Tail(todo), Held \cup {"tun", "Http"}, Have \cup {"tun"}, repoType)
      /\ Runs(p, Head(todo).orElse, Held \cup {"Http"}, Have \ {"tun"}, repoType)
  BY <1>2, NextTun DEF Step, EstablishVpnInterface
<1> HIDE DEF p
<1>4. kind # "none" /\ "Hev" \notin running
  BY <1>3, HaveIs, SeenIs DEF Held
<1>5. Noted' = Noted /\ running' \subseteq Components /\ refs' \subseteq Native
  BY <1>1, Names DEF Noted, IInv, TypeOK, Native
<1>6. Seen' \subseteq Seen \cup {"Http"} /\ "Hev" \notin running' /\ running \subseteq running'
  BY <1>1, <1>4 DEF Seen, Unstopped
<1>7. Ordered'
  BY <1>1, <1>4, <1>6 DEF IInv, Ordered, Native
<1>8. CASE tun' = TRUE /\ Proceed
  <2>1. Held' \subseteq Held \cup {"tun", "Http"} /\ Have \cup {"tun"} \subseteq Have'
    BY <1>1, <1>5, <1>6, <1>8 DEF Held, Have
  <2>2. Runs(p, todo', Held \cup {"tun", "Http"}, Have \cup {"tun"}, repoType')
    BY <1>1, <1>3, <1>8 DEF Proceed
  <2>3. tun' \in BOOLEAN
    BY <1>8
  <2> QED BY <1>1, <1>2, <1>5, <1>7, <2>1, <2>2, <2>3, MidStep DEF p
<1>9. CASE tun' = FALSE /\ Fail
  <2>1. Held' \subseteq Held \cup {"Http"} /\ Have \ {"tun"} \subseteq Have'
    BY <1>1, <1>5, <1>6, <1>9 DEF Held, Have
  <2>2. Runs(p, todo', Held \cup {"Http"}, Have \ {"tun"}, repoType')
    BY <1>1, <1>3, <1>9 DEF Fail
  <2>3. tun' \in BOOLEAN
    BY <1>9
  <2> QED BY <1>1, <1>2, <1>5, <1>7, <2>1, <2>2, <2>3, MidStep DEF p
<1> QED BY <1>8, <1>9 DEF EstablishVpnInterface

\* CloseVpnInterface: tun2socks has been stopped.
LEMMA CloseVpnInterfaceStep ==
    ASSUME IInv, CloseVpnInterface
    PROVE  IInv'
<1>1. todo # <<>> /\ UNCHANGED <<kind, type, proxyOnly, phase, late, fault, overruns>>
      /\ UNCHANGED <<running, refs, repoType>> /\ tun' = FALSE
  BY DEF CloseVpnInterface, Step
<1>2. PICK k \in AllKinds, lax \in BOOLEAN :
              /\ ForKind(k) /\ LaxOnly(lax)
              /\ Runs(Program(k, lax), todo, Held, Have, repoType)
  BY <1>1, Current
<1>3. "Hev" \notin Held /\ Runs(Program(k, lax), todo', Held \ {"tun"}, Have \ {"tun"}, repoType)
  BY <1>2, NextClose DEF Step, CloseVpnInterface, Proceed
<1>4. "Hev" \notin running
  BY <1>3, SeenIs DEF Held
<1>5. Noted' = Noted /\ Seen' = Seen /\ running' \subseteq Components /\ refs' \subseteq Native
  BY <1>1 DEF Noted, IInv, TypeOK, Native, Seen, Unstopped
<1>6. "tun" \notin Seen /\ "tun" \notin Noted
  BY <1>1, <1>5, SeenIs, Names DEF Noted
<1>7. Held' \subseteq Held \ {"tun"} /\ Have \ {"tun"} \subseteq Have'
  BY <1>1, <1>5, <1>6 DEF Held, Have
<1>8. Ordered'
  BY <1>1, <1>4, <1>5, <1>7 DEF IInv, Ordered
<1>9. tun' \in BOOLEAN
  BY <1>1
<1> QED BY <1>1, <1>2, <1>3, <1>5, <1>7, <1>8, <1>9, MidStep

\* StartTun2Socks: the interface is there.
LEMMA StartTun2SocksStep ==
    ASSUME IInv, StartTun2Socks
    PROVE  IInv'
<1>1. todo # <<>> /\ UNCHANGED <<kind, type, proxyOnly, phase, late, fault, overruns>>
      /\ UNCHANGED <<tun, refs>> /\ ~proxyOnly
  BY DEF StartTun2Socks, Step
<1>2. PICK k \in AllKinds, lax \in BOOLEAN :
              /\ ForKind(k) /\ LaxOnly(lax)
              /\ Runs(Program(k, lax), todo, Held, Have, repoType)
  BY <1>1, Current
<1> DEFINE p == Program(k, lax)
           s == Head(todo)
<1>3. /\ "profile" \in Have /\ "tun" \in Have
      /\ Runs(p, Tail(todo), Held \cup {"Hev"}, Have, repoType)
      /\ Runs(p, RepoStopCurrentProxy(repoType) \o s.orElse, Held, Have, "none")
  BY <1>2, NextHev DEF Step, StartTun2Socks
<1> HIDE DEF p, s
<1>4. kind # "none" /\ tun
  BY <1>1, <1>3, HaveIs
<1>5. Noted' = Noted /\ running \subseteq Components /\ tun' \in BOOLEAN /\ refs' \subseteq Native
  BY <1>1 DEF Noted, IInv, TypeOK, Native
<1>6. CASE running' = running \cup {"Hev"} /\ Proceed /\ UNCHANGED repoType
  <2>1. Seen' \subseteq Seen \cup {"Hev"}
    BY <1>1, <1>6 DEF Seen, Unstopped
  <2>2. Held' \subseteq Held \cup {"Hev"} /\ Have \subseteq Have'
    BY <1>1, <1>5, <1>6, <2>1 DEF Held, Have
  <2>3. Ordered'
    BY <1>1, <1>4, <1>6, <2>1 DEF IInv, Ordered, Native
  <2>4. Runs(p, todo', Held \cup {"Hev"}, Have, repoType') /\ running' \subseteq Components
    BY <1>3, <1>5, <1>6, Names DEF Proceed
  <2> QED BY <1>1, <1>2, <1>5, <2>2, <2>3, <2>4, MidStep DEF p
<1>7. CASE Tun2SocksFails /\ UNCHANGED running
  <2>1. Held' = Held /\ Have' = Have /\ Seen' = Seen /\ running' \subseteq Components
    BY <1>1, <1>5, <1>7 DEF Held, Have, Seen, Unstopped
  <2>2. Ordered'
    BY <1>1, <1>7, <2>1 DEF IInv, Ordered
  <2>3. Runs(p, todo', Held, Have, repoType')
    BY <1>3, <1>7 DEF Tun2SocksFails, s
  <2> QED BY <1>1, <1>2, <1>5, <2>1, <2>2, <2>3, MidStep DEF p
<1> QED BY <1>6, <1>7 DEF StartTun2Socks

\* CheckTun2Socks: if it cannot be restarted the repository stops the proxy.
LEMMA CheckTun2SocksStep ==
    ASSUME IInv, CheckTun2Socks
    PROVE  IInv'
<1>1. todo # <<>> /\ UNCHANGED <<kind, type, proxyOnly, phase, late, fault, overruns>>
      /\ UNCHANGED <<tun, refs>>
  BY DEF CheckTun2Socks, Step
<1>2. PICK k \in AllKinds, lax \in BOOLEAN :
              /\ ForKind(k) /\ LaxOnly(lax)
              /\ Runs(Program(k, lax), todo, Held, Have, repoType)
  BY <1>1, Current
<1> DEFINE p == Program(k, lax)
           s == Head(todo)
<1>3. /\ Runs(p, Tail(todo), Held, Have, repoType)
      /\ Runs(p, RepoStopCurrentProxy(repoType) \o s.orElse, Held \ {"Hev"}, Have \ {"Hev"}, "none")
  BY <1>2, NextRetun DEF Step, CheckTun2Socks
<1> HIDE DEF p, s
<1>4. Noted' = Noted /\ running \subseteq Components /\ tun' \in BOOLEAN /\ refs' \subseteq Native
  BY <1>1 DEF Noted, IInv, TypeOK, Native
<1>5. CASE Proceed /\ UNCHANGED <<running, repoType>>
  <2>1. Held' = Held /\ Have' = Have /\ Seen' = Seen /\ running' \subseteq Components
    BY <1>1, <1>4, <1>5 DEF Held, Have, Seen, Unstopped
  <2>2. Ordered'
    BY <1>1, <1>5, <2>1 DEF IInv, Ordered
  <2>3. Runs(p, todo', Held, Have, repoType')
    BY <1>3, <1>5 DEF Proceed
  <2> QED BY <1>1, <1>2, <1>4, <2>1, <2>2, <2>3, MidStep DEF p
<1>6. CASE Tun2SocksFails /\ running' = running \ {"Hev"}
  <2>1. Seen' \subseteq Seen \ {"Hev"} /\ running' \subseteq Components /\ "Hev" \notin Noted
    BY <1>1, <1>4, <1>6 DEF Seen, Unstopped, Noted
  <2>2. Held' \subseteq Held \ {"Hev"} /\ Have \ {"Hev"} \subseteq Have'
    BY <1>1, <1>4, <1>6, <2>1 DEF Held, Have
  <2>3. Ordered'
    BY <1>1, <1>6, <2>1, <2>2 DEF IInv, Ordered
  <2>4. Runs(p, todo', Held \ {"Hev"}, Have \ {"Hev"}, repoType')
    BY <1>3, <1>6 DEF Tun2SocksFails, s
  <2> QED BY <1>1, <1>2, <1>4, <2>1, <2>2, <2>3, <2>4, MidStep DEF p
<1> QED BY <1>5, <1>6 DEF CheckTun2Socks

\* ProxyOnlySkips: the program goes on as if it had an interface.
LEMMA ProxyOnlySkipsStep ==
    ASSUME IInv, ProxyOnlySkips
    PROVE  IInv'
<1>1. todo # <<>> /\ UNCHANGED <<kind, type, proxyOnly, phase, late, fault, overruns>>
      /\ UNCHANGED <<running, tun, refs, repoType>> /\ proxyOnly
  BY DEF ProxyOnlySkips, Step
<1>2. PICK k \in AllKinds, lax \in BOOLEAN :
              /\ ForKind(k) /\ LaxOnly(lax)
              /\ Runs(Program(k, lax), todo, Held, Have, repoType)
  BY <1>1, Current
<1> DEFINE p == Program(k, lax)
<1>3. Held' = Held /\ Have' = Have /\ Seen' = Seen
  BY <1>1 DEF Held, Have, Seen, Noted, Unstopped
<1>4. running' \subseteq Components /\ tun' \in BOOLEAN /\ refs' \subseteq Native
  BY <1>1 DEF IInv, TypeOK, Native
<1>5. Ordered'
  BY <1>1, <1>3 DEF IInv, Ordered
<1>6. "tun" \in Have
  BY <1>1 DEF Have
<1>7. CASE Step("tun")
  <2>1. Runs(p, todo', Held \cup {"tun", "Http"}, Have \cup {"tun"}, repoType')
    BY <1>1, <1>2, <1>7, NextTun DEF Step, ProxyOnlySkips, Proceed
  <2>2. Held' \subseteq Held \cup {"tun", "Http"} /\ Have \cup {"tun"} \subseteq Have'
    BY <1>3, <1>6
  <2> HIDE DEF p
  <2> QED BY <1>1, <1>2, <1>4, <1>5, <2>1, <2>2, MidStep DEF p
<1>8. CASE Step("hev")
  <2>1. Runs(p, todo', Held \cup {"Hev"}, Have, repoType')
    BY <1>1, <1>2, <1>8, NextHev DEF Step, ProxyOnlySkips, Proceed
  <2>2. Held' \subseteq Held \cup {"Hev"} /\ Have \subseteq Have'
    BY <1>3
  <2> HIDE DEF p
  <2> QED BY <1>1, <1>2, <1>4, <1>5, <2>1, <2>2, MidStep DEF p
<1> QED BY <1>7, <1>8 DEF ProxyOnlySkips

\* AcceptProfile: what is left of the last connection suits the next one.
LEMMA AcceptProfileStep ==
    ASSUME IInv, AcceptProfile
    PROVE  IInv'
<1>1. todo # <<>> /\ UNCHANGED <<repoType, phase, running, tun, refs, late, overruns>>
  BY DEF AcceptProfile, Step
<1>2. PICK k \in AllKinds, lax \in BOOLEAN :
              /\ ForKind(k) /\ LaxOnly(lax)
              /\ Runs(Program(k, lax), todo, Held, Have, repoType)
  BY <1>1, Current
<1> DEFINE p == Program(k, lax)
<1>c. PICK c : c = Component
  OBVIOUS
<1>3. /\ p.phase = "starting" /\ c \in Kinds /\ (p.late => c \in LateKinds)
      /\ Held \subseteq RefOf(TunnelType(c)) \cup {"tun", "profile"}
      /\ Within(p, Held, repoType)
  BY <1>2, <1>c, NextAccept, RunsStep DEF Step, AcceptProfile, Component
<1>4. phase = "starting" /\ (overruns => c \in LateKinds) /\ p.k = k /\ c \in AllKinds
  BY <1>3, KindsAssumption DEF Program
<1>5. Held \cap Listeners = {} /\ "Hev" \notin running
  <2>1. Held \subseteq {"SlipstreamRef", "DnsttRef", "tun", "profile"}
    BY <1>3 DEF RefOf
  <2> HIDE DEF p
  <2> QED BY <2>1, SeenIs DEF Held, Listeners
<1>6. /\ late' \subseteq Clients \cup Listeners /\ running' \subseteq Components
      /\ refs' \subseteq Native /\ repoType \in Repos /\ Seen' = Seen
  BY <1>1 DEF IInv, TypeOK, Native, Seen, Unstopped
<1>7. tun' \in BOOLEAN /\ (overruns' \/ late' = {})
  BY <1>1, Zenon DEF IInv, TypeOK
<1>8. CASE kind' = c /\ type' = TunnelType(c) /\ proxyOnly' \in BOOLEAN /\ todo' = connectOf(c)
           /\ fault' = FALSE
  <2>0. PICK b \in BOOLEAN : b <=> c \in BridgeForgotten
    OBVIOUS
  <2> DEFINE n == Program(c, b)'
  <2>1. n.k = c /\ (n.k \in BridgeForgotten => n.lax)
    BY <2>0 DEF Program
  <2> HIDE DEF n, p
  <2>2. Safe(n, connectOf(n.k), RefOf(TunnelType(n.k)) \cup {"tun", "profile"}, {"profile"},
            repoType)
    BY <1>4, <1>6, <2>1, ConnectSafe
  <2>3. Held' \subseteq RefOf(TunnelType(c)) \cup {"tun", "profile"}
    <3>1. Held' \subseteq Held \cup {"profile"}
      BY <1>1, <1>6 DEF Held, Noted
    <3> QED BY <1>3, <3>1
  <2>4. {"profile"} \subseteq Have'
    BY <1>4, <1>8 DEF Have, Noted, AllKinds
  <2>5. Runs(n, todo', Held', Have', repoType')
    BY <1>1, <1>8, <2>1, <2>2, <2>3, <2>4, SafeRuns, RunsWeaken
  <2>6. Ordered'
    BY <1>1, <1>4, <1>5, <1>6, <1>8 DEF IInv, Ordered, AllKinds
  <2>7. LaxOnly(b)'
    BY <1>1, <1>4, <1>8, <2>0 DEF LaxOnly
  <2>8. phase' \in {"starting", "restarting", "blocking", "stopping"} /\ fault' \in BOOLEAN
    BY <1>1, <1>4, <1>8
  <2>9. Runs(Program(c, b)', todo', Held', Have', repoType')
    BY <2>5 DEF n
  <2> QED BY <1>3, <1>4, <1>6, <1>7, <1>8, <2>6, <2>7, <2>8, <2>9, ProgramState
<1>9. CASE todo' = <<StopSelf>> /\ UNCHANGED <<kind, type, proxyOnly, fault>>
  <2>1. Safe(p, <<StopSelf>>, Held, Have, repoType)
    BY <1>3, <1>5, RuleStopSelf
  <2>2. Held' = Held /\ Have' = Have
    BY <1>1, <1>6, <1>9 DEF Held, Have, Noted
  <2>3. Runs(p, todo', Held, Have, repoType')
    BY <1>1, <1>9, <2>1, SafeRuns
  <2>4. Ordered'
    BY <1>1, <1>6, <1>9, <2>2 DEF IInv, Ordered
  <2> HIDE DEF p
  <2> QED BY <1>1, <1>2, <1>6, <1>7, <1>9, <2>2, <2>3, <2>4, MidStep DEF p
<1> QED BY <1>c, <1>8, <1>9 DEF AcceptProfile

\* FinishConnection: all parts of the tunnel run.
LEMMA FinishConnectionStep ==
    ASSUME IInv, FinishConnection
    PROVE  IInv'
<1>1. todo # <<>> /\ UNCHANGED <<kind, type, repoType, proxyOnly, tun, refs, late, fault, overruns>>
      /\ phase' = "connected" /\ running' \in {running, running \cup {"Http"}}
  BY DEF FinishConnection, Step
<1>2. PICK k \in AllKinds, lax \in BOOLEAN :
              /\ ForKind(k) /\ LaxOnly(lax)
              /\ Runs(Program(k, lax), todo, Held, Have, repoType)
  BY <1>1, Current
<1> DEFINE p == Program(k, lax)
<1>3. /\ todo' = <<>> /\ {"profile"} \cup RefOf(TunnelType(p.k)) \subseteq Have
      /\ (p.loose /\ p.k \in PortOnly) \/ Needs(p.k) \subseteq Have
  BY <1>2, NextFinish DEF Step, FinishConnection, Proceed
<1>4. p.k = k /\ p.loose = Loose
  BY DEF Program
<1> HIDE DEF p
<1>5. kind = k /\ type = TunnelType(k)
  BY <1>2, <1>3, HaveIs DEF ForKind
<1>6. (Loose /\ kind \in PortOnly) \/ Needs(kind) \subseteq running
  <2>1. Needs(k) \subseteq Components
    BY DEF Needs, AllKinds, Components, Clients, Listeners
  <2> QED BY <1>3, <1>4, <1>5, <2>1, HaveIs
<1>7. /\ late' \subseteq Clients \cup Listeners /\ running' \subseteq Components
      /\ refs' \subseteq Native /\ repoType' \in Repos /\ Noted' = Noted
      /\ Seen' \subseteq Seen \cup {"Http"} /\ kind' \in Kinds \cup {"none"}
      /\ (k = "VLESS_REALITY" => "VLESS_REALITY" \in Kinds)
  BY <1>1, <1>2, Names DEF IInv, TypeOK, Native, Seen, Unstopped, Noted, ForKind
<1>8. /\ tun' \in BOOLEAN /\ (overruns' \/ late' = {}) /\ fault' \in BOOLEAN
      /\ proxyOnly' \in BOOLEAN
  BY <1>1, Zenon DEF IInv, TypeOK
<1>9. kind # "none"
  BY <1>3, HaveIs
<1>10. Held' \subseteq Returned(type') /\ RefOf(type') \subseteq Have'
  <2>1. Held' \subseteq Held \cup {"Http"} /\ Have \subseteq Have'
    BY <1>1, <1>7 DEF Held, Have
  <2> QED BY <1>1, <1>2, <1>3, <1>4, <1>5, <2>1 DEF ForKind, Returned
<1>11. Ordered'
  BY <1>1, <1>7, <1>9 DEF IInv, Ordered, Native
<1>12. Loose' = Loose /\ Needs(kind)' = Needs(kind)
  BY <1>1 DEF Loose, Needs
<1>13. Reached'
  BY <1>1, <1>6, <1>9, <1>10, <1>12 DEF Reached
<1> QED BY <1>1, <1>3, <1>5, <1>7, <1>8, <1>10, <1>11, <1>13, EndState

\* EndProgram: each end is reached with what it promises.
LEMMA EndProgramStep ==
    ASSUME IInv, EndProgram
    PROVE  IInv'
<1>1. todo # <<>> /\ UNCHANGED <<repoType, running, tun, refs, late, fault, overruns>>
      /\ todo' = Tail(todo)
  BY DEF EndProgram, Step, Proceed
<1>2. PICK k \in AllKinds, lax \in BOOLEAN :
              /\ ForKind(k) /\ LaxOnly(lax)
              /\ Runs(Program(k, lax), todo, Held, Have, repoType)
  BY <1>1, Current
<1> DEFINE p == Program(k, lax)
<1>3. p.k = k /\ p.lax = lax
  BY DEF Program
<1>4. /\ late' \subseteq Clients \cup Listeners /\ running' \subseteq Components
      /\ refs' \subseteq Native /\ repoType' \in Repos
      /\ Seen' = Seen /\ kind \in Kinds \cup {"none"}
      /\ (k = "VLESS_REALITY" => "VLESS_REALITY" \in Kinds)
  BY <1>1, <1>2, Names DEF IInv, TypeOK, Native, Seen, Unstopped, ForKind
<1>5. /\ tun' \in BOOLEAN /\ (overruns' \/ late' = {}) /\ fault' \in BOOLEAN
      /\ proxyOnly \in BOOLEAN
  BY <1>1, Zenon DEF IInv, TypeOK
<1>6. kind \in {k, "none"} /\ type = TunnelType(k) /\ Held \subseteq Returned(type)
  BY <1>2 DEF ForKind
<1> HIDE DEF p
<1>7. CASE UNCHANGED <<kind, type, proxyOnly>>
           /\ \/ Step("broken") /\ phase' = "broken"
              \/ Step("stopSelf") /\ phase' = "stopped"
  <2>1. Held' = Held /\ Have' = Have
    BY <1>1, <1>4, <1>7 DEF Held, Have, Noted
  <2>2. Ordered'
    BY <1>1, <1>4, <1>7, <2>1 DEF IInv, Ordered
  <2>3. todo' = <<>> /\ Reached'
    <3>1. CASE Step("broken") /\ phase' = "broken"
      <4>1. todo' = <<>> /\ ("profile" \in Held => RefOf(TunnelType(p.k)) \subseteq Have)
        BY <1>2, <3>1, NextBroken DEF Step, EndProgram, Proceed, p
      <4>2. kind # "none" => "profile" \in Held
        BY DEF Held, Noted
      <4> QED BY <1>3, <1>6, <1>7, <2>1, <3>1, <4>1, <4>2 DEF Reached
    <3>2. CASE Step("stopSelf") /\ phase' = "stopped"
      <4>1. todo' = <<>> /\ (p.lax \/ Held \cap Listeners = {})
        BY <1>2, <3>2, NextStopSelf DEF Step, EndProgram, Proceed, p
      <4>2. lax => kind \in BridgeForgotten
        BY <1>2 DEF LaxOnly
      <4> QED BY <1>3, <1>7, <2>1, <3>2, <4>1, <4>2 DEF Reached
    <3> QED BY <1>7, <3>1, <3>2
  <2>4. proxyOnly' \in BOOLEAN /\ kind' \in {k, "none"} /\ kind' \in Kinds \cup {"none"}
        /\ type' = TunnelType(k) /\ Held' \subseteq Returned(type')
    BY <1>4, <1>5, <1>6, <1>7, <2>1
  <2>5. phase' \in {"idle", "connected", "broken", "stopped"}
    BY <1>7
  <2> QED BY <1>4, <1>5, <2>2, <2>3, <2>4, <2>5, EndState
<1>8. CASE Step("forget") /\ kind' = "none" /\ UNCHANGED <<phase, type, proxyOnly>>
  <2>1. ~p.lax /\ Held \subseteq {"profile"} /\ Runs(p, todo', {}, {}, repoType)
    BY <1>1, <1>2, <1>8, NextForget DEF Step, p
  <2>2. Seen = {} /\ ~tun /\ "Slipstream" \notin refs /\ "Dnstt" \notin refs
    <3>1. "profile" \notin Seen
      BY <1>1, <1>4, SeenIs, Names
    <3> QED BY <2>1, <3>1 DEF Held, Noted
  <2>3. Held' = {}
    BY <1>1, <1>4, <1>8, <2>2 DEF Held, Noted
  <2>4. Ordered'
    BY <1>1, <1>4, <1>8, <2>3 DEF IInv, Ordered
  <2>5. Program(k, lax)' = p /\ lax = FALSE
    BY <1>1, <1>2, <1>3, <1>8, <2>1 DEF p, Program, Loose
  <2>6. Runs(Program(k, lax)', todo', Held', Have', repoType')
    BY <1>1, <2>1, <2>3, <2>5, RunsWeaken
  <2>7. LaxOnly(lax)'
    BY <2>5 DEF LaxOnly
  <2>8. phase' \in {"starting", "restarting", "blocking", "stopping"}
    BY <1>1, <1>8 DEF IInv, TypeOK, Phases
  <2>9. proxyOnly' \in BOOLEAN /\ kind' \in {k, "none"} /\ kind' \in Kinds \cup {"none"}
        /\ type' = TunnelType(k)
    BY <1>5, <1>6, <1>8
  <2> QED BY <1>4, <1>5, <2>4, <2>6, <2>7, <2>8, <2>9, ProgramState
<1>9. CASE Step("gone") /\ phase' = "idle" /\ type' = "SLIPSTREAM" /\ proxyOnly' = FALSE
           /\ UNCHANGED kind
  <2>1. todo' = <<>> /\ Held = {}
    BY <1>2, <1>9, NextGone DEF Step, EndProgram, Proceed, p
  <2>2. kind = "none" /\ Held' = {}
    BY <1>1, <1>4, <1>9, <2>1 DEF Held, Noted
  <2>3. "SLIPSTREAM" \in AllKinds /\ TunnelType("SLIPSTREAM") = "SLIPSTREAM"
    BY DEF AllKinds, TunnelType
  <2>4. "Hev" \notin running
    BY <2>1, SeenIs DEF Held
  <2>5. Ordered'
    BY <1>1, <1>4, <1>9, <2>2, <2>4 DEF IInv, Ordered
  <2>6. Reached'
    BY <1>9, <2>2 DEF Reached
  <2>7. proxyOnly' \in BOOLEAN
    BY <1>9
  <2>8. Held' \subseteq Returned(type') /\ phase' \in {"idle", "connected", "broken", "stopped"}
    BY <1>9, <2>2
  <2>9. kind' \in {"SLIPSTREAM", "none"} /\ kind' \in Kinds \cup {"none"}
    BY <1>9, <2>2
  <2> QED BY <1>4, <1>5, <1>9, <2>1, <2>3, <2>5, <2>6, <2>7, <2>8, <2>9, EndState
<1> QED BY <1>7, <1>8, <1>9 DEF EndProgram

-----------------------------------------------------------------------------
(* What starts a program.                                                  *)

\* A cancelled start is a client or a listener.
LEMMA CancelTypes ==
    ASSUME IInv, Cancel, overruns' = overruns
    PROVE  late' \subseteq Clients \cup Listeners /\ (overruns' \/ late' = {})
<1>1. CASE late' = late
  <2>1. late' \subseteq Clients \cup Listeners
    BY <1>1 DEF IInv, TypeOK
  <2>2. overruns' \/ late' = {}
    BY <1>1, Zenon DEF IInv, TypeOK
  <2> QED BY <2>1, <2>2
<1>2. CASE late' # late
  <2>1. overruns /\ late = {} /\ Step("start") /\ late' = late \cup {Component}
    BY <1>2 DEF Cancel
  <2>2. PICK k \in AllKinds, lax \in BOOLEAN :
                /\ ForKind(k) /\ LaxOnly(lax)
                /\ Runs(Program(k, lax), todo, Held, Have, repoType)
    BY <2>1, Current DEF Step
  <2>3. Component \in Clients \cup Listeners
    BY <2>1, <2>2, NextStart DEF Step, Component
  <2> QED BY <2>1, <2>3
<1> QED BY <1>1, <1>2

\* A program for the current kind is started, and does not touch the state yet.
LEMMA BeginStep ==
    ASSUME IInv, UNCHANGED <<kind, type, repoType, proxyOnly, running, tun, refs, overruns>>,
           fault' \in BOOLEAN, phase' \in {"starting", "restarting", "blocking", "stopping"},
           late' \subseteq Clients \cup Listeners, overruns' \/ late' = {},
           NEW k \in AllKinds, ForKind(k), NEW lax \in BOOLEAN, LaxOnly(lax)',
           Safe([k |-> k, lax |-> lax, loose |-> Loose, late |-> overruns, phase |-> phase'],
                todo', Held, Have, repoType)
    PROVE  IInv'
<1>1. Held' = Held /\ Have' = Have /\ Seen' = Seen
  BY DEF Held, Have, Seen, Noted, Unstopped
<1>2. Ordered'
  BY <1>1 DEF IInv, Ordered
<1>3. Program(k, lax)' = [k |-> k, lax |-> lax, loose |-> Loose, late |-> overruns,
          phase |-> phase']
  BY DEF Program, Loose
<1>4. Runs(Program(k, lax)', todo', Held', Have', repoType')
  BY <1>1, <1>3, SafeRuns
<1>5. /\ kind' \in {k, "none"} /\ kind' \in Kinds \cup {"none"} /\ type' = TunnelType(k)
      /\ running' \subseteq Components /\ refs' \subseteq Native
      /\ (k = "VLESS_REALITY" => "VLESS_REALITY" \in Kinds)
  BY DEF IInv, TypeOK, ForKind, Native
<1>6. proxyOnly' \in BOOLEAN /\ tun' \in BOOLEAN
  BY Zenon DEF IInv, TypeOK
<1> QED BY <1>2, <1>4, <1>5, <1>6, ProgramState

\* The kind of the profile, and what is held within its bounds.
LEMMA Settled ==
    ASSUME IInv
    PROVE  \E k \in AllKinds :
              /\ ForKind(k) /\ kind \in {k, "none"} /\ type = TunnelType(k) /\ type \in Types
              /\ Held \subseteq Returned(type) /\ Held \subseteq Taken(k) /\ repoType \in Repos
              /\ (proxyOnly => "Hev" \notin Held)
<1>1. PICK k \in AllKinds : ForKind(k)
  BY DEF IInv
<1>2. Held \subseteq Taken(k) /\ type \in Types
  BY <1>1, TypesOfKinds DEF ForKind, Taken
<1>3. repoType \in Repos /\ running \subseteq Components /\ (proxyOnly => "Hev" \notin running)
  BY DEF IInv, Ordered, TypeOK
<1>4. proxyOnly => "Hev" \notin Held
  BY <1>3, HeldIs, SeenIs, Names
<1> QED BY <1>1, <1>2, <1>3, <1>4 DEF ForKind

\* cleanupConnection() followed by an end that needs nothing.
LEMMA CleanupThen ==
    ASSUME IInv, NEW p, ~p.lax, p.k \in AllKinds, type = TunnelType(p.k),
           Held \subseteq Taken(p.k), NEW up, up \subseteq Held, NEW low,
           NEW q, Safe(p, q, {}, {}, repoType)
    PROVE  /\ IsSeq(CleanupConnection(type, proxyOnly))
           /\ Safe(p, CleanupConnection(type, proxyOnly) \o q, up, low, repoType)
<1>1. PICK k \in AllKinds : /\ type \in Types
              /\ Held \subseteq Returned(type) /\ repoType \in Repos
              /\ (proxyOnly => "Hev" \notin Held)
  BY Settled
<1>2. Within(p, up, repoType) /\ up \subseteq Returned(type) /\ (proxyOnly => "Hev" \notin up)
  BY <1>1 DEF Within, Repos
<1> QED BY <1>1, <1>2, CleanupSafe

\* Disconnect: the cleanup leaves nothing, and the service stops.
LEMMA DisconnectStep ==
    ASSUME IInv, Disconnect
    PROVE  IInv'
<1>1. PICK k \in AllKinds :
              /\ ForKind(k) /\ kind \in {k, "none"} /\ type = TunnelType(k) /\ type \in Types
              /\ Held \subseteq Returned(type) /\ Held \subseteq Taken(k) /\ repoType \in Repos
              /\ (proxyOnly => "Hev" \notin Held)
  BY Settled
<1> DEFINE p == [k |-> k, lax |-> FALSE, loose |-> Loose, late |-> overruns, phase |-> "stopping"]
<1>2. p.k = k /\ p.lax = FALSE
  OBVIOUS
<1> HIDE DEF p
<1>3. Within(p, {}, repoType)
  BY <1>1 DEF Within, Repos
<1>4. Safe(p, <<StopSelf>>, {}, {}, repoType)
  BY <1>3, RuleStopSelf
<1>5. Safe(p, CleanupConnection(type, proxyOnly) \o <<StopSelf>>, Held, Have, repoType)
  BY <1>1, <1>2, <1>4, CleanupThen
<1>6. UNCHANGED <<kind, type, repoType, proxyOnly, running, tun, refs, overruns>>
      /\ phase' = "stopping" /\ todo' = CleanupConnection(type, proxyOnly) \o <<StopSelf>>
  BY DEF Disconnect
<1>7. fault' \in BOOLEAN
  BY Zenon DEF Disconnect, IInv, TypeOK
<1>8. late' \subseteq Clients \cup Listeners /\ (overruns' \/ late' = {})
  BY <1>6, CancelTypes DEF Disconnect
<1>9. LaxOnly(FALSE)'
  BY DEF LaxOnly
<1>10. Safe([k |-> k, lax |-> FALSE, loose |-> Loose, late |-> overruns, phase |-> phase'],
            todo', Held, Have, repoType)
  BY <1>5, <1>6 DEF p
<1> QED BY <1>1, <1>6, <1>7, <1>8, <1>9, <1>10, BeginStep

\* TunnelFailure: the same, and either end needs nothing.
LEMMA TunnelFailureStep ==
    ASSUME IInv, TunnelFailure
    PROVE  IInv'
<1>1. PICK k \in AllKinds :
              /\ ForKind(k) /\ kind \in {k, "none"} /\ type = TunnelType(k) /\ type \in Types
              /\ Held \subseteq Returned(type) /\ Held \subseteq Taken(k) /\ repoType \in Repos
              /\ (proxyOnly => "Hev" \notin Held)
  BY Settled
<1> DEFINE p == [k |-> k, lax |-> FALSE, loose |-> Loose, late |-> overruns, phase |-> "stopping"]
<1>2. p.k = k /\ p.lax = FALSE
  OBVIOUS
<1> HIDE DEF p
<1>3. Within(p, {}, repoType)
  BY <1>1 DEF Within, Repos
<1>4. Safe(p, <<StopSelf>>, {}, {}, repoType) /\ Safe(p, <<Broken>>, {}, {}, repoType)
  BY <1>3, RuleStopSelf, RuleBroken
<1>5. PICK end \in {StopSelf, Broken} : todo' = CleanupConnection(type, proxyOnly) \o <<end>>
  BY DEF TunnelFailure
<1>6. UNCHANGED <<kind, type, repoType, proxyOnly, running, tun, refs, overruns>>
      /\ phase' = "stopping"
  BY DEF TunnelFailure
<1>7. Safe(p, <<end>>, {}, {}, repoType)
  BY <1>4, <1>5
<1>8. Safe(p, todo', Held, Have, repoType)
  BY <1>1, <1>2, <1>5, <1>7, CleanupThen
<1>9. fault' \in BOOLEAN /\ (overruns' \/ late' = {})
  BY Zenon DEF TunnelFailure, IInv, TypeOK
<1>10. late' \subseteq Clients \cup Listeners
  BY DEF TunnelFailure, IInv, TypeOK
<1>11. LaxOnly(FALSE)'
  BY DEF LaxOnly
<1>12. Safe([k |-> k, lax |-> FALSE, loose |-> Loose, late |-> overruns, phase |-> phase'],
            todo', Held, Have, repoType)
  BY <1>6, <1>8 DEF p
<1> QED BY <1>1, <1>6, <1>9, <1>10, <1>11, <1>12, BeginStep

\* OnDestroy: the cleanup leaves nothing to the next instance.
LEMMA OnDestroyStep ==
    ASSUME IInv, OnDestroy
    PROVE  IInv'
<1>1. PICK k \in AllKinds :
              /\ ForKind(k) /\ kind \in {k, "none"} /\ type = TunnelType(k) /\ type \in Types
              /\ Held \subseteq Returned(type) /\ Held \subseteq Taken(k) /\ repoType \in Repos
              /\ (proxyOnly => "Hev" \notin Held)
  BY Settled
<1> DEFINE p == [k |-> k, lax |-> FALSE, loose |-> Loose, late |-> overruns, phase |-> "stopping"]
           C == CleanupConnection(type, proxyOnly)
           up == Held \ {"Http"}
           low == Have \ {"Http"}
           end == <<Do("gone", "-")>>
           h == <<Stop("Http")>>
<1>2. p.k = k /\ p.lax = FALSE /\ up \subseteq Held
  OBVIOUS
<1> HIDE DEF p
<1>3. Within(p, {}, repoType) /\ Within(p, Held, repoType)
  BY <1>1, <1>2 DEF Within, Repos
<1>4. Safe(p, end, {}, {}, repoType)
  BY <1>3, RuleGone
<1>5. IsSeq(C) /\ Safe(p, C \o end, up, low, repoType)
  <2> HIDE DEF end, up, low
  <2> QED BY <1>1, <1>2, <1>4, CleanupThen
<1>6. FrontFirst(p, "Http", Held)
  BY FrontFirstListener DEF Components, Clients
<1>7. Safe(p, h \o (C \o end), Held, Have, repoType)
  <2> DEFINE q == C \o end
  <2>1. Safe(p, q, up, low,
            repoType) /\ Held \ {"Http"} \subseteq up /\ low \subseteq Have \ {"Http"}
    BY <1>5
  <2> HIDE DEF q, up, low
  <2>2. Safe(p, <<Stop("Http")>> \o q, Held, Have, repoType)
    BY <1>3, <1>6, <2>1, RuleStop
  <2> QED BY <2>2 DEF q
<1>8. IsSeq(h) /\ IsSeq(end)
  BY Seq1
<1>9. UNCHANGED <<kind, type, repoType, proxyOnly, running, tun, refs, overruns>>
      /\ phase' = "stopping" /\ todo' = (h \o C) \o end
  BY DEF OnDestroy
<1> HIDE DEF h, C, end, up, low
<1>10. todo' = h \o (C \o end)
  BY <1>5, <1>8, <1>9, Regroup, SMTT(40)
<1>11. fault' \in BOOLEAN /\ (overruns' \/ late' = {})
  BY Zenon DEF OnDestroy, IInv, TypeOK
<1>12. late' \subseteq Clients \cup Listeners
  BY DEF OnDestroy, IInv, TypeOK
<1>13. LaxOnly(FALSE)'
  BY DEF LaxOnly
<1>14. Safe([k |-> k, lax |-> FALSE, loose |-> Loose, late |-> overruns, phase |-> phase'],
            todo', Held, Have, repoType)
  BY <1>7, <1>9, <1>10 DEF p
<1> QED BY <1>1, <1>9, <1>11, <1>12, <1>13, <1>14, BeginStep

\* EnterKillSwitchMode: tun2socks and the proxy are stopped, the interface and the
\* references stay.
LEMMA EnterKillSwitchModeStep ==
    ASSUME IInv, EnterKillSwitchMode
    PROVE  IInv'
<1>1. PICK k \in AllKinds :
              /\ ForKind(k) /\ kind \in {k, "none"} /\ type = TunnelType(k) /\ type \in Types
              /\ Held \subseteq Returned(type) /\ Held \subseteq Taken(k) /\ repoType \in Repos
              /\ (proxyOnly => "Hev" \notin Held)
  BY Settled
<1> DEFINE p == [k |-> k, lax |-> FALSE, loose |-> Loose, late |-> overruns, phase |-> "blocking"]
           C == StopCurrentProxy(type)
           N == {"Http"} \cup Parts(type)
           up == Held \ {"Hev"}
           low == Have \ {"Hev"}
           up2 == up \ N
           low2 == low \ N
           end == <<Broken>>
           h == <<Stop("Hev")>>
<1>2. p.k = k /\ p.lax = FALSE
  OBVIOUS
<1> HIDE DEF p
<1>3. Within(p, Held, repoType) /\ Within(p, up, repoType) /\ Within(p, up2, repoType)
  BY <1>1, <1>2 DEF Within, Repos
<1>4. kind # "none" => RefOf(type) \subseteq Have
  BY DEF EnterKillSwitchMode, IInv, Reached
<1>5. "profile" \in up2 => kind # "none"
  BY Names, HeldIs, SeenIs DEF IInv, TypeOK
<1>6. RefOf(type) \cap (N \cup {"Hev"}) = {}
  BY <1>1 DEF RefOf, Parts, Types
<1>7. "profile" \in up2 => RefOf(TunnelType(p.k)) \subseteq low2
  BY <1>1, <1>2, <1>4, <1>5, <1>6
<1>8. Safe(p, end, up2, low2, repoType)
  <2> HIDE DEF up2, low2
  <2> QED BY <1>3, <1>7, RuleBroken
<1>9. IsSeq(C) /\ Safe(p, C \o end, up, low, repoType)
  <2>1. up \subseteq Returned(type) /\ Safe(p, end, up \ ({"Http"} \cup Parts(type)),
            low \ ({"Http"} \cup Parts(type)), repoType)
    BY <1>1, <1>8
  <2> HIDE DEF up, low, end
  <2> QED BY <1>1, <1>3, <2>1, StopProxySafe
<1>10. FrontFirst(p, "Hev", Held)
  BY FrontFirstListener DEF Components, Clients
<1>11. Safe(p, h \o (C \o end), Held, Have, repoType)
  <2> DEFINE q == C \o end
  <2>1. Safe(p, q, up, low, repoType) /\ Held \ {"Hev"} \subseteq up /\ low \subseteq Have \ {"Hev"}
    BY <1>9
  <2> HIDE DEF q, up, low
  <2>2. Safe(p, <<Stop("Hev")>> \o q, Held, Have, repoType)
    BY <1>3, <1>10, <2>1, RuleStop
  <2> QED BY <2>2 DEF q
<1>12. IsSeq(h) /\ IsSeq(end)
  BY Seq1
<1>13. UNCHANGED <<kind, type, repoType, proxyOnly, running, tun, refs, overruns>>
      /\ phase' = "blocking" /\ todo' = (h \o C) \o end
  BY DEF EnterKillSwitchMode
<1> HIDE DEF h, C, end, up, low
<1>14. todo' = h \o (C \o end)
  BY <1>9, <1>12, <1>13, Regroup, SMTT(40)
<1>15. fault' \in BOOLEAN /\ (overruns' \/ late' = {})
  BY Zenon DEF EnterKillSwitchMode, IInv, TypeOK
<1>16. late' \subseteq Clients \cup Listeners
  BY DEF EnterKillSwitchMode, IInv, TypeOK
<1>17. LaxOnly(FALSE)'
  BY DEF LaxOnly
<1>18. Safe([k |-> k, lax |-> FALSE, loose |-> Loose, late |-> overruns, phase |-> phase'],
            todo', Held, Have, repoType)
  BY <1>11, <1>13, <1>14 DEF p
<1> QED BY <1>1, <1>13, <1>15, <1>16, <1>17, <1>18, BeginStep

\* NetworkChanges: what the restart counts on is there.
LEMMA NetworkChangesStep ==
    ASSUME IInv, NetworkChanges
    PROVE  IInv'
<1>1. PICK k \in AllKinds :
              /\ ForKind(k) /\ kind \in {k, "none"} /\ type = TunnelType(k) /\ type \in Types
              /\ Held \subseteq Returned(type) /\ Held \subseteq Taken(k) /\ repoType \in Repos
              /\ (proxyOnly => "Hev" \notin Held)
  BY Settled
<1>2. PICK b \in BOOLEAN : b <=> k \in BridgeForgotten
  OBVIOUS
<1> DEFINE p == [k |-> k, lax |-> b, loose |-> Loose, late |-> overruns, phase |-> "restarting"]
<1>3. p.k = k /\ (p.k \in BridgeForgotten => p.lax)
  BY <1>2
<1> HIDE DEF p
<1>4. Safe(p, HandleNetworkChange(type), Returned(type), Kept(type), repoType)
  BY <1>1, <1>3, NetworkChangeSafe
<1>5. kind = k /\ Kept(type) \subseteq Have
  <2>1. phase \in {"connected", "broken"} /\ kind # "none"
    BY DEF NetworkChanges
  <2>2. RefOf(type) \subseteq Have /\ "profile" \in Have
    BY <2>1 DEF IInv, Reached, Have, Noted
  <2> QED BY <1>1, <2>1, <2>2 DEF Kept
<1>6. Safe(p, HandleNetworkChange(type), Held, Have, repoType)
  BY <1>1, <1>4, <1>5, SafeWeaken
<1>7. UNCHANGED <<kind, type, repoType, proxyOnly, running, tun, refs, overruns>>
      /\ phase' = "restarting" /\ todo' = HandleNetworkChange(type)
  BY DEF NetworkChanges
<1>8. fault' \in BOOLEAN /\ (overruns' \/ late' = {})
  BY Zenon DEF NetworkChanges, IInv, TypeOK
<1>9. late' \subseteq Clients \cup Listeners
  BY DEF NetworkChanges, IInv, TypeOK
<1>10. LaxOnly(b)'
  BY <1>2, <1>5, <1>7 DEF LaxOnly
<1>11. Safe([k |-> k, lax |-> b, loose |-> Loose, late |-> overruns, phase |-> phase'],
            todo', Held, Have, repoType)
  BY <1>6, <1>7 DEF p
<1> QED BY <1>1, <1>7, <1>8, <1>9, <1>10, <1>11, BeginStep

\* Connect: all bridges are stopped, and what is left suits the accepted profile.
LEMMA ConnectStep ==
    ASSUME IInv, NEW j \in Kinds, NEW same \in BOOLEAN, Connect(j, same)
    PROVE  IInv'
<1>1. PICK k \in AllKinds :
              /\ ForKind(k) /\ kind \in {k, "none"} /\ type = TunnelType(k) /\ type \in Types
              /\ Held \subseteq Returned(type) /\ Held \subseteq Taken(k) /\ repoType \in Repos
              /\ (proxyOnly => "Hev" \notin Held)
  BY Settled
<1> DEFINE p == [k |-> k, lax |-> FALSE, loose |-> Loose, late |-> overruns, phase |-> "starting"]
           A == StopAllBridges(type)
           C == IF kind = "none" \/ same THEN <<>> ELSE CleanupConnection(type, proxyOnly)
           end == <<Do("accept", j)>>
           u == Held \cap (RefOf(type) \cup {"tun", "profile"})
<1>2. p.k = k /\ p.lax = FALSE /\ p.phase = "starting" /\ p.late = overruns /\ u \subseteq Held
  OBVIOUS
<1> HIDE DEF p
<1>3. Within(p, Held, repoType) /\ Within(p, u, repoType) /\ Within(p, {}, repoType)
  BY <1>1, <1>2 DEF Within, Repos
<1>4. p.late => j \in LateKinds
  BY <1>2 DEF Connect
<1>5. "none" \notin Kinds
  BY KindsAssumption DEF AllKinds
<1>6. IsSeq(end)
  BY Seq1
<1>7. IsSeq(C) /\ Safe(p, C \o end, u, {}, repoType)
  <2>1. CASE kind = "none" \/ same
    <3>1. u \subseteq RefOf(TunnelType(j)) \cup {"tun", "profile"}
      <4>1. CASE kind = "none"
        <5>1. Held = {}
          BY <4>1 DEF IInv, Ordered
        <5> QED BY <5>1
      <4>2. CASE same
        <5>1. kind = j
          BY <4>2 DEF Connect
        <5> QED BY <1>1, <1>5, <5>1
      <4> QED BY <2>1, <4>1, <4>2
    <3>2. Safe(p, end, u, {}, repoType)
      <4> HIDE DEF u
      <4> QED BY <1>2, <1>3, <1>4, <3>1, RuleAccept
    <3>3. C = <<>> /\ IsSeq(<<>>)
      BY <2>1, Seq0
    <3>4. <<>> \o end = end
      <4>1. end \in Seq({Do("accept", j)})
        OBVIOUS
      <4> HIDE DEF end
      <4> QED BY <4>1, ConcatEmptySeq
    <3> HIDE DEF C, end, u
    <3> QED BY <3>2, <3>3, <3>4
  <2>2. CASE ~(kind = "none" \/ same)
    <3>1. Safe(p, end, {}, {}, repoType)
      BY <1>2, <1>3, <1>4, RuleAccept
    <3>2. C = CleanupConnection(type, proxyOnly)
      BY <2>2
    <3> HIDE DEF C, end, u
    <3> QED BY <1>1, <1>2, <3>1, <3>2, CleanupThen
  <2> QED BY <2>1, <2>2
<1>8. IsSeq(A) /\ Safe(p, A \o (C \o end), Held, Have, repoType)
  <2> DEFINE q == C \o end
  <2>1. Safe(p, q, u, {}, repoType) /\ Held \cap (RefOf(type) \cup {"tun", "profile"}) \subseteq u
    BY <1>7
  <2> HIDE DEF q, u
  <2>2. IsSeq(StopAllBridges(type)) /\ Safe(p, StopAllBridges(type) \o q, Held, Have, repoType)
    BY <1>1, <1>3, <2>1, AllBridgesSafe
  <2> QED BY <2>2 DEF q
<1>9. UNCHANGED <<kind, type, repoType, proxyOnly, running, tun, refs, overruns>>
      /\ phase' = "starting" /\ todo' = (A \o C) \o end
  BY DEF Connect
<1> HIDE DEF A, C, end, u
<1>10. todo' = A \o (C \o end)
  BY <1>6, <1>7, <1>8, <1>9, Regroup, SMTT(40)
<1>11. fault' \in BOOLEAN
  BY Zenon DEF Connect, IInv, TypeOK
<1>12. late' \subseteq Clients \cup Listeners /\ (overruns' \/ late' = {})
  BY <1>9, CancelTypes DEF Connect
<1>13. LaxOnly(FALSE)'
  BY DEF LaxOnly
<1>14. Safe([k |-> k, lax |-> FALSE, loose |-> Loose, late |-> overruns, phase |-> phase'],
            todo', Held, Have, repoType)
  BY <1>8, <1>9, <1>10 DEF p
<1> QED BY <1>1, <1>9, <1>11, <1>12, <1>13, <1>14, BeginStep

\* ComponentDies: less runs, and a reference is not lost with its client.
LEMMA ComponentDiesStep ==
    ASSUME IInv, ComponentDies
    PROVE  IInv'
<1>1. PICK k \in AllKinds : ForKind(k)
  BY DEF IInv
<1>2. PICK c \in running : running' = running \ {c}
  BY DEF ComponentDies
<1>3. UNCHANGED <<kind, type, repoType, proxyOnly, phase, todo, tun, refs, late, overruns>>
      /\ phase = "connected" /\ fault' = TRUE
  BY DEF ComponentDies
<1>4. /\ kind' \in {k, "none"} /\ kind' \in Kinds \cup {"none"} /\ type' = TunnelType(k)
      /\ (k = "VLESS_REALITY" => "VLESS_REALITY" \in Kinds)
      /\ late' \subseteq Clients \cup Listeners /\ running' \subseteq Components
      /\ refs' \subseteq Native /\ repoType' \in Repos /\ todo' = <<>>
      /\ Held \subseteq Returned(type)
  BY <1>1, <1>2, <1>3 DEF IInv, TypeOK, ForKind, Native
<1>5. proxyOnly' \in BOOLEAN /\ tun' \in BOOLEAN /\ (overruns' \/ late' = {}) /\ fault' \in BOOLEAN
  BY <1>3, Zenon DEF IInv, TypeOK
<1>6. Seen' \subseteq Seen /\ Noted' = Noted
  BY <1>2, <1>3 DEF Seen, Unstopped, Noted
<1>7. Held' \subseteq Held
  BY <1>3, <1>6 DEF Held
<1>8. Ordered'
  BY <1>2, <1>3, <1>6, <1>7 DEF IInv, Ordered
<1>9. RefOf(type) \subseteq Have'
  <2>1. kind # "none" /\ RefOf(type) \subseteq Have
    BY <1>3 DEF IInv, Reached
  <2>2. RefOf(type) \subseteq {"SlipstreamRef", "DnsttRef"}
    BY DEF RefOf
  <2>3. c \in Components
    BY <1>2 DEF IInv, TypeOK
  <2>4. Have \ {c} \subseteq Have'
    BY <1>2, <1>3, <1>6 DEF Have
  <2> QED BY <2>1, <2>2, <2>3, <2>4, Names
<1>10. kind # "none" /\ fault'
  BY <1>3 DEF IInv, Reached
<1>11. Reached'
  BY <1>3, <1>9, <1>10 DEF Reached
<1>12. Held' \subseteq Returned(type') /\ phase' \in {"idle", "connected", "broken", "stopped"}
  BY <1>3, <1>4, <1>7
<1> QED BY <1>4, <1>5, <1>8, <1>11, <1>12, EndState

\* LateStart: what a cancelled coroutine starts is not seen.
LEMMA LateStartStep ==
    ASSUME IInv, LateStart
    PROVE  IInv'
<1>1. PICK c \in late : running' = running \cup {c} /\ late' = late \ {c}
  BY DEF LateStart
<1>2. UNCHANGED <<kind, type, repoType, proxyOnly, phase, todo, tun, refs, fault, overruns>>
  BY DEF LateStart
<1>3. overruns /\ c \in Clients \cup Listeners /\ c \in Components /\ c # "Hev"
  BY Names DEF IInv, TypeOK
<1>4. Seen' = Seen /\ Noted' = Noted /\ running \subseteq running'
  BY <1>1, <1>2, <1>3 DEF Seen, Noted
<1>5. Held' = Held /\ Have \subseteq Have'
  BY <1>2, <1>4 DEF Held, Have
<1>6. TypeOK'
  <2>1. running' \subseteq Components /\ late' \subseteq Clients \cup Listeners
    BY <1>1, <1>3 DEF IInv, TypeOK
  <2>2. overruns'
    BY <1>2, <1>3
  <2>3. /\ kind' \in Kinds \cup {"none"} /\ type' \in {TunnelType(k) : k \in AllKinds}
        /\ repoType' \in {TunnelType(k) : k \in AllKinds} \cup {"none"} /\ phase' \in Phases
        /\ (todo' = <<>> <=> phase' \in {"idle", "connected", "broken", "stopped"})
        /\ refs' \subseteq {"Slipstream", "Dnstt"}
    BY <1>2 DEF IInv, TypeOK
  <2>4. proxyOnly' \in BOOLEAN /\ tun' \in BOOLEAN /\ fault' \in BOOLEAN
    BY <1>2, Zenon DEF IInv, TypeOK
  <2> QED BY <2>1, <2>2, <2>3, <2>4 DEF TypeOK
<1>7. Ordered'
  BY <1>1, <1>2, <1>3, <1>4, <1>5 DEF IInv, Ordered
<1>8. Loose' = Loose /\ Needs(kind)' = Needs(kind)
  BY <1>2 DEF Loose, Needs
<1>9. Reached'
  BY <1>2, <1>4, <1>5, <1>8 DEF IInv, Reached
<1>10. ASSUME NEW k \in AllKinds, ForKind(k) PROVE ForKind(k)'
  <2>1. ASSUME NEW lax \in BOOLEAN, LaxOnly(lax), Runs(Program(k, lax), todo, Held, Have, repoType)
        PROVE  LaxOnly(lax)' /\ Runs(Program(k, lax)', todo', Held', Have', repoType')
    <3>1. Program(k, lax)' = Program(k, lax) /\ LaxOnly(lax)'
      BY <1>2, <1>8, <2>1 DEF Program, LaxOnly
    <3>2. Runs(Program(k, lax), todo, Held, Have', repoType)
      BY <1>5, <2>1, RunsWeaken
    <3> QED BY <1>2, <1>5, <3>1, <3>2
  <2>2. Running(k) => Running(k)'
    BY <2>1 DEF Running
  <2> QED BY <1>2, <1>5, <1>10, <2>2 DEF ForKind
<1>11. repoType' \in Repos
  BY <1>2 DEF IInv
<1> QED BY <1>6, <1>7, <1>9, <1>10, <1>11 DEF IInv

\* A step that changes nothing.
LEMMA StutterStep ==
    ASSUME IInv, UNCHANGED vars
    PROVE  IInv'
<1>1. Held' = Held /\ Have' = Have /\ Seen' = Seen /\ Loose' = Loose /\ Needs(kind)' = Needs(kind)
  BY DEF vars, Held, Have, Seen, Noted, Unstopped, Loose, Needs
<1>2. TypeOK'
  BY DEF vars, IInv, TypeOK
<1>3. Ordered' /\ Reached'
  BY <1>1 DEF vars, IInv, Ordered, Reached
<1>4. ASSUME NEW k \in AllKinds, ForKind(k) PROVE ForKind(k)'
  <2>1. \A lax \in BOOLEAN : Program(k, lax)' = Program(k, lax) /\ (LaxOnly(lax) => LaxOnly(lax)')
    BY <1>1 DEF vars, Program, LaxOnly
  <2>2. Running(k) => Running(k)'
    BY <1>1, <2>1 DEF vars, Running
  <2> QED BY <1>1, <1>4, <2>2 DEF ForKind, vars
<1> QED BY <1>2, <1>3, <1>4 DEF IInv, vars

-----------------------------------------------------------------------------
(* The theorems.                                                           *)

\* Every step keeps the invariant.
LEMMA NextIInv ==
    ASSUME IInv, [Next]_vars
    PROVE  IInv'
<1>1. CASE ProgramStep
  BY <1>1, StopComponentStep, SetVpnServiceStep, SetCurrentTunnelTypeStep, StartComponentStep,
     WaitForProxyReadyStep, EstablishVpnInterfaceStep, CloseVpnInterfaceStep, StartTun2SocksStep,
     CheckTun2SocksStep, ProxyOnlySkipsStep, AcceptProfileStep, FinishConnectionStep,
     EndProgramStep DEF ProgramStep
<1>2. CASE \E k \in Kinds, same \in BOOLEAN : Connect(k, same)
  BY <1>2, ConnectStep
<1> QED BY <1>1, <1>2, DisconnectStep, NetworkChangesStep, EnterKillSwitchModeStep,
           TunnelFailureStep, OnDestroyStep, ComponentDiesStep, LateStartStep, StutterStep
        DEF Next

\* In every state the rest of the running program is safe for what the service
\* holds, and the end of each program has reached what it promises: for all sets of
\* kinds and any number of transports.
THEOREM ProgramsAreSafe == Spec => []IInv
<1>1. Init => IInv
  BY InitIInv
<1>2. IInv /\ [Next]_vars => IInv'
  BY NextIInv
<1> QED BY <1>1, <1>2, PTL DEF Spec

\* The references native code protects its sockets with are set before it is
\* started and cleared after it was stopped, on every path of every kind.
THEOREM NativeHasRefAlways == Spec => []NativeHasRef
<1>1. IInv => NativeHasRef
  <2> SUFFICES ASSUME IInv, ~overruns
               PROVE  TypeOK /\ running \cap {"Slipstream", "Dnstt"} \subseteq refs
    BY DEF NativeHasRef, IInv
  <2>1. running \ Unstopped \subseteq Seen /\ Seen \cap Native \subseteq refs
    BY SeenIs DEF IInv, Ordered
  <2> QED BY <2>1 DEF IInv, Unstopped, Native
<1> QED BY <1>1, ProgramsAreSafe, PTL

\* tun2socks never runs on an interface that a program has closed.
THEOREM TunOutlivesTun2SocksAlways == Spec => []TunOutlivesTun2Socks
<1>1. IInv => TunOutlivesTun2Socks
  BY DEF IInv, Ordered, TunOutlivesTun2Socks
<1> QED BY <1>1, ProgramsAreSafe, PTL

\* When the service is gone, the Reality proxy is the only component that can be
\* left of it: the interface is closed and no reference to the dead instance stays.
OnlyRealityLeft ==
    phase = "idle" /\ ~overruns => running \subseteq Unstopped /\ ~tun /\ refs = {}

\* stopCurrentProxy(), which never stops VlessRealityBridge, forgets nothing else:
\* on every path of every kind.
THEOREM OnlyRealityLeftAlways == Spec => []OnlyRealityLeft
<1>1. IInv => OnlyRealityLeft
  <2> SUFFICES ASSUME IInv, phase = "idle", ~overruns
               PROVE  running \subseteq Unstopped /\ ~tun /\ refs = {}
    BY DEF OnlyRealityLeft
  <2>1. Held = {} /\ running \ Unstopped \subseteq Seen /\ refs \subseteq {"Slipstream", "Dnstt"}
    BY SeenIs DEF IInv, Reached, TypeOK
  <2>2. Seen = {} /\ Noted = {} /\ ~tun
    BY <2>1 DEF Held
  <2>3. refs = {}
    BY <2>1, <2>2 DEF Noted
  <2> QED BY <2>1, <2>2, <2>3
<1> QED BY <1>1, ProgramsAreSafe, PTL

\* When the service is gone nothing it started is left, for the kinds whose parts
\* stopCurrentProxy() knows.
THEOREM NothingLeftAlways ==
    ASSUME "VLESS_REALITY" \notin Kinds
    PROVE  Spec => []NothingLeft
<1>1. OnlyRealityLeft => NothingLeft
  BY DEF OnlyRealityLeft, NothingLeft, Unstopped
<1> QED BY <1>1, OnlyRealityLeftAlways, PTL

\* A start that fails leaves nothing that accepts connections, for the same kinds.
THEOREM FailedStartStopsProxyAlways ==
    ASSUME "VLESS_REALITY" \notin Kinds
    PROVE  Spec => []FailedStartStopsProxy
<1>1. IInv => FailedStartStopsProxy
  <2> SUFFICES ASSUME IInv, phase = "stopped", ~overruns, kind \notin BridgeForgotten
               PROVE  running \cap Listeners = {}
    BY DEF FailedStartStopsProxy
  <2>1. running \subseteq Seen
    BY SeenIs DEF Unstopped
  <2>2. Held \cap Listeners = {}
    BY DEF IInv, Reached
  <2> QED BY <2>1, <2>2 DEF Held
<1> QED BY <1>1, ProgramsAreSafe, PTL

\* What connect() and handleNetworkChange() call success is one, for the same kinds
\* and when no start that is only checked by its port may outlive its coroutine.
THEOREM ConnectedIsCompleteAlways ==
    ASSUME "VLESS_REALITY" \notin Kinds, LateKinds \cap PortOnly = {}
    PROVE  Spec => []ConnectedIsComplete
<1>1. IInv => ConnectedIsComplete
  <2> SUFFICES ASSUME IInv, phase = "connected", ~fault PROVE Needs(kind) \subseteq running
    BY DEF ConnectedIsComplete
  <2>1. kind # "none" /\ ((Loose /\ kind \in PortOnly) \/ Needs(kind) \subseteq running)
    BY DEF IInv, Reached
  <2>2. Loose => kind \in LateKinds
    BY <2>1 DEF IInv, Ordered, Loose
  <2> QED BY <2>1, <2>2
<1> QED BY <1>1, ProgramsAreSafe, PTL

\* On every stop, undo, switch and restart path no client is stopped while the
\* listener in front of it still accepts connections.
THEOREM StopsFrontFirstAlways == Spec => StopsFrontFirst
<1> DEFINE Front == \/ todo = <<>> \/ overruns
                    \/ phase \in {"starting", "restarting"} /\ kind \in BridgeForgotten
                    \/ \A f \in running' : Behind(f) \cap (running \ running') = {}
<1>1. ASSUME IInv, [Next]_vars PROVE [Front]_vars
  <2> SUFFICES ASSUME Next, todo # <<>>, ~overruns,
                      ~(phase \in {"starting", "restarting"} /\ kind \in BridgeForgotten),
                      NEW f \in running'
               PROVE  Behind(f) \cap (running \ running') = {}
    BY <1>1
  <2>1. CASE StopComponent
    <3>1. PICK k \in AllKinds, lax \in BOOLEAN :
                /\ ForKind(k) /\ LaxOnly(lax)
                /\ Runs(Program(k, lax), todo, Held, Have, repoType)
      BY <1>1, Current
    <3> DEFINE p == Program(k, lax)
               c == Component
    <3>2. FrontFirst(p, c, Held) /\ running' = running \ {c}
      BY <2>1, <3>1, NextStop DEF StopComponent, Step, Component
    <3>3. ~p.lax
      BY <3>1 DEF LaxOnly, Program
    <3> HIDE DEF p, c
    <3>4. CASE c \notin running
      BY <3>2, <3>4
    <3>5. CASE c \in running
      <4>1. running \ Unstopped \subseteq Held /\ Behind(f) \subseteq Clients /\ f \in running
        BY <3>2, SeenIs, Fronts DEF Held
      <4>2. CASE c \in Unstopped
        BY <3>2, <4>1, <4>2 DEF Unstopped, Clients
      <4>3. CASE f \in Unstopped
        BY <4>3 DEF Unstopped, Behind
      <4>4. CASE c \notin Unstopped /\ f \notin Unstopped
        <5>1. c \in Held /\ f \in Held
          BY <3>5, <4>1, <4>4
        <5>2. c \notin Behind(f)
          BY <3>2, <3>3, <5>1 DEF FrontFirst
        <5> QED BY <3>2, <5>2
      <4> QED BY <4>2, <4>3, <4>4
    <3> QED BY <3>4, <3>5
  <2>2. CASE CheckTun2Socks
    <3>1. running \ running' \subseteq {"Hev"} /\ Behind(f) \subseteq Clients
      BY <2>2, Fronts DEF CheckTun2Socks
    <3> QED BY <3>1 DEF Clients
  <2>3. CASE ComponentDies
    BY <1>1, <2>3 DEF ComponentDies, IInv, TypeOK
  <2>4. CASE running \subseteq running'
    BY <2>4
  <2>5. \/ StopComponent \/ CheckTun2Socks \/ ComponentDies \/ running \subseteq running'
    BY DEF Next, ProgramStep, SetVpnService, SetCurrentTunnelType, StartComponent,
           WaitForProxyReady, EstablishVpnInterface, CloseVpnInterface, StartTun2Socks,
           ProxyOnlySkips, AcceptProfile, FinishConnection, EndProgram, Connect, Disconnect,
           NetworkChanges, EnterKillSwitchMode, TunnelFailure, OnDestroy, LateStart
  <2> QED BY <2>1, <2>2, <2>3, <2>4, <2>5
<1> QED BY <1>1, ProgramsAreSafe, PTL DEF Spec, StopsFrontFirst
=============================================================================
