---------------------------- MODULE StreamLemmas ----------------------------
(***************************************************************************)
(* Induction over the natural numbers from the well-foundedness of <, and  *)
(* what it gives for FlattenSeq: flattening distributes over \o.           *)
(***************************************************************************)
EXTENDS SequencesExt, SequenceTheorems, WellFoundedInduction, TLAPS

\* A set with 0 that is closed under the successor has every natural number.
LEMMA NatClosed ==
  ASSUME NEW N, 0 \in N, \A n \in Nat : n \in N => n + 1 \in N
  PROVE  \A n \in Nat : n \in N
<1> DEFINE T == Nat \ N
<1> SUFFICES ASSUME T # {} PROVE FALSE
  OBVIOUS
<1>1. PICK x \in T : \A y \in T : ~ (<<y, x>> \in OpToRel(<, Nat))
  BY NatLessThanWellFounded, WFMin, Zenon
<1>2. x # 0 /\ x - 1 \in Nat /\ x - 1 < x
  BY SMT
<1>3. x - 1 \notin T
  BY <1>1, <1>2 DEF OpToRel
<1> QED
  BY <1>2, <1>3

-----------------------------------------------------------------------------
(* The recursive function in FlattenSeq. *)

\* g flattens the first n elements of s, step by step.
Flattens(g, s, n) ==
  g = [i \in 1..n |-> IF i = 1 THEN s[i] ELSE g[i - 1] \o s[i]]

\* For every n there is one.
LEMMA FlattensExists ==
  ASSUME NEW s
  PROVE  \A n \in Nat : \E g : Flattens(g, s, n)
<1> DEFINE N == {n \in Nat : \E g : Flattens(g, s, n)}
<1>1. 0 \in N
  <2>1. Flattens([i \in 1..0 |-> s[i]], s, 0)
    BY DEF Flattens
  <2> QED
    BY <2>1
<1>2. ASSUME NEW n \in Nat, n \in N
      PROVE  n + 1 \in N
  <2>1. PICK g : Flattens(g, s, n)
    BY <1>2
  <2> DEFINE h == [i \in 1..n + 1 |->
                     IF i = n + 1 THEN (IF n = 0 THEN s[1] ELSE g[n] \o s[n + 1])
                                  ELSE g[i]]
  <2>2. \A i \in 1..n : g[i] = IF i = 1 THEN s[i] ELSE g[i - 1] \o s[i]
    BY <2>1 DEF Flattens
  <2>3. \A i \in 1..n : h[i] = g[i]
    OBVIOUS
  <2>4. \A i \in 1..n + 1 : h[i] = IF i = 1 THEN s[i] ELSE h[i - 1] \o s[i]
    <3> SUFFICES ASSUME NEW i \in 1..n + 1
                 PROVE  h[i] = IF i = 1 THEN s[i] ELSE h[i - 1] \o s[i]
      OBVIOUS
    <3>1. CASE i = n + 1
      <4>1. CASE n = 0
        BY <3>1, <4>1
      <4>2. CASE n # 0
        <5>1. h[n] = g[n]
          BY <4>2, <2>3
        <5>2. h[n + 1] = g[n] \o s[n + 1]
          BY <3>1, <4>2, Zenon
        <5>3. i # 1 /\ i - 1 = n
          BY <3>1, <4>2
        <5> HIDE DEF h
        <5> QED
          BY <3>1, <5>1, <5>2, <5>3
      <4> QED
        BY <4>1, <4>2
    <3>2. CASE i # n + 1
      <4>1. i \in 1..n /\ (i # 1 => i - 1 \in 1..n)
        BY <3>2
      <4> HIDE DEF h
      <4> QED
        BY <4>1, <2>2, <2>3
    <3> QED
      BY <3>1, <3>2
  <2>5. h = [i \in 1..n + 1 |-> h[i]]
    OBVIOUS
  <2> HIDE DEF h
  <2>6. Flattens(h, s, n + 1)
    BY <2>4, <2>5 DEF Flattens
  <2> QED
    BY <2>6
<1> HIDE DEF N
<1>3. \A n \in Nat : n \in N
  BY <1>1, <1>2, NatClosed
<1> QED
  BY <1>3 DEF N

\* So FlattenSeq is its last value, and all its values are sequences.
LEMMA FlattenSteps ==
  ASSUME NEW S, NEW s \in Seq(Seq(S)), s # <<>>
  PROVE  \E g : Flattens(g, s, Len(s)) /\ FlattenSeq(s) = g[Len(s)]
<1> DEFINE g == CHOOSE f : Flattens(f, s, Len(s))
<1>1. Len(s) \in Nat /\ Len(s) # 0
  OBVIOUS
<1>2. Flattens(g, s, Len(s))
  BY <1>1, FlattensExists
<1>3. FlattenSeq(s) = g[Len(s)]
  BY <1>1 DEF FlattenSeq, Flattens
<1> QED
  BY <1>2, <1>3

LEMMA FlattensValues ==
  ASSUME NEW S, NEW s \in Seq(Seq(S)), NEW g, NEW n \in 0..Len(s), Flattens(g, s, n)
  PROVE  \A i \in 1..n : g[i] \in Seq(S)
<1> DEFINE N == {i \in Nat : i + 1 \in 1..n => g[i + 1] \in Seq(S)}
<1>0. \A i \in 1..n : g[i] = IF i = 1 THEN s[i] ELSE g[i - 1] \o s[i]
  BY DEF Flattens
<1>1. 0 \in N
  BY <1>0
<1>2. ASSUME NEW i \in Nat, i \in N
      PROVE  i + 1 \in N
  <2> SUFFICES ASSUME i + 2 \in 1..n PROVE g[i + 2] \in Seq(S)
    BY SMT
  <2>1. g[i + 1] \in Seq(S)
    BY <1>2
  <2>2. i + 2 # 1 /\ (i + 2) - 1 = i + 1
    BY SMT
  <2>3. g[i + 2] = g[i + 1] \o s[i + 2]
    BY <1>0, <2>2, Zenon
  <2>4. s[i + 2] \in Seq(S)
    OBVIOUS
  <2> QED
    BY <2>1, <2>3, <2>4
<1> HIDE DEF N
<1>3. \A i \in Nat : i \in N
  BY <1>1, <1>2, NatClosed
<1>4. \A i \in 1..n : i - 1 \in Nat /\ (i - 1) + 1 = i
  BY SMT
<1> QED
  BY <1>3, <1>4 DEF N

Agree(s, t, n) == \A i \in 1..n : s[i] = t[i]

\* It does not depend on what follows the first n elements.
LEMMA FlattensUnique ==
  ASSUME NEW s, NEW t, NEW n, NEW m, NEW g, NEW h,
         n \in Nat, m = n + 1, Agree(s, t, n), Flattens(g, s, n), Flattens(h, t, m)
  PROVE  Agree(g, h, n)
<1> DEFINE N == {i \in Nat : i + 1 \in 1..n => g[i + 1] = h[i + 1]}
<1>0. /\ \A i \in 1..n : g[i] = IF i = 1 THEN s[i] ELSE g[i - 1] \o s[i]
      /\ \A i \in 1..n : h[i] = IF i = 1 THEN s[i] ELSE h[i - 1] \o s[i]
  <2>1. \A i \in 1..n : i \in 1..n + 1
    OBVIOUS
  <2> QED
    BY <2>1 DEF Flattens, Agree
<1>1. 0 \in N
  BY <1>0
<1>2. ASSUME NEW i \in Nat, i \in N
      PROVE  i + 1 \in N
  <2> SUFFICES ASSUME i + 2 \in 1..n PROVE g[i + 2] = h[i + 2]
    BY SMT
  <2>1. g[i + 1] = h[i + 1]
    BY <1>2
  <2>2. i + 2 # 1 /\ (i + 2) - 1 = i + 1
    BY SMT
  <2>3. g[i + 2] = g[i + 1] \o s[i + 2] /\ h[i + 2] = h[i + 1] \o s[i + 2]
    BY <1>0, <2>2, Zenon
  <2> QED
    BY <2>1, <2>3
<1> HIDE DEF N
<1>3. \A i \in Nat : i \in N
  BY <1>1, <1>2, NatClosed
<1>4. \A i \in 1..n : i - 1 \in Nat /\ (i - 1) + 1 = i
  BY SMT
<1> QED
  BY <1>3, <1>4 DEF N, Agree

-----------------------------------------------------------------------------
(* FlattenSeq. *)

LEMMA FlattenEmpty == FlattenSeq(<<>>) = <<>>
  BY DEF FlattenSeq

LEMMA FlattenType ==
  ASSUME NEW S, NEW s \in Seq(Seq(S))
  PROVE  FlattenSeq(s) \in Seq(S)
<1>1. CASE s = <<>>
  <2>1. FlattenSeq(s) = <<>>
    BY <1>1, FlattenEmpty, Zenon
  <2> QED
    BY <2>1, EmptySeq
<1>2. CASE s # <<>>
  <2>1. PICK g : Flattens(g, s, Len(s)) /\ FlattenSeq(s) = g[Len(s)]
    BY <1>2, FlattenSteps
  <2>2. Len(s) \in 1..Len(s) /\ Len(s) \in 0..Len(s)
    BY <1>2
  <2> QED
    BY <2>1, <2>2, FlattensValues
<1> QED
  BY <1>1, <1>2

LEMMA FlattenAppend ==
  ASSUME NEW S, NEW s \in Seq(Seq(S)), NEW e \in Seq(S)
  PROVE  FlattenSeq(Append(s, e)) = FlattenSeq(s) \o e
<1> DEFINE n == Len(s)
           t == Append(s, e)
<1>1. /\ t \in Seq(Seq(S)) /\ t # <<>> /\ Len(t) = n + 1 /\ n \in Nat
      /\ \A i \in 1..n : t[i] = s[i]
      /\ t[n + 1] = e
  BY AppendProperties
<1> HIDE DEF t, n
<1>2. PICK h : Flattens(h, t, n + 1) /\ FlattenSeq(t) = h[n + 1]
  BY <1>1, FlattenSteps
<1>3. h[n + 1] = IF n = 0 THEN e ELSE h[n] \o e
  <2>1. n + 1 \in 1..n + 1
    BY <1>1
  <2>2. h[n + 1] = IF n + 1 = 1 THEN t[n + 1] ELSE h[(n + 1) - 1] \o t[n + 1]
    BY <1>2, <2>1 DEF Flattens
  <2> QED
    BY <1>1, <2>2
<1>4. CASE n = 0
  <2>1. s = <<>>
    BY <1>4 DEF n
  <2> QED
    BY <1>2, <1>3, <1>4, <2>1, FlattenEmpty DEF t
<1>5. CASE n # 0
  <2>1. s # <<>>
    BY <1>5 DEF n
  <2>2. PICK g : Flattens(g, s, n) /\ FlattenSeq(s) = g[n]
    BY <2>1, FlattenSteps DEF n
  <2>3. Agree(s, t, n)
    BY <1>1 DEF Agree
  <2>4. Agree(g, h, n)
    BY <1>1, <1>2, <2>2, <2>3, FlattensUnique, Zenon
  <2>5. g[n] = h[n]
    BY <1>1, <1>5, <2>4 DEF Agree
  <2> QED
    BY <1>2, <1>3, <1>5, <2>2, <2>5 DEF t
<1> QED
  BY <1>4, <1>5

\* Flattening distributes over \o.
LEMMA FlattenConcat ==
  ASSUME NEW S, NEW s \in Seq(Seq(S)), NEW t \in Seq(Seq(S))
  PROVE  FlattenSeq(s \o t) = FlattenSeq(s) \o FlattenSeq(t)
<1> DEFINE N == {n \in Nat : \A u \in Seq(Seq(S)) :
                   Len(u) = n => FlattenSeq(s \o u) = FlattenSeq(s) \o FlattenSeq(u)}
<1>1. 0 \in N
  <2> SUFFICES ASSUME NEW u \in Seq(Seq(S)), Len(u) = 0
               PROVE  FlattenSeq(s \o u) = FlattenSeq(s) \o FlattenSeq(u)
    OBVIOUS
  <2>1. u = <<>> /\ s \o u = s
    OBVIOUS
  <2> QED
    BY <2>1, FlattenEmpty, FlattenType
<1>2. ASSUME NEW n \in Nat, n \in N
      PROVE  n + 1 \in N
  <2> SUFFICES ASSUME NEW u \in Seq(Seq(S)), Len(u) = n + 1
               PROVE  FlattenSeq(s \o u) = FlattenSeq(s) \o FlattenSeq(u)
    OBVIOUS
  <2>0. u # <<>>
    OBVIOUS
  <2>1. PICK v \in Seq(Seq(S)), e \in Seq(S) : u = Append(v, e)
    BY <2>0, SequenceEmptyOrAppend
  <2>2. Len(v) = n
    BY <2>1
  <2>3. FlattenSeq(s \o v) = FlattenSeq(s) \o FlattenSeq(v)
    BY <1>2, <2>2
  <2>4. s \o u = Append(s \o v, e) /\ s \o v \in Seq(Seq(S))
    BY <2>1
  <2>5. FlattenSeq(s \o u) = (FlattenSeq(s) \o FlattenSeq(v)) \o e
    BY <2>3, <2>4, FlattenAppend
  <2>6. FlattenSeq(u) = FlattenSeq(v) \o e
    BY <2>1, FlattenAppend
  <2>7. FlattenSeq(s) \in Seq(S) /\ FlattenSeq(v) \in Seq(S)
    BY FlattenType
  <2>8. (FlattenSeq(s) \o FlattenSeq(v)) \o e = FlattenSeq(s) \o (FlattenSeq(v) \o e)
    <3> DEFINE a == FlattenSeq(s)
               b == FlattenSeq(v)
    <3> HIDE DEF a, b, N
    <3>1. a \in Seq(S) /\ b \in Seq(S)
      BY <2>7 DEF a, b
    <3>2. (a \o b) \o e = a \o (b \o e)
      BY <3>1
    <3> QED
      BY <3>2 DEF a, b
  <2> QED
    BY <2>5, <2>6, <2>8, Zenon
<1> HIDE DEF N
<1>3. \A n \in Nat : n \in N
  BY <1>1, <1>2, NatClosed
<1> QED
  BY <1>3 DEF N

=============================================================================
