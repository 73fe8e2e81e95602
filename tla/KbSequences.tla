----------------------------- MODULE KbSequences -----------------------------
(***************************************************************************)
(* What the proofs need to know of numbers, sequences and FlattenSeq, which   *)
(* the community modules define by a recursive function.  The induction      *)
(* theorems of the library are about an operator; the ones here are about a   *)
(* set, and are used for the set of the numbers something holds of.          *)
(***************************************************************************)
EXTENDS Integers, FiniteSets, Sequences, SequencesExt, FiniteSetTheorems, SequenceTheorems, WellFoundedInduction, TLAPS

LEMMA LeastNumber ==
    ASSUME NEW T \in SUBSET Nat, T # {}
    PROVE  \E m \in T : \A n \in T : m <= n
<1> DEFINE Up == {1..n : n \in T}
<1>1. \A n \in T : 1..n \in FiniteSubsetsOf(Nat)
  <2> SUFFICES ASSUME NEW n \in T PROVE 1..n \in FiniteSubsetsOf(Nat)
      OBVIOUS
  <2>1. IsFiniteSet(1..n)
      BY FS_Interval
  <2>2. 1..n \in SUBSET Nat
      OBVIOUS
  <2>3. QED  BY <2>1, <2>2 DEF FiniteSubsetsOf
<1>2. Up \subseteq FiniteSubsetsOf(Nat) /\ Up # {}
    BY <1>1
<1>3. PICK s \in Up : \A r \in Up : <<r, s>> \notin StrictSubsetOrdering(Nat)
  <2> HIDE DEF Up
  <2>1. IsWellFoundedOn(StrictSubsetOrdering(Nat), FiniteSubsetsOf(Nat))
      BY FS_StrictSubsetOrderingWellFounded
  <2>2. QED  BY <1>2, <2>1, WFMin
<1>4. PICK m \in T : s = 1..m
    OBVIOUS
<1>5. ASSUME NEW n \in T, n < m PROVE FALSE
  <2>1. 1..n \in Up /\ 1..n \subseteq s /\ m \in s /\ m \notin 1..n /\ s \subseteq Nat
      BY <1>4, <1>5
  <2>2. QED  BY <1>3, <2>1 DEF StrictSubsetOrdering
<1>6. QED  BY <1>5

LEMMA Induction ==
    ASSUME NEW S \in SUBSET Nat, 0 \in S, \A n \in S : n + 1 \in S
    PROVE  S = Nat
<1> SUFFICES ASSUME Nat \ S # {} PROVE FALSE
    OBVIOUS
<1>1. PICK m \in Nat \ S : \A n \in Nat \ S : m <= n
    BY LeastNumber
<1>2. m # 0 /\ m - 1 \in Nat
    BY <1>1
<1>3. m - 1 \in S
    BY <1>1, <1>2
<1>4. QED  BY <1>1, <1>2, <1>3
-----------------------------------------------------------------------------
(* The function FlattenSeq is defined by exists.                             *)
Flattens(f, seqs, n) ==
    f = [i \in 1..n |-> IF i = 1 THEN seqs[i] ELSE f[i - 1] \o seqs[i]]

Step(f, seqs, i) == f[i] = IF i = 1 THEN seqs[i] ELSE f[i - 1] \o seqs[i]

LEMMA FlattenSteps ==
    ASSUME NEW f, NEW seqs, NEW n \in Nat, Flattens(f, seqs, n)
    PROVE  \A i \in 1..n : f[i] = IF i = 1 THEN seqs[i] ELSE f[i - 1] \o seqs[i]
<1> DEFINE g == [i \in 1..n |-> IF i = 1 THEN seqs[i] ELSE f[i - 1] \o seqs[i]]
<1>1. \A i \in 1..n : g[i] = IF i = 1 THEN seqs[i] ELSE f[i - 1] \o seqs[i]
    OBVIOUS
<1>2. f = g
    BY DEF Flattens
<1> HIDE DEF g
<1>3. QED  BY <1>1, <1>2

LEMMA FlattenStep ==
    ASSUME NEW f, NEW seqs, NEW n \in Nat, Flattens(f, seqs, n)
    PROVE  \A i \in 1..n : Step(f, seqs, i)
<1> DEFINE g == [i \in 1..n |-> IF i = 1 THEN seqs[i] ELSE f[i - 1] \o seqs[i]]
<1>1. f = g
    BY DEF Flattens
<1> SUFFICES ASSUME NEW i \in 1..n PROVE Step(f, seqs, i)
    OBVIOUS
<1>2. g[i] = IF i = 1 THEN seqs[i] ELSE f[i - 1] \o seqs[i]
    OBVIOUS
<1> HIDE DEF g
<1>3. QED  BY ONLY <1>1, <1>2 DEF Step

LEMMA FlattenExists ==
    ASSUME NEW seqs, NEW n \in Nat
    PROVE  \E f : Flattens(f, seqs, n)
<1> DEFINE N == {k \in Nat : \E f : Flattens(f, seqs, k)}
<1>1. 0 \in N
  <2>1. Flattens(<<>>, seqs, 0)
      BY DEF Flattens
  <2>2. QED  BY <2>1
<1>2. ASSUME NEW k \in N PROVE k + 1 \in N
  <2>1. PICK f : Flattens(f, seqs, k)
      OBVIOUS
  <2> DEFINE g == [i \in 1..(k + 1) |-> IF i = 1 THEN seqs[i] ELSE f[i - 1] \o seqs[i]]
  <2>2. k \in Nat
      OBVIOUS
  <2>3. \A i \in 1..k : f[i] = IF i = 1 THEN seqs[i] ELSE f[i - 1] \o seqs[i]
      BY <2>1, <2>2, FlattenSteps
  <2>4. \A i \in 1..k : f[i] = g[i]
      BY <2>2, <2>3
  <2> HIDE DEF g
  <2>5. \A i \in 1..(k + 1) : i # 1 => f[i - 1] = g[i - 1]
      BY <2>2, <2>4
  <2>6. g = [i \in 1..(k + 1) |-> IF i = 1 THEN seqs[i] ELSE g[i - 1] \o seqs[i]]
      BY <2>2, <2>5 DEF g
  <2>7. Flattens(g, seqs, k + 1)
      BY <2>6 DEF Flattens
  <2>8. QED  BY <2>2, <2>7
<1>3. N = Nat
  <2> N \in SUBSET Nat
      OBVIOUS
  <2> HIDE DEF N
  <2>1. QED  BY <1>1, <1>2, Induction
<1>4. QED  BY <1>3

LEMMA FlattenUnfolds ==
    ASSUME NEW S, NEW seqs \in Seq(S), seqs # <<>>
    PROVE  \E f : Flattens(f, seqs, Len(seqs)) /\ FlattenSeq(seqs) = f[Len(seqs)]
<1> DEFINE f == CHOOSE g : Flattens(g, seqs, Len(seqs))
<1>1. Flattens(f, seqs, Len(seqs))
    BY FlattenExists
<1>2. FlattenSeq(seqs) = f[Len(seqs)]
    BY DEF FlattenSeq, Flattens
<1>3. QED  BY <1>1, <1>2

LEMMA RangeOfShort == Range(<<>>) = {} /\ \A x : Range(<<x>>) = {x}
<1>1. \A x : DOMAIN <<x>> = {1} /\ <<x>>[1] = x
    OBVIOUS
<1>2. QED  BY <1>1 DEF Range

LEMMA ConcatRange ==
    ASSUME NEW S, NEW s \in Seq(S), NEW t \in Seq(S)
    PROVE  Range(s \o t) = Range(s) \cup Range(t)
<1>1. /\ DOMAIN (s \o t) = 1..(Len(s) + Len(t))
      /\ \A i \in 1..Len(s) : (s \o t)[i] = s[i]
      /\ \A i \in 1..Len(t) : (s \o t)[Len(s) + i] = t[i]
    BY ConcatProperties
<1>2. ASSUME NEW x \in Range(s \o t) PROVE x \in Range(s) \cup Range(t)
  <2>1. PICK i \in 1..(Len(s) + Len(t)) : x = (s \o t)[i]
      BY <1>1, <1>2 DEF Range
  <2>2. CASE i <= Len(s)
      BY <1>1, <2>1, <2>2 DEF Range
  <2>3. CASE i > Len(s)
    <3>1. i - Len(s) \in 1..Len(t) /\ i = Len(s) + (i - Len(s))
        BY <2>1, <2>3
    <3>2. x = t[i - Len(s)]
        BY <1>1, <2>1, <3>1
    <3>3. QED  BY <3>1, <3>2 DEF Range
  <2>4. QED  BY <2>1, <2>2, <2>3
<1>3. ASSUME NEW x \in Range(s) PROVE x \in Range(s \o t)
    BY <1>1, <1>3 DEF Range
<1>4. ASSUME NEW x \in Range(t) PROVE x \in Range(s \o t)
  <2>1. PICK i \in 1..Len(t) : x = t[i]
      BY <1>4 DEF Range
  <2>2. Len(s) + i \in 1..(Len(s) + Len(t))
      OBVIOUS
  <2>3. QED  BY <1>1, <2>1, <2>2 DEF Range
<1>5. QED  BY <1>2, <1>3, <1>4

(* It is a sequence of what the sequences have in them.                      *)
LEMMA FlattenSeqRange ==
    ASSUME NEW S, NEW seqs \in Seq(Seq(S))
    PROVE  /\ FlattenSeq(seqs) \in Seq(S)
           /\ Range(FlattenSeq(seqs)) = UNION {Range(seqs[i]) : i \in DOMAIN seqs}
<1>1. CASE seqs = <<>>
    BY <1>1 DEF FlattenSeq, Range
<1>2. CASE seqs # <<>>
  <2> DEFINE n == Len(seqs)
             Upto(k) == UNION {Range(seqs[i]) : i \in 1..k}
  <2>1. PICK f : Flattens(f, seqs, n) /\ FlattenSeq(seqs) = f[n]
      BY <1>2, FlattenUnfolds
  <2>2. n \in Nat \ {0} /\ DOMAIN seqs = 1..n
      BY <1>2
  <2>3. \A i \in 1..n : f[i] = IF i = 1 THEN seqs[i] ELSE f[i - 1] \o seqs[i]
      BY <2>1, <2>2, FlattenSteps
  <2> DEFINE N == {k \in Nat : k \in 1..n => f[k] \in Seq(S) /\ Range(f[k]) = Upto(k)}
  <2>4. \A k \in 1..n : seqs[k] \in Seq(S)
      BY <2>2
  <2>5. 0 \in N
      OBVIOUS
  <2>6. ASSUME NEW k \in N, k + 1 \in 1..n
        PROVE  f[k + 1] \in Seq(S) /\ Range(f[k + 1]) = Upto(k + 1)
    <3>1. CASE k = 0
      <4>1. f[1] = seqs[1]
          BY <2>2, <2>3
      <4>2. Upto(1) = Range(seqs[1])
          OBVIOUS
      <4>3. QED  BY <2>2, <2>4, <3>1, <4>1, <4>2
    <3>2. CASE k # 0
      <4>1. k \in 1..n
          BY <2>2, <2>6, <3>2
      <4>2. f[k] \in Seq(S) /\ Range(f[k]) = Upto(k)
          BY <4>1
      <4>3. f[k + 1] = f[k] \o seqs[k + 1]
        <5>1. k + 1 # 1 /\ (k + 1) - 1 = k
            BY <2>2, <4>1
        <5>2. f[k + 1] = f[(k + 1) - 1] \o seqs[k + 1]
            BY <2>3, <2>6, <5>1
        <5>3. QED  BY <5>1, <5>2
      <4>4. seqs[k + 1] \in Seq(S)
          BY <2>4, <2>6
      <4>5. f[k + 1] \in Seq(S)
          BY <4>2, <4>3, <4>4
      <4>6. Range(f[k + 1]) = Range(f[k]) \cup Range(seqs[k + 1])
          BY <4>2, <4>3, <4>4, ConcatRange
      <4>7. Upto(k + 1) = Upto(k) \cup Range(seqs[k + 1])
        <5>1. 1..(k + 1) = (1..k) \cup {k + 1}
            BY <4>1
        <5>2. QED  BY <5>1
      <4>8. QED  BY <4>2, <4>5, <4>6, <4>7
    <3>3. QED  BY <3>1, <3>2
  <2>7. N = Nat
    <3>1. ASSUME NEW k \in N PROVE k + 1 \in N
      <4>1. k + 1 \in 1..n => f[k + 1] \in Seq(S) /\ Range(f[k + 1]) = Upto(k + 1)
          BY <2>6
      <4>2. QED  BY <4>1
    <3> N \in SUBSET Nat
        OBVIOUS
    <3> HIDE DEF N
    <3>2. QED  BY <2>5, <3>1, Induction
  <2>8. f[n] \in Seq(S) /\ Range(f[n]) = Upto(n)
      BY <2>2, <2>7
  <2>9. QED  BY <2>1, <2>2, <2>8
<1>3. QED  BY <1>1, <1>2

LEMMA SameSequence ==
    ASSUME NEW S, NEW s \in Seq(S), NEW t \in Seq(S), Len(s) = Len(t),
           \A i \in 1..Len(s) : s[i] = t[i]
    PROVE  s = t
OBVIOUS

(* One sequence more adds what it has at the end.                            *)
LEMMA FlattenGrows ==
    ASSUME NEW S, NEW old \in Seq(Seq(S)), NEW new \in Seq(Seq(S)),
           Len(new) = Len(old) + 1, \A i \in 1..Len(old) : new[i] = old[i]
    PROVE  FlattenSeq(new) = FlattenSeq(old) \o new[Len(new)]
<1> DEFINE n == Len(old)
           last == new[n + 1]
<1>1. n \in Nat /\ DOMAIN old = 1..n /\ DOMAIN new = 1..(n + 1) /\ new # <<>> /\ last \in Seq(S)
    OBVIOUS
<1>2. PICK g : Flattens(g, new, n + 1) /\ FlattenSeq(new) = g[n + 1]
    BY <1>1, FlattenUnfolds
<1> HIDE DEF n, last
<1>3. n \in Nat /\ n + 1 \in Nat
    BY <1>1
<1>4. \A i \in 1..(n + 1) : g[i] = IF i = 1 THEN new[i] ELSE g[i - 1] \o new[i]
  <2> DEFINE m == n + 1
  <2>1. Flattens(g, new, m) /\ m \in Nat
      BY <1>2, <1>3
  <2> HIDE DEF m
  <2>2. ASSUME NEW i \in 1..m PROVE g[i] = IF i = 1 THEN new[i] ELSE g[i - 1] \o new[i]
    <3>1. Step(g, new, i)
        BY <2>1, FlattenStep
    <3>2. QED  BY ONLY <3>1 DEF Step
  <2>3. QED  BY <2>2 DEF m
<1>5. CASE n = 0
  <2>1. FlattenSeq(old) = <<>>
      BY <1>5 DEF FlattenSeq, n
  <2>2. g[1] = last
      BY <1>4, <1>5 DEF last
  <2>3. <<>> \o last = last
      BY <1>1
  <2>4. QED  BY <1>2, <1>5, <2>1, <2>2, <2>3 DEF n, last
<1>6. CASE n # 0
  <2>1. PICK f : Flattens(f, old, n) /\ FlattenSeq(old) = f[n]
      BY <1>6, FlattenUnfolds DEF n
  <2>2. \A i \in 1..n : f[i] = IF i = 1 THEN old[i] ELSE f[i - 1] \o old[i]
      BY <1>3, <2>1, FlattenSteps
  <2> DEFINE N == {k \in Nat : k \in 1..n => f[k] = g[k]}
  <2>3. ASSUME NEW k \in N PROVE k + 1 \in N
    <3> SUFFICES ASSUME k + 1 \in 1..n PROVE f[k + 1] = g[k + 1]
        OBVIOUS
    <3>1. new[k + 1] = old[k + 1] /\ k \in Nat /\ k + 1 \in 1..(n + 1) /\ (k + 1) - 1 = k
        BY <1>1 DEF n
    <3>2. CASE k = 0
        BY <1>4, <2>2, <3>1, <3>2
    <3>3. CASE k # 0
      <4>1. f[k] = g[k] /\ k + 1 # 1
          BY <1>1, <3>1, <3>3
      <4>2. f[k + 1] = f[k] \o old[k + 1] /\ g[k + 1] = g[k] \o new[k + 1]
          BY <1>4, <2>2, <3>1, <4>1
      <4>3. QED  BY <3>1, <4>1, <4>2
    <3>4. QED  BY <3>2, <3>3
  <2>4. N = Nat
    <3>1. 0 \in N
        OBVIOUS
    <3> N \in SUBSET Nat
        OBVIOUS
    <3> HIDE DEF N
    <3>2. QED  BY <2>3, <3>1, Induction
  <2>5. f[n] = g[n]
    <3>1. n \in N
        BY <1>3, <2>4
    <3>2. n \in 1..n
        BY <1>3, <1>6
    <3>3. QED  BY <3>1, <3>2
  <2>6. n + 1 \in 1..(n + 1) /\ n + 1 # 1 /\ (n + 1) - 1 = n
      BY <1>3, <1>6
  <2>7. g[n + 1] = g[n] \o last
      BY <1>4, <2>6 DEF last
  <2>8. QED  BY <1>2, <2>1, <2>5, <2>7 DEF n, last
<1>7. QED  BY <1>5, <1>6
-----------------------------------------------------------------------------
(* FlattenSeq step by step, from nothing.                                    *)
LEMMA FlattenParts ==
    ASSUME NEW S, NEW seqs \in Seq(Seq(S))
    PROVE  \E F : /\ F \in [0..Len(seqs) -> Seq(S)] /\ F[0] = <<>>
                  /\ \A k \in 1..Len(seqs) : F[k] = F[k - 1] \o seqs[k]
                  /\ FlattenSeq(seqs) = F[Len(seqs)]
<1> DEFINE n == Len(seqs)
<1>1. n \in Nat /\ (n = 0 <=> seqs = <<>>) /\ \A k \in 1..n : seqs[k] \in Seq(S)
    OBVIOUS
<1>2. \E f : (n # 0 => Flattens(f, seqs, n)) /\ FlattenSeq(seqs) = IF n = 0 THEN <<>> ELSE f[n]
  <2>1. CASE n = 0
      BY <1>1, <2>1 DEF FlattenSeq
  <2>2. CASE n # 0
      BY <1>1, <2>2, FlattenUnfolds
  <2>3. QED  BY <2>1, <2>2
<1>3. PICK f : (n # 0 => Flattens(f, seqs, n)) /\ FlattenSeq(seqs) = IF n = 0 THEN <<>> ELSE f[n]
    BY <1>2
<1> HIDE DEF n
<1>4. \A k \in 1..n : f[k] = IF k = 1 THEN seqs[k] ELSE f[k - 1] \o seqs[k]
  <2>1. CASE n = 0
      BY <2>1
  <2>2. CASE n # 0
      BY <1>1, <1>3, <2>2, FlattenSteps
  <2>3. QED  BY <2>1, <2>2
<1> DEFINE F == [k \in 0..n |-> IF k = 0 THEN <<>> ELSE f[k]]
<1>5. DOMAIN F = 0..n /\ F[0] = <<>> /\ (n # 0 => F[n] = f[n]) /\ \A k \in 1..n : F[k] = f[k]
    BY <1>1
<1>6. F = [k \in 0..n |-> F[k]]
    OBVIOUS
<1> HIDE DEF F
<1>7. ASSUME NEW k \in 1..n PROVE F[k] = F[k - 1] \o seqs[k]
  <2>1. CASE k = 1
    <3>1. <<>> \o seqs[1] = seqs[1]
        BY <1>1, <2>1
    <3>2. F[1] = seqs[1] /\ F[1 - 1] = <<>>
        BY <1>4, <1>5, <2>1
    <3>3. QED  BY <2>1, <3>1, <3>2
  <2>2. CASE k # 1
    <3>1. k - 1 \in 1..n
        BY <1>1, <2>2
    <3>2. QED  BY <1>4, <1>5, <2>2, <3>1
  <2>3. QED  BY <2>1, <2>2
<1> DEFINE N == {k \in Nat : k <= n => F[k] \in Seq(S)}
<1>8. 0 \in N
  <2>1. <<>> \in Seq(S)
      OBVIOUS
  <2>2. F[0] \in Seq(S)
      BY <1>5, <2>1
  <2>3. QED  BY <2>2
<1>9. ASSUME NEW k \in N PROVE k + 1 \in N
  <2> SUFFICES ASSUME k + 1 <= n PROVE F[k + 1] \in Seq(S)
      OBVIOUS
  <2>1. k \in Nat /\ k <= n /\ k + 1 \in 1..n /\ (k + 1) - 1 = k
      BY <1>1
  <2>2. F[k] \in Seq(S) /\ seqs[k + 1] \in Seq(S)
      BY <1>1, <2>1
  <2>3. F[k + 1] = F[k] \o seqs[k + 1]
      BY <1>7, <2>1
  <2>4. QED  BY <2>2, <2>3
<1>10. N = Nat
  <2> N \in SUBSET Nat
      OBVIOUS
  <2> HIDE DEF N
  <2>1. QED  BY <1>8, <1>9, Induction
<1>11. \A k \in 0..n : F[k] \in Seq(S)
    BY <1>1, <1>10
<1>12. F \in [0..n -> Seq(S)]
    BY <1>6, <1>11
<1>13. FlattenSeq(seqs) = F[n]
    BY <1>1, <1>3, <1>5
<1>14. QED  BY <1>5, <1>7, <1>12, <1>13 DEF n

(* Something holds of two sequences without anything in them, and of two that    *)
(* are put together if it holds of their parts: C are the pairs it holds of.   *)
Joins(S, C) ==
    /\ <<<<>>, <<>>>> \in C
    /\ \A s, t, u, v \in Seq(S) : <<s, t>> \in C /\ <<u, v>> \in C => <<s \o u, t \o v>> \in C

LEMMA FlattenPairs ==
    ASSUME NEW S, NEW C, Joins(S, C), NEW a \in Seq(Seq(S)), NEW b \in Seq(Seq(S)), Len(a) = Len(b),
           \A i \in 1..Len(a) : <<a[i], b[i]>> \in C
    PROVE  <<FlattenSeq(a), FlattenSeq(b)>> \in C
<1>1. PICK F : /\ F \in [0..Len(a) -> Seq(S)] /\ F[0] = <<>>
               /\ \A k \in 1..Len(a) : F[k] = F[k - 1] \o a[k]
               /\ FlattenSeq(a) = F[Len(a)]
    BY FlattenParts
<1>2. PICK G : /\ G \in [0..Len(b) -> Seq(S)] /\ G[0] = <<>>
               /\ \A k \in 1..Len(b) : G[k] = G[k - 1] \o b[k]
               /\ FlattenSeq(b) = G[Len(b)]
    BY FlattenParts
<1> DEFINE n == Len(a)
           N == {k \in Nat : k <= n => <<F[k], G[k]>> \in C}
<1>3. n \in Nat /\ Len(b) = n /\ \A k \in 1..n : a[k] \in Seq(S) /\ b[k] \in Seq(S)
    OBVIOUS
<1>4. 0 \in N
    BY <1>1, <1>2 DEF Joins
<1>5. ASSUME NEW k \in N PROVE k + 1 \in N
  <2> SUFFICES ASSUME k + 1 <= n PROVE <<F[k + 1], G[k + 1]>> \in C
      OBVIOUS
  <2>1. k \in Nat /\ k <= n /\ k + 1 \in 1..n /\ (k + 1) - 1 = k /\ k \in 0..n
      BY <1>3
  <2>2. <<F[k], G[k]>> \in C /\ F[k] \in Seq(S) /\ G[k] \in Seq(S)
      BY <1>1, <1>2, <1>3, <2>1
  <2>3. F[k + 1] = F[k] \o a[k + 1] /\ G[k + 1] = G[k] \o b[k + 1]
      BY <1>1, <1>2, <1>3, <2>1
  <2>4. <<a[k + 1], b[k + 1]>> \in C /\ a[k + 1] \in Seq(S) /\ b[k + 1] \in Seq(S)
      BY <1>3, <2>1
  <2>5. QED  BY <2>2, <2>3, <2>4 DEF Joins
<1>6. N = Nat
  <2> N \in SUBSET Nat
      OBVIOUS
  <2> HIDE DEF N
  <2>1. QED  BY <1>4, <1>5, Induction
<1>7. n \in N
    BY <1>3, <1>6
<1>8. <<F[n], G[n]>> \in C
    BY <1>3, <1>7
<1>9. QED  BY <1>1, <1>2, <1>3, <1>8

LEMMA ConcatFacts ==
    ASSUME NEW S, NEW s \in Seq(S), NEW t \in Seq(S)
    PROVE  /\ Len(s) \in Nat /\ Len(t) \in Nat
           /\ s \o t \in Seq(S) /\ Len(s \o t) = Len(s) + Len(t)
           /\ \A i \in 1..Len(s) : i \in 1..(Len(s) + Len(t)) /\ (s \o t)[i] = s[i]
           /\ \A j \in 1..Len(t) : Len(s) + j \in 1..(Len(s) + Len(t)) /\ (s \o t)[Len(s) + j] = t[j]
           /\ \A i \in 1..(Len(s) + Len(t)) : i \in 1..Len(s) \/ \E j \in 1..Len(t) : i = Len(s) + j
<1>1. Len(s) \in Nat /\ Len(t) \in Nat
    OBVIOUS
<1>2. s \o t \in Seq(S) /\ Len(s \o t) = Len(s) + Len(t)
    OBVIOUS
<1>3. \A i \in 1..Len(s) : i \in 1..(Len(s) + Len(t)) /\ (s \o t)[i] = s[i]
    BY <1>1
<1>4. \A j \in 1..Len(t) : Len(s) + j \in 1..(Len(s) + Len(t)) /\ (s \o t)[Len(s) + j] = t[j]
    BY <1>1
<1>5. \A i \in 1..(Len(s) + Len(t)) : i \in 1..Len(s) \/ \E j \in 1..Len(t) : i = Len(s) + j
  <2> SUFFICES ASSUME NEW i \in 1..(Len(s) + Len(t)), i > Len(s) PROVE \E j \in 1..Len(t) : i = Len(s) + j
      BY <1>1
  <2>1. i - Len(s) \in 1..Len(t) /\ i = Len(s) + (i - Len(s))
      BY <1>1
  <2>2. QED  BY <2>1
<1>6. QED  BY <1>1, <1>2, <1>3, <1>4, <1>5

LEMMA Associative ==
    ASSUME NEW S, NEW s \in Seq(S), NEW t \in Seq(S), NEW u \in Seq(S)
    PROVE  (s \o t) \o u = s \o (t \o u)
OBVIOUS

LEMMA FlattenConcat ==
    ASSUME NEW S, NEW a \in Seq(Seq(S)), NEW b \in Seq(Seq(S))
    PROVE  FlattenSeq(a \o b) = FlattenSeq(a) \o FlattenSeq(b)
<1> DEFINE n == Len(a)
           m == Len(b)
           c == a \o b
<1>1. /\ c \in Seq(Seq(S)) /\ Len(c) = n + m /\ n \in Nat /\ m \in Nat
      /\ \A k \in 1..n : c[k] = a[k] /\ a[k] \in Seq(S)
      /\ \A k \in 1..m : c[n + k] = b[k] /\ b[k] \in Seq(S)
    OBVIOUS
<1>2. PICK F : /\ F \in [0..n -> Seq(S)] /\ F[0] = <<>>
               /\ \A k \in 1..n : F[k] = F[k - 1] \o a[k]
               /\ FlattenSeq(a) = F[n]
    BY FlattenParts
<1>3. PICK G : /\ G \in [0..m -> Seq(S)] /\ G[0] = <<>>
               /\ \A k \in 1..m : G[k] = G[k - 1] \o b[k]
               /\ FlattenSeq(b) = G[m]
    BY FlattenParts
<1> HIDE DEF c
<1>4. PICK H : /\ H \in [0..Len(c) -> Seq(S)] /\ H[0] = <<>>
               /\ \A k \in 1..Len(c) : H[k] = H[k - 1] \o c[k]
               /\ FlattenSeq(c) = H[Len(c)]
    BY <1>1, FlattenParts
<1> HIDE DEF n, m
<1> DEFINE N == {k \in Nat : k <= n => H[k] = F[k]}
           M == {k \in Nat : k <= m => H[n + k] = F[n] \o G[k]}
<1>5. 0 \in N
    BY <1>2, <1>4
<1>6. ASSUME NEW k \in N PROVE k + 1 \in N
  <2> SUFFICES ASSUME k + 1 <= n PROVE H[k + 1] = F[k + 1]
      OBVIOUS
  <2>1. k \in Nat /\ k <= n /\ k + 1 \in 1..n /\ (k + 1) - 1 = k /\ k + 1 \in 1..Len(c)
      BY <1>1
  <2>2. H[k + 1] = H[k] \o c[k + 1] /\ F[k + 1] = F[k] \o a[k + 1]
      BY <1>2, <1>4, <2>1
  <2>3. QED  BY <1>1, <2>1, <2>2
<1>7. N = Nat
  <2> N \in SUBSET Nat
      OBVIOUS
  <2> HIDE DEF N
  <2>1. QED  BY <1>5, <1>6, Induction
<1>8. H[n] = F[n] /\ F[n] \in Seq(S)
  <2> HIDE DEF N, M
  <2>1. n \in N /\ n \in 0..n
    <3>1. n \in Nat
        BY <1>1
    <3>2. QED  BY ONLY <1>7, <3>1
  <2>2. n \in Nat /\ H[n] = F[n]
      BY <1>1, <2>1 DEF N
  <2>3. QED  BY <1>2, <2>1, <2>2
<1>9. 0 \in M
  <2>1. F[n] \o <<>> = F[n] /\ n + 0 = n
      BY <1>1, <1>8, ConcatEmptySeq
  <2>2. H[n + 0] = F[n] \o G[0]
      BY <1>3, <1>8, <2>1
  <2>3. QED  BY <2>2
<1>10. ASSUME NEW k \in M PROVE k + 1 \in M
  <2> SUFFICES ASSUME k + 1 <= m PROVE H[n + (k + 1)] = F[n] \o G[k + 1]
    <3> DEFINE Same(j) == H[n + j] = F[n] \o G[j]
    <3>1. M = {j \in Nat : j <= m => Same(j)}
        OBVIOUS
    <3> HIDE DEF Same, M
    <3>2. k + 1 <= m => Same(k + 1)
        BY DEF Same
    <3>3. QED  BY <3>1, <3>2
  <2>1. k \in Nat /\ k <= m /\ k + 1 \in 1..m /\ (k + 1) - 1 = k /\ k \in 0..m
    <3>1. k \in Nat
        OBVIOUS
    <3> HIDE DEF M
    <3>2. QED  BY <1>1, <3>1
  <2>2. n + (k + 1) \in 1..Len(c) /\ (n + (k + 1)) - 1 = n + k
      BY <1>1, <2>1
  <2>3. H[n + (k + 1)] = H[n + k] \o b[k + 1] /\ G[k + 1] = G[k] \o b[k + 1]
      BY <1>1, <1>3, <1>4, <2>1, <2>2
  <2>4. H[n + k] = F[n] \o G[k] /\ G[k] \in Seq(S) /\ b[k + 1] \in Seq(S)
      BY <1>1, <1>3, <2>1
  <2>5. (F[n] \o G[k]) \o b[k + 1] = F[n] \o (G[k] \o b[k + 1])
    <3> DEFINE f == F[n]  g == G[k]  t == b[k + 1]
    <3>1. f \in Seq(S) /\ g \in Seq(S) /\ t \in Seq(S)
        BY <1>8, <2>4
    <3> HIDE DEF f, g, t
    <3>2. (f \o g) \o t = f \o (g \o t)
        BY ONLY <3>1, Associative, SMTT(30)
    <3>3. QED  BY <3>2 DEF f, g, t
  <2>6. QED  BY <2>3, <2>4, <2>5
<1>11. M = Nat
  <2> M \in SUBSET Nat
      OBVIOUS
  <2> HIDE DEF M
  <2>1. QED  BY <1>9, <1>10, Induction
<1>12. H[n + m] = F[n] \o G[m]
  <2>1. m \in M
      BY <1>1, <1>11
  <2>2. m <= m
      BY <1>1
  <2>3. QED  BY <2>1, <2>2
<1>13. QED  BY <1>1, <1>2, <1>3, <1>4, <1>12 DEF c

LEMMA FlattenShort ==
    ASSUME NEW S, NEW s \in Seq(S)
    PROVE  FlattenSeq(<<>>) = <<>> /\ FlattenSeq(<<s>>) = s
<1>1. FlattenSeq(<<>>) = <<>>
    BY DEF FlattenSeq
<1>2. <<s>> \in Seq(Seq(S)) /\ Len(<<s>>) = 1 /\ <<s>>[1] = s
    OBVIOUS
<1>3. PICK F : F[0] = <<>> /\ (\A k \in 1..1 : F[k] = F[k - 1] \o <<s>>[k]) /\ FlattenSeq(<<s>>) = F[1]
    BY <1>2, FlattenParts
<1>4. F[1] = F[0] \o s
  <2>1. 1 \in 1..1 /\ 1 - 1 = 0
      OBVIOUS
  <2>2. F[1] = F[1 - 1] \o <<s>>[1]
      BY <1>3, <2>1
  <2>3. QED  BY <1>2, <2>1, <2>2
<1>5. <<>> \o s = s
    OBVIOUS
<1>6. QED  BY <1>1, <1>3, <1>4, <1>5

LEMMA Single ==
    ASSUME NEW S, NEW x \in S
    PROVE  <<>> \in Seq(S) /\ <<x>> \in Seq(S) /\ Len(<<x>>) = 1 /\ <<x>>[1] = x
OBVIOUS

LEMMA Elements ==
    ASSUME NEW T, NEW s \in Seq(T)
    PROVE  /\ Len(s) \in Nat /\ DOMAIN s = 1..Len(s) /\ (s = <<>> <=> Len(s) = 0)
           /\ \A i \in 1..Len(s) : s[i] \in T
OBVIOUS

LEMMA Listed ==
    ASSUME NEW T, NEW n \in Nat, NEW s \in [1..n -> T]
    PROVE  s \in Seq(T) /\ Len(s) = n
OBVIOUS
-----------------------------------------------------------------------------
(* A sequence is taken apart at its end, or at any place.                      *)
LEMMA SplitLast ==
    ASSUME NEW S, NEW w \in Seq(S), w # <<>>
    PROVE  \E s \in Seq(S) : w = s \o <<w[Len(w)]>> /\ Len(s) + 1 = Len(w) /\ w[Len(w)] \in S
<1> DEFINE n == Len(w)
           s == [i \in 1..(n - 1) |-> w[i]]
           x == w[n]
           v == s \o <<x>>
<1>1. n \in Nat \ {0} /\ n - 1 \in Nat /\ x \in S /\ \A i \in 1..(n - 1) : w[i] \in S
    OBVIOUS
<1>2. s \in Seq(S) /\ Len(s) = n - 1 /\ \A i \in 1..(n - 1) : s[i] = w[i]
  <2>1. s \in [1..(n - 1) -> S]
      BY <1>1
  <2>2. QED  BY <1>1, <2>1, Listed
<1> HIDE DEF s, x
<1>3. <<x>> \in Seq(S) /\ Len(<<x>>) = 1 /\ <<x>>[1] = x
    BY <1>1, Single
<1>4. /\ v \in Seq(S) /\ Len(v) = n
      /\ \A i \in 1..(n - 1) : v[i] = s[i]
      /\ v[n] = x
  <2>1. (n - 1) + 1 = n
      BY <1>1
  <2>2. /\ v \in Seq(S) /\ Len(v) = Len(s) + Len(<<x>>)
        /\ \A i \in 1..Len(s) : v[i] = s[i]
        /\ \A j \in 1..Len(<<x>>) : v[Len(s) + j] = <<x>>[j]
      BY <1>2, <1>3, ConcatFacts
  <2> HIDE DEF v, n
  <2>3. v[(n - 1) + 1] = x
      BY <1>2, <1>3, <2>2
  <2>4. QED  BY <1>1, <1>2, <1>3, <2>1, <2>2, <2>3
<1> HIDE DEF v
<1>5. \A i \in 1..n : v[i] = w[i]
  <2>1. \A i \in 1..n : i \in 1..(n - 1) \/ i = n
      BY <1>1
  <2> HIDE DEF n
  <2>2. QED  BY <1>2, <1>4, <2>1 DEF x
<1>6. v = w
    BY <1>4, <1>5, SameSequence
<1>7. Len(s) + 1 = n
    BY <1>1, <1>2
<1>8. QED  BY <1>1, <1>2, <1>6, <1>7 DEF v, x

LEMMA SplitAt ==
    ASSUME NEW S, NEW w \in Seq(S), NEW i \in 1..Len(w)
    PROVE  \E s \in Seq(S), t \in Seq(S) : w = s \o (<<w[i]>> \o t) /\ Len(s) = i - 1 /\ \A j \in 1..(i - 1) : s[j] = w[j]
<1> DEFINE n == Len(w)
           s == [j \in 1..(i - 1) |-> w[j]]
           t == [j \in 1..(n - i) |-> w[i + j]]
           x == w[i]
           u == <<x>> \o t
           v == s \o u
<1>1. n \in Nat /\ i \in 1..n /\ i - 1 \in Nat /\ n - i \in Nat /\ x \in S
    OBVIOUS
<1>2. \A j \in 1..(i - 1) : j \in 1..n
    BY <1>1
<1>3. \A j \in 1..(n - i) : i + j \in 1..n
    BY <1>1
<1>4. s \in Seq(S) /\ Len(s) = i - 1 /\ \A j \in 1..(i - 1) : s[j] = w[j]
  <2>1. s \in [1..(i - 1) -> S]
      BY <1>2, Elements
  <2>2. QED  BY <1>1, <2>1, Listed
<1>5. t \in Seq(S) /\ Len(t) = n - i /\ \A j \in 1..(n - i) : t[j] = w[i + j]
  <2>1. t \in [1..(n - i) -> S]
      BY <1>3, Elements
  <2>2. QED  BY <1>1, <2>1, Listed
<1> DEFINE o == <<x>>
<1>6. o \in Seq(S) /\ Len(o) = 1 /\ o[1] = x
    BY <1>1, Single
<1> HIDE DEF s, t, o
<1>20. o \in Seq(S) /\ t \in Seq(S) /\ s \in Seq(S)
    BY <1>4, <1>5, <1>6
<1> DEFINE a == Len(o)
           b == Len(t)
           c == Len(s)
           d == Len(o \o t)
<1>7. /\ o \o t \in Seq(S) /\ d = a + b
      /\ \A j \in 1..a : (o \o t)[j] = o[j]
      /\ \A j \in 1..b : (o \o t)[a + j] = t[j]
    BY ONLY <1>20, ConcatFacts
<1>8. u = o \o t
    BY DEF o
<1> HIDE DEF u, x, n
<1>9. /\ u \in Seq(S) /\ Len(u) = 1 + (n - i) /\ u[1] = x
      /\ \A j \in 1..(n - i) : u[1 + j] = w[i + j]
    BY <1>1, <1>5, <1>6, <1>7, <1>8
<1>21. s \in Seq(S) /\ u \in Seq(S)
    BY <1>4, <1>9
<1>10. /\ v \in Seq(S) /\ Len(v) = Len(s) + Len(u)
       /\ \A j \in 1..Len(s) : v[j] = s[j]
       /\ \A j \in 1..Len(u) : v[Len(s) + j] = u[j]
    BY ONLY <1>21, ConcatFacts
<1> HIDE DEF v
<1>11. ASSUME NEW j \in 1..n PROVE v[j] = w[j]
  <2>1. CASE j < i
      BY <1>1, <1>4, <1>10, <2>1
  <2>2. CASE j = i
    <3>1. 1 \in 1..Len(u) /\ Len(s) + 1 = i
        BY <1>1, <1>4, <1>9
    <3>2. QED  BY <1>9, <1>10, <2>2, <3>1 DEF x
  <2>3. CASE j > i
    <3> DEFINE k == j - i
    <3>1. k \in 1..(n - i) /\ j = i + k /\ 1 + k \in 1..Len(u) /\ Len(s) + (1 + k) = j
        BY <1>1, <1>4, <1>9, <2>3
    <3> HIDE DEF k
    <3>2. QED  BY <1>9, <1>10, <3>1
  <2>4. QED  BY <1>1, <2>1, <2>2, <2>3
<1>12. Len(v) = n
    BY <1>1, <1>4, <1>9, <1>10
<1>13. w \in Seq(S) /\ Len(w) = n
    BY DEF n
<1>14. v = w
    BY <1>10, <1>11, <1>12, <1>13, SameSequence
<1>15. w = s \o (<<w[i]>> \o t)
    BY <1>14 DEF v, u, x
<1>16. QED  BY <1>4, <1>5, <1>15

(* What is before a place.                                                  *)
LEMMA Prefix ==
    ASSUME NEW S, NEW s \in Seq(S), NEW i \in 1..Len(s), NEW l \in 1..(i - 1)
    PROVE  s[l] \in Range(SubSeq(s, 1, i - 1))
<1> DEFINE t == SubSeq(s, 1, i - 1)
<1>1. DOMAIN t = 1..(i - 1) /\ t[l] = s[l]
    OBVIOUS
<1>2. QED  BY <1>1 DEF Range

LEMMA Before ==
    \A n \in Nat : \A i \in 1..n : \A l \in 1..(i - 1) :
        l \in 1..n /\ \A p \in 1..n : l \notin 1..(p - 1) /\ l # p => p < l /\ p \in 1..(i - 1)
OBVIOUS

(* Sequences that have related things in the same places.                    *)
Together(S, R) == {c \in Seq(S) \X Seq(S) : Len(c[1]) = Len(c[2]) /\ \A i \in 1..Len(c[1]) : <<c[1][i], c[2][i]>> \in R}

LEMMA TogetherJoins ==
    ASSUME NEW S, NEW R
    PROVE  /\ Joins(S, Together(S, R))
           /\ \A s, t : <<s, t>> \in Together(S, R) <=>
                /\ s \in Seq(S) /\ t \in Seq(S) /\ Len(s) = Len(t)
                /\ \A i \in 1..Len(s) : <<s[i], t[i]>> \in R
<1> DEFINE C == Together(S, R)
<1>1. \A s, t : <<s, t>> \in C <=>
                /\ s \in Seq(S) /\ t \in Seq(S) /\ Len(s) = Len(t)
                /\ \A i \in 1..Len(s) : <<s[i], t[i]>> \in R
    BY DEF Together
<1> HIDE DEF C
<1>2. <<<<>>, <<>>>> \in C
  <2>1. <<>> \in Seq(S) /\ Len(<<>>) = 0 /\ 1..0 = {}
      OBVIOUS
  <2>2. \A i \in 1..Len(<<>>) : <<<<>>[i], <<>>[i]>> \in R
      BY <2>1
  <2>3. QED  BY <1>1, <2>1, <2>2
<1>3. ASSUME NEW s \in Seq(S), NEW t \in Seq(S), NEW u \in Seq(S), NEW v \in Seq(S), <<s, t>> \in C, <<u, v>> \in C
      PROVE  <<s \o u, t \o v>> \in C
  <2> DEFINE y == s \o u
             m == t \o v
  <2>1. /\ Len(s) = Len(t) /\ Len(u) = Len(v)
        /\ \A i \in 1..Len(s) : <<s[i], t[i]>> \in R
        /\ \A i \in 1..Len(u) : <<u[i], v[i]>> \in R
      BY <1>1, <1>3
  <2>2. /\ y \in Seq(S) /\ Len(y) = Len(s) + Len(u)
        /\ \A i \in 1..Len(s) : y[i] = s[i]
        /\ \A j \in 1..Len(u) : y[Len(s) + j] = u[j]
        /\ \A i \in 1..(Len(s) + Len(u)) : i \in 1..Len(s) \/ \E j \in 1..Len(u) : i = Len(s) + j
      BY ONLY s \in Seq(S), u \in Seq(S), ConcatFacts
  <2>3. /\ m \in Seq(S) /\ Len(m) = Len(t) + Len(v)
        /\ \A i \in 1..Len(t) : m[i] = t[i]
        /\ \A j \in 1..Len(v) : m[Len(t) + j] = v[j]
      BY ONLY t \in Seq(S), v \in Seq(S), ConcatFacts
  <2> HIDE DEF y, m
  <2>4. ASSUME NEW i \in 1..(Len(s) + Len(u)) PROVE <<y[i], m[i]>> \in R
    <3>1. CASE i \in 1..Len(s)
        BY <2>1, <2>2, <2>3, <3>1
    <3>2. CASE \E j \in 1..Len(u) : i = Len(s) + j
      <4>1. PICK j \in 1..Len(u) : i = Len(s) + j
          BY <3>2
      <4>2. y[i] = u[j] /\ m[i] = v[j]
          BY <2>1, <2>2, <2>3, <4>1
      <4>3. QED  BY <2>1, <4>2
    <3>3. QED  BY <2>2, <3>1, <3>2
  <2>5. <<y, m>> \in C
      BY <1>1, <2>1, <2>2, <2>3, <2>4
  <2>6. QED  BY <2>5 DEF y, m
<1>4. Joins(S, C)
    BY <1>2, <1>3 DEF Joins
<1>5. QED  BY <1>1, <1>4 DEF C

LEMMA TogetherOne ==
    ASSUME NEW S, NEW R, NEW p \in S, NEW q \in S, <<p, q>> \in R
    PROVE  <<<<p>>, <<q>>>> \in Together(S, R)
<1> DEFINE s == <<p>>
           t == <<q>>
<1>1. s \in Seq(S) /\ t \in Seq(S) /\ Len(s) = 1 /\ Len(t) = 1 /\ s[1] = p /\ t[1] = q
    BY Single
<1> HIDE DEF s, t
<1>2. \A i \in 1..Len(s) : <<s[i], t[i]>> \in R
    BY <1>1
<1>3. <<s, t>> \in Together(S, R)
    BY <1>1, <1>2, TogetherJoins
<1>4. QED  BY <1>3 DEF s, t
=============================================================================
