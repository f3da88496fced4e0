------------------------------- MODULE Induction -------------------------------
(***************************************************************************)
(* Induction, with sets instead of operators: a least element, numbers     *)
(* that are reached one after the other, sets as sequences and the         *)
(* sequences that FlattenSeq joins.  They rest on a theorem of the library *)
(* about sets: strict inclusion is well-founded on finite sets.            *)
(***************************************************************************)
EXTENDS Integers, Sequences, SequencesExt, FiniteSetTheorems, TLAPS

\* A set of numbers has a least element.
LEMMA LeastOf ==
    ASSUME NEW S, S \subseteq Nat, S # {}
    PROVE  \E n \in S : \A m \in S : n <= m
<1> DEFINE R == StrictSubsetOrdering(Nat)
           F == FiniteSubsetsOf(Nat)
           T == {0..n : n \in S}
<1>1. IsWellFoundedOn(R, F)
  BY FS_StrictSubsetOrderingWellFounded
<1>2. ASSUME NEW n \in S PROVE 0..n \in F
  <2>1. IsFiniteSet(0..n)
    <3>1. 0 \in Int /\ n \in Int
      OBVIOUS
    <3> QED
      BY <3>1, FS_Interval, Zenon
  <2>2. 0..n \in SUBSET Nat
    OBVIOUS
  <2> QED
    BY <2>1, <2>2, Zenon DEF FiniteSubsetsOf
<1>3. T \subseteq F /\ T # {}
  BY <1>2
<1>4. PICK x \in T : \A y \in T : ~ (<<y, x>> \in R)
  <2> HIDE DEF R, F, T
  <2> QED
    BY <1>1, <1>3, WFMin
<1>5. PICK n \in S : x = 0..n
  OBVIOUS
<1>6. ASSUME NEW m \in S, m < n PROVE FALSE
  <2>1. 0..m \in T /\ 0..m \subseteq 0..n /\ n \in 0..n /\ n \notin 0..m
    BY <1>6
  <2>2. <<0..m, 0..n>> \in R
    <3>1. 0..m \in SUBSET Nat /\ 0..n \in SUBSET Nat
      OBVIOUS
    <3> QED
      BY <2>1, <3>1 DEF StrictSubsetOrdering
  <2> QED
    BY <1>4, <1>5, <2>1, <2>2
<1> QED
  BY <1>6

\* A number that is in a set as soon as the smaller ones are is in it.
LEMMA AllOf ==
    ASSUME NEW S, \A n \in Nat : (\A m \in Nat : m < n => m \in S) => n \in S
    PROVE  Nat \subseteq S
<1> SUFFICES ASSUME Nat \ S # {} PROVE FALSE
  OBVIOUS
<1>1. PICK n \in Nat \ S : \A m \in Nat \ S : n <= m
  BY LeastOf
<1>2. \A m \in Nat : m < n => m \in S
  BY <1>1
<1> QED
  BY <1>1, <1>2

-------------------------------------------------------------------------------
(***************************************************************************)
(* The operators of SequencesExt.                                          *)
(***************************************************************************)

\* SetToSeq goes through the whole of a finite set.
LEMMA SetToSeqCovers ==
    ASSUME NEW S, IsFiniteSet(S)
    PROVE  /\ SetToSeq(S) \in Seq(S)
           /\ \A x \in S : \E i \in 1..Len(SetToSeq(S)) : SetToSeq(S)[i] = x
<1> DEFINE n == Cardinality(S)
           q == SetToSeq(S)
<1>1. n \in Nat /\ ExistsBijection(1..n, S)
  BY FS_CardinalityType, Zenon
<1>2. \E f \in [1..n -> S] : IsInjective(f)
  BY <1>1, Zenon DEF ExistsBijection, Bijection, Injection
<1>3. q \in [1..n -> S] /\ IsInjective(q)
  BY <1>2, Zenon DEF SetToSeq
<1>4. q \in Injection(1..n, S)
  BY <1>3, Zenon DEF Injection
<1>5. Cardinality(1..n) = n
  BY <1>1, FS_Interval
<1>6. q \in Surjection(1..n, S)
  BY <1>4, <1>5, FS_Injection, Zenon
<1> HIDE DEF n, q
<1>7. q \in Seq(S) /\ Len(q) = n
  BY <1>1, <1>3
<1>8. \A x \in S : \E i \in 1..Len(q) : q[i] = x
  BY <1>6, <1>7, Zenon DEF Surjection
<1> QED
  BY <1>7, <1>8 DEF q

\* The recursive equation of FlattenSeq, up to a length.
Flattens(f, seqs, n) ==
    f = [i \in 1..n |-> IF i = 1 THEN seqs[i] ELSE f[i-1] \o seqs[i]]

\* It has a solution, whatever the length.
LEMMA FlatteningExists ==
    ASSUME NEW seqs
    PROVE  \A n \in Nat : \E f : Flattens(f, seqs, n)
<1> DEFINE S == {n \in Nat : \E f : Flattens(f, seqs, n)}
<1>1. ASSUME NEW n \in Nat, \A m \in Nat : m < n => m \in S
      PROVE  n \in S
  <2>1. CASE n = 0
    <3> DEFINE g == [i \in 1..0 |-> seqs[i]]
    <3>1. 1..0 = {}
      OBVIOUS
    <3>2. g = [i \in 1..n |-> IF i = 1 THEN seqs[i] ELSE g[i-1] \o seqs[i]]
      BY <2>1, <3>1
    <3> QED
      BY <3>2, Zenon DEF Flattens
  <2>2. CASE n # 0
    <3>1. n - 1 \in Nat /\ n - 1 < n
      BY <2>2
    <3>2. PICK f : Flattens(f, seqs, n - 1)
      BY <1>1, <3>1
    <3> DEFINE next == IF n = 1 THEN seqs[n] ELSE f[n-1] \o seqs[n]
               g == [i \in 1..n |-> IF i = n THEN next ELSE f[i]]
               h == [i \in 1..n |-> IF i = 1 THEN seqs[i] ELSE g[i-1] \o seqs[i]]
    <3>3. ASSUME NEW i \in 1..n
          PROVE  g[i] = h[i]
      <4>1. CASE i = n
        <5>1. n # 1 => g[n-1] = f[n-1]
          BY <2>2
        <5> QED
          BY <4>1, <5>1
      <4>2. CASE i # n
        <5>1. i \in 1..(n-1)
          BY <4>2
        <5>2. f[i] = IF i = 1 THEN seqs[i] ELSE f[i-1] \o seqs[i]
          BY <3>2, <5>1 DEF Flattens
        <5>3. i # 1 => g[i-1] = f[i-1]
          BY <5>1
        <5> QED
          BY <4>2, <5>2, <5>3
      <4> QED
        BY <4>1, <4>2
    <3>4. g = h
      <4>1. g = [i \in 1..n |-> g[i]] /\ h = [i \in 1..n |-> h[i]]
        OBVIOUS
      <4> HIDE DEF g, h
      <4> QED
        BY <3>3, <4>1
    <3>5. g = [i \in 1..n |-> IF i = 1 THEN seqs[i] ELSE g[i-1] \o seqs[i]]
      <4> HIDE DEF g
      <4> QED
        BY <3>4
    <3> QED
      <4> HIDE DEF g
      <4> QED
        BY <3>5 DEF Flattens
  <2> QED
    BY <2>1, <2>2
<1>2. Nat \subseteq S
  <2> HIDE DEF S
  <2> QED
    BY <1>1, AllOf
<1> QED
  BY <1>2

\* What is in two sequences is in their concatenation.
LEMMA ConcatCollects ==
    ASSUME NEW T, NEW a \in Seq(T), NEW b \in Seq(T)
    PROVE  a \o b \in Seq(T) /\ ToSet(a) \subseteq ToSet(a \o b) /\ ToSet(b) \subseteq ToSet(a \o b)
<1> DEFINE c == a \o b
<1>1. /\ c \in Seq(T) /\ Len(c) = Len(a) + Len(b)
      /\ Len(a) \in Nat /\ Len(b) \in Nat
      /\ \A i \in 1..Len(a) : c[i] = a[i]
      /\ \A i \in 1..Len(b) : c[Len(a) + i] = b[i]
  OBVIOUS
<1>2. DOMAIN a = 1..Len(a) /\ DOMAIN b = 1..Len(b) /\ DOMAIN c = 1..Len(c)
  BY <1>1
<1> HIDE DEF c
<1>3. ASSUME NEW i \in DOMAIN a PROVE i \in DOMAIN c /\ c[i] = a[i]
  BY <1>1, <1>2
<1>4. ASSUME NEW i \in DOMAIN b PROVE Len(a) + i \in DOMAIN c /\ c[Len(a) + i] = b[i]
  BY <1>1, <1>2
<1>5. ToSet(a) \subseteq ToSet(c) /\ ToSet(b) \subseteq ToSet(c)
  BY <1>3, <1>4 DEF ToSet
<1> QED
  BY <1>1, <1>5 DEF c

\* FlattenSeq joins sequences and loses nothing of them.
LEMMA FlattenSeqCollects ==
    ASSUME NEW T, NEW seqs \in Seq(Seq(T))
    PROVE  /\ FlattenSeq(seqs) \in Seq(T)
           /\ \A j \in 1..Len(seqs) : ToSet(seqs[j]) \subseteq ToSet(FlattenSeq(seqs))
<1> DEFINE f == CHOOSE f : f = [i \in 1..Len(seqs) |->
                                   IF i = 1 THEN seqs[i] ELSE f[i-1] \o seqs[i]]
<1>1. CASE Len(seqs) = 0
  <2>1. FlattenSeq(seqs) = seqs /\ seqs = <<>>
    BY <1>1 DEF FlattenSeq
  <2> QED
    BY <1>1, <2>1
<1>2. CASE Len(seqs) # 0
  <2>0. Len(seqs) \in Nat
    OBVIOUS
  <2>1. FlattenSeq(seqs) = f[Len(seqs)]
    BY <1>2 DEF FlattenSeq
  <2>2. f = [i \in 1..Len(seqs) |-> IF i = 1 THEN seqs[i] ELSE f[i-1] \o seqs[i]]
    <3>1. \E g : g = [i \in 1..Len(seqs) |-> IF i = 1 THEN seqs[i] ELSE g[i-1] \o seqs[i]]
      BY <2>0, FlatteningExists DEF Flattens
    <3> QED
      BY <3>1, Zenon
  <2> HIDE DEF f
  <2>3. \A i \in 1..Len(seqs) : f[i] = IF i = 1 THEN seqs[i] ELSE f[i-1] \o seqs[i]
    BY <2>2
  <2> DEFINE Right(i) == f[i] \in Seq(T) /\ \A j \in 1..i : ToSet(seqs[j]) \subseteq ToSet(f[i])
             S == {n \in Nat : n \in 1..Len(seqs) => Right(n)}
  <2>4. ASSUME NEW n \in Nat, \A m \in Nat : m < n => m \in S, n \in 1..Len(seqs)
        PROVE  Right(n)
    <3>1. seqs[n] \in Seq(T)
      BY <2>4
    <3>2. CASE n = 1
      BY <2>3, <2>4, <3>1, <3>2
    <3>3. CASE n # 1
      <4>1. n - 1 \in Nat /\ n - 1 < n /\ n - 1 \in 1..Len(seqs)
        BY <2>4, <3>3
      <4>2. Right(n - 1)
        BY <2>4, <4>1
      <4>3. f[n] = f[n-1] \o seqs[n]
        BY <2>3, <2>4, <3>3
      <4>4. /\ f[n] \in Seq(T)
            /\ ToSet(f[n-1]) \subseteq ToSet(f[n]) /\ ToSet(seqs[n]) \subseteq ToSet(f[n])
        BY <3>1, <4>2, <4>3, ConcatCollects
      <4>5. ASSUME NEW j \in 1..n PROVE ToSet(seqs[j]) \subseteq ToSet(f[n])
        <5>1. CASE j = n
          BY <4>4, <5>1
        <5>2. CASE j # n
          <6>1. j \in 1..(n-1)
            BY <5>2
          <6> QED
            BY <4>2, <4>4, <6>1
        <5> QED
          BY <5>1, <5>2
      <4> QED
        BY <4>4, <4>5
    <3> QED
      BY <3>2, <3>3
  <2>5. Nat \subseteq S
    <3>1. \A n \in Nat : (\A m \in Nat : m < n => m \in S) => n \in S
      BY <2>4
    <3> HIDE DEF S
    <3> QED
      BY <3>1, AllOf
  <2>6. Len(seqs) \in S /\ Len(seqs) \in 1..Len(seqs)
    <3> HIDE DEF S
    <3> QED
      BY <1>2, <2>0, <2>5
  <2>7. Right(Len(seqs))
    BY <2>6
  <2> QED
    BY <2>1, <2>7
<1> QED
  BY <1>1, <1>2

===============================================================================
