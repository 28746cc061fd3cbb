------------------------------ MODULE DataLemmas -----------------------------
(***************************************************************************)
(* Facts about numbers, sets, sequences and sums over finite sets that the *)
(* proofs about several components need.  Those that need an induction     *)
(* draw it from the least element of a set of natural numbers, which is    *)
(* first-order.                                                            *)
(***************************************************************************)
EXTENDS Integers, SequencesExt, FiniteSetTheorems, SequenceTheorems, TLAPS

NatLess == {pair \in Nat \X Nat : pair[1] < pair[2]}

LEMMA NatLessIsWellFounded == IsWellFoundedOn(NatLess, Nat)
BY NatLessThanWellFounded DEF OpToRel, NatLess

(* A set of natural numbers that is not empty has a least element.         *)
LEMMA LeastElement ==
  ASSUME NEW T, T \subseteq Nat, T # {}
  PROVE  \E x \in T : \A y \in T : x <= y
<1>1. PICK x \in T : \A y \in T : ~ (<<y, x>> \in NatLess)
  BY NatLessIsWellFounded, WFMin
<1>2. ASSUME NEW y \in T PROVE x <= y
  <2>1. ~ (<<y, x>> \in NatLess)
    BY <1>1
  <2>2. x \in Nat /\ y \in Nat
    OBVIOUS
  <2> QED
    BY <2>1, <2>2 DEF NatLess
<1> QED
  BY <1>2

(* From 0 on and from each number to the next: all of them.                *)
LEMMA Induction ==
  ASSUME NEW T, 0 \in T, \A n \in Nat : n \in T => n + 1 \in T
  PROVE  Nat \subseteq T
<1> SUFFICES ASSUME NEW m \in Nat, m \notin T PROVE FALSE
  OBVIOUS
<1> DEFINE Out == {n \in Nat : n \notin T}
<1>1. PICK x \in Out : \A y \in Out : x <= y
  <2>1. Out \subseteq Nat /\ Out # {}
    OBVIOUS
  <2> HIDE DEF Out
  <2> QED
    BY <2>1, LeastElement
<1>2. x # 0 /\ x \in Nat
  OBVIOUS
<1>3. x - 1 \in Nat /\ x - 1 \notin Out
  BY <1>1, <1>2
<1> QED
  BY <1>2, <1>3

(* The Min and Max of the community modules.                               *)
LEMMA MinOfNats ==
  ASSUME NEW T, T \subseteq Nat, T # {}
  PROVE  Min(T) \in T /\ \A y \in T : Min(T) <= y
BY LeastElement DEF Min

LEMMA MaxOfNats ==
  ASSUME NEW T, NEW n \in Nat, T \subseteq 0..n, T # {}
  PROVE  Max(T) \in T /\ \A y \in T : Max(T) >= y
<1> DEFINE Below == {n - y : y \in T}
<1>1. Below \subseteq Nat /\ Below # {}
  <2>1. \A y \in T : n - y \in Nat
    OBVIOUS
  <2>2. PICK y \in T : TRUE
    OBVIOUS
  <2>3. n - y \in Below
    OBVIOUS
  <2> QED
    BY <2>1, <2>3
<1>2. PICK x \in Below : \A y \in Below : x <= y
  <2> HIDE DEF Below
  <2> QED
    BY <1>1, LeastElement
<1>3. PICK m \in T : x = n - m
  OBVIOUS
<1>4. ASSUME NEW y \in T PROVE m >= y
  <2>1. n - y \in Below
    OBVIOUS
  <2>2. n - m <= n - y
    BY <1>2, <1>3, <2>1
  <2>3. m \in Int /\ y \in Int /\ n \in Int
    OBVIOUS
  <2> QED
    BY <2>2, <2>3
<1> HIDE DEF Below
<1> QED
  BY <1>3, <1>4 DEF Max
-----------------------------------------------------------------------------
(* What a sequence put together from others consists of.                   *)
LEMMA ConcatRange ==
  ASSUME NEW A, NEW a \in Seq(A), NEW b \in Seq(A)
  PROVE  /\ a \o b \in Seq(A)
         /\ \A x : x \in ToSet(a \o b) <=> x \in ToSet(a) \/ x \in ToSet(b)
<1> DEFINE c == a \o b
<1>1. /\ c \in Seq(A) /\ Len(c) = Len(a) + Len(b)
      /\ \A i \in 1..Len(a) : c[i] = a[i]
      /\ \A i \in 1..Len(b) : c[Len(a) + i] = b[i]
  OBVIOUS
<1>2. /\ Len(a) \in Nat /\ Len(b) \in Nat
      /\ DOMAIN a = 1..Len(a) /\ DOMAIN b = 1..Len(b) /\ DOMAIN c = 1..Len(c)
  BY <1>1
<1> HIDE DEF c
<1>3. ASSUME NEW x \in ToSet(c) PROVE x \in ToSet(a) \/ x \in ToSet(b)
  <2>1. PICK i \in 1..Len(c) : x = c[i]
    BY <1>2 DEF ToSet
  <2>2. i \in 1..Len(a) \/ i - Len(a) \in 1..Len(b)
    BY <1>1, <1>2
  <2>3. CASE i \in 1..Len(a)
    BY <1>1, <1>2, <2>1, <2>3 DEF ToSet
  <2>4. CASE i - Len(a) \in 1..Len(b)
    <3>1. Len(a) + (i - Len(a)) = i
      BY <1>2
    <3>2. c[i] = b[i - Len(a)]
      BY <1>1, <2>4, <3>1
    <3> QED
      BY <1>2, <2>1, <2>4, <3>2 DEF ToSet
  <2> QED
    BY <2>2, <2>3, <2>4
<1>4. ASSUME NEW x \in ToSet(a) PROVE x \in ToSet(c)
  <2>1. PICK i \in 1..Len(a) : x = a[i]
    BY <1>2 DEF ToSet
  <2>2. i \in 1..Len(c) /\ c[i] = x
    BY <1>1, <1>2, <2>1
  <2> QED
    BY <1>2, <2>2 DEF ToSet
<1>5. ASSUME NEW x \in ToSet(b) PROVE x \in ToSet(c)
  <2>1. PICK i \in 1..Len(b) : x = b[i]
    BY <1>2 DEF ToSet
  <2>2. Len(a) + i \in 1..Len(c) /\ c[Len(a) + i] = x
    BY <1>1, <1>2, <2>1
  <2> QED
    BY <1>2, <2>2 DEF ToSet
<1>6. c \in Seq(A) /\ \A x : x \in ToSet(c) <=> x \in ToSet(a) \/ x \in ToSet(b)
  BY <1>1, <1>3, <1>4, <1>5
<1> QED
  BY <1>6 DEF c

(* The recursive function inside FlattenSeq exists.                        *)
Flattens(seqs, n, f) ==
  f = [i \in 1..n |-> IF i = 1 THEN seqs[i] ELSE f[i - 1] \o seqs[i]]

LEMMA FlattenExists ==
  ASSUME NEW seqs
  PROVE  \A n \in Nat : \E f : Flattens(seqs, n, f)
<1> DEFINE T == {n \in Nat : \E f : Flattens(seqs, n, f)}
<1>1. 0 \in T
  <2> DEFINE e == [i \in 1..0 |-> 0]
  <2>1. e = [i \in 1..0 |-> IF i = 1 THEN seqs[i] ELSE e[i - 1] \o seqs[i]]
    <3>1. 1..0 = {}
      OBVIOUS
    <3> QED
      BY <3>1
  <2>2. Flattens(seqs, 0, e)
    BY <2>1 DEF Flattens
  <2> QED
    BY <2>2
<1>2. ASSUME NEW n \in Nat, n \in T PROVE n + 1 \in T
  <2>1. PICK f : Flattens(seqs, n, f)
    BY <1>2
  <2> DEFINE top == IF n = 0 THEN seqs[1] ELSE f[n] \o seqs[n + 1]
             g == [i \in 1..n + 1 |-> IF i <= n THEN f[i] ELSE top]
  <2>2. DOMAIN g = 1..n + 1
    OBVIOUS
  <2>3. ASSUME NEW i \in 1..n + 1
        PROVE  g[i] = IF i = 1 THEN seqs[i] ELSE g[i - 1] \o seqs[i]
    <3>1. i <= n \/ i = n + 1
      OBVIOUS
    <3>2. CASE i <= n
      <4>1. i \in 1..n /\ g[i] = f[i]
        BY <3>2
      <4>2. f[i] = IF i = 1 THEN seqs[i] ELSE f[i - 1] \o seqs[i]
        BY <2>1, <4>1 DEF Flattens
      <4>3. CASE i = 1
        BY <4>1, <4>2, <4>3
      <4>4. CASE i # 1
        <5>1. i - 1 \in 1..n + 1 /\ i - 1 <= n
          BY <4>1, <4>4
        <5>2. g[i - 1] = f[i - 1]
          BY <5>1
        <5> HIDE DEF g
        <5> QED
          BY <4>1, <4>2, <4>4, <5>2
      <4> QED
        BY <4>3, <4>4
    <3>3. CASE i = n + 1
      <4>1. g[i] = top
        BY <3>3
      <4>2. CASE n = 0
        BY <3>3, <4>1, <4>2
      <4>3. CASE n # 0
        <5>1. n \in 1..n + 1 /\ i - 1 = n /\ i # 1
          BY <3>3, <4>3
        <5>2. g[n] = f[n]
          BY <5>1
        <5>3. top = f[n] \o seqs[n + 1]
          BY <4>3
        <5> HIDE DEF g, top
        <5> QED
          BY <3>3, <4>1, <5>1, <5>2, <5>3
      <4> QED
        BY <4>2, <4>3
    <3> QED
      BY <3>1, <3>2, <3>3
  <2> HIDE DEF top
  <2>4. g = [i \in 1..n + 1 |-> IF i = 1 THEN seqs[i] ELSE g[i - 1] \o seqs[i]]
    <3>0. g = [i \in 1..n + 1 |-> g[i]]
      OBVIOUS
    <3> HIDE DEF g
    <3> QED
      BY <2>2, <2>3, <3>0
  <2>5. Flattens(seqs, n + 1, g)
    BY <2>4 DEF Flattens
  <2> QED
    BY <2>5
<1> HIDE DEF T
<1>3. Nat \subseteq T
  BY <1>1, <1>2, Induction
<1> QED
  BY <1>3 DEF T

(* FlattenSeq returns the elements of all its sequences and no others.     *)
LEMMA FlattenRange ==
  ASSUME NEW A, NEW seqs \in Seq(Seq(A))
  PROVE  /\ FlattenSeq(seqs) \in Seq(A)
         /\ \A x : x \in ToSet(FlattenSeq(seqs)) <=>
                     \E i \in 1..Len(seqs) : x \in ToSet(seqs[i])
<1>1. CASE Len(seqs) = 0
  <2>1. seqs = <<>> /\ FlattenSeq(seqs) = <<>>
    BY <1>1 DEF FlattenSeq
  <2>2. ToSet(<<>>) = {}
    BY DEF ToSet
  <2>3. 1..Len(seqs) = {} /\ <<>> \in Seq(A)
    BY <1>1
  <2> QED
    BY <2>1, <2>2, <2>3
<1>2. CASE Len(seqs) # 0
  <2> DEFINE N == Len(seqs)
             F == CHOOSE f : Flattens(seqs, N, f)
             Good(i) == /\ F[i] \in Seq(A)
                        /\ \A x : x \in ToSet(F[i]) <=>
                                    \E j \in 1..i : x \in ToSet(seqs[j])
             T == {n \in Nat : n \in 1..N => Good(n)}
  <2>1. N \in Nat /\ N >= 1
    BY <1>2
  <2>2. FlattenSeq(seqs) = F[N]
    BY <1>2 DEF FlattenSeq, Flattens
  <2>3. Flattens(seqs, N, F)
    BY <2>1, FlattenExists
  <2>4. \A i \in 1..N : F[i] = IF i = 1 THEN seqs[i] ELSE F[i - 1] \o seqs[i]
    <3> HIDE DEF F
    <3> QED
      BY <2>3 DEF Flattens
  <2>5. \A i \in 1..N : seqs[i] \in Seq(A)
    OBVIOUS
  <2> HIDE DEF F, N
  <2>6. 0 \in T
    OBVIOUS
  <2>7. ASSUME NEW n \in Nat, n \in T PROVE n + 1 \in T
    <3> SUFFICES ASSUME n + 1 \in 1..N PROVE Good(n + 1)
      OBVIOUS
    <3>1. CASE n = 0
      <4>1. F[1] = seqs[1]
        BY <2>1, <2>4
      <4>2. \A j \in 1..1 : j = 1
        OBVIOUS
      <4> QED
        BY <2>1, <2>5, <3>1, <4>1, <4>2
    <3>2. CASE n # 0
      <4>1. n \in 1..N /\ n + 1 # 1 /\ (n + 1) - 1 = n
        BY <2>1, <3>2
      <4>2. F[n + 1] = F[n] \o seqs[n + 1]
        BY <2>4, <4>1
      <4>3. Good(n)
        BY <2>7, <4>1
      <4>4. seqs[n + 1] \in Seq(A)
        BY <2>5
      <4>5. /\ F[n + 1] \in Seq(A)
            /\ \A x : x \in ToSet(F[n + 1]) <=>
                        x \in ToSet(F[n]) \/ x \in ToSet(seqs[n + 1])
        BY <4>2, <4>3, <4>4, ConcatRange
      <4>6. \A j : j \in 1..n + 1 <=> j \in 1..n \/ j = n + 1
        OBVIOUS
      <4> QED
        BY <4>3, <4>5, <4>6
    <3> QED
      BY <3>1, <3>2
  <2>8. Nat \subseteq T
    <3> HIDE DEF T
    <3> QED
      BY <2>6, <2>7, Induction
  <2>9. Good(N)
    <3>1. N \in T
      <4> HIDE DEF T
      <4> QED
        BY <2>1, <2>8
    <3>2. N \in 1..N
      BY <2>1
    <3> QED
      BY <3>1, <3>2
  <2> QED
    BY <2>2, <2>9 DEF N
<1> QED
  BY <1>1, <1>2

(* A finite set with a strict order, written in that order.                *)
Below(S, L, c) == {d \in S : <<d, c>> \in L}
Rank(S, L, c) == Cardinality(Below(S, L, c))
InOrder(S, L) ==
  [k \in 1..Cardinality(S) |-> CHOOSE c \in S : Rank(S, L, c) = k - 1]

LEMMA InOrderRange ==
  ASSUME NEW S, IsFiniteSet(S), NEW L,
         \A c \in S : <<c, c>> \notin L,
         \A b, c, d \in S : <<b, c>> \in L /\ <<c, d>> \in L => <<b, d>> \in L,
         \A c, d \in S : c # d => <<c, d>> \in L \/ <<d, c>> \in L
  PROVE  /\ InOrder(S, L) \in Seq(S)
         /\ \A x : x \in ToSet(InOrder(S, L)) <=> x \in S
<1> DEFINE n == Cardinality(S)
           rank(c) == Rank(S, L, c)
           f == [c \in S |-> rank(c) + 1]
           s == InOrder(S, L)
<1>1. n \in Nat
  BY FS_CardinalityType
<1>2. ASSUME NEW c \in S
      PROVE  IsFiniteSet(Below(S, L, c)) /\ rank(c) \in Nat /\ rank(c) + 1 <= n
  <2>1. Below(S, L, c) \in SUBSET S
    BY DEF Below
  <2>2. IsFiniteSet(Below(S, L, c)) /\ rank(c) <= n
    BY <2>1, FS_Subset DEF Rank
  <2>3. rank(c) \in Nat
    BY <2>2, FS_CardinalityType DEF Rank
  <2>4. rank(c) # n
    <3>1. c \in S /\ c \notin Below(S, L, c)
      BY DEF Below
    <3>2. n = rank(c) => S = Below(S, L, c)
      BY <2>1, FS_Subset DEF Rank
    <3> QED
      BY <3>1, <3>2
  <2> HIDE DEF rank, n
  <2> QED
    BY <1>1, <2>2, <2>3, <2>4
<1>3. ASSUME NEW c \in S, NEW d \in S, <<c, d>> \in L
      PROVE  rank(c) < rank(d)
  <2>1. Below(S, L, c) \cup {c} \in SUBSET Below(S, L, d) /\ c \notin Below(S, L, c)
    BY <1>3 DEF Below
  <2>2. Cardinality(Below(S, L, c) \cup {c}) = rank(c) + 1
    BY <1>2, <2>1, FS_AddElement DEF Rank
  <2>3. Cardinality(Below(S, L, c) \cup {c}) <= rank(d)
    BY <1>2, <2>1, FS_Subset DEF Rank
  <2>4. rank(c) \in Nat /\ rank(d) \in Nat
    BY <1>2
  <2> HIDE DEF rank
  <2> QED
    BY <2>2, <2>3, <2>4
<1>4. ASSUME NEW c \in S, NEW d \in S, rank(c) = rank(d) PROVE c = d
  <2> SUFFICES ASSUME c # d PROVE FALSE
    OBVIOUS
  <2>1. rank(c) < rank(d) \/ rank(d) < rank(c)
    BY <1>3
  <2>2. rank(c) \in Nat /\ rank(d) \in Nat
    BY <1>2
  <2> HIDE DEF rank
  <2> QED
    BY <1>4, <2>1, <2>2
<1>5. s = [k \in 1..n |-> CHOOSE c \in S : rank(c) = k - 1]
  BY DEF InOrder
<1> HIDE DEF rank, n, s
<1>6. f \in Injection(S, 1..n)
  <2>1. f \in [S -> 1..n]
    BY <1>1, <1>2
  <2>2. \A c, d \in S : f[c] = f[d] => c = d
    <3> SUFFICES ASSUME NEW c \in S, NEW d \in S, f[c] = f[d] PROVE c = d
      OBVIOUS
    <3>1. rank(c) \in Nat /\ rank(d) \in Nat /\ rank(c) + 1 = rank(d) + 1
      BY <1>2
    <3>2. rank(c) = rank(d)
      BY <3>1
    <3> QED
      BY <1>4, <3>2
  <2> QED
    BY <2>1, <2>2 DEF Injection, IsInjective
<1>7. f \in Surjection(S, 1..n)
  <2>1. IsFiniteSet(1..n) /\ Cardinality(1..n) = n
    BY <1>1, FS_Interval
  <2> HIDE DEF f
  <2> QED
    BY <1>6, <2>1, FS_Injection DEF n
<1>8. ASSUME NEW k \in 1..n PROVE s[k] \in S /\ rank(s[k]) = k - 1
  <2>1. PICK c \in S : f[c] = k
    <3> HIDE DEF f
    <3> QED
      BY <1>7 DEF Surjection
  <2>2. rank(c) = k - 1
    <3>1. rank(c) \in Nat /\ rank(c) + 1 = k
      BY <1>2, <2>1
    <3> QED
      BY <3>1
  <2>3. s[k] = CHOOSE c2 \in S : rank(c2) = k - 1
    BY <1>5
  <2> QED
    BY <2>2, <2>3
<1>9. s \in Seq(S) /\ DOMAIN s = 1..n
  <2>1. s \in [1..n -> S]
    BY <1>5, <1>8
  <2> QED
    BY <1>1, <2>1
<1>10. ASSUME NEW x \in S PROVE x \in ToSet(s)
  <2> DEFINE k == rank(x) + 1
  <2>1. k \in 1..n /\ k - 1 = rank(x)
    BY <1>1, <1>2
  <2>2. s[k] \in S /\ rank(s[k]) = rank(x)
    BY <1>8, <2>1
  <2> HIDE DEF k
  <2>3. s[k] = x
    BY <1>4, <2>2
  <2> QED
    BY <1>9, <2>1, <2>3 DEF ToSet
<1>11. ASSUME NEW x \in ToSet(s) PROVE x \in S
  BY <1>8, <1>9 DEF ToSet
<1> QED
  BY <1>9, <1>10, <1>11 DEF s
-----------------------------------------------------------------------------
(* Sums over finite sets: the SumFunctionOnSet of the community modules.   *)
(* From the empty set on, one element more at a time: all finite sets.     *)
LEMMA SetInduction ==
  ASSUME NEW A, NEW T, {} \in T,
         \A S \in SUBSET A, x \in A :
           IsFiniteSet(S) /\ S \in T /\ x \notin S => S \cup {x} \in T
  PROVE  \A S \in SUBSET A : IsFiniteSet(S) => S \in T
<1> DEFINE N == {n \in Nat : \A S \in SUBSET A : IsFiniteSet(S) /\ Cardinality(S) = n => S \in T}
<1>1. 0 \in N
  BY FS_EmptySet
<1>2. ASSUME NEW n \in Nat, n \in N PROVE n + 1 \in N
  <2> SUFFICES ASSUME NEW S \in SUBSET A, IsFiniteSet(S), Cardinality(S) = n + 1
               PROVE  S \in T
    OBVIOUS
  <2>1. PICK x \in S : TRUE
    BY FS_EmptySet
  <2>2. IsFiniteSet(S \ {x}) /\ Cardinality(S \ {x}) = n
    <3>1. IsFiniteSet(S \ {x}) /\ Cardinality(S \ {x}) = Cardinality(S) - 1
      BY FS_RemoveElement
    <3> QED
      BY <3>1
  <2>3. S \ {x} \in T
    BY <1>2, <2>2
  <2>4. (S \ {x}) \cup {x} \in T
    BY <2>2, <2>3
  <2>5. (S \ {x}) \cup {x} = S
    BY <2>1
  <2> QED
    BY <2>4, <2>5
<1> HIDE DEF N
<1>3. Nat \subseteq N
  BY <1>1, <1>2, Induction
<1> QED
  BY <1>3, FS_CardinalityType DEF N

Chosen(s) == CHOOSE x \in s : TRUE

Sums(f, D, g) ==
  g = [s \in D |-> IF s = {} THEN 0 ELSE f[Chosen(s)] + g[s \ {Chosen(s)}]]

SumsUpTo(f, S, g) == Sums(f, SUBSET S, g)

LEMMA SumIs ==
  ASSUME NEW f, NEW S
  PROVE  SumFunctionOnSet(f, S) = (CHOOSE g : SumsUpTo(f, S, g))[S]
BY DEF SumFunctionOnSet, FoldFunctionOnSet, MapThenFoldSet, SumsUpTo, Sums, Chosen

LEMMA SumsExists ==
  ASSUME NEW f, NEW S, IsFiniteSet(S)
  PROVE  \E g : SumsUpTo(f, S, g)
<1> DEFINE D(n) == {s \in SUBSET S : Cardinality(s) <= n}
           T == {n \in Nat : \E g : Sums(f, D(n), g)}
<1>0. \A s \in SUBSET S : IsFiniteSet(s) /\ Cardinality(s) \in Nat /\ Cardinality(s) <= Cardinality(S)
  BY FS_Subset, FS_CardinalityType
<1>a. ASSUME NEW s \in SUBSET S, s # {}
      PROVE  s \ {Chosen(s)} \in SUBSET S /\ Cardinality(s \ {Chosen(s)}) = Cardinality(s) - 1
  BY <1>0, <1>a, FS_RemoveElement DEF Chosen
<1>1. 0 \in T
  <2> DEFINE g == [s \in D(0) |-> 0]
  <2>1. \A s \in D(0) : s = {}
    BY <1>0, FS_EmptySet
  <2>2. g = [s \in D(0) |-> IF s = {} THEN 0 ELSE f[Chosen(s)] + g[s \ {Chosen(s)}]]
    BY <2>1
  <2> QED
    BY <2>2 DEF Sums
<1>2. ASSUME NEW n \in Nat, n \in T PROVE n + 1 \in T
  <2>1. PICK g : Sums(f, D(n), g)
    BY <1>2
  <2> DEFINE h == [s \in D(n + 1) |-> IF s = {} THEN 0 ELSE f[Chosen(s)] + g[s \ {Chosen(s)}]]
  <2>2. ASSUME NEW s \in D(n) PROVE h[s] = g[s]
    <3>1. s \in D(n + 1)
      BY <1>0
    <3> QED
      BY <2>1, <3>1 DEF Sums
  <2>3. ASSUME NEW s \in D(n + 1), s # {} PROVE s \ {Chosen(s)} \in D(n)
    BY <1>0, <1>a, <2>3
  <2>4. h = [s \in D(n + 1) |-> IF s = {} THEN 0 ELSE f[Chosen(s)] + h[s \ {Chosen(s)}]]
    <3>1. \A s \in D(n + 1) : s # {} => h[s \ {Chosen(s)}] = g[s \ {Chosen(s)}]
      BY <2>2, <2>3
    <3>2. \A s \in D(n + 1) : h[s] = IF s = {} THEN 0 ELSE f[Chosen(s)] + g[s \ {Chosen(s)}]
      OBVIOUS
    <3>3. h = [s \in D(n + 1) |-> h[s]]
      OBVIOUS
    <3> HIDE DEF h, D
    <3> QED
      BY <3>1, <3>2, <3>3
  <2> HIDE DEF h, D
  <2>5. Sums(f, D(n + 1), h)
    BY <2>4 DEF Sums
  <2> QED
    BY <2>5
<1> HIDE DEF T
<1>3. Cardinality(S) \in T
  BY <1>0, <1>1, <1>2, Induction
<1>4. D(Cardinality(S)) = SUBSET S
  BY <1>0
<1> HIDE DEF D
<1> QED
  BY <1>3, <1>4 DEF T, SumsUpTo

(* Two such functions agree where both are defined.                        *)
LEMMA SumsAgree ==
  ASSUME NEW f, NEW S, IsFiniteSet(S), NEW R \in SUBSET S,
         NEW g, SumsUpTo(f, S, g), NEW h, SumsUpTo(f, R, h)
  PROVE  g[R] = h[R]
<1> DEFINE T == {n \in Nat : \A s \in SUBSET R : Cardinality(s) = n => g[s] = h[s]}
<1>0. \A s \in SUBSET R : IsFiniteSet(s) /\ Cardinality(s) \in Nat
  BY FS_Subset, FS_CardinalityType
<1>1. 0 \in T
  <2>1. \A s \in SUBSET R : Cardinality(s) = 0 => s = {}
    BY <1>0, FS_EmptySet
  <2>2. g[{}] = 0 /\ h[{}] = 0
    BY DEF SumsUpTo, Sums
  <2> QED
    BY <2>1, <2>2
<1>2. ASSUME NEW n \in Nat, n \in T PROVE n + 1 \in T
  <2>1. ASSUME NEW s \in SUBSET R, Cardinality(s) = n + 1 PROVE g[s] = h[s]
    <3>1. s # {}
      <4>1. Cardinality(s) # 0
        BY <2>1
      <4> QED
        BY <1>0, <4>1, FS_EmptySet
    <3> DEFINE t == s \ {Chosen(s)}
    <3>2. Cardinality(t) = Cardinality(s) - 1 /\ t \in SUBSET R
      BY <1>0, <3>1, FS_RemoveElement DEF Chosen
    <3>3. g[t] = h[t]
      BY <1>2, <2>1, <3>2
    <3>4. g[s] = f[Chosen(s)] + g[t] /\ h[s] = f[Chosen(s)] + h[t]
      BY <3>1 DEF SumsUpTo, Sums
    <3> QED
      BY <3>3, <3>4
  <2> QED
    BY <2>1
<1> HIDE DEF T
<1>3. Cardinality(R) \in T
  BY <1>0, <1>1, <1>2, Induction
<1> QED
  BY <1>3 DEF T

LEMMA SumEmpty ==
  ASSUME NEW f
  PROVE  SumFunctionOnSet(f, {}) = 0
<1>1. PICK g : SumsUpTo(f, {}, g)
  BY SumsExists, FS_EmptySet
<1>2. PICK h : SumsUpTo(f, {}, h) /\ SumFunctionOnSet(f, {}) = h[{}]
  BY <1>1, SumIs
<1> QED
  BY <1>2 DEF SumsUpTo, Sums

LEMMA SumChosen ==
  ASSUME NEW f, NEW S, IsFiniteSet(S), S # {}
  PROVE  SumFunctionOnSet(f, S) = f[Chosen(S)] + SumFunctionOnSet(f, S \ {Chosen(S)})
<1>1. ASSUME NEW R \in SUBSET S, R = S \ {Chosen(S)}
      PROVE  SumFunctionOnSet(f, S) = f[Chosen(S)] + SumFunctionOnSet(f, R)
  <2>1. IsFiniteSet(R)
    BY FS_Subset
  <2>2. PICK g : SumsUpTo(f, S, g) /\ SumFunctionOnSet(f, S) = g[S]
    BY SumsExists, SumIs
  <2>3. PICK h : SumsUpTo(f, R, h) /\ SumFunctionOnSet(f, R) = h[R]
    BY <2>1, SumsExists, SumIs
  <2>4. g[S] = f[Chosen(S)] + g[R]
    BY <1>1, <2>2 DEF SumsUpTo, Sums
  <2>5. g[R] = h[R]
    BY <2>2, <2>3, SumsAgree
  <2> QED
    BY <2>2, <2>3, <2>4, <2>5
<1> QED
  BY <1>1

LEMMA SumType ==
  ASSUME NEW f, NEW S, IsFiniteSet(S), \A x \in S : f[x] \in Int
  PROVE  SumFunctionOnSet(f, S) \in Int
<1> DEFINE T == {n \in Nat : \A s \in SUBSET S : Cardinality(s) = n => SumFunctionOnSet(f, s) \in Int}
<1>0. \A s \in SUBSET S : IsFiniteSet(s) /\ Cardinality(s) \in Nat
  BY FS_Subset, FS_CardinalityType
<1>1. 0 \in T
  BY <1>0, FS_EmptySet, SumEmpty
<1>2. ASSUME NEW n \in Nat, n \in T PROVE n + 1 \in T
  <2>1. ASSUME NEW s \in SUBSET S, Cardinality(s) = n + 1
        PROVE  SumFunctionOnSet(f, s) \in Int
    <3> DEFINE t == s \ {Chosen(s)}
    <3>1. s # {}
      BY <2>1, FS_EmptySet
    <3>2. Chosen(s) \in s
      BY <3>1 DEF Chosen
    <3>3. Cardinality(t) = Cardinality(s) - 1 /\ t \in SUBSET S
      BY <1>0, <3>2, FS_RemoveElement
    <3>4. SumFunctionOnSet(f, t) \in Int
      BY <1>2, <2>1, <3>3
    <3>5. SumFunctionOnSet(f, s) = f[Chosen(s)] + SumFunctionOnSet(f, t)
      BY <1>0, <3>1, SumChosen
    <3> QED
      BY <3>2, <3>4, <3>5
  <2> QED
    BY <2>1
<1> HIDE DEF T
<1>3. Cardinality(S) \in T
  BY <1>0, <1>1, <1>2, Induction
<1> QED
  BY <1>3 DEF T

(* The order in which the elements are taken does not matter.              *)
LEMMA SumRemove ==
  ASSUME NEW f, NEW S, IsFiniteSet(S), \A x \in S : f[x] \in Int, NEW e \in S
  PROVE  SumFunctionOnSet(f, S) = f[e] + SumFunctionOnSet(f, S \ {e})
<1> DEFINE T == {n \in Nat : \A s \in SUBSET S : Cardinality(s) = n =>
                   \A x \in s : SumFunctionOnSet(f, s) = f[x] + SumFunctionOnSet(f, s \ {x})}
<1>0. \A s \in SUBSET S : IsFiniteSet(s) /\ Cardinality(s) \in Nat
  BY FS_Subset, FS_CardinalityType
<1>a. \A s \in SUBSET S : SumFunctionOnSet(f, s) \in Int
  BY <1>0, SumType
<1>1. 0 \in T
  BY <1>0, FS_EmptySet
<1>2. ASSUME NEW n \in Nat, n \in T PROVE n + 1 \in T
  <2>1. ASSUME NEW s \in SUBSET S, Cardinality(s) = n + 1, NEW x \in s
        PROVE  SumFunctionOnSet(f, s) = f[x] + SumFunctionOnSet(f, s \ {x})
    <3> DEFINE c == Chosen(s)
    <3>1. c \in s
      BY DEF Chosen
    <3>2. SumFunctionOnSet(f, s) = f[c] + SumFunctionOnSet(f, s \ {c})
      BY <1>0, SumChosen
    <3> HIDE DEF c
    <3>3. CASE x = c
      BY <3>2, <3>3
    <3>4. CASE x # c
      <4>1. Cardinality(s \ {c}) = Cardinality(s) - 1 /\ Cardinality(s \ {x}) = Cardinality(s) - 1
        BY <1>0, <3>1, FS_RemoveElement
      <4>2. Cardinality(s \ {c}) = n /\ Cardinality(s \ {x}) = n
        BY <2>1, <4>1
      <4>3. SumFunctionOnSet(f, s \ {c}) = f[x] + SumFunctionOnSet(f, (s \ {c}) \ {x})
        BY <1>2, <3>4, <4>2
      <4>4. SumFunctionOnSet(f, s \ {x}) = f[c] + SumFunctionOnSet(f, (s \ {x}) \ {c})
        BY <1>2, <3>1, <3>4, <4>2
      <4>5. (s \ {c}) \ {x} = (s \ {x}) \ {c}
        OBVIOUS
      <4> DEFINE rest == SumFunctionOnSet(f, (s \ {x}) \ {c})
      <4>6. f[x] \in Int /\ f[c] \in Int /\ rest \in Int
        BY <1>a, <3>1
      <4>7. SumFunctionOnSet(f, s) = f[c] + (f[x] + rest)
        BY <3>2, <4>3, <4>5
      <4>8. SumFunctionOnSet(f, s \ {x}) = f[c] + rest
        BY <4>4
      <4> HIDE DEF rest
      <4> QED
        BY <4>6, <4>7, <4>8
    <3> QED
      BY <3>3, <3>4
  <2> QED
    BY <2>1
<1> HIDE DEF T
<1>3. Cardinality(S) \in T
  BY <1>0, <1>1, <1>2, Induction
<1> QED
  BY <1>3 DEF T

LEMMA SumAdd ==
  ASSUME NEW f, NEW S, IsFiniteSet(S), NEW e, e \notin S, f[e] \in Int,
         \A x \in S : f[x] \in Int
  PROVE  SumFunctionOnSet(f, S \cup {e}) = f[e] + SumFunctionOnSet(f, S)
<1>1. IsFiniteSet(S \cup {e}) /\ (S \cup {e}) \ {e} = S
  BY FS_AddElement
<1> QED
  BY <1>1, SumRemove

-----------------------------------------------------------------------------
LEMMA SumSame ==
  ASSUME NEW f, NEW g, NEW S, IsFiniteSet(S),
         \A x \in S : f[x] \in Int /\ g[x] = f[x]
  PROVE  SumFunctionOnSet(f, S) = SumFunctionOnSet(g, S)
<1> DEFINE T == {s \in SUBSET S : SumFunctionOnSet(f, s) = SumFunctionOnSet(g, s)}
<1>1. {} \in T
  BY SumEmpty
<1>2. ASSUME NEW s \in SUBSET S, NEW x \in S, IsFiniteSet(s), s \in T, x \notin s
      PROVE  s \cup {x} \in T
  <2>1. SumFunctionOnSet(f, s \cup {x}) = f[x] + SumFunctionOnSet(f, s)
    BY <1>2, SumAdd
  <2>2. SumFunctionOnSet(g, s \cup {x}) = g[x] + SumFunctionOnSet(g, s)
    BY <1>2, SumAdd
  <2> QED
    BY <1>2, <2>1, <2>2
<1> HIDE DEF T
<1>3. S \in T
  BY <1>1, <1>2, SetInduction
<1> QED
  BY <1>3 DEF T

LEMMA SumUnion ==
  ASSUME NEW f, NEW A, NEW B, IsFiniteSet(A), IsFiniteSet(B), A \cap B = {},
         \A x \in A \cup B : f[x] \in Int
  PROVE  SumFunctionOnSet(f, A \cup B) = SumFunctionOnSet(f, A) + SumFunctionOnSet(f, B)
<1> DEFINE T == {s \in SUBSET B : SumFunctionOnSet(f, A \cup s) =
                   SumFunctionOnSet(f, A) + SumFunctionOnSet(f, s)}
<1>0. SumFunctionOnSet(f, A) \in Int
  BY SumType
<1>1. {} \in T
  <2>1. A \cup {} = A
    OBVIOUS
  <2> QED
    BY <1>0, <2>1, SumEmpty
<1>2. ASSUME NEW s \in SUBSET B, NEW x \in B, IsFiniteSet(s), s \in T, x \notin s
      PROVE  s \cup {x} \in T
  <2>1. IsFiniteSet(A \cup s) /\ x \notin A \cup s /\ A \cup (s \cup {x}) = (A \cup s) \cup {x}
    BY <1>2, FS_Union
  <2>2. SumFunctionOnSet(f, A \cup (s \cup {x})) = f[x] + SumFunctionOnSet(f, A \cup s)
    BY <1>2, <2>1, SumAdd
  <2>3. SumFunctionOnSet(f, s \cup {x}) = f[x] + SumFunctionOnSet(f, s)
    BY <1>2, SumAdd
  <2>4. SumFunctionOnSet(f, s) \in Int /\ f[x] \in Int
    BY <1>2, SumType
  <2> QED
    BY <1>0, <1>2, <2>2, <2>3, <2>4
<1> HIDE DEF T
<1>3. B \in T
  BY <1>1, <1>2, SetInduction
<1> QED
  BY <1>3 DEF T

(* A finite family of finite sets, none with an element of another.        *)
PartsOf(whole, S, P) ==
  /\ IsFiniteSet(S)
  /\ whole = UNION {P[x] : x \in S}
  /\ \A x \in S : IsFiniteSet(P[x])
  /\ \A x, y \in S : x # y => P[x] \cap P[y] = {}

(* The sums over the parts of a set add up to the sum over the set.        *)
LEMMA SumOfParts ==
  ASSUME NEW whole, NEW S, NEW P, PartsOf(whole, S, P), NEW f, NEW g,
         \A x \in S : g[x] = SumFunctionOnSet(f, P[x]),
         \A e \in whole : f[e] \in Int
  PROVE  IsFiniteSet(whole) /\ SumFunctionOnSet(g, S) = SumFunctionOnSet(f, whole)
<1>0. /\ IsFiniteSet(S)
      /\ whole = UNION {P[x] : x \in S}
      /\ \A x \in S : IsFiniteSet(P[x])
      /\ \A x, y \in S : x # y => P[x] \cap P[y] = {}
      /\ \A x \in S : \A e \in P[x] : f[e] \in Int
  BY DEF PartsOf
<1> USE <1>0
<1> DEFINE All(s) == UNION {P[x] : x \in s}
           T == {s \in SUBSET S : /\ IsFiniteSet(All(s))
                                  /\ SumFunctionOnSet(g, s) = SumFunctionOnSet(f, All(s))}
<1>1. {} \in T
  <2>1. All({}) = {}
    OBVIOUS
  <2> QED
    BY <2>1, SumEmpty, FS_EmptySet
<1>2. ASSUME NEW s \in SUBSET S, NEW x \in S, IsFiniteSet(s), s \in T, x \notin s
      PROVE  s \cup {x} \in T
  <2>1. All(s \cup {x}) = All(s) \cup P[x] /\ All(s) \cap P[x] = {}
    BY <1>2
  <2>2. IsFiniteSet(All(s)) /\ SumFunctionOnSet(g, s) = SumFunctionOnSet(f, All(s))
    BY <1>2
  <2>3. \A e \in All(s) \cup P[x] : f[e] \in Int
    OBVIOUS
  <2>4. \A y \in S : g[y] \in Int
    BY SumType
  <2> HIDE DEF All
  <2>5. IsFiniteSet(All(s) \cup P[x])
    BY <2>2, FS_Union
  <2>6. SumFunctionOnSet(f, All(s) \cup P[x]) = SumFunctionOnSet(f, All(s)) + g[x]
    BY <2>1, <2>2, <2>3, SumUnion
  <2>7. SumFunctionOnSet(g, s \cup {x}) = g[x] + SumFunctionOnSet(g, s)
    BY <1>2, <2>4, SumAdd
  <2>8. SumFunctionOnSet(g, s) \in Int /\ g[x] \in Int
    BY <1>2, <2>4, SumType
  <2>9. /\ IsFiniteSet(All(s \cup {x}))
        /\ SumFunctionOnSet(g, s \cup {x}) = SumFunctionOnSet(f, All(s \cup {x}))
    <3>1. SumFunctionOnSet(g, s \cup {x}) = SumFunctionOnSet(f, All(s)) + g[x]
      BY <2>2, <2>7, <2>8
    <3>2. SumFunctionOnSet(g, s \cup {x}) = SumFunctionOnSet(f, All(s) \cup P[x])
      BY <2>6, <3>1
    <3> QED
      BY <2>1, <2>5, <3>2
  <2> QED
    BY <2>9
<1> HIDE DEF T, All
<1>3. S \in T
  BY <1>1, <1>2, SetInduction
<1> QED
  BY <1>3 DEF T, All

LEMMA SumOnes ==
  ASSUME NEW f, NEW S, IsFiniteSet(S), \A x \in S : f[x] = 1
  PROVE  SumFunctionOnSet(f, S) = Cardinality(S)
<1> DEFINE T == {s \in SUBSET S : SumFunctionOnSet(f, s) = Cardinality(s)}
<1>1. {} \in T
  BY SumEmpty, FS_EmptySet
<1>2. ASSUME NEW s \in SUBSET S, NEW x \in S, IsFiniteSet(s), s \in T, x \notin s
      PROVE  s \cup {x} \in T
  <2>1. SumFunctionOnSet(f, s \cup {x}) = 1 + SumFunctionOnSet(f, s)
    BY <1>2, SumAdd
  <2>2. Cardinality(s \cup {x}) = Cardinality(s) + 1 /\ Cardinality(s) \in Nat
    BY <1>2, FS_AddElement, FS_CardinalityType
  <2> QED
    BY <1>2, <2>1, <2>2
<1> HIDE DEF T
<1>3. S \in T
  BY <1>1, <1>2, SetInduction
<1> QED
  BY <1>3 DEF T

(* Where each term is off by half of a third at most, so is the sum.       *)
LEMMA SumNear ==
  ASSUME NEW f, NEW g, NEW n, NEW S, IsFiniteSet(S),
         \A x \in S : /\ f[x] \in Int /\ g[x] \in Int /\ n[x] \in Int
                      /\ -n[x] <= 2 * (f[x] - g[x]) /\ 2 * (f[x] - g[x]) <= n[x]
  PROVE  LET d == SumFunctionOnSet(f, S) - SumFunctionOnSet(g, S) IN
         /\ - SumFunctionOnSet(n, S) <= 2 * d
         /\ 2 * d <= SumFunctionOnSet(n, S)
<1> DEFINE Near(s) ==
             /\ - SumFunctionOnSet(n, s) <= 2 * (SumFunctionOnSet(f, s) - SumFunctionOnSet(g, s))
             /\ 2 * (SumFunctionOnSet(f, s) - SumFunctionOnSet(g, s)) <= SumFunctionOnSet(n, s)
           T == {s \in SUBSET S : Near(s)}
<1>1. {} \in T
  BY SumEmpty
<1>2. ASSUME NEW s \in SUBSET S, NEW x \in S, IsFiniteSet(s), s \in T, x \notin s
      PROVE  s \cup {x} \in T
  <2>1. /\ SumFunctionOnSet(f, s \cup {x}) = f[x] + SumFunctionOnSet(f, s)
        /\ SumFunctionOnSet(g, s \cup {x}) = g[x] + SumFunctionOnSet(g, s)
        /\ SumFunctionOnSet(n, s \cup {x}) = n[x] + SumFunctionOnSet(n, s)
    <3>1. SumFunctionOnSet(f, s \cup {x}) = f[x] + SumFunctionOnSet(f, s)
      BY <1>2, SumAdd
    <3>2. SumFunctionOnSet(g, s \cup {x}) = g[x] + SumFunctionOnSet(g, s)
      BY <1>2, SumAdd
    <3>3. SumFunctionOnSet(n, s \cup {x}) = n[x] + SumFunctionOnSet(n, s)
      BY <1>2, SumAdd
    <3> QED
      BY <3>1, <3>2, <3>3
  <2>2. /\ SumFunctionOnSet(f, s) \in Int /\ SumFunctionOnSet(g, s) \in Int
        /\ SumFunctionOnSet(n, s) \in Int
    <3>1. SumFunctionOnSet(f, s) \in Int
      BY <1>2, SumType
    <3>2. SumFunctionOnSet(g, s) \in Int
      BY <1>2, SumType
    <3>3. SumFunctionOnSet(n, s) \in Int
      BY <1>2, SumType
    <3> QED
      BY <3>1, <3>2, <3>3
  <2>3. Near(s)
    BY <1>2
  <2> DEFINE a == SumFunctionOnSet(f, s)
             b == SumFunctionOnSet(g, s)
             c == SumFunctionOnSet(n, s)
  <2>4. /\ a \in Int /\ b \in Int /\ c \in Int
        /\ f[x] \in Int /\ g[x] \in Int /\ n[x] \in Int
        /\ -c <= 2 * (a - b) /\ 2 * (a - b) <= c
        /\ -n[x] <= 2 * (f[x] - g[x]) /\ 2 * (f[x] - g[x]) <= n[x]
    BY <2>2, <2>3
  <2> HIDE DEF a, b, c
  <2>5. /\ -(n[x] + c) <= 2 * ((f[x] + a) - (g[x] + b))
        /\ 2 * ((f[x] + a) - (g[x] + b)) <= n[x] + c
    BY <2>4
  <2>6. Near(s \cup {x})
    BY <2>1, <2>5 DEF a, b, c
  <2> QED
    BY <2>6
<1> HIDE DEF T
<1>3. S \in T
  BY <1>1, <1>2, SetInduction
<1> QED
  BY <1>3 DEF T

LEMMA SumZeros ==
  ASSUME NEW f, NEW S, IsFiniteSet(S), \A x \in S : f[x] = 0
  PROVE  SumFunctionOnSet(f, S) = 0
<1> DEFINE T == {s \in SUBSET S : SumFunctionOnSet(f, s) = 0}
<1>1. {} \in T
  BY SumEmpty
<1>2. ASSUME NEW s \in SUBSET S, NEW x \in S, IsFiniteSet(s), s \in T, x \notin s
      PROVE  s \cup {x} \in T
  <2>1. SumFunctionOnSet(f, s \cup {x}) = 0 + SumFunctionOnSet(f, s)
    BY <1>2, SumAdd
  <2> QED
    BY <1>2, <2>1
<1> HIDE DEF T
<1>3. S \in T
  BY <1>1, <1>2, SetInduction
<1> QED
  BY <1>3 DEF T

LEMMA SumPlus ==
  ASSUME NEW f, NEW g, NEW h, NEW S, IsFiniteSet(S),
         \A x \in S : f[x] \in Int /\ g[x] \in Int /\ h[x] = f[x] + g[x]
  PROVE  SumFunctionOnSet(h, S) = SumFunctionOnSet(f, S) + SumFunctionOnSet(g, S)
<1> DEFINE T == {s \in SUBSET S : SumFunctionOnSet(h, s) =
                   SumFunctionOnSet(f, s) + SumFunctionOnSet(g, s)}
<1>1. {} \in T
  BY SumEmpty
<1>2. ASSUME NEW s \in SUBSET S, NEW x \in S, IsFiniteSet(s), s \in T, x \notin s
      PROVE  s \cup {x} \in T
  <2>1. SumFunctionOnSet(f, s \cup {x}) = f[x] + SumFunctionOnSet(f, s)
    BY <1>2, SumAdd
  <2>2. SumFunctionOnSet(g, s \cup {x}) = g[x] + SumFunctionOnSet(g, s)
    BY <1>2, SumAdd
  <2>3. SumFunctionOnSet(h, s \cup {x}) = h[x] + SumFunctionOnSet(h, s)
    BY <1>2, SumAdd
  <2>4. SumFunctionOnSet(f, s) \in Int
    BY <1>2, SumType
  <2>5. SumFunctionOnSet(g, s) \in Int
    BY <1>2, SumType
  <2> QED
    BY <1>2, <2>1, <2>2, <2>3, <2>4, <2>5
<1> HIDE DEF T
<1>3. S \in T
  BY <1>1, <1>2, SetInduction
<1> QED
  BY <1>3 DEF T

(* What two tables have in common is added, the rest is taken over.        *)
LEMMA SumMerged ==
  ASSUME NEW A, NEW B, IsFiniteSet(A), IsFiniteSet(B), NEW f, NEW g, NEW h,
         \A x \in A : f[x] \in Int, \A x \in B : g[x] \in Int,
         \A x \in A \cap B : h[x] = f[x] + g[x],
         \A x \in A \ B : h[x] = f[x],
         \A x \in B \ A : h[x] = g[x]
  PROVE  SumFunctionOnSet(h, A \cup B) = SumFunctionOnSet(f, A) + SumFunctionOnSet(g, B)
<1>1. /\ IsFiniteSet(A \cap B) /\ IsFiniteSet(A \ B) /\ IsFiniteSet(B \ A)
      /\ A = (A \cap B) \cup (A \ B) /\ (A \cap B) \cap (A \ B) = {}
      /\ B = (A \cap B) \cup (B \ A) /\ (A \cap B) \cap (B \ A) = {}
      /\ A \cup B = A \cup (B \ A) /\ A \cap (B \ A) = {}
  BY FS_Intersection, FS_Difference
<1>2. ASSUME NEW C, NEW D, NEW E, C = A \cap B, D = A \ B, E = B \ A
      PROVE  SumFunctionOnSet(h, A \cup B) = SumFunctionOnSet(f, A) + SumFunctionOnSet(g, B)
  <2>0. IsFiniteSet(C) /\ IsFiniteSet(D) /\ IsFiniteSet(E)
    BY <1>1, <1>2
  <2>1. SumFunctionOnSet(f, C \cup D) = SumFunctionOnSet(f, C) + SumFunctionOnSet(f, D)
    BY <2>0, <1>2, SumUnion
  <2>2. SumFunctionOnSet(g, C \cup E) = SumFunctionOnSet(g, C) + SumFunctionOnSet(g, E)
    BY <2>0, <1>2, SumUnion
  <2>3. SumFunctionOnSet(h, C \cup D) = SumFunctionOnSet(h, C) + SumFunctionOnSet(h, D)
    BY <2>0, <1>2, SumUnion
  <2>4. SumFunctionOnSet(h, A \cup E) = SumFunctionOnSet(h, A) + SumFunctionOnSet(h, E)
    BY <2>0, <1>2, SumUnion
  <2>5. SumFunctionOnSet(h, C) = SumFunctionOnSet(f, C) + SumFunctionOnSet(g, C)
    BY <2>0, <1>2, SumPlus
  <2>6. SumFunctionOnSet(f, D) = SumFunctionOnSet(h, D)
    BY <2>0, <1>2, SumSame
  <2>7. SumFunctionOnSet(g, E) = SumFunctionOnSet(h, E)
    BY <2>0, <1>2, SumSame
  <2>8. /\ SumFunctionOnSet(f, C) \in Int /\ SumFunctionOnSet(f, D) \in Int
        /\ SumFunctionOnSet(g, C) \in Int /\ SumFunctionOnSet(g, E) \in Int
    <3>1. SumFunctionOnSet(f, C) \in Int  BY <2>0, <1>2, SumType
    <3>2. SumFunctionOnSet(f, D) \in Int  BY <2>0, <1>2, SumType
    <3>3. SumFunctionOnSet(g, C) \in Int  BY <2>0, <1>2, SumType
    <3>4. SumFunctionOnSet(g, E) \in Int  BY <2>0, <1>2, SumType
    <3> QED  BY <3>1, <3>2, <3>3, <3>4
  <2>9. A = C \cup D /\ B = C \cup E /\ A \cup B = A \cup E
    BY <1>2
  <2>10. SumFunctionOnSet(f, A) = SumFunctionOnSet(f, C) + SumFunctionOnSet(f, D)
    BY <2>1, <2>9
  <2>11. SumFunctionOnSet(g, B) = SumFunctionOnSet(g, C) + SumFunctionOnSet(g, E)
    BY <2>2, <2>9
  <2>12. SumFunctionOnSet(h, A \cup B) =
           (SumFunctionOnSet(h, C) + SumFunctionOnSet(h, D)) + SumFunctionOnSet(h, E)
    <3>1. SumFunctionOnSet(h, A) = SumFunctionOnSet(h, C) + SumFunctionOnSet(h, D)
      BY <2>3, <2>9
    <3>2. SumFunctionOnSet(h, A \cup B) = SumFunctionOnSet(h, A \cup E)
      BY <2>9
    <3> QED  BY <2>4, <3>1, <3>2
  <2> QED  BY <2>5, <2>6, <2>7, <2>8, <2>10, <2>11, <2>12
<1> QED  BY <1>2

(* The image of a finite set is finite.                                    *)
LEMMA FiniteImage ==
  ASSUME NEW S, IsFiniteSet(S), NEW f
  PROVE  IsFiniteSet({f[x] : x \in S})
<1> DEFINE T == {f[x] : x \in S}
           onto == [x \in S |-> f[x]]
<1>1. onto \in Surjection(S, T)
  BY DEF Surjection
<1> HIDE DEF T, onto
<1>2. IsFiniteSet(T)
  BY <1>1, FS_Surjection
<1> QED
  BY <1>2 DEF T

(* A finite set of natural numbers has a bound, and so a Max.              *)
LEMMA MaxOfFinite ==
  ASSUME NEW T, T \subseteq Nat, T # {}, IsFiniteSet(T)
  PROVE  Max(T) \in T /\ \A y \in T : Max(T) >= y
<1> DEFINE Bounded == {s \in SUBSET T : \E n \in Nat : \A y \in s : y <= n}
<1>1. {} \in Bounded
  <2>1. 0 \in Nat  OBVIOUS
  <2> QED  BY <2>1
<1>2. ASSUME NEW s \in SUBSET T, NEW x \in T, IsFiniteSet(s), s \in Bounded, x \notin s
      PROVE  s \cup {x} \in Bounded
  <2>1. PICK n \in Nat : \A y \in s : y <= n
    BY <1>2
  <2>2. x \in Nat /\ n + x \in Nat /\ \A y \in s : y \in Nat
    OBVIOUS
  <2>3. \A y \in s \cup {x} : y <= n + x
    BY <2>1, <2>2
  <2> QED
    BY <2>2, <2>3
<1> HIDE DEF Bounded
<1>3. T \in Bounded
  BY <1>1, <1>2, SetInduction
<1>4. PICK n \in Nat : \A y \in T : y <= n
  BY <1>3 DEF Bounded
<1>5. T \subseteq 0..n
  BY <1>4
<1> QED
  BY <1>5, MaxOfNats

(* The Min and the Max are what they are by their place alone.             *)
LEMMA MinIs ==
  ASSUME NEW T, T \subseteq Nat, NEW x \in T, \A y \in T : x <= y
  PROVE  Min(T) = x
<1>1. Min(T) \in T /\ \A y \in T : Min(T) <= y
  BY MinOfNats
<1>2. Min(T) <= x /\ x <= Min(T) /\ x \in Nat /\ Min(T) \in Nat
  BY <1>1
<1> QED
  BY <1>2

LEMMA MaxIs ==
  ASSUME NEW T, T \subseteq Nat, NEW x \in T, \A y \in T : x >= y
  PROVE  Max(T) = x
<1>1. T \subseteq 0..x /\ x \in Nat
  OBVIOUS
<1>2. Max(T) \in T /\ \A y \in T : Max(T) >= y
  BY <1>1, MaxOfNats
<1>3. Max(T) >= x /\ x >= Max(T) /\ Max(T) \in Nat
  BY <1>2
<1> QED
  BY <1>1, <1>3

LEMMA MinOfUnion ==
  ASSUME NEW A, NEW B, A \subseteq Nat, B \subseteq Nat, A # {}, B # {}
  PROVE  Min({Min(A), Min(B)}) = Min(A \cup B)
<1> DEFINE a == Min(A)
           b == Min(B)
<1>1. a \in A /\ (\A y \in A : a <= y)
  BY MinOfNats
<1>2. b \in B /\ (\A y \in B : b <= y)
  BY MinOfNats
<1> HIDE DEF a, b
<1>3. ASSUME NEW x \in {a, b}, x <= a, x <= b PROVE Min({a, b}) = Min(A \cup B)
  <2>1. Min({a, b}) = x
    <3>1. {a, b} \subseteq Nat /\ \A y \in {a, b} : x <= y
      BY <1>1, <1>2, <1>3
    <3> QED  BY <3>1, MinIs
  <2>2. Min(A \cup B) = x
    <3>1. x \in A \cup B /\ A \cup B \subseteq Nat
      BY <1>1, <1>2
    <3>2. \A y \in A \cup B : x <= y
      <4>1. a \in Nat /\ b \in Nat /\ x \in Nat  BY <1>1, <1>2
      <4> QED  BY <1>1, <1>2, <1>3, <4>1
    <3> QED  BY <3>1, <3>2, MinIs
  <2> QED  BY <2>1, <2>2
<1>4. a \in Nat /\ b \in Nat
  BY <1>1, <1>2
<1>5. (a <= a /\ a <= b) \/ (b <= a /\ b <= b)
  BY <1>4
<1>6. Min({a, b}) = Min(A \cup B)
  BY <1>3, <1>5
<1> QED
  BY <1>6 DEF a, b

LEMMA MaxOfUnion ==
  ASSUME NEW A, NEW B, A \subseteq Nat, B \subseteq Nat, A # {}, B # {},
         IsFiniteSet(A), IsFiniteSet(B)
  PROVE  Max({Max(A), Max(B)}) = Max(A \cup B)
<1> DEFINE a == Max(A)
           b == Max(B)
<1>1. a \in A /\ (\A y \in A : a >= y)
  BY MaxOfFinite
<1>2. b \in B /\ (\A y \in B : b >= y)
  BY MaxOfFinite
<1> HIDE DEF a, b
<1>3. ASSUME NEW x \in {a, b}, x >= a, x >= b PROVE Max({a, b}) = Max(A \cup B)
  <2>1. Max({a, b}) = x
    <3>1. {a, b} \subseteq Nat /\ \A y \in {a, b} : x >= y
      BY <1>1, <1>2, <1>3
    <3> QED  BY <3>1, MaxIs
  <2>2. Max(A \cup B) = x
    <3>1. x \in A \cup B /\ A \cup B \subseteq Nat
      BY <1>1, <1>2
    <3>2. \A y \in A \cup B : x >= y
      <4>1. a \in Nat /\ b \in Nat /\ x \in Nat  BY <1>1, <1>2
      <4> QED  BY <1>1, <1>2, <1>3, <4>1
    <3> QED  BY <3>1, <3>2, MaxIs
  <2> QED  BY <2>1, <2>2
<1>4. a \in Nat /\ b \in Nat
  BY <1>1, <1>2
<1>5. (a >= a /\ a >= b) \/ (b >= a /\ b >= b)
  BY <1>4
<1>6. Max({a, b}) = Max(A \cup B)
  BY <1>3, <1>5
<1> QED
  BY <1>6 DEF a, b
=============================================================================
