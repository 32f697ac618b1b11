----------------------- MODULE MockTraderQueriesProofs -----------------------
(***************************************************************************)
(* Proofs about what the queries of MockTraderApi answer: the positions    *)
(* are those of the filled orders, and the trades a client polls only      *)
(* grow.                                                                   *)
(*                                                                         *)
(* Both are about what a loop over trades_ computes, so the module starts  *)
(* with what is true of a sum over a finite set and of a selection from a  *)
(* sequence.  They are defined by recursion; what they compute is shown by *)
(* induction over the number of elements, with the least number principle  *)
(* of WellFoundedInduction.                                                *)
(***************************************************************************)
EXTENDS MockTraderBookProofs, MockTraderQueries, FiniteSetTheorems, WellFoundedInduction

-----------------------------------------------------------------------------
(* Sums *)

\* Induction over the naturals: a set that has 0 and with n also n + 1 has them all.
LEMMA Induction ==
  ASSUME NEW N \in SUBSET Nat, 0 \in N, \A n \in N : n + 1 \in N
  PROVE  N = Nat
<1>1. SUFFICES ASSUME Nat \ N # {} PROVE FALSE
  OBVIOUS
<1>2. \A i, j \in Nat : j < i => <<j, i>> \in OpToRel(<, Nat)
  BY Zenon DEF OpToRel
<1>3. PICK m \in Nat \ N : \A j \in Nat \ N : ~ (<<j, m>> \in OpToRel(<, Nat))
  BY <1>1, NatLessThanWellFounded, WFMin
<1>4. \A j \in Nat \ N : ~ (j < m)
  BY <1>2, <1>3, Zenon
<1>5. m - 1 \in N
  <2>1. m \in Nat /\ m # 0
    BY <1>3
  <2>2. m - 1 \in Nat /\ m - 1 < m
    BY <2>1
  <2>. QED
    BY <1>4, <2>2
<1>6. (m - 1) + 1 \in N
  BY <1>5
<1>7. m \in Nat
  BY <1>3
<1>8. (m - 1) + 1 = m
  BY <1>7
<1>. QED
  BY <1>3, <1>6, <1>8

\* The element of s that is added first.
Pick(s) == CHOOSE x \in s : TRUE

\* It is one of its elements.
LEMMA PickIn == ASSUME NEW s, s # {} PROVE Pick(s) \in s
  BY DEF Pick

\* it sums f over the subsets of S
Summing(it, f, S) == it = [s \in SUBSET S |-> IF s = {} THEN 0 ELSE f[Pick(s)] + it[s \ {Pick(s)}]]

\* The function that defines a sum.
LEMMA SumDef ==
  ASSUME NEW f, NEW S
  PROVE  SumFunctionOnSet(f, S) = (CHOOSE it : Summing(it, f, S))[S]
  BY DEF SumFunctionOnSet, FoldFunctionOnSet, MapThenFoldSet, Summing, Pick

\* Sizes of sets as they lose an element.
LEMMA Sizes ==
  ASSUME NEW S, IsFiniteSet(S)
  PROVE  \A s \in SUBSET S :
           /\ IsFiniteSet(s) /\ Cardinality(s) \in Nat /\ Cardinality(s) <= Cardinality(S)
           /\ Cardinality(s) = 0 <=> s = {}
           /\ \A x \in s : Cardinality(s \ {x}) = Cardinality(s) - 1
  BY FS_Subset, FS_EmptySet, FS_RemoveElement, FS_CardinalityType

\* There is such a function: it is built for larger and larger subsets.
LEMMA SumExists ==
  ASSUME NEW S, IsFiniteSet(S), NEW f, \A x \in S : f[x] \in Int
  PROVE  \E it \in [SUBSET S -> Int] : Summing(it, f, S)
<1> DEFINE Right(it, s) == it[s] = IF s = {} THEN 0 ELSE f[Pick(s)] + it[s \ {Pick(s)}]
           N == {n \in Nat : \E it \in [SUBSET S -> Int] :
                               \A s \in SUBSET S : Cardinality(s) <= n => Right(it, s)}
<1>1. 0 \in N
  <2> DEFINE it == [s \in SUBSET S |-> 0]
  <2>1. it \in [SUBSET S -> Int]
    OBVIOUS
  <2>2. \A s \in SUBSET S : Cardinality(s) <= 0 => s = {}
    BY Sizes
  <2>3. \A s \in SUBSET S : Cardinality(s) <= 0 => Right(it, s)
    BY <2>2
  <2>. QED
    BY <2>1, <2>3
<1>2. ASSUME NEW n \in N PROVE n + 1 \in N
  <2>1. PICK it \in [SUBSET S -> Int] : \A s \in SUBSET S : Cardinality(s) <= n => Right(it, s)
    BY <1>2
  <2> DEFINE new == [s \in SUBSET S |-> IF Cardinality(s) <= n THEN it[s]
                                        ELSE f[Pick(s)] + it[s \ {Pick(s)}]]
  <2>2. \A s \in SUBSET S : s # {} => /\ Pick(s) \in s /\ Pick(s) \in S
                                      /\ s \ {Pick(s)} \in SUBSET S
                                      /\ f[Pick(s)] \in Int
                                      /\ it[s \ {Pick(s)}] \in Int
                                      /\ Cardinality(s \ {Pick(s)}) = Cardinality(s) - 1
    BY PickIn, Sizes
  <2>3. n \in Nat
    BY <1>2
  <2>4. \A s \in SUBSET S : ~ (Cardinality(s) <= n) => s # {}
    BY <2>3, Sizes
  <2>5. new \in [SUBSET S -> Int]
    BY <2>2, <2>4
  <2>6. ASSUME NEW s \in SUBSET S, Cardinality(s) <= n + 1 PROVE Right(new, s)
    <3>1. CASE s = {}
      BY <2>1, <2>3, <3>1, Sizes
    <3>2. CASE s # {}
      <4>1. Cardinality(s \ {Pick(s)}) <= n
        BY <2>2, <2>3, <2>6, <3>2, Sizes
      <4>2. new[s \ {Pick(s)}] = it[s \ {Pick(s)}]
        BY <2>2, <3>2, <4>1
      <4>3. CASE Cardinality(s) <= n
        BY <2>1, <3>2, <4>2, <4>3
      <4>4. CASE ~ (Cardinality(s) <= n)
        BY <3>2, <4>2, <4>4
      <4>. QED
        BY <4>3, <4>4
    <3>. QED
      BY <3>1, <3>2
  <2>7. \E next \in [SUBSET S -> Int] : \A s \in SUBSET S : Cardinality(s) <= n + 1 => Right(next, s)
    <3> HIDE DEF new, Right
    <3>. QED
      BY <2>5, <2>6
  <2>. HIDE DEF Right
  <2>. QED
    BY <2>3, <2>7
<1>3. Cardinality(S) \in N
  <2>1. N = Nat
    <3> HIDE DEF N
    <3>1. N \in SUBSET Nat
      BY DEF N
    <3>. QED
      BY <1>1, <1>2, <3>1, Induction
  <2>. QED
    BY <2>1, FS_CardinalityType
<1>4. PICK it \in [SUBSET S -> Int] : \A s \in SUBSET S : Cardinality(s) <= Cardinality(S) => Right(it, s)
  BY <1>3
<1>5. \A s \in SUBSET S : Right(it, s)
  BY <1>4, Sizes
<1>. QED
  BY <1>4, <1>5 DEF Summing

\* A sum over S is found in the function of any larger set.
LEMMA SumsAgree ==
  ASSUME NEW S, IsFiniteSet(S), NEW T \in SUBSET S, NEW f,
         NEW a, NEW b, Summing(a, f, S), Summing(b, f, T)
  PROVE  b[T] = a[T]
<1> DEFINE N == {n \in Nat : \A s \in SUBSET T : Cardinality(s) <= n => a[s] = b[s]}
<1>1. \A s \in SUBSET T : /\ s \in SUBSET S
                          /\ a[s] = IF s = {} THEN 0 ELSE f[Pick(s)] + a[s \ {Pick(s)}]
                          /\ b[s] = IF s = {} THEN 0 ELSE f[Pick(s)] + b[s \ {Pick(s)}]
  BY DEF Summing
<1>2. IsFiniteSet(T)
  BY FS_Subset
<1>3. 0 \in N
  <2>1. \A s \in SUBSET T : Cardinality(s) <= 0 => s = {}
    BY <1>2, Sizes
  <2>. QED
    BY <1>1, <2>1
<1>4. ASSUME NEW n \in N PROVE n + 1 \in N
  <2>1. ASSUME NEW s \in SUBSET T, Cardinality(s) <= n + 1 PROVE a[s] = b[s]
    <3>1. CASE s = {}
      BY <1>1, <3>1
    <3>2. CASE s # {}
      <4>1. s \ {Pick(s)} \in SUBSET T /\ Cardinality(s \ {Pick(s)}) <= n
        BY <1>2, <1>4, <2>1, <3>2, PickIn, Sizes
      <4>2. a[s \ {Pick(s)}] = b[s \ {Pick(s)}]
        BY <1>4, <4>1
      <4>. QED
        BY <1>1, <3>2, <4>2
    <3>. QED
      BY <3>1, <3>2
  <2>. QED
    BY <1>4, <2>1
<1>5. N = Nat
  <2> HIDE DEF N
  <2>1. N \in SUBSET Nat
    BY DEF N
  <2>. QED
    BY <1>3, <1>4, <2>1, Induction
<1>6. Cardinality(T) \in N
  BY <1>2, <1>5, FS_CardinalityType
<1>. QED
  BY <1>2, <1>6, Sizes

\* A sum as that of one element and the others.
LEMMA SumUnfolds ==
  ASSUME NEW S, IsFiniteSet(S), NEW f, \A x \in S : f[x] \in Int
  PROVE  /\ SumFunctionOnSet(f, S) \in Int
         /\ SumFunctionOnSet(f, S) =
              IF S = {} THEN 0 ELSE f[Pick(S)] + SumFunctionOnSet(f, S \ {Pick(S)})
<1>1. ASSUME NEW T \in SUBSET S
      PROVE  \E it \in [SUBSET T -> Int] : Summing(it, f, T) /\ SumFunctionOnSet(f, T) = it[T]
  <2>1. IsFiniteSet(T) /\ \A x \in T : f[x] \in Int
    BY FS_Subset
  <2>2. PICK good \in [SUBSET T -> Int] : Summing(good, f, T)
    BY <2>1, SumExists
  <2> DEFINE it == CHOOSE g : Summing(g, f, T)
  <2>3. Summing(it, f, T)
    BY <2>2
  <2>4. SumFunctionOnSet(f, T) = it[T]
    BY SumDef
  <2> HIDE DEF it
  <2>5. ASSUME NEW s \in SUBSET T PROVE good[s] = it[s]
    <3>1. PICK mid \in [SUBSET s -> Int] : Summing(mid, f, s)
      BY <2>1, SumExists, FS_Subset
    <3>2. mid[s] = good[s]
      BY <2>1, <2>2, <3>1, SumsAgree
    <3>3. mid[s] = it[s]
      BY <2>1, <2>3, <3>1, SumsAgree
    <3>. QED
      BY <3>2, <3>3
  <2>6. DOMAIN it = SUBSET T /\ it = [s \in SUBSET T |-> it[s]]
    BY <2>3 DEF Summing
  <2>7. it = good
    BY <2>5, <2>6
  <2>. QED
    BY <2>2, <2>4, <2>7
<1>2. PICK it \in [SUBSET S -> Int] : Summing(it, f, S) /\ SumFunctionOnSet(f, S) = it[S]
  BY <1>1
<1>3. CASE S = {}
  BY <1>2, <1>3 DEF Summing
<1>4. CASE S # {}
  <2> DEFINE T == S \ {Pick(S)}
  <2>1. PICK less \in [SUBSET T -> Int] : Summing(less, f, T) /\ SumFunctionOnSet(f, T) = less[T]
    BY <1>1
  <2>2. less[T] = it[T]
    BY <1>2, <2>1, SumsAgree
  <2>3. it[S] = f[Pick(S)] + it[T] /\ it[S] \in Int
    BY <1>2, <1>4 DEF Summing
  <2>. QED
    BY <1>2, <1>4, <2>1, <2>2, <2>3
<1>. QED
  BY <1>3, <1>4

\* It does not matter which element is added first.
LEMMA SumRemoves ==
  ASSUME NEW D, IsFiniteSet(D), NEW f, \A x \in D : f[x] \in Int, NEW x \in D
  PROVE  SumFunctionOnSet(f, D) = f[x] + SumFunctionOnSet(f, D \ {x})
<1> DEFINE Sum(S) == SumFunctionOnSet(f, S)
           N == {n \in Nat : \A S \in SUBSET D : Cardinality(S) <= n =>
                               \A y \in S : Sum(S) = f[y] + Sum(S \ {y})}
<1>1. \A S \in SUBSET D : /\ IsFiniteSet(S)
                          /\ Sum(S) \in Int
                          /\ S # {} => Pick(S) \in S /\ Sum(S) = f[Pick(S)] + Sum(S \ {Pick(S)})
  BY SumUnfolds, PickIn, FS_Subset
<1> HIDE DEF Sum
<1>2. 0 \in N
  <2>1. \A S \in SUBSET D : Cardinality(S) <= 0 => S = {}
    BY Sizes
  <2>. QED
    BY <2>1
<1>3. ASSUME NEW n \in N PROVE n + 1 \in N
  <2>1. ASSUME NEW S \in SUBSET D, Cardinality(S) <= n + 1, NEW y \in S
        PROVE  Sum(S) = f[y] + Sum(S \ {y})
    <3>1. CASE y = Pick(S)
      BY <1>1, <3>1
    <3>2. CASE y # Pick(S)
      <4> DEFINE p == Pick(S)
                 rest == (S \ {p}) \ {y}
      <4>1. p \in S /\ p # y
        BY <3>2, PickIn
      <4> HIDE DEF p
      <4>2. S \ {p} \in SUBSET D /\ S \ {y} \in SUBSET D /\ rest \in SUBSET D
        OBVIOUS
      <4>3. Cardinality(S \ {p}) <= n /\ Cardinality(S \ {y}) <= n
        BY <1>3, <2>1, <4>1, Sizes
      <4>4. Sum(S \ {p}) = f[y] + Sum(rest)
        BY <1>3, <4>1, <4>2, <4>3
      <4>5. Sum(S \ {y}) = f[p] + Sum(rest)
        <5>1. rest = (S \ {y}) \ {p}
          OBVIOUS
        <5>. QED
          BY <1>3, <4>1, <4>2, <4>3, <5>1
      <4>6. Sum(S) = f[p] + Sum(S \ {p})
        BY <1>1 DEF p
      <4>7. f[p] \in Int /\ f[y] \in Int /\ Sum(rest) \in Int
        BY <1>1, <4>1, <4>2
      <4>. QED
        BY <4>4, <4>5, <4>6, <4>7
    <3>. QED
      BY <3>1, <3>2
  <2>. QED
    BY <1>3, <2>1
<1>4. N = Nat
  <2> HIDE DEF N
  <2>1. N \in SUBSET Nat
    BY DEF N
  <2>. QED
    BY <1>2, <1>3, <2>1, Induction
<1>5. Cardinality(D) \in N
  BY <1>4, FS_CardinalityType
<1>6. Sum(D) = f[x] + Sum(D \ {x})
  BY <1>5, Sizes
<1>. QED
  BY <1>6 DEF Sum

\* Two sums of the same values are equal.
LEMMA SumsMatch ==
  ASSUME NEW D, IsFiniteSet(D), NEW f, \A x \in D : f[x] \in Int,
         NEW E, IsFiniteSet(E), NEW g, NEW b \in [D -> E],
         \A x \in D : g[b[x]] = f[x],
         \A x, y \in D : b[x] = b[y] => x = y,
         \A z \in E : \E x \in D : z = b[x]
  PROVE  SumFunctionOnSet(f, D) = SumFunctionOnSet(g, E)
<1> DEFINE Image(S) == {b[x] : x \in S}
           Equal(S) == SumFunctionOnSet(f, S) = SumFunctionOnSet(g, Image(S))
           N == {n \in Nat : \A S \in SUBSET D : Cardinality(S) <= n => Equal(S)}
<1>1. \A z \in E : g[z] \in Int
  OBVIOUS
<1>2. \A S \in SUBSET D : IsFiniteSet(S) /\ IsFiniteSet(Image(S)) /\ Image(S) \in SUBSET E
  <2>1. \A S \in SUBSET D : Image(S) \in SUBSET E
    OBVIOUS
  <2>. QED
    BY <2>1, FS_Subset
<1>3. Equal({})
  <2>1. Image({}) = {}
    OBVIOUS
  <2>. QED
    BY <2>1, SumUnfolds, FS_EmptySet
<1>4. 0 \in N
  <2>1. \A S \in SUBSET D : Cardinality(S) <= 0 => S = {}
    BY Sizes
  <2>. QED
    BY <1>3, <2>1
<1>5. ASSUME NEW n \in N PROVE n + 1 \in N
  <2>1. ASSUME NEW S \in SUBSET D, Cardinality(S) <= n + 1 PROVE Equal(S)
    <3>1. CASE S = {}
      BY <1>3, <3>1
    <3>2. CASE S # {}
      <4>1. PICK x \in S : TRUE
        BY <3>2
      <4>2. Cardinality(S \ {x}) <= n /\ S \ {x} \in SUBSET D
        BY <1>5, <2>1, Sizes
      <4>3. Equal(S \ {x})
        BY <1>5, <4>2
      <4>4. Image(S \ {x}) = Image(S) \ {b[x]} /\ b[x] \in Image(S)
        OBVIOUS
      <4>5. SumFunctionOnSet(f, S) = f[x] + SumFunctionOnSet(f, S \ {x})
        <5>1. IsFiniteSet(S) /\ \A y \in S : f[y] \in Int
          BY <1>2
        <5> HIDE DEF Image
        <5>. QED
          BY <5>1, SumRemoves
      <4>6. SumFunctionOnSet(g, Image(S)) = g[b[x]] + SumFunctionOnSet(g, Image(S) \ {b[x]})
        <5>1. IsFiniteSet(Image(S)) /\ \A z \in Image(S) : g[z] \in Int
          BY <1>1, <1>2
        <5> HIDE DEF Image
        <5>. QED
          BY <4>4, <5>1, SumRemoves
      <4>7. g[b[x]] = f[x]
        OBVIOUS
      <4>. QED
        BY <4>3, <4>4, <4>5, <4>6, <4>7
    <3>. QED
      BY <3>1, <3>2
  <2>. QED
    BY <1>5, <2>1
<1>6. N = Nat
  <2> HIDE DEF N
  <2>1. N \in SUBSET Nat
    BY DEF N
  <2>. QED
    BY <1>4, <1>5, <2>1, Induction
<1>7. Cardinality(D) \in N
  BY <1>6, FS_CardinalityType
<1>8. Image(D) = E
  OBVIOUS
<1>. QED
  BY <1>7, <1>8, Sizes

-----------------------------------------------------------------------------
(* Selections *)

\* a selects from seq, element by element, those at the places in M
Selected(a, seq, M) ==
  a = [n \in 0 .. Len(seq) |->
         IF n = 0 THEN <<>>
         ELSE IF n \in M THEN Append(a[n - 1], seq[n]) ELSE a[n - 1]]

\* What a selection is after n elements.
LEMMA SelectionStep ==
  ASSUME NEW T, NEW seq \in Seq(T), NEW M, NEW a, Selected(a, seq, M), NEW n \in 0 .. Len(seq)
  PROVE  a[n] = IF n = 0 THEN <<>>
                ELSE IF n \in M THEN Append(a[n - 1], seq[n]) ELSE a[n - 1]
<1> DEFINE next(k) == IF k = 0 THEN <<>>
                      ELSE IF k \in M THEN Append(a[k - 1], seq[k]) ELSE a[k - 1]
<1>1. a = [k \in 0 .. Len(seq) |-> next(k)]
  BY DEF Selected
<1>2. a[n] = next(n)
  <2>. HIDE DEF next
  <2>. QED
    BY <1>1
<1>. QED
  BY <1>2

\* There is such a function: it is built for longer and longer prefixes.
LEMMA SelectionExists ==
  ASSUME NEW T, NEW seq \in Seq(T), NEW M
  PROVE  \E a \in [0 .. Len(seq) -> Seq(T)] : Selected(a, seq, M)
<1> DEFINE Right(a, n) == a[n] = IF n = 0 THEN <<>>
                                 ELSE IF n \in M THEN Append(a[n - 1], seq[n]) ELSE a[n - 1]
           K == {k \in Nat : k <= Len(seq) =>
                   \E a \in [0 .. k -> Seq(T)] : \A n \in 0 .. k : Right(a, n)}
<1>1. 0 \in K
  <2> DEFINE a == [n \in 0 .. 0 |-> <<>>]
  <2>1. a \in [0 .. 0 -> Seq(T)] /\ \A n \in 0 .. 0 : Right(a, n)
    OBVIOUS
  <2>. QED
    BY <2>1
<1>2. ASSUME NEW k \in K PROVE k + 1 \in K
  <2>1. SUFFICES ASSUME k + 1 <= Len(seq)
                 PROVE  \E a \in [0 .. (k + 1) -> Seq(T)] : \A n \in 0 .. (k + 1) : Right(a, n)
    <3>1. k + 1 \in Nat
      OBVIOUS
    <3>. HIDE DEF Right
    <3>. QED
      BY <3>1
  <2>2. k \in Nat /\ k <= Len(seq) /\ Len(seq) \in Nat
    BY <2>1
  <2>3. PICK a \in [0 .. k -> Seq(T)] : \A n \in 0 .. k : Right(a, n)
    BY <1>2, <2>2
  <2> DEFINE last == IF k + 1 \in M THEN Append(a[k], seq[k + 1]) ELSE a[k]
             new == [n \in 0 .. (k + 1) |-> IF n = k + 1 THEN last ELSE a[n]]
  <2>4. last \in Seq(T)
    <3>1. a[k] \in Seq(T) /\ seq[k + 1] \in T
      BY <2>1, <2>2
    <3>. QED
      BY <3>1
  <2>5. new \in [0 .. (k + 1) -> Seq(T)]
    <3>. HIDE DEF last
    <3>. QED
      BY <2>2, <2>4
  <2>6. ASSUME NEW n \in 0 .. (k + 1) PROVE Right(new, n)
    <3>1. CASE n = k + 1
      <4>1. n # 0 /\ n - 1 = k /\ k \in 0 .. (k + 1) /\ k # k + 1
        BY <2>2, <3>1
      <4>2. new[n - 1] = a[k]
        BY <4>1
      <4>3. new[n] = last
        BY <3>1
      <4>. HIDE DEF new
      <4>. QED
        BY <3>1, <4>1, <4>2, <4>3
    <3>2. CASE n # k + 1
      <4>1. n \in 0 .. k
        BY <2>2, <3>2
      <4>2. new[n] = a[n] /\ Right(a, n)
        BY <2>3, <3>2, <4>1
      <4>3. CASE n = 0
        <5>. HIDE DEF new
        <5>. QED
          BY <4>2, <4>3
      <4>4. CASE n # 0
        <5>1. n - 1 \in 0 .. (k + 1) /\ n - 1 # k + 1
          BY <2>2, <4>1, <4>4
        <5>2. new[n - 1] = a[n - 1]
          BY <5>1
        <5>. HIDE DEF new
        <5>. QED
          BY <4>2, <4>4, <5>2
      <4>. QED
        BY <4>3, <4>4
    <3>. QED
      BY <3>1, <3>2
  <2>. HIDE DEF Right, new
  <2>. QED
    BY <2>5, <2>6
<1>3. Len(seq) \in K
  <2>1. K = Nat
    <3>. HIDE DEF K
    <3>1. K \in SUBSET Nat
      BY DEF K
    <3>. QED
      BY <1>1, <1>2, <3>1, Induction
  <2>. QED
    BY <2>1
<1>4. PICK a \in [0 .. Len(seq) -> Seq(T)] : \A n \in 0 .. Len(seq) : Right(a, n)
  BY <1>3
<1>5. Selected(a, seq, M)
  BY <1>4 DEF Selected
<1>. QED
  BY <1>5

\* Selections from a sequence and from one that continues it agree on what they share.
LEMMA SelectionsAgree ==
  ASSUME NEW T, NEW seq \in Seq(T), NEW M, NEW a, Selected(a, seq, M),
         NEW ext \in Seq(T), NEW P, NEW b, Selected(b, ext, P),
         Len(seq) <= Len(ext),
         \A n \in 1 .. Len(seq) : ext[n] = seq[n] /\ (n \in P <=> n \in M)
  PROVE  b[Len(seq)] = a[Len(seq)]
<1> DEFINE K == {k \in Nat : k <= Len(seq) => b[k] = a[k]}
<1>1. /\ Len(seq) \in Nat /\ Len(ext) \in Nat
      /\ \A n \in 0 .. Len(seq) :
           /\ a[n] = IF n = 0 THEN <<>> ELSE IF n \in M THEN Append(a[n - 1], seq[n]) ELSE a[n - 1]
           /\ b[n] = IF n = 0 THEN <<>> ELSE IF n \in P THEN Append(b[n - 1], ext[n]) ELSE b[n - 1]
  <2>1. Len(seq) \in Nat /\ Len(ext) \in Nat
    OBVIOUS
  <2>2. ASSUME NEW n \in 0 .. Len(seq)
        PROVE  a[n] = IF n = 0 THEN <<>> ELSE IF n \in M THEN Append(a[n - 1], seq[n]) ELSE a[n - 1]
    <3>. HIDE DEF K
    <3>. QED
      BY SelectionStep
  <2>3. ASSUME NEW n \in 0 .. Len(seq)
        PROVE  b[n] = IF n = 0 THEN <<>> ELSE IF n \in P THEN Append(b[n - 1], ext[n]) ELSE b[n - 1]
    <3>1. n \in 0 .. Len(ext)
      BY <2>1
    <3>. HIDE DEF K
    <3>. QED
      BY <3>1, SelectionStep
  <2>. QED
    BY <2>1, <2>2, <2>3
<1>2. 0 \in K
  BY <1>1
<1>3. ASSUME NEW k \in K PROVE k + 1 \in K
  <2>1. SUFFICES ASSUME k + 1 <= Len(seq) PROVE b[k + 1] = a[k + 1]
    OBVIOUS
  <2>2. k \in Nat /\ k + 1 \in 0 .. Len(seq) /\ k + 1 \in 1 .. Len(seq) /\ (k + 1) - 1 = k /\ k + 1 # 0
    BY <1>1, <2>1
  <2>3. b[k] = a[k]
    BY <1>1, <2>1, <2>2
  <2>4. a[k + 1] = IF k + 1 \in M THEN Append(a[k], seq[k + 1]) ELSE a[k]
    BY <1>1, <2>2
  <2>5. b[k + 1] = IF k + 1 \in P THEN Append(b[k], ext[k + 1]) ELSE b[k]
    BY <1>1, <2>2
  <2>. QED
    BY <2>2, <2>3, <2>4, <2>5
<1>4. K = Nat
  <2>. HIDE DEF K
  <2>1. K \in SUBSET Nat
    BY DEF K
  <2>. QED
    BY <1>2, <1>3, <2>1, Induction
<1>. QED
  BY <1>1, <1>4

\* What has been selected from the beginning of a sequence is a prefix of what is
\* selected in the end.
LEMMA SelectionGrows ==
  ASSUME NEW T, NEW seq \in Seq(T), NEW M, NEW a, Selected(a, seq, M),
         \A n \in 0 .. Len(seq) : a[n] \in Seq(T), NEW m \in 0 .. Len(seq)
  PROVE  IsPrefix(a[m], a[Len(seq)])
<1> DEFINE Before(s, t) == /\ Len(s) <= Len(t)
                           /\ \A i \in 1 .. Len(s) : t[i] = s[i]
           K == {k \in Nat : m + k <= Len(seq) => Before(a[m], a[m + k])}
<1>1. /\ Len(seq) \in Nat /\ m \in Nat
      /\ \A n \in 0 .. Len(seq) :
           a[n] = IF n = 0 THEN <<>> ELSE IF n \in M THEN Append(a[n - 1], seq[n]) ELSE a[n - 1]
  <2>1. Len(seq) \in Nat /\ m \in Nat
    OBVIOUS
  <2>2. ASSUME NEW n \in 0 .. Len(seq)
        PROVE  a[n] = IF n = 0 THEN <<>> ELSE IF n \in M THEN Append(a[n - 1], seq[n]) ELSE a[n - 1]
    <3>. HIDE DEF K, Before
    <3>. QED
      BY SelectionStep
  <2>. QED
    BY <2>1, <2>2
<1>2. \A n \in 0 .. Len(seq) : a[n] \in Seq(T)
  OBVIOUS
<1>3. 0 \in K
  BY <1>1, <1>2
<1>4. ASSUME NEW k \in K PROVE k + 1 \in K
  <2>1. SUFFICES ASSUME m + (k + 1) <= Len(seq) PROVE Before(a[m], a[m + (k + 1)])
    OBVIOUS
  <2> DEFINE n == m + (k + 1)
  <2>2. /\ k \in Nat /\ m + k <= Len(seq) /\ m + k \in 0 .. Len(seq)
        /\ n \in 1 .. Len(seq) /\ n \in 0 .. Len(seq) /\ n # 0 /\ n - 1 = m + k
    BY <1>1, <2>1
  <2>3. Before(a[m], a[m + k])
    BY <2>2
  <2>4. a[n] = IF n \in M THEN Append(a[m + k], seq[n]) ELSE a[m + k]
    <3>. HIDE DEF n
    <3>. QED
      BY <1>1, <2>2
  <2>5. a[m] \in Seq(T) /\ a[m + k] \in Seq(T) /\ seq[n] \in T
    BY <1>2, <2>2
  <2>6. Before(a[m], Append(a[m + k], seq[n]))
    BY <2>3, <2>5
  <2>. QED
    BY <2>3, <2>4, <2>6
<1>5. K = Nat
  <2>. HIDE DEF K
  <2>1. K \in SUBSET Nat
    BY DEF K
  <2>. QED
    BY <1>3, <1>4, <2>1, Induction
<1>6. Len(seq) - m \in K /\ m + (Len(seq) - m) = Len(seq)
  <2>1. Len(seq) - m \in Nat /\ m + (Len(seq) - m) = Len(seq)
    BY <1>1
  <2>. HIDE DEF K
  <2>. QED
    BY <1>5, <2>1
<1>7. Before(a[m], a[Len(seq)])
  BY <1>1, <1>6
<1>8. a[m] \in Seq(T) /\ a[Len(seq)] \in Seq(T)
  BY <1>1, <1>2
<1>. QED
  BY <1>7, <1>8 DEF IsPrefix

-----------------------------------------------------------------------------
(* Positions *)

\* A trade is of a filled order: they have the same id, instrument and volume.
LEMMA TradeOfOrder ==
  ASSUME TypeOK, BookInv, NEW n \in DOMAIN trades
  PROVE  LET id == trades[n].broker_order_id
             c  == trades[n].client_order_id
         IN  /\ id \in DOMAIN orders
             /\ orders[id].client_order_id = c
             /\ orders[id].status = "kFilled"
             /\ orders[id].traded_volume = request[c].volume
             /\ request[c].volume \in Nat
<1> DEFINE id == trades[n].broker_order_id
           c  == trades[n].client_order_id
<1>1. c \in Accepted /\ broker_order_id[c] = id
  BY DEF BookInv, BookOK
<1>2. id \in DOMAIN orders /\ orders[id].client_order_id = c
  BY <1>1 DEF BookInv, AcceptedOrderKeepsSnapshot
<1>3. id \in TradedIds
  BY DEF TradedIds
<1>4. orders[id].status = "kFilled" /\ orders[id].traded_volume = request[c].volume
  BY <1>2, <1>3 DEF BookInv, SnapshotAgreesWithTrades
<1>5. request[c].volume \in Nat
  BY <1>2, RequestsAssumption DEF TypeOK, BookTypeOK
<1>. QED
  BY <1>2, <1>4, <1>5

\* The positions of an instrument are those of its filled orders.
LEMMA PositionOfInstrument ==
  ASSUME TypeOK, BookInv, NEW i \in Instruments
  PROVE  /\ NetVolume(i) = SumFunctionOnSet([id \in DOMAIN orders |-> SignedTraded(id)], FilledOf(i))
         /\ NetVolume(i) \in Int
         /\ FilledOf(i) = {} <=> TradesIn(i) = {}
<1> DEFINE D == TradesIn(i)
           E == FilledOf(i)
           f == [n \in DOMAIN trades |-> SignedVolume(trades[n])]
           g == [id \in DOMAIN orders |-> SignedTraded(id)]
           b == [n \in D |-> trades[n].broker_order_id]
<1>1. E = {id \in DOMAIN orders : /\ request[orders[id].client_order_id].instrument = i
                                  /\ orders[id].status = "kFilled"}
  BY QueriesAssumption DEF FilledOf, QueryOrders, Matches, MatchesId
<1>2. D \subseteq DOMAIN trades
  BY DEF TradesIn
<1>3. IsFiniteSet(D)
  <2>1. DOMAIN trades = 1 .. Len(trades) /\ Len(trades) \in Int
    BY DEF TypeOK, BookTypeOK
  <2>2. IsFiniteSet(1 .. Len(trades))
    BY <2>1, FS_Interval
  <2>. HIDE DEF D
  <2>. QED
    BY <1>2, <2>1, <2>2, FS_Subset
<1>4. b \in [D -> E]
  BY <1>1, <1>2, TradeOfOrder DEF TradesIn
<1>5. \A n \in D : f[n] \in Int /\ g[b[n]] = f[n]
  BY <1>2, TradeOfOrder DEF SignedVolume, SignedTraded
<1>6. \A m, n \in D : b[m] = b[n] => m = n
  BY <1>2 DEF BookInv, SnapshotAgreesWithTrades
<1>7. \A id \in E : \E n \in D : id = b[n]
  <2> SUFFICES ASSUME NEW id \in E PROVE \E n \in D : id = b[n]
    OBVIOUS
  <2>1. id \in DOMAIN orders /\ orders[id].status = "kFilled"
    BY <1>1
  <2>2. id \in TradedIds
    BY <2>1 DEF BookInv, SnapshotAgreesWithTrades
  <2>3. PICK n \in DOMAIN trades : trades[n].broker_order_id = id
    BY <2>2 DEF TradedIds
  <2>4. n \in D
    BY <1>1, <2>3, TradeOfOrder DEF TradesIn
  <2>. QED
    BY <2>3, <2>4
<1>8. IsFiniteSet(E)
  <2>1. b \in Surjection(D, E)
    BY <1>4, <1>7 DEF Surjection
  <2>. QED
    BY <1>3, <2>1, FS_Surjection
<1>. HIDE DEF D, E, f, g, b
<1>9. SumFunctionOnSet(f, D) = SumFunctionOnSet(g, E)
  BY <1>3, <1>4, <1>5, <1>6, <1>7, <1>8, SumsMatch
<1>10. SumFunctionOnSet(f, D) \in Int
  BY <1>3, <1>5, SumUnfolds
<1>11. E = {} <=> D = {}
  BY <1>4, <1>7
<1>. QED
  BY <1>9, <1>10, <1>11 DEF NetVolume, D, E, f, g

\* The positions QueryPositions sums are those of the filled orders, in size and in
\* direction, at every instant between two sections of the mutex.
THEOREM PositionsAreOrders ==
  ASSUME OneSender, GeneratedIds PROVE Spec => []PositionsMatchOrders
<1>1. TypeOK /\ BookInv => PositionsMatchOrders
  <2> SUFFICES ASSUME TypeOK, BookInv, NEW i \in Instruments
               PROVE  LET positions == QueryPositions([instrument |-> i])
                          traded == SumFunctionOnSet([id \in DOMAIN orders |-> SignedTraded(id)],
                                                     FilledOf(i))
                      IN IF FilledOf(i) = {}
                           THEN positions = {}
                           ELSE \E p \in positions :
                                  /\ positions = {p}
                                  /\ p.instrument = i
                                  /\ (IF p.direction = "kShort" THEN - p.total_volume
                                                                ELSE p.total_volume) = traded
    BY DEF PositionsMatchOrders
  <2> DEFINE p == [instrument   |-> i,
                   direction    |-> IF NetVolume(i) < 0 THEN "kShort" ELSE "kLong",
                   total_volume |-> IF NetVolume(i) < 0 THEN - NetVolume(i) ELSE NetVolume(i)]
  <2>1. QueryPositions([instrument |-> i]) = IF TradesIn(i) = {} THEN {} ELSE {p}
    <3>1. \A j \in Instruments : Matches([instrument |-> i], j) <=> j = i
      BY QueriesAssumption DEF Matches
    <3>. QED
      BY <3>1 DEF QueryPositions
  <2>2. (IF p.direction = "kShort" THEN - p.total_volume ELSE p.total_volume) = NetVolume(i)
    <3>1. NetVolume(i) \in Int
      BY PositionOfInstrument
    <3>2. CASE NetVolume(i) < 0
      <4>1. p.direction = "kShort" /\ p.total_volume = - NetVolume(i)
        BY <3>2
      <4>. QED
        BY <3>1, <4>1
    <3>3. CASE ~ (NetVolume(i) < 0)
      <4>1. p.direction = "kLong" /\ p.total_volume = NetVolume(i)
        BY <3>3
      <4>. QED
        BY <4>1
    <3>. QED
      BY <3>2, <3>3
  <2>. HIDE DEF p
  <2>3. p.instrument = i
    BY DEF p
  <2>. QED
    BY <2>1, <2>2, <2>3, PositionOfInstrument
<1>. QED
  BY <1>1, TypeCorrect, BookCorrect, PTL

-----------------------------------------------------------------------------
(* Trades *)

\* Every trade is of an order that SendOrder accepted.
TradesAccepted == \A n \in DOMAIN trades : trades[n].client_order_id \in Accepted

\* A step appends a trade of an accepted order, or leaves trades_ alone.
LEMMA TradesAppended ==
  ASSUME TypeOK, [Next]_vars
  PROVE  \/ trades' = trades
         \/ \E trade : /\ trades' = Append(trades, trade)
                       /\ trade.client_order_id \in Accepted'
<1>1. ASSUME NEW c \in Calls, SendStore(c)
      PROVE  \E trade : /\ trades' = Append(trades, trade)
                        /\ trade.client_order_id \in Accepted'
  <2> DEFINE trade == [trade_id |-> trade_id[c], broker_order_id |-> broker_order_id[c],
                       client_order_id |-> c]
  <2>1. trades' = Append(trades, trade)
    BY <1>1 DEF SendStore, TradeOf
  <2>2. c \in Accepted
    BY <1>1 DEF SendStore, Return, Accepted, Open
  <2>3. c \in Accepted'
    BY <2>2, AcceptedStays DEF TypeOK
  <2>. QED
    BY <2>1, <2>3
<1>2. ASSUME NEW c \in Calls, SendInsert(c) PROVE trades' = trades
  BY <1>2 DEF SendInsert
<1>3. ASSUME NEW c \in Calls, CancelApply(c) PROVE trades' = trades
  BY <1>3 DEF CancelApply
<1>. QED
  BY <1>1, <1>2, <1>3, BookStays

\* A step selects the trades it selected, in the same order, and then more.
LEMMA AnswerGrows ==
  ASSUME TypeOK, TypeOK', TradesAccepted, [Next]_vars, NEW filter
  PROVE  IsPrefix(QueryTrades(filter), QueryTrades(filter)')
<1> DEFINE M == FoundTrades(filter)
           P == FoundTrades(filter)'
<1>1. trades \in Seq(Trade) /\ trades' \in Seq(Trade)
  BY DEF TypeOK, BookTypeOK
<1>2. Len(trades) <= Len(trades') /\ \A n \in 1 .. Len(trades) : trades'[n] = trades[n]
  BY <1>1, TradesAppended
<1>3. ASSUME NEW n \in 1 .. Len(trades) PROVE n \in P <=> n \in M
  <2>1. n \in DOMAIN trades /\ n \in DOMAIN trades'
    BY <1>1, <1>2
  <2>2. trades[n].client_order_id \in Calls /\ trades[n].client_order_id \in Accepted
    BY <2>1 DEF TradesAccepted, Accepted
  <2>3. request'[trades[n].client_order_id] = request[trades[n].client_order_id]
    BY <2>2, AcceptedStays DEF TypeOK
  <2>. QED
    BY <1>2, <2>1, <2>3 DEF FoundTrades, Matches, MatchesId
<1> DEFINE a == CHOOSE x : Selected(x, trades, M)
           b == CHOOSE x : Selected(x, trades', P)
<1>4. QueryTrades(filter) = a[Len(trades)] /\ QueryTrades(filter)' = b[Len(trades')]
  BY DEF QueryTrades, Selected
<1>5. Selected(a, trades, M)
  BY <1>1, SelectionExists
<1>6. PICK x \in [0 .. Len(trades') -> Seq(Trade)] : Selected(x, trades', P)
  BY <1>1, SelectionExists
<1>7. Selected(b, trades', P)
  BY <1>6
<1>. HIDE DEF a, b, M, P
<1>8. x[Len(trades)] = a[Len(trades)]
  BY <1>1, <1>2, <1>3, <1>5, <1>6, SelectionsAgree
<1>9. x[Len(trades')] = b[Len(trades')]
  BY <1>1, <1>6, <1>7, SelectionsAgree
<1>10. Len(trades) \in 0 .. Len(trades')
  BY <1>1, <1>2
<1>11. IsPrefix(x[Len(trades)], x[Len(trades')])
  BY <1>1, <1>6, <1>10, SelectionGrows
<1>. QED
  BY <1>4, <1>8, <1>9, <1>11

\* A client that polls QueryTrades with the same filter sees the trades it knows, in
\* the same order, and then the new ones, for any number of sending threads and however
\* the broker order ids collide: SendOrder only appends to trades_, and what the filter
\* looks at, the request and the id in the trade, does not change.
THEOREM TradesOnlyGrow == Spec => PolledTradesOnlyGrow
<1>1. Init => TradesAccepted
  BY DEF Init, TradesAccepted
<1>2. TypeOK /\ TypeOK' /\ TradesAccepted /\ [Next]_vars => TradesAccepted'
  <2> SUFFICES ASSUME TypeOK, TypeOK', TradesAccepted, [Next]_vars, NEW n \in DOMAIN trades'
               PROVE  trades'[n].client_order_id \in Accepted'
    BY DEF TradesAccepted
  <2>1. trades \in Seq(Trade)
    BY DEF TypeOK, BookTypeOK
  <2>2. ASSUME n \in DOMAIN trades PROVE trades[n].client_order_id \in Accepted'
    <3>1. trades[n].client_order_id \in Calls /\ trades[n].client_order_id \in Accepted
      BY <2>2 DEF TradesAccepted, Accepted
    <3>. QED
      BY <3>1, AcceptedStays DEF TypeOK
  <2>3. CASE trades' = trades
    BY <2>2, <2>3
  <2>4. ASSUME NEW trade, trades' = Append(trades, trade), trade.client_order_id \in Accepted'
        PROVE  trades'[n].client_order_id \in Accepted'
    <3>1. CASE n \in DOMAIN trades
      BY <2>1, <2>2, <2>4, <3>1
    <3>2. CASE n \notin DOMAIN trades
      <4>1. trades'[n] = trade
        BY <2>1, <2>4, <3>2
      <4>. QED
        BY <2>4, <4>1
    <3>. QED
      BY <3>1, <3>2
  <2>. QED
    BY <2>3, <2>4, TradesAppended
<1>3. TypeOK /\ TypeOK' /\ TradesAccepted /\ [Next]_vars
        => [\A filter \in TradeFilters : IsPrefix(QueryTrades(filter), QueryTrades(filter)')]_vars
  BY AnswerGrows
<1>. QED
  BY <1>1, <1>2, <1>3, TypeCorrect, PTL DEF Spec, PolledTradesOnlyGrow
=============================================================================
