------------------------------ MODULE Recursion ------------------------------
(***************************************************************************)
(* Induction and recursion up to a given number, in the form that a proof  *)
(* about a recursive function needs: over sets and functions, never over   *)
(* operators.                                                              *)
(***************************************************************************)
EXTENDS Naturals, FiniteSetTheorems, TLAPS

(* A non-empty set of numbers has a least element.                         *)
LEMMA LeastNumber ==
  ASSUME NEW S \in SUBSET Nat, S # {}
  PROVE  \E i \in S : \A j \in S : i <= j
<1> DEFINE T == {0 .. i : i \in S}
           R == StrictSubsetOrdering(Nat)
<1>1. IsWellFoundedOn(R, FiniteSubsetsOf(Nat))
  BY FS_StrictSubsetOrderingWellFounded
<1>2. \A i \in Nat : IsFiniteSet(0 .. i) /\ 0 .. i \subseteq Nat
  BY FS_Interval
<1>3. T \subseteq FiniteSubsetsOf(Nat)
  BY <1>2 DEF FiniteSubsetsOf
<1>4. T # {}
  OBVIOUS
<1>5. \A i, j \in Nat : i < j => <<0 .. i, 0 .. j>> \in R
  <2> SUFFICES ASSUME NEW i \in Nat, NEW j \in Nat, i < j
               PROVE  <<0 .. i, 0 .. j>> \in R
    OBVIOUS
  <2>1. 0 .. i \subseteq 0 .. j /\ j \in 0 .. j /\ j \notin 0 .. i
    OBVIOUS
  <2> QED
    BY <2>1 DEF StrictSubsetOrdering
<1> HIDE DEF R
<1>6. PICK t \in T : \A u \in T : <<u, t>> \notin R
  <2> HIDE DEF T
  <2> QED
    BY <1>1, <1>3, <1>4, WFMin, Zenon
<1>7. PICK i \in S : t = 0 .. i
  OBVIOUS
<1>8. \A j \in S : i <= j
  <2> SUFFICES ASSUME NEW j \in S, j < i PROVE FALSE
    OBVIOUS
  <2>1. 0 .. j \in T
    OBVIOUS
  <2> HIDE DEF T
  <2> QED
    BY <1>5, <1>6, <1>7, <2>1
<1> QED
  BY <1>8

(* A set that has 0 and, with every k below n, k + 1 has all up to n.      *)
LEMMA Induction ==
  ASSUME NEW n \in Nat, NEW S,
         0 \in S, \A k \in 0 .. n - 1 : k \in S => k + 1 \in S
  PROVE  0 .. n \subseteq S
<1> DEFINE T == {k \in 0 .. n : k \notin S}
<1> SUFFICES ASSUME T # {} PROVE FALSE
  OBVIOUS
<1>1. PICK k \in T : \A j \in T : k <= j
  BY LeastNumber, T \in SUBSET Nat
<1>2. k # 0 /\ k - 1 \in 0 .. n - 1
  OBVIOUS
<1>3. k - 1 \in S
  BY <1>1, <1>2
<1> QED
  BY <1>2, <1>3

(* f starts with b, and each step makes a value of the one before.        *)
Solves(f, n, T, b, step) ==
  /\ f \in [0 .. n -> T]
  /\ f[0] = b
  /\ \A k \in 1 .. n : f[k] = step[k][f[k - 1]]

(* A recursion over 1 .. n has a solution.                                 *)
LEMMA RecursionExists ==
  ASSUME NEW n \in Nat, NEW T, NEW b \in T, NEW step \in [1 .. n -> [T -> T]]
  PROVE  \E f : Solves(f, n, T, b, step)
<1> DEFINE S == {m \in 0 .. n : \E f : Solves(f, m, T, b, step)}
<1>1. 0 \in S
  <2> DEFINE g == [i \in 0 .. 0 |-> b]
  <2>1. Solves(g, 0, T, b, step)
    BY DEF Solves
  <2> HIDE DEF g
  <2> QED
    BY <2>1
<1>2. ASSUME NEW m \in 0 .. n - 1, m \in S PROVE m + 1 \in S
  <2>1. PICK f : Solves(f, m, T, b, step)
    BY <1>2
  <2>2. f \in [0 .. m -> T] /\ step[m + 1][f[m]] \in T
    BY <2>1 DEF Solves
  <2> DEFINE g == [i \in 0 .. m + 1 |-> IF i = m + 1 THEN step[m + 1][f[m]] ELSE f[i]]
  <2>3. g \in [0 .. m + 1 -> T]
    BY <2>2
  <2>4. \A k \in 0 .. m : g[k] = f[k]
    OBVIOUS
  <2>5. g[m + 1] = step[m + 1][g[m]]
    OBVIOUS
  <2> HIDE DEF g
  <2>6. Solves(g, m + 1, T, b, step)
    BY <2>1, <2>3, <2>4, <2>5 DEF Solves
  <2> QED
    BY <2>6
<1> HIDE DEF S
<1>3. n \in S
  <2>1. 0 .. n \subseteq S
    BY <1>1, <1>2, Induction
  <2> QED
    BY <2>1
<1> QED
  BY <1>3 DEF S

------------------------------------------------------------------------------
(* The recursion of a fold: over the subsets of a finite set, taking away  *)
(* the element that pick names.                                            *)

Picks(S) == {pick \in [(SUBSET S) \ {{}} -> S] : \A K \in (SUBSET S) \ {{}} : pick[K] \in K}

Folds(f, S, T, b, pick, step) ==
  /\ f \in [SUBSET S -> T]
  /\ f[{}] = b
  /\ \A K \in (SUBSET S) \ {{}} : f[K] = step[pick[K]][f[K \ {pick[K]}]]

LEMMA FoldExists ==
  ASSUME NEW S, IsFiniteSet(S), NEW T, NEW b \in T, NEW pick \in Picks(S),
         NEW step \in [S -> [T -> T]]
  PROVE  \E f : Folds(f, S, T, b, pick, step)
<1> DEFINE card(K) == Cardinality(K)
           upTo(m) == {K \in SUBSET S : card(K) <= m}
           folds(f, m) == /\ f \in [upTo(m) -> T]
                          /\ f[{}] = b
                          /\ \A K \in upTo(m) \ {{}} : f[K] = step[pick[K]][f[K \ {pick[K]}]]
           n == card(S)
           N == {m \in 0 .. n : \E f : folds(f, m)}
<1>1. /\ n \in Nat
      /\ \A K \in SUBSET S : card(K) \in Nat /\ card(K) <= n /\ (card(K) = 0 <=> K = {})
  BY FS_CardinalityType, FS_Subset, FS_EmptySet
<1>2. \A K \in (SUBSET S) \ {{}} : /\ pick[K] \in K /\ K \ {pick[K]} \in SUBSET S
                                 /\ card(K \ {pick[K]}) = card(K) - 1
  BY FS_Subset, FS_RemoveElement DEF Picks
<1> HIDE DEF card
<1>3. 0 \in N
  <2> DEFINE g == [K \in upTo(0) |-> b]
  <2>1. upTo(0) = {{}}
    BY <1>1
  <2>2. folds(g, 0)
    BY <2>1
  <2> HIDE DEF g, folds
  <2> QED
    BY <1>1, <2>2
<1>4. ASSUME NEW m \in 0 .. n - 1, m \in N PROVE m + 1 \in N
  <2>1. PICK f : folds(f, m)
    BY <1>4
  <2> DEFINE g == [K \in upTo(m + 1) |->
                     IF K \in upTo(m) THEN f[K] ELSE step[pick[K]][f[K \ {pick[K]}]]]
  <2>2. \A K \in upTo(m + 1) \ {{}} : K \ {pick[K]} \in upTo(m)
    BY <1>1, <1>2
  <2>3. {} \in upTo(m) /\ upTo(m) \subseteq upTo(m + 1)
    BY <1>1
  <2>4. f \in [upTo(m) -> T]
    BY <2>1
  <2>5. \A K \in upTo(m + 1) \ {{}} : step[pick[K]][f[K \ {pick[K]}]] \in T
    <3> HIDE DEF upTo
    <3>1. \A K \in upTo(m + 1) \ {{}} : pick[K] \in S
      BY <1>2 DEF upTo
    <3> QED
      BY <2>2, <2>4, <3>1
  <2>6. \A K \in upTo(m) : g[K] = f[K]
    BY <2>3
  <2>7. g \in [upTo(m + 1) -> T]
    <3> HIDE DEF upTo
    <3> QED
      BY <2>3, <2>4, <2>5
  <2>8. ASSUME NEW K \in upTo(m + 1) \ {{}}
        PROVE  g[K] = step[pick[K]][f[K \ {pick[K]}]]
    <3> HIDE DEF upTo
    <3> QED
      BY <2>1
  <2> HIDE DEF g
  <2>9. folds(g, m + 1)
    BY <2>1, <2>2, <2>3, <2>6, <2>7, <2>8
  <2> HIDE DEF folds
  <2> QED
    BY <1>1, <2>9
<1> HIDE DEF N
<1>5. n \in N
  <2>1. 0 .. n \subseteq N
    BY <1>1, <1>3, <1>4, Induction
  <2> QED
    BY <1>1, <2>1
<1>6. PICK f : folds(f, n)
  BY <1>5 DEF N
<1>7. upTo(n) = SUBSET S
  BY <1>1
<1> QED
  BY <1>6, <1>7 DEF Folds

(* A set of subsets that has every subset of which it has all that lack    *)
(* one element has them all.                                               *)
LEMMA SubsetInduction ==
  ASSUME NEW S, IsFiniteSet(S), NEW P,
         \A K \in SUBSET S : (\A x \in K : K \ {x} \in P) => K \in P
  PROVE  SUBSET S \subseteq P
<1> DEFINE T == {K \in SUBSET S : K \notin P}
           R == StrictSubsetOrdering(S)
<1> SUFFICES ASSUME T # {} PROVE FALSE
  OBVIOUS
<1>1. IsWellFoundedOn(R, FiniteSubsetsOf(S)) /\ FiniteSubsetsOf(S) = SUBSET S
  BY FS_StrictSubsetOrderingWellFounded, FS_FiniteSubsetsOfFinite
<1>2. T \subseteq FiniteSubsetsOf(S)
  BY <1>1
<1> HIDE DEF R
<1>3. PICK K \in T : \A L \in T : <<L, K>> \notin R
  <2>1. T # {}
    OBVIOUS
  <2> HIDE DEF T
  <2>2. IsWellFoundedOn(R, FiniteSubsetsOf(S))
    BY <1>1
  <2> QED
    BY <1>2, <2>1, <2>2, WFMin, ZenonT(30)
<1>4. PICK x \in K : K \ {x} \notin P
  OBVIOUS
<1>5. K \ {x} \in T /\ <<K \ {x}, K>> \in R
  BY <1>4 DEF R, StrictSubsetOrdering
<1> QED
  BY <1>3, <1>5

(* A function that follows a fold step by step is that fold.               *)
LEMMA FollowsFold ==
  ASSUME NEW S, IsFiniteSet(S), NEW pick \in Picks(S), NEW f, NEW g, f[{}] = g[{}],
         \A K \in (SUBSET S) \ {{}} :
           f[K \ {pick[K]}] = g[K \ {pick[K]}] => f[K] = g[K]
  PROVE  \A K \in SUBSET S : f[K] = g[K]
<1> DEFINE P == {K \in SUBSET S : f[K] = g[K]}
<1>1. ASSUME NEW K \in SUBSET S, \A x \in K : K \ {x} \in P PROVE K \in P
  <2>1. K # {} => pick[K] \in K
    BY DEF Picks
  <2> QED
    BY <1>1, <2>1
<1> HIDE DEF P
<1>2. SUBSET S \subseteq P
  BY <1>1, SubsetInduction
<1> QED
  BY <1>2 DEF P

------------------------------------------------------------------------------
(* Sums of natural numbers over a finite set, in any order.                *)

IsSum(f, w, S) ==
  /\ f \in [SUBSET S -> Nat]
  /\ f[{}] = 0
  /\ \A K \in SUBSET S : \A x \in K : f[K] = w[x] + f[K \ {x}]

(* A fold that adds the numbers in the order in which pick takes them.     *)
Adds(f, w, S, pick) ==
  /\ w \in [S -> Nat] /\ pick \in Picks(S)
  /\ f \in [SUBSET S -> Nat] /\ f[{}] = 0
  /\ \A K \in (SUBSET S) \ {{}} : f[K] = w[pick[K]] + f[K \ {pick[K]}]

(* The order in which a fold adds does not matter.                         *)
LEMMA FoldIsSum ==
  ASSUME NEW S, IsFiniteSet(S), NEW w, NEW pick, NEW f, Adds(f, w, S, pick)
  PROVE  IsSum(f, w, S)
<1> DEFINE P == {K \in SUBSET S : \A x \in K : f[K] = w[x] + f[K \ {x}]}
<1>1. ASSUME NEW K \in SUBSET S, \A x \in K : K \ {x} \in P PROVE K \in P
  <2> SUFFICES ASSUME NEW x \in K PROVE f[K] = w[x] + f[K \ {x}]
    OBVIOUS
  <2> DEFINE y == pick[K]
  <2>1. y \in K /\ f[K] = w[y] + f[K \ {y}]
    BY DEF Picks, Adds
  <2> HIDE DEF y
  <2>2. CASE x = y
    BY <2>1, <2>2
  <2>3. CASE x # y
    <3>1. f[K \ {y}] = w[x] + f[(K \ {y}) \ {x}]
      BY <1>1, <2>1, <2>3
    <3>2. f[K \ {x}] = w[y] + f[(K \ {x}) \ {y}]
      BY <1>1, <2>1, <2>3
    <3>3. (K \ {x}) \ {y} = (K \ {y}) \ {x}
      OBVIOUS
    <3> DEFINE rest == f[(K \ {y}) \ {x}]
    <3>4. w[x] \in Nat /\ w[y] \in Nat /\ rest \in Nat
      BY <2>1 DEF Adds
    <3>5. f[K \ {x}] = w[y] + rest
      BY <3>2, <3>3
    <3>6. f[K] = w[y] + (w[x] + rest)
      BY <2>1, <3>1
    <3> HIDE DEF rest
    <3>7. w[y] + (w[x] + rest) = w[x] + (w[y] + rest)
      BY <3>4
    <3> QED
      BY <3>5, <3>6, <3>7, Zenon
  <2> QED
    BY <2>2, <2>3
<1> HIDE DEF P
<1>2. SUBSET S \subseteq P
  BY <1>1, SubsetInduction
<1> QED
  BY <1>2 DEF P, IsSum, Adds

(* Sums of the same numbers are the same.                                  *)
LEMMA SameSum ==
  ASSUME NEW S, NEW T, NEW f, NEW g, NEW v, NEW w, IsSum(f, v, S), IsSum(g, w, T),
         NEW K, IsFiniteSet(K), K \subseteq S, K \subseteq T, \A x \in K : v[x] = w[x]
  PROVE  f[K] = g[K]
<1> DEFINE P == {L \in SUBSET K : f[L] = g[L]}
<1>1. ASSUME NEW L \in SUBSET K, \A x \in L : L \ {x} \in P PROVE L \in P
  <2>1. CASE L = {}
    BY <2>1 DEF IsSum
  <2>2. CASE L # {}
    <3>1. PICK x \in L : TRUE
      BY <2>2
    <3>2. f[L] = v[x] + f[L \ {x}] /\ g[L] = w[x] + g[L \ {x}]
      BY DEF IsSum
    <3> QED
      BY <1>1, <3>2
  <2> QED
    BY <2>1, <2>2
<1> HIDE DEF P
<1>2. SUBSET K \subseteq P
  BY <1>1, SubsetInduction
<1> QED
  BY <1>2 DEF P

(* A sum is no less than the sum of a part.                                *)
LEMMA PartialSum ==
  ASSUME NEW S, IsFiniteSet(S), NEW f, NEW w \in [S -> Nat], IsSum(f, w, S),
         NEW K \in SUBSET S
  PROVE  f[K] <= f[S]
<1> DEFINE P == {L \in SUBSET S : K \subseteq L => f[K] <= f[L]}
<1>1. ASSUME NEW L \in SUBSET S, \A x \in L : L \ {x} \in P PROVE L \in P
  <2> SUFFICES ASSUME K \subseteq L PROVE f[K] <= f[L]
    OBVIOUS
  <2>1. CASE L = K
    BY <2>1 DEF IsSum
  <2>2. CASE L # K
    <3>1. PICK x \in L : x \notin K
      BY <2>2
    <3>2. f[L] = w[x] + f[L \ {x}] /\ K \subseteq L \ {x} /\ w[x] \in Nat
      BY <3>1 DEF IsSum
    <3>3. f[K] <= f[L \ {x}]
      BY <1>1, <3>2
    <3>4. f[K] \in Nat /\ f[L \ {x}] \in Nat /\ f[L] \in Nat
      BY DEF IsSum
    <3> QED
      BY <3>2, <3>3, <3>4
  <2> QED
    BY <2>1, <2>2
<1> HIDE DEF P
<1>2. S \in P
  BY <1>1, SubsetInduction, SUBSET S \subseteq P
<1> QED
  BY <1>2 DEF P

------------------------------------------------------------------------------
(* The recursion of a fold over a sequence, which takes away the greatest  *)
(* index.                                                                  *)

Greatest(K) == CHOOSE i \in K : \A j \in K : i >= j

LEMMA GreatestExists ==
  ASSUME NEW n \in Nat, NEW K \in (SUBSET (1 .. n)) \ {{}}
  PROVE  Greatest(K) \in K /\ \A j \in K : Greatest(K) >= j
<1> DEFINE S == {n - j : j \in K}
<1>1. S \in SUBSET Nat /\ S # {}
  OBVIOUS
<1>2. PICK m \in S : \A j \in S : m <= j
  BY <1>1, LeastNumber
<1>3. PICK i \in K : m = n - i
  OBVIOUS
<1>4. \A j \in K : i >= j
  <2> SUFFICES ASSUME NEW j \in K PROVE i >= j
    OBVIOUS
  <2>1. m <= n - j /\ i \in Nat /\ j \in Nat
    BY <1>2
  <2> QED
    BY <1>3, <2>1
<1> QED
  BY <1>4 DEF Greatest

LEMMA GreatestPicks ==
  ASSUME NEW n \in Nat
  PROVE  [K \in (SUBSET (1 .. n)) \ {{}} |-> Greatest(K)] \in Picks(1 .. n)
  BY GreatestExists DEF Picks

LEMMA GreatestOfPrefix ==
  ASSUME NEW n \in Nat, NEW k \in 1 .. n
  PROVE  /\ 1 .. k \in (SUBSET (1 .. n)) \ {{}} /\ Greatest(1 .. k) = k
         /\ (1 .. k) \ {k} = 1 .. k - 1
<1>1. 1 .. k \in (SUBSET (1 .. n)) \ {{}} /\ k \in 1 .. k
  OBVIOUS
<1>2. Greatest(1 .. k) \in 1 .. k /\ Greatest(1 .. k) >= k
  BY <1>1, GreatestExists
<1>3. (1 .. k) \ {k} = 1 .. k - 1
  OBVIOUS
<1> QED
  BY <1>1, <1>2, <1>3
==============================================================================
