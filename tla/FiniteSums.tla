----------------------------- MODULE FiniteSums -----------------------------
(***************************************************************************)
(* Lemmas about folds and sums over finite sets and about least elements,  *)
(* which the proofs about the planners and the analyses share.  A fold is  *)
(* the function that MapThenFoldSet chooses: on every subset of the set it *)
(* takes one element out and folds the rest.                               *)
(***************************************************************************)
EXTENDS Integers, FiniteSetsExt, FiniteSetTheorems, WellFoundedInduction, TLAPS

-----------------------------------------------------------------------------
(* Induction over the subsets of a finite set. *)

\* A set of naturals that has 0 and with each number the next has all of them.
LEMMA AllNaturals ==
  ASSUME NEW G \in SUBSET Nat, 0 \in G, \A n \in G : n + 1 \in G
  PROVE  G = Nat
<1> DEFINE Less == OpToRel(<, Nat)
<1>1. IsWellFoundedOn(Less, Nat)
  BY NatLessThanWellFounded, Zenon
<1>2. \A m, n \in Nat : n < m => <<n, m>> \in Less
  BY DEF OpToRel
<1> HIDE DEF Less
<1>3. SUFFICES ASSUME G # Nat PROVE FALSE
  OBVIOUS
<1>4. PICK m \in Nat \ G : \A n \in Nat \ G : ~(<<n, m>> \in Less)
  BY <1>1, <1>3, WFMin
<1>5. m # 0 /\ m - 1 \in Nat /\ m - 1 < m
  BY <1>4
<1>6. m - 1 \in G
  BY <1>2, <1>4, <1>5
<1>7. (m - 1) + 1 = m
  BY <1>4
<1> QED
  BY <1>4, <1>6, <1>7

\* Taking an element away from a subset of a finite set counts down.
LEMMA OneLess ==
  ASSUME NEW S, IsFiniteSet(S), NEW T \in SUBSET S, NEW x \in T
  PROVE  /\ T \ {x} \in SUBSET S
         /\ Cardinality(T) \in Nat \ {0}
         /\ Cardinality(T \ {x}) = Cardinality(T) - 1
<1>1. IsFiniteSet(T)
  BY FS_Subset
<1>2. Cardinality(T) \in Nat /\ Cardinality(T) # 0
  BY <1>1, FS_CardinalityType, FS_EmptySet
<1>3. Cardinality(T \ {x}) = Cardinality(T) - 1
  BY <1>1, FS_RemoveElement
<1> QED
  BY <1>2, <1>3

\* What holds of the empty set, and of a set whenever it holds of every set that
\* has one element less, holds of all subsets of a finite set.
LEMMA OneByOne ==
  ASSUME NEW S, IsFiniteSet(S), NEW G \in SUBSET (SUBSET S), {} \in G,
         \A T \in SUBSET S : T # {} /\ (\A x \in T : T \ {x} \in G) => T \in G
  PROVE  G = SUBSET S
<1> DEFINE H == {n \in Nat : \A T \in SUBSET S : Cardinality(T) = n => T \in G}
<1>1. \A T \in SUBSET S : IsFiniteSet(T) /\ Cardinality(T) \in Nat
                          /\ (Cardinality(T) = 0 <=> T = {})
  BY FS_Subset, FS_CardinalityType, FS_EmptySet
<1>2. 0 \in H
  BY <1>1
<1>3. ASSUME NEW n \in H PROVE n + 1 \in H
  <2>1. ASSUME NEW T \in SUBSET S, Cardinality(T) = n + 1 PROVE T \in G
    <3>1. T # {}
      BY <1>1, <1>3, <2>1
    <3>2. ASSUME NEW x \in T PROVE T \ {x} \in G
      <4>1. T \ {x} \in SUBSET S /\ Cardinality(T \ {x}) = Cardinality(T) - 1
        BY OneLess
      <4> QED
        BY <1>3, <2>1, <4>1
    <3> QED
      BY <3>1, <3>2
  <2> QED
    BY <1>3, <2>1
<1>4. H = Nat
  <2>1. H \in SUBSET Nat
    OBVIOUS
  <2> HIDE DEF H
  <2> QED
    BY <1>2, <1>3, <2>1, AllNaturals
<1> QED
  BY <1>1, <1>4

\* In a finite set that is ordered by a relation every subset has a first element.
LEMMA FirstExists ==
  ASSUME NEW S, IsFiniteSet(S), NEW Before,
         \A x, y \in S : x # y => <<x, y>> \in Before \/ <<y, x>> \in Before,
         \A x, y, z \in S : <<x, y>> \in Before /\ <<y, z>> \in Before => <<x, z>> \in Before,
         NEW T \in SUBSET S, T # {}
  PROVE  \E x \in T : \A y \in T \ {x} : <<x, y>> \in Before
<1> DEFINE First(U) == \E x \in U : \A y \in U \ {x} : <<x, y>> \in Before
           G == {U \in SUBSET S : U # {} => First(U)}
<1>1. ASSUME NEW U \in SUBSET S, U # {}, \A x \in U : U \ {x} \in G PROVE U \in G
  <2>1. PICK x \in U : TRUE
    BY <1>1
  <2>2. CASE U \ {x} = {}
    BY <1>1, <2>1, <2>2
  <2>3. CASE U \ {x} # {}
    <3>1. PICK f \in U \ {x} : \A y \in (U \ {x}) \ {f} : <<f, y>> \in Before
      BY <1>1, <2>1, <2>3
    <3>2. x \in S /\ f \in S /\ x # f /\ U \subseteq S
      BY <1>1, <3>1
    <3>3. CASE <<f, x>> \in Before
      <4>1. \A y \in U \ {f} : <<f, y>> \in Before
        BY <3>1, <3>3
      <4> QED
        BY <3>1, <4>1
    <3>4. CASE <<x, f>> \in Before
      <4>1. \A y \in U \ {x} : <<x, y>> \in Before
        BY <3>1, <3>2, <3>4
      <4> QED
        BY <2>1, <4>1
    <3> QED
      BY <3>2, <3>3, <3>4
  <2> QED
    BY <2>2, <2>3
<1>2. {} \in G /\ G \in SUBSET (SUBSET S)
  OBVIOUS
<1> HIDE DEF G
<1>3. G = SUBSET S
  BY <1>1, <1>2, OneByOne
<1> QED
  BY <1>3 DEF G

-----------------------------------------------------------------------------
(* Folds. *)

\* A fold over the subsets of S that takes out what pick says.
Folds(fold, S, base, step, pick) ==
  /\ fold[{}] = base
  /\ \A T \in SUBSET S : T # {} => fold[T] = step[<<pick[T], fold[T \ {pick[T]}]>>]

\* There is such a fold.
LEMMA FoldExists ==
  ASSUME NEW S, IsFiniteSet(S), NEW V, NEW base \in V, NEW step \in [S \X V -> V],
         NEW pick, \A T \in SUBSET S : T # {} => pick[T] \in T
  PROVE  \E fold \in [SUBSET S -> V] : Folds(fold, S, base, step, pick)
<1> DEFINE Small(n) == {T \in SUBSET S : Cardinality(T) <= n}
           Partial(n) == \E fold \in [Small(n) -> V] :
             /\ fold[{}] = base
             /\ \A T \in Small(n) : T # {} => fold[T] = step[<<pick[T], fold[T \ {pick[T]}]>>]
           G == {n \in Nat : Partial(n)}
<1>1. \A T \in SUBSET S : IsFiniteSet(T) /\ Cardinality(T) \in Nat
                          /\ (Cardinality(T) = 0 <=> T = {})
  BY FS_Subset, FS_CardinalityType, FS_EmptySet
<1>2. 0 \in G
  <2>1. Small(0) = {{}}
    BY <1>1
  <2> DEFINE fold == [T \in Small(0) |-> base]
  <2>2. fold \in [Small(0) -> V] /\ fold[{}] = base /\ Small(0) = {{}}
    BY <2>1
  <2> QED
    BY <2>2
<1>3. ASSUME NEW n \in G PROVE n + 1 \in G
  <2>1. PICK fold \in [Small(n) -> V] :
          /\ fold[{}] = base
          /\ \A T \in Small(n) : T # {} => fold[T] = step[<<pick[T], fold[T \ {pick[T]}]>>]
    BY <1>3
  <2> DEFINE next == [T \in Small(n + 1) |->
               IF T \in Small(n) THEN fold[T] ELSE step[<<pick[T], fold[T \ {pick[T]}]>>]]
  <2>2. ASSUME NEW T \in Small(n + 1), T # {}
        PROVE  pick[T] \in S /\ T \ {pick[T]} \in Small(n) /\ T \ {pick[T]} \in Small(n + 1)
    <3>1. pick[T] \in T
      BY <2>2
    <3>2. T \ {pick[T]} \in SUBSET S /\ Cardinality(T \ {pick[T]}) = Cardinality(T) - 1
      BY <3>1, OneLess
    <3>3. Cardinality(T) \in Nat /\ Cardinality(T) <= n + 1 /\ n \in Nat
      BY <1>1, <1>3
    <3> QED
      BY <3>1, <3>2, <3>3
  <2>3. {} \in Small(n) /\ {} \in Small(n + 1) /\ \A T \in Small(n) : T \in Small(n + 1)
    BY <1>1, <1>3
  <2>4. next \in [Small(n + 1) -> V]
    <3>1. ASSUME NEW T \in Small(n + 1), T \notin Small(n)
          PROVE  step[<<pick[T], fold[T \ {pick[T]}]>>] \in V
      <4>1. T # {}
        BY <2>3, <3>1
      <4>2. pick[T] \in S /\ fold[T \ {pick[T]}] \in V
        BY <2>1, <2>2, <4>1
      <4> QED
        BY <4>2
    <3>2. \A T \in Small(n) : fold[T] \in V
      BY <2>1
    <3> QED
      BY <3>1, <3>2
  <2>5. next[{}] = base
    BY <2>1, <2>3
  <2>6. ASSUME NEW T \in Small(n + 1), T # {}
        PROVE  next[T] = step[<<pick[T], next[T \ {pick[T]}]>>]
    <3>1. next[T \ {pick[T]}] = fold[T \ {pick[T]}]
      BY <2>2, <2>6
    <3> QED
      BY <2>1, <2>6, <3>1, SMTT(30)
  <2> HIDE DEF next
  <2>7. Partial(n + 1)
    BY <2>4, <2>5, <2>6
  <2>8. n + 1 \in Nat
    BY <1>3
  <2> HIDE DEF Partial
  <2> QED
    BY <2>7, <2>8
<1>4. G = Nat
  <2>1. G \in SUBSET Nat
    OBVIOUS
  <2> HIDE DEF G
  <2> QED
    BY <1>2, <1>3, <2>1, AllNaturals
<1>5. Cardinality(S) \in Nat /\ Partial(Cardinality(S))
  BY <1>1, <1>4
<1>6. Small(Cardinality(S)) = SUBSET S
  <2>1. \A T \in SUBSET S : Cardinality(T) <= Cardinality(S)
    BY FS_Subset
  <2> QED
    BY <2>1
<1> QED
  BY <1>5, <1>6 DEF Folds

-----------------------------------------------------------------------------
(* Sums, as MapThenSumSet takes them. *)

\* The sums over all subsets of S.
Sums(sum, F, S) ==
  /\ sum \in [SUBSET S -> Int]
  /\ sum[{}] = 0
  /\ \A T \in SUBSET S : T # {} =>
       sum[T] = F[CHOOSE x \in T : TRUE] + sum[T \ {CHOOSE x \in T : TRUE}]

LEMMA SumExists ==
  ASSUME NEW S, IsFiniteSet(S), NEW F \in [S -> Int]
  PROVE  \E sum : Sums(sum, F, S)
<1> DEFINE step == [p \in S \X Int |-> F[p[1]] + p[2]]
           pick == [T \in SUBSET S |-> CHOOSE x \in T : TRUE]
<1>1. step \in [S \X Int -> Int]
  OBVIOUS
<1>2. \A T \in SUBSET S : T # {} => pick[T] = (CHOOSE x \in T : TRUE) /\ pick[T] \in T
  <2> SUFFICES ASSUME NEW T \in SUBSET S, T # {}
               PROVE  pick[T] = (CHOOSE x \in T : TRUE) /\ pick[T] \in T
    OBVIOUS
  <2>1. (CHOOSE x \in T : TRUE) \in T
    OBVIOUS
  <2> QED
    BY <2>1
<1>3. \A x \in S, n \in Int : step[<<x, n>>] = F[x] + n
  OBVIOUS
<1>4. 0 \in Int
  OBVIOUS
<1> HIDE DEF step, pick
<1>5. PICK sum \in [SUBSET S -> Int] : Folds(sum, S, 0, step, pick)
  BY <1>1, <1>2, <1>4, FoldExists
<1>6. ASSUME NEW T \in SUBSET S, T # {}
      PROVE  sum[T] = F[CHOOSE x \in T : TRUE] + sum[T \ {CHOOSE x \in T : TRUE}]
  <2>1. pick[T] = (CHOOSE x \in T : TRUE) /\ pick[T] \in S /\ sum[T \ {pick[T]}] \in Int
    BY <1>2, <1>6
  <2>2. sum[T] = step[<<pick[T], sum[T \ {pick[T]}]>>]
    BY <1>5, <1>6 DEF Folds
  <2> QED
    BY <1>3, <2>1, <2>2
<1> QED
  BY <1>5, <1>6 DEF Sums, Folds

\* What MapThenSumSet gives.
LEMMA SumIsSum ==
  ASSUME NEW S, IsFiniteSet(S), NEW F \in [S -> Int]
  PROVE  \E sum : Sums(sum, F, S) /\ MapThenSumSet(LAMBDA x : F[x], S) = sum[S]
<1> DEFINE Step(f, T) == IF T = {} THEN 0
                         ELSE LET x == CHOOSE x \in T : TRUE IN F[x] + f[T \ {x}]
           iter == CHOOSE f : f = [T \in SUBSET S |-> Step(f, T)]
<1>1. PICK sum : Sums(sum, F, S)
  BY SumExists
<1>2. sum = [T \in SUBSET S |-> Step(sum, T)]
  <2>1. sum \in [SUBSET S -> Int]
    BY <1>1 DEF Sums
  <2>2. ASSUME NEW T \in SUBSET S PROVE sum[T] = Step(sum, T)
    BY <1>1 DEF Sums
  <2> QED
    BY <2>1, <2>2
<1>3. iter = [T \in SUBSET S |-> Step(iter, T)]
  BY <1>2
<1> HIDE DEF iter
<1> DEFINE G == {T \in SUBSET S : iter[T] = sum[T]}
<1>4. G = SUBSET S
  <2>1. {} \in G
    BY <1>2, <1>3
  <2>2. ASSUME NEW T \in SUBSET S, T # {}, \A x \in T : T \ {x} \in G PROVE T \in G
    <3>1. (CHOOSE x \in T : TRUE) \in T
      BY <2>2
    <3> QED
      BY <1>2, <1>3, <2>2, <3>1, ZenonT(30)
  <2>3. G \in SUBSET (SUBSET S)
    OBVIOUS
  <2> HIDE DEF G
  <2> QED
    BY <2>1, <2>2, <2>3, OneByOne
<1>5. MapThenSumSet(LAMBDA x : F[x], S) = iter[S]
  BY DEF MapThenSumSet, MapThenFoldSet, iter
<1> QED
  BY <1>1, <1>4, <1>5

\* A sum of terms that are no greater is no greater, and equal only if they are.
LEMMA SumMonotone ==
  ASSUME NEW S, IsFiniteSet(S), NEW F \in [S -> Int], NEW f, Sums(f, F, S),
         NEW H \in [S -> Int], NEW h, Sums(h, H, S), \A x \in S : F[x] <= H[x]
  PROVE  f[S] <= h[S] /\ (f[S] = h[S] => F = H)
<1> DEFINE G == {T \in SUBSET S : f[T] <= h[T] /\ (f[T] = h[T] => \A x \in T : F[x] = H[x])}
<1>1. {} \in G /\ G \in SUBSET (SUBSET S)
  BY DEF Sums
<1>2. ASSUME NEW T \in SUBSET S, T # {}, \A x \in T : T \ {x} \in G PROVE T \in G
  <2> DEFINE x == CHOOSE x \in T : TRUE
  <2>1. x \in T /\ T \ {x} \in G
    BY <1>2
  <2>2. f[T] = F[x] + f[T \ {x}] /\ h[T] = H[x] + h[T \ {x}]
    BY <1>2 DEF Sums
  <2>3. /\ F[x] \in Int /\ H[x] \in Int /\ F[x] <= H[x]
        /\ f[T \ {x}] \in Int /\ h[T \ {x}] \in Int
    BY <2>1 DEF Sums
  <2> HIDE DEF x
  <2>4. f[T] <= h[T]
    BY <2>1, <2>2, <2>3
  <2>5. f[T] = h[T] => F[x] = H[x] /\ f[T \ {x}] = h[T \ {x}]
    BY <2>1, <2>2, <2>3
  <2> QED
    BY <2>1, <2>4, <2>5
<1> HIDE DEF G
<1>3. S \in G
  BY <1>1, <1>2, OneByOne
<1> QED
  BY <1>3 DEF G

\* One term that grows by one makes the sum grow by one.
LEMMA SumGrows ==
  ASSUME NEW S, IsFiniteSet(S), NEW F \in [S -> Int], NEW f, Sums(f, F, S),
         NEW H \in [S -> Int], NEW h, Sums(h, H, S), NEW one \in S, H[one] = F[one] + 1,
         \A x \in S \ {one} : F[x] = H[x]
  PROVE  h[S] = f[S] + 1
<1> DEFINE G == {T \in SUBSET S : h[T] = f[T] + (IF one \in T THEN 1 ELSE 0)}
<1>1. {} \in G /\ G \in SUBSET (SUBSET S)
  BY DEF Sums
<1>2. ASSUME NEW T \in SUBSET S, T # {}, \A x \in T : T \ {x} \in G PROVE T \in G
  <2> DEFINE x == CHOOSE x \in T : TRUE
  <2>1. x \in T /\ T \ {x} \in G
    BY <1>2
  <2>2. f[T] = F[x] + f[T \ {x}] /\ h[T] = H[x] + h[T \ {x}]
    BY <1>2 DEF Sums
  <2>3. F[x] \in Int /\ H[x] \in Int /\ f[T \ {x}] \in Int /\ h[T \ {x}] \in Int
    BY <2>1 DEF Sums
  <2> HIDE DEF x
  <2>4. CASE x = one
    BY <2>1, <2>2, <2>3, <2>4
  <2>5. CASE x # one
    BY <2>1, <2>2, <2>3, <2>5
  <2> QED
    BY <2>4, <2>5
<1> HIDE DEF G
<1>3. G = SUBSET S
  BY <1>1, <1>2, OneByOne
<1>4. S \in G
  BY <1>3
<1> QED
  BY <1>4 DEF G

\* A sum of terms of one sign has it, and is zero only if they all are.
LEMMA SignOfSum ==
  ASSUME NEW S, IsFiniteSet(S), NEW F \in [S -> Int], NEW sum, Sums(sum, F, S)
  PROVE  /\ (\A i \in S : F[i] <= 0) /\ sum[S] = 0 => \A i \in S : F[i] = 0
         /\ (\A i \in S : F[i] > 0) /\ sum[S] = 0 => S = {}
<1> DEFINE Signed(T) ==
             /\ (\A i \in S : F[i] <= 0) => sum[T] <= 0 /\ (sum[T] = 0 => \A i \in T : F[i] = 0)
             /\ (\A i \in S : F[i] > 0) => sum[T] >= 0 /\ (sum[T] = 0 => T = {})
           G == {T \in SUBSET S : Signed(T)}
<1>1. {} \in G
  BY DEF Sums
<1>2. ASSUME NEW T \in SUBSET S, T # {}, T \ {CHOOSE x \in T : TRUE} \in G
      PROVE  T \in G
  <2> DEFINE x == CHOOSE x \in T : TRUE
  <2>1. x \in T /\ F[x] \in Int /\ sum[T \ {x}] \in Int
    BY <1>2 DEF Sums
  <2>2. sum[T] = F[x] + sum[T \ {x}]
    BY <1>2 DEF Sums
  <2>3. Signed(T \ {x})
    BY <1>2
  <2> HIDE DEF x
  <2>4. (\A i \in S : F[i] <= 0) => sum[T] <= 0 /\ (sum[T] = 0 => \A i \in T : F[i] = 0)
    <3>1. SUFFICES ASSUME \A i \in S : F[i] <= 0
                   PROVE  sum[T] <= 0 /\ (sum[T] = 0 => \A i \in T : F[i] = 0)
      OBVIOUS
    <3>2. F[x] <= 0 /\ sum[T \ {x}] <= 0
      BY <2>1, <2>3, <3>1
    <3>3. sum[T] <= 0 /\ (sum[T] = 0 => F[x] = 0 /\ sum[T \ {x}] = 0)
      BY <2>1, <2>2, <3>2
    <3> QED
      BY <2>3, <3>1, <3>3
  <2>5. (\A i \in S : F[i] > 0) => sum[T] >= 0 /\ (sum[T] = 0 => T = {})
    <3>1. SUFFICES ASSUME \A i \in S : F[i] > 0
                   PROVE  sum[T] >= 0 /\ (sum[T] = 0 => T = {})
      OBVIOUS
    <3> QED
      BY <2>1, <2>2, <2>3, <3>1
  <2>6. Signed(T)
    BY <2>4, <2>5
  <2> HIDE DEF Signed
  <2> QED
    BY <2>6
<1>3. G = SUBSET S
  <2>1. G \in SUBSET (SUBSET S)
    OBVIOUS
  <2> HIDE DEF G
  <2> QED
    BY <1>1, <1>2, <2>1, OneByOne
<1>4. Signed(S)
  BY <1>3
<1> QED
  BY <1>4

-----------------------------------------------------------------------------
(* Products. *)

LEMMA Distributes ==
  ASSUME NEW a \in Int, NEW b \in Int, NEW n \in Int
  PROVE  (a + b) * n = a * n + b * n
OBVIOUS

LEMMA Cancels ==
  ASSUME NEW a \in Int, NEW b \in Int, NEW n \in Nat \ {0}, a # b
  PROVE  a * n # b * n /\ a * n \in Int /\ b * n \in Int
<1>1. \A d \in Nat \ {0} : d * n \in Nat \ {0}
  OBVIOUS
<1>2. ASSUME NEW x \in Int, NEW y \in Int, x < y PROVE x * n # y * n
  <2>1. (x + (y - x)) * n = x * n + (y - x) * n
    BY Distributes
  <2>2. x + (y - x) = y /\ (y - x) * n \in Nat \ {0} /\ x * n \in Int
    BY <1>1, <1>2
  <2> QED
    BY <2>1, <2>2
<1>3. a < b \/ b < a
  OBVIOUS
<1> QED
  BY <1>2, <1>3
=============================================================================
