--------------------------- MODULE ArithmeticProofs ---------------------------
(***************************************************************************)
(* Proofs about the tools that only calculate.                             *)
(*                                                                         *)
(* Recursion and sums.  A definition by recursion is worth what its        *)
(* equations say only if some function satisfies them: RecursionByRank     *)
(* shows that one does when each value depends on values of lower rank.    *)
(* With it the folds of the library are unfolded, and what follows are the *)
(* laws of finite sums.                                                    *)
(*                                                                         *)
(* MemoryPlan, for every geometry, page size and context: a plan reserves  *)
(* the least whole number of pages, its caches grow with the context, and  *)
(* a profile the preflight accepts is accepted with any smaller context or *)
(* floor.  On any inventory the running totals of one planner come to what *)
(* the other sums up component by component.                               *)
(*                                                                         *)
(* SpecMath, for every set of tokens, every denominator and every pair of  *)
(* distributions.                                                          *)
(***************************************************************************)
EXTENDS MemoryPlan, SpecMath, SequencesExt, FunctionTheorems, FiniteSetTheorems,
        SequenceTheorems, WellFoundedInduction, TLAPS

(* Recursion.                                                              *)

\* Of the subsets of a finite set that have a property, one is minimal.
LEMMA MinimalSubset ==
  ASSUME NEW S, IsFiniteSet(S), NEW Bad \in SUBSET (SUBSET S), Bad # {}
  PROVE  \E s \in Bad : \A t \in Bad : t \subseteq s => t = s
<1>1. IsWellFoundedOn(StrictSubsetOrdering(S), FiniteSubsetsOf(S))
  BY FS_StrictSubsetOrderingWellFounded
<1>2. FiniteSubsetsOf(S) = SUBSET S
  BY FS_FiniteSubsetsOfFinite
<1>3. \E x \in Bad : \A y \in Bad : ~ (<<y, x>> \in StrictSubsetOrdering(S))
  BY <1>1, <1>2, WFMin
<1> QED
  BY <1>3 DEF StrictSubsetOrdering

\* Induction on a finite set, for a property that is given as a set of sets.
LEMMA SetInduction ==
  ASSUME NEW S, IsFiniteSet(S), NEW Good \in SUBSET (SUBSET S), {} \in Good,
         \A T \in Good : \A x \in S \ T : T \cup {x} \in Good
  PROVE  S \in Good
<1> DEFINE Bad == (SUBSET S) \ Good
<1>1. SUFFICES ASSUME Bad # {} PROVE FALSE
  OBVIOUS
<1>2. PICK s \in Bad : \A t \in Bad : t \subseteq s => t = s
  <2>1. Bad \in SUBSET (SUBSET S)
    OBVIOUS
  <2> HIDE DEF Bad
  <2> QED
    BY <1>1, <2>1, MinimalSubset
<1>3. PICK x : x \in s
  BY <1>2
<1>4. s \ {x} \in Good
  BY <1>2, <1>3
<1>5. (s \ {x}) \cup {x} \in Good
  BY <1>2, <1>3, <1>4
<1>6. (s \ {x}) \cup {x} = s
  BY <1>3
<1> QED
  BY <1>2, <1>5, <1>6

\* Induction up to a number.
LEMMA UpToInduction ==
  ASSUME NEW n \in Nat, NEW Good \in SUBSET (0..n), 0 \in Good,
         \A m \in Good : m # n => m + 1 \in Good
  PROVE  n \in Good
<1> DEFINE below(k) == {i \in 0..n : i < k}
           Bad == {below(k) : k \in (0..n) \ Good}
<1>1. SUFFICES ASSUME n \notin Good PROVE FALSE
  OBVIOUS
<1>2. IsFiniteSet(0..n)
  BY FS_Interval
<1>3. Bad \in SUBSET (SUBSET (0..n)) /\ below(n) \in Bad
  BY <1>1
<1>4. PICK s \in Bad : \A t \in Bad : t \subseteq s => t = s
  <2> DEFINE all == 0..n
  <2>1. IsFiniteSet(all) /\ Bad \in SUBSET (SUBSET all) /\ Bad # {}
    BY <1>2, <1>3
  <2> HIDE DEF Bad, all
  <2> QED
    BY <2>1, MinimalSubset
<1>5. PICK k \in (0..n) \ Good : s = below(k)
  BY <1>4
<1>6. k # 0 /\ k - 1 \in 0..n /\ k - 1 < k /\ k - 1 # n /\ (k - 1) + 1 = k
  BY <1>5
<1>7. k - 1 \notin Good
  BY <1>5, <1>6
<1>8. below(k - 1) \in Bad /\ below(k - 1) \subseteq below(k)
  BY <1>5, <1>6, <1>7
<1>9. k - 1 \in below(k) /\ k - 1 \notin below(k - 1)
  BY <1>5, <1>6
<1> QED
  BY <1>4, <1>5, <1>8, <1>9

\* A function on S with values in V is defined by recursion: G[x][f] is its
\* value at x if f are those at arguments of lower rank.
Ranked(S, V, D, rank, G) ==
  /\ V # {} /\ D \in Nat /\ \A x \in S : rank[x] \in 0..D
  /\ \A x \in S : \A f \in [S -> V] : G[x][f] \in V
  /\ \A x \in S : \A e, f \in [S -> V] :
       (\A y \in S : rank[y] < rank[x] => e[y] = f[y]) => G[x][e] = G[x][f]

Solvable(S, V, G) == \E F \in [S -> V] : \A x \in S : F[x] = G[x][F]

\* There is such a function.
LEMMA RecursionByRank ==
  ASSUME NEW S, NEW V, NEW D, NEW rank, NEW G, Ranked(S, V, D, rank, G)
  PROVE  Solvable(S, V, G)
<1> USE DEF Ranked, Solvable
<1> DEFINE Solves(F, n) == \A x \in S : rank[x] < n => F[x] = G[x][F]
           Good == {n \in 0..D + 1 : \E F \in [S -> V] : Solves(F, n)}
<1>1. D + 1 \in Nat /\ Good \in SUBSET (0..D + 1)
  OBVIOUS
<1>2. 0 \in Good
  <2>1. PICK v \in V : TRUE
    OBVIOUS
  <2>2. [x \in S |-> v] \in [S -> V]
    BY <2>1
  <2>3. \A x \in S : ~(rank[x] < 0)
    OBVIOUS
  <2>4. Solves([x \in S |-> v], 0)
    BY <2>3
  <2>5. 0 \in 0..D + 1
    OBVIOUS
  <2> HIDE DEF Solves
  <2> QED
    BY <2>2, <2>4, <2>5
<1>3. ASSUME NEW n \in Good, n # D + 1 PROVE n + 1 \in Good
  <2>1. PICK F \in [S -> V] : Solves(F, n)
    BY <1>3
  <2> DEFINE E == [x \in S |-> IF rank[x] = n THEN G[x][F] ELSE F[x]]
  <2>2. E \in [S -> V]
    OBVIOUS
  <2>3. \A x \in S : rank[x] < n => E[x] = F[x]
    OBVIOUS
  <2>4. \A x \in S : rank[x] \in Nat /\ (rank[x] < n + 1 => rank[x] < n \/ rank[x] = n)
    <3>1. n \in Nat
      OBVIOUS
    <3>2. \A i \in 0..D : i \in Nat /\ (i < n + 1 => i < n \/ i = n)
      BY <3>1
    <3> QED
      BY <3>2
  <2>5. ASSUME NEW x \in S, rank[x] < n + 1 PROVE E[x] = G[x][E]
    <3>1. rank[x] \in Nat /\ (rank[x] < n \/ rank[x] = n) /\ n \in Nat
      BY <2>4, <2>5, <1>3
    <3>2. \A y \in S : rank[y] < rank[x] => rank[y] < n
      BY <3>1, <2>4
    <3>3. \A y \in S : rank[y] < rank[x] => E[y] = F[y]
      BY <2>3, <3>2
    <3>4. G[x][E] = G[x][F]
      <4> HIDE DEF E
      <4> QED
        BY <2>2, <3>3
    <3>5. CASE rank[x] = n
      BY <3>4, <3>5
    <3>6. CASE rank[x] < n
      BY <2>1, <2>3, <3>4, <3>6
    <3> QED
      BY <3>1, <3>5, <3>6
  <2> HIDE DEF E
  <2>6. Solves(E, n + 1)
    BY <2>5
  <2>7. n + 1 \in 0..D + 1
    <3>1. n \in 0..D + 1
      OBVIOUS
    <3> QED
      BY <1>3, <3>1
  <2> HIDE DEF Solves
  <2> QED
    BY <2>2, <2>6, <2>7
<1>4. D + 1 \in Good
  <2> HIDE DEF Good
  <2> QED
    BY <1>1, <1>2, <1>3, UpToInduction
<1>5. PICK F \in [S -> V] : Solves(F, D + 1)
  BY <1>4
<1>6. \A x \in S : rank[x] < D + 1
  OBVIOUS
<1> QED
  BY <1>5, <1>6

-------------------------------------------------------------------------------
(* Finite sets.                                                            *)

LEMMA FiniteImage ==
  ASSUME NEW S, IsFiniteSet(S), NEW f
  PROVE  IsFiniteSet({f[x] : x \in S})
<1> DEFINE T == {f[x] : x \in S}
           h == [x \in S |-> f[x]]
<1>1. h \in [S -> T] /\ \A y \in T : \E x \in S : h[x] = y
  OBVIOUS
<1> HIDE DEF h, T
<1>2. h \in Surjection(S, T)
  BY <1>1, Fun_IsSurj
<1>3. IsFiniteSet(T)
  BY <1>2, FS_Surjection
<1> QED
  BY <1>3 DEF T

LEMMA MaxIs ==
  ASSUME NEW S \in SUBSET Int, IsFiniteSet(S), S # {}
  PROVE  Max(S) \in S /\ \A x \in S : Max(S) >= x
<1> DEFINE Good == {T \in SUBSET S : T = {} \/ \E x \in T : \A y \in T : x >= y}
<1>1. ASSUME NEW T \in Good, NEW x \in S \ T PROVE T \cup {x} \in Good
  <2>1. CASE T = {}
    BY <2>1
  <2>2. ASSUME NEW z \in T, \A y \in T : z >= y PROVE T \cup {x} \in Good
    <3>1. CASE z >= x
      BY <2>2, <3>1
    <3>2. CASE ~(z >= x)
      <4>1. \A y \in T : x >= y
        BY <2>2, <3>2
      <4> QED
        BY <4>1
    <3> QED
      BY <3>1, <3>2
  <2> QED
    BY <2>1, <2>2
<1>2. S \in Good
  <2>1. Good \in SUBSET (SUBSET S) /\ {} \in Good
    OBVIOUS
  <2> HIDE DEF Good
  <2> QED
    BY <1>1, <2>1, SetInduction
<1>3. \E x \in S : \A y \in S : x >= y
  BY <1>2
<1> QED
  BY <1>3 DEF Max

LEMMA LeastOf ==
  ASSUME NEW n \in Nat, NEW S \in SUBSET (0..n), S # {}
  PROVE  \E x \in S : \A y \in S : x <= y
<1> DEFINE h == [x \in 0..n |-> -x]
           T == {h[x] : x \in S}
<1>1. \A x \in S : h[x] = -x /\ h[x] \in Int
  OBVIOUS
<1>2. T \in SUBSET Int /\ T # {}
  <2> HIDE DEF h
  <2> QED
    BY <1>1
<1>3. IsFiniteSet(T)
  <2>1. IsFiniteSet(S)
    <3>1. IsFiniteSet(0..n)
      BY FS_Interval
    <3> QED
      BY <3>1, FS_Subset
  <2> HIDE DEF h
  <2> QED
    BY <2>1, FiniteImage
<1>4. \E x \in T : \A y \in T : x >= y
  <2> HIDE DEF T
  <2> QED
    BY <1>2, <1>3, MaxIs
<1>5. PICK x \in S : \A y \in S : h[x] >= h[y]
  <2> HIDE DEF h
  <2> QED
    BY <1>4
<1>6. \A y \in S : x <= y
  <2> SUFFICES ASSUME NEW y \in S PROVE x <= y
    OBVIOUS
  <2>1. h[x] >= h[y] /\ h[x] = -x /\ h[y] = -y
    <3> HIDE DEF h
    <3> QED
      BY <1>1, <1>5
  <2>2. x \in Nat /\ y \in Nat
    OBVIOUS
  <2> HIDE DEF h
  <2> QED
    BY <2>1, <2>2
<1> QED
  BY <1>6

-------------------------------------------------------------------------------
(* Sums.                                                                   *)

Chosen(S) == CHOOSE x \in S : TRUE

\* The recursion that SumFunctionOnSet is defined by.
IsSum(sum, f, S) ==
  sum = [T \in SUBSET S |-> IF T = {} THEN 0 ELSE f[Chosen(T)] + sum[T \ {Chosen(T)}]]

LEMMA SumExists ==
  ASSUME NEW S, IsFiniteSet(S), NEW f, \A x \in S : f[x] \in Int
  PROVE  \E sum \in [SUBSET S -> Int] : IsSum(sum, f, S)
<1> DEFINE P == SUBSET S
           V == Int
           Z == [P -> V]
           D == Cardinality(S)
           rank == [T \in P |-> Cardinality(T)]
           G == [T \in P |-> [e \in Z |-> IF T = {} THEN 0 ELSE f[Chosen(T)] + e[T \ {Chosen(T)}]]]
<1>1. D \in Nat /\ \A T \in P : IsFiniteSet(T) /\ Cardinality(T) \in 0..D
  <2>1. D \in Nat
    BY FS_CardinalityType
  <2>2. ASSUME NEW T \in P PROVE IsFiniteSet(T) /\ Cardinality(T) \in Nat /\ Cardinality(T) <= D
    BY FS_Subset, FS_CardinalityType
  <2> HIDE DEF D
  <2>3. ASSUME NEW T \in P PROVE IsFiniteSet(T) /\ Cardinality(T) \in 0..D
    BY <2>1, <2>2
  <2> QED
    BY <2>1, <2>3
<1>2. \A T \in P : rank[T] \in 0..D
  BY <1>1
<1>3. \A T \in P : T # {} => Chosen(T) \in T /\ T \ {Chosen(T)} \in P
  BY DEF Chosen
<1>4. \A T \in P : \A e \in Z : G[T][e] \in V
  <2> SUFFICES ASSUME NEW T \in P, NEW e \in Z, T # {} PROVE f[Chosen(T)] + e[T \ {Chosen(T)}] \in Int
    OBVIOUS
  <2>1. f[Chosen(T)] \in Int /\ e[T \ {Chosen(T)}] \in Int
    BY <1>3
  <2> QED
    BY <2>1
<1>5. ASSUME NEW T \in P, T # {} PROVE rank[T \ {Chosen(T)}] < rank[T]
  <2>1. Chosen(T) \in T /\ IsFiniteSet(T) /\ T \ {Chosen(T)} \in P
    BY <1>1, <1>3, <1>5
  <2>2. Cardinality(T \ {Chosen(T)}) = Cardinality(T) - 1 /\ Cardinality(T) \in Nat
    BY <2>1, FS_RemoveElement, FS_CardinalityType
  <2> QED
    BY <2>1, <2>2
<1>6. \A T \in P : \A e, h \in Z :
        (\A U \in P : rank[U] < rank[T] => e[U] = h[U]) => G[T][e] = G[T][h]
  <2> SUFFICES ASSUME NEW T \in P, NEW e \in Z, NEW h \in Z,
                      \A U \in P : rank[U] < rank[T] => e[U] = h[U]
               PROVE  G[T][e] = G[T][h]
    OBVIOUS
  <2>1. T # {} => e[T \ {Chosen(T)}] = h[T \ {Chosen(T)}]
    <3> HIDE DEF rank
    <3> QED
      BY <1>3, <1>5
  <2> QED
    BY <2>1
<1>7. \E sum \in Z : \A T \in P : sum[T] = G[T][sum]
  <2>1. V # {} /\ D \in Nat
    BY <1>1
  <2> HIDE DEF D, rank, G, P, V
  <2>2. Ranked(P, V, D, rank, G)
    BY <1>2, <1>4, <1>6, <2>1 DEF Ranked
  <2> QED
    BY <2>2, RecursionByRank DEF Solvable
<1>8. PICK sum \in Z : \A T \in P : sum[T] = G[T][sum]
  BY <1>7
<1>9. IsSum(sum, f, S)
  BY <1>8 DEF IsSum
<1> QED
  BY <1>8, <1>9

LEMMA SumIs ==
  ASSUME NEW S, IsFiniteSet(S), NEW f, \A x \in S : f[x] \in Int
  PROVE  \E sum \in [SUBSET S -> Int] : IsSum(sum, f, S) /\ SumFunctionOnSet(f, S) = sum[S]
<1>1. \E sum : IsSum(sum, f, S)
  BY SumExists
<1>2. \E sum : IsSum(sum, f, S) /\ SumFunctionOnSet(f, S) = sum[S]
  BY <1>1 DEF SumFunctionOnSet, FoldFunctionOnSet, MapThenFoldSet, IsSum, Chosen
<1>3. PICK sum : IsSum(sum, f, S) /\ SumFunctionOnSet(f, S) = sum[S]
  BY <1>2
<1>4. ASSUME NEW other \in [SUBSET S -> Int], IsSum(other, f, S) PROVE sum = other
  <2> DEFINE Good == {T \in SUBSET S : sum[T] = other[T]}
             Bad == (SUBSET S) \ Good
  <2>1. SUFFICES ASSUME Bad # {} PROVE FALSE
    <3>1. \A T \in SUBSET S : sum[T] = other[T]
      BY <2>1
    <3> QED
      BY <1>3, <1>4, <3>1 DEF IsSum
  <2>2. PICK T \in Bad : \A U \in Bad : U \subseteq T => U = T
    <3>1. Bad \in SUBSET (SUBSET S)
      OBVIOUS
    <3> HIDE DEF Bad
    <3> QED
      BY <2>1, <3>1, MinimalSubset
  <2>3. T # {}
    BY <1>3, <1>4 DEF IsSum
  <2>4. Chosen(T) \in T
    BY <2>3 DEF Chosen
  <2>5. sum[T \ {Chosen(T)}] = other[T \ {Chosen(T)}]
    BY <2>2, <2>4
  <2> QED
    BY <1>3, <1>4, <2>3, <2>5 DEF IsSum
<1> QED
  BY <1>3, <1>4, SumExists

\* A subset's sum is a value of the same recursion.
LEMMA SumOfSubset ==
  ASSUME NEW S, IsFiniteSet(S), NEW f, \A x \in S : f[x] \in Int,
         NEW sum \in [SUBSET S -> Int], IsSum(sum, f, S), NEW T \in SUBSET S
  PROVE  SumFunctionOnSet(f, T) = sum[T]
<1>1. IsFiniteSet(T)
  BY FS_Subset
<1>2. PICK part \in [SUBSET T -> Int] : IsSum(part, f, T) /\ SumFunctionOnSet(f, T) = part[T]
  BY <1>1, SumIs
<1> DEFINE Good == {U \in SUBSET T : part[U] = sum[U]}
<1>3. {} \in Good
  BY <1>2 DEF IsSum
<1> DEFINE Bad == (SUBSET T) \ Good
<1>4. SUFFICES ASSUME Bad # {} PROVE FALSE
  BY <1>2
<1>5. PICK U \in Bad : \A W \in Bad : W \subseteq U => W = U
  <2>1. Bad \in SUBSET (SUBSET T)
    OBVIOUS
  <2> HIDE DEF Bad
  <2> QED
    BY <1>1, <1>4, <2>1, MinimalSubset
<1>6. U # {} /\ Chosen(U) \in U
  BY <1>3, <1>5 DEF Chosen
<1>7. part[U \ {Chosen(U)}] = sum[U \ {Chosen(U)}]
  BY <1>5, <1>6
<1> QED
  BY <1>2, <1>5, <1>6, <1>7 DEF IsSum

LEMMA SumTyped ==
  ASSUME NEW S, IsFiniteSet(S), NEW f, \A x \in S : f[x] \in Int
  PROVE  SumFunctionOnSet(f, S) \in Int
<1>1. PICK sum \in [SUBSET S -> Int] : SumFunctionOnSet(f, S) = sum[S]
  BY SumIs
<1> QED
  BY <1>1

LEMMA SumOfNone ==
  ASSUME NEW f
  PROVE  SumFunctionOnSet(f, {}) = 0
<1>1. IsFiniteSet({})
  BY FS_EmptySet
<1>2. PICK sum : IsSum(sum, f, {}) /\ SumFunctionOnSet(f, {}) = sum[{}]
  BY <1>1, SumIs
<1> QED
  BY <1>2 DEF IsSum

\* Any element may be added last.
LEMMA SumRemove ==
  ASSUME NEW S, IsFiniteSet(S), NEW f, \A x \in S : f[x] \in Int, NEW x \in S
  PROVE  SumFunctionOnSet(f, S) = f[x] + SumFunctionOnSet(f, S \ {x})
<1>1. PICK sum \in [SUBSET S -> Int] : IsSum(sum, f, S) /\ SumFunctionOnSet(f, S) = sum[S]
  BY SumIs
<1>2. \A T \in SUBSET S : T # {} => sum[T] = f[Chosen(T)] + sum[T \ {Chosen(T)}]
  BY <1>1 DEF IsSum
<1> DEFINE Bad == {T \in SUBSET S : \E y \in T : sum[T] # f[y] + sum[T \ {y}]}
<1>3. ASSUME Bad # {} PROVE FALSE
  <2>1. PICK T \in Bad : \A U \in Bad : U \subseteq T => U = T
    <3>1. Bad \in SUBSET (SUBSET S)
      OBVIOUS
    <3> HIDE DEF Bad
    <3> QED
      BY <1>3, <3>1, MinimalSubset
  <2>2. PICK y \in T : sum[T] # f[y] + sum[T \ {y}]
    BY <2>1
  <2> DEFINE c == Chosen(T)
  <2>3. T \in SUBSET S /\ c \in T /\ sum[T] = f[c] + sum[T \ {c}]
    BY <1>2, <2>1, <2>2 DEF Chosen
  <2> HIDE DEF c
  <2>4. c # y
    BY <2>2, <2>3
  <2>5. sum[T \ {c}] = f[y] + sum[(T \ {c}) \ {y}]
    <3>1. T \ {c} \in SUBSET S /\ T \ {c} # T /\ T \ {c} \subseteq T /\ y \in T \ {c}
      BY <2>3, <2>4, <2>2
    <3> QED
      BY <2>1, <3>1
  <2>6. sum[T \ {y}] = f[c] + sum[(T \ {y}) \ {c}]
    <3>1. T \ {y} \in SUBSET S /\ T \ {y} # T /\ T \ {y} \subseteq T /\ c \in T \ {y}
      BY <2>3, <2>4, <2>2
    <3> QED
      BY <2>1, <3>1
  <2>7. (T \ {y}) \ {c} = (T \ {c}) \ {y} /\ (T \ {c}) \ {y} \in SUBSET S
    BY <2>3
  <2>8. f[c] \in Int /\ f[y] \in Int /\ sum[(T \ {c}) \ {y}] \in Int
    BY <1>1, <2>3, <2>2, <2>7
  <2>9. \A a, b, r \in Int : a + (b + r) = b + (a + r)
    OBVIOUS
  <2> DEFINE rest == sum[(T \ {c}) \ {y}]
  <2>10. sum[T] = f[c] + (f[y] + rest) /\ sum[T \ {y}] = f[c] + rest
    BY <2>3, <2>5, <2>6, <2>7
  <2>11. f[c] + (f[y] + rest) = f[y] + (f[c] + rest)
    BY <2>8, <2>9
  <2> HIDE DEF rest
  <2> QED
    BY <2>2, <2>10, <2>11
<1>4. sum[S] = f[x] + sum[S \ {x}]
  BY <1>3
<1>5. SumFunctionOnSet(f, S \ {x}) = sum[S \ {x}]
  <2> DEFINE T == S \ {x}
  <2>1. T \in SUBSET S
    OBVIOUS
  <2> HIDE DEF T
  <2>2. SumFunctionOnSet(f, T) = sum[T]
    BY <1>1, <2>1, SumOfSubset
  <2> QED
    BY <2>2 DEF T
<1> QED
  BY <1>1, <1>4, <1>5

LEMMA SumAppend ==
  ASSUME NEW S, IsFiniteSet(S), NEW f, NEW x, x \notin S, \A y \in S \cup {x} : f[y] \in Int
  PROVE  SumFunctionOnSet(f, S \cup {x}) = f[x] + SumFunctionOnSet(f, S)
<1>1. IsFiniteSet(S \cup {x})
  BY FS_AddElement
<1>2. (S \cup {x}) \ {x} = S
  OBVIOUS
<1>3. SumFunctionOnSet(f, S \cup {x}) = f[x] + SumFunctionOnSet(f, (S \cup {x}) \ {x})
  BY <1>1, SumRemove
<1> QED
  BY <1>2, <1>3

LEMMA SumOfNaturals ==
  ASSUME NEW S, IsFiniteSet(S), NEW f, \A x \in S : f[x] \in Nat
  PROVE  /\ SumFunctionOnSet(f, S) \in Nat
         /\ \A x \in S : f[x] <= SumFunctionOnSet(f, S)
<1> DEFINE Good == {T \in SUBSET S : SumFunctionOnSet(f, T) \in Nat}
<1>1. {} \in Good
  BY SumOfNone
<1>2. ASSUME NEW T \in Good, NEW x \in S \ T PROVE T \cup {x} \in Good
  <2>1. IsFiniteSet(T) /\ \A y \in T \cup {x} : f[y] \in Int
    BY FS_Subset
  <2>2. SumFunctionOnSet(f, T \cup {x}) = f[x] + SumFunctionOnSet(f, T)
    BY <2>1, SumAppend
  <2> QED
    BY <2>2
<1>3. \A T \in SUBSET S : SumFunctionOnSet(f, T) \in Nat
  <2> SUFFICES ASSUME NEW T \in SUBSET S PROVE T \in Good
    OBVIOUS
  <2> DEFINE Within == {U \in SUBSET T : U \in Good}
  <2>1. IsFiniteSet(T) /\ Within \in SUBSET (SUBSET T) /\ {} \in Within
    BY <1>1, FS_Subset
  <2>2. \A U \in Within : \A x \in T \ U : U \cup {x} \in Within
    <3> HIDE DEF Good
    <3> QED
      BY <1>2
  <2> HIDE DEF Within
  <2>3. T \in Within
    BY <2>1, <2>2, SetInduction
  <2> QED
    BY <2>3 DEF Within
<1>4. ASSUME NEW x \in S PROVE f[x] <= SumFunctionOnSet(f, S)
  <2>1. SumFunctionOnSet(f, S) = f[x] + SumFunctionOnSet(f, S \ {x})
    BY SumRemove
  <2>2. SumFunctionOnSet(f, S \ {x}) \in Nat
    BY <1>3
  <2> QED
    BY <2>1, <2>2
<1> QED
  BY <1>3, <1>4

\* The same values at the images of the same elements have the same sum.
LEMMA SumOfImage ==
  ASSUME NEW S, IsFiniteSet(S), NEW f, \A x \in S : f[x] \in Int,
         NEW image, \A x, y \in S : image[x] = image[y] => x = y,
         NEW h, \A x \in S : h[image[x]] = f[x]
  PROVE  SumFunctionOnSet(h, {image[x] : x \in S}) = SumFunctionOnSet(f, S)
<1> DEFINE of(T) == {image[x] : x \in T}
           Good == {T \in SUBSET S : /\ IsFiniteSet(of(T))
                                     /\ SumFunctionOnSet(h, of(T)) = SumFunctionOnSet(f, T)}
<1>1. {} \in Good
  <2>1. of({}) = {}
    OBVIOUS
  <2> HIDE DEF of
  <2> QED
    BY <2>1, SumOfNone, FS_EmptySet
<1>2. ASSUME NEW T \in Good, NEW x \in S \ T PROVE T \cup {x} \in Good
  <2>1. IsFiniteSet(T) /\ \A y \in T \cup {x} : f[y] \in Int
    BY FS_Subset
  <2>2. SumFunctionOnSet(f, T \cup {x}) = f[x] + SumFunctionOnSet(f, T)
    BY <2>1, SumAppend
  <2>3. /\ of(T \cup {x}) = of(T) \cup {image[x]} /\ image[x] \notin of(T)
        /\ \A y \in of(T) \cup {image[x]} : h[y] \in Int
    BY <2>1
  <2>4. IsFiniteSet(of(T)) /\ SumFunctionOnSet(h, of(T)) = SumFunctionOnSet(f, T)
    OBVIOUS
  <2>5. h[image[x]] = f[x]
    OBVIOUS
  <2> HIDE DEF of
  <2>6. SumFunctionOnSet(h, of(T) \cup {image[x]}) = h[image[x]] + SumFunctionOnSet(h, of(T))
    BY <2>3, <2>4, SumAppend
  <2>7. IsFiniteSet(of(T) \cup {image[x]})
    BY <2>4, FS_AddElement
  <2> QED
    BY <2>2, <2>3, <2>4, <2>5, <2>6, <2>7
<1>3. S \in Good
  <2>1. Good \in SUBSET (SUBSET S)
    OBVIOUS
  <2> HIDE DEF Good
  <2> QED
    BY <1>1, <1>2, <2>1, SetInduction
<1> QED
  BY <1>3

LEMMA SumOfSame ==
  ASSUME NEW S, IsFiniteSet(S), NEW f, \A x \in S : f[x] \in Int,
         NEW h, \A x \in S : h[x] = f[x]
  PROVE  SumFunctionOnSet(h, S) = SumFunctionOnSet(f, S)
<1> DEFINE image == [x \in S |-> x]
<1>1. {image[x] : x \in S} = S /\ \A x, y \in S : image[x] = image[y] => x = y
  OBVIOUS
<1>2. \A x \in S : h[image[x]] = f[x]
  OBVIOUS
<1> HIDE DEF image
<1>3. SumFunctionOnSet(h, {image[x] : x \in S}) = SumFunctionOnSet(f, S)
  BY <1>1, <1>2, SumOfImage
<1> QED
  BY <1>1, <1>3

\* Sums are added element by element.
LEMMA SumOfSums ==
  ASSUME NEW S, IsFiniteSet(S), NEW f, NEW h, NEW both,
         \A x \in S : f[x] \in Int /\ h[x] \in Int /\ both[x] = f[x] + h[x]
  PROVE  SumFunctionOnSet(both, S) = SumFunctionOnSet(f, S) + SumFunctionOnSet(h, S)
<1> DEFINE Good == {T \in SUBSET S : SumFunctionOnSet(both, T)
                                        = SumFunctionOnSet(f, T) + SumFunctionOnSet(h, T)}
<1>1. {} \in Good
  BY SumOfNone
<1>2. ASSUME NEW T \in Good, NEW x \in S \ T PROVE T \cup {x} \in Good
  <2>1. IsFiniteSet(T)
        /\ \A y \in T \cup {x} : f[y] \in Int /\ h[y] \in Int /\ both[y] \in Int
    <3>1. \A y \in S : both[y] \in Int
      OBVIOUS
    <3> QED
      BY <3>1, FS_Subset
  <2>2. /\ SumFunctionOnSet(f, T \cup {x}) = f[x] + SumFunctionOnSet(f, T)
        /\ SumFunctionOnSet(h, T \cup {x}) = h[x] + SumFunctionOnSet(h, T)
        /\ SumFunctionOnSet(both, T \cup {x}) = both[x] + SumFunctionOnSet(both, T)
    BY <2>1, SumAppend
  <2>3. SumFunctionOnSet(f, T) \in Int /\ SumFunctionOnSet(h, T) \in Int
    BY <2>1, SumTyped
  <2>4. \A a, b, c, d \in Int : (a + b) + (c + d) = (a + c) + (b + d)
    OBVIOUS
  <2>5. both[x] = f[x] + h[x] /\ f[x] \in Int /\ h[x] \in Int
    OBVIOUS
  <2> QED
    BY <2>2, <2>3, <2>4, <2>5
<1>3. S \in Good
  <2>1. Good \in SUBSET (SUBSET S)
    OBVIOUS
  <2> HIDE DEF Good
  <2> QED
    BY <1>1, <1>2, <2>1, SetInduction
<1> QED
  BY <1>3

LEMMA SumOfUnion ==
  ASSUME NEW S, NEW T, IsFiniteSet(S), IsFiniteSet(T), S \cap T = {},
         NEW f, \A x \in S \cup T : f[x] \in Int
  PROVE  SumFunctionOnSet(f, S \cup T) = SumFunctionOnSet(f, S) + SumFunctionOnSet(f, T)
<1> DEFINE Good == {U \in SUBSET S : SumFunctionOnSet(f, U \cup T)
                                        = SumFunctionOnSet(f, U) + SumFunctionOnSet(f, T)}
<1>1. {} \in Good
  <2>1. {} \cup T = T /\ SumFunctionOnSet(f, T) \in Int
    BY SumTyped
  <2> QED
    BY <2>1, SumOfNone
<1>2. ASSUME NEW U \in Good, NEW x \in S \ U PROVE U \cup {x} \in Good
  <2> DEFINE V == U \cup T
  <2>1. IsFiniteSet(U) /\ IsFiniteSet(V)
    BY FS_Subset, FS_Union
  <2>2. /\ \A y \in U \cup {x} : f[y] \in Int
        /\ \A y \in V \cup {x} : f[y] \in Int
        /\ x \notin V /\ (U \cup {x}) \cup T = V \cup {x}
    OBVIOUS
  <2>3. SumFunctionOnSet(f, V) = SumFunctionOnSet(f, U) + SumFunctionOnSet(f, T)
    OBVIOUS
  <2> HIDE DEF V
  <2>4. /\ SumFunctionOnSet(f, U \cup {x}) = f[x] + SumFunctionOnSet(f, U)
        /\ SumFunctionOnSet(f, V \cup {x}) = f[x] + SumFunctionOnSet(f, V)
    BY <2>1, <2>2, SumAppend
  <2>5. f[x] \in Int /\ SumFunctionOnSet(f, U) \in Int /\ SumFunctionOnSet(f, T) \in Int
    BY <2>1, <2>2, SumTyped
  <2>6. SumFunctionOnSet(f, V \cup {x}) = SumFunctionOnSet(f, U \cup {x}) + SumFunctionOnSet(f, T)
    BY <2>3, <2>4, <2>5
  <2> QED
    BY <2>2, <2>6
<1>3. S \in Good
  <2>1. Good \in SUBSET (SUBSET S)
    OBVIOUS
  <2> HIDE DEF Good
  <2> QED
    BY <1>1, <1>2, <2>1, SetInduction
<1> QED
  BY <1>3

\* The parts of a set may be added up first.
LEMMA SumOfParts ==
  ASSUME NEW K, IsFiniteSet(K), NEW part, \A k \in K : IsFiniteSet(part[k]),
         \A k, l \in K : k # l => part[k] \cap part[l] = {},
         NEW f, \A k \in K : \A x \in part[k] : f[x] \in Int,
         NEW sum, \A k \in K : sum[k] = SumFunctionOnSet(f, part[k])
  PROVE  SumFunctionOnSet(sum, K) = SumFunctionOnSet(f, UNION {part[k] : k \in K})
<1> DEFINE of(L) == UNION {part[k] : k \in L}
           Good == {L \in SUBSET K : /\ IsFiniteSet(of(L))
                                     /\ SumFunctionOnSet(sum, L) = SumFunctionOnSet(f, of(L))}
<1>1. {} \in Good
  <2>1. of({}) = {}
    OBVIOUS
  <2> HIDE DEF of
  <2> QED
    BY <2>1, SumOfNone, FS_EmptySet
<1>2. \A k \in K : sum[k] \in Int
  <2> SUFFICES ASSUME NEW k \in K PROVE SumFunctionOnSet(f, part[k]) \in Int
    OBVIOUS
  <2> DEFINE S == part[k]
  <2>1. IsFiniteSet(S) /\ \A x \in S : f[x] \in Int
    OBVIOUS
  <2> HIDE DEF S
  <2>2. SumFunctionOnSet(f, S) \in Int
    BY <2>1, SumTyped
  <2> QED
    BY <2>2 DEF S
<1>3. ASSUME NEW L \in Good, NEW k \in K \ L PROVE L \cup {k} \in Good
  <2> DEFINE S == of(L)   T == part[k]
  <2>1. IsFiniteSet(L) /\ \A l \in L \cup {k} : sum[l] \in Int
    BY <1>2, FS_Subset
  <2>2. SumFunctionOnSet(sum, L \cup {k}) = sum[k] + SumFunctionOnSet(sum, L)
    BY <2>1, SumAppend
  <2>3. of(L \cup {k}) = S \cup T
    OBVIOUS
  <2>4. /\ S \cap T = {} /\ IsFiniteSet(S) /\ IsFiniteSet(T)
        /\ \A x \in S \cup T : f[x] \in Int
    OBVIOUS
  <2>5. SumFunctionOnSet(sum, L) = SumFunctionOnSet(f, S) /\ sum[k] = SumFunctionOnSet(f, T)
    OBVIOUS
  <2> HIDE DEF S, T
  <2>6. IsFiniteSet(S \cup T)
    BY <2>4, FS_Union
  <2>7. SumFunctionOnSet(f, S \cup T) = SumFunctionOnSet(f, S) + SumFunctionOnSet(f, T)
    BY <2>4, SumOfUnion
  <2>8. SumFunctionOnSet(f, S) \in Int /\ SumFunctionOnSet(f, T) \in Int
    BY <2>4, SumTyped
  <2>9. SumFunctionOnSet(sum, L \cup {k}) = SumFunctionOnSet(f, S \cup T)
    BY <2>2, <2>5, <2>7, <2>8
  <2> QED
    BY <2>3, <2>6, <2>9
<1>4. K \in Good
  <2>1. Good \in SUBSET (SUBSET K)
    OBVIOUS
  <2> HIDE DEF Good
  <2> QED
    BY <1>1, <1>3, <2>1, SetInduction
<1> QED
  BY <1>4

-------------------------------------------------------------------------------
(* Products of a sequence.                                                 *)

ProductOf(base, seq) == FoldLeft(LAMBDA n, dim : n * dim, base, seq)

\* The recursion that FoldLeft is defined by, for a product.
IsProduct(product, base, seq) ==
  product = [T \in SUBSET DOMAIN seq |->
               IF T = {} THEN base ELSE product[T \ {Max(T)}] * seq[Max(T)]]

LEMMA ProductExists ==
  ASSUME NEW base \in Nat, NEW seq \in Seq(Nat)
  PROVE  \E product \in [SUBSET DOMAIN seq -> Nat] : IsProduct(product, base, seq)
<1> DEFINE S == DOMAIN seq
           P == SUBSET S
           V == Nat
           Z == [P -> V]
           D == Cardinality(S)
           rank == [T \in P |-> Cardinality(T)]
           G == [T \in P |-> [e \in Z |-> IF T = {} THEN base ELSE e[T \ {Max(T)}] * seq[Max(T)]]]
<1>1. IsFiniteSet(S) /\ S \in SUBSET Int
  <2>1. Len(seq) \in Nat /\ S = 1..Len(seq)
    OBVIOUS
  <2>2. IsFiniteSet(1..Len(seq))
    BY <2>1, FS_Interval
  <2> QED
    BY <2>1, <2>2
<1>2. \A T \in P : /\ IsFiniteSet(T) /\ T \in SUBSET Int
                   /\ Cardinality(T) \in Nat /\ Cardinality(T) <= D
  <2> SUFFICES ASSUME NEW T \in P
               PROVE  IsFiniteSet(T) /\ T \in SUBSET Int /\ Cardinality(T) \in Nat /\ Cardinality(T) <= D
    OBVIOUS
  <2>1. T \in SUBSET S /\ T \in SUBSET Int
    BY <1>1
  <2> HIDE DEF S
  <2> QED
    BY <1>1, <2>1, FS_Subset, FS_CardinalityType
<1>3. D \in Nat
  BY <1>2
<1>4. \A T \in P : rank[T] \in 0..D
  <2> HIDE DEF D, P
  <2> QED
    BY <1>2, <1>3
<1>5. ASSUME NEW T \in P, T # {} PROVE Max(T) \in T /\ T \ {Max(T)} \in P
  BY <1>2, <1>5, MaxIs
<1>6. ASSUME NEW T \in P, T # {} PROVE rank[T \ {Max(T)}] < rank[T]
  <2>1. Max(T) \in T /\ T \ {Max(T)} \in P /\ IsFiniteSet(T) /\ Cardinality(T) \in Nat
    BY <1>2, <1>5, <1>6
  <2>2. Cardinality(T \ {Max(T)}) = Cardinality(T) - 1
    BY <2>1, FS_RemoveElement
  <2> HIDE DEF P
  <2> QED
    BY <2>1, <2>2
<1>7. \A T \in P : \A e \in Z : G[T][e] \in V
  <2> SUFFICES ASSUME NEW T \in P, NEW e \in Z, T # {} PROVE e[T \ {Max(T)}] * seq[Max(T)] \in Nat
    OBVIOUS
  <2>1. Max(T) \in DOMAIN seq /\ T \ {Max(T)} \in P
    BY <1>5
  <2>2. e[T \ {Max(T)}] \in Nat /\ seq[Max(T)] \in Nat
    BY <2>1
  <2>3. \A m, n \in Nat : m * n \in Nat
    OBVIOUS
  <2> QED
    BY <2>2, <2>3
<1>8. \A T \in P : \A e, h \in Z :
        (\A U \in P : rank[U] < rank[T] => e[U] = h[U]) => G[T][e] = G[T][h]
  <2> SUFFICES ASSUME NEW T \in P, NEW e \in Z, NEW h \in Z,
                      \A U \in P : rank[U] < rank[T] => e[U] = h[U]
               PROVE  G[T][e] = G[T][h]
    OBVIOUS
  <2>1. T # {} => e[T \ {Max(T)}] = h[T \ {Max(T)}]
    <3> HIDE DEF rank, P
    <3> QED
      BY <1>5, <1>6
  <2> QED
    BY <2>1
<1>9. Solvable(P, V, G)
  <2>1. V # {}
    OBVIOUS
  <2> HIDE DEF D, rank, G, P, V
  <2>2. Ranked(P, V, D, rank, G)
    BY <1>3, <1>4, <1>7, <1>8, <2>1 DEF Ranked
  <2> QED
    BY <2>2, RecursionByRank
<1>10. PICK product \in Z : \A T \in P : product[T] = G[T][product]
  BY <1>9 DEF Solvable
<1> QED
  BY <1>10 DEF IsProduct

LEMMA ProductIs ==
  ASSUME NEW base \in Nat, NEW seq \in Seq(Nat)
  PROVE  \E product : /\ IsProduct(product, base, seq)
                      /\ ProductOf(base, seq) = product[DOMAIN seq]
<1>1. \E product : IsProduct(product, base, seq)
  BY ProductExists
<1> QED
  BY <1>1 DEF ProductOf, FoldLeft, MapThenFoldSet, IsProduct

\* A product of naturals is one.
LEMMA ProductTyped ==
  ASSUME NEW base \in Nat, NEW seq \in Seq(Nat)
  PROVE  ProductOf(base, seq) \in Nat
<1>1. PICK product : IsProduct(product, base, seq) /\ ProductOf(base, seq) = product[DOMAIN seq]
  BY ProductIs
<1> DEFINE S == DOMAIN seq
           Good == {T \in SUBSET S : product[T] \in Nat}
           Bad == (SUBSET S) \ Good
<1>2. SUFFICES ASSUME Bad # {} PROVE FALSE
  BY <1>1
<1>3. IsFiniteSet(S) /\ S \in SUBSET Int
  <2>1. Len(seq) \in Nat /\ S = 1..Len(seq)
    OBVIOUS
  <2>2. IsFiniteSet(1..Len(seq))
    BY <2>1, FS_Interval
  <2> QED
    BY <2>1, <2>2
<1>4. PICK T \in Bad : \A U \in Bad : U \subseteq T => U = T
  <2>1. IsFiniteSet(S) /\ Bad \in SUBSET (SUBSET S) /\ Bad # {}
    BY <1>2, <1>3
  <2> HIDE DEF Bad, S
  <2> QED
    BY <2>1, MinimalSubset
<1>5. product[T] = IF T = {} THEN base ELSE product[T \ {Max(T)}] * seq[Max(T)]
  BY <1>1, <1>4 DEF IsProduct
<1>6. T # {}
  BY <1>4, <1>5
<1>7. Max(T) \in T
  <2>1. T \in SUBSET Int /\ IsFiniteSet(T)
    BY <1>3, <1>4, FS_Subset
  <2> QED
    BY <1>6, <2>1, MaxIs
<1>8. product[T \ {Max(T)}] \in Nat /\ seq[Max(T)] \in Nat
  BY <1>4, <1>7
<1>9. \A m, n \in Nat : m * n \in Nat
  OBVIOUS
<1> QED
  BY <1>4, <1>5, <1>6, <1>8, <1>9

LEMMA ProductOfPair ==
  ASSUME NEW base \in Nat, NEW m \in Nat, NEW n \in Nat
  PROVE  ProductOf(base, <<m, n>>) = base * m * n
<1> DEFINE seq == <<m, n>>
<1>1. seq \in Seq(Nat) /\ DOMAIN seq = {1, 2} /\ seq[1] = m /\ seq[2] = n
  OBVIOUS
<1>2. PICK product : IsProduct(product, base, seq) /\ ProductOf(base, seq) = product[DOMAIN seq]
  <2> HIDE DEF seq
  <2> QED
    BY <1>1, ProductIs
<1>3. Max({1, 2}) = 2 /\ Max({1}) = 1
  <2>1. IsFiniteSet({1}) /\ IsFiniteSet({1, 2})
    <3>1. \A x : IsFiniteSet({x})
      BY FS_Singleton
    <3>2. \A x, y : IsFiniteSet({x} \cup {y})
      BY <3>1, FS_AddElement
    <3> DEFINE pair == {1, 2}
    <3>3. pair = {1} \cup {2}
      OBVIOUS
    <3> HIDE DEF pair
    <3>4. IsFiniteSet(pair)
      BY <3>2, <3>3
    <3> QED
      BY <3>1, <3>4 DEF pair
  <2>2. Max({1, 2}) \in {1, 2} /\ Max({1, 2}) >= 2
    BY <2>1, MaxIs
  <2>3. Max({1}) \in {1}
    BY <2>1, MaxIs
  <2> QED
    BY <2>2, <2>3
<1> HIDE DEF seq
<1>4. \A T \in SUBSET {1, 2} :
        product[T] = IF T = {} THEN base ELSE product[T \ {Max(T)}] * seq[Max(T)]
  BY <1>1, <1>2 DEF IsProduct
<1>5. product[{}] = base
  BY <1>4
<1>6. product[{1}] = base * m
  <2>1. {1} \ {1} = {}
    OBVIOUS
  <2> QED
    BY <1>1, <1>3, <1>4, <1>5, <2>1
<1>7. product[{1, 2}] = base * m * n
  <2>1. {1, 2} \ {2} = {1}
    OBVIOUS
  <2>2. {1, 2} \in SUBSET {1, 2} /\ {1, 2} # {}
    OBVIOUS
  <2>3. product[{1, 2}] = product[{1, 2} \ {Max({1, 2})}] * seq[Max({1, 2})]
    BY <1>4, <2>2
  <2>4. product[{1, 2}] = product[{1}] * seq[2]
    BY <1>3, <2>1, <2>3
  <2> QED
    BY <1>1, <1>6, <2>4
<1> QED
  BY <1>1, <1>2, <1>7 DEF seq

-------------------------------------------------------------------------------
(* The memory planners.                                                    *)

LEMMA ProductOfNaturals == \A m, n \in Nat : m * n \in Nat
OBVIOUS

LEMMA ProductGrows ==
  ASSUME NEW m \in Nat, NEW n \in Nat, NEW k \in Nat, m <= n
  PROVE  m * k <= n * k
<1>1. (n - m) * k \in Nat
  BY ProductOfNaturals
<1> QED
  BY <1>1

\* Division by the page size, without remainder and with.
LEMMA Divided ==
  ASSUME NEW n \in Nat
  PROVE  /\ n \div PageSize \in Nat
         /\ (n \div PageSize) * PageSize <= n
         /\ n < (n \div PageSize) * PageSize + PageSize
BY PageAssumption

\* A context of at least one token is rounded up to whole pages, and less than
\* one page is reserved in vain.
THEOREM ReservedIsEnough ==
  ASSUME NEW context \in Nat \ {0}
  PROVE  /\ Pages(context) \in Nat
         /\ TokensAlloc(context) = Pages(context) * PageSize
         /\ TokensAlloc(context) - context \in 0..PageSize - 1
<1> DEFINE n == context + PageSize - 1
<1>1. n \in Nat /\ PageSize \in Nat \ {0}
  BY PageAssumption
<1>2. /\ Pages(context) \in Nat
      /\ Pages(context) * PageSize <= n /\ n < Pages(context) * PageSize + PageSize
  BY <1>1, Divided DEF Pages
<1>3. Pages(context) * PageSize \in Nat
  BY <1>1, <1>2, ProductOfNaturals
<1> QED
  BY <1>1, <1>2, <1>3 DEF TokensAlloc

\* No fewer tokens hold the context in whole pages.
THEOREM ReservedIsLeast ==
  ASSUME NEW context \in Nat \ {0}, NEW pages \in Nat, context <= pages * PageSize
  PROVE  TokensAlloc(context) <= pages * PageSize
<1>1. PageSize \in Nat \ {0} /\ Pages(context) \in Nat
  BY PageAssumption, ReservedIsEnough
<1>2. SUFFICES ASSUME Pages(context) >= pages + 1 PROVE FALSE
  BY <1>1, ProductGrows DEF TokensAlloc
<1>3. (pages + 1) * PageSize <= Pages(context) * PageSize
  BY <1>1, <1>2, ProductGrows
<1>4. (pages + 1) * PageSize = pages * PageSize + PageSize /\ pages * PageSize \in Nat
  BY <1>1, ProductOfNaturals
<1>5. TokensAlloc(context) - context \in 0..PageSize - 1 /\ TokensAlloc(context) = Pages(context) * PageSize
  BY ReservedIsEnough
<1> QED
  BY <1>1, <1>3, <1>4, <1>5

LEMMA ReservedGrows ==
  ASSUME NEW small \in Nat \ {0}, NEW large \in Nat \ {0}, small <= large
  PROVE  TokensAlloc(small) \in Nat /\ TokensAlloc(large) \in Nat
         /\ TokensAlloc(small) <= TokensAlloc(large)
<1>1. PageSize \in Nat \ {0}
  BY PageAssumption
<1>2. Pages(large) \in Nat /\ TokensAlloc(large) = Pages(large) * PageSize
      /\ TokensAlloc(large) - large \in 0..PageSize - 1
  BY ReservedIsEnough
<1>3. Pages(small) \in Nat /\ TokensAlloc(small) = Pages(small) * PageSize
  BY ReservedIsEnough
<1>4. TokensAlloc(large) \in Nat /\ TokensAlloc(small) \in Nat
  BY <1>1, <1>2, <1>3, ProductOfNaturals
<1>5. small <= Pages(large) * PageSize
  BY <1>1, <1>2, <1>4
<1> QED
  BY <1>2, <1>4, <1>5, ReservedIsLeast

\* The figures of one geometry and one set of options but for the context.
LEMMA GeometryTyped ==
  /\ g.heads \in Nat /\ g.dim \in Nat /\ g.full \in Nat /\ g.gdn \in Nat
  /\ g.gk \in Nat /\ g.gv \in Nat /\ g.dk \in Nat /\ g.dv \in Nat
  /\ g.conv \in Nat /\ g.mtp_layers \in Nat
BY GeometryAssumption DEF Geometry

LEMMA PerLayerTyped ==
  ASSUME NEW o \in Options
  PROVE  PerLayer(o) \in Nat
<1>1. Values \in Nat
  BY GeometryTyped, ProductOfNaturals DEF Values
<1>2. o.k_bits + o.v_bits \in Nat
  BY DEF Options
<1>3. Values * (o.k_bits + o.v_bits) \in Nat
  BY <1>1, <1>2, ProductOfNaturals
<1>4. \A n \in Nat : n \div 8 \in Nat /\ n \div 32 \in Nat
  OBVIOUS
<1> QED
  BY <1>1, <1>3, <1>4 DEF PerLayer

\* What a plan reserves for caches never shrinks with a larger context.
THEOREM CacheGrows ==
  ASSUME NEW o \in Options, NEW large \in Nat \ {0}, o.context <= large
  PROVE  LET l == [o EXCEPT !.context = large] IN
         /\ CacheTarget(o) \in Nat /\ CacheTarget(l) \in Nat /\ CacheTarget(o) <= CacheTarget(l)
         /\ CacheDraft(o) \in Nat /\ CacheDraft(l) \in Nat /\ CacheDraft(o) <= CacheDraft(l)
<1> DEFINE l == [o EXCEPT !.context = large]
           layers == IF o.mtp THEN g.mtp_layers ELSE 0
<1>1. o.context \in Nat \ {0} /\ l \in Options /\ l.context = large /\ l.mtp = o.mtp
  BY DEF Options
<1>2. PerLayer(l) = PerLayer(o)
  BY DEF PerLayer, Options
<1>3. PerLayer(o) \in Nat /\ g.full \in Nat /\ layers \in Nat
  BY PerLayerTyped, GeometryTyped
<1>4. /\ TokensAlloc(o.context) \in Nat /\ TokensAlloc(large) \in Nat
      /\ TokensAlloc(o.context) <= TokensAlloc(large)
  BY <1>1, ReservedGrows
<1>5. /\ TokensAlloc(o.context) * PerLayer(o) \in Nat /\ TokensAlloc(large) * PerLayer(o) \in Nat
      /\ TokensAlloc(o.context) * PerLayer(o) <= TokensAlloc(large) * PerLayer(o)
  BY <1>3, <1>4, ProductOfNaturals, ProductGrows
<1>6. \A k \in Nat :
        /\ TokensAlloc(o.context) * PerLayer(o) * k \in Nat
        /\ TokensAlloc(large) * PerLayer(o) * k \in Nat
        /\ TokensAlloc(o.context) * PerLayer(o) * k <= TokensAlloc(large) * PerLayer(o) * k
  BY <1>5, ProductOfNaturals, ProductGrows
<1>7. /\ CacheTarget(o) = TokensAlloc(o.context) * PerLayer(o) * g.full
      /\ CacheTarget(l) = TokensAlloc(large) * PerLayer(o) * g.full
      /\ CacheDraft(o) = TokensAlloc(o.context) * PerLayer(o) * layers
      /\ CacheDraft(l) = TokensAlloc(large) * PerLayer(o) * layers
  BY <1>1, <1>2 DEF CacheTarget, CacheDraft
<1> QED
  BY <1>3, <1>6, <1>7

\* The recurrent state does not depend on the context.
LEMMA RecurrentStays ==
  ASSUME NEW o \in Options, NEW large \in Nat \ {0}
  PROVE  LET l == [o EXCEPT !.context = large] IN
         /\ Matrix(o) \in Nat /\ Matrix(l) = Matrix(o)
         /\ Conv(o) \in Nat /\ Conv(l) = Conv(o)
<1>1. o.slots \in Nat /\ o.history \in Nat
  BY DEF Options
<1>2. Matrix(o) \in Nat
  <2>1. o.slots * (o.history + 1) \in Nat
    BY <1>1, ProductOfNaturals
  <2>2. o.slots * (o.history + 1) * g.gdn \in Nat
    BY <2>1, GeometryTyped, ProductOfNaturals
  <2>3. g.gv * g.dk \in Nat
    BY GeometryTyped, ProductOfNaturals
  <2>4. g.gv * g.dk * g.dv \in Nat
    BY <2>3, GeometryTyped, ProductOfNaturals
  <2>5. g.gv * g.dk * g.dv * 4 \in Nat
    BY <2>4
  <2> QED
    BY <2>2, <2>5, ProductOfNaturals DEF Matrix
<1>3. Conv(o) \in Nat
  <2>1. g.gk * g.dk \in Nat /\ g.gv * g.dv \in Nat
    BY GeometryTyped, ProductOfNaturals
  <2>2. 2 * g.gk * g.dk = 2 * (g.gk * g.dk)
    BY GeometryTyped
  <2>3. Channels \in Nat
    BY <2>1, <2>2 DEF Channels
  <2>4. o.slots * g.gdn \in Nat
    BY <1>1, GeometryTyped, ProductOfNaturals
  <2>5. o.slots * g.gdn * Channels \in Nat
    BY <2>3, <2>4, ProductOfNaturals
  <2>6. o.slots * g.gdn * Channels * (g.conv + o.history) \in Nat
    BY <1>1, <2>5, GeometryTyped, ProductOfNaturals
  <2> QED
    BY <2>6 DEF Conv
<1>4. /\ [o EXCEPT !.context = large].slots = o.slots
      /\ [o EXCEPT !.context = large].history = o.history
  BY DEF Options
<1> QED
  BY <1>2, <1>3, <1>4 DEF Matrix, Conv

-------------------------------------------------------------------------------
(* Budgets of an inventory.                                                *)

\* Rows with numbers where the planners read some; what the matrices are like is
\* read of trellises only.
Priced(csv) ==
  /\ Len(csv) \in Nat /\ DOMAIN csv = 1..Len(csv)
  /\ \A row \in RowsOf(csv) :
       /\ row.bytes \in Nat
       /\ row.trellis => row.in_features \in Nat /\ row.out_features \in Nat

LEMMA BytesOfTyped ==
  ASSUME NEW rows, IsFiniteSet(rows), \A row \in rows : row.bytes \in Nat
  PROVE  BytesOf(rows) \in Nat
<1> DEFINE f == [row \in rows |-> row.bytes]
<1>1. \A row \in rows : f[row] \in Nat
  OBVIOUS
<1>2. DOMAIN f = rows
  OBVIOUS
<1> HIDE DEF f
<1>3. SumFunctionOnSet(f, rows) \in Nat
  BY <1>1, SumOfNaturals
<1> QED
  BY <1>2, <1>3 DEF BytesOf, SumFunction, f

\* A row has no more bytes than all rows, and just its own if it is the only one.
LEMMA BytesOfMember ==
  ASSUME NEW rows, IsFiniteSet(rows), \A row \in rows : row.bytes \in Nat, NEW row \in rows
  PROVE  row.bytes <= BytesOf(rows) /\ BytesOf({row}) = row.bytes
<1> DEFINE f == [r \in rows |-> r.bytes]
           one == [r \in {row} |-> r.bytes]
<1>1. /\ \A r \in rows : f[r] \in Nat /\ f[r] = r.bytes
      /\ DOMAIN f = rows /\ DOMAIN one = {row} /\ one[row] = row.bytes /\ one[row] \in Int
  OBVIOUS
<1>2. BytesOf(rows) = SumFunctionOnSet(f, rows) /\ BytesOf({row}) = SumFunctionOnSet(one, {row})
  BY <1>1 DEF BytesOf, SumFunction
<1> HIDE DEF f, one
<1>3. f[row] <= SumFunctionOnSet(f, rows)
  BY <1>1, SumOfNaturals
<1>4. SumFunctionOnSet(one, {row}) = row.bytes
  <2>1. SumFunctionOnSet(one, {row}) = one[row] + SumFunctionOnSet(one, {row} \ {row})
    BY <1>1, FS_Singleton, SumRemove
  <2>2. {row} \ {row} = {}
    OBVIOUS
  <2>3. SumFunctionOnSet(one, {}) = 0
    BY SumOfNone
  <2>4. SumFunctionOnSet(one, {row}) = one[row] + 0 /\ one[row] \in Nat
    BY <1>1, <2>1, <2>2, <2>3
  <2> QED
    BY <1>1, <2>4
<1> QED
  BY <1>1, <1>2, <1>3, <1>4

LEMMA RowsFinite ==
  ASSUME NEW csv, Priced(csv)
  PROVE  /\ IsFiniteSet(RowsOf(csv))
         /\ \A rows \in SUBSET RowsOf(csv) : IsFiniteSet(rows) /\ BytesOf(rows) \in Nat
<1>1. IsFiniteSet(RowsOf(csv))
  <2>1. IsFiniteSet(DOMAIN csv)
    BY FS_Interval DEF Priced
  <2> QED
    BY <2>1, FiniteImage DEF RowsOf
<1>2. ASSUME NEW rows \in SUBSET RowsOf(csv) PROVE IsFiniteSet(rows) /\ BytesOf(rows) \in Nat
  <2>1. IsFiniteSet(rows)
    BY <1>1, FS_Subset
  <2>2. \A row \in rows : row.bytes \in Nat
    BY DEF Priced
  <2> QED
    BY <2>1, <2>2, BytesOfTyped
<1> QED
  BY <1>1, <1>2

LEMMA ComponentsFinite ==
  ASSUME NEW mtp, NEW vision
  PROVE  IsFiniteSet(Components(mtp, vision))
<1>1. \A x : IsFiniteSet({x})
  BY FS_Singleton
<1>2. \A w, x, y, z : IsFiniteSet({w} \cup {x} \cup {y} \cup {z})
  BY <1>1, FS_AddElement
<1>3. IsFiniteSet(Groups)
  <2>1. Groups = {"text"} \cup {"output_head"} \cup {"mtp"} \cup {"vision"}
    BY DEF Groups
  <2> QED
    BY <1>2, <2>1
<1>4. Components(mtp, vision) \in SUBSET Groups
  BY DEF Components, Groups
<1> QED
  BY <1>3, <1>4, FS_Subset

LEMMA SerializedTyped ==
  ASSUME NEW csv, Priced(csv), NEW c
  PROVE  Serialized(csv, c) \in Nat
<1> DEFINE rows == {row \in RowsOf(csv) : row.component = c}
<1>1. rows \in SUBSET RowsOf(csv)
  OBVIOUS
<1> HIDE DEF rows
<1>2. BytesOf(rows) \in Nat
  BY <1>1, RowsFinite
<1> QED
  BY <1>2 DEF Serialized, rows

LEMMA DiskTyped ==
  ASSUME NEW csv, Priced(csv), NEW mtp, NEW vision
  PROVE  Disk(csv, mtp, vision) \in Nat
<1> DEFINE C == Components(mtp, vision)
           f == [c \in C |-> Serialized(csv, c)]
<1>1. \A c \in C : f[c] \in Nat
  BY SerializedTyped
<1>2. DOMAIN f = C /\ IsFiniteSet(C)
  BY ComponentsFinite
<1> HIDE DEF f, C
<1>3. SumFunctionOnSet(f, C) \in Nat
  BY <1>1, <1>2, SumOfNaturals
<1> QED
  BY <1>2, <1>3 DEF Disk, SumFunction, f, C

\* All components together have the bytes of all rows.
LEMMA DiskOfAll ==
  ASSUME NEW csv, Priced(csv), Manifest(csv)
  PROVE  Disk(csv, TRUE, TRUE) = BytesOf(RowsOf(csv))
<1> DEFINE C == Components(TRUE, TRUE)
           sum == [c \in C |-> Serialized(csv, c)]
           f == [row \in RowsOf(csv) |-> row.bytes]
           part == [c \in C |-> {row \in RowsOf(csv) : row.component = c}]
<1>1. \A row \in RowsOf(csv) : f[row] \in Int /\ f[row] \in Nat /\ f[row] = row.bytes
  BY DEF Priced
<1>2. \A c \in C : IsFiniteSet(part[c]) /\ part[c] \in SUBSET RowsOf(csv)
  BY RowsFinite
<1>3. ASSUME NEW c \in C PROVE sum[c] = SumFunctionOnSet(f, part[c])
  <2> DEFINE rows == part[c]
             h == [row \in rows |-> row.bytes]
  <2>1. IsFiniteSet(rows) /\ rows \in SUBSET RowsOf(csv)
    BY <1>2
  <2>2. sum[c] = SumFunctionOnSet(h, rows)
    <3>1. sum[c] = BytesOf(rows) /\ DOMAIN h = rows
      BY DEF Serialized
    <3> HIDE DEF rows, sum
    <3> QED
      BY <3>1 DEF BytesOf, SumFunction
  <2>3. \A row \in rows : f[row] \in Int /\ h[row] = f[row]
    BY <1>1, <2>1
  <2> HIDE DEF rows, h, f
  <2>4. SumFunctionOnSet(h, rows) = SumFunctionOnSet(f, rows)
    BY <2>1, <2>3, SumOfSame
  <2> QED
    BY <2>2, <2>4 DEF rows
<1>4. \A c, d \in C : c # d => part[c] \cap part[d] = {}
  OBVIOUS
<1>5. UNION {part[c] : c \in C} = RowsOf(csv)
  BY DEF Manifest, Components, Groups
<1>6. \A c \in C : \A row \in part[c] : f[row] \in Int
  BY <1>1, <1>2
<1>7. IsFiniteSet(C) /\ DOMAIN sum = C /\ DOMAIN f = RowsOf(csv)
  BY ComponentsFinite
<1>8. Disk(csv, TRUE, TRUE) = SumFunctionOnSet(sum, C)
  BY <1>7 DEF Disk, SumFunction
<1>9. BytesOf(RowsOf(csv)) = SumFunctionOnSet(f, RowsOf(csv))
  BY <1>7 DEF BytesOf, SumFunction
<1> HIDE DEF C, sum, f, part
<1>10. SumFunctionOnSet(sum, C) = SumFunctionOnSet(f, UNION {part[c] : c \in C})
  BY <1>2, <1>3, <1>4, <1>6, <1>7, SumOfParts
<1> QED
  BY <1>5, <1>8, <1>9, <1>10

\* What native_loader_ledger accepts, model_residency_plan accepts.
LEMMA InventoriedIsManifest ==
  ASSUME NEW csv, Priced(csv), Inventoried(csv)
  PROVE  Manifest(csv)
<1>1. PICK i \in DOMAIN csv : TRUE
  BY DEF Inventoried, EmbedRows, RowsOf
<1>2. csv # <<>>
  BY <1>1
<1> QED
  BY <1>2 DEF Inventoried, Manifest

\* The equations by which Totals is defined, for any function.
IsTotals(totals, csv) ==
  totals = [n \in 0..Len(csv) |->
              IF n = 0 THEN [c \in Groups |-> 0]
              ELSE [totals[n - 1] EXCEPT ![csv[n].component] = @ + csv[n].bytes]]

LEMMA TotalsExist ==
  ASSUME NEW csv, Priced(csv), Manifest(csv)
  PROVE  \E totals \in [0..Len(csv) -> [Groups -> Nat]] : IsTotals(totals, csv)
<1> DEFINE N == Len(csv)
           S == 0..N
           V == [Groups -> Nat]
           Z == [S -> V]
           rank == [n \in S |-> n]
           more(f, n) == [f[n - 1] EXCEPT ![csv[n].component] = @ + csv[n].bytes]
           G == [n \in S |-> [f \in Z |-> IF n = 0 THEN [c \in Groups |-> 0] ELSE more(f, n)]]
<1>1. N \in Nat /\ \A n \in S : rank[n] \in 0..N /\ rank[n] = n /\ n \in Nat
  BY DEF Priced
<1>2. ASSUME NEW n \in S, n # 0
      PROVE  n - 1 \in S /\ n - 1 < n /\ csv[n].component \in Groups /\ csv[n].bytes \in Nat
  <2>1. n - 1 \in S /\ n - 1 < n /\ n \in DOMAIN csv
    BY <1>1, <1>2 DEF Priced
  <2>2. csv[n] \in RowsOf(csv)
    BY <2>1 DEF RowsOf
  <2> QED
    BY <2>1, <2>2 DEF Priced, Manifest
<1>3. \A n \in S : \A f \in Z : G[n][f] \in V
  <2> SUFFICES ASSUME NEW n \in S, NEW f \in Z, n # 0 PROVE more(f, n) \in V
    OBVIOUS
  <2>1. f[n - 1] \in V /\ csv[n].component \in Groups /\ csv[n].bytes \in Nat
    BY <1>2
  <2>2. \A k, l \in Nat : k + l \in Nat
    OBVIOUS
  <2> QED
    BY <2>1, <2>2
<1>4. \A n \in S : \A e, f \in Z :
        (\A m \in S : rank[m] < rank[n] => e[m] = f[m]) => G[n][e] = G[n][f]
  <2> SUFFICES ASSUME NEW n \in S, NEW e \in Z, NEW f \in Z,
                      \A m \in S : rank[m] < rank[n] => e[m] = f[m]
               PROVE  G[n][e] = G[n][f]
    OBVIOUS
  <2>1. n # 0 => e[n - 1] = f[n - 1]
    <3> HIDE DEF S, rank
    <3> QED
      BY <1>1, <1>2
  <2> QED
    BY <2>1
<1>5. Solvable(S, V, G)
  <2>1. V # {}
    <3>1. [c \in Groups |-> 0] \in V
      OBVIOUS
    <3> QED
      BY <3>1
  <2> HIDE DEF S, V, rank, G, N
  <2>2. Ranked(S, V, N, rank, G)
    BY <1>1, <1>3, <1>4, <2>1 DEF Ranked
  <2> QED
    BY <2>2, RecursionByRank
<1>6. PICK f \in Z : \A n \in S : f[n] = G[n][f]
  BY <1>5 DEF Solvable
<1>7. IsTotals(f, csv)
  BY <1>6 DEF IsTotals
<1> QED
  BY <1>7

\* The running totals of one planner are the sums by component of the other.
LEMMA TotalsAre ==
  ASSUME NEW csv, Priced(csv), Manifest(csv)
  PROVE  \A c \in Groups : Totals(csv)[c] = Serialized(csv, c)
<1> DEFINE N == Len(csv)
           totals == CHOOSE f : IsTotals(f, csv)
           bytes == [i \in DOMAIN csv |-> csv[i].bytes]
           upto(n, c) == {i \in 1..n : csv[i].component = c}
<1>1. Totals(csv) = totals[N]
  BY DEF Totals, IsTotals
<1>2. IsTotals(totals, csv)
  <2>1. \E f : IsTotals(f, csv)
    BY TotalsExist
  <2> QED
    BY <2>1
<1> HIDE DEF totals
<1>3. /\ N \in Nat /\ DOMAIN csv = 1..N /\ \A i \in 1..N : bytes[i] \in Nat
      /\ \A i \in 1..N : csv[i] \in RowsOf(csv) /\ csv[i].bytes = bytes[i] /\ csv[i].component \in Groups
  BY DEF Priced, Manifest, RowsOf
<1> HIDE DEF bytes, N
<1>4. totals[0] = [c \in Groups |-> 0]
  BY <1>2, <1>3 DEF IsTotals, N
<1>5. ASSUME NEW n \in 0..N, n # N
      PROVE  totals[n + 1] = [totals[n] EXCEPT ![csv[n + 1].component] = @ + bytes[n + 1]]
  <2>1. n + 1 \in 0..N /\ n + 1 # 0 /\ (n + 1) - 1 = n /\ n + 1 \in 1..N
    BY <1>3, <1>5
  <2>2. csv[n + 1].bytes = bytes[n + 1]
    BY <1>3, <2>1
  <2> QED
    BY <1>2, <2>1, <2>2 DEF IsTotals, N
<1> DEFINE Good == {n \in 0..N : /\ DOMAIN totals[n] = Groups
                                 /\ \A c \in Groups : totals[n][c] = SumFunctionOnSet(bytes, upto(n, c))}
<1>6. 0 \in Good
  <2>1. \A c : upto(0, c) = {}
    OBVIOUS
  <2>2. SumFunctionOnSet(bytes, {}) = 0
    BY SumOfNone
  <2>3. DOMAIN totals[0] = Groups /\ \A c \in Groups : totals[0][c] = 0
    BY <1>4
  <2> HIDE DEF upto
  <2>4. \A c \in Groups : totals[0][c] = SumFunctionOnSet(bytes, upto(0, c))
    BY <2>1, <2>2, <2>3
  <2>5. 0 \in 0..N
    BY <1>3
  <2> QED
    BY <2>3, <2>4, <2>5
<1>7. ASSUME NEW n \in Good, n # N PROVE n + 1 \in Good
  <2>1. n \in 0..N /\ n + 1 \in 0..N /\ n + 1 \in 1..N /\ n \in Nat
    <3>1. n \in 0..N
      OBVIOUS
    <3> QED
      BY <1>3, <1>7, <3>1
  <2> DEFINE d == csv[n + 1].component
  <2>2. totals[n + 1] = [totals[n] EXCEPT ![d] = @ + bytes[n + 1]]
    BY <1>5, <1>7, <2>1
  <2>3. DOMAIN totals[n + 1] = Groups /\ d \in Groups
    BY <1>3, <2>1, <2>2
  <2>4. ASSUME NEW c \in Groups PROVE totals[n + 1][c] = SumFunctionOnSet(bytes, upto(n + 1, c))
    <3>1. /\ c # d => upto(n + 1, c) = upto(n, c)
          /\ c = d => upto(n + 1, c) = upto(n, c) \cup {n + 1} /\ n + 1 \notin upto(n, c)
      <4>1. \A i : i \in 1..n + 1 <=> i \in 1..n \/ i = n + 1
        BY <2>1
      <4>2. n + 1 \notin 1..n
        BY <2>1
      <4> QED
        BY <4>1, <4>2
    <3>2. totals[n][c] = SumFunctionOnSet(bytes, upto(n, c))
      BY <1>7
    <3>3. IsFiniteSet(upto(n, c)) /\ \A i \in upto(n, c) \cup {n + 1} : bytes[i] \in Int
      <4>1. IsFiniteSet(1..n)
        BY <2>1, FS_Interval
      <4>2. \A i \in 1..n : i \in 1..N
        BY <1>3, <2>1
      <4> QED
        BY <1>3, <2>1, <4>1, <4>2, FS_Subset
    <3>4. CASE c # d
      BY <1>7, <2>2, <3>1, <3>2, <3>4
    <3>5. CASE c = d
      <4> HIDE DEF upto
      <4>1. SumFunctionOnSet(bytes, upto(n, c) \cup {n + 1})
              = bytes[n + 1] + SumFunctionOnSet(bytes, upto(n, c))
        BY <3>1, <3>3, <3>5, SumAppend
      <4>2. bytes[n + 1] \in Int /\ SumFunctionOnSet(bytes, upto(n, c)) \in Int
        BY <3>3, SumTyped
      <4>3. totals[n + 1][c] = totals[n][c] + bytes[n + 1]
        BY <1>7, <2>2, <3>5
      <4>4. SumFunctionOnSet(bytes, upto(n + 1, c)) = bytes[n + 1] + totals[n][c]
        BY <3>1, <3>2, <3>5, <4>1
      <4>5. totals[n][c] \in Int
        BY <3>2, <4>2
      <4>6. \A k, l \in Int : k + l = l + k
        OBVIOUS
      <4> QED
        BY <4>2, <4>3, <4>4, <4>5, <4>6
    <3> QED
      BY <3>4, <3>5
  <2> HIDE DEF upto
  <2> QED
    BY <2>1, <2>3, <2>4
<1>8. N \in Good
  <2>1. Good \in SUBSET (0..N)
    OBVIOUS
  <2> HIDE DEF Good, N
  <2> QED
    BY <1>3, <1>6, <1>7, <2>1, UpToInduction
<1>9. ASSUME NEW c \in Groups PROVE SumFunctionOnSet(bytes, upto(N, c)) = Serialized(csv, c)
  <2> DEFINE I == upto(N, c)
             image == [i \in I |-> csv[i]]
             rows == {image[i] : i \in I}
             h == [row \in rows |-> row.bytes]
  <2>1. IsFiniteSet(I) /\ \A i \in I : bytes[i] \in Int
    <3>1. IsFiniteSet(1..N)
      BY <1>3, FS_Interval
    <3> QED
      BY <1>3, <3>1, FS_Subset
  <2>2. rows = {row \in RowsOf(csv) : row.component = c}
    BY <1>3 DEF RowsOf
  <2>3. \A i, j \in I : image[i] = image[j] => i = j
    BY <1>3 DEF Manifest
  <2>4. \A i \in I : h[image[i]] = bytes[i]
    BY <1>3
  <2>5. DOMAIN h = rows
    OBVIOUS
  <2>6. Serialized(csv, c) = SumFunctionOnSet(h, rows)
    <3> HIDE DEF rows
    <3> QED
      BY <2>2, <2>5 DEF Serialized, BytesOf, SumFunction, h
  <2> HIDE DEF I, image, h, rows
  <2>7. SumFunctionOnSet(h, {image[i] : i \in I}) = SumFunctionOnSet(bytes, I)
    BY <2>1, <2>3, <2>4, SumOfImage
  <2> QED
    BY <2>6, <2>7 DEF I, rows
<1> QED
  BY <1>1, <1>8, <1>9

\* A list of components: each once.
ListsOnce(active, components) ==
  /\ active \in Seq(Groups) /\ IsFiniteSet(DOMAIN active)
  /\ \A i, j \in DOMAIN active : active[i] = active[j] => i = j
  /\ {active[i] : i \in DOMAIN active} = components

LEMMA ListsOnceMore ==
  ASSUME NEW active, NEW components, ListsOnce(active, components),
         NEW c \in Groups, c \notin components
  PROVE  ListsOnce(active \o <<c>>, components \cup {c})
<1> DEFINE n == Len(active)
           more == active \o <<c>>
<1>1. /\ more \in Seq(Groups) /\ DOMAIN more = 1..n + 1 /\ DOMAIN active = 1..n /\ n \in Nat
      /\ \A i \in 1..n : more[i] = active[i]
      /\ more[n + 1] = c
  BY DEF ListsOnce
<1>2. IsFiniteSet(DOMAIN more)
  BY <1>1, FS_Interval
<1>3. /\ \A i, j \in 1..n : active[i] = active[j] => i = j
      /\ {active[i] : i \in 1..n} = components
  BY <1>1 DEF ListsOnce
<1> HIDE DEF n, more
<1>4. \A i : i \in 1..n + 1 <=> i \in 1..n \/ i = n + 1
  BY <1>1
<1>5. \A i \in 1..n : more[i] # more[n + 1]
  BY <1>1, <1>3
<1>6. \A i, j \in 1..n + 1 : more[i] = more[j] => i = j
  BY <1>1, <1>3, <1>4, <1>5
<1>7. {more[i] : i \in 1..n + 1} = components \cup {c}
  BY <1>1, <1>3, <1>4
<1>8. ListsOnce(more, components \cup {c})
  BY <1>1, <1>2, <1>6, <1>7 DEF ListsOnce
<1> QED
  BY <1>8 DEF more

\* The list that plan builds has the components that scenario's tuple has.
LEMMA ActiveAre ==
  ASSUME NEW mtp \in BOOLEAN, NEW vision \in BOOLEAN
  PROVE  ListsOnce(Active(mtp, vision), Components(mtp, vision))
<1> DEFINE few == <<"text", "output_head">>
           m == IF mtp THEN <<"mtp">> ELSE <<>>
           v == IF vision THEN <<"vision">> ELSE <<>>
           ms == IF mtp THEN {"mtp"} ELSE {}
           vs == IF vision THEN {"vision"} ELSE {}
<1>1. (m = <<"mtp">> /\ ms = {"mtp"}) \/ (m = <<>> /\ ms = {})
  BY Zenon
<1>2. (v = <<"vision">> /\ vs = {"vision"}) \/ (v = <<>> /\ vs = {})
  BY Zenon
<1>3. /\ Active(mtp, vision) = (few \o m) \o v
      /\ Components(mtp, vision) = ({"text", "output_head"} \cup ms) \cup vs
  BY DEF Active, Components
<1>4. ListsOnce(few, {"text", "output_head"})
  <2>1. few \in Seq(Groups) /\ DOMAIN few = 1..2 /\ few[1] = "text" /\ few[2] = "output_head"
    BY DEF Groups
  <2> HIDE DEF few
  <2>2. IsFiniteSet(DOMAIN few)
    BY <2>1, FS_Interval
  <2>3. \A i \in 1..2 : i = 1 \/ i = 2
    OBVIOUS
  <2>4. {few[i] : i \in 1..2} = {"text", "output_head"}
    BY <2>1, <2>3
  <2> QED
    BY <2>1, <2>2, <2>3, <2>4 DEF ListsOnce
<1> HIDE DEF few, m, v, ms, vs
<1>5. "mtp" \in Groups /\ "vision" \in Groups
  BY DEF Groups
<1>6. \A s, components : ListsOnce(s, components) => s \o <<>> = s /\ components \cup {} = components
  BY ConcatEmptySeq DEF ListsOnce
<1>7. /\ ListsOnce(few \o m, {"text", "output_head"} \cup ms)
      /\ "vision" \notin {"text", "output_head"} \cup ms
  <2>1. CASE m = <<"mtp">> /\ ms = {"mtp"}
    BY <1>4, <1>5, <2>1, ListsOnceMore
  <2>2. CASE m = <<>> /\ ms = {}
    BY <1>4, <1>6, <2>2
  <2> QED
    BY <1>1, <2>1, <2>2
<1>8. ListsOnce((few \o m) \o v, ({"text", "output_head"} \cup ms) \cup vs)
  <2>1. CASE v = <<"vision">> /\ vs = {"vision"}
    BY <1>5, <1>7, <2>1, ListsOnceMore
  <2>2. CASE v = <<>> /\ vs = {}
    BY <1>6, <1>7, <2>2
  <2> QED
    BY <1>2, <2>1, <2>2
<1> QED
  BY <1>3, <1>8

\* Two planners count one inventory: they load the same weights.
LEMMA WeightsAre ==
  ASSUME NEW csv, Priced(csv), Manifest(csv), NEW mtp \in BOOLEAN, NEW vision \in BOOLEAN
  PROVE  Weights(csv, mtp, vision) = Disk(csv, mtp, vision)
<1> DEFINE active == Active(mtp, vision)
           I == DOMAIN active
           C == Components(mtp, vision)
           f == [i \in I |-> Totals(csv)[active[i]]]
           h == [c \in C |-> Serialized(csv, c)]
<1>1. /\ IsFiniteSet(I) /\ {active[i] : i \in I} = C
      /\ \A i, j \in I : active[i] = active[j] => i = j
  BY ActiveAre DEF ListsOnce
<1>2. C \in SUBSET Groups
  BY DEF Components, Groups
<1>3. DOMAIN f = I /\ DOMAIN h = C
  OBVIOUS
<1>4. Weights(csv, mtp, vision) = SumFunctionOnSet(f, I)
  BY <1>3 DEF Weights, SumFunction
<1>5. Disk(csv, mtp, vision) = SumFunctionOnSet(h, C)
  BY <1>3 DEF Disk, SumFunction
<1> HIDE DEF active, I, C
<1>6. \A i \in I : f[i] \in Int /\ h[active[i]] = f[i]
  BY <1>1, <1>2, TotalsAre, SerializedTyped
<1> HIDE DEF f, h
<1>7. SumFunctionOnSet(h, {active[i] : i \in I}) = SumFunctionOnSet(f, I)
  BY <1>1, <1>6, SumOfImage
<1> QED
  BY <1>1, <1>4, <1>5, <1>7

LEMMA CpuEmbeddingTyped ==
  ASSUME NEW csv, Priced(csv)
  PROVE  CpuEmbedding(csv) \in Nat
<1>1. EmbedRows(csv) \in SUBSET RowsOf(csv)
  BY DEF EmbedRows
<1> QED
  BY <1>1, RowsFinite DEF CpuEmbedding

LEMMA ReconstructedTyped ==
  ASSUME NEW csv, Priced(csv), NEW components
  PROVE  Reconstructed(csv, components) \in Nat
<1> DEFINE R == {r \in RowsOf(csv) : r.trellis /\ r.component \in components}
           f == [row \in R |-> 2 * row.in_features * SmallerOf(row.out_features, Slice)]
           sizes == {f[row] : row \in R}
<1>1. \A row \in R : f[row] \in Nat
  <2> SUFFICES ASSUME NEW row \in R
               PROVE  2 * row.in_features * SmallerOf(row.out_features, Slice) \in Nat
    OBVIOUS
  <2>1. row.in_features \in Nat /\ row.out_features \in Nat /\ Slice \in Nat
    BY PageAssumption DEF Priced
  <2>2. SmallerOf(row.out_features, Slice) \in Nat /\ 2 * row.in_features \in Nat
    BY <2>1 DEF SmallerOf
  <2> QED
    BY <2>2, ProductOfNaturals
<1>2. IsFiniteSet(R)
  <2>1. R \in SUBSET RowsOf(csv)
    OBVIOUS
  <2> HIDE DEF R
  <2> QED
    BY <2>1, RowsFinite
<1>3. {2 * row.in_features * SmallerOf(row.out_features, Slice) : row \in R} = sizes
  OBVIOUS
<1> HIDE DEF f, R
<1>4. IsFiniteSet(sizes \cup {0})
  <2>1. IsFiniteSet(sizes)
    BY <1>2, FiniteImage
  <2> HIDE DEF sizes
  <2> QED
    BY <2>1, FS_AddElement
<1>5. Max(sizes \cup {0}) \in Nat
  <2> DEFINE all == sizes \cup {0}
  <2>1. all \in SUBSET Nat /\ all \in SUBSET Int /\ all # {} /\ IsFiniteSet(all)
    BY <1>1, <1>4
  <2> HIDE DEF all
  <2>2. Max(all) \in Nat
    BY <2>1, MaxIs
  <2> QED
    BY <2>2 DEF all
<1>6. {0} \cup sizes = sizes \cup {0}
  OBVIOUS
<1> HIDE DEF sizes
<1> QED
  BY <1>3, <1>5, <1>6 DEF Reconstructed, R

\* The staged window is a power of two that holds all pages.
LEMMA RoundedUp ==
  ASSUME NEW pages \in Nat
  PROVE  RoundedPages(pages) \in Nat /\ RoundedPages(pages) >= pages
<1> DEFINE S == 0..pages
           V == Nat
           Z == [S -> V]
           rank == [n \in S |-> n]
           G == [n \in S |-> [f \in Z |-> IF n = 0 THEN 1 ELSE 2 * f[n - 1]]]
           Is(f) == f = [n \in S |-> IF n = 0 THEN 1 ELSE 2 * f[n - 1]]
<1>1. \A n \in S : rank[n] \in 0..pages /\ rank[n] = n /\ n \in Nat
  OBVIOUS
<1>2. \A n \in S : n # 0 => n - 1 \in S /\ n - 1 < n
  OBVIOUS
<1>3. \A n \in S : \A f \in Z : G[n][f] \in V
  <2> SUFFICES ASSUME NEW n \in S, NEW f \in Z, n # 0 PROVE 2 * f[n - 1] \in Nat
    OBVIOUS
  <2>1. f[n - 1] \in Nat
    BY <1>2
  <2> QED
    BY <2>1
<1>4. \A n \in S : \A e, f \in Z :
        (\A m \in S : rank[m] < rank[n] => e[m] = f[m]) => G[n][e] = G[n][f]
  <2> SUFFICES ASSUME NEW n \in S, NEW e \in Z, NEW f \in Z,
                      \A m \in S : rank[m] < rank[n] => e[m] = f[m]
               PROVE  G[n][e] = G[n][f]
    OBVIOUS
  <2>1. n # 0 => e[n - 1] = f[n - 1]
    <3> HIDE DEF S, rank
    <3> QED
      BY <1>1, <1>2
  <2> QED
    BY <2>1
<1>5. Solvable(S, V, G)
  <2>1. V # {} /\ pages \in Nat
    OBVIOUS
  <2> HIDE DEF S, V, rank, G
  <2>2. Ranked(S, V, pages, rank, G)
    BY <1>1, <1>3, <1>4, <2>1 DEF Ranked
  <2> QED
    BY <2>2, RecursionByRank
<1>6. \E f : Is(f)
  <2>1. PICK f \in Z : \A n \in S : f[n] = G[n][f]
    BY <1>5 DEF Solvable
  <2>2. Is(f)
    BY <2>1
  <2> QED
    BY <2>2
<1> DEFINE shifted == CHOOSE f : Is(f)
           enough == {n \in S : shifted[n] >= pages}
           least == CHOOSE n \in enough : \A m \in enough : n <= m
<1>7. RoundedPages(pages) = shifted[least]
  BY DEF RoundedPages
<1>8. Is(shifted)
  <2> HIDE DEF Is
  <2> QED
    BY <1>6
<1> HIDE DEF shifted
<1>9. ASSUME NEW n \in S, n # 0 PROVE shifted[n] = 2 * shifted[n - 1]
  BY <1>8, <1>9
<1> DEFINE Good == {n \in S : shifted[n] \in Nat /\ shifted[n] >= n}
<1>10. \A k \in S : k \in Good
  <2> DEFINE Bad == S \ Good
  <2>1. SUFFICES ASSUME Bad # {} PROVE FALSE
    OBVIOUS
  <2>2. PICK k \in Bad : \A m \in Bad : k <= m
    <3>1. Bad \in SUBSET (0..pages)
      OBVIOUS
    <3> HIDE DEF Bad
    <3> QED
      BY <2>1, <3>1, LeastOf
  <2>3. k # 0
    BY <1>8, <2>2
  <2>4. k \in S /\ k - 1 \in S /\ ~(k <= k - 1)
    BY <2>2, <2>3
  <2>5. shifted[k - 1] \in Nat /\ shifted[k - 1] >= k - 1
    BY <2>2, <2>4
  <2>6. shifted[k] = 2 * shifted[k - 1]
    BY <1>9, <2>3, <2>4
  <2>7. k - 1 = 0 => shifted[k - 1] = 1
    BY <1>8, <2>4
  <2>8. shifted[k] \in Nat /\ shifted[k] >= k
    <3> DEFINE before == shifted[k - 1]
    <3>1. before \in Nat /\ before >= k - 1 /\ shifted[k] = 2 * before /\ k \in Nat
          /\ (k - 1 = 0 => before = 1) /\ k # 0
      BY <2>3, <2>4, <2>5, <2>6, <2>7
    <3> HIDE DEF before
    <3> QED
      BY <3>1
  <2> QED
    BY <2>2, <2>4, <2>8
<1>11. least \in enough
  <2>1. enough \in SUBSET (0..pages) /\ pages \in enough
    BY <1>10
  <2>2. \E n \in enough : \A m \in enough : n <= m
    <3> HIDE DEF enough
    <3> QED
      BY <2>1, LeastOf
  <2> HIDE DEF enough
  <2> QED
    BY <2>2
<1>12. least \in S /\ shifted[least] >= pages
  <2> HIDE DEF least
  <2> QED
    BY <1>11
<1>13. shifted[least] \in Nat
  <2> HIDE DEF least
  <2> QED
    BY <1>10, <1>12
<1> QED
  BY <1>7, <1>12, <1>13

\* A plan reserves whole pages.
LEMMA ReservedIsWhole ==
  ASSUME NEW context \in Nat \ {0}
  PROVE  TokensAlloc(context) % PageSize = 0
<1>1. PageSize \in Nat \ {0} /\ Pages(context) \in Nat /\ TokensAlloc(context) = Pages(context) * PageSize
  BY PageAssumption, ReservedIsEnough
<1>2. \A m \in Nat : (m * PageSize) % PageSize = 0
  <2> SUFFICES ASSUME NEW m \in Nat PROVE (m * PageSize) % PageSize = 0
    OBVIOUS
  <2> DEFINE n == m * PageSize
             k == n \div PageSize
             r == n % PageSize
  <2>1. n \in Nat
    BY <1>1, ProductOfNaturals
  <2>2. k \in Nat /\ k * PageSize <= n /\ n < k * PageSize + PageSize
    BY <2>1, Divided
  <2>3. n = PageSize * k + r /\ r \in Nat
    BY <1>1, <2>1
  <2>4. k = m
    <3>1. k < m \/ k = m \/ m < k
      BY <2>2
    <3>2. ASSUME k < m PROVE FALSE
      <4>1. (k + 1) * PageSize <= m * PageSize
        BY <1>1, <2>2, <3>2, ProductGrows
      <4>2. (k + 1) * PageSize = k * PageSize + PageSize
        BY <1>1, <2>2
      <4> QED
        BY <1>1, <2>1, <2>2, <4>1, <4>2
    <3>3. ASSUME m < k PROVE FALSE
      <4>1. (m + 1) * PageSize <= k * PageSize
        BY <1>1, <2>2, <3>3, ProductGrows
      <4>2. (m + 1) * PageSize = m * PageSize + PageSize
        BY <1>1
      <4> QED
        BY <1>1, <2>1, <2>2, <4>1, <4>2
    <3> QED
      BY <3>1, <3>2, <3>3
  <2>5. PageSize * k = n
    BY <1>1, <2>4
  <2> HIDE DEF n, k, r
  <2>6. r = 0
    BY <1>1, <2>1, <2>2, <2>3, <2>5
  <2> QED
    BY <2>6 DEF r, n
<1> QED
  BY <1>1, <1>2

LEMMA KnownTyped ==
  ASSUME NEW o \in Options
  PROVE  KnownResident(o) \in Nat
<1>1. o.context \in Nat \ {0} /\ o.context <= o.context
  BY DEF Options
<1>2. CacheTarget(o) \in Nat /\ CacheDraft(o) \in Nat /\ Matrix(o) \in Nat /\ Conv(o) \in Nat
  BY <1>1, CacheGrows, RecurrentStays
<1> QED
  BY <1>2 DEF KnownResident

\* A staged window is no smaller than the pool it stands in for.
LEMMA StagedHoldsPool ==
  ASSUME NEW context \in Nat \ {0}
  PROVE  /\ FallbackPool(context) \in Nat /\ \A staging \in 0..1 : StagingCeiling(context, staging) \in Nat
         /\ FallbackPool(context) <= StagingCeiling(context, 1)
<1> DEFINE few == Pages(context)
           many == RoundedPages(few)
<1>1. few \in Nat /\ TokensAlloc(context) = few * PageSize /\ PageSize \in Nat
  BY PageAssumption, ReservedIsEnough
<1>2. many \in Nat /\ few <= many
  BY <1>1, RoundedUp
<1>3. Values \in Nat
  BY GeometryTyped, ProductOfNaturals DEF Values
<1> HIDE DEF few, many
<1>4. few * PageSize \in Nat /\ many * PageSize \in Nat /\ few * PageSize <= many * PageSize
  BY <1>1, <1>2, ProductOfNaturals, ProductGrows
<1>5. /\ few * PageSize * Values \in Nat /\ many * PageSize * Values \in Nat
      /\ few * PageSize * Values <= many * PageSize * Values
  BY <1>3, <1>4, ProductOfNaturals, ProductGrows
<1>6. /\ FallbackPool(context) = few * PageSize * Values * 4
      /\ StagingCeiling(context, 1) = many * PageSize * Values * 4
      /\ StagingCeiling(context, 0) = 0
  BY <1>1 DEF FallbackPool, StagingCeiling, few, many
<1>7. \A staging \in 0..1 : staging = 0 \/ staging = 1
  OBVIOUS
<1> QED
  BY <1>5, <1>6, <1>7

\* What the two planners report of one inventory are numbers.
LEMMA PlansTyped ==
  ASSUME NEW csv, Priced(csv), NEW o \in Options, NEW vision \in BOOLEAN, NEW staging \in 0..1
  PROVE  /\ Scenario(csv, o, vision, staging) \in Ledger
         /\ Manifest(csv) => ResidencyPlan(csv, o, vision) \in Residency
<1>1. o.context \in Nat \ {0}
  BY DEF Options
<1>2. Disk(csv, o.mtp, vision) \in Int /\ CpuEmbedding(csv) \in Int /\ KnownResident(o) \in Int
  BY DiskTyped, CpuEmbeddingTyped, KnownTyped
<1>3. \A components : Reconstructed(csv, components) \in Int
  BY ReconstructedTyped
<1>4. FallbackPool(o.context) \in Int /\ StagingCeiling(o.context, staging) \in Int
  BY <1>1, StagedHoldsPool
<1>5. \A m, n \in Int : m - n \in Int /\ m + n \in Int
  OBVIOUS
<1>6. Scenario(csv, o, vision, staging) \in Ledger
  BY <1>2, <1>3, <1>4, <1>5 DEF Scenario, Ledger
<1>7. Manifest(csv) => ResidencyPlan(csv, o, vision) \in Residency
  <2>1. o.mtp \in BOOLEAN
    BY DEF Options
  <2>2. Manifest(csv) => Weights(csv, o.mtp, vision) = Disk(csv, o.mtp, vision)
    BY <2>1, WeightsAre
  <2> QED
    BY <1>2, <1>5, <2>2 DEF ResidencyPlan, Residency
<1> QED
  BY <1>6, <1>7

\* Hence they report the same payload, and up to the embedding the same resident
\* bytes.
LEMMA PlansAgree ==
  ASSUME NEW csv, Priced(csv), Manifest(csv),
         NEW o \in Options, NEW vision \in BOOLEAN, NEW staging \in 0..1
  PROVE  LET ledger == Scenario(csv, o, vision, staging)
             residency == ResidencyPlan(csv, o, vision)
         IN  /\ ledger.disk = residency.weights
             /\ ledger.optimistic + CpuEmbedding(csv) = residency.optimistic
             /\ staging = 1 => ledger.staging >= ledger.fallback
<1>1. o.context \in Nat \ {0}
  BY DEF Options
<1>2. Disk(csv, o.mtp, vision) \in Int /\ CpuEmbedding(csv) \in Int /\ KnownResident(o) \in Int
  BY DiskTyped, CpuEmbeddingTyped, KnownTyped
<1>3. /\ Scenario(csv, o, vision, staging).optimistic
           = Disk(csv, o.mtp, vision) - CpuEmbedding(csv) + KnownResident(o)
      /\ Scenario(csv, o, vision, staging).disk = Disk(csv, o.mtp, vision)
      /\ Scenario(csv, o, vision, staging).staging = StagingCeiling(o.context, staging)
      /\ Scenario(csv, o, vision, staging).fallback = FallbackPool(o.context)
  BY DEF Scenario
<1>4. /\ ResidencyPlan(csv, o, vision).weights = Disk(csv, o.mtp, vision)
      /\ ResidencyPlan(csv, o, vision).optimistic = Disk(csv, o.mtp, vision) + KnownResident(o)
  <2>1. o.mtp \in BOOLEAN
    BY DEF Options
  <2>2. Weights(csv, o.mtp, vision) = Disk(csv, o.mtp, vision)
    BY <2>1, WeightsAre
  <2> QED
    BY <2>2 DEF ResidencyPlan
<1>5. \A d, c, k \in Int : (d - c + k) + c = d + k
  OBVIOUS
<1>6. staging = 1 => StagingCeiling(o.context, staging) >= FallbackPool(o.context)
  <2>1. /\ FallbackPool(o.context) \in Nat /\ StagingCeiling(o.context, 1) \in Nat
        /\ FallbackPool(o.context) <= StagingCeiling(o.context, 1)
    BY <1>1, StagedHoldsPool
  <2> QED
    BY <2>1
<1> QED
  BY <1>2, <1>3, <1>4, <1>5, <1>6

\* A profile the preflight accepts is accepted with any smaller context and any
\* lower floor on the same card.
THEOREM AcceptedBelow ==
  ASSUME NEW csv, NEW profile \in [context : Nat \ {0}, nominal_gpu : Nat \ {0}, floor : Nat],
         NEW other \in [context : Nat \ {0}, nominal_gpu : Nat \ {0}, floor : Nat],
         Priced(csv),
         other.context <= profile.context, other.floor <= profile.floor,
         other.nominal_gpu = profile.nominal_gpu,
         ProfileAccepted(csv, profile)
  PROVE  ProfileAccepted(csv, other)
<1> DEFINE o == ProfileOptions(other.context)
           l == ProfileOptions(profile.context)
           gpu == Disk(csv, TRUE, FALSE) - CpuEmbedding(csv)
<1>1. o \in Options /\ l = [o EXCEPT !.context = profile.context] /\ o.context = other.context
  BY DEF ProfileOptions, Options
<1>2. KnownResident(o) \in Nat /\ KnownResident(l) \in Nat /\ KnownResident(o) <= KnownResident(l)
  <2>1. /\ CacheTarget(o) \in Nat /\ CacheTarget(l) \in Nat /\ CacheTarget(o) <= CacheTarget(l)
        /\ CacheDraft(o) \in Nat /\ CacheDraft(l) \in Nat /\ CacheDraft(o) <= CacheDraft(l)
    BY <1>1, CacheGrows
  <2>2. Matrix(o) \in Nat /\ Matrix(l) = Matrix(o) /\ Conv(o) \in Nat /\ Conv(l) = Conv(o)
    BY <1>1, RecurrentStays
  <2> HIDE DEF o, l
  <2> QED
    BY <2>1, <2>2 DEF KnownResident
<1>3. /\ Scenario(csv, o, FALSE, 0).optimistic = gpu + KnownResident(o)
      /\ Scenario(csv, l, FALSE, 0).optimistic = gpu + KnownResident(l)
  <2>1. o.mtp = TRUE /\ l.mtp = TRUE
    BY DEF ProfileOptions
  <2> HIDE DEF o, l
  <2> QED
    BY <2>1 DEF Scenario
<1>4. MIB \in Nat /\ other.floor * MIB <= profile.floor * MIB
  BY PageAssumption, ProductGrows
<1>5. profile.floor * MIB \in Nat /\ other.floor * MIB \in Nat /\ profile.nominal_gpu * MIB \in Nat
  BY <1>4, ProductOfNaturals
<1>6. /\ Unbudgeted(csv, profile) = profile.nominal_gpu * MIB - (gpu + KnownResident(l))
      /\ Unbudgeted(csv, other) = profile.nominal_gpu * MIB - (gpu + KnownResident(o))
  BY <1>3 DEF Unbudgeted
<1>7. Unbudgeted(csv, profile) >= profile.floor * MIB /\ Inventoried(csv)
  BY DEF ProfileAccepted
<1>8. gpu \in Int /\ other.nominal_gpu * MIB = profile.nominal_gpu * MIB
  <2>1. \A m, n \in Nat : m - n \in Int
    OBVIOUS
  <2>2. gpu \in Int
    BY <2>1, DiskTyped, CpuEmbeddingTyped
  <2> QED
    BY <2>2
<1>9. Unbudgeted(csv, other) >= other.floor * MIB
  <2> DEFINE card == profile.nominal_gpu * MIB
             high == profile.floor * MIB
             low == other.floor * MIB
  <2>1. card - (gpu + KnownResident(l)) >= high /\ low <= high
    BY <1>4, <1>6, <1>7
  <2>2. card \in Nat /\ high \in Nat /\ low \in Nat
    BY <1>5
  <2>3. Unbudgeted(csv, other) = card - (gpu + KnownResident(o))
    BY <1>6, <1>8
  <2> HIDE DEF o, l, gpu, card, high, low
  <2>4. card - (gpu + KnownResident(o)) >= low
    BY <1>2, <1>8, <2>1, <2>2
  <2> USE DEF low
  <2> QED
    BY <2>3, <2>4
<1> QED
  BY <1>7, <1>9 DEF ProfileAccepted

-------------------------------------------------------------------------------
(* Speculative sampling.                                                   *)

\* Both orders of p[d] and q[d], as bare numbers.
LEMMA ExtraBelow ==
  ASSUME NEW w \in Nat, NEW a \in 0..w, NEW b \in 0..w
  PROVE  /\ 0 <= (w * Least(b, a)) - (a * b)
         /\ (w * Least(b, a)) - (a * b) <= b * (w - a)
<1>1. CASE b <= a
  <2>1. Least(b, a) = b
    BY <1>1 DEF Least
  <2>2. b * (w - a) \in Nat
    BY ProductOfNaturals
  <2>3. b * (w - a) = (w * b) - (a * b)
    OBVIOUS
  <2> QED
    BY <2>1, <2>2, <2>3
<1>2. CASE ~(b <= a)
  <2>1. Least(b, a) = a
    BY <1>2 DEF Least
  <2>2. a * (w - b) \in Nat /\ w * (b - a) \in Nat
    BY <1>2, ProductOfNaturals
  <2>3. /\ a * (w - b) = (w * a) - (a * b)
        /\ b * (w - a) = (w * b) - (a * b)
        /\ w * (b - a) = (w * b) - (w * a)
    OBVIOUS
  <2> QED
    BY <2>1, <2>2, <2>3
<1> QED
  BY <1>1, <1>2

\* The coupled form of acceptance, whatever target and draft are.
THEOREM CoupledLawHolds ==
  ASSUME NEW p \in [Tokens -> 0..Whole], NEW q \in [Tokens -> 0..Whole]
  PROVE  CoupledLaw(p, q)
<1> SUFFICES ASSUME NEW d \in Tokens, q[d] > 0
             PROVE  LET a == Acceptance(p, q, d)   extra == Extra(p, q, d) IN
                    /\ 0 <= extra.num /\ extra.num <= extra.den
                    /\ a.num * Whole * extra.den
                         = a.den * ((p[d] * extra.den) + ((Whole - p[d]) * extra.num))
  BY DEF CoupledLaw
<1> DEFINE m == Least(q[d], p[d])
<1>1. p[d] \in 0..Whole /\ q[d] \in 0..Whole /\ Whole \in Nat
  BY WholeAssumption
<1>2. m \in 0..Whole
  BY <1>1 DEF Least
<1>3. CASE p[d] = Whole
  <2>1. m = q[d]
    BY <1>1, <1>3 DEF Least
  <2> QED
    BY <1>1, <1>3, <2>1 DEF Acceptance, Extra
<1>4. CASE p[d] # Whole
  <2>1. /\ Extra(p, q, d).num = (Whole * m) - (p[d] * q[d])
        /\ Extra(p, q, d).den = q[d] * (Whole - p[d])
    BY <1>4 DEF Extra
  <2>2. 0 <= Extra(p, q, d).num /\ Extra(p, q, d).num <= Extra(p, q, d).den
    BY <1>1, <2>1, ExtraBelow
  <2>3. \A w, a, b, l \in Int :
          l * w * (b * (w - a)) = b * ((a * (b * (w - a))) + ((w - a) * ((w * l) - (a * b))))
    OBVIOUS
  <2>4. m * Whole * (q[d] * (Whole - p[d]))
          = q[d] * ((p[d] * (q[d] * (Whole - p[d])))
                      + ((Whole - p[d]) * ((Whole * m) - (p[d] * q[d]))))
    BY <1>1, <1>2, <2>3
  <2>5. Acceptance(p, q, d).num = m /\ Acceptance(p, q, d).den = q[d]
    BY DEF Acceptance
  <2> QED
    BY <2>1, <2>2, <2>4, <2>5
<1> QED
  BY <1>3, <1>4

\* When a proposal can be rejected, and the residual's sum is the probability of
\* that, the output has the law of the target.
LEMMA LawAfterRejection ==
  ASSUME NEW p \in [Tokens -> 0..Whole], NEW q \in [Tokens -> 0..Whole],
         Rejected(p, q) \in Nat \ {0}, Total(Residual(p, q)) = Rejected(p, q)
  PROVE  TargetLaw(p, q)
<1> SUFFICES ASSUME NEW t \in Tokens PROVE Output(p, q)[t] = p[t] * Norm(p, q)
  BY DEF TargetLaw
<1> DEFINE r == Rejected(p, q)
<1>1. p[t] \in 0..Whole /\ q[t] \in 0..Whole /\ Whole \in Nat /\ r \in Nat
  BY WholeAssumption
<1>2. Norm(p, q) = r
  BY DEF Norm
<1>3. Output(p, q)[t] = (Accepted(p, q)[t] * r) + (r * Residual(p, q)[t])
  BY <1>2 DEF Output
<1>4. Accepted(p, q)[t] + Residual(p, q)[t] = p[t]
  BY <1>1 DEF Accepted, Residual, Least
<1>5. Accepted(p, q)[t] \in Nat /\ Residual(p, q)[t] \in Nat
  BY <1>1 DEF Accepted, Residual, Least
<1>6. \A x, y, z \in Nat : (x * z) + (z * y) = (x + y) * z
  OBVIOUS
<1> QED
  BY <1>1, <1>2, <1>3, <1>4, <1>5, <1>6

\* What is accepted and what is left of the target add up to the target: the
\* assertion of one_position_output.
LEMMA ResidualIsRejected ==
  ASSUME NEW p \in Distribution, NEW q \in Distribution
  PROVE  /\ Rejected(p, q) = Total(Residual(p, q))
         /\ Rejected(p, q) \in Nat
         /\ \A t \in Tokens : Residual(p, q)[t] <= Rejected(p, q)
<1> DEFINE a == Accepted(p, q)   r == Residual(p, q)
<1>1. /\ \A t \in Tokens : p[t] \in 0..Whole /\ q[t] \in 0..Whole
      /\ Total(p) = Whole /\ Whole \in Nat
  BY WholeAssumption DEF Distribution
<1>2. \A t \in Tokens : a[t] \in Nat /\ r[t] \in Nat /\ p[t] = a[t] + r[t]
  BY <1>1 DEF Accepted, Residual, Least
<1> HIDE DEF a, r
<1>3. Total(p) = Total(a) + Total(r)
  <2>1. \A t \in Tokens : a[t] \in Int /\ r[t] \in Int /\ p[t] = a[t] + r[t]
    BY <1>2
  <2> QED
    BY <2>1, TokensAssumption, SumOfSums DEF Total
<1>4. Total(a) \in Nat /\ Total(r) \in Nat /\ \A t \in Tokens : r[t] <= Total(r)
  BY <1>2, TokensAssumption, SumOfNaturals DEF Total
<1>5. Whole - Total(a) = Total(r)
  BY <1>1, <1>3, <1>4
<1> QED
  BY <1>4, <1>5 DEF Rejected, a, r

\* Speculation does not change the law of the output, for every target and draft.
THEOREM TargetLawHolds ==
  ASSUME NEW p \in Distribution, NEW q \in Distribution
  PROVE  TargetLaw(p, q)
<1>1. p \in [Tokens -> 0..Whole] /\ q \in [Tokens -> 0..Whole] /\ Whole \in Nat
  BY WholeAssumption DEF Distribution
<1>2. CASE Rejected(p, q) # 0
  <2>1. Rejected(p, q) \in Nat \ {0} /\ Total(Residual(p, q)) = Rejected(p, q)
    BY <1>2, ResidualIsRejected
  <2> QED
    BY <1>1, <2>1, LawAfterRejection
<1>3. CASE Rejected(p, q) = 0
  <2> SUFFICES ASSUME NEW t \in Tokens PROVE Output(p, q)[t] = p[t] * Norm(p, q)
    BY DEF TargetLaw
  <2>1. Residual(p, q)[t] <= 0
    BY <1>3, ResidualIsRejected
  <2>2. Accepted(p, q)[t] = p[t]
    BY <1>1, <2>1 DEF Accepted, Residual, Least
  <2>3. Output(p, q)[t] = p[t] /\ Norm(p, q) = 1
    BY <1>3, <2>2 DEF Output, Norm
  <2> QED
    BY <1>1, <2>3
<1> QED
  BY <1>2, <1>3
===============================================================================
