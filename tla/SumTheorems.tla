----------------------------- MODULE SumTheorems -----------------------------
(***************************************************************************)
(* Facts about SumFunctionOnSet(f, S), the sum of f[x] over the elements x *)
(* of a finite set S, which the proofs about balances and amounts need.    *)
(* The community module Functions defines it by a fold, a recursive        *)
(* function on the subsets of S that takes one element out at a time.      *)
(*                                                                         *)
(* The induction is over sets in place of predicates: what is shown of     *)
(* every number, or of every subset of a finite set, is membership in a    *)
(* set, so that no theorem with an operator for parameter is needed.       *)
(***************************************************************************)
EXTENDS Integers, Sequences, FiniteSets, Functions, FiniteSetTheorems, WellFoundedInduction, TLAPS

\* A nonempty set of natural numbers has a least one.
LEMMA LeastNatural ==
    ASSUME NEW S, S \subseteq Nat, S # {}
    PROVE  \E x \in S : \A y \in S : x <= y
<1>1. PICK R : IsWellFoundedOn(R, Nat) /\ \A x, y \in Nat : y < x => <<y, x>> \in R
  <2>1. \A x, y \in Nat : y < x => <<y, x>> \in OpToRel(<, Nat)
    BY Zenon DEF OpToRel
  <2>2. QED
    BY <2>1, NatLessThanWellFounded, Zenon
<1>2. PICK x \in S : \A y \in S : <<y, x>> \notin R
  BY <1>1, WFMin, Zenon
<1>3. \A y \in S : ~ (y < x)
  BY <1>1, <1>2, Zenon
<1>4. \A y \in S : x <= y
  BY <1>3, SMT
<1>5. QED
  BY <1>4

\* Induction over the natural numbers, for a set in place of a predicate.
LEMMA InductionOnSet ==
    ASSUME NEW S, S \subseteq Nat, 0 \in S, \A n \in S : n + 1 \in S
    PROVE  S = Nat
<1>1. SUFFICES ASSUME Nat \ S # {} PROVE FALSE
  OBVIOUS
<1>2. PICK x \in Nat \ S : \A y \in Nat \ S : x <= y
  BY <1>1, LeastNatural
<1>3. x - 1 \in Nat \ S
  BY <1>2
<1>4. QED
  BY <1>2, <1>3


\* Induction over the subsets of a finite set, likewise.
LEMMA InductionOnSubsets ==
    ASSUME NEW S, IsFiniteSet(S), NEW Q,
           \A T \in SUBSET S : (\A x \in T : T \ {x} \in Q) => T \in Q
    PROVE  \A T \in SUBSET S : T \in Q
<1> DEFINE N == {n \in Nat : \A T \in SUBSET S : Cardinality(T) = n => T \in Q}
<1>1. \A T \in SUBSET S : IsFiniteSet(T) /\ Cardinality(T) \in Nat
  BY FS_Subset, FS_CardinalityType
<1>2. 0 \in N
  <2>1. SUFFICES ASSUME NEW T \in SUBSET S, Cardinality(T) = 0 PROVE T \in Q
    OBVIOUS
  <2>2. T = {}
    BY <1>1, <2>1, FS_EmptySet
  <2>3. QED
    BY <2>2
<1>3. ASSUME NEW n \in N PROVE n + 1 \in N
  <2>1. n \in Nat /\ \A T \in SUBSET S : Cardinality(T) = n => T \in Q
    BY <1>3
  <2>2. SUFFICES ASSUME NEW T \in SUBSET S, Cardinality(T) = n + 1 PROVE T \in Q
    BY <2>1
  <2>3. ASSUME NEW x \in T PROVE T \ {x} \in Q
    <3>1. Cardinality(T \ {x}) = n
      BY <1>1, <2>1, <2>2, <2>3, FS_RemoveElement
    <3>2. T \ {x} \in SUBSET S
      OBVIOUS
    <3>3. QED
      BY <2>1, <3>1, <3>2
  <2>4. QED
    BY <2>3
<1>4. N = Nat
  <2>1. N \subseteq Nat
    OBVIOUS
  <2> HIDE DEF N
  <2>2. QED
    BY <1>2, <1>3, <2>1, InductionOnSet
<1>5. QED
  BY <1>1, <1>4

-----------------------------------------------------------------------------
\* The element that the fold takes out of a set first.
FirstTaken(s) == CHOOSE x \in s : TRUE

\* g is the recursive function of the fold, on the subsets of S.
Folds(g, f, S) ==
    g = [s \in SUBSET S |-> IF s = {} THEN 0 ELSE f[FirstTaken(s)] + g[s \ {FirstTaken(s)}]]

\* The same up to sets of n elements.
FoldsUpTo(g, f, S, n) ==
    \A s \in SUBSET S : Cardinality(s) <= n =>
        g[s] = IF s = {} THEN 0 ELSE f[FirstTaken(s)] + g[s \ {FirstTaken(s)}]

\* The sum is the value at S of some such function.
LEMMA SumIsAFold ==
    ASSUME NEW f, NEW S
    PROVE  SumFunctionOnSet(f, S) = (CHOOSE g : Folds(g, f, S))[S]
  BY Zenon DEF SumFunctionOnSet, FoldFunctionOnSet, MapThenFoldSet, Folds, FirstTaken

\* It is an element of the set.
LEMMA FirstIsIn ==
    ASSUME NEW s, s # {}
    PROVE  FirstTaken(s) \in s
  BY DEF FirstTaken

\* The recursion has a solution.
LEMMA FoldExists ==
    ASSUME NEW f, NEW S, IsFiniteSet(S)
    PROVE  \E g : Folds(g, f, S)
<1> DEFINE N == {n \in Nat : \E g : g = [s \in SUBSET S |-> g[s]] /\ FoldsUpTo(g, f, S, n)}
<1>1. \A T \in SUBSET S : IsFiniteSet(T) /\ Cardinality(T) \in Nat
  BY FS_Subset, FS_CardinalityType
<1>2. 0 \in N
  <2> DEFINE g == [s \in SUBSET S |-> 0]
  <2>1. \A s \in SUBSET S : Cardinality(s) <= 0 => s = {}
    BY <1>1, FS_EmptySet
  <2>2. FoldsUpTo(g, f, S, 0)
    BY <2>1 DEF FoldsUpTo
  <2>3. g = [s \in SUBSET S |-> g[s]]
    OBVIOUS
  <2>4. QED
    BY <2>2, <2>3
<1>3. ASSUME NEW n \in N PROVE n + 1 \in N
  <2>1. PICK g : g = [s \in SUBSET S |-> g[s]] /\ FoldsUpTo(g, f, S, n)
    BY <1>3
  <2> DEFINE h == [s \in SUBSET S |-> IF s = {} THEN 0 ELSE f[FirstTaken(s)] + g[s \ {FirstTaken(s)}]]
  <2>2. ASSUME NEW s \in SUBSET S, Cardinality(s) <= n PROVE h[s] = g[s]
    BY <2>1, <2>2 DEF FoldsUpTo
  <2>3. ASSUME NEW s \in SUBSET S, Cardinality(s) <= n + 1, s # {}
        PROVE  h[s \ {FirstTaken(s)}] = g[s \ {FirstTaken(s)}]
    <3>1. FirstTaken(s) \in s
      BY <2>3, FirstIsIn
    <3>2. Cardinality(s \ {FirstTaken(s)}) = Cardinality(s) - 1
      BY <1>1, <3>1, FS_RemoveElement
    <3>3. Cardinality(s \ {FirstTaken(s)}) <= n
      BY <1>1, <2>3, <3>2
    <3>4. s \ {FirstTaken(s)} \in SUBSET S
      OBVIOUS
    <3>5. QED
      BY <2>2, <3>3, <3>4
  <2>4. \A s \in SUBSET S : h[s] = IF s = {} THEN 0 ELSE f[FirstTaken(s)] + g[s \ {FirstTaken(s)}]
    OBVIOUS
  <2>5. h = [s \in SUBSET S |-> h[s]]
    OBVIOUS
  <2> HIDE DEF h
  <2>6. FoldsUpTo(h, f, S, n + 1)
    BY <2>3, <2>4 DEF FoldsUpTo
  <2>7. QED
    BY <2>5, <2>6
<1>4. N = Nat
  <2>1. N \subseteq Nat
    OBVIOUS
  <2> HIDE DEF N
  <2>2. QED
    BY <1>2, <1>3, <2>1, InductionOnSet
<1>5. Cardinality(S) \in Nat
  BY FS_CardinalityType
<1>6. PICK g : g = [s \in SUBSET S |-> g[s]] /\ FoldsUpTo(g, f, S, Cardinality(S))
  BY <1>4, <1>5
<1>7. \A s \in SUBSET S : Cardinality(s) <= Cardinality(S)
  BY FS_Subset
<1>8. \A s \in SUBSET S : g[s] = IF s = {} THEN 0 ELSE f[FirstTaken(s)] + g[s \ {FirstTaken(s)}]
  BY <1>6, <1>7 DEF FoldsUpTo
<1>9. g = [s \in SUBSET S |-> IF s = {} THEN 0 ELSE f[FirstTaken(s)] + g[s \ {FirstTaken(s)}]]
  BY <1>6, <1>8
<1>10. QED
  BY <1>9 DEF Folds

\* Two solutions agree where both are defined.
LEMMA FoldIsUnique ==
    ASSUME NEW f, NEW S, IsFiniteSet(S), NEW T \in SUBSET S,
           NEW g, Folds(g, f, S), NEW h, Folds(h, f, T)
    PROVE  \A s \in SUBSET T : g[s] = h[s]
<1> DEFINE Q == {s \in SUBSET T : g[s] = h[s]}
<1>1. \A s \in SUBSET T :
         /\ g[s] = IF s = {} THEN 0 ELSE f[FirstTaken(s)] + g[s \ {FirstTaken(s)}]
         /\ h[s] = IF s = {} THEN 0 ELSE f[FirstTaken(s)] + h[s \ {FirstTaken(s)}]
  <2>1. \A s \in SUBSET S : g[s] = IF s = {} THEN 0 ELSE f[FirstTaken(s)] + g[s \ {FirstTaken(s)}]
    BY DEF Folds
  <2>2. \A s \in SUBSET T : h[s] = IF s = {} THEN 0 ELSE f[FirstTaken(s)] + h[s \ {FirstTaken(s)}]
    BY DEF Folds
  <2>3. QED
    BY <2>1, <2>2
<1>2. ASSUME NEW s \in SUBSET T, \A x \in s : s \ {x} \in Q
      PROVE  s \in Q
  <2>1. CASE s = {}
    BY <1>1, <2>1
  <2>2. CASE s # {}
    <3>1. g[s \ {FirstTaken(s)}] = h[s \ {FirstTaken(s)}]
      BY <1>2, <2>2, FirstIsIn
    <3>2. QED
      BY <1>1, <2>2, <3>1
  <2>3. QED
    BY <2>1, <2>2
<1>3. IsFiniteSet(T)
  BY FS_Subset
<1> HIDE DEF Q
<1>4. \A s \in SUBSET T : s \in Q
  BY <1>2, <1>3, InductionOnSubsets
<1>5. QED
  BY <1>4 DEF Q

-----------------------------------------------------------------------------
\* Nothing adds up to zero.
LEMMA SumEmpty ==
    ASSUME NEW f
    PROVE  SumFunctionOnSet(f, {}) = 0
<1>1. PICK g : Folds(g, f, {})
  BY FoldExists, FS_EmptySet
<1>2. Folds(CHOOSE h : Folds(h, f, {}), f, {})
  BY <1>1, Zenon
<1> DEFINE c == CHOOSE h : Folds(h, f, {})
<1>3. Folds(c, f, {}) /\ SumFunctionOnSet(f, {}) = c[{}]
  BY <1>2, SumIsAFold, Zenon
<1> HIDE DEF c
<1>4. QED
  BY <1>3 DEF Folds

\* The equation of the fold.
LEMMA SumFirst ==
    ASSUME NEW f, NEW S, IsFiniteSet(S), S # {}
    PROVE  SumFunctionOnSet(f, S) = f[FirstTaken(S)] + SumFunctionOnSet(f, S \ {FirstTaken(S)})
<1> DEFINE T == S \ {FirstTaken(S)}
           g == CHOOSE h : Folds(h, f, S)
           k == CHOOSE h : Folds(h, f, T)
<1>1. IsFiniteSet(T) /\ T \in SUBSET S
  BY FS_Subset
<1>2. Folds(g, f, S)
  <2>1. \E h : Folds(h, f, S)
    BY FoldExists
  <2>2. QED
    BY <2>1, Zenon
<1>3. Folds(k, f, T)
  <2>1. \E h : Folds(h, f, T)
    BY <1>1, FoldExists
  <2>2. QED
    BY <2>1, Zenon
<1>4. SumFunctionOnSet(f, S) = g[S] /\ SumFunctionOnSet(f, T) = k[T]
  BY SumIsAFold, Zenon
<1> HIDE DEF g, k
<1>5. g[T] = k[T]
  BY <1>1, <1>2, <1>3, FoldIsUnique
<1>6. g[S] = f[FirstTaken(S)] + g[T]
  BY <1>2 DEF Folds
<1>7. QED
  BY <1>4, <1>5, <1>6

\* A sum of integers is an integer.
LEMMA SumInt ==
    ASSUME NEW f, NEW S, IsFiniteSet(S), \A x \in S : f[x] \in Int
    PROVE  SumFunctionOnSet(f, S) \in Int
<1> DEFINE Q == {T \in SUBSET S : SumFunctionOnSet(f, T) \in Int}
<1>1. ASSUME NEW T \in SUBSET S, \A x \in T : T \ {x} \in Q
      PROVE  T \in Q
  <2>1. CASE T = {}
    BY <2>1, SumEmpty
  <2>2. CASE T # {}
    <3>1. FirstTaken(T) \in T /\ IsFiniteSet(T)
      BY <2>2, FirstIsIn, FS_Subset
    <3>2. SumFunctionOnSet(f, T) = f[FirstTaken(T)] + SumFunctionOnSet(f, T \ {FirstTaken(T)})
      BY <2>2, <3>1, SumFirst
    <3>3. SumFunctionOnSet(f, T \ {FirstTaken(T)}) \in Int
      BY <1>1, <3>1
    <3>4. f[FirstTaken(T)] \in Int
      BY <3>1
    <3>5. QED
      BY <3>2, <3>3, <3>4
  <2>3. QED
    BY <2>1, <2>2
<1> HIDE DEF Q
<1>2. \A T \in SUBSET S : T \in Q
  BY <1>1, InductionOnSubsets
<1>3. QED
  BY <1>2 DEF Q

\* A sum of natural numbers is one.
LEMMA SumNat ==
    ASSUME NEW f, NEW S, IsFiniteSet(S), \A x \in S : f[x] \in Nat
    PROVE  SumFunctionOnSet(f, S) \in Nat
<1> DEFINE Q == {T \in SUBSET S : SumFunctionOnSet(f, T) \in Nat}
<1>1. ASSUME NEW T \in SUBSET S, \A x \in T : T \ {x} \in Q
      PROVE  T \in Q
  <2>1. CASE T = {}
    BY <2>1, SumEmpty
  <2>2. CASE T # {}
    <3>1. FirstTaken(T) \in T /\ IsFiniteSet(T)
      BY <2>2, FirstIsIn, FS_Subset
    <3>2. SumFunctionOnSet(f, T) = f[FirstTaken(T)] + SumFunctionOnSet(f, T \ {FirstTaken(T)})
      BY <2>2, <3>1, SumFirst
    <3>3. SumFunctionOnSet(f, T \ {FirstTaken(T)}) \in Nat
      BY <1>1, <3>1
    <3>4. f[FirstTaken(T)] \in Nat
      BY <3>1
    <3>5. QED
      BY <3>2, <3>3, <3>4
  <2>3. QED
    BY <2>1, <2>2
<1> HIDE DEF Q
<1>2. \A T \in SUBSET S : T \in Q
  BY <1>1, InductionOnSubsets
<1>3. QED
  BY <1>2 DEF Q

\* Any element may be taken out first.
LEMMA SumRemove ==
    ASSUME NEW f, NEW S, IsFiniteSet(S), \A x \in S : f[x] \in Int, NEW y \in S
    PROVE  SumFunctionOnSet(f, S) = f[y] + SumFunctionOnSet(f, S \ {y})
<1> DEFINE Sum(T) == SumFunctionOnSet(f, T)
           Q == {T \in SUBSET S : \A x \in T : Sum(T) = f[x] + Sum(T \ {x})}
<1>0. \A T \in SUBSET S : IsFiniteSet(T) /\ Sum(T) \in Int
  BY FS_Subset, SumInt
<1>1. ASSUME NEW T \in SUBSET S, \A x \in T : T \ {x} \in Q
      PROVE  T \in Q
  <2> SUFFICES ASSUME NEW x \in T PROVE Sum(T) = f[x] + Sum(T \ {x})
    OBVIOUS
  <2> DEFINE z == FirstTaken(T)
  <2>1. z \in T
    BY FirstIsIn
  <2>2. Sum(T) = f[z] + Sum(T \ {z})
    BY <1>0, SumFirst
  <2> HIDE DEF z
  <2>3. CASE x = z
    BY <2>2, <2>3
  <2>4. CASE x # z
    <3>1. Sum(T \ {z}) = f[x] + Sum((T \ {z}) \ {x})
      BY <1>1, <2>1, <2>4
    <3>2. Sum(T \ {x}) = f[z] + Sum((T \ {x}) \ {z})
      BY <1>1, <2>1, <2>4
    <3>3. (T \ {z}) \ {x} = (T \ {x}) \ {z}
      OBVIOUS
    <3> DEFINE rest == Sum((T \ {x}) \ {z})
    <3>4. rest \in Int /\ f[x] \in Int /\ f[z] \in Int
      BY <1>0, <2>1
    <3>5. Sum(T \ {z}) = f[x] + rest /\ Sum(T \ {x}) = f[z] + rest
      BY <3>1, <3>2, <3>3
    <3> HIDE DEF rest, Sum
    <3>6. QED
      BY <2>2, <3>4, <3>5
  <2>5. QED
    BY <2>3, <2>4
<1>2. \A T \in SUBSET S : T \in Q
  <2> HIDE DEF Q
  <2>1. QED
    BY <1>1, InductionOnSubsets
<1>3. QED
  BY <1>2

\* An element is added.
LEMMA SumAdd ==
    ASSUME NEW f, NEW S, IsFiniteSet(S), \A x \in S : f[x] \in Int,
           NEW y, y \notin S, f[y] \in Int
    PROVE  SumFunctionOnSet(f, S \cup {y}) = f[y] + SumFunctionOnSet(f, S)
<1>1. IsFiniteSet(S \cup {y})
  BY FS_AddElement
<1>2. (S \cup {y}) \ {y} = S
  OBVIOUS
<1>3. SumFunctionOnSet(f, S \cup {y}) = f[y] + SumFunctionOnSet(f, (S \cup {y}) \ {y})
  BY <1>1, SumRemove
<1>4. QED
  BY <1>2, <1>3

\* Functions that agree on a set have the same sum there.
LEMMA SumSame ==
    ASSUME NEW f, NEW g, NEW S, IsFiniteSet(S), \A x \in S : f[x] = g[x]
    PROVE  SumFunctionOnSet(f, S) = SumFunctionOnSet(g, S)
<1> DEFINE Q == {T \in SUBSET S : SumFunctionOnSet(f, T) = SumFunctionOnSet(g, T)}
<1>1. ASSUME NEW T \in SUBSET S, \A x \in T : T \ {x} \in Q
      PROVE  T \in Q
  <2>1. CASE T = {}
    BY <2>1, SumEmpty
  <2>2. CASE T # {}
    <3>1. FirstTaken(T) \in T /\ IsFiniteSet(T)
      BY <2>2, FirstIsIn, FS_Subset
    <3>2. /\ SumFunctionOnSet(f, T) = f[FirstTaken(T)] + SumFunctionOnSet(f, T \ {FirstTaken(T)})
          /\ SumFunctionOnSet(g, T) = g[FirstTaken(T)] + SumFunctionOnSet(g, T \ {FirstTaken(T)})
      BY <2>2, <3>1, SumFirst
    <3>3. SumFunctionOnSet(f, T \ {FirstTaken(T)}) = SumFunctionOnSet(g, T \ {FirstTaken(T)})
      BY <1>1, <3>1
    <3>4. f[FirstTaken(T)] = g[FirstTaken(T)]
      BY <3>1
    <3>5. QED
      BY <3>2, <3>3, <3>4
  <2>3. QED
    BY <2>1, <2>2
<1> HIDE DEF Q
<1>2. \A T \in SUBSET S : T \in Q
  BY <1>1, InductionOnSubsets
<1>3. QED
  BY <1>2 DEF Q

\* When one summand changes, so does the sum, by as much.
LEMMA SumChange ==
    ASSUME NEW f, NEW g, NEW S, IsFiniteSet(S), NEW y \in S,
           \A x \in S : f[x] \in Int, g[y] \in Int,
           \A x \in S \ {y} : g[x] = f[x]
    PROVE  SumFunctionOnSet(g, S) = SumFunctionOnSet(f, S) - f[y] + g[y]
<1>1. SumFunctionOnSet(f, S) = f[y] + SumFunctionOnSet(f, S \ {y})
  BY SumRemove
<1>2. SumFunctionOnSet(g, S) = g[y] + SumFunctionOnSet(g, S \ {y})
  BY SumRemove
<1>3. IsFiniteSet(S \ {y})
  BY FS_RemoveElement
<1>4. SumFunctionOnSet(f, S \ {y}) = SumFunctionOnSet(g, S \ {y})
  BY <1>3, SumSame
<1>5. SumFunctionOnSet(f, S \ {y}) \in Int
  BY <1>3, SumInt
<1>6. f[y] \in Int
  OBVIOUS
<1>7. QED
  BY <1>1, <1>2, <1>4, <1>5, <1>6

\* When one summand is raised, so is the sum.
LEMMA SumRaise ==
    ASSUME NEW S, IsFiniteSet(S), NEW f \in [S -> Nat], NEW y \in S, NEW r \in Int
    PROVE  SumFunctionOnSet([i \in S |-> f[i] + IF i = y THEN r ELSE 0], S)
           = SumFunctionOnSet(f, S) + r
<1> DEFINE g == [i \in S |-> f[i] + IF i = y THEN r ELSE 0]
<1>1. g[y] = f[y] + r /\ g[y] \in Int /\ f[y] \in Int
  OBVIOUS
<1>2. \A x \in S \ {y} : g[x] = f[x]
  OBVIOUS
<1>3. \A x \in S : f[x] \in Int
  OBVIOUS
<1>4. SumFunctionOnSet(f, S) \in Int
  BY <1>3, SumInt
<1> HIDE DEF g
<1>5. SumFunctionOnSet(g, S) = SumFunctionOnSet(f, S) - f[y] + g[y]
  BY <1>1, <1>2, <1>3, SumChange
<1>6. SumFunctionOnSet(g, S) = SumFunctionOnSet(f, S) + r
  BY <1>1, <1>4, <1>5
<1> QED
  BY <1>6 DEF g

\* A sum can be taken in two parts.
LEMMA SumSplit ==
    ASSUME NEW f, NEW S, IsFiniteSet(S), \A x \in S : f[x] \in Int, NEW T \in SUBSET S
    PROVE  SumFunctionOnSet(f, S) = SumFunctionOnSet(f, T) + SumFunctionOnSet(f, S \ T)
<1> DEFINE Sum(U) == SumFunctionOnSet(f, U)
           Q == {U \in SUBSET T : Sum(S) = Sum(U) + Sum(S \ U)}
<1>0. \A U \in SUBSET S : IsFiniteSet(U) /\ Sum(U) \in Int
  BY FS_Subset, SumInt
<1>1. ASSUME NEW U \in SUBSET T, \A x \in U : U \ {x} \in Q
      PROVE  U \in Q
  <2>1. CASE U = {}
    <3>1. S \ U = S
      BY <2>1
    <3>2. Sum(S) \in Int
      BY <1>0
    <3>3. QED
      BY <2>1, <3>1, <3>2, SumEmpty
  <2>2. CASE U # {}
    <3>1. PICK x \in U : TRUE
      BY <2>2
    <3>2. Sum(S) = Sum(U \ {x}) + Sum(S \ (U \ {x}))
      BY <1>1
    <3>3. Sum(U) = f[x] + Sum(U \ {x})
      BY <1>0, SumRemove
    <3>4. Sum(S \ (U \ {x})) = f[x] + Sum((S \ (U \ {x})) \ {x})
      BY <1>0, SumRemove
    <3>5. Sum(S \ (U \ {x})) = f[x] + Sum(S \ U)
      <4>1. (S \ (U \ {x})) \ {x} = S \ U
        OBVIOUS
      <4>2. QED
        BY <3>4, <4>1
    <3>6. Sum(U \ {x}) \in Int /\ Sum(S \ U) \in Int /\ f[x] \in Int
      BY <1>0
    <3>7. Sum(S) = Sum(U) + Sum(S \ U)
      <4> HIDE DEF Sum
      <4>1. QED
        BY <3>2, <3>3, <3>5, <3>6
    <3>8. QED
      BY <3>7
  <2>3. QED
    BY <2>1, <2>2
<1>2. IsFiniteSet(T)
  BY FS_Subset
<1>3. \A U \in SUBSET T : U \in Q
  <2> HIDE DEF Q
  <2>1. QED
    BY <1>1, <1>2, InductionOnSubsets
<1>4. QED
  BY <1>3

\* Zeros add up to zero.
LEMMA SumZero ==
    ASSUME NEW f, NEW S, IsFiniteSet(S), \A x \in S : f[x] = 0
    PROVE  SumFunctionOnSet(f, S) = 0
<1> DEFINE Q == {T \in SUBSET S : SumFunctionOnSet(f, T) = 0}
<1>1. ASSUME NEW T \in SUBSET S, \A x \in T : T \ {x} \in Q
      PROVE  T \in Q
  <2>1. CASE T = {}
    BY <2>1, SumEmpty
  <2>2. CASE T # {}
    <3>1. FirstTaken(T) \in T /\ IsFiniteSet(T)
      BY <2>2, FirstIsIn, FS_Subset
    <3>2. SumFunctionOnSet(f, T) = f[FirstTaken(T)] + SumFunctionOnSet(f, T \ {FirstTaken(T)})
      BY <2>2, <3>1, SumFirst
    <3>3. SumFunctionOnSet(f, T \ {FirstTaken(T)}) = 0 /\ f[FirstTaken(T)] = 0
      BY <1>1, <3>1
    <3>4. QED
      BY <3>2, <3>3
  <2>3. QED
    BY <2>1, <2>2
<1> HIDE DEF Q
<1>2. \A T \in SUBSET S : T \in Q
  BY <1>1, InductionOnSubsets
<1>3. QED
  BY <1>2 DEF Q

\* The sum of a sequence: none of the empty one.
LEMMA SumEmptySequence == SumFunction(<< >>) = 0
<1>1. DOMAIN << >> = {}
  OBVIOUS
<1> QED
  BY <1>1, SumEmpty DEF SumFunction

\* What is appended to a sequence of integers is added to its sum.
LEMMA SumAppend ==
    ASSUME NEW s \in Seq(Int), NEW x \in Int
    PROVE  SumFunction(s) \in Int /\ SumFunction(Append(s, x)) = SumFunction(s) + x
<1> DEFINE S == 1..Len(s)
           t == Append(s, x)
           y == Len(s) + 1
<1>1. DOMAIN s = S /\ IsFiniteSet(S) /\ (\A i \in S : s[i] \in Int)
  <2>1. Len(s) \in Nat
    OBVIOUS
  <2> QED
    BY <2>1, FS_Interval
<1>2. DOMAIN t = S \cup {y} /\ t[y] = x /\ (\A i \in S : t[i] = s[i]) /\ y \notin S
  OBVIOUS
<1> HIDE DEF S, t, y
<1>3. SumFunctionOnSet(t, S) = SumFunctionOnSet(s, S)
  BY <1>1, <1>2, SumSame
<1>4. SumFunctionOnSet(s, S) \in Int
  BY <1>1, SumInt
<1>5. SumFunctionOnSet(t, S \cup {y}) = t[y] + SumFunctionOnSet(t, S)
  BY <1>1, <1>2, SumAdd
<1>6. SumFunction(s) = SumFunctionOnSet(s, S)
  BY <1>1 DEF SumFunction
<1>7. SumFunction(t) = SumFunctionOnSet(t, S \cup {y})
  BY <1>2 DEF SumFunction
<1>8. SumFunction(t) = SumFunction(s) + x
  BY <1>2, <1>3, <1>4, <1>5, <1>6, <1>7
<1> QED
  BY <1>4, <1>6, <1>8 DEF t
=============================================================================
