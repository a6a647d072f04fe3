---------------------------- MODULE DataTheorems ----------------------------
(***************************************************************************)
(* Lemmas without state, for the proofs about the modules that have one.   *)
(*                                                                         *)
(* The first part is about the folds of the community modules.             *)
(* MapThenFoldSet chooses a function that satisfies a recursion over the   *)
(* subsets of a finite set: such a function exists, and what it computes   *)
(* follows by induction on those subsets.  Induction is stated about sets, *)
(* never about a predicate: a lemma with a predicate parameter could not   *)
(* be instantiated.                                                        *)
(*                                                                         *)
(* The second part is about what the operators on rows compute, for any    *)
(* rows: the chunks a source is cut into (Chunks) and the sorts and merge  *)
(* keys (SortOrder).  An order is a set of pairs, and a sequence is        *)
(* Arranged in it if every two of its elements are.  A stable sort ranks   *)
(* positions by a strict total order on them; what it answers is arranged, *)
(* and there is only one arrangement of a set.                             *)
(***************************************************************************)
EXTENDS Chunks, SortOrder, FiniteSetsExt, FiniteSetTheorems, WellFoundedInduction, TLAPS

-----------------------------------------------------------------------------
(* Induction and folds.                                                    *)

\* Induction on the natural numbers, as the least element of a set.
LEMMA NatInductionSet ==
  ASSUME NEW T, T \subseteq Nat, 0 \in T, \A n \in T : n + 1 \in T
  PROVE  T = Nat
<1> DEFINE D == Nat \ T
           R == OpToRel(<, Nat)
<1>1. SUFFICES ASSUME D # {} PROVE FALSE
  OBVIOUS
<1>2. \E d \in D : \A e \in D : ~ (<<e, d>> \in R)
  <2>1. IsWellFoundedOn(R, Nat) /\ D \subseteq Nat
    BY NatLessThanWellFounded
  <2> HIDE DEF D, R
  <2> QED BY <1>1, <2>1, WFMin
<1>3. PICK d \in D : \A e \in D : ~ (<<e, d>> \in R)
  BY <1>2
<1>4. d \in Nat /\ d # 0 /\ d \notin T
  OBVIOUS
<1>5. d - 1 \in Nat /\ d - 1 < d
  BY <1>4
<1>6. d - 1 \notin D
  <2>1. <<d - 1, d>> \in R
    BY <1>4, <1>5 DEF OpToRel
  <2> QED BY <1>3, <2>1
<1>7. (d - 1) + 1 \in T
  BY <1>5, <1>6
<1> QED BY <1>4, <1>7

\* Induction on the subsets of a finite set, by their size.
LEMMA SubsetInduction ==
  ASSUME NEW S, IsFiniteSet(S), NEW T, {} \in T,
         \A s \in SUBSET S :
           s # {} /\ (\A r \in SUBSET S : Cardinality(r) < Cardinality(s) => r \in T) => s \in T
  PROVE  \A s \in SUBSET S : s \in T
<1> DEFINE N == {n \in Nat : \A s \in SUBSET S : Cardinality(s) <= n => s \in T}
<1>1. \A s \in SUBSET S : IsFiniteSet(s) /\ Cardinality(s) \in Nat
  BY FS_Subset, FS_CardinalityType
<1>2. \A s \in SUBSET S : Cardinality(s) = 0 <=> s = {}
  BY <1>1, FS_EmptySet
<1>3. 0 \in N
  <2>1. ASSUME NEW s \in SUBSET S, Cardinality(s) <= 0 PROVE s \in T
    <3>1. Cardinality(s) = 0
      BY <1>1, <2>1
    <3> QED BY <1>2, <3>1
  <2> QED BY <2>1
<1>4. ASSUME NEW n \in N PROVE n + 1 \in N
  <2>1. ASSUME NEW s \in SUBSET S, Cardinality(s) <= n + 1 PROVE s \in T
    <3>1. CASE s = {}
      BY <3>1
    <3>2. CASE s # {}
      <4>1. ASSUME NEW r \in SUBSET S, Cardinality(r) < Cardinality(s) PROVE r \in T
        <5>1. Cardinality(r) <= n
          BY <1>1, <2>1, <4>1
        <5> QED BY <5>1
      <4> QED BY <3>2, <4>1
    <3> QED BY <3>1, <3>2
  <2> QED BY <2>1
<1>5. N = Nat
  <2>1. N \subseteq Nat
    OBVIOUS
  <2> HIDE DEF N
  <2> QED BY <1>3, <1>4, <2>1, NatInductionSet
<1>6. ASSUME NEW s \in SUBSET S PROVE s \in T
  <2>1. Cardinality(s) \in N
    BY <1>1, <1>5
  <2> QED BY <1>1, <2>1
<1> QED BY <1>6

\* Taking an element out makes a set smaller.
LEMMA RemoveOne ==
  ASSUME NEW S, IsFiniteSet(S), NEW s \in SUBSET S, NEW x \in s
  PROVE  s \ {x} \in SUBSET S /\ Cardinality(s \ {x}) < Cardinality(s)
         /\ Cardinality(s \ {x}) \in Nat /\ Cardinality(s) = Cardinality(s \ {x}) + 1
<1>1. IsFiniteSet(s) /\ IsFiniteSet(s \ {x})
  BY FS_Subset
<1>2. Cardinality(s) \in Nat /\ Cardinality(s \ {x}) \in Nat
  BY <1>1, FS_CardinalityType
<1>3. Cardinality(s \ {x}) = Cardinality(s) - 1
  BY <1>1, FS_RemoveElement
<1> QED BY <1>2, <1>3

\* A choice of an element of every non-empty subset of S.
Picks(pick, S) == \A s \in SUBSET S : s # {} => pick[s] \in s

\* T holds the empty set, and a set whenever it holds what a fold leaves of it.
PicksInto(T, pick, S) ==
  {} \in T /\ \A s \in SUBSET S : s # {} /\ s \ {pick[s]} \in T => s \in T

\* Induction along the elements a fold takes out.
LEMMA PickInduction ==
  ASSUME NEW S, IsFiniteSet(S), NEW pick, Picks(pick, S), NEW T, PicksInto(T, pick, S)
  PROVE  SUBSET S \subseteq T
<1>1. ASSUME NEW s \in SUBSET S, s # {},
             \A r \in SUBSET S : Cardinality(r) < Cardinality(s) => r \in T
      PROVE  s \in T
  <2>1. pick[s] \in s
    BY <1>1 DEF Picks
  <2>2. s \ {pick[s]} \in SUBSET S /\ Cardinality(s \ {pick[s]}) < Cardinality(s)
    BY <2>1, RemoveOne
  <2> QED BY <1>1, <2>2 DEF PicksInto
<1>2. {} \in T
  BY DEF PicksInto
<1>3. \A s \in SUBSET S : s \in T
  BY <1>1, <1>2, SubsetInduction
<1> QED BY <1>3

\* The recursion a fold describes.
Unfolds(it, S, pick, base, step) ==
  /\ it[{}] = base
  /\ \A s \in SUBSET S : s # {} => it[s] = step[<<pick[s], it[s \ {pick[s]}]>>]

\* It has a solution for any step with values in V.
LEMMA FoldExists ==
  ASSUME NEW S, IsFiniteSet(S), NEW pick, Picks(pick, S),
         NEW V, NEW base \in V, NEW step \in [S \X V -> V]
  PROVE  \E it \in [SUBSET S -> V] : Unfolds(it, S, pick, base, step)
<1> DEFINE Upto(n) == {s \in SUBSET S : Cardinality(s) <= n}
           Good(it, n) ==
             \A s \in Upto(n) : it[s] = IF s = {} THEN base
                                        ELSE step[<<pick[s], it[s \ {pick[s]}]>>]
           N == {n \in Nat : \E it \in [SUBSET S -> V] : Good(it, n)}
<1> USE DEF Picks
<1>1. \A s \in SUBSET S : Cardinality(s) \in Nat /\ Cardinality(s) <= Cardinality(S)
  BY FS_Subset, FS_CardinalityType
<1>2. \A s \in SUBSET S : Cardinality(s) = 0 <=> s = {}
  BY FS_Subset, FS_EmptySet
<1>3. 0 \in N
  <2> DEFINE it == [s \in SUBSET S |-> base]
  <2>1. it \in [SUBSET S -> V]
    OBVIOUS
  <2>2. ASSUME NEW s \in Upto(0) PROVE it[s] = base /\ s = {}
    <3>1. Cardinality(s) = 0
      BY <1>1
    <3> QED BY <1>2, <3>1
  <2>3. Good(it, 0)
    BY <2>2
  <2> HIDE DEF it, Good
  <2> QED BY <2>1, <2>3
<1>4. ASSUME NEW n \in N PROVE n + 1 \in N
  <2>1. PICK it \in [SUBSET S -> V] : Good(it, n)
    OBVIOUS
  <2> DEFINE next == [s \in SUBSET S |-> IF s = {} THEN base
                                         ELSE step[<<pick[s], it[s \ {pick[s]}]>>]]
  <2>2. next \in [SUBSET S -> V]
    <3>1. ASSUME NEW s \in SUBSET S, s # {}
          PROVE  step[<<pick[s], it[s \ {pick[s]}]>>] \in V
      <4>1. pick[s] \in S /\ s \ {pick[s]} \in SUBSET S
        BY <3>1
      <4>2. it[s \ {pick[s]}] \in V
        BY <4>1
      <4> QED BY <4>1, <4>2
    <3> QED BY <3>1
  <2>3. ASSUME NEW s \in Upto(n) PROVE next[s] = it[s]
    BY <2>1
  <2>4. ASSUME NEW s \in Upto(n + 1), s # {}
        PROVE  next[s] = step[<<pick[s], next[s \ {pick[s]}]>>]
    <3>1. s \ {pick[s]} \in SUBSET S /\ Cardinality(s \ {pick[s]}) < Cardinality(s)
      BY <2>4, RemoveOne
    <3>2. s \ {pick[s]} \in Upto(n)
      BY <1>1, <3>1
    <3> QED BY <2>3, <2>4, <3>2
  <2>5. {} \in SUBSET S /\ next[{}] = base
    OBVIOUS
  <2>6. Good(next, n + 1)
    <3> HIDE DEF next
    <3> QED BY <2>4, <2>5
  <2> HIDE DEF next, Good
  <2> QED BY <2>2, <2>6
<1>5. N = Nat
  <2>1. N \subseteq Nat
    OBVIOUS
  <2> HIDE DEF N
  <2> QED BY <1>3, <1>4, <2>1, NatInductionSet
<1>6. PICK it \in [SUBSET S -> V] : Good(it, Cardinality(S))
  BY <1>1, <1>5
<1>7. \A s \in SUBSET S : s \in Upto(Cardinality(S))
  BY <1>1
<1>8. ASSUME NEW s \in SUBSET S
      PROVE  it[s] = IF s = {} THEN base ELSE step[<<pick[s], it[s \ {pick[s]}]>>]
  BY <1>6, <1>7
<1> QED BY <1>8 DEF Unfolds

\* The greatest element of a set of positions, which FoldLeft takes out.
LEMMA MaxIn ==
  ASSUME NEW n \in Nat, NEW s \in SUBSET (1 .. n), s # {}
  PROVE  Max(s) \in s /\ \A x \in s : x <= Max(s)
<1> DEFINE T == {t \in SUBSET (1 .. n) : t # {} => \E x \in t : \A y \in t : x >= y}
<1>1. IsFiniteSet(1 .. n)
  BY FS_Interval
<1>2. {} \in T
  OBVIOUS
<1>3. ASSUME NEW t \in SUBSET (1 .. n), t # {},
             \A r \in SUBSET (1 .. n) : Cardinality(r) < Cardinality(t) => r \in T
      PROVE  t \in T
  <2>1. PICK a \in t : TRUE
    BY <1>3
  <2>2. t \ {a} \in SUBSET (1 .. n) /\ Cardinality(t \ {a}) < Cardinality(t)
    BY <1>1, RemoveOne
  <2>3. t \ {a} \in T
    <3> HIDE DEF T
    <3> QED BY <1>3, <2>2
  <2>4. CASE t \ {a} = {}
    <3>1. \A y \in t : y = a /\ a >= y
      BY <2>4
    <3>2. \E x \in t : \A y \in t : x >= y
      BY <2>1, <3>1
    <3> QED BY <3>2
  <2>5. CASE t \ {a} # {}
    <3>1. PICK b \in t \ {a} : \A y \in t \ {a} : b >= y
      BY <2>3, <2>5
    <3>2. a \in 1 .. n /\ b \in 1 .. n /\ \A y \in t : y \in 1 .. n
      BY <2>1, <3>1
    <3>3. CASE a >= b
      <4>1. \A y \in t : a >= y
        BY <3>1, <3>2, <3>3
      <4>2. \E x \in t : \A y \in t : x >= y
        BY <2>1, <4>1
      <4> QED BY <4>2
    <3>4. CASE ~ (a >= b)
      <4>1. \A y \in t : b >= y
        BY <3>1, <3>2, <3>4
      <4>2. \E x \in t : \A y \in t : x >= y
        BY <3>1, <4>1
      <4> QED BY <4>2
    <3> QED BY <3>3, <3>4
  <2> QED BY <2>4, <2>5
<1>4. s \in T
  <2> DEFINE S == 1 .. n
  <2>1. \A t \in SUBSET S : t \in T
    <3> HIDE DEF T, S
    <3>1. IsFiniteSet(S) /\ \A t \in SUBSET S :
             t # {} /\ (\A r \in SUBSET S : Cardinality(r) < Cardinality(t) => r \in T) => t \in T
      BY <1>1, <1>3 DEF S
    <3> QED BY <1>2, <3>1, SubsetInduction
  <2> QED BY <2>1
<1>5. PICK x \in s : \A y \in s : x >= y
  BY <1>4
<1>6. Max(s) \in s /\ \A y \in s : Max(s) >= y
  BY <1>5 DEF Max
<1> QED BY <1>6

-----------------------------------------------------------------------------
(* Sums.                                                                   *)

\* The sum of a function over a set, and the recursion behind it.
Total(w, S) == MapThenSumSet(LAMBDA x : w[x], S)

Pick(s) == CHOOSE x \in s : TRUE

IsSum(it, w, S) ==
  it = [s \in SUBSET S |-> IF s = {} THEN 0 ELSE w[Pick(s)] + it[s \ {Pick(s)}]]

LEMMA PickIn ==
  ASSUME NEW s, s # {}
  PROVE  Pick(s) \in s
BY DEF Pick

\* The recursion has a solution.
LEMMA SumExists ==
  ASSUME NEW S, IsFiniteSet(S), NEW w, \A x \in S : w[x] \in Int
  PROVE  \E it \in [SUBSET S -> Int] : IsSum(it, w, S)
<1> DEFINE pick == [s \in SUBSET S |-> Pick(s)]
           step == [p \in S \X Int |-> w[p[1]] + p[2]]
<1>1. Picks(pick, S) /\ \A s \in SUBSET S : pick[s] = Pick(s)
  BY PickIn DEF Picks
<1>2. step \in [S \X Int -> Int]
  OBVIOUS
<1>3. PICK it \in [SUBSET S -> Int] : Unfolds(it, S, pick, 0, step)
  <2> HIDE DEF pick, step
  <2>1. 0 \in Int
    OBVIOUS
  <2> QED BY <1>1, <1>2, <2>1, FoldExists
<1>4. ASSUME NEW s \in SUBSET S, s # {}
      PROVE  it[s] = w[Pick(s)] + it[s \ {Pick(s)}]
  <2>1. Pick(s) \in s /\ pick[s] = Pick(s)
    BY <1>1, <1>4, PickIn
  <2>2. Pick(s) \in S /\ it[s \ {Pick(s)}] \in Int
    BY <2>1
  <2>3. step[<<Pick(s), it[s \ {Pick(s)}]>>] = w[Pick(s)] + it[s \ {Pick(s)}]
    BY <2>2
  <2>4. it[s] = step[<<pick[s], it[s \ {pick[s]}]>>]
    BY <1>3, <1>4 DEF Unfolds
  <2> HIDE DEF pick, step
  <2> QED BY <2>1, <2>3, <2>4
<1>5. it[{}] = 0
  BY <1>3 DEF Unfolds
<1>6. it = [s \in SUBSET S |-> IF s = {} THEN 0 ELSE w[Pick(s)] + it[s \ {Pick(s)}]]
  BY <1>4, <1>5
<1> QED BY <1>6 DEF IsSum

\* It has one, which depends on the values at the elements of S only.
LEMMA SumUnique ==
  ASSUME NEW S, IsFiniteSet(S), NEW v, NEW w, \A x \in S : v[x] = w[x],
         NEW i, IsSum(i, v, S), NEW it, IsSum(it, w, S)
  PROVE  \A s \in SUBSET S : i[s] = it[s]
<1> DEFINE pick == [s \in SUBSET S |-> Pick(s)]
           T == {s \in SUBSET S : i[s] = it[s]}
<1>1. Picks(pick, S) /\ \A s \in SUBSET S : pick[s] = Pick(s)
  BY PickIn DEF Picks
<1>2. {} \in T
  BY DEF IsSum
<1>3. ASSUME NEW s \in SUBSET S, s # {}, s \ {pick[s]} \in T PROVE s \in T
  <2>1. Pick(s) \in S /\ i[s \ {Pick(s)}] = it[s \ {Pick(s)}]
    BY <1>1, <1>3, PickIn
  <2>2. i[s] = v[Pick(s)] + i[s \ {Pick(s)}] /\ it[s] = w[Pick(s)] + it[s \ {Pick(s)}]
    BY <1>3 DEF IsSum
  <2> QED BY <2>1, <2>2
<1>4. \A s \in SUBSET S : s \in T
  <2> HIDE DEF T, pick
  <2>1. PicksInto(T, pick, S)
    BY <1>2, <1>3 DEF PicksInto
  <2> QED BY <1>1, <2>1, PickInduction
<1> QED BY <1>4

\* Any solution gives the total.
LEMMA SumIsTotal ==
  ASSUME NEW S, IsFiniteSet(S), NEW w, \A x \in S : w[x] \in Int,
         NEW it, IsSum(it, w, S)
  PROVE  it[S] = Total(w, S)
<1> DEFINE chosen == CHOOSE f : IsSum(f, w, S)
<1>1. IsSum(chosen, w, S)
  BY SumExists
<1>2. Total(w, S) = chosen[S]
  BY DEF Total, MapThenSumSet, MapThenFoldSet, IsSum, Pick
<1> HIDE DEF chosen
<1>3. \A s \in SUBSET S : it[s] = chosen[s]
  BY <1>1, SumUnique
<1> QED BY <1>2, <1>3

\* A solution sums up every subset.
LEMMA SumOfSubset ==
  ASSUME NEW S, IsFiniteSet(S), NEW w, \A x \in S : w[x] \in Int,
         NEW it, IsSum(it, w, S), NEW R \in SUBSET S
  PROVE  it[R] = Total(w, R)
<1> DEFINE f == [s \in SUBSET R |-> it[s]]
<1>1. IsFiniteSet(R) /\ \A x \in R : w[x] \in Int
  BY FS_Subset
<1>2. ASSUME NEW s \in SUBSET R, s # {}
      PROVE  it[s] = w[Pick(s)] + f[s \ {Pick(s)}]
  <2>1. s \in SUBSET S /\ s \ {Pick(s)} \in SUBSET R
    OBVIOUS
  <2>2. it[s] = w[Pick(s)] + it[s \ {Pick(s)}]
    BY <1>2, <2>1 DEF IsSum
  <2> QED BY <2>1, <2>2
<1>3. it[{}] = 0
  BY DEF IsSum
<1>4. f = [s \in SUBSET R |-> IF s = {} THEN 0 ELSE w[Pick(s)] + f[s \ {Pick(s)}]]
  BY <1>2, <1>3
<1>5. IsSum(f, w, R)
  BY <1>4 DEF IsSum
<1>6. f[R] = it[R]
  OBVIOUS
<1> HIDE DEF f
<1>7. f[R] = Total(w, R)
  BY <1>1, <1>5, SumIsTotal
<1> QED BY <1>6, <1>7

\* The empty sum, and the type of a sum.
LEMMA TotalType ==
  ASSUME NEW S, IsFiniteSet(S), NEW w, \A x \in S : w[x] \in Int
  PROVE  Total(w, S) \in Int /\ Total(w, {}) = 0
<1>1. PICK it \in [SUBSET S -> Int] : IsSum(it, w, S)
  BY SumExists
<1>2. it[S] = Total(w, S) /\ it[{}] = Total(w, {})
  BY <1>1, SumOfSubset
<1>3. it[{}] = 0
  BY <1>1 DEF IsSum
<1>4. it[S] \in Int
  BY <1>1
<1> QED BY <1>2, <1>3, <1>4

\* Only the values at the elements of S count.
LEMMA TotalAgrees ==
  ASSUME NEW S, IsFiniteSet(S), NEW v, NEW w,
         \A x \in S : w[x] \in Int /\ v[x] = w[x]
  PROVE  Total(v, S) = Total(w, S)
<1>1. PICK i : IsSum(i, v, S)
  BY SumExists
<1>2. PICK it : IsSum(it, w, S)
  BY SumExists
<1>3. i[S] = it[S]
  BY <1>1, <1>2, SumUnique
<1>4. i[S] = Total(v, S)
  BY <1>1, SumIsTotal
<1>5. it[S] = Total(w, S)
  BY <1>2, SumIsTotal
<1> QED BY <1>3, <1>4, <1>5

\* An element can be taken out of a sum, whichever one the fold takes first.
LEMMA TotalRemove ==
  ASSUME NEW S, IsFiniteSet(S), NEW w, \A x \in S : w[x] \in Int, NEW y \in S
  PROVE  Total(w, S) = w[y] + Total(w, S \ {y})
<1>1. PICK it \in [SUBSET S -> Int] : IsSum(it, w, S)
  BY SumExists
<1> DEFINE T == {s \in SUBSET S : \A z \in s : it[s] = w[z] + it[s \ {z}]}
<1>2. {} \in T
  OBVIOUS
<1>3. ASSUME NEW s \in SUBSET S, s # {},
             \A r \in SUBSET S : Cardinality(r) < Cardinality(s) => r \in T
      PROVE  s \in T
  <2>1. SUFFICES ASSUME NEW z \in s PROVE it[s] = w[z] + it[s \ {z}]
    OBVIOUS
  <2> DEFINE x == Pick(s)
  <2>2. x \in s /\ x \in S /\ it[s] = w[x] + it[s \ {x}]
    BY <1>1, <1>3, PickIn DEF IsSum
  <2> HIDE DEF x
  <2>3. CASE z = x
    BY <2>2, <2>3
  <2>4. CASE z # x
    <3>1. s \ {x} \in T /\ s \ {z} \in T
      <4> HIDE DEF T
      <4>1. ASSUME NEW e \in s PROVE s \ {e} \in T
        <5>1. IsFiniteSet(s)
          BY FS_Subset
        <5>2. s \ {e} \in SUBSET S /\ Cardinality(s \ {e}) < Cardinality(s)
          BY <5>1, RemoveOne
        <5> QED BY <1>3, <5>2
      <4> QED BY <2>2, <4>1
    <3>2. z \in s \ {x} /\ x \in s \ {z}
      BY <2>2, <2>4
    <3>3. it[s \ {x}] = w[z] + it[(s \ {x}) \ {z}]
      BY <3>1, <3>2
    <3>4. it[s \ {z}] = w[x] + it[(s \ {z}) \ {x}]
      BY <3>1, <3>2
    <3>5. (s \ {x}) \ {z} = (s \ {z}) \ {x} /\ (s \ {x}) \ {z} \in SUBSET S
      OBVIOUS
    <3>6. w[x] \in Int /\ w[z] \in Int /\ it[(s \ {x}) \ {z}] \in Int
      BY <2>2, <3>5
    <3> DEFINE rest == it[(s \ {x}) \ {z}]
    <3>7. it[s \ {x}] = w[z] + rest /\ it[s \ {z}] = w[x] + rest
      BY <3>3, <3>4, <3>5
    <3>8. rest \in Int
      BY <3>6
    <3> HIDE DEF rest
    <3> QED BY <2>2, <3>6, <3>7, <3>8
  <2> QED BY <2>3, <2>4
<1>4. S \in T
  <2> HIDE DEF T
  <2> QED BY <1>2, <1>3, SubsetInduction
<1>5. it[S] = Total(w, S) /\ it[S \ {y}] = Total(w, S \ {y})
  BY <1>1, SumOfSubset
<1> QED BY <1>4, <1>5

\* An element that is put in.
LEMMA TotalAdd ==
  ASSUME NEW S, IsFiniteSet(S), NEW y, y \notin S, NEW w,
         \A x \in S \union {y} : w[x] \in Int
  PROVE  Total(w, S \union {y}) = Total(w, S) + w[y]
<1>1. IsFiniteSet(S \union {y}) /\ (S \union {y}) \ {y} = S
  BY FS_AddElement
<1>2. Total(w, S \union {y}) = w[y] + Total(w, S)
  <2> DEFINE R == S \union {y}
  <2>1. y \in R /\ \A x \in R : w[x] \in Int
    OBVIOUS
  <2> HIDE DEF R
  <2>2. IsFiniteSet(R)
    BY <1>1 DEF R
  <2>3. Total(w, R) = w[y] + Total(w, R \ {y})
    BY <2>1, <2>2, TotalRemove
  <2> QED BY <1>1, <2>3 DEF R
<1>3. Total(w, S) \in Int /\ w[y] \in Int
  BY TotalType
<1> QED BY <1>2, <1>3

\* Disjoint sets add up.
LEMMA TotalUnion ==
  ASSUME NEW A, NEW B, IsFiniteSet(A), IsFiniteSet(B), A \cap B = {},
         NEW w, \A x \in A \union B : w[x] \in Int
  PROVE  Total(w, A \union B) = Total(w, A) + Total(w, B)
<1> DEFINE T == {s \in SUBSET B : Total(w, A \union s) = Total(w, A) + Total(w, s)}
<1>1. Total(w, A) \in Int /\ Total(w, {}) = 0
  BY TotalType
<1>2. {} \in T
  BY <1>1
<1>3. ASSUME NEW s \in SUBSET B, s # {},
             \A r \in SUBSET B : Cardinality(r) < Cardinality(s) => r \in T
      PROVE  s \in T
  <2>1. PICK y \in s : TRUE
    BY <1>3
  <2> DEFINE r == s \ {y}
  <2>2. r \in T
    <3>1. r \in SUBSET B /\ Cardinality(r) < Cardinality(s)
      BY RemoveOne
    <3> HIDE DEF T, r
    <3> QED BY <1>3, <3>1
  <2>3. IsFiniteSet(r) /\ y \notin r /\ r \union {y} = s /\ y \in B
    BY FS_Subset
  <2>4. IsFiniteSet(A \union r) /\ y \notin A \union r /\ (A \union r) \union {y} = A \union s
    BY <2>3, FS_Union
  <2>5. Total(w, A \union r) = Total(w, A) + Total(w, r)
    BY <2>2
  <2>6. \A x \in r \union {y} : w[x] \in Int
    BY <2>3
  <2>7. \A x \in (A \union r) \union {y} : w[x] \in Int
    BY <2>3
  <2> HIDE DEF r
  <2>8. Total(w, r \union {y}) = Total(w, r) + w[y]
    BY <2>3, <2>6, TotalAdd
  <2>9. Total(w, (A \union r) \union {y}) = Total(w, A \union r) + w[y]
    BY <2>4, <2>7, TotalAdd
  <2>10. Total(w, r) \in Int /\ w[y] \in Int
    BY <2>3, <2>6, TotalType
  <2>11. Total(w, A \union s) = Total(w, A) + Total(w, r) + w[y]
    BY <1>1, <2>4, <2>5, <2>9, <2>10
  <2>12. Total(w, s) = Total(w, r) + w[y]
    BY <2>3, <2>8
  <2>13. Total(w, A \union s) = Total(w, A) + Total(w, s)
    BY <1>1, <2>10, <2>11, <2>12
  <2> QED BY <2>13
<1>4. B \in T
  <2> HIDE DEF T
  <2> QED BY <1>2, <1>3, SubsetInduction
<1> QED BY <1>4

\* A sum of natural numbers is one, and gets no smaller when they grow.
LEMMA TotalGrows ==
  ASSUME NEW S, IsFiniteSet(S), NEW v, NEW w,
         \A x \in S : v[x] \in Nat /\ w[x] \in Nat /\ v[x] <= w[x]
  PROVE  Total(v, S) \in Nat /\ Total(w, S) \in Nat /\ Total(v, S) <= Total(w, S)
<1> DEFINE T == {s \in SUBSET S : /\ Total(v, s) \in Nat /\ Total(w, s) \in Nat
                                   /\ Total(v, s) <= Total(w, s)}
<1>1. {} \in T
  <2>1. IsFiniteSet({}) /\ \A x \in {} : v[x] \in Int /\ w[x] \in Int
    BY FS_EmptySet
  <2>2. Total(v, {}) = 0
    BY <2>1, TotalType
  <2>3. Total(w, {}) = 0
    BY <2>1, TotalType
  <2> QED BY <2>2, <2>3
<1>2. ASSUME NEW s \in SUBSET S, s # {},
             \A r \in SUBSET S : Cardinality(r) < Cardinality(s) => r \in T
      PROVE  s \in T
  <2>1. PICK y \in s : TRUE
    BY <1>2
  <2>2. s \ {y} \in T
    <3>1. s \ {y} \in SUBSET S /\ Cardinality(s \ {y}) < Cardinality(s)
      BY RemoveOne
    <3> HIDE DEF T
    <3> QED BY <1>2, <3>1
  <2>3. IsFiniteSet(s) /\ \A x \in s : v[x] \in Int /\ w[x] \in Int
    BY FS_Subset
  <2>4. Total(v, s) = v[y] + Total(v, s \ {y})
    BY <2>3, TotalRemove
  <2>5. Total(w, s) = w[y] + Total(w, s \ {y})
    BY <2>3, TotalRemove
  <2>6. v[y] \in Nat /\ w[y] \in Nat /\ v[y] <= w[y]
    OBVIOUS
  <2> QED BY <2>2, <2>4, <2>5, <2>6
<1>3. S \in T
  <2> HIDE DEF T
  <2> QED BY <1>1, <1>2, SubsetInduction
<1> QED BY <1>3

\* It gets smaller when one of them does and none grows.
LEMMA TotalShrinks ==
  ASSUME NEW S, IsFiniteSet(S), NEW v, NEW w,
         \A x \in S : v[x] \in Nat /\ w[x] \in Nat /\ v[x] <= w[x],
         NEW y \in S, v[y] < w[y]
  PROVE  Total(v, S) < Total(w, S)
<1>1. \A x \in S : v[x] \in Int /\ w[x] \in Int
  OBVIOUS
<1>2. Total(v, S) = v[y] + Total(v, S \ {y})
  BY <1>1, TotalRemove
<1>3. Total(w, S) = w[y] + Total(w, S \ {y})
  BY <1>1, TotalRemove
<1>4. /\ Total(v, S \ {y}) \in Nat /\ Total(w, S \ {y}) \in Nat
      /\ Total(v, S \ {y}) <= Total(w, S \ {y})
  <2>1. IsFiniteSet(S \ {y})
    BY FS_Subset
  <2> QED BY <2>1, TotalGrows
<1>5. v[y] \in Nat /\ w[y] \in Nat
  OBVIOUS
<1> QED BY <1>2, <1>3, <1>4, <1>5

-----------------------------------------------------------------------------
(* Concatenations.                                                         *)

IsFlat(f, ss, n) == f = [i \in 1 .. n |-> IF i = 1 THEN ss[i] ELSE f[i - 1] \o ss[i]]

\* The recursion behind FlattenSeq has a solution.
LEMMA FlatExists ==
  ASSUME NEW A, NEW ss \in Seq(Seq(A))
  PROVE  \E f \in [1 .. Len(ss) -> Seq(A)] : IsFlat(f, ss, Len(ss))
<1> DEFINE N == {n \in Nat : n <= Len(ss) => \E f \in [1 .. n -> Seq(A)] : IsFlat(f, ss, n)}
<1>1. 0 \in N
  <2> DEFINE f == [i \in 1 .. 0 |-> <<>>]
  <2>1. f \in [1 .. 0 -> Seq(A)]
    OBVIOUS
  <2>2. f = [i \in 1 .. 0 |-> IF i = 1 THEN ss[i] ELSE f[i - 1] \o ss[i]]
    OBVIOUS
  <2> HIDE DEF f
  <2> QED BY <2>1, <2>2 DEF IsFlat
<1>2. ASSUME NEW n \in N PROVE n + 1 \in N
  <2>1. SUFFICES ASSUME n + 1 <= Len(ss)
                 PROVE  \E f \in [1 .. n + 1 -> Seq(A)] : IsFlat(f, ss, n + 1)
    OBVIOUS
  <2>2. n \in Nat /\ Len(ss) \in Nat /\ n <= Len(ss)
    BY <2>1
  <2>3. PICK g \in [1 .. n -> Seq(A)] : IsFlat(g, ss, n)
    BY <2>2
  <2>4. ss[n + 1] \in Seq(A)
    BY <2>1, <2>2
  <2> DEFINE last == IF n = 0 THEN ss[n + 1] ELSE g[n] \o ss[n + 1]
             f == [i \in 1 .. n + 1 |-> IF i = n + 1 THEN last ELSE g[i]]
  <2>5. last \in Seq(A)
    <3>1. CASE n = 0
      BY <2>4, <3>1
    <3>2. CASE n # 0
      <4>1. g[n] \in Seq(A)
        BY <2>2, <3>2
      <4> QED BY <2>4, <3>2, <4>1
    <3> QED BY <3>1, <3>2
  <2> HIDE DEF last
  <2>6. f \in [1 .. n + 1 -> Seq(A)]
    BY <2>2, <2>5
  <2>7. ASSUME NEW i \in 1 .. n + 1
        PROVE  f[i] = IF i = 1 THEN ss[i] ELSE f[i - 1] \o ss[i]
    <3>1. CASE i = n + 1
      <4>1. f[i] = last
        BY <3>1
      <4>2. CASE n = 0
        BY <3>1, <4>1, <4>2 DEF last
      <4>3. CASE n # 0
        <5>1. i # 1 /\ i - 1 = n /\ n \in 1 .. n /\ f[n] = g[n]
          BY <2>2, <3>1, <4>3
        <5> QED BY <3>1, <4>1, <4>3, <5>1 DEF last
      <4> QED BY <4>2, <4>3
    <3>2. CASE i # n + 1
      <4>1. i \in 1 .. n /\ f[i] = g[i] /\ (i # 1 => i - 1 \in 1 .. n /\ f[i - 1] = g[i - 1])
        BY <2>2, <3>2
      <4>2. g[i] = IF i = 1 THEN ss[i] ELSE g[i - 1] \o ss[i]
        BY <2>3, <4>1 DEF IsFlat
      <4> HIDE DEF f
      <4> QED BY <4>1, <4>2
    <3> QED BY <3>1, <3>2
  <2>8. f = [i \in 1 .. n + 1 |-> IF i = 1 THEN ss[i] ELSE f[i - 1] \o ss[i]]
    <3> HIDE DEF f
    <3> QED BY <2>6, <2>7
  <2> HIDE DEF f
  <2> QED BY <2>6, <2>8 DEF IsFlat
<1>3. N = Nat
  <2>1. N \subseteq Nat
    OBVIOUS
  <2> HIDE DEF N
  <2> QED BY <1>1, <1>2, <2>1, NatInductionSet
<1>4. Len(ss) \in N
  BY <1>3
<1> QED BY <1>4

\* Where the elements of a concatenation are.
LEMMA ConcatFacts ==
  ASSUME NEW A, NEW s \in Seq(A), NEW t \in Seq(A)
  PROVE  /\ s \o t \in Seq(A)
         /\ DOMAIN (s \o t) = 1 .. Len(s) + Len(t)
         /\ \A p \in 1 .. Len(s) : (s \o t)[p] = s[p]
         /\ \A j \in 1 .. Len(t) : (s \o t)[Len(s) + j] = t[j]
OBVIOUS

SameStart(ss, tt, n) == \A i \in 1 .. n : ss[i] = tt[i]

\* Sequences that begin alike are concatenated alike.
LEMMA FlatUnique ==
  ASSUME NEW n \in Nat, NEW m \in Nat, n <= m,
         NEW ss, NEW tt, SameStart(ss, tt, n),
         NEW f, IsFlat(f, ss, n), NEW g, IsFlat(g, tt, m)
  PROVE  \A i \in 1 .. n : f[i] = g[i]
<1> DEFINE N == {k \in Nat : k \in 1 .. n => f[k] = g[k]}
<1>1. 0 \in N
  OBVIOUS
<1>2. ASSUME NEW k \in N PROVE k + 1 \in N
  <2>1. SUFFICES ASSUME k + 1 \in 1 .. n PROVE f[k + 1] = g[k + 1]
    OBVIOUS
  <2>2. k + 1 \in 1 .. m /\ k \in Nat /\ (k + 1) - 1 = k
    BY <2>1
  <2>3. f[k + 1] = IF k + 1 = 1 THEN ss[k + 1] ELSE f[k] \o ss[k + 1]
    BY <2>1, <2>2 DEF IsFlat
  <2>4. g[k + 1] = IF k + 1 = 1 THEN tt[k + 1] ELSE g[k] \o tt[k + 1]
    BY <2>2 DEF IsFlat
  <2>5. k + 1 # 1 => f[k] = g[k]
    BY <2>1, <2>2
  <2> QED BY <2>1, <2>3, <2>4, <2>5 DEF SameStart
<1>3. N = Nat
  <2>1. N \subseteq Nat
    OBVIOUS
  <2> HIDE DEF N
  <2> QED BY <1>1, <1>2, <2>1, NatInductionSet
<1> QED BY <1>3

\* Any solution gives the concatenation.
LEMMA FlatIsFlatten ==
  ASSUME NEW A, NEW ss \in Seq(Seq(A)), ss # <<>>, NEW f, IsFlat(f, ss, Len(ss))
  PROVE  FlattenSeq(ss) = f[Len(ss)]
<1> DEFINE chosen == CHOOSE g : IsFlat(g, ss, Len(ss))
<1>1. Len(ss) \in Nat /\ Len(ss) # 0 /\ Len(ss) \in 1 .. Len(ss)
  OBVIOUS
<1>2. IsFlat(chosen, ss, Len(ss))
  OBVIOUS
<1>3. FlattenSeq(ss) = chosen[Len(ss)]
  BY <1>1 DEF FlattenSeq, IsFlat
<1> HIDE DEF chosen
<1>4. \A i \in 1 .. Len(ss) : f[i] = chosen[i]
  BY <1>1, <1>2, FlatUnique DEF SameStart
<1> QED BY <1>1, <1>3, <1>4

\* Induction along a sequence that grows at its end.
LEMMA SeqInduction ==
  ASSUME NEW A, NEW T, <<>> \in T, \A s \in T : \A a \in A : s \in Seq(A) => Append(s, a) \in T
  PROVE  Seq(A) \subseteq T
<1> DEFINE N == {n \in Nat : \A s \in Seq(A) : Len(s) = n => s \in T}
<1>1. 0 \in N
  <2>1. \A s \in Seq(A) : Len(s) = 0 => s = <<>>
    OBVIOUS
  <2> QED BY <2>1
<1>2. ASSUME NEW n \in N PROVE n + 1 \in N
  <2>1. SUFFICES ASSUME NEW s \in Seq(A), Len(s) = n + 1 PROVE s \in T
    OBVIOUS
  <2> DEFINE init == SubSeq(s, 1, n)
  <2>2. n \in Nat /\ init \in Seq(A) /\ Len(init) = n /\ s[n + 1] \in A
    BY <2>1
  <2>3. s = Append(init, s[n + 1])
    BY <2>1, <2>2
  <2>4. init \in T
    <3> HIDE DEF init
    <3> QED BY <2>2
  <2> HIDE DEF init
  <2> QED BY <2>2, <2>3, <2>4
<1>3. N = Nat
  <2>1. N \subseteq Nat
    OBVIOUS
  <2> HIDE DEF N
  <2> QED BY <1>1, <1>2, <2>1, NatInductionSet
<1>4. ASSUME NEW s \in Seq(A) PROVE s \in T
  <2>1. Len(s) \in N
    <3>1. Len(s) \in Nat
      OBVIOUS
    <3> QED BY <1>3, <3>1
  <2> QED BY <2>1
<1> QED BY <1>4

\* The concatenation of no sequences.
LEMMA FlattenEmpty == FlattenSeq(<<>>) = <<>>
BY DEF FlattenSeq

\* What appending does.
LEMMA AppendFacts ==
  ASSUME NEW S, NEW s \in Seq(S), NEW x \in S
  PROVE  /\ Append(s, x) \in Seq(S) /\ Append(s, x) # <<>>
         /\ Len(s) \in Nat /\ Len(Append(s, x)) = Len(s) + 1
         /\ Append(s, x)[Len(s) + 1] = x
         /\ \A i \in 1 .. Len(s) : Append(s, x)[i] = s[i]
<1>1. Len(s) \in Nat /\ Append(s, x) \in Seq(S) /\ Len(Append(s, x)) = Len(s) + 1
  OBVIOUS
<1>2. Append(s, x)[Len(s) + 1] = x /\ \A i \in 1 .. Len(s) : Append(s, x)[i] = s[i]
  OBVIOUS
<1>3. Append(s, x) # <<>>
  <2>1. Len(<<>>) = 0 /\ Len(Append(s, x)) # 0
    BY <1>1
  <2> QED BY ONLY <2>1
<1> QED BY <1>1, <1>2, <1>3

\* One more sequence goes to the end.
LEMMA FlattenAppend ==
  ASSUME NEW A, NEW ss \in Seq(Seq(A)), NEW s \in Seq(A)
  PROVE  FlattenSeq(ss) \in Seq(A) /\ FlattenSeq(Append(ss, s)) = FlattenSeq(ss) \o s
<1> DEFINE n == Len(ss)
           tt == Append(ss, s)
<1>1. /\ n \in Nat /\ tt \in Seq(Seq(A)) /\ Len(tt) = n + 1 /\ tt # <<>>
      /\ tt[n + 1] = s /\ \A i \in 1 .. n : tt[i] = ss[i]
  <2> DEFINE Q == Seq(A)
  <2>1. ss \in Seq(Q) /\ s \in Q
    OBVIOUS
  <2> HIDE DEF Q
  <2>2. /\ Append(ss, s) \in Seq(Q) /\ Append(ss, s) # <<>>
        /\ Len(ss) \in Nat /\ Len(Append(ss, s)) = Len(ss) + 1
        /\ Append(ss, s)[Len(ss) + 1] = s
        /\ \A i \in 1 .. Len(ss) : Append(ss, s)[i] = ss[i]
    BY ONLY <2>1, AppendFacts
  <2> QED BY ONLY <2>2 DEF Q
<1>2. tt[n + 1] = s /\ \A i \in 1 .. n : ss[i] = tt[i]
  BY ONLY <1>1
<1>3. PICK g : IsFlat(g, tt, n + 1)
  <2> HIDE DEF tt
  <2>1. \E g : IsFlat(g, tt, Len(tt))
    BY <1>1, FlatExists
  <2> QED BY <1>1, <2>1
<1>4. FlattenSeq(tt) = g[n + 1]
  <2> HIDE DEF tt
  <2> QED BY <1>1, <1>3, FlatIsFlatten
<1>5. g[n + 1] = IF n + 1 = 1 THEN s ELSE g[n] \o s
  <2>1. n + 1 \in 1 .. n + 1 /\ (n + 1) - 1 = n
    BY <1>1
  <2> HIDE DEF tt, n
  <2> QED BY <1>2, <1>3, <2>1 DEF IsFlat
<1>6. CASE ss = <<>>
  <2>1. n = 0 /\ FlattenSeq(ss) = <<>> /\ <<>> \in Seq(A) /\ <<>> \o s = s
    BY <1>6, FlattenEmpty
  <2> QED BY <1>4, <1>5, <2>1
<1>7. CASE ss # <<>>
  <2>1. PICK f \in [1 .. n -> Seq(A)] : IsFlat(f, ss, n)
    BY FlatExists
  <2>2. FlattenSeq(ss) = f[n]
    BY <1>7, <2>1, FlatIsFlatten
  <2>3. n # 0 /\ n \in 1 .. n /\ n <= n + 1 /\ n + 1 \in Nat /\ n + 1 # 1
    BY <1>1, <1>7
  <2>4. f[n] = g[n]
    <3>1. \A i \in 1 .. n : f[i] = g[i]
      <4> DEFINE m == n + 1
      <4>1. n \in Nat /\ m \in Nat /\ n <= m /\ IsFlat(g, tt, m)
        BY <1>1, <1>3, <2>3
      <4>2. SameStart(ss, tt, n)
        BY <1>2 DEF SameStart
      <4> HIDE DEF tt, n, m
      <4> QED BY <2>1, <4>1, <4>2, FlatUnique
    <3> QED BY <2>3, <3>1
  <2>5. f[n] \in Seq(A)
    BY <2>1, <2>3
  <2> HIDE DEF n
  <2> QED BY <1>4, <1>5, <2>2, <2>3, <2>4, <2>5
<1> QED BY <1>6, <1>7

-----------------------------------------------------------------------------
(* Chunks of a source.                                                     *)

LEMMA WantedIsPositive ==
  ASSUME NEW total \in Nat, NEW wanted \in Int
  PROVE  Wanted(total, wanted) \in Nat \ {0}
  BY DEF Wanted, Higher, Lower

LEMMA CeilDivIsEnough ==
  ASSUME NEW a \in Nat, NEW b \in Nat \ {0}
  PROVE  /\ CeilDiv(a, b) \in Nat
         /\ a <= b * CeilDiv(a, b)
         /\ a # 0 => CeilDiv(a, b) # 0
PROOF
<1> DEFINE q == (- a) \div b
<1>1. q \in Int /\ b * q <= - a /\ - a < b * q + b
  OBVIOUS
<1>2. CeilDiv(a, b) = - q
  BY DEF CeilDiv
<1> HIDE DEF q
<1>3. q <= 0
  <2>1. SUFFICES ASSUME q >= 1 PROVE FALSE
    BY <1>1
  <2>2. b * q >= b
    BY <1>1, <2>1
  <2> QED BY <1>1, <2>2
<1>4. a # 0 => q # 0
  BY <1>1
<1>5. b * (- q) = - (b * q)
  BY <1>1
<1> QED BY <1>1, <1>2, <1>3, <1>4, <1>5

-----------------------------------------------------------------------------
(* The chunks of a table of `total` rows.                                  *)

LEMMA SizeFacts ==
  ASSUME NEW total \in Nat, NEW wanted \in Int
  PROVE  /\ ChunkSize(total, wanted) \in Nat
         /\ total <= Wanted(total, wanted) * ChunkSize(total, wanted)
         /\ total # 0 => ChunkSize(total, wanted) # 0
  BY WantedIsPositive, CeilDivIsEnough DEF ChunkSize

\* Every row of a table is read by one of its partitions (memory.py:58,
\* csv.py:245, parquet.py:238): none is lost to the rounding of the size.
THEOREM EveryRowIsRead ==
  ASSUME NEW total \in Nat, NEW wanted \in Int, NEW row \in 0 .. total - 1
  PROVE  \E i \in Partitions(total, wanted) : row \in Chunk(total, wanted, i)
PROOF
<1> DEFINE n == Wanted(total, wanted)
           c == ChunkSize(total, wanted)
           i == row \div c
<1>1. n \in Nat \ {0} /\ c \in Nat \ {0} /\ total <= n * c
  BY WantedIsPositive, SizeFacts
<1>2. Start(total, wanted, i) = i * c /\ End(total, wanted, i) = Lower((i + 1) * c, total)
  BY DEF Start, End
<1> HIDE DEF n, c
<1>3. i \in Nat /\ i * c <= row /\ row < (i + 1) * c
  <2>1. i \in Int /\ c * i <= row /\ row < c * i + c
    BY <1>1
  <2>2. i >= 0
    BY <1>1
  <2>3. (i + 1) * c = c * i + c /\ i * c = c * i
    BY <1>1, <2>1
  <2> QED BY <1>1, <2>1, <2>2, <2>3
<1> HIDE DEF i
<1>4. i < n
  <2>1. SUFFICES ASSUME i >= n PROVE FALSE
    BY <1>1, <1>3
  <2>2. i * c >= n * c
    BY <1>1, <1>3, <2>1
  <2> QED BY <1>1, <1>3, <2>2
<1>5. row < Lower((i + 1) * c, total)
  BY <1>1, <1>3 DEF Lower
<1>6. row \in Chunk(total, wanted, i)
  <2>1. Lower((i + 1) * c, total) \in Int
    BY <1>1, <1>3 DEF Lower
  <2> QED BY <1>1, <1>2, <1>3, <1>5, <2>1 DEF Chunk
<1>7. i \in Partitions(total, wanted)
  <2>1. Lower((i + 1) * c, total) \in Int
    BY <1>1, <1>3 DEF Lower
  <2> QED BY <1>1, <1>2, <1>3, <1>4, <1>5, <2>1 DEF Partitions, n
<1> QED BY <1>6, <1>7

\* And by no other, and nothing that is not a row is.
THEOREM NoRowIsReadTwice ==
  ASSUME NEW total \in Nat, NEW wanted \in Int,
         NEW i \in Partitions(total, wanted), NEW j \in Partitions(total, wanted),
         NEW row \in Chunk(total, wanted, i), row \in Chunk(total, wanted, j)
  PROVE  i = j /\ row \in 0 .. total - 1
PROOF
<1> DEFINE c == ChunkSize(total, wanted)
           Below(k) == Lower((k + 1) * c, total)
<1>1. c \in Nat /\ i \in Nat /\ j \in Nat
  BY SizeFacts, WantedIsPositive DEF Partitions
<1>2. /\ row \in i * c .. Below(i) - 1
      /\ row \in j * c .. Below(j) - 1
  BY DEF Chunk, Start, End
<1> HIDE DEF c
<1>3. /\ (i + 1) * c = i * c + c /\ (j + 1) * c = j * c + c
      /\ i * c \in Nat /\ j * c \in Nat
  BY <1>1
<1>4. /\ row \in Int /\ row < total
      /\ i * c <= row /\ row < i * c + c
      /\ j * c <= row /\ row < j * c + c
  BY <1>1, <1>2, <1>3 DEF Lower
<1>5. ~ i < j
  <2>1. SUFFICES ASSUME i + 1 <= j PROVE FALSE
    BY <1>1
  <2>2. (i + 1) * c <= j * c
    BY <1>1, <2>1
  <2>3. i * c + c <= j * c
    BY <1>3, <2>2
  <2> QED BY <1>1, <1>3, <1>4, <2>3
<1>6. ~ j < i
  <2>1. SUFFICES ASSUME j + 1 <= i PROVE FALSE
    BY <1>1
  <2>2. (j + 1) * c <= i * c
    BY <1>1, <2>1
  <2>3. j * c + c <= i * c
    BY <1>3, <2>2
  <2> QED BY <1>1, <1>3, <1>4, <2>3
<1> QED BY <1>1, <1>3, <1>4, <1>5, <1>6

\* A partition is found by its place in a list (dataset.py:30) that skips the
\* empty ones: the place is its id, since only the last ones are empty.
THEOREM PartitionsHaveNoGap ==
  ASSUME NEW total \in Nat, NEW wanted \in Int,
         NEW i \in Partitions(total, wanted), NEW j \in 0 .. i
  PROVE  j \in Partitions(total, wanted)
PROOF
<1> DEFINE n == Wanted(total, wanted)
           c == ChunkSize(total, wanted)
<1>1. c \in Nat /\ n \in Nat /\ i \in 0 .. n - 1 /\ j \in 0 .. n - 1
  BY SizeFacts, WantedIsPositive DEF Partitions
<1>2. CASE total = 0
  BY <1>1, <1>2 DEF Partitions
<1>3. CASE total # 0
  <2>1. i * c < Lower((i + 1) * c, total)
    BY <1>3 DEF Partitions, Start, End
  <2>2. c # 0
    BY <1>3, SizeFacts
  <2> HIDE DEF c, n
  <2>3. j * c <= i * c /\ j * c < (j + 1) * c
    BY <1>1, <2>2
  <2>4. i * c < total
    BY <1>1, <2>1 DEF Lower
  <2>5. j * c < Lower((j + 1) * c, total)
    BY <1>1, <2>3, <2>4 DEF Lower
  <2> QED BY <1>1, <2>5 DEF Partitions, Start, End, c, n
<1> QED BY <1>2, <1>3

-----------------------------------------------------------------------------
(* Arrangements.                                                           *)

\* Any two elements of s, in their order, are a pair of Q.
Arranged(s, Q) == \A i, j \in DOMAIN s : i < j => <<s[i], s[j]>> \in Q

StrictOrder(Q, S) ==
  /\ \A a \in S : <<a, a>> \notin Q
  /\ \A a, b, c \in S : <<a, b>> \in Q /\ <<b, c>> \in Q => <<a, c>> \in Q

Has(s, x) == \E i \in DOMAIN s : s[i] = x

\* An arrangement repeats nothing.
LEMMA ArrangedOnce ==
  ASSUME NEW S, NEW Q, StrictOrder(Q, S), NEW s \in Seq(S), Arranged(s, Q),
         NEW i \in DOMAIN s, NEW j \in DOMAIN s, s[i] = s[j]
  PROVE  i = j
<1>1. i \in Int /\ j \in Int /\ s[i] \in S
  OBVIOUS
<1>2. ~ (i < j) /\ ~ (j < i)
  BY <1>1 DEF Arranged, StrictOrder
<1> QED BY <1>1, <1>2

\* What comes before the first elements of an arrangement is among them.
LEMMA ArrangedPrefix ==
  ASSUME NEW S, NEW Q, StrictOrder(Q, S),
         NEW s \in Seq(S), Arranged(s, Q), NEW o \in Seq(S), Arranged(o, Q),
         \A n \in DOMAIN o : Has(s, o[n]),
         \A n \in DOMAIN o : \A i \in DOMAIN s : <<s[i], o[n]>> \in Q => Has(o, s[i])
  PROVE  Len(o) <= Len(s) /\ \A n \in DOMAIN o : n \in DOMAIN s /\ o[n] = s[n]
<1> DEFINE N == {n \in Nat : \A h \in 1 .. n : h \in DOMAIN o => h \in DOMAIN s /\ o[h] = s[h]}
<1>1. /\ DOMAIN o = 1 .. Len(o) /\ Len(o) \in Nat /\ DOMAIN s = 1 .. Len(s) /\ Len(s) \in Nat
      /\ (\A n \in DOMAIN o : o[n] \in S) /\ \A n \in DOMAIN s : s[n] \in S
  OBVIOUS
<1>2. 0 \in N
  OBVIOUS
<1>3. ASSUME NEW n \in N PROVE n + 1 \in N
  <2> DEFINE m == n + 1
  <2>1. SUFFICES ASSUME m \in DOMAIN o PROVE m \in DOMAIN s /\ o[m] = s[m]
    <3>1. \A h \in 1 .. m : h \in 1 .. n \/ h = m
      OBVIOUS
    <3> QED BY <3>1
  <2>2. PICK i \in DOMAIN s : s[i] = o[m]
    BY <2>1 DEF Has
  <2>3. \A h \in 1 .. n : h \in DOMAIN o /\ h \in DOMAIN s /\ o[h] = s[h] /\ h # m
    BY <1>1, <2>1
  <2>4. i \notin 1 .. n
    <3>1. ASSUME i \in 1 .. n PROVE FALSE
      <4>1. o[i] = o[m] /\ i \in DOMAIN o /\ i # m
        BY <2>2, <2>3, <3>1
      <4> HIDE DEF m
      <4> QED BY <2>1, <4>1, ArrangedOnce
    <3> QED BY <3>1
  <2>5. i >= m /\ m \in DOMAIN s
    BY <1>1, <2>2, <2>4
  <2>6. CASE i = m
    BY <2>2, <2>6
  <2>7. CASE i # m
    <3>1. <<s[m], o[m]>> \in Q
      BY <2>2, <2>5, <2>7 DEF Arranged
    <3>2. PICK h \in DOMAIN o : o[h] = s[m]
      <4> HIDE DEF m
      <4> QED BY <2>1, <2>5, <3>1 DEF Has
    <3>3. h < m
      <4>1. h # m /\ ~ (m < h)
        <5>1. o[h] \in S /\ o[m] \in S /\ <<o[h], o[m]>> \in Q
          BY <1>1, <2>1, <3>1, <3>2
        <5>2. <<o[m], o[h]>> \notin Q /\ o[m] # o[h]
          BY <5>1 DEF StrictOrder
        <5> HIDE DEF m
        <5> QED BY <2>1, <5>2 DEF Arranged
      <4> QED BY <1>1, <3>2, <4>1
    <3>4. h \in 1 .. n /\ h # m
      BY <1>1, <3>2, <3>3
    <3>5. s[h] = s[m] /\ h \in DOMAIN s
      BY <2>3, <3>2, <3>4
    <3> HIDE DEF m
    <3>6. FALSE
      BY <2>5, <3>4, <3>5, ArrangedOnce
    <3> QED BY <3>6
  <2> QED BY <2>6, <2>7, <2>5
<1>4. N = Nat
  <2>1. N \subseteq Nat
    OBVIOUS
  <2> HIDE DEF N
  <2> QED BY <1>2, <1>3, <2>1, NatInductionSet
<1>5. \A n \in DOMAIN o : n \in DOMAIN s /\ o[n] = s[n]
  <2> SUFFICES ASSUME NEW n \in DOMAIN o PROVE n \in DOMAIN s /\ o[n] = s[n]
    OBVIOUS
  <2>1. n \in N /\ n \in 1 .. n
    BY <1>1, <1>4
  <2> QED BY <2>1
<1>6. Len(o) <= Len(s)
  <2>1. CASE Len(o) = 0
    BY <1>1, <2>1
  <2>2. CASE Len(o) # 0
    <3>1. Len(o) \in DOMAIN o
      BY <1>1, <2>2
    <3> QED BY <1>1, <1>5, <3>1
  <2> QED BY <2>1, <2>2
<1> QED BY <1>5, <1>6

\* There is only one arrangement of a set.
LEMMA ArrangedUnique ==
  ASSUME NEW S, NEW Q, StrictOrder(Q, S),
         NEW s \in Seq(S), Arranged(s, Q), NEW o \in Seq(S), Arranged(o, Q),
         \A x \in S : Has(s, x) <=> Has(o, x)
  PROVE  o = s
<1>1. /\ \A n \in DOMAIN o : Has(s, o[n])
      /\ \A n \in DOMAIN s : Has(o, s[n])
  <2>1. ASSUME NEW n \in DOMAIN o PROVE Has(s, o[n])
    <3>1. o[n] \in S /\ Has(o, o[n])
      BY DEF Has
    <3> QED BY <3>1
  <2>2. ASSUME NEW n \in DOMAIN s PROVE Has(o, s[n])
    <3>1. s[n] \in S /\ Has(s, s[n])
      BY DEF Has
    <3> QED BY <3>1
  <2> QED BY <2>1, <2>2
<1>2. Len(o) <= Len(s) /\ \A n \in DOMAIN o : n \in DOMAIN s /\ o[n] = s[n]
  BY <1>1, ArrangedPrefix
<1>3. Len(s) <= Len(o)
  BY <1>1, ArrangedPrefix
<1>4. Len(o) = Len(s) /\ Len(s) \in Nat /\ DOMAIN o = 1 .. Len(o) /\ DOMAIN s = 1 .. Len(s)
  BY <1>2, <1>3
<1> QED BY <1>2, <1>4

-----------------------------------------------------------------------------
(* Ranks.                                                                  *)

TotalOrder(R, D) ==
  /\ StrictOrder(R, D)
  /\ \A i, j \in D : i # j => <<i, j>> \in R \/ <<j, i>> \in R

RankIn(R, D, i) == 1 + Cardinality({j \in D : <<j, i>> \in R})

\* pos is the arrangement of 1 .. m in R.
Places(pos, R, m) ==
  /\ pos \in [1 .. m -> 1 .. m]
  /\ \A i \in 1 .. m : \E n \in 1 .. m : pos[n] = i
  /\ \A n, k \in 1 .. m : n < k => <<pos[n], pos[k]>> \in R

\* Ranks put a total order's elements in their places.
LEMMA RanksArePlaces ==
  ASSUME NEW m \in Nat, NEW R, TotalOrder(R, 1 .. m)
  PROVE  Places([n \in 1 .. m |-> CHOOSE i \in 1 .. m : RankIn(R, 1 .. m, i) = n], R, m)
<1> DEFINE D == 1 .. m
           Below(i) == {j \in D : <<j, i>> \in R}
           rank(i) == RankIn(R, D, i)
           f == [i \in D |-> rank(i)]
           pos == [n \in D |-> CHOOSE i \in D : rank(i) = n]
<1>1. IsFiniteSet(D) /\ Cardinality(D) = m
  BY FS_Interval
<1>2. ASSUME NEW i \in D PROVE Cardinality(Below(i)) \in Nat /\ IsFiniteSet(Below(i))
  <2>1. Below(i) \in SUBSET D
    OBVIOUS
  <2> HIDE DEF D, Below
  <2>2. IsFiniteSet(Below(i))
    BY <1>1, <2>1, FS_Subset
  <2> QED BY <2>2, FS_CardinalityType
<1>3. \A i \in D : rank(i) = 1 + Cardinality(Below(i))
  BY DEF RankIn
<1>4. ASSUME NEW i \in D, NEW j \in D, <<i, j>> \in R PROVE rank(i) < rank(j)
  <2>1. Below(i) \union {i} \in SUBSET Below(j) /\ i \notin Below(i)
    BY <1>4 DEF TotalOrder, StrictOrder
  <2> HIDE DEF D, Below, rank
  <2>2. Cardinality(Below(i) \union {i}) = Cardinality(Below(i)) + 1
    BY <1>2, <2>1, FS_AddElement
  <2>3. Cardinality(Below(i) \union {i}) <= Cardinality(Below(j))
    BY <1>2, <2>1, FS_Subset
  <2> QED BY <1>2, <1>3, <2>2, <2>3
<1>5. ASSUME NEW i \in D PROVE rank(i) \in D
  <2>1. Below(i) \in SUBSET (D \ {i})
    BY DEF TotalOrder, StrictOrder
  <2> HIDE DEF D, Below, rank
  <2>2. IsFiniteSet(D \ {i}) /\ Cardinality(D \ {i}) = m - 1
    BY <1>1, FS_RemoveElement
  <2>3. Cardinality(Below(i)) <= m - 1
    BY <2>1, <2>2, FS_Subset
  <2> QED BY <1>2, <1>3, <2>3 DEF D
<1>6. f \in Injection(D, D)
  <2>1. f \in [D -> D]
    BY <1>5
  <2>2. ASSUME NEW i \in D, NEW j \in D, i # j PROVE f[i] # f[j]
    <3>1. rank(i) < rank(j) \/ rank(j) < rank(i)
      BY <1>4, <2>2 DEF TotalOrder
    <3>2. rank(i) \in D /\ rank(j) \in D
      BY <1>5
    <3> HIDE DEF rank
    <3> QED BY <3>1, <3>2
  <2> HIDE DEF f, D
  <2> QED BY <2>1, <2>2 DEF Injection, IsInjective
<1>7. f \in Surjection(D, D)
  <2> HIDE DEF f, D
  <2> QED BY <1>1, <1>6, FS_Injection
<1>8. \A n \in D : \E i \in D : rank(i) = n
  <2>1. \A n \in D : \E i \in D : f[i] = n
    <3> HIDE DEF f, D
    <3> QED BY <1>7 DEF Surjection
  <2> QED BY <2>1
<1>9. \A n \in D : pos[n] \in D /\ rank(pos[n]) = n
  <2> HIDE DEF D, rank
  <2> QED BY <1>8
<1>10. pos \in [D -> D]
  <2>1. pos = [n \in D |-> pos[n]]
    OBVIOUS
  <2> HIDE DEF pos, D
  <2> QED BY <1>9, <2>1
<1>11. \A i \in D : \E n \in D : pos[n] = i
  <2> SUFFICES ASSUME NEW i \in D PROVE \E n \in D : pos[n] = i
    OBVIOUS
  <2>1. rank(i) \in D
    BY <1>5
  <2>2. pos[rank(i)] \in D /\ rank(pos[rank(i)]) = rank(i)
    BY <1>9, <2>1
  <2>3. pos[rank(i)] = i
    <3> DEFINE j == pos[rank(i)]
    <3> HIDE DEF pos, rank, D
    <3>1. j \in D /\ f[j] = f[i]
      BY <2>2
    <3> HIDE DEF f, j
    <3> QED BY <1>6, <3>1 DEF Injection, IsInjective, j
  <2> QED BY <2>1, <2>3
<1>12. ASSUME NEW n \in D, NEW k \in D, n < k PROVE <<pos[n], pos[k]>> \in R
  <2>1. rank(pos[n]) = n /\ rank(pos[k]) = k /\ pos[n] \in D /\ pos[k] \in D
    BY <1>9
  <2>2. n \in Int /\ k \in Int /\ n # k /\ ~ (k < n)
    BY <1>12
  <2> HIDE DEF pos, rank, D
  <2>3. pos[n] # pos[k] /\ <<pos[k], pos[n]>> \notin R
    BY <1>4, <2>1, <2>2
  <2> QED BY <2>1, <2>3 DEF TotalOrder, D
<1> HIDE DEF pos, rank
<1>13. Places(pos, R, m)
  BY <1>10, <1>11, <1>12 DEF Places
<1> QED BY <1>13 DEF pos, rank

-----------------------------------------------------------------------------
(* Stable sorts.                                                           *)

\* A strict weak order.
WeakOrder(B, S) ==
  /\ \A a \in S : <<a, a>> \notin B
  /\ \A a, b, c \in S : <<a, b>> \in B => <<a, c>> \in B \/ <<c, b>> \in B
  /\ \A a, b \in S : <<a, b>> \in B => <<b, a>> \notin B

\* out has the elements of rows in the order B, ties as they were.
StablySorts(out, rows, B) ==
  /\ DOMAIN out = DOMAIN rows
  /\ \A n \in DOMAIN out : Has(rows, out[n])
  /\ \A i \in DOMAIN rows : Has(out, rows[i])
  /\ \A n, k \in DOMAIN out : n < k =>
       \/ <<out[n], out[k]>> \in B
       \/ /\ <<out[k], out[n]>> \notin B
          /\ \E i, j \in DOMAIN rows : i < j /\ rows[i] = out[n] /\ rows[j] = out[k]

\* The position j comes before i in a stable sort.
Sooner(rows, B, j, i) ==
  \/ <<rows[j], rows[i]>> \in B
  \/ j < i /\ <<rows[i], rows[j]>> \notin B

\* What StableSort answers for a comparison that B is the set of.
RankedBy(out, rows, B) ==
  /\ out = [n \in DOMAIN rows |-> out[n]]
  /\ \A n \in DOMAIN rows :
       out[n] = rows[CHOOSE i \in DOMAIN rows :
                       1 + Cardinality({j \in DOMAIN rows : Sooner(rows, B, j, i)}) = n]

LEMMA StableBy ==
  ASSUME NEW S, NEW B, WeakOrder(B, S), NEW rows \in Seq(S),
         NEW out, RankedBy(out, rows, B)
  PROVE  out \in Seq(S) /\ StablySorts(out, rows, B)
<1> DEFINE m == Len(rows)
           D == 1 .. m
           R == {p \in D \X D : Sooner(rows, B, p[1], p[2])}
           pos == [n \in D |-> CHOOSE i \in D : RankIn(R, D, i) = n]
<1>1. m \in Nat /\ DOMAIN rows = D /\ \A i \in D : rows[i] \in S
  OBVIOUS
<1>2. \A i, j \in D : <<j, i>> \in R <=> Sooner(rows, B, j, i)
  OBVIOUS
<1>3. TotalOrder(R, D)
  <2>1. \A i \in D : <<i, i>> \notin R
    <3>1. ASSUME NEW i \in D PROVE ~ Sooner(rows, B, i, i)
      <4>1. <<rows[i], rows[i]>> \notin B /\ ~ (i < i)
        BY <1>1 DEF WeakOrder
      <4> QED BY <4>1 DEF Sooner
    <3> HIDE DEF R, D
    <3> QED BY <1>2, <3>1
  <2>2. ASSUME NEW i \in D, NEW j \in D, NEW k \in D, Sooner(rows, B, i, j), Sooner(rows, B, j, k)
        PROVE  Sooner(rows, B, i, k)
    <3>1. rows[i] \in S /\ rows[j] \in S /\ rows[k] \in S /\ i \in Int /\ j \in Int /\ k \in Int
      BY <1>1
    <3> HIDE DEF D
    <3>2. \A a, b, c \in S : <<a, b>> \in B => <<a, c>> \in B \/ <<c, b>> \in B
      BY DEF WeakOrder
    <3>3. \A a, b \in S : <<a, b>> \in B => <<b, a>> \notin B
      BY DEF WeakOrder
    <3>4. CASE <<rows[k], rows[i]>> \in B
      <4>1. <<rows[k], rows[j]>> \in B \/ <<rows[j], rows[i]>> \in B
        BY <3>1, <3>2, <3>4
      <4>2. <<rows[j], rows[k]>> \notin B \/ <<rows[i], rows[j]>> \notin B
        BY <3>1, <3>3, <4>1
      <4> QED BY <2>2, <3>1, <3>2, <3>3, <3>4, <4>1, <4>2 DEF Sooner
    <3>5. CASE <<rows[k], rows[i]>> \notin B
      <4>1. CASE <<rows[i], rows[k]>> \in B
        BY <4>1 DEF Sooner
      <4>2. CASE <<rows[i], rows[k]>> \notin B
        <5>1. <<rows[i], rows[j]>> \in B => <<rows[k], rows[j]>> \in B
          BY <3>1, <3>2, <4>2
        <5>2. <<rows[j], rows[k]>> \in B => <<rows[j], rows[i]>> \in B
          BY <3>1, <3>2, <4>2
        <5>3. i < j /\ j < k
          BY <2>2, <3>1, <3>3, <5>1, <5>2 DEF Sooner
        <5> QED BY <3>1, <3>5, <5>3 DEF Sooner
      <4> QED BY <4>1, <4>2
    <3> QED BY <3>4, <3>5
  <2>3. \A i, j, k \in D : <<i, j>> \in R /\ <<j, k>> \in R => <<i, k>> \in R
    <3> HIDE DEF R, D
    <3> QED BY <1>2, <2>2
  <2>4. \A i, j \in D : i # j => <<i, j>> \in R \/ <<j, i>> \in R
    <3>1. ASSUME NEW i \in D, NEW j \in D, i # j PROVE Sooner(rows, B, i, j) \/ Sooner(rows, B, j, i)
      BY <3>1 DEF Sooner
    <3> HIDE DEF R, D
    <3> QED BY <1>2, <3>1
  <2> HIDE DEF R, D
  <2> QED BY <2>1, <2>3, <2>4 DEF TotalOrder, StrictOrder
<1>4. Places(pos, R, m)
  <2> HIDE DEF R
  <2> QED BY <1>1, <1>3, RanksArePlaces
<1>5. \A n \in D : out[n] = rows[pos[n]]
  <2>1. \A i \in D : {j \in DOMAIN rows : Sooner(rows, B, j, i)} = {j \in D : <<j, i>> \in R}
    <3> HIDE DEF R, D
    <3> QED BY <1>1, <1>2
  <2>2. \A i \in D : RankIn(R, D, i) = 1 + Cardinality({j \in DOMAIN rows : Sooner(rows, B, j, i)})
    <3> HIDE DEF R, D
    <3> QED BY <2>1 DEF RankIn
  <2>3. \A n \in D : (CHOOSE i \in D : RankIn(R, D, i) = n)
          = CHOOSE i \in DOMAIN rows : 1 + Cardinality({j \in DOMAIN rows : Sooner(rows, B, j, i)}) = n
    <3> HIDE DEF R, D
    <3> QED BY <1>1, <2>2
  <2>4. \A n \in D : pos[n] = CHOOSE i \in D : RankIn(R, D, i) = n
    <3> HIDE DEF R, D
    <3> QED OBVIOUS
  <2> HIDE DEF pos, R, D
  <2>5. \A n \in D : out[n] = rows[CHOOSE i \in DOMAIN rows :
                       1 + Cardinality({j \in DOMAIN rows : Sooner(rows, B, j, i)}) = n]
    BY <1>1 DEF RankedBy
  <2> QED BY <2>3, <2>4, <2>5
<1> HIDE DEF pos
<1>6. /\ pos \in [D -> D] /\ (\A i \in D : \E n \in D : pos[n] = i)
      /\ \A n, k \in D : n < k => Sooner(rows, B, pos[n], pos[k])
  <2>1. /\ pos \in [D -> D] /\ (\A i \in D : \E n \in D : pos[n] = i)
        /\ \A n, k \in D : n < k => <<pos[n], pos[k]>> \in R
    BY <1>4 DEF Places
  <2> HIDE DEF R, D
  <2> QED BY <1>2, <2>1
<1>7. DOMAIN out = D /\ out = [n \in D |-> out[n]]
  BY <1>1 DEF RankedBy
<1> HIDE DEF D, R
<1>8. \A n \in D : out[n] \in S /\ Has(rows, out[n])
  BY <1>1, <1>5, <1>6 DEF Has
<1>9. out \in Seq(S)
  <2>1. out \in [D -> S]
    BY <1>7, <1>8
  <2>2. m \in Nat /\ out \in [1 .. m -> S]
    BY <1>1, <2>1 DEF D
  <2> HIDE DEF m
  <2> QED BY ONLY <2>2
<1>10. ASSUME NEW i \in D PROVE Has(out, rows[i])
  <2>1. PICK n \in D : pos[n] = i
    BY <1>6
  <2>2. n \in DOMAIN out /\ out[n] = rows[i]
    BY <1>5, <1>7, <2>1
  <2> QED BY <2>2 DEF Has
<1>11. ASSUME NEW n \in D, NEW k \in D, n < k
       PROVE  \/ <<out[n], out[k]>> \in B
              \/ /\ <<out[k], out[n]>> \notin B
                 /\ \E i, j \in DOMAIN rows : i < j /\ rows[i] = out[n] /\ rows[j] = out[k]
  <2>1. /\ Sooner(rows, B, pos[n], pos[k]) /\ pos[n] \in D /\ pos[k] \in D
        /\ out[n] = rows[pos[n]] /\ out[k] = rows[pos[k]]
    BY <1>5, <1>6, <1>11
  <2> QED BY <1>1, <2>1 DEF Sooner
<1> QED BY <1>1, <1>7, <1>8, <1>9, <1>10, <1>11 DEF StablySorts

-----------------------------------------------------------------------------
(* One pass of _sort_rows.                                                 *)

Nullables == {Null} \union [1 .. 1 -> Int]
Pairs(ascending) == [seq : Int, row : [DOMAIN ascending -> Nullables]]

\* ORDER BY one expression, nulls last.
KeyBefore(asc, u, v) ==
  /\ u # Null
  /\ v = Null \/ (asc /\ u[1] < v[1]) \/ (~ asc /\ u[1] > v[1])

KeyOrder(ascending, e) ==
  {p \in Pairs(ascending) \X Pairs(ascending) :
     KeyBefore(ascending[e], p[1].row[e], p[2].row[e])}

\* A nullable value is null or a number.
LEMMA NullablesFacts ==
  /\ \A v \in Nullables : v # Null => v[1] \in Int
  /\ \A u, v \in Nullables : u # Null /\ v # Null /\ u[1] = v[1] => u = v
<1>1. \A v \in Nullables : v # Null => v \in [1 .. 1 -> Int]
  BY DEF Nullables
<1>2. \A v \in [1 .. 1 -> Int] : v[1] \in Int /\ v = [i \in {1} |-> v[1]]
  <2>1. 1 .. 1 = {1}
    OBVIOUS
  <2> QED BY <2>1
<1> QED BY <1>1, <1>2

\* KeyBefore orders nullable values; those it does not order are equal.
LEMMA KeyFacts ==
  ASSUME NEW asc \in BOOLEAN, NEW u \in Nullables, NEW v \in Nullables
  PROVE  /\ ~ KeyBefore(asc, u, u)
         /\ KeyBefore(asc, u, v) => ~ KeyBefore(asc, v, u)
         /\ ~ KeyBefore(asc, u, v) /\ ~ KeyBefore(asc, v, u) => u = v
         /\ \A w \in Nullables : KeyBefore(asc, u, v) => KeyBefore(asc, u, w) \/ KeyBefore(asc, w, v)
<1>1. ~ KeyBefore(asc, u, u) /\ (KeyBefore(asc, u, v) => ~ KeyBefore(asc, v, u))
  BY NullablesFacts DEF KeyBefore
<1>2. ~ KeyBefore(asc, u, v) /\ ~ KeyBefore(asc, v, u) => u = v
  BY NullablesFacts DEF KeyBefore
<1>3. ASSUME NEW w \in Nullables, KeyBefore(asc, u, v)
      PROVE  KeyBefore(asc, u, w) \/ KeyBefore(asc, w, v)
  BY <1>3, NullablesFacts DEF KeyBefore
<1> QED BY <1>1, <1>2, <1>3

LEMMA KeyOrderWeak ==
  ASSUME NEW ascending \in Seq(BOOLEAN), NEW e \in DOMAIN ascending
  PROVE  WeakOrder(KeyOrder(ascending, e), Pairs(ascending))
<1> DEFINE S == Pairs(ascending)
           asc == ascending[e]
<1>1. asc \in BOOLEAN /\ \A a \in S : a.row[e] \in Nullables
  BY DEF Pairs
<1>2. \A a, b \in S : <<a, b>> \in KeyOrder(ascending, e) <=> KeyBefore(asc, a.row[e], b.row[e])
  BY DEF KeyOrder
<1> HIDE DEF S, asc
<1>3. \A a \in S : ~ KeyBefore(asc, a.row[e], a.row[e])
  BY <1>1, KeyFacts
<1>4. \A a, b \in S : KeyBefore(asc, a.row[e], b.row[e]) => ~ KeyBefore(asc, b.row[e], a.row[e])
  BY <1>1, KeyFacts
<1>5. \A a, b, c \in S : KeyBefore(asc, a.row[e], b.row[e]) =>
         KeyBefore(asc, a.row[e], c.row[e]) \/ KeyBefore(asc, c.row[e], b.row[e])
  BY <1>1, KeyFacts
<1>6. WeakOrder(KeyOrder(ascending, e), S)
  BY <1>2, <1>3, <1>4, <1>5 DEF WeakOrder
<1> QED BY <1>6 DEF S

\* Comparing the keys of a pass, the other way round if it is descending.
LEMMA PassKeys ==
  ASSUME NEW asc \in BOOLEAN, NEW u \in Nullables, NEW v \in Nullables
  PROVE  (IF asc THEN LexLess(NullLastSortKey(asc, u), NullLastSortKey(asc, v))
                 ELSE LexLess(NullLastSortKey(asc, v), NullLastSortKey(asc, u)))
           <=> KeyBefore(asc, u, v)
<1> DEFINE a == NullLastSortKey(asc, u)
           b == NullLastSortKey(asc, v)
<1>1. \A x, y : DOMAIN x = {1, 2} =>
         (LexLess(x, y) <=> x[1] < y[1] \/ (x[1] = y[1] /\ x[2] < y[2]))
  <2>1. 1 .. 1 - 1 = {} /\ 1 .. 2 - 1 = {1}
    OBVIOUS
  <2> QED BY <2>1 DEF LexLess
<1>2. /\ DOMAIN a = {1, 2} /\ DOMAIN b = {1, 2}
      /\ a[1] = (IF (u = Null) = asc THEN 1 ELSE 0) /\ a[2] = OrZero(u)
      /\ b[1] = (IF (v = Null) = asc THEN 1 ELSE 0) /\ b[2] = OrZero(v)
  BY DEF NullLastSortKey
<1> HIDE DEF a, b
<1>3. /\ LexLess(a, b) <=> a[1] < b[1] \/ (a[1] = b[1] /\ a[2] < b[2])
      /\ LexLess(b, a) <=> b[1] < a[1] \/ (b[1] = a[1] /\ b[2] < a[2])
  BY <1>1, <1>2
<1>4. OrZero(u) \in Int /\ OrZero(v) \in Int
      /\ (u # Null => OrZero(u) = u[1]) /\ (v # Null => OrZero(v) = v[1])
      /\ (u = Null => OrZero(u) = 0) /\ (v = Null => OrZero(v) = 0)
  BY NullablesFacts DEF OrZero
<1> DEFINE p == OrZero(u)
           q == OrZero(v)
<1>5. ASSUME asc PROVE LexLess(a, b) <=> KeyBefore(asc, u, v)
  <2>1. a[1] = (IF u = Null THEN 1 ELSE 0) /\ b[1] = IF v = Null THEN 1 ELSE 0
    BY <1>2, <1>5
  <2>2. KeyBefore(asc, u, v) <=> u # Null /\ (v = Null \/ p < q)
    BY <1>4, <1>5 DEF KeyBefore
  <2> HIDE DEF p, q
  <2>3. p \in Int /\ q \in Int /\ a[2] = p /\ b[2] = q /\ (u = Null => p = 0) /\ (v = Null => q = 0)
    BY <1>2, <1>4 DEF p, q
  <2> QED BY <1>3, <2>1, <2>2, <2>3
<1>6. ASSUME ~ asc PROVE LexLess(b, a) <=> KeyBefore(asc, u, v)
  <2>1. a[1] = (IF u = Null THEN 0 ELSE 1) /\ b[1] = IF v = Null THEN 0 ELSE 1
    BY <1>2, <1>6
  <2>2. KeyBefore(asc, u, v) <=> u # Null /\ (v = Null \/ p > q)
    BY <1>4, <1>6 DEF KeyBefore
  <2> HIDE DEF p, q
  <2>3. p \in Int /\ q \in Int /\ a[2] = p /\ b[2] = q /\ (u = Null => p = 0) /\ (v = Null => q = 0)
    BY <1>2, <1>4 DEF p, q
  <2> QED BY <1>3, <2>1, <2>2, <2>3
<1> QED BY <1>5, <1>6 DEF a, b

\* list.sort by one expression sorts stably by it, nulls last.
LEMMA PassSorts ==
  ASSUME NEW ascending \in Seq(BOOLEAN), NEW e \in DOMAIN ascending,
         NEW rows \in Seq(Pairs(ascending))
  PROVE  /\ SortPass(e, ascending[e], rows) \in Seq(Pairs(ascending))
         /\ StablySorts(SortPass(e, ascending[e], rows), rows, KeyOrder(ascending, e))
<1> DEFINE S == Pairs(ascending)
           B == KeyOrder(ascending, e)
           asc == ascending[e]
           D == DOMAIN rows
           Less(a, b) == IF asc THEN LexLess(NullLastSortKey(asc, a.row[e]), NullLastSortKey(asc, b.row[e]))
                                ELSE LexLess(NullLastSortKey(asc, b.row[e]), NullLastSortKey(asc, a.row[e]))
           out == SortPass(e, asc, rows)
<1>1. asc \in BOOLEAN /\ (\A a \in S : a.row[e] \in Nullables) /\ \A i \in D : rows[i] \in S
  <2>1. asc \in BOOLEAN /\ \A a \in S : a.row[e] \in Nullables
    BY DEF Pairs
  <2>2. \A i \in D : rows[i] \in S
    <3> HIDE DEF S
    <3>1. rows \in Seq(S)
      BY DEF S
    <3> QED BY <3>1
  <2> QED BY <2>1, <2>2
<1>2. \A i, j \in D : Less(rows[i], rows[j]) <=> <<rows[i], rows[j]>> \in B
  <2>1. \A a, b \in S : Less(a, b) <=> KeyBefore(asc, a.row[e], b.row[e])
    <3> HIDE DEF S, asc
    <3> QED BY <1>1, PassKeys
  <2>2. \A a, b \in S : <<a, b>> \in B <=> KeyBefore(asc, a.row[e], b.row[e])
    BY DEF KeyOrder
  <2> HIDE DEF S, B, Less, D, asc
  <2> QED BY <1>1, <2>1, <2>2
<1>3. out = [n \in D |-> rows[CHOOSE i \in D :
              1 + Cardinality({j \in D : Less(rows[j], rows[i]) \/ (j < i /\ ~ Less(rows[i], rows[j]))}) = n]]
  BY DEF SortPass, StableSort
<1> HIDE DEF Less, out, B
<1>4. \A i \in D : {j \in D : Less(rows[j], rows[i]) \/ (j < i /\ ~ Less(rows[i], rows[j]))}
                     = {j \in D : Sooner(rows, B, j, i)}
  <2> HIDE DEF D
  <2> QED BY <1>2 DEF Sooner
<1>5. RankedBy(out, rows, B)
  <2>1. \A n \in D : (CHOOSE i \in D :
              1 + Cardinality({j \in D : Less(rows[j], rows[i]) \/ (j < i /\ ~ Less(rows[i], rows[j]))}) = n)
          = CHOOSE i \in D : 1 + Cardinality({j \in D : Sooner(rows, B, j, i)}) = n
    <3> HIDE DEF D
    <3> QED BY <1>4
  <2>2. \A n \in D : out[n] = rows[CHOOSE i \in D :
              1 + Cardinality({j \in D : Less(rows[j], rows[i]) \/ (j < i /\ ~ Less(rows[i], rows[j]))}) = n]
    <3> HIDE DEF D
    <3> QED BY <1>3
  <2>3. out = [n \in D |-> out[n]]
    <3> HIDE DEF D
    <3> QED BY <1>3
  <2>4. \A n \in D : out[n] = rows[CHOOSE i \in D : 1 + Cardinality({j \in D : Sooner(rows, B, j, i)}) = n]
    <3> HIDE DEF D
    <3> QED BY <2>1, <2>2
  <2> QED BY <2>3, <2>4 DEF RankedBy
<1>6. WeakOrder(B, S)
  BY KeyOrderWeak DEF B
<1>7. out \in Seq(S) /\ StablySorts(out, rows, B)
  <2> HIDE DEF S
  <2>1. rows \in Seq(S)
    BY DEF S
  <2> QED BY <1>5, <1>6, <2>1, StableBy
<1> QED BY <1>7 DEF out, B

-----------------------------------------------------------------------------
(* The passes of _sort_rows, the last expression first.                    *)

Rows(ascending) == [DOMAIN ascending -> Nullables]

\* The row a comes before b in the expressions behind the first e.
PrecedesFrom(ascending, e, a, b) ==
  \E d \in e + 1 .. Len(ascending) :
    /\ \A c \in e + 1 .. d - 1 : a[c] = b[c]
    /\ KeyBefore(ascending[d], a[d], b[d])

LEMMA FromNext ==
  ASSUME NEW ascending \in Seq(BOOLEAN), NEW e \in Nat, e + 1 \in DOMAIN ascending,
         NEW a \in Rows(ascending), NEW b \in Rows(ascending)
  PROVE  PrecedesFrom(ascending, e, a, b) <=>
           \/ KeyBefore(ascending[e + 1], a[e + 1], b[e + 1])
           \/ a[e + 1] = b[e + 1] /\ PrecedesFrom(ascending, e + 1, a, b)
<1> DEFINE k == Len(ascending)
           f == e + 1
           Here(d) == KeyBefore(ascending[d], a[d], b[d])
<1>1. k \in Nat /\ f \in 1 .. k /\ f + 1 \in Nat
  OBVIOUS
<1>2. ASSUME PrecedesFrom(ascending, e, a, b)
      PROVE  Here(f) \/ (a[f] = b[f] /\ PrecedesFrom(ascending, f, a, b))
  <2>1. PICK d \in f .. k : (\A c \in f .. d - 1 : a[c] = b[c]) /\ Here(d)
    BY <1>2 DEF PrecedesFrom
  <2>2. CASE d = f
    BY <2>1, <2>2
  <2>3. CASE d # f
    <3>1. d \in f + 1 .. k /\ f \in f .. d - 1 /\ \A c \in f + 1 .. d - 1 : c \in f .. d - 1
      BY <1>1, <2>3
    <3> HIDE DEF f, k, Here
    <3>2. a[f] = b[f] /\ \A c \in f + 1 .. d - 1 : a[c] = b[c]
      BY <2>1, <3>1
    <3> QED BY <2>1, <3>1, <3>2 DEF PrecedesFrom, k, Here
  <2> QED BY <2>2, <2>3
<1>3. ASSUME Here(f) PROVE PrecedesFrom(ascending, e, a, b)
  <2>1. f \in f .. k /\ f .. f - 1 = {}
    BY <1>1
  <2> QED BY <1>3, <2>1 DEF PrecedesFrom
<1>4. ASSUME a[f] = b[f], PrecedesFrom(ascending, f, a, b) PROVE PrecedesFrom(ascending, e, a, b)
  <2>1. PICK d \in f + 1 .. k : (\A c \in f + 1 .. d - 1 : a[c] = b[c]) /\ Here(d)
    BY <1>4 DEF PrecedesFrom
  <2>2. d \in f .. k /\ \A c \in f .. d - 1 : c = f \/ c \in f + 1 .. d - 1
    BY <1>1
  <2>3. \A c \in f .. d - 1 : a[c] = b[c]
    <3> HIDE DEF f
    <3> QED BY <1>4, <2>1, <2>2
  <2> HIDE DEF Here, k
  <2> QED BY <2>1, <2>2, <2>3 DEF PrecedesFrom, Here, k
<1> QED BY <1>2, <1>3, <1>4

\* It is a strict weak order, and rows it does not order are equal there.
FromIsOrder(ascending, e) ==
  \A a, b \in Rows(ascending) :
    /\ ~ PrecedesFrom(ascending, e, a, a)
    /\ PrecedesFrom(ascending, e, a, b) => ~ PrecedesFrom(ascending, e, b, a)
    /\ ~ PrecedesFrom(ascending, e, a, b) /\ ~ PrecedesFrom(ascending, e, b, a)
         => \A d \in e + 1 .. Len(ascending) : a[d] = b[d]
    /\ \A c \in Rows(ascending) :
         PrecedesFrom(ascending, e, a, b) =>
           PrecedesFrom(ascending, e, a, c) \/ PrecedesFrom(ascending, e, c, b)

LEMMA FromOrders ==
  ASSUME NEW ascending \in Seq(BOOLEAN), NEW e \in 0 .. Len(ascending)
  PROVE  FromIsOrder(ascending, e)
<1> DEFINE k == Len(ascending)
           T == {n \in Nat : n <= k => FromIsOrder(ascending, k - n)}
<1>1. k \in Nat /\ DOMAIN ascending = 1 .. k
  OBVIOUS
<1>2. 0 \in T
  <2>1. k + 1 .. k = {} /\ k - 0 = k
    BY <1>1
  <2>2. FromIsOrder(ascending, k)
    BY <2>1 DEF FromIsOrder, PrecedesFrom
  <2> HIDE DEF k
  <2> QED BY <2>1, <2>2
<1>3. ASSUME NEW n \in T PROVE n + 1 \in T
  <2> SUFFICES ASSUME n + 1 <= k PROVE FromIsOrder(ascending, k - (n + 1))
    OBVIOUS
  <2> DEFINE h == k - (n + 1)
             f == h + 1
             asc == ascending[f]
             P(a, b) == PrecedesFrom(ascending, h, a, b)
             Q(a, b) == PrecedesFrom(ascending, f, a, b)
             K(a, b) == KeyBefore(asc, a[f], b[f])
  <2>1. h \in Nat /\ f \in DOMAIN ascending /\ k - n = f /\ asc \in BOOLEAN /\ n <= k
    BY <1>1
  <2>2. FromIsOrder(ascending, f)
    BY <2>1
  <2>3. \A a, b \in Rows(ascending) : P(a, b) <=> K(a, b) \/ (a[f] = b[f] /\ Q(a, b))
    <3> HIDE DEF h, asc
    <3> QED BY <2>1, FromNext DEF asc
  <2>4. \A a \in Rows(ascending) : a[f] \in Nullables
    BY <2>1 DEF Rows
  <2>5. \A a, b \in Rows(ascending) :
          /\ ~ K(a, a) /\ (K(a, b) => ~ K(b, a)) /\ (~ K(a, b) /\ ~ K(b, a) => a[f] = b[f])
          /\ \A c \in Rows(ascending) : K(a, b) => K(a, c) \/ K(c, b)
    <3> HIDE DEF f, asc
    <3> QED BY <2>1, <2>4, KeyFacts
  <2>6. \A a, b \in Rows(ascending) :
          /\ ~ Q(a, a) /\ (Q(a, b) => ~ Q(b, a))
          /\ ~ Q(a, b) /\ ~ Q(b, a) => \A d \in f + 1 .. k : a[d] = b[d]
          /\ \A c \in Rows(ascending) : Q(a, b) => Q(a, c) \/ Q(c, b)
    <3> HIDE DEF f, k
    <3> QED BY <2>2 DEF FromIsOrder, k
  <2>7. \A a, b \in Rows(ascending) : (a[f] = b[f] => ~ K(a, b))
    BY <2>4, <2>1, KeyFacts
  <2>8. \A d \in h + 1 .. k : d = f \/ d \in f + 1 .. k
    <3>1. h \in Nat /\ k \in Nat /\ f = h + 1
      BY <1>1, <2>1
    <3> HIDE DEF h, k, f
    <3> QED BY <3>1
  <2> HIDE DEF P, Q, K, h, f
  <2>9. ASSUME NEW a \in Rows(ascending), NEW b \in Rows(ascending)
        PROVE  /\ ~ P(a, a)
               /\ P(a, b) => ~ P(b, a)
               /\ ~ P(a, b) /\ ~ P(b, a) => \A d \in h + 1 .. k : a[d] = b[d]
    <3>1. ~ P(a, a)
      BY <2>3, <2>5, <2>6
    <3>2. P(a, b) => ~ P(b, a)
      BY <2>3, <2>5, <2>6, <2>7
    <3>3. ASSUME ~ P(a, b), ~ P(b, a) PROVE \A d \in h + 1 .. k : a[d] = b[d]
      <4>1. a[f] = b[f] /\ ~ Q(a, b) /\ ~ Q(b, a)
        BY <2>3, <2>5, <3>3
      <4> QED BY <2>6, <2>8, <4>1
    <3> QED BY <3>1, <3>2, <3>3
  <2>10. ASSUME NEW a \in Rows(ascending), NEW b \in Rows(ascending), NEW c \in Rows(ascending), P(a, b)
         PROVE  P(a, c) \/ P(c, b)
    <3>1. CASE K(a, b)
      <4>1. K(a, c) \/ K(c, b)
        BY <2>5, <3>1
      <4> QED BY <2>3, <4>1
    <3>2. CASE a[f] = b[f] /\ Q(a, b)
      <4>1. Q(a, c) \/ Q(c, b)
        BY <2>6, <3>2
      <4>2. K(a, c) \/ K(c, a) \/ a[f] = c[f]
        BY <2>5
      <4>3. K(c, a) => K(c, b)
        <5>1. K(c, a) => K(c, b) \/ K(b, a)
          BY <2>5
        <5>2. ~ K(b, a)
          BY <2>7, <3>2
        <5> QED BY <5>1, <5>2
      <4> QED BY <2>3, <3>2, <4>1, <4>2, <4>3
    <3> QED BY <2>3, <2>10, <3>1, <3>2
  <2> QED BY <2>9, <2>10 DEF FromIsOrder, P, h, k
<1>4. T = Nat
  <2>1. T \subseteq Nat
    OBVIOUS
  <2> HIDE DEF T
  <2> QED BY <1>2, <1>3, <2>1, NatInductionSet
<1>5. k - e \in Nat /\ k - e <= k /\ k - (k - e) = e
  BY <1>1
<1> DEFINE n == k - e
<1>6. n \in T
  <2> HIDE DEF T, n
  <2> QED BY <1>4, <1>5 DEF n
<1>7. FromIsOrder(ascending, k - n)
  BY <1>5, <1>6
<1> HIDE DEF k
<1> QED BY <1>5, <1>7

\* What holds of two pairs in their order when the expressions behind the
\* first e are sorted: ties are in their order if the rows are all the same.
Kept(ascending, e) ==
  {p \in Pairs(ascending) \X Pairs(ascending) :
     /\ ~ PrecedesFrom(ascending, e, p[2].row, p[1].row)
     /\ p[1].row = p[2].row => p[1].seq < p[2].seq}

\* The order of a stable sort: by Precedes, ties by seq.
RowOrder(ascending) == Kept(ascending, 0)

\* The elements are the same.
SameElements(s, t) == DOMAIN s = DOMAIN t /\ \A x : Has(s, x) <=> Has(t, x)

LEMMA KeptIs ==
  ASSUME NEW ascending, NEW e, NEW a \in Pairs(ascending), NEW b \in Pairs(ascending)
  PROVE  <<a, b>> \in Kept(ascending, e) <=>
           /\ ~ PrecedesFrom(ascending, e, b.row, a.row)
           /\ a.row = b.row => a.seq < b.seq
BY DEF Kept

LEMMA OnePass ==
  ASSUME NEW ascending \in Seq(BOOLEAN), NEW e \in Nat, e + 1 \in DOMAIN ascending,
         NEW rows \in Seq(Pairs(ascending)), Arranged(rows, Kept(ascending, e + 1)),
         NEW out, out = SortPass(e + 1, ascending[e + 1], rows)
  PROVE  /\ out \in Seq(Pairs(ascending))
         /\ SameElements(out, rows)
         /\ Arranged(out, Kept(ascending, e))
<1> DEFINE S == Pairs(ascending)
           f == e + 1
           B == KeyOrder(ascending, f)
           asc == ascending[f]
<1>1. out \in Seq(S) /\ StablySorts(out, rows, B)
  BY PassSorts
<1>2. SameElements(out, rows)
  BY <1>1 DEF StablySorts, SameElements, Has
<1>3. /\ \A a \in S : a.row \in Rows(ascending) /\ a.row[f] \in Nullables
      /\ asc \in BOOLEAN
  BY DEF Pairs, Rows
<1>4. \A a, b \in S : /\ <<a, b>> \in B <=> KeyBefore(asc, a.row[f], b.row[f])
                      /\ PrecedesFrom(ascending, e, a.row, b.row) <=>
                           \/ KeyBefore(asc, a.row[f], b.row[f])
                           \/ a.row[f] = b.row[f] /\ PrecedesFrom(ascending, f, a.row, b.row)
  <2>1. \A a, b \in S : <<a, b>> \in B <=> KeyBefore(asc, a.row[f], b.row[f])
    BY DEF KeyOrder
  <2>2. ASSUME NEW a \in S, NEW b \in S
        PROVE PrecedesFrom(ascending, e, a.row, b.row) <=>
                \/ KeyBefore(asc, a.row[f], b.row[f])
                \/ a.row[f] = b.row[f] /\ PrecedesFrom(ascending, f, a.row, b.row)
    <3>1. a.row \in Rows(ascending) /\ b.row \in Rows(ascending)
      BY <1>3
    <3> QED BY <3>1, FromNext
  <2> QED BY <2>1, <2>2
<1>5. ASSUME NEW n \in DOMAIN out, NEW k \in DOMAIN out, n < k
      PROVE  <<out[n], out[k]>> \in Kept(ascending, e)
  <2> DEFINE a == out[n]
             b == out[k]
  <2>1. a \in S /\ b \in S
    <3> HIDE DEF S
    <3> QED BY <1>1
  <2>2. \/ <<a, b>> \in B
        \/ <<b, a>> \notin B /\ \E i, j \in DOMAIN rows : i < j /\ rows[i] = a /\ rows[j] = b
    BY <1>1, <1>5 DEF StablySorts
  <2> HIDE DEF a, b, S, B, f, asc
  <2>3. CASE <<a, b>> \in B
    <3>1. KeyBefore(asc, a.row[f], b.row[f])
      BY <1>4, <2>1, <2>3
    <3>2. ~ KeyBefore(asc, b.row[f], a.row[f]) /\ a.row[f] # b.row[f]
      BY <1>3, <2>1, <3>1, KeyFacts
    <3>3. ~ PrecedesFrom(ascending, e, b.row, a.row) /\ a.row # b.row
      BY <1>4, <2>1, <3>2
    <3> QED BY <2>1, <3>3, KeptIs DEF a, b, S
  <2>4. CASE <<a, b>> \notin B
    <3>1. PICK i \in DOMAIN rows, j \in DOMAIN rows : i < j /\ rows[i] = a /\ rows[j] = b
      BY <2>2, <2>4
    <3>2. <<a, b>> \in Kept(ascending, f)
      BY <3>1 DEF Arranged, f
    <3>3. ~ PrecedesFrom(ascending, f, b.row, a.row) /\ (a.row = b.row => a.seq < b.seq)
      BY <2>1, <3>2, KeptIs DEF S
    <3>4. ~ KeyBefore(asc, b.row[f], a.row[f])
      BY <1>4, <2>1, <2>2, <2>4
    <3>5. ~ PrecedesFrom(ascending, e, b.row, a.row)
      BY <1>4, <2>1, <3>3, <3>4
    <3> QED BY <2>1, <3>3, <3>5, KeptIs DEF a, b, S
  <2> QED BY <2>3, <2>4
<1>6. Arranged(out, Kept(ascending, e))
  BY <1>5 DEF Arranged
<1> QED BY <1>1, <1>2, <1>6

\* Equal rows are in their order.
Ties(ascending) ==
  {p \in Pairs(ascending) \X Pairs(ascending) : p[1].row = p[2].row => p[1].seq < p[2].seq}

\* _sort_rows: a stable sort by all expressions of rows that have their ties
\* in order.
THEOREM SortRowsSorts ==
  ASSUME NEW ascending \in Seq(BOOLEAN),
         NEW rows \in Seq(Pairs(ascending)), Arranged(rows, Ties(ascending)),
         NEW out, out = SortRows(ascending, rows)
  PROVE  /\ out \in Seq(Pairs(ascending))
         /\ SameElements(out, rows)
         /\ Arranged(out, RowOrder(ascending))
<1> DEFINE S == Pairs(ascending)
           V == Seq(S)
           k == Len(ascending)
           D == 1 .. k
           es == Reverse([e \in DOMAIN ascending |-> e])
           Pass(i, s) == SortPass(es[i], ascending[es[i]], s)
           Body(iter) ==
             [s \in SUBSET DOMAIN es |->
                IF s = {} THEN rows ELSE LET x == Max(s) IN Pass(x, iter[s \ {x}])]
           chosen == CHOOSE iter : iter = Body(iter)
           pick == [s \in SUBSET D |-> Max(s)]
           step == [p \in D \X V |-> Pass(p[1], p[2])]
<1>1. k \in Nat /\ DOMAIN ascending = D /\ DOMAIN es = D /\ IsFiniteSet(D)
  <2>1. k \in Nat /\ DOMAIN ascending = D
    OBVIOUS
  <2>2. DOMAIN es = D
    BY <2>1 DEF Reverse
  <2>3. IsFiniteSet(D)
    <3> HIDE DEF k
    <3> QED BY <2>1, FS_Interval
  <2> QED BY <2>1, <2>2, <2>3
<1>2. \A i \in D : es[i] = k - i + 1 /\ es[i] \in DOMAIN ascending
  <2>1. \A i \in D : es[i] = k - i + 1
    BY <1>1 DEF Reverse
  <2>2. \A i \in D : k - i + 1 \in D
    BY <1>1
  <2> QED BY <1>1, <2>1, <2>2
<1>3. Picks(pick, D) /\ \A s \in SUBSET D : pick[s] = Max(s)
  <2> HIDE DEF k
  <2> QED BY <1>1, MaxIn DEF Picks
<1>4. step \in [D \X V -> V]
  <2>1. \A i \in D : \A s \in V : Pass(i, s) \in V
    <3> HIDE DEF es, D
    <3> QED BY <1>2, PassSorts
  <2> HIDE DEF Pass, V, D
  <2> QED BY <2>1
<1>5. PICK it \in [SUBSET D -> V] : Unfolds(it, D, pick, rows, step)
  <2> HIDE DEF D, pick, step
  <2>1. rows \in V
    OBVIOUS
  <2> HIDE DEF V
  <2> QED BY <1>1, <1>3, <1>4, <2>1, FoldExists
<1> HIDE DEF es, V
<1>6. it = Body(it)
  <2>1. it[{}] = rows
    BY <1>5 DEF Unfolds
  <2>2. ASSUME NEW s \in SUBSET D, s # {} PROVE it[s] = Pass(Max(s), it[s \ {Max(s)}])
    <3>1. it[s] = step[<<pick[s], it[s \ {pick[s]}]>>]
      BY <1>5, <2>2 DEF Unfolds
    <3>2. pick[s] = Max(s) /\ Max(s) \in D /\ it[s \ {Max(s)}] \in V
      BY <1>3, <2>2 DEF Picks
    <3> HIDE DEF D, pick, Pass
    <3> QED BY <3>1, <3>2
  <2> HIDE DEF D, Pass
  <2> QED BY <1>1, <2>1, <2>2
<1>7. chosen = Body(chosen)
  <2> HIDE DEF Body
  <2> QED BY <1>6
<1>8. out = chosen[D]
  <2>1. out = chosen[DOMAIN es]
    BY DEF SortRows, FoldLeft, MapThenFoldSet, es
  <2> HIDE DEF chosen
  <2> QED BY <1>1, <2>1
<1>9. /\ chosen[{}] = rows
      /\ \A s \in SUBSET D : s # {} => chosen[s] = Pass(Max(s), chosen[s \ {Max(s)}])
  <2>1. \A iter : iter = Body(iter) =>
           /\ iter[{}] = rows
           /\ \A s \in SUBSET D : s # {} => iter[s] = Pass(Max(s), iter[s \ {Max(s)}])
    <3> HIDE DEF Pass, D
    <3> QED BY <1>1
  <2> HIDE DEF Body, chosen
  <2> QED BY <1>7, <2>1
<1> HIDE DEF chosen
<1> DEFINE T == {i \in Nat : i <= k =>
                   /\ chosen[1 .. i] \in Seq(S)
                   /\ SameElements(chosen[1 .. i], rows)
                   /\ Arranged(chosen[1 .. i], Kept(ascending, k - i))}
<1>10. 0 \in T
  <2>1. 1 .. 0 = {} /\ k - 0 = k /\ k + 1 .. k = {}
    BY <1>1
  <2>2. Arranged(rows, Kept(ascending, k))
    <3>1. \A a, b : ~ PrecedesFrom(ascending, k, a, b)
      BY <2>1 DEF PrecedesFrom
    <3>2. \A p \in Ties(ascending) : p \in Kept(ascending, k)
      BY <3>1 DEF Ties, Kept
    <3> QED BY <3>2 DEF Arranged
  <2>3. SameElements(rows, rows)
    BY DEF SameElements
  <2> HIDE DEF k
  <2> QED BY <1>9, <2>1, <2>2, <2>3
<1>11. ASSUME NEW i \in T PROVE i + 1 \in T
  <2> DEFINE j == i + 1
             e == k - j
             f == e + 1
             old == chosen[1 .. i]
             new == chosen[1 .. j]
  <2>1. SUFFICES ASSUME j <= k
                 PROVE  new \in Seq(S) /\ SameElements(new, rows) /\ Arranged(new, Kept(ascending, e))
    OBVIOUS
  <2>2. e \in Nat /\ f \in DOMAIN ascending /\ k - i = f /\ k - j + 1 = f /\ i <= k /\ i \in Nat /\ j \in D
    BY <1>1, <2>1
  <2>3. old \in Seq(S) /\ SameElements(old, rows) /\ Arranged(old, Kept(ascending, f))
    BY <2>2
  <2>4. new = SortPass(f, ascending[f], old)
    <3>1. 1 .. j \in SUBSET D /\ 1 .. j # {} /\ (1 .. j) \ {j} = 1 .. i /\ j \in 1 .. j /\ j \in Nat
      <4>1. i \in Nat /\ k \in Nat /\ j = i + 1 /\ j <= k
        BY <1>1, <2>1, <2>2
      <4> HIDE DEF k, j
      <4>2. j \in 1 .. j /\ j \in Nat /\ \A x \in 1 .. j : x \in 1 .. k
        BY <4>1
      <4>3. \A x : x \in 1 .. j /\ x # j <=> x \in 1 .. i
        BY <4>1
      <4> QED BY <4>2, <4>3
    <3>2. Max(1 .. j) = j
      <4> DEFINE s == 1 .. j
      <4>1. Max(s) \in s /\ \A x \in s : x <= Max(s)
        <5>1. s \in SUBSET (1 .. j) /\ s # {} /\ j \in Nat
          BY <3>1
        <5> HIDE DEF s, j
        <5> QED BY <5>1, MaxIn
      <4>2. j <= Max(s)
        BY <3>1, <4>1
      <4> QED BY <4>1, <4>2
    <3>3. new = Pass(j, chosen[1 .. i])
      <4> DEFINE s == 1 .. j
                 r == 1 .. i
      <4>1. s \in SUBSET D /\ s # {} /\ s \ {j} = r /\ Max(s) = j
        BY <3>1, <3>2
      <4> HIDE DEF s, r, j, D, Pass
      <4>2. chosen[s] = Pass(j, chosen[r])
        BY <1>9, <4>1
      <4> QED BY <4>2 DEF s, r
    <3>4. es[j] = f
      BY <1>2, <2>2
    <3> QED BY <3>3, <3>4
  <2> HIDE DEF old, new, f, j, k
  <2>5. new \in Seq(S) /\ SameElements(new, old) /\ Arranged(new, Kept(ascending, e))
    <3> HIDE DEF e
    <3> QED BY <2>2, <2>3, <2>4, OnePass DEF f
  <2>6. SameElements(new, rows)
    BY <2>3, <2>5 DEF SameElements
  <2> QED BY <2>5, <2>6
<1>12. T = Nat
  <2>1. T \subseteq Nat
    OBVIOUS
  <2> HIDE DEF T
  <2> QED BY <1>10, <1>11, <2>1, NatInductionSet
<1>13. k \in T /\ k <= k /\ k - k = 0
  BY <1>1, <1>12
<1> HIDE DEF k
<1> QED BY <1>8, <1>13 DEF RowOrder

-----------------------------------------------------------------------------
(* The order of the result.                                                *)

LEMMA PrecedesIsFrom ==
  ASSUME NEW ascending \in Seq(BOOLEAN), NEW a \in Rows(ascending), NEW b \in Rows(ascending)
  PROVE  Precedes(ascending, a, b) <=> PrecedesFrom(ascending, 0, a, b)
<1>1. DOMAIN ascending = 0 + 1 .. Len(ascending)
  OBVIOUS
<1>2. \A d \in DOMAIN ascending : d - 1 \in Int /\ 1 .. d - 1 = 0 + 1 .. d - 1 /\ ascending[d] \in BOOLEAN
  OBVIOUS
<1>3. \A d \in DOMAIN ascending :
         KeyBefore(ascending[d], a[d], b[d]) <=>
           /\ a[d] # Null
           /\ \/ b[d] = Null
              \/ b[d] # Null /\ ascending[d] /\ a[d][1] < b[d][1]
              \/ b[d] # Null /\ ~ ascending[d] /\ a[d][1] > b[d][1]
  BY DEF KeyBefore
<1> QED BY <1>1, <1>2, <1>3 DEF Precedes, PrecedesFrom

LEMMA RowOrderIs ==
  ASSUME NEW ascending \in Seq(BOOLEAN), NEW a \in Pairs(ascending), NEW b \in Pairs(ascending)
  PROVE  <<a, b>> \in RowOrder(ascending) <=>
           \/ PrecedesFrom(ascending, 0, a.row, b.row)
           \/ a.row = b.row /\ a.seq < b.seq
<1> DEFINE P(x, y) == PrecedesFrom(ascending, 0, x, y)
<1>1. a.row \in Rows(ascending) /\ b.row \in Rows(ascending) /\ a.seq \in Int /\ b.seq \in Int
  BY DEF Pairs, Rows
<1>2. FromIsOrder(ascending, 0)
  <2>1. 0 \in 0 .. Len(ascending)
    OBVIOUS
  <2> QED BY <2>1, FromOrders
<1>3. /\ ~ P(a.row, a.row)
      /\ P(a.row, b.row) => ~ P(b.row, a.row)
      /\ ~ P(a.row, b.row) /\ ~ P(b.row, a.row) => \A d \in 0 + 1 .. Len(ascending) : a.row[d] = b.row[d]
  <2> HIDE DEF P
  <2> QED BY <1>1, <1>2 DEF FromIsOrder, P
<1>4. (\A d \in 0 + 1 .. Len(ascending) : a.row[d] = b.row[d]) => a.row = b.row
  <2>1. DOMAIN ascending = 0 + 1 .. Len(ascending)
    OBVIOUS
  <2> QED BY <1>1, <2>1 DEF Rows
<1>5. <<a, b>> \in RowOrder(ascending) <=> ~ P(b.row, a.row) /\ (a.row = b.row => a.seq < b.seq)
  BY KeptIs DEF RowOrder
<1> HIDE DEF P
<1>6. a.row = b.row => ~ P(b.row, a.row) /\ ~ P(a.row, b.row)
  BY <1>3
<1>7. <<a, b>> \in RowOrder(ascending) <=> P(a.row, b.row) \/ (a.row = b.row /\ a.seq < b.seq)
  BY <1>3, <1>4, <1>5, <1>6
<1> QED BY <1>7 DEF P

\* It is a strict order, total on pairs with distinct tags.
LEMMA RowOrderStrict ==
  ASSUME NEW ascending \in Seq(BOOLEAN)
  PROVE  /\ StrictOrder(RowOrder(ascending), Pairs(ascending))
         /\ \A a, b \in Pairs(ascending) :
              a = b \/ <<a, b>> \in RowOrder(ascending) \/ <<b, a>> \in RowOrder(ascending)
<1> DEFINE S == Pairs(ascending)
           Q == RowOrder(ascending)
           P(x, y) == PrecedesFrom(ascending, 0, x, y)
<1>1. \A a \in S : a.row \in Rows(ascending) /\ a.seq \in Int
  BY DEF Pairs, Rows
<1>2. FromIsOrder(ascending, 0)
  <2>1. 0 \in 0 .. Len(ascending)
    OBVIOUS
  <2> QED BY <2>1, FromOrders
<1>3. \A a, b \in Rows(ascending) :
        /\ ~ P(a, a)
        /\ P(a, b) => ~ P(b, a)
        /\ \A c \in Rows(ascending) : P(a, b) => P(a, c) \/ P(c, b)
  <2> HIDE DEF P
  <2> QED BY <1>2 DEF FromIsOrder, P
<1>4. \A a, b \in S : <<a, b>> \in Q <=> P(a.row, b.row) \/ (a.row = b.row /\ a.seq < b.seq)
  BY RowOrderIs
<1>5. \A a, b \in S : <<a, b>> \in Q <=> ~ P(b.row, a.row) /\ (a.row = b.row => a.seq < b.seq)
  BY KeptIs DEF RowOrder
<1>6. \A a, b \in S : a.row = b.row /\ a.seq = b.seq => a = b
  BY DEF Pairs
<1> HIDE DEF S, Q, P
<1>7. \A a \in S : <<a, a>> \notin Q
  BY <1>1, <1>3, <1>4
<1>8. ASSUME NEW a \in S, NEW b \in S, NEW c \in S, <<a, b>> \in Q, <<b, c>> \in Q
      PROVE  <<a, c>> \in Q
  <2>1. CASE P(a.row, b.row)
    <3>1. ~ P(c.row, b.row)
      BY <1>5, <1>8
    <3>2. P(a.row, c.row)
      BY <1>1, <1>3, <2>1, <3>1
    <3> QED BY <1>4, <3>2
  <2>2. CASE a.row = b.row /\ a.seq < b.seq
    <3>1. CASE P(b.row, c.row)
      <4>1. P(a.row, c.row)
        BY <2>2, <3>1
      <4> QED BY <1>4, <4>1
    <3>2. CASE b.row = c.row /\ b.seq < c.seq
      <4>1. a.row = c.row /\ a.seq < c.seq
        BY <1>1, <2>2, <3>2
      <4> QED BY <1>4, <4>1
    <3> QED BY <1>4, <1>8, <3>1, <3>2
  <2> QED BY <1>4, <1>8, <2>1, <2>2
<1>9. \A a, b \in S : a = b \/ <<a, b>> \in Q \/ <<b, a>> \in Q
  <2> SUFFICES ASSUME NEW a \in S, NEW b \in S, <<a, b>> \notin Q, <<b, a>> \notin Q PROVE a = b
    OBVIOUS
  <2>1. ~ P(a.row, b.row) /\ ~ P(b.row, a.row)
    BY <1>4
  <2>2. a.row = b.row /\ ~ (a.seq < b.seq) /\ ~ (b.seq < a.seq)
    BY <1>4, <1>5, <2>1
  <2> QED BY <1>1, <1>6, <2>2
<1>10. StrictOrder(Q, S)
  BY <1>7, <1>8 DEF StrictOrder
<1> QED BY <1>9, <1>10 DEF S, Q

\* Rows tagged with their positions.
Tag(from, s) == [i \in DOMAIN s |-> [seq |-> from + i - 1, row |-> s[i]]]

LEMMA TagZero ==
  ASSUME NEW A, NEW s \in Seq(A)
  PROVE  Tag(0, s) = [i \in DOMAIN s |-> [seq |-> i - 1, row |-> s[i]]]
<1>1. \A i \in DOMAIN s : 0 + i - 1 = i - 1
  OBVIOUS
<1> QED BY <1>1 DEF Tag

\* The tags order the ties.
LEMMA TaggedRows ==
  ASSUME NEW ascending \in Seq(BOOLEAN), NEW from \in Int, NEW rows \in Seq(Rows(ascending)),
         NEW tagged, tagged = Tag(from, rows)
  PROVE  /\ tagged \in Seq(Pairs(ascending))
         /\ Len(tagged) = Len(rows)
         /\ Arranged(tagged, Ties(ascending))
         /\ \A x : Has(tagged, x) => x.seq \in from .. from + Len(rows) - 1 /\ Has(rows, x.row)
<1> DEFINE n == Len(rows)
           S == Pairs(ascending)
<1>1. n \in Nat /\ DOMAIN rows = 1 .. n
  OBVIOUS
<1>2. \A i \in 1 .. n : tagged[i] \in S /\ tagged[i].seq = from + i - 1 /\ tagged[i].row = rows[i]
  <2> SUFFICES ASSUME NEW i \in 1 .. n
               PROVE  tagged[i] \in S /\ tagged[i].seq = from + i - 1 /\ tagged[i].row = rows[i]
    OBVIOUS
  <2>1. rows[i] \in [DOMAIN ascending -> Nullables] /\ from + i - 1 \in Int
    BY DEF Rows
  <2>2. tagged[i] = [seq |-> from + i - 1, row |-> rows[i]]
    BY <1>1 DEF Tag
  <2> QED BY <2>1, <2>2 DEF Pairs
<1>3. tagged \in [1 .. n -> S]
  <2>1. tagged = [i \in 1 .. n |-> tagged[i]]
    BY <1>1 DEF Tag
  <2> HIDE DEF S, n
  <2> QED BY <1>2, <2>1
<1>4. tagged \in Seq(S) /\ Len(tagged) = n
  <2> HIDE DEF S, n
  <2>1. tagged \in Seq(S)
    BY ONLY <1>1, <1>3
  <2> QED BY <1>1, <1>3, <2>1
<1>5. ASSUME NEW i \in DOMAIN tagged, NEW j \in DOMAIN tagged, i < j
      PROVE  <<tagged[i], tagged[j]>> \in Ties(ascending)
  <2>1. i \in 1 .. n /\ j \in 1 .. n /\ from + i - 1 < from + j - 1
    BY <1>1, <1>3, <1>5
  <2> HIDE DEF n
  <2>2. tagged[i] \in S /\ tagged[j] \in S /\ tagged[i].seq < tagged[j].seq
    BY <1>2, <2>1
  <2> QED BY <2>2 DEF Ties
<1>6. ASSUME NEW x, Has(tagged, x) PROVE x.seq \in from .. from + n - 1 /\ Has(rows, x.row)
  <2>1. PICK i \in 1 .. n : tagged[i] = x
    BY <1>3, <1>6 DEF Has
  <2>2. x.seq = from + i - 1 /\ x.row = rows[i] /\ i \in DOMAIN rows
    BY <1>1, <1>2, <2>1
  <2>3. from + i - 1 \in from .. from + n - 1
    BY <1>1
  <2> QED BY <2>2, <2>3 DEF Has
<1> QED BY <1>4, <1>5, <1>6 DEF Arranged

\* The one stable sort is the arrangement of the tagged rows.
LEMMA OrderedBySorts ==
  ASSUME NEW ascending \in Seq(BOOLEAN), NEW rows \in Seq(Rows(ascending)),
         NEW tagged, tagged = [i \in DOMAIN rows |-> [seq |-> i - 1, row |-> rows[i]]],
         NEW out, out = OrderedBy(ascending, rows)
  PROVE  /\ out \in Seq(Pairs(ascending))
         /\ Len(out) = Len(rows)
         /\ SameElements(out, tagged)
         /\ Arranged(out, RowOrder(ascending))
<1> DEFINE S == Pairs(ascending)
           B == {p \in S \X S : PrecedesFrom(ascending, 0, p[1].row, p[2].row)}
           D == DOMAIN tagged
           Less(a, b) == Precedes(ascending, a.row, b.row)
<1>0. tagged = Tag(0, rows)
  BY TagZero
<1>1. tagged \in Seq(S) /\ Len(tagged) = Len(rows) /\ Arranged(tagged, Ties(ascending))
  BY <1>0, TaggedRows
<1>2. \A a \in S : a.row \in Rows(ascending) /\ a.seq \in Int
  BY DEF Pairs, Rows
<1>3. \A i \in D : tagged[i] \in S
  <2> HIDE DEF S
  <2> QED BY <1>1
<1>4. \A i, j \in D : Less(tagged[i], tagged[j]) <=> <<tagged[i], tagged[j]>> \in B
  <2>1. \A a, b \in S : Precedes(ascending, a.row, b.row) <=> PrecedesFrom(ascending, 0, a.row, b.row)
    BY <1>2, PrecedesIsFrom
  <2>2. \A a, b \in S : <<a, b>> \in B <=> PrecedesFrom(ascending, 0, a.row, b.row)
    OBVIOUS
  <2>3. \A a, b \in S : Less(a, b) <=> <<a, b>> \in B
    <3> HIDE DEF S, B
    <3> QED BY <2>1, <2>2
  <2> HIDE DEF S, D, B, Less
  <2> QED BY <1>3, <2>3
<1>5. WeakOrder(B, S)
  <2>1. FromIsOrder(ascending, 0)
    <3>1. 0 \in 0 .. Len(ascending)
      OBVIOUS
    <3> QED BY <3>1, FromOrders
  <2>2. \A a, b \in S : <<a, b>> \in B <=> PrecedesFrom(ascending, 0, a.row, b.row)
    OBVIOUS
  <2> HIDE DEF S, B
  <2>3. \A a, b \in S : /\ <<a, a>> \notin B
                        /\ <<a, b>> \in B => <<b, a>> \notin B
                        /\ \A c \in S : <<a, b>> \in B => <<a, c>> \in B \/ <<c, b>> \in B
    BY <1>2, <2>1, <2>2 DEF FromIsOrder
  <2> QED BY <2>3 DEF WeakOrder
<1>6. out = [n \in D |-> tagged[CHOOSE i \in D :
              1 + Cardinality({j \in D : Less(tagged[j], tagged[i]) \/ (j < i /\ ~ Less(tagged[i], tagged[j]))}) = n]]
  BY DEF OrderedBy, StableSort
<1> HIDE DEF Less, B
<1>7. \A i \in D : {j \in D : Less(tagged[j], tagged[i]) \/ (j < i /\ ~ Less(tagged[i], tagged[j]))}
                     = {j \in D : Sooner(tagged, B, j, i)}
  <2> HIDE DEF D
  <2> QED BY <1>4 DEF Sooner
<1>8. RankedBy(out, tagged, B)
  <2>1. \A n \in D : (CHOOSE i \in D :
              1 + Cardinality({j \in D : Less(tagged[j], tagged[i]) \/ (j < i /\ ~ Less(tagged[i], tagged[j]))}) = n)
          = CHOOSE i \in D : 1 + Cardinality({j \in D : Sooner(tagged, B, j, i)}) = n
    <3> HIDE DEF D
    <3> QED BY <1>7
  <2>2. out = [n \in D |-> out[n]]
    <3> HIDE DEF D
    <3> QED BY <1>6
  <2>3. \A n \in D : out[n] = tagged[CHOOSE i \in D :
              1 + Cardinality({j \in D : Less(tagged[j], tagged[i]) \/ (j < i /\ ~ Less(tagged[i], tagged[j]))}) = n]
    <3> HIDE DEF D
    <3> QED BY <1>6
  <2>4. \A n \in D : out[n] = tagged[CHOOSE i \in D : 1 + Cardinality({j \in D : Sooner(tagged, B, j, i)}) = n]
    <3> HIDE DEF D
    <3> QED BY <2>1, <2>3
  <2> QED BY <2>2, <2>4 DEF RankedBy
<1>9. out \in Seq(S) /\ StablySorts(out, tagged, B)
  <2> HIDE DEF S
  <2> QED BY <1>1, <1>5, <1>8, StableBy
<1>10. SameElements(out, tagged) /\ DOMAIN out = DOMAIN tagged
  BY <1>9 DEF StablySorts, SameElements, Has
<1>11. Len(out) = Len(rows)
  <2> HIDE DEF S, D
  <2> QED BY <1>1, <1>9, <1>10
<1>12. ASSUME NEW n \in DOMAIN out, NEW k \in DOMAIN out, n < k
       PROVE  <<out[n], out[k]>> \in RowOrder(ascending)
  <2> DEFINE a == out[n]
             b == out[k]
  <2>1. a \in S /\ b \in S
    <3> HIDE DEF S
    <3> QED BY <1>9
  <2>2. \/ <<a, b>> \in B
        \/ <<b, a>> \notin B /\ \E i, j \in DOMAIN tagged : i < j /\ tagged[i] = a /\ tagged[j] = b
    BY <1>9, <1>12 DEF StablySorts
  <2>3. \A x, y \in S : <<x, y>> \in B <=> PrecedesFrom(ascending, 0, x.row, y.row)
    BY DEF B
  <2>4. <<a, b>> \notin B => (a.row = b.row => a.seq < b.seq)
    <3>1. ASSUME <<a, b>> \notin B PROVE <<a, b>> \in Ties(ascending)
      BY <1>1, <2>2, <3>1 DEF Arranged
    <3> QED BY <3>1 DEF Ties
  <2>5. <<a, b>> \in B => <<b, a>> \notin B /\ a.row # b.row
    <3> HIDE DEF a, b, S
    <3>1. <<a, b>> \in B => <<b, a>> \notin B
      BY <1>5, <2>1 DEF WeakOrder
    <3>2. a.row = b.row => (<<a, b>> \in B <=> <<b, a>> \in B)
      BY <2>1, <2>3
    <3> QED BY <3>1, <3>2
  <2> HIDE DEF a, b, S
  <2>6. ~ PrecedesFrom(ascending, 0, b.row, a.row) /\ (a.row = b.row => a.seq < b.seq)
    BY <2>1, <2>2, <2>3, <2>4, <2>5
  <2> QED BY <2>1, <2>6, KeptIs DEF RowOrder, a, b, S
<1>13. Arranged(out, RowOrder(ascending))
  BY <1>12 DEF Arranged
<1> QED BY <1>9, <1>10, <1>11, <1>13

-----------------------------------------------------------------------------
(* The merge key.                                                          *)

\* Every element of ss is two long, and flat lists them.
TwoByTwo(ss) == \A i \in DOMAIN ss : Len(ss[i]) = 2
ListsPairs(flat, ss, n) ==
  /\ Len(flat) = 2 * n
  /\ \A i \in 1 .. n : flat[2 * i - 1] = ss[i][1] /\ flat[2 * i] = ss[i][2]

LEMMA FlattenPairs ==
  ASSUME NEW A, NEW ss \in Seq(Seq(A)), TwoByTwo(ss)
  PROVE  FlattenSeq(ss) \in Seq(A) /\ ListsPairs(FlattenSeq(ss), ss, Len(ss))
<1> DEFINE Good(tt) == FlattenSeq(tt) \in Seq(A) /\ ListsPairs(FlattenSeq(tt), tt, Len(tt))
           T == {n \in Nat : \A tt \in Seq(Seq(A)) : Len(tt) = n /\ TwoByTwo(tt) => Good(tt)}
<1>1. 0 \in T
  <2>1. ASSUME NEW tt \in Seq(Seq(A)), Len(tt) = 0 PROVE Good(tt)
    <3>1. tt = <<>> /\ Len(<<>>) = 2 * 0 /\ 1 .. 0 = {} /\ <<>> \in Seq(A)
      BY <2>1
    <3>2. FlattenSeq(tt) = <<>> /\ Len(tt) = 0
      BY <2>1, <3>1, FlattenEmpty
    <3> QED BY <3>1, <3>2 DEF ListsPairs
  <2> HIDE DEF Good
  <2> QED BY <2>1
<1>2. ASSUME NEW n \in T PROVE n + 1 \in T
  <2>1. SUFFICES ASSUME NEW tt \in Seq(Seq(A)), Len(tt) = n + 1, TwoByTwo(tt) PROVE Good(tt)
    <3> HIDE DEF Good
    <3> QED OBVIOUS
  <2> DEFINE init == SubSeq(tt, 1, n)
             last == tt[n + 1]
  <2>2. /\ n \in Nat /\ init \in Seq(Seq(A)) /\ Len(init) = n /\ last \in Seq(A)
        /\ \A i \in 1 .. n : init[i] = tt[i]
    BY <2>1
  <2>3. tt = Append(init, last)
    BY <2>1, <2>2
  <2>4. Len(last) = 2 /\ TwoByTwo(init)
    <3>1. n + 1 \in DOMAIN tt /\ DOMAIN init = 1 .. n /\ \A i \in 1 .. n : i \in DOMAIN tt
      BY <2>1, <2>2
    <3> HIDE DEF init
    <3> QED BY <2>2, <3>1, <2>1 DEF TwoByTwo
  <2> HIDE DEF init, last
  <2>5. Good(init)
    <3> HIDE DEF Good
    <3> QED BY <2>2, <2>4
  <2> DEFINE g == FlattenSeq(init)
             f == FlattenSeq(tt)
  <2>6. f = g \o last
    BY <2>2, <2>3, FlattenAppend
  <2>7. g \in Seq(A) /\ Len(g) = 2 * n
        /\ \A i \in 1 .. n : g[2 * i - 1] = tt[i][1] /\ g[2 * i] = tt[i][2]
    BY <2>2, <2>5 DEF ListsPairs
  <2> HIDE DEF f, g
  <2>8. /\ f \in Seq(A) /\ Len(f) = 2 * n + 2
        /\ \A p \in 1 .. 2 * n : f[p] = g[p]
        /\ f[2 * n + 1] = last[1] /\ f[2 * n + 2] = last[2]
    <3>1. /\ f \in Seq(A) /\ DOMAIN f = 1 .. Len(g) + Len(last)
          /\ \A p \in 1 .. Len(g) : f[p] = g[p]
          /\ \A j \in 1 .. Len(last) : f[Len(g) + j] = last[j]
      <4>1. g \in Seq(A) /\ last \in Seq(A)
        BY <2>2, <2>7
      <4>2. /\ g \o last \in Seq(A) /\ DOMAIN (g \o last) = 1 .. Len(g) + Len(last)
            /\ \A p \in 1 .. Len(g) : (g \o last)[p] = g[p]
            /\ \A j \in 1 .. Len(last) : (g \o last)[Len(g) + j] = last[j]
        BY <4>1, ConcatFacts
      <4> QED BY <2>6, <4>2
    <3>2. 1 \in 1 .. Len(last) /\ 2 \in 1 .. Len(last)
      BY <2>4
    <3>3. Len(f) = 2 * n + 2
      <4>1. DOMAIN f = 1 .. 2 * n + 2 /\ 2 * n + 2 \in Nat
        BY <2>2, <2>4, <2>7, <3>1
      <4>2. DOMAIN f = 1 .. Len(f) /\ Len(f) \in Nat
        BY <3>1
      <4> QED BY <4>1, <4>2
    <3>4. f[2 * n + 1] = last[1] /\ f[2 * n + 2] = last[2]
      BY <2>7, <3>1, <3>2
    <3> QED BY <2>7, <3>1, <3>3, <3>4
  <2>9. ASSUME NEW i \in 1 .. n + 1 PROVE f[2 * i - 1] = tt[i][1] /\ f[2 * i] = tt[i][2]
    <3>1. CASE i = n + 1
      <4>1. 2 * i - 1 = 2 * n + 1 /\ 2 * i = 2 * n + 2
        BY <2>2, <3>1
      <4> QED BY <2>8, <3>1, <4>1 DEF last
    <3>2. CASE i # n + 1
      <4>1. i \in 1 .. n /\ 2 * i - 1 \in 1 .. 2 * n /\ 2 * i \in 1 .. 2 * n
        BY <2>2, <3>2
      <4> QED BY <2>7, <2>8, <4>1
    <3> QED BY <3>1, <3>2
  <2>10. Len(f) = 2 * (n + 1)
    BY <2>2, <2>8
  <2>11. ListsPairs(f, tt, n + 1)
    BY <2>9, <2>10 DEF ListsPairs
  <2> QED BY <2>1, <2>8, <2>11 DEF f
<1>3. T = Nat
  <2>1. T \subseteq Nat
    OBVIOUS
  <2> HIDE DEF T
  <2> QED BY <1>1, <1>2, <2>1, NatInductionSet
<1>4. Len(ss) \in T
  <2>1. Len(ss) \in Nat
    OBVIOUS
  <2> HIDE DEF T
  <2> QED BY <1>3, <2>1
<1>5. \A tt \in Seq(Seq(A)) : Len(tt) = Len(ss) /\ TwoByTwo(tt) => Good(tt)
  <2> HIDE DEF Good
  <2> QED BY <1>4
<1>6. Good(ss)
  <2> HIDE DEF Good
  <2> QED BY <1>5
<1> QED BY <1>6

\* The two numbers that stand for one expression in the key.
NullFlag(value) == IF value = Null THEN 1 ELSE 0
SignedValue(asc, value) == IF asc THEN OrZero(value) ELSE - OrZero(value)

\* What a merge key holds.
IsKey(key, ascending, pair) ==
  /\ DOMAIN key = 1 .. 2 * Len(ascending) + 1
  /\ \A n \in DOMAIN key : key[n] \in Int
  /\ \A d \in DOMAIN ascending :
       /\ key[2 * d - 1] = NullFlag(pair.row[d])
       /\ key[2 * d] = SignedValue(ascending[d], pair.row[d])
  /\ key[2 * Len(ascending) + 1] = pair.seq

LEMMA CompositeKeyIs ==
  ASSUME NEW ascending \in Seq(BOOLEAN), NEW pair \in Pairs(ascending),
         NEW key, key = CompositeKey(ascending, pair)
  PROVE  IsKey(key, ascending, pair)
<1> DEFINE k == Len(ascending)
           D == DOMAIN ascending
           flag(d) == NullFlag(pair.row[d])
           signed(d) == SignedValue(ascending[d], pair.row[d])
           ss == [e \in D |-> <<flag(e), signed(e)>>]
           flat == FlattenSeq(ss)
<1>1. k \in Nat /\ D = 1 .. k /\ pair.seq \in Int
  BY DEF Pairs
<1>2. ASSUME NEW d \in D PROVE flag(d) \in Int /\ signed(d) \in Int
  <2>1. pair.row[d] \in Nullables /\ ascending[d] \in BOOLEAN
    BY DEF Pairs
  <2>2. OrZero(pair.row[d]) \in Int
    BY <2>1, NullablesFacts DEF OrZero
  <2> QED BY <2>1, <2>2 DEF NullFlag, SignedValue
<1>3. key = Append(flat, pair.seq)
  BY DEF CompositeKey, NullFlag, SignedValue
<1> HIDE DEF flag, signed
<1>4. /\ ss \in [1 .. k -> Seq(Int)]
      /\ \A d \in D : Len(ss[d]) = 2 /\ ss[d][1] = flag(d) /\ ss[d][2] = signed(d)
  <2>1. \A d \in D : <<flag(d), signed(d)>> \in Seq(Int)
    BY <1>2
  <2> HIDE DEF k, D
  <2> QED BY <1>1, <2>1
<1> HIDE DEF ss
<1>5. ss \in Seq(Seq(Int)) /\ DOMAIN ss = D /\ Len(ss) = k
  <2>1. ss \in Seq(Seq(Int))
    <3> HIDE DEF k
    <3> QED BY ONLY <1>1, <1>4
  <2> HIDE DEF k
  <2> QED BY <1>1, <1>4, <2>1
<1>6. flat \in Seq(Int) /\ ListsPairs(flat, ss, k)
  <2>1. TwoByTwo(ss)
    BY <1>4, <1>5 DEF TwoByTwo
  <2> QED BY <1>5, <2>1, FlattenPairs
<1> HIDE DEF flat, k
<1>7. /\ Len(flat) = 2 * k
      /\ \A d \in D : flat[2 * d - 1] = flag(d) /\ flat[2 * d] = signed(d)
  BY <1>1, <1>4, <1>6 DEF ListsPairs
<1>8. /\ DOMAIN key = 1 .. 2 * k + 1
      /\ \A n \in DOMAIN key : key[n] \in Int
      /\ key[2 * k + 1] = pair.seq
      /\ \A n \in 1 .. 2 * k : key[n] = flat[n]
  BY <1>1, <1>3, <1>6, <1>7
<1>9. \A d \in D : key[2 * d - 1] = flag(d) /\ key[2 * d] = signed(d)
  <2>1. \A d \in D : 2 * d - 1 \in 1 .. 2 * k /\ 2 * d \in 1 .. 2 * k
    BY <1>1
  <2> HIDE DEF D
  <2> QED BY <1>7, <1>8, <2>1
<1> QED BY <1>8, <1>9 DEF IsKey, k, flag, signed

\* LexLess never holds both ways.
LEMMA LexLessOneWay ==
  ASSUME NEW n \in Nat, NEW x, NEW y, DOMAIN x = 1 .. n, DOMAIN y = 1 .. n,
         \A i \in 1 .. n : x[i] \in Int /\ y[i] \in Int, LexLess(x, y)
  PROVE  ~ LexLess(y, x) /\ x # y
<1>1. PICK i \in 1 .. n : x[i] < y[i] /\ \A h \in 1 .. i - 1 : x[h] = y[h]
  BY DEF LexLess
<1>2. ASSUME LexLess(y, x) PROVE FALSE
  <2>1. PICK j \in 1 .. n : y[j] < x[j] /\ \A h \in 1 .. j - 1 : y[h] = x[h]
    BY <1>2 DEF LexLess
  <2>2. i < j => i \in 1 .. j - 1
    OBVIOUS
  <2>3. j < i => j \in 1 .. i - 1
    OBVIOUS
  <2>4. i = j \/ i < j \/ j < i
    OBVIOUS
  <2> QED BY <1>1, <2>1, <2>2, <2>3, <2>4
<1> QED BY <1>1, <1>2

\* The key orders values as KeyBefore does, and equal values are equal in it.
LEMMA KeyNumbers ==
  ASSUME NEW asc \in BOOLEAN, NEW u \in Nullables, NEW v \in Nullables, KeyBefore(asc, u, v)
  PROVE  \/ NullFlag(u) < NullFlag(v)
         \/ NullFlag(u) = NullFlag(v) /\ SignedValue(asc, u) < SignedValue(asc, v)
<1>1. u # Null /\ u[1] \in Int /\ (v # Null => v[1] \in Int)
  BY NullablesFacts DEF KeyBefore
<1>2. CASE v = Null
  BY <1>1, <1>2 DEF NullFlag
<1>3. CASE v # Null
  BY <1>1, <1>3 DEF NullFlag, SignedValue, OrZero, KeyBefore
<1> QED BY <1>2, <1>3

\* What is in order has lesser keys.
LEMMA OrderedKeys ==
  ASSUME NEW ascending \in Seq(BOOLEAN), NEW a \in Pairs(ascending), NEW b \in Pairs(ascending),
         NEW x, IsKey(x, ascending, a), NEW y, IsKey(y, ascending, b),
         <<a, b>> \in RowOrder(ascending)
  PROVE  LexLess(x, y)
<1> DEFINE k == Len(ascending)
           D == DOMAIN ascending
           l == 2 * k + 1
<1>1. k \in Nat /\ D = 1 .. k /\ l \in Nat
  OBVIOUS
<1>2. /\ DOMAIN x = 1 .. l /\ DOMAIN y = 1 .. l
      /\ x[l] = a.seq /\ y[l] = b.seq
      /\ \A d \in D : /\ x[2 * d - 1] = NullFlag(a.row[d]) /\ x[2 * d] = SignedValue(ascending[d], a.row[d])
                      /\ y[2 * d - 1] = NullFlag(b.row[d]) /\ y[2 * d] = SignedValue(ascending[d], b.row[d])
  BY DEF IsKey
<1>3. \A h \in 1 .. 2 * k : \E c \in D : h = 2 * c - 1 \/ h = 2 * c
  <2> SUFFICES ASSUME NEW h \in 1 .. 2 * k PROVE \E c \in D : h = 2 * c - 1 \/ h = 2 * c
    OBVIOUS
  <2> DEFINE c == (h + 1) \div 2
  <2>1. c \in 1 .. k /\ (h = 2 * c - 1 \/ h = 2 * c)
    BY <1>1
  <2> HIDE DEF c
  <2> QED BY <1>1, <2>1
<1>4. ASSUME NEW m \in 0 .. k, \A c \in 1 .. m : a.row[c] = b.row[c]
      PROVE  \A h \in 1 .. 2 * m : x[h] = y[h]
  <2> SUFFICES ASSUME NEW h \in 1 .. 2 * m PROVE x[h] = y[h]
    OBVIOUS
  <2>1. h \in 1 .. 2 * k
    BY <1>1
  <2>2. PICK c \in D : h = 2 * c - 1 \/ h = 2 * c
    BY <1>3, <2>1
  <2>3. c \in 1 .. m
    BY <1>1, <2>2
  <2> QED BY <1>2, <1>4, <2>2, <2>3
<1>5. ASSUME NEW n \in 1 .. l, x[n] < y[n], \A h \in 1 .. n - 1 : x[h] = y[h]
      PROVE  LexLess(x, y)
  BY <1>2, <1>5 DEF LexLess
<1>6. CASE a.row = b.row /\ a.seq < b.seq
  <2>1. k \in 0 .. k /\ l \in 1 .. l /\ l - 1 = 2 * k
    BY <1>1
  <2>2. \A h \in 1 .. l - 1 : x[h] = y[h]
    BY <1>4, <1>6, <2>1
  <2> QED BY <1>2, <1>5, <1>6, <2>1, <2>2
<1>7. CASE PrecedesFrom(ascending, 0, a.row, b.row)
  <2>1. PICK d \in 0 + 1 .. k :
          (\A c \in 0 + 1 .. d - 1 : a.row[c] = b.row[c]) /\ KeyBefore(ascending[d], a.row[d], b.row[d])
    BY <1>7 DEF PrecedesFrom
  <2> DEFINE m == d - 1
  <2>2. d \in D /\ m \in 0 .. k /\ 0 + 1 .. d - 1 = 1 .. m
    BY <1>1
  <2>3. \A h \in 1 .. 2 * m : x[h] = y[h]
    <3>1. \A c \in 1 .. m : a.row[c] = b.row[c]
      BY <2>1, <2>2
    <3> QED BY <1>4, <2>2, <3>1
  <2>4. a.row[d] \in Nullables /\ b.row[d] \in Nullables /\ ascending[d] \in BOOLEAN
    BY <2>2 DEF Pairs
  <2>5. \/ x[2 * d - 1] < y[2 * d - 1]
        \/ x[2 * d - 1] = y[2 * d - 1] /\ x[2 * d] < y[2 * d]
    BY <1>2, <2>1, <2>2, <2>4, KeyNumbers
  <2>6. CASE x[2 * d - 1] < y[2 * d - 1]
    <3>1. 2 * d - 1 \in 1 .. l /\ (2 * d - 1) - 1 = 2 * m
      BY <1>1, <2>2
    <3> QED BY <1>5, <2>3, <2>6, <3>1
  <2>7. CASE x[2 * d - 1] = y[2 * d - 1] /\ x[2 * d] < y[2 * d]
    <3>1. 2 * d \in 1 .. l /\ \A h \in 1 .. 2 * d - 1 : h \in 1 .. 2 * m \/ h = 2 * d - 1
      BY <1>1, <2>2
    <3>2. \A h \in 1 .. 2 * d - 1 : x[h] = y[h]
      BY <2>3, <2>7, <3>1
    <3> QED BY <1>5, <2>7, <3>1, <3>2
  <2> QED BY <2>5, <2>6, <2>7
<1> QED BY <1>6, <1>7, RowOrderIs

\* Comparing merge keys is comparing in the order of the result.
THEOREM MergeKeys ==
  ASSUME NEW ascending \in Seq(BOOLEAN), NEW a \in Pairs(ascending), NEW b \in Pairs(ascending)
  PROVE  LexLess(CompositeKey(ascending, a), CompositeKey(ascending, b))
           <=> <<a, b>> \in RowOrder(ascending)
<1> DEFINE x == CompositeKey(ascending, a)
           y == CompositeKey(ascending, b)
           l == 2 * Len(ascending) + 1
<1>1. IsKey(x, ascending, a) /\ IsKey(y, ascending, b) /\ l \in Nat
  BY CompositeKeyIs
<1> HIDE DEF x, y
<1>2. DOMAIN x = 1 .. l /\ DOMAIN y = 1 .. l /\ \A i \in 1 .. l : x[i] \in Int /\ y[i] \in Int
  BY <1>1 DEF IsKey
<1>3. <<a, b>> \in RowOrder(ascending) => LexLess(x, y)
  BY <1>1, OrderedKeys
<1>4. <<b, a>> \in RowOrder(ascending) => LexLess(y, x)
  BY <1>1, OrderedKeys
<1>5. a = b => x = y
  BY DEF x, y
<1>6. a = b \/ <<a, b>> \in RowOrder(ascending) \/ <<b, a>> \in RowOrder(ascending)
  BY RowOrderStrict
<1>7. LexLess(x, y) => ~ LexLess(y, x) /\ x # y
  <2> HIDE DEF l
  <2> QED BY <1>1, <1>2, LexLessOneWay
<1>8. LexLess(x, y) <=> <<a, b>> \in RowOrder(ascending)
  BY <1>3, <1>4, <1>5, <1>6, <1>7
<1> QED BY <1>8 DEF x, y

-----------------------------------------------------------------------------
(* Concatenations of arrangements.                                         *)

LEMMA ConcatHas ==
  ASSUME NEW A, NEW s \in Seq(A), NEW t \in Seq(A), NEW x
  PROVE  Has(s \o t, x) <=> Has(s, x) \/ Has(t, x)
<1> DEFINE u == s \o t
           m == Len(s)
           n == Len(t)
<1>1. /\ m \in Nat /\ n \in Nat /\ DOMAIN s = 1 .. m /\ DOMAIN t = 1 .. n /\ DOMAIN u = 1 .. m + n
      /\ (\A p \in 1 .. m : u[p] = s[p]) /\ \A j \in 1 .. n : u[m + j] = t[j]
  BY ConcatFacts
<1> HIDE DEF u, m, n
<1>2. /\ \A p \in 1 .. m : p \in 1 .. m + n
      /\ \A j \in 1 .. n : m + j \in 1 .. m + n
      /\ \A i \in 1 .. m + n : i \in 1 .. m \/ \E j \in 1 .. n : i = m + j
  <2>1. ASSUME NEW i \in 1 .. m + n, i \notin 1 .. m PROVE \E j \in 1 .. n : i = m + j
    <3>1. i - m \in 1 .. n /\ i = m + (i - m)
      BY <1>1, <2>1
    <3> QED BY <3>1
  <2> QED BY <1>1, <2>1
<1>3. Has(s, x) => Has(u, x)
  BY <1>1, <1>2 DEF Has
<1>4. Has(t, x) => Has(u, x)
  <2> SUFFICES ASSUME NEW j \in 1 .. n, t[j] = x PROVE Has(u, x)
    BY <1>1 DEF Has
  <2>1. m + j \in DOMAIN u /\ u[m + j] = x
    BY <1>1, <1>2
  <2> QED BY <2>1 DEF Has
<1>5. Has(u, x) => Has(s, x) \/ Has(t, x)
  <2> SUFFICES ASSUME NEW i \in 1 .. m + n, u[i] = x PROVE Has(s, x) \/ Has(t, x)
    BY <1>1 DEF Has
  <2>1. CASE i \in 1 .. m
    BY <1>1, <2>1 DEF Has
  <2>2. CASE \E j \in 1 .. n : i = m + j
    <3>1. PICK j \in 1 .. n : i = m + j
      BY <2>2
    <3>2. t[j] = x
      BY <1>1, <3>1
    <3> QED BY <1>1, <3>2 DEF Has
  <2> QED BY <1>2, <2>1, <2>2
<1> QED BY <1>3, <1>4, <1>5 DEF u

\* Every element of s comes before every one of t.
AllBefore(s, t, R) == \A x, y : Has(s, x) /\ Has(t, y) => <<x, y>> \in R

LEMMA ConcatArranged ==
  ASSUME NEW A, NEW s \in Seq(A), NEW t \in Seq(A), NEW R,
         Arranged(s, R), Arranged(t, R), AllBefore(s, t, R)
  PROVE  Arranged(s \o t, R)
<1> DEFINE u == s \o t
           m == Len(s)
           n == Len(t)
<1>1. /\ m \in Nat /\ n \in Nat /\ DOMAIN s = 1 .. m /\ DOMAIN t = 1 .. n /\ DOMAIN u = 1 .. m + n
      /\ (\A p \in 1 .. m : u[p] = s[p]) /\ \A j \in 1 .. n : u[m + j] = t[j]
  BY ConcatFacts
<1> HIDE DEF u, m, n
<1>2. \A i \in 1 .. m + n : i \in 1 .. m \/ (i > m /\ i - m \in 1 .. n /\ i = m + (i - m))
  BY <1>1
<1>3. \A i \in 1 .. m + n : i > m => i - m \in 1 .. n /\ u[i] = t[i - m]
  <2> SUFFICES ASSUME NEW i \in 1 .. m + n, i > m PROVE i - m \in 1 .. n /\ u[i] = t[i - m]
    OBVIOUS
  <2>1. i - m \in 1 .. n /\ i = m + (i - m)
    BY <1>1
  <2> QED BY <1>1, <2>1
<1>4. ASSUME NEW i \in DOMAIN u, NEW j \in DOMAIN u, i < j PROVE <<u[i], u[j]>> \in R
  <2>1. CASE j \in 1 .. m
    <3>1. i \in 1 .. m
      BY <1>1, <1>4, <2>1
    <3> QED BY <1>1, <1>4, <2>1, <3>1 DEF Arranged
  <2>2. CASE j > m /\ i \in 1 .. m
    <3>1. j - m \in 1 .. n /\ u[j] = t[j - m] /\ u[i] = s[i]
      BY <1>1, <1>3, <2>2
    <3>2. Has(s, u[i]) /\ Has(t, u[j])
      BY <1>1, <2>2, <3>1 DEF Has
    <3> QED BY <3>2 DEF AllBefore
  <2>3. CASE i > m /\ j > m
    <3>1. i - m \in 1 .. n /\ u[i] = t[i - m] /\ j - m \in 1 .. n /\ u[j] = t[j - m]
      BY <1>1, <1>3, <2>3
    <3>2. i - m < j - m
      BY <1>1, <1>4
    <3> QED BY <1>1, <3>1, <3>2 DEF Arranged
  <2> QED BY <1>1, <1>2, <1>4, <2>1, <2>2, <2>3
<1>5. Arranged(u, R)
  BY <1>4 DEF Arranged
<1> QED BY <1>5 DEF u

\* Arrangements in an order: any two of them are.
InOrder(ss, R) ==
  /\ \A p \in DOMAIN ss : Arranged(ss[p], R)
  /\ \A p, q \in DOMAIN ss : p < q => AllBefore(ss[p], ss[q], R)

LEMMA FlattenArranged ==
  ASSUME NEW A, NEW ss \in Seq(Seq(A)), NEW R, InOrder(ss, R)
  PROVE  /\ FlattenSeq(ss) \in Seq(A)
         /\ Arranged(FlattenSeq(ss), R)
         /\ \A x : Has(FlattenSeq(ss), x) <=> \E p \in DOMAIN ss : Has(ss[p], x)
<1> DEFINE Good(tt) == /\ FlattenSeq(tt) \in Seq(A)
                       /\ Arranged(FlattenSeq(tt), R)
                       /\ \A x : Has(FlattenSeq(tt), x) <=> \E p \in DOMAIN tt : Has(tt[p], x)
           T == {n \in Nat : \A tt \in Seq(Seq(A)) : Len(tt) = n /\ InOrder(tt, R) => Good(tt)}
<1>1. 0 \in T
  <2>1. ASSUME NEW tt \in Seq(Seq(A)), Len(tt) = 0 PROVE Good(tt)
    <3>1. tt = <<>> /\ <<>> \in Seq(A) /\ DOMAIN <<>> = {}
      BY <2>1
    <3>2. FlattenSeq(tt) = <<>>
      BY <3>1, FlattenEmpty
    <3> QED BY <3>1, <3>2 DEF Arranged, Has
  <2> HIDE DEF Good
  <2> QED BY <2>1
<1>2. ASSUME NEW n \in T PROVE n + 1 \in T
  <2>1. SUFFICES ASSUME NEW tt \in Seq(Seq(A)), Len(tt) = n + 1, InOrder(tt, R) PROVE Good(tt)
    <3> HIDE DEF Good
    <3> QED OBVIOUS
  <2> DEFINE init == SubSeq(tt, 1, n)
             last == tt[n + 1]
             g == FlattenSeq(init)
             f == FlattenSeq(tt)
  <2>2. /\ n \in Nat /\ init \in Seq(Seq(A)) /\ Len(init) = n /\ last \in Seq(A)
        /\ DOMAIN init = 1 .. n /\ DOMAIN tt = 1 .. n + 1
        /\ \A i \in 1 .. n : init[i] = tt[i]
    BY <2>1
  <2>3. tt = Append(init, last)
    BY <2>1, <2>2
  <2>4. 1 .. n + 1 = 1 .. n \union {n + 1} /\ \A i \in 1 .. n : i < n + 1
    BY <2>2
  <2> HIDE DEF init
  <2>5. InOrder(init, R)
    BY <2>1, <2>2, <2>4 DEF InOrder
  <2>6. Good(init)
    <3> HIDE DEF Good
    <3> QED BY <2>2, <2>5
  <2>7. f = g \o last
    <3> HIDE DEF last
    <3> QED BY <2>2, <2>3, FlattenAppend
  <2>8. g \in Seq(A) /\ Arranged(g, R) /\ \A x : Has(g, x) <=> \E p \in 1 .. n : Has(tt[p], x)
    BY <2>2, <2>6
  <2>9. Arranged(last, R)
    BY <2>1, <2>2, <2>4 DEF InOrder
  <2>10. AllBefore(g, last, R)
    <3>1. ASSUME NEW x, NEW y, Has(g, x), Has(last, y) PROVE <<x, y>> \in R
      <4>1. PICK p \in 1 .. n : Has(tt[p], x)
        BY <2>8, <3>1
      <4>2. AllBefore(tt[p], last, R)
        BY <2>1, <2>2, <2>4, <4>1 DEF InOrder
      <4> QED BY <3>1, <4>1, <4>2 DEF AllBefore
    <3> QED BY <3>1 DEF AllBefore
  <2> HIDE DEF f, g, last
  <2>11. f \in Seq(A) /\ Arranged(f, R)
    <3>1. g \o last \in Seq(A)
      BY <2>2, <2>8
    <3>2. Arranged(g \o last, R)
      BY <2>2, <2>8, <2>9, <2>10, ConcatArranged
    <3> QED BY <2>7, <3>1, <3>2
  <2>12. \A x : Has(f, x) <=> \E p \in DOMAIN tt : Has(tt[p], x)
    <3>1. \A x : Has(g \o last, x) <=> Has(g, x) \/ Has(last, x)
      BY <2>2, <2>8, ConcatHas
    <3>2. \A x : Has(f, x) <=> Has(g, x) \/ Has(tt[n + 1], x)
      BY <2>7, <3>1 DEF last
    <3> QED BY <2>2, <2>4, <2>8, <3>2
  <2> QED BY <2>11, <2>12 DEF f
<1>3. T = Nat
  <2>1. T \subseteq Nat
    OBVIOUS
  <2> HIDE DEF T
  <2> QED BY <1>1, <1>2, <2>1, NatInductionSet
<1>4. Len(ss) \in T
  <2>1. Len(ss) \in Nat
    OBVIOUS
  <2> HIDE DEF T
  <2> QED BY <1>3, <2>1
<1>5. \A tt \in Seq(Seq(A)) : Len(tt) = Len(ss) /\ InOrder(tt, R) => Good(tt)
  <2> HIDE DEF Good
  <2> QED BY <1>4
<1>6. Good(ss)
  <2> HIDE DEF Good
  <2> QED BY <1>5
<1> QED BY <1>6

-----------------------------------------------------------------------------
(* Rows tagged with their places in a dataset of several partitions.       *)

\* How many rows are in the partitions before p.
Before(ss, p) == Len(FlattenSeq(SubSeq(ss, 1, p - 1)))

LEMMA FlattenType ==
  ASSUME NEW A, NEW ss \in Seq(Seq(A))
  PROVE  FlattenSeq(ss) \in Seq(A)
<1>1. <<>> \in Seq(A)
  OBVIOUS
<1> QED BY <1>1, FlattenAppend

LEMMA TagConcat ==
  ASSUME NEW A, NEW s \in Seq(A), NEW t \in Seq(A), NEW x
  PROVE  Has(Tag(0, s \o t), x) <=> Has(Tag(0, s), x) \/ Has(Tag(Len(s), t), x)
<1> DEFINE u == s \o t
           m == Len(s)
           n == Len(t)
           pair(i, a) == [seq |-> i, row |-> a]
<1>1. /\ m \in Nat /\ n \in Nat /\ DOMAIN s = 1 .. m /\ DOMAIN t = 1 .. n /\ DOMAIN u = 1 .. m + n
      /\ (\A p \in 1 .. m : u[p] = s[p]) /\ \A j \in 1 .. n : u[m + j] = t[j]
  BY ConcatFacts
<1>2. /\ Has(Tag(0, u), x) <=> \E i \in DOMAIN u : pair(0 + i - 1, u[i]) = x
      /\ Has(Tag(0, s), x) <=> \E i \in DOMAIN s : pair(0 + i - 1, s[i]) = x
      /\ Has(Tag(m, t), x) <=> \E i \in DOMAIN t : pair(m + i - 1, t[i]) = x
  BY DEF Has, Tag
<1> HIDE DEF u, m, n, pair
<1>3. ASSUME NEW i \in 1 .. m, pair(0 + i - 1, s[i]) = x PROVE Has(Tag(0, u), x)
  <2>1. i \in DOMAIN u /\ u[i] = s[i]
    BY <1>1
  <2> QED BY <1>2, <1>3, <2>1
<1>4. ASSUME NEW j \in 1 .. n, pair(m + j - 1, t[j]) = x PROVE Has(Tag(0, u), x)
  <2>1. m + j \in DOMAIN u /\ u[m + j] = t[j] /\ 0 + (m + j) - 1 = m + j - 1
    BY <1>1
  <2>2. pair(0 + (m + j) - 1, u[m + j]) = x
    BY <1>4, <2>1
  <2> QED BY <1>2, <2>1, <2>2
<1>5. ASSUME NEW i \in 1 .. m + n, pair(0 + i - 1, u[i]) = x
      PROVE  Has(Tag(0, s), x) \/ Has(Tag(m, t), x)
  <2>1. CASE i \in 1 .. m
    BY <1>1, <1>2, <1>5, <2>1
  <2>2. CASE i \notin 1 .. m
    <3> DEFINE j == i - m
    <3>1. j \in 1 .. n /\ i = m + j /\ 0 + i - 1 = m + j - 1
      BY <1>1, <2>2
    <3> HIDE DEF j
    <3>2. pair(m + j - 1, t[j]) = x
      BY <1>1, <1>5, <3>1
    <3> QED BY <1>1, <1>2, <3>1, <3>2
  <2> QED BY <2>1, <2>2
<1>6. Has(Tag(0, u), x) <=> Has(Tag(0, s), x) \/ Has(Tag(m, t), x)
  BY <1>1, <1>2, <1>3, <1>4, <1>5
<1> QED BY <1>6 DEF u, m

\* A partition's rows have the tags behind those of the partitions before it.
LEMMA TagFlatten ==
  ASSUME NEW A, NEW ss \in Seq(Seq(A))
  PROVE  /\ FlattenSeq(ss) \in Seq(A)
         /\ \A x : Has(Tag(0, FlattenSeq(ss)), x)
                     <=> \E p \in DOMAIN ss : Has(Tag(Before(ss, p), ss[p]), x)
         /\ \A p \in DOMAIN ss : Before(ss, p) \in Nat
         /\ \A p, q \in DOMAIN ss : p < q => Before(ss, p) + Len(ss[p]) <= Before(ss, q)
<1> DEFINE k == Len(ss)
           pre(n) == FlattenSeq(SubSeq(ss, 1, n))
           Good(n) == /\ pre(n) \in Seq(A)
                      /\ \A x : Has(Tag(0, pre(n)), x)
                                  <=> \E p \in 1 .. n : Has(Tag(Before(ss, p), ss[p]), x)
                      /\ \A p \in 1 .. n : Before(ss, p) + Len(ss[p]) <= Len(pre(n))
           T == {n \in Nat : n <= k => Good(n)}
<1>1. k \in Nat /\ DOMAIN ss = 1 .. k /\ \A p \in 1 .. k : ss[p] \in Seq(A) /\ Len(ss[p]) \in Nat
  OBVIOUS
<1>2. \A n \in 0 .. k : SubSeq(ss, 1, n) \in Seq(Seq(A))
  OBVIOUS
<1>3. \A p \in 1 .. k : Before(ss, p) = Len(pre(p - 1))
  BY DEF Before
<1>4. 0 \in T
  <2>1. SubSeq(ss, 1, 0) = <<>> /\ 1 .. 0 = {} /\ <<>> \in Seq(A) /\ DOMAIN <<>> = {}
    OBVIOUS
  <2>2. pre(0) = <<>>
    BY <2>1, FlattenEmpty
  <2>3. \A x : ~ Has(Tag(0, <<>>), x)
    BY <2>1 DEF Has, Tag
  <2> HIDE DEF pre, k
  <2> QED BY <2>1, <2>2, <2>3
<1>5. ASSUME NEW n \in T PROVE n + 1 \in T
  <2> SUFFICES ASSUME n + 1 <= k PROVE Good(n + 1)
    <3> HIDE DEF Good
    <3> QED OBVIOUS
  <2> DEFINE last == ss[n + 1]
             b == Before(ss, n + 1)
  <2>1. n \in Nat /\ n \in 0 .. k /\ n + 1 \in 1 .. k /\ (n + 1) - 1 = n /\ Good(n) /\ last \in Seq(A)
    BY <1>1
  <2>2. SubSeq(ss, 1, n + 1) = Append(SubSeq(ss, 1, n), last)
    BY <1>1, <2>1
  <2>3. pre(n + 1) = pre(n) \o last /\ pre(n) \in Seq(A)
    <3> DEFINE init == SubSeq(ss, 1, n)
    <3>1. init \in Seq(Seq(A))
      BY <1>2, <2>1
    <3> HIDE DEF init, last
    <3> QED BY <2>1, <2>2, <3>1, FlattenAppend DEF init
  <2>4. b = Len(pre(n))
    BY <1>3, <2>1
  <2> HIDE DEF pre, last, k
  <2>5. pre(n) \o last \in Seq(A) /\ Len(pre(n) \o last) = b + Len(last) /\ Len(last) \in Nat /\ b \in Nat
    <3>1. \A s, t \in Seq(A) : s \o t \in Seq(A) /\ Len(s \o t) = Len(s) + Len(t) /\ Len(t) \in Nat /\ Len(s) \in Nat
      OBVIOUS
    <3> HIDE DEF b
    <3> QED BY <2>1, <2>3, <2>4, <3>1
  <2>6. \A x : Has(Tag(0, pre(n) \o last), x) <=> Has(Tag(0, pre(n)), x) \/ Has(Tag(b, last), x)
    BY <2>1, <2>3, <2>4, TagConcat
  <2>7. 1 .. n + 1 = 1 .. n \union {n + 1}
    BY <2>1
  <2>8. \A x : Has(Tag(0, pre(n + 1)), x)
                 <=> \E p \in 1 .. n + 1 : Has(Tag(Before(ss, p), ss[p]), x)
    <3>1. \A x : Has(Tag(0, pre(n + 1)), x) <=> Has(Tag(0, pre(n)), x) \/ Has(Tag(b, last), x)
      BY <2>3, <2>6
    <3>2. \A x : Has(Tag(0, pre(n)), x) <=> \E p \in 1 .. n : Has(Tag(Before(ss, p), ss[p]), x)
      BY <2>1
    <3> QED BY <2>7, <3>1, <3>2 DEF last
  <2>9. \A p \in 1 .. n + 1 : Before(ss, p) + Len(ss[p]) <= Len(pre(n + 1))
    <3> SUFFICES ASSUME NEW p \in 1 .. n + 1 PROVE Before(ss, p) + Len(ss[p]) <= Len(pre(n + 1))
      OBVIOUS
    <3>1. Len(pre(n + 1)) = b + Len(last)
      BY <2>3, <2>5
    <3>2. CASE p = n + 1
      BY <2>5, <3>1, <3>2 DEF last
    <3>3. CASE p # n + 1
      <4>1. p \in 1 .. n /\ p \in 1 .. k
        BY <1>1, <2>1, <3>3
      <4>2. Before(ss, p) + Len(ss[p]) <= b
        BY <2>1, <2>4, <4>1
      <4>3. Len(ss[p]) \in Nat /\ Before(ss, p) \in Nat
        <5>1. p - 1 \in 0 .. k
          BY <1>1, <4>1
        <5>2. FlattenSeq(SubSeq(ss, 1, p - 1)) \in Seq(A)
          BY <1>2, <5>1, FlattenType
        <5> QED BY <1>1, <4>1, <5>2 DEF Before
      <4> QED BY <2>5, <3>1, <4>2, <4>3
    <3> QED BY <3>2, <3>3
  <2> QED BY <2>3, <2>5, <2>8, <2>9
<1>6. T = Nat
  <2>1. T \subseteq Nat
    OBVIOUS
  <2> HIDE DEF T
  <2> QED BY <1>4, <1>5, <2>1, NatInductionSet
<1>7. \A n \in 0 .. k : Good(n)
  <2>1. \A n \in 0 .. k : n \in T /\ n <= k
    BY <1>1, <1>6
  <2> HIDE DEF Good, k
  <2> QED BY <2>1
<1>8. SubSeq(ss, 1, k) = ss /\ k \in 0 .. k
  BY <1>1
<1>9. /\ FlattenSeq(ss) \in Seq(A)
      /\ \A x : Has(Tag(0, FlattenSeq(ss)), x)
                  <=> \E p \in 1 .. k : Has(Tag(Before(ss, p), ss[p]), x)
  <2>1. Good(k)
    BY <1>7, <1>8
  <2>2. pre(k) = FlattenSeq(ss)
    BY <1>8
  <2> HIDE DEF pre
  <2> QED BY <2>1, <2>2
<1>10. ASSUME NEW p \in 1 .. k, NEW q \in 1 .. k, p < q
       PROVE  Before(ss, p) + Len(ss[p]) <= Before(ss, q)
  <2>1. p \in 1 .. q - 1 /\ q - 1 \in 0 .. k
    BY <1>1, <1>10
  <2>2. Good(q - 1)
    BY <1>7, <2>1
  <2> HIDE DEF pre
  <2> QED BY <1>3, <2>1, <2>2
<1>11. ASSUME NEW p \in 1 .. k PROVE Before(ss, p) \in Nat
  <2>1. p - 1 \in 0 .. k
    BY <1>1
  <2>2. Good(p - 1)
    BY <1>7, <2>1
  <2> HIDE DEF pre, k
  <2>3. pre(p - 1) \in Seq(A) /\ Before(ss, p) = Len(pre(p - 1))
    BY <1>3, <2>2
  <2> QED BY <2>3
<1> HIDE DEF k
<1> QED BY <1>1, <1>9, <1>10, <1>11
=============================================================================
