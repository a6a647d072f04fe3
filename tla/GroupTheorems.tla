---------------------------- MODULE GroupTheorems ----------------------------
(***************************************************************************)
(* Theorems about the aggregates and the tables of a GROUP BY, wherever    *)
(* its rows are: in one partition's table and spill files (HashAggregate)  *)
(* or in the partitions on both sides of a shuffle (GroupBy).              *)
(*                                                                         *)
(* The algebra: states form a commutative monoid under Merge with          *)
(* Initialize as its neutral element, and Update merges in the state of    *)
(* one value.  So the rows of a group may be split among tasks and spill   *)
(* files in any way.                                                       *)
(***************************************************************************)
EXTENDS GroupTables, DataTheorems

\* The parts of a nullable value.
LEMMA NullableCases ==
  ASSUME NEW v \in Nullable
  PROVE  v = Null \/ (v # Null /\ v = <<v[1]>> /\ v[1] \in Int)
BY DEF Nullable, Null

\* A value that is there, again nullable.
LEMMA ThereIsNullable ==
  ASSUME NEW n \in Int
  PROVE  <<n>> \in Nullable /\ <<n>> # Null /\ <<n>>[1] = n
BY DEF Nullable, Null

\* Both returns a value.
LEMMA BothType ==
  ASSUME NEW agg \in Folds2, NEW a \in Int, NEW b \in Int
  PROVE  Both(agg, a, b) \in Int
BY DEF Both, Folds2

\* Both is commutative.
LEMMA BothCommutes ==
  ASSUME NEW agg \in Folds2, NEW a \in Int, NEW b \in Int
  PROVE  Both(agg, a, b) = Both(agg, b, a)
BY DEF Both, Folds2

\* Both is associative.
LEMMA BothAssociates ==
  ASSUME NEW agg \in Folds2, NEW a \in Int, NEW b \in Int, NEW c \in Int
  PROVE  Both(agg, Both(agg, a, b), c) = Both(agg, a, Both(agg, b, c))
<1>1. CASE agg = "sum"
  BY <1>1 DEF Both
<1>2. CASE agg = "min"
  BY <1>2 DEF Both
<1>3. CASE agg = "max"
  BY <1>3 DEF Both
<1> QED
  BY <1>1, <1>2, <1>3 DEF Folds2

\* The three kinds of aggregate are disjoint.
LEMMA Kinds ==
  ASSUME NEW agg \in AggregateFunction
  PROVE  \/ agg \in Counts /\ agg \notin Folds2 /\ agg # "avg"
         \/ agg \in Folds2 /\ agg \notin Counts /\ agg # "avg"
         \/ agg = "avg" /\ agg \notin Counts /\ agg \notin Folds2
BY DEF AggregateFunction, Counts, Folds2

\* Merge of two nullable states.
LEMMA MergeFold ==
  ASSUME NEW agg \in Folds2, NEW a \in Nullable, NEW b \in Nullable
  PROVE  /\ a = Null => Merge(agg, a, b) = b
         /\ b = Null => Merge(agg, a, b) = a
         /\ a # Null /\ b # Null => Merge(agg, a, b) = <<Both(agg, a[1], b[1])>>
BY DEF Merge, Folds2, Counts

\* Merge of two counts.
LEMMA MergeCount ==
  ASSUME NEW agg \in Counts, NEW a, NEW b
  PROVE  Merge(agg, a, b) = a + b
BY DEF Merge, Folds2, Counts

\* Merge of two averages.
LEMMA MergeAvg ==
  ASSUME NEW a, NEW b
  PROVE  Merge("avg", a, b) = <<a[1] + b[1], a[2] + b[2]>>
BY DEF Merge, Folds2, Counts

\* A state of each kind, spelled out.
LEMMA StateKinds ==
  ASSUME NEW agg
  PROVE  /\ agg \in Counts => State(agg) = Int
         /\ agg = "avg" => State(agg) = Int \X Int
         /\ agg \in Folds2 => State(agg) = Nullable
BY DEF State, Counts, Folds2

\* Merge returns a state: the merge phase of a spilled aggregation and the
\* reduce side of a shuffle may go on merging what it returns.
THEOREM MergeType ==
  ASSUME NEW agg \in AggregateFunction, NEW a \in State(agg), NEW b \in State(agg)
  PROVE  Merge(agg, a, b) \in State(agg)
<1>1. CASE agg \in Counts
  BY <1>1, StateKinds, MergeCount
<1>2. CASE agg = "avg"
  <2>1. a \in Int \X Int /\ b \in Int \X Int
    BY <1>2, StateKinds
  <2> QED
    BY <1>2, <2>1, StateKinds, MergeAvg
<1>3. CASE agg \in Folds2
  <2>1. a \in Nullable /\ b \in Nullable
    BY <1>3, StateKinds
  <2>2. CASE a = Null \/ b = Null
    BY <1>3, <2>1, <2>2, StateKinds, MergeFold
  <2>3. CASE a # Null /\ b # Null
    <3>1. a[1] \in Int /\ b[1] \in Int
      BY <2>1, <2>3, NullableCases
    <3>2. Both(agg, a[1], b[1]) \in Int
      BY <1>3, <3>1, BothType
    <3>3. Merge(agg, a, b) = <<Both(agg, a[1], b[1])>>
      BY <1>3, <2>1, <2>3, MergeFold
    <3> QED
      BY <1>3, <3>2, <3>3, ThereIsNullable, StateKinds
  <2> QED
    BY <2>2, <2>3
<1> QED
  BY <1>1, <1>2, <1>3, Kinds

\* Merge is commutative: it does not matter whether a spill file or what is
\* left in memory is taken first, nor in which order shuffle blocks are read.
THEOREM MergeCommutes ==
  ASSUME NEW agg \in AggregateFunction, NEW a \in State(agg), NEW b \in State(agg)
  PROVE  Merge(agg, a, b) = Merge(agg, b, a)
<1>1. CASE agg \in Counts
  BY <1>1, StateKinds, MergeCount
<1>2. CASE agg = "avg"
  <2>1. a \in Int \X Int /\ b \in Int \X Int
    BY <1>2, StateKinds
  <2>2. a[1] + b[1] = b[1] + a[1] /\ a[2] + b[2] = b[2] + a[2]
    BY <2>1
  <2> QED
    BY <1>2, <2>2, MergeAvg
<1>3. CASE agg \in Folds2
  <2>1. a \in Nullable /\ b \in Nullable
    BY <1>3, StateKinds
  <2>2. CASE a = Null \/ b = Null
    BY <1>3, <2>1, <2>2, MergeFold
  <2>3. CASE a # Null /\ b # Null
    <3>1. a[1] \in Int /\ b[1] \in Int
      BY <2>1, <2>3, NullableCases
    <3>2. Both(agg, a[1], b[1]) = Both(agg, b[1], a[1])
      BY <1>3, <3>1, BothCommutes
    <3> QED
      BY <1>3, <2>1, <2>3, <3>2, MergeFold
  <2> QED
    BY <2>2, <2>3
<1> QED
  BY <1>1, <1>2, <1>3, Kinds

\* Merge is associative: a group's states may be grouped by spill round, by
\* source partition or by both.
THEOREM MergeAssociates ==
  ASSUME NEW agg \in AggregateFunction,
         NEW a \in State(agg), NEW b \in State(agg), NEW c \in State(agg)
  PROVE  Merge(agg, Merge(agg, a, b), c) = Merge(agg, a, Merge(agg, b, c))
<1>1. CASE agg \in Counts
  BY <1>1, StateKinds, MergeCount
<1>2. CASE agg = "avg"
  <2>1. a \in Int \X Int /\ b \in Int \X Int /\ c \in Int \X Int
    BY <1>2, StateKinds
  <2>2. /\ (a[1] + b[1]) + c[1] = a[1] + (b[1] + c[1])
        /\ (a[2] + b[2]) + c[2] = a[2] + (b[2] + c[2])
    BY <2>1
  <2> QED
    BY <1>2, <2>2, MergeAvg
<1>3. CASE agg \in Folds2
  <2>1. a \in Nullable /\ b \in Nullable /\ c \in Nullable
    BY <1>3, StateKinds
  <2>2. Merge(agg, a, b) \in Nullable /\ Merge(agg, b, c) \in Nullable
    BY <1>3, MergeType, StateKinds
  <2>3. CASE a = Null \/ b = Null \/ c = Null
    BY <1>3, <2>1, <2>2, <2>3, MergeFold
  <2>4. CASE a # Null /\ b # Null /\ c # Null
    <3>1. a[1] \in Int /\ b[1] \in Int /\ c[1] \in Int
      BY <2>1, <2>4, NullableCases
    <3>2. Both(agg, a[1], b[1]) \in Int /\ Both(agg, b[1], c[1]) \in Int
      BY <1>3, <3>1, BothType
    <3>3. /\ Merge(agg, a, b) = <<Both(agg, a[1], b[1])>>
          /\ Merge(agg, b, c) = <<Both(agg, b[1], c[1])>>
      BY <1>3, <2>1, <2>4, MergeFold
    <3>4. /\ Merge(agg, a, b) # Null /\ Merge(agg, a, b)[1] = Both(agg, a[1], b[1])
          /\ Merge(agg, b, c) # Null /\ Merge(agg, b, c)[1] = Both(agg, b[1], c[1])
      BY <3>2, <3>3, ThereIsNullable
    <3>5. Merge(agg, Merge(agg, a, b), c) = <<Both(agg, Both(agg, a[1], b[1]), c[1])>>
      BY <1>3, <2>1, <2>2, <2>4, <3>4, MergeFold
    <3>6. Merge(agg, a, Merge(agg, b, c)) = <<Both(agg, a[1], Both(agg, b[1], c[1]))>>
      BY <1>3, <2>1, <2>2, <2>4, <3>4, MergeFold
    <3>7. Both(agg, Both(agg, a[1], b[1]), c[1]) = Both(agg, a[1], Both(agg, b[1], c[1]))
      BY <1>3, <3>1, BothAssociates
    <3> QED
      BY <3>5, <3>6, <3>7
  <2> QED
    BY <2>3, <2>4
<1> QED
  BY <1>1, <1>2, <1>3, Kinds

\* A fresh state is neutral, so a group that comes back after a spill may
\* start over, and a group of nothing but nulls adds nothing.
THEOREM InitializeIsNeutral ==
  ASSUME NEW agg \in AggregateFunction, NEW a \in State(agg)
  PROVE  Initialize(agg) \in State(agg) /\ Merge(agg, Initialize(agg), a) = a
<1>1. CASE agg \in Counts
  <2>1. Initialize(agg) = 0
    BY <1>1 DEF Initialize
  <2> QED
    BY <1>1, <2>1, StateKinds, MergeCount
<1>2. CASE agg = "avg"
  <2>1. a \in Int \X Int
    BY <1>2, StateKinds
  <2>2. Initialize(agg) = <<0, 0>>
    BY <1>2 DEF Initialize, Counts
  <2>3. <<0 + a[1], 0 + a[2]>> = a
    BY <2>1
  <2>4. Merge(agg, <<0, 0>>, a) = <<0 + a[1], 0 + a[2]>>
    BY <1>2, MergeAvg
  <2>5. <<0, 0>> \in Int \X Int
    OBVIOUS
  <2> QED
    BY <1>2, <2>2, <2>3, <2>4, <2>5, StateKinds
<1>3. CASE agg \in Folds2
  <2>1. Initialize(agg) = Null /\ Null \in Nullable
    BY <1>3 DEF Initialize, Folds2, Counts, Nullable
  <2> QED
    BY <1>3, <2>1, StateKinds, MergeFold
<1> QED
  BY <1>1, <1>2, <1>3, Kinds

\* Update is a merge with the state of one value: map-side folding, reduce-
\* side merging and the spilling of either give the same states.
THEOREM UpdateIsMergeOfOne ==
  ASSUME NEW agg \in AggregateFunction, NEW s \in State(agg), NEW v \in Nullable
  PROVE  Update(agg, s, v) = Merge(agg, s, Update(agg, Initialize(agg), v))
<1>1. CASE agg \in Counts
  <2>1. s \in Int /\ Initialize(agg) = 0
    BY <1>1, StateKinds DEF Initialize
  <2>2. \E n \in {0, 1} : \A t \in Int : Update(agg, t, v) = t + n
    <3>1. CASE agg = "count" /\ v = Null
      BY <3>1 DEF Update
    <3>2. CASE agg = "count_star" \/ v # Null
      BY <1>1, <3>2 DEF Update, Counts
    <3> QED
      BY <1>1, <3>1, <3>2 DEF Counts
  <2>3. PICK n \in {0, 1} : \A t \in Int : Update(agg, t, v) = t + n
    BY <2>2
  <2>4. Update(agg, s, v) = s + n /\ Update(agg, 0, v) = 0 + n
    BY <2>1, <2>3
  <2> QED
    BY <1>1, <2>1, <2>4, MergeCount
<1>2. CASE agg = "avg"
  <2>1. s \in Int \X Int
    BY <1>2, StateKinds
  <2>2. Initialize(agg) = <<0, 0>>
    BY <1>2 DEF Initialize, Counts
  <2>3. CASE v = Null
    <3>1. Update(agg, s, v) = s /\ Update(agg, <<0, 0>>, v) = <<0, 0>>
      BY <1>2, <2>3 DEF Update
    <3>2. <<s[1] + 0, s[2] + 0>> = s
      BY <2>1
    <3> QED
      BY <1>2, <2>2, <3>1, <3>2, MergeAvg
  <2>4. CASE v # Null
    <3>1. v[1] \in Int
      BY <2>4, NullableCases
    <3>2. /\ Update(agg, s, v) = <<s[1] + v[1], s[2] + 1>>
          /\ Update(agg, <<0, 0>>, v) = <<0 + v[1], 0 + 1>>
      BY <1>2, <2>4 DEF Update
    <3>3. 0 + v[1] = v[1] /\ 0 + 1 = 1
      BY <3>1
    <3> QED
      BY <1>2, <2>2, <3>2, <3>3, MergeAvg
  <2> QED
    BY <2>3, <2>4
<1>3. CASE agg \in Folds2
  <2>1. s \in Nullable /\ Initialize(agg) = Null
    BY <1>3, StateKinds DEF Initialize, Folds2, Counts
  <2>2. CASE v = Null
    BY <1>3, <2>1, <2>2, MergeFold DEF Update, Folds2
  <2>3. CASE v # Null
    <3>1. Update(agg, Null, v) = v
      BY <1>3, <2>3 DEF Update, Folds2
    <3>2. CASE s = Null
      BY <1>3, <2>1, <3>1, <3>2, MergeFold
    <3>3. CASE s # Null
      <4>1. Update(agg, s, v) = <<Both(agg, v[1], s[1])>>
        BY <1>3, <2>3, <3>3 DEF Update, Folds2
      <4>2. v[1] \in Int /\ s[1] \in Int
        BY <2>1, <2>3, <3>3, NullableCases
      <4>3. Both(agg, v[1], s[1]) = Both(agg, s[1], v[1])
        BY <1>3, <4>2, BothCommutes
      <4> QED
        BY <1>3, <2>1, <2>3, <3>1, <3>3, <4>1, <4>3, MergeFold
    <3> QED
      BY <3>2, <3>3
  <2> QED
    BY <2>2, <2>3
<1> QED
  BY <1>1, <1>2, <1>3, Kinds

-----------------------------------------------------------------------------
(* What a state says of the values behind it.                              *)

\* The positions in V whose value is not null, and the numbers there.
There(val, V) == {p \in V : val[p] # Null}
Num(val) == [p \in DOMAIN val |-> val[p][1]]

\* A least, or a greatest, number among those at T.
LeastOf(agg, val, T, n) ==
  \E p \in T : n = val[p][1] /\ \A q \in T : IF agg = "min" THEN n <= val[q][1] ELSE n >= val[q][1]

\* `state` is the state of the values at the positions V of val.
Summary(agg, state, val, V) ==
  LET T == There(val, V) IN
  /\ agg = "count_star" => state = Cardinality(V)
  /\ agg = "count" => state = Cardinality(T)
  /\ agg = "avg" => state = <<Total(Num(val), T), Cardinality(T)>>
  /\ agg \in Folds2 /\ T = {} => state = Null
  /\ agg = "sum" /\ T # {} => state = <<Total(Num(val), T)>>
  /\ agg \in {"min", "max"} /\ T # {} => \E n \in Int : state = <<n>> /\ LeastOf(agg, val, T, n)

\* The positions V of val hold nullable values, and are finitely many.
Holds(val, V) == IsFiniteSet(V) /\ V \subseteq DOMAIN val /\ \A p \in V : val[p] \in Nullable

LEMMA ThereFacts ==
  ASSUME NEW val, NEW V, Holds(val, V)
  PROVE  /\ IsFiniteSet(There(val, V)) /\ There(val, V) \subseteq V
         /\ \A p \in There(val, V) : Num(val)[p] = val[p][1] /\ val[p][1] \in Int
         /\ Cardinality(V) \in Nat /\ Cardinality(There(val, V)) \in Nat
         /\ Total(Num(val), There(val, V)) \in Int
<1>1. IsFiniteSet(There(val, V)) /\ There(val, V) \subseteq V /\ IsFiniteSet(V)
  BY FS_Subset DEF There, Holds
<1>2. ASSUME NEW p \in There(val, V) PROVE Num(val)[p] = val[p][1] /\ val[p][1] \in Int
  <2>1. p \in V /\ val[p] \in Nullable /\ val[p] # Null /\ p \in DOMAIN val
    BY DEF There, Holds
  <2> QED BY <2>1, NullableCases DEF Num
<1>3. Cardinality(V) \in Nat /\ Cardinality(There(val, V)) \in Nat
  BY <1>1, FS_CardinalityType
<1>4. Total(Num(val), There(val, V)) \in Int
  <2> HIDE DEF There
  <2>1. \A p \in There(val, V) : Num(val)[p] \in Int
    BY <1>2
  <2> QED BY <1>1, <2>1, TotalType
<1> QED BY <1>1, <1>2, <1>3, <1>4

\* Such a state is well typed.
LEMMA SummaryType ==
  ASSUME NEW agg \in AggregateFunction, NEW state, NEW val, NEW V, Holds(val, V),
         Summary(agg, state, val, V)
  PROVE  state \in State(agg)
<1>1. Cardinality(V) \in Int /\ Cardinality(There(val, V)) \in Int
      /\ Total(Num(val), There(val, V)) \in Int
  BY ThereFacts
<1>2. CASE agg \in Counts
  BY <1>1, <1>2, StateKinds DEF Summary, Counts
<1>3. CASE agg = "avg"
  BY <1>1, <1>3, StateKinds DEF Summary
<1>4. CASE agg \in Folds2
  <2>1. state = Null \/ \E n \in Int : state = <<n>>
    BY <1>1, <1>4 DEF Summary, Folds2
  <2> QED BY <1>4, <2>1, StateKinds DEF Nullable
<1> QED BY <1>2, <1>3, <1>4, Kinds

\* An untouched state is that of no values.
LEMMA SummaryOfNothing ==
  ASSUME NEW agg \in AggregateFunction, NEW val
  PROVE  Summary(agg, Initialize(agg), val, {})
<1>1. There(val, {}) = {} /\ Cardinality({}) = 0
  BY FS_EmptySet DEF There
<1>2. Total(Num(val), {}) = 0
  BY FS_EmptySet, TotalType
<1> QED BY <1>1, <1>2, Kinds DEF Summary, Initialize, Counts, Folds2

\* One value folded into an untouched state.
LEMMA SummaryOfOne ==
  ASSUME NEW agg \in AggregateFunction, NEW val, NEW p, Holds(val, {p})
  PROVE  Summary(agg, Update(agg, Initialize(agg), val[p]), val, {p})
<1>1. Cardinality({p}) = 1 /\ Cardinality({}) = 0
  BY FS_EmptySet, FS_Singleton
<1>2. val[p] \in Nullable
  BY DEF Holds
<1>3. CASE val[p] = Null
  <2>1. There(val, {p}) = {}
    BY <1>3 DEF There
  <2>2. Total(Num(val), {}) = 0
    BY FS_EmptySet, TotalType
  <2> QED BY <1>1, <1>3, <2>1, <2>2, Kinds DEF Summary, Update, Initialize, Counts, Folds2
<1>4. CASE val[p] # Null
  <2>1. There(val, {p}) = {p}
    BY <1>4 DEF There
  <2>2. val[p] = <<val[p][1]>> /\ val[p][1] \in Int
    BY <1>2, <1>4, NullableCases
  <2>3. Total(Num(val), {p}) = val[p][1]
    <3>1. Num(val)[p] = val[p][1]
      BY <2>1, ThereFacts
    <3>2. \A x \in {} \union {p} : Num(val)[x] \in Int
      BY <2>2, <3>1
    <3>3. Total(Num(val), {} \union {p}) = Total(Num(val), {}) + Num(val)[p]
      BY <3>2, FS_EmptySet, TotalAdd
    <3>4. Total(Num(val), {}) = 0 /\ {} \union {p} = {p}
      BY FS_EmptySet, TotalType
    <3> QED BY <2>2, <3>1, <3>3, <3>4
  <2>4. LeastOf(agg, val, {p}, val[p][1])
    BY <2>2 DEF LeastOf
  <2>5. CASE agg \in Counts
    BY <1>1, <1>4, <2>1, <2>5 DEF Summary, Update, Initialize, Counts, Folds2
  <2>6. CASE agg = "avg"
    <3>1. Update(agg, Initialize(agg), val[p]) = <<0 + val[p][1], 0 + 1>>
      BY <1>4, <2>6 DEF Update, Initialize, Counts
    <3>2. 0 + val[p][1] = val[p][1]
      BY <2>2
    <3> QED BY <1>1, <2>1, <2>3, <2>6, <3>1, <3>2 DEF Summary, Folds2
  <2>7. CASE agg \in Folds2
    <3>1. Update(agg, Initialize(agg), val[p]) = val[p]
      BY <1>4, <2>7 DEF Update, Initialize, Counts, Folds2
    <3> QED BY <2>1, <2>2, <2>3, <2>4, <2>7, <3>1 DEF Summary, Folds2
  <2> QED BY <2>5, <2>6, <2>7, Kinds
<1> QED BY <1>3, <1>4

\* Merging the states of two disjoint sets of positions.
LEMMA SummaryOfUnion ==
  ASSUME NEW agg \in AggregateFunction, NEW val,
         NEW V, Holds(val, V), NEW a, Summary(agg, a, val, V),
         NEW W, Holds(val, W), NEW b, Summary(agg, b, val, W),
         V \cap W = {}
  PROVE  Holds(val, V \union W) /\ Summary(agg, Merge(agg, a, b), val, V \union W)
<1> DEFINE T == There(val, V)
           U == There(val, W)
           R == There(val, V \union W)
<1>1. R = T \union U /\ T \cap U = {}
  BY DEF There
<1>2. Holds(val, V \union W)
  BY FS_Union DEF Holds
<1> SUFFICES Summary(agg, Merge(agg, a, b), val, V \union W)
  BY <1>2
<1>3. /\ IsFiniteSet(T) /\ IsFiniteSet(U)
      /\ Cardinality(T) \in Nat /\ Cardinality(U) \in Nat
      /\ Cardinality(V) \in Nat /\ Cardinality(W) \in Nat
      /\ Total(Num(val), T) \in Int /\ Total(Num(val), U) \in Int
      /\ \A p \in T : Num(val)[p] = val[p][1] /\ val[p][1] \in Int
      /\ \A p \in U : Num(val)[p] = val[p][1] /\ val[p][1] \in Int
  BY ThereFacts
<1> HIDE DEF T, U, R
<1>4. Cardinality(V \union W) = Cardinality(V) + Cardinality(W)
  <2>1. IsFiniteSet(V) /\ IsFiniteSet(W)
    BY DEF Holds
  <2>2. Cardinality(V \union W) = Cardinality(V) + Cardinality(W) - Cardinality(V \cap W)
    BY <2>1, FS_Union
  <2>3. \A E : E = {} => Cardinality(E) = 0
    BY FS_EmptySet
  <2>4. Cardinality(V \cap W) = 0
    BY <2>3
  <2> QED BY <1>3, <2>2, <2>4
<1>5. Cardinality(R) = Cardinality(T) + Cardinality(U)
  <2>1. Cardinality(T \cap U) = 0
    BY <1>1, FS_EmptySet
  <2> QED BY <1>1, <1>3, <2>1, FS_Union
<1>6. Total(Num(val), R) = Total(Num(val), T) + Total(Num(val), U)
  <2>1. \A p \in T \union U : Num(val)[p] \in Int
    BY <1>3
  <2> QED BY <1>1, <1>3, <2>1, TotalUnion
<1>7. CASE agg \in Counts
  BY <1>1, <1>3, <1>4, <1>5, <1>7, MergeCount DEF Summary, Counts, Folds2, T, U, R
<1>8. CASE agg = "avg"
  <2>1. a = <<Total(Num(val), T), Cardinality(T)>> /\ b = <<Total(Num(val), U), Cardinality(U)>>
    BY <1>8 DEF Summary, T, U
  <2>2. Merge(agg, a, b) = <<Total(Num(val), R), Cardinality(R)>>
    BY <1>5, <1>6, <1>8, <2>1, MergeAvg
  <2> QED BY <1>8, <2>2 DEF Summary, Folds2, R
<1>9. CASE agg \in Folds2
  <2>1. a \in Nullable /\ b \in Nullable
    BY <1>9, SummaryType, StateKinds
  <2>2. CASE T = {}
    <3>1. a = Null /\ R = U
      BY <1>1, <1>9, <2>2 DEF Summary, T
    <3>2. Merge(agg, a, b) = b
      BY <1>9, <2>1, <3>1, MergeFold
    <3> QED BY <1>9, <3>1, <3>2 DEF Summary, Folds2, Counts, U, R
  <2>3. CASE U = {}
    <3>1. b = Null /\ R = T
      BY <1>1, <1>9, <2>3 DEF Summary, U
    <3>2. Merge(agg, a, b) = a
      BY <1>9, <2>1, <3>1, MergeFold
    <3> QED BY <1>9, <3>1, <3>2 DEF Summary, Folds2, Counts, T, R
  <2>4. CASE T # {} /\ U # {}
    <3>1. R # {}
      BY <1>1, <2>4
    <3>2. CASE agg = "sum"
      <4>1. a = <<Total(Num(val), T)>> /\ b = <<Total(Num(val), U)>>
        BY <2>4, <3>2 DEF Summary, T, U
      <4>2. Merge(agg, a, b) = <<Both(agg, Total(Num(val), T), Total(Num(val), U))>>
        BY <1>9, <2>1, <4>1, MergeFold DEF Null
      <4>3. Merge(agg, a, b) = <<Total(Num(val), R)>>
        BY <1>6, <3>2, <4>2 DEF Both
      <4> QED BY <3>1, <3>2, <4>3 DEF Summary, Folds2, Counts, R
    <3>3. CASE agg \in {"min", "max"}
      <4>1. PICK m \in Int : a = <<m>> /\ LeastOf(agg, val, T, m)
        BY <2>4, <3>3 DEF Summary, T
      <4>2. PICK n \in Int : b = <<n>> /\ LeastOf(agg, val, U, n)
        BY <2>4, <3>3 DEF Summary, U
      <4> DEFINE l == Both(agg, m, n)
      <4>3. Merge(agg, a, b) = <<l>>
        BY <1>9, <2>1, <4>1, <4>2, MergeFold DEF Null
      <4>4. l \in Int
        BY <1>9, BothType
      <4>5. LeastOf(agg, val, R, l)
        <5>1. CASE agg = "min"
          BY <1>1, <1>3, <4>1, <4>2, <5>1 DEF LeastOf, Both
        <5>2. CASE agg = "max"
          BY <1>1, <1>3, <4>1, <4>2, <5>2 DEF LeastOf, Both
        <5> QED BY <3>3, <5>1, <5>2
      <4> HIDE DEF l
      <4> QED BY <3>1, <3>3, <4>3, <4>4, <4>5 DEF Summary, Folds2, Counts, R
    <3> QED BY <1>9, <3>2, <3>3 DEF Folds2
  <2> QED BY <2>2, <2>3, <2>4
<1> QED BY <1>7, <1>8, <1>9, Kinds

\* A summary looks at the values at V only.
LEMMA SummaryAgrees ==
  ASSUME NEW agg, NEW state, NEW val, NEW new, NEW V, Holds(val, V), V \subseteq DOMAIN new,
         \A p \in V : val[p] = new[p], Summary(agg, state, val, V)
  PROVE  Holds(new, V) /\ Summary(agg, state, new, V)
<1> DEFINE T == There(val, V)
<1>1. Holds(new, V)
  BY DEF Holds
<1>2. There(new, V) = T /\ T \subseteq V
  BY DEF There
<1>3. /\ IsFiniteSet(T) /\ \A p \in T : Num(val)[p] = val[p][1] /\ val[p][1] \in Int
  BY ThereFacts
<1>4. \A p \in T : Num(new)[p] = new[p][1] /\ new[p] = val[p]
  BY <1>1, <1>2, ThereFacts
<1> HIDE DEF T
<1>5. Total(Num(new), T) = Total(Num(val), T)
  BY <1>3, <1>4, TotalAgrees
<1>6. ASSUME NEW n, LeastOf(agg, val, T, n) PROVE LeastOf(agg, new, T, n)
  BY <1>4, <1>6 DEF LeastOf
<1> QED BY <1>1, <1>2, <1>5, <1>6 DEF Summary, T

\* The state of a whole group is what SQL asks for.
LEMMA SummaryIsReference ==
  ASSUME NEW agg \in AggregateFunction, NEW values \in Seq(Nullable), NEW state,
         Summary(agg, state, values, DOMAIN values)
  PROVE  Finalize(agg, state) = Reference(agg, values)
<1> DEFINE V == DOMAIN values
           T == There(values, V)
           w == Num(values)
           Body(iter) ==
             [s \in SUBSET T |->
                IF s = {} THEN 0
                ELSE LET x == CHOOSE x \in s : TRUE IN values[x][1] + iter[s \ {x}]]
           chosen == CHOOSE iter : iter = Body(iter)
           total == MapThenSumSet(LAMBDA i : values[i][1], T)
           bag == {values[i][1] : i \in T}
<1>1. V = 1 .. Len(values) /\ Len(values) \in Nat
  OBVIOUS
<1>2. IsFiniteSet(V) /\ Cardinality(V) = Len(values)
  BY <1>1, FS_Interval
<1>3. Holds(values, V)
  BY <1>2 DEF Holds
<1>4. /\ IsFiniteSet(T) /\ \A p \in T : w[p] = values[p][1] /\ w[p] \in Int
      /\ Cardinality(T) \in Nat
  BY <1>3, ThereFacts
<1>5. total = Total(w, T)
  <2>1. ASSUME NEW it PROVE it = Body(it) <=> IsSum(it, w, T)
    <3>1. ASSUME NEW s \in SUBSET T, s # {} PROVE w[Pick(s)] = values[Pick(s)][1]
      BY <1>4, <3>1, PickIn
    <3> HIDE DEF w, T
    <3>2. Body(it) = [s \in SUBSET T |-> IF s = {} THEN 0 ELSE w[Pick(s)] + it[s \ {Pick(s)}]]
      BY <3>1 DEF Pick
    <3> HIDE DEF Body
    <3> QED BY <3>2 DEF IsSum
  <2>2. PICK it : IsSum(it, w, T)
    <3> HIDE DEF w, T
    <3> QED BY <1>4, SumExists
  <2>3. chosen = Body(chosen)
    <3> HIDE DEF Body, w, T
    <3>1. it = Body(it)
      BY <2>1, <2>2
    <3> QED BY <3>1
  <2>4. total = chosen[T]
    BY DEF MapThenSumSet, MapThenFoldSet
  <2> HIDE DEF chosen, w, Body, T, total
  <2>5. IsSum(chosen, w, T)
    BY <2>1, <2>3
  <2> QED BY <1>4, <2>4, <2>5, SumIsTotal
<1>6. Reference(agg, values) =
        CASE agg = "count_star" -> Len(values)
          [] agg = "count" -> Cardinality(T)
          [] agg \notin Counts /\ T = {} -> Null
          [] agg = "sum" /\ T # {} -> <<total>>
          [] agg = "avg" /\ T # {} -> <<total, Cardinality(T)>>
          [] agg = "min" /\ T # {} -> <<Min(bag)>>
          [] agg = "max" /\ T # {} -> <<Max(bag)>>
  BY DEF Reference, There
<1>7. T = {} <=> Cardinality(T) = 0
  BY <1>4, FS_EmptySet
<1>8. ASSUME NEW n \in Int, LeastOf(agg, values, T, n), agg \in {"min", "max"}
      PROVE  (agg = "min" => Min(bag) = n) /\ (agg = "max" => Max(bag) = n)
  <2>1. n \in bag
    BY <1>8 DEF LeastOf
  <2>2. \A x \in bag : x \in Int
    BY <1>4
  <2>3. CASE agg = "min"
    <3>1. \A x \in bag : n <= x
      BY <1>8, <2>3 DEF LeastOf
    <3>2. Min(bag) \in bag /\ \A y \in bag : Min(bag) <= y
      <4> HIDE DEF bag
      <4> QED BY <2>1, <3>1 DEF Min
    <3>3. Min(bag) \in Int /\ Min(bag) <= n /\ n <= Min(bag)
      BY <2>1, <2>2, <3>1, <3>2
    <3> HIDE DEF bag
    <3> QED BY <2>3, <3>3
  <2>4. CASE agg = "max"
    <3>1. \A x \in bag : n >= x
      BY <1>8, <2>4 DEF LeastOf
    <3>2. Max(bag) \in bag /\ \A y \in bag : Max(bag) >= y
      <4> HIDE DEF bag
      <4> QED BY <2>1, <3>1 DEF Max
    <3>3. Max(bag) \in Int /\ Max(bag) >= n /\ n >= Max(bag)
      BY <2>1, <2>2, <3>1, <3>2
    <3> HIDE DEF bag
    <3> QED BY <2>4, <3>3
  <2> QED BY <1>8, <2>3, <2>4
<1>9. Summary(agg, state, values, V)
  OBVIOUS
<1> HIDE DEF total, bag
<1>10. CASE agg \in Counts
  BY <1>2, <1>6, <1>9, <1>10 DEF Summary, Counts, Finalize
<1>11. CASE agg = "avg"
  <2>1. state = <<total, Cardinality(T)>>
    BY <1>5, <1>9, <1>11 DEF Summary
  <2> HIDE DEF T
  <2> QED BY <1>6, <1>7, <1>11, <2>1 DEF Finalize, Counts
<1>12. CASE agg \in Folds2 /\ T = {}
  BY <1>6, <1>9, <1>12 DEF Summary, Finalize, Folds2, Counts
<1>13. CASE agg = "sum" /\ T # {}
  BY <1>5, <1>6, <1>9, <1>13 DEF Summary, Finalize, Counts
<1>14. CASE agg \in {"min", "max"} /\ T # {}
  <2>1. PICK n \in Int : state = <<n>> /\ LeastOf(agg, values, T, n)
    BY <1>9, <1>14 DEF Summary
  <2> HIDE DEF T
  <2> QED BY <1>6, <1>8, <1>14, <2>1 DEF Finalize, Counts
<1> QED BY <1>10, <1>11, <1>12, <1>13, <1>14, Kinds DEF Folds2

\* A value folded into a state.
LEMMA SummaryOfUpdate ==
  ASSUME NEW agg \in AggregateFunction, NEW val, NEW V, NEW p, p \notin V,
         Holds(val, V \union {p}), NEW state, Summary(agg, state, val, V)
  PROVE  Summary(agg, Update(agg, state, val[p]), val, V \union {p})
<1> DEFINE one == Update(agg, Initialize(agg), val[p])
<1>1. Holds(val, V) /\ Holds(val, {p}) /\ V \cap {p} = {}
  BY FS_Subset, FS_Singleton DEF Holds
<1>2. Summary(agg, one, val, {p})
  BY <1>1, SummaryOfOne
<1>3. state \in State(agg) /\ val[p] \in Nullable
  BY <1>1, SummaryType DEF Holds
<1>4. Update(agg, state, val[p]) = Merge(agg, state, one)
  BY <1>3, UpdateIsMergeOfOne
<1> HIDE DEF one
<1> QED BY <1>1, <1>2, <1>4, SummaryOfUnion

\* Update of a well-typed state gives one.
LEMMA UpdateType ==
  ASSUME NEW agg \in AggregateFunction, NEW s \in State(agg), NEW v \in Nullable
  PROVE  Update(agg, s, v) \in State(agg)
<1> DEFINE val == <<v>>
<1>1. val[1] = v /\ Holds(val, {1})
  <2>1. DOMAIN val = {1} /\ val[1] = v
    OBVIOUS
  <2> HIDE DEF val
  <2> QED BY <2>1, FS_Singleton DEF Holds
<1> HIDE DEF val
<1>2. Update(agg, Initialize(agg), v) \in State(agg)
  BY <1>1, SummaryOfOne, SummaryType
<1> QED BY <1>2, UpdateIsMergeOfOne, MergeType

LEMMA ValuesNullable == Values \subseteq Nullable
<1>1. ASSUME NEW v \in [1 .. 1 -> Int] PROVE v \in Nullable
  <2>1. v[1] \in Int /\ v = <<v[1]>>
    OBVIOUS
  <2> QED BY <2>1 DEF Nullable
<1> QED BY <1>1, GroupAssumption DEF Nullable

\* The states a task makes of n values are the states of these values,
\* wherever they stand in a longer sequence.
LEMMA PartialSummary ==
  ASSUME NEW n \in Nat, NEW raw \in [1 .. n -> Values],
         NEW val, NEW m \in Nat, m + 1 .. m + n \subseteq DOMAIN val,
         \A j \in 1 .. n : val[m + j] = raw[j],
         NEW i \in DOMAIN Aggs
  PROVE  Holds(val, m + 1 .. m + n) /\ Summary(Aggs[i], PartialStates(raw)[i], val, m + 1 .. m + n)
<1> DEFINE S == 1 .. n
           agg == Aggs[i]
           Body(iter) ==
             [s \in SUBSET DOMAIN raw |->
                IF s = {} THEN Initialize(Aggs[i])
                ELSE LET x == Max(s) IN Update(Aggs[i], iter[s \ {x}], raw[x])]
           chosen == CHOOSE iter : iter = Body(iter)
           pick == [s \in SUBSET S |-> Max(s)]
           step == [p \in S \X State(agg) |-> Update(agg, p[2], raw[p[1]])]
           Shift(s) == {m + j : j \in s}
<1>1. DOMAIN raw = S /\ IsFiniteSet(S)
  BY FS_Interval
<1>2. agg \in AggregateFunction
  BY GroupAssumption
<1>3. \A j \in S : raw[j] \in Nullable
  BY ValuesNullable
<1>4. Picks(pick, S) /\ \A s \in SUBSET S : pick[s] = Max(s)
  BY MaxIn DEF Picks
<1>5. step \in [S \X State(agg) -> State(agg)]
  BY <1>2, <1>3, UpdateType
<1>6. PICK it \in [SUBSET S -> State(agg)] : Unfolds(it, S, pick, Initialize(agg), step)
  <2>1. Initialize(agg) \in State(agg)
    BY <1>2, SummaryOfNothing, SummaryType, FS_EmptySet DEF Holds
  <2> HIDE DEF S, agg, pick, step
  <2> QED BY <1>1, <1>4, <1>5, <2>1, FoldExists
<1>7. it = Body(it)
  <2>1. it[{}] = Initialize(agg)
    BY <1>6 DEF Unfolds
  <2>2. ASSUME NEW s \in SUBSET S, s # {}
        PROVE  it[s] = Update(agg, it[s \ {Max(s)}], raw[Max(s)])
    <3>1. it[s] = step[<<pick[s], it[s \ {pick[s]}]>>]
      BY <1>6, <2>2 DEF Unfolds
    <3>2. pick[s] = Max(s) /\ Max(s) \in S /\ it[s \ {Max(s)}] \in State(agg)
      BY <1>4, <2>2 DEF Picks
    <3> QED BY <3>1, <3>2
  <2> QED BY <1>1, <2>1, <2>2
<1>8. chosen = Body(chosen)
  <2> HIDE DEF Body
  <2> QED BY <1>7
<1>9. PartialStates(raw)[i] = chosen[S]
  <2>1. PartialStates(raw)[i] = chosen[DOMAIN raw]
    BY DEF PartialStates, FoldLeft, MapThenFoldSet
  <2> HIDE DEF chosen
  <2> QED BY <1>1, <2>1
<1>10. /\ chosen[{}] = Initialize(agg)
       /\ \A s \in SUBSET S : s # {} => chosen[s] = Update(agg, chosen[s \ {Max(s)}], raw[Max(s)])
  <2>1. \A iter : iter = Body(iter) =>
           /\ iter[{}] = Initialize(agg)
           /\ \A s \in SUBSET S : s # {} => iter[s] = Update(agg, iter[s \ {Max(s)}], raw[Max(s)])
    BY <1>1
  <2> HIDE DEF Body, chosen
  <2> QED BY <1>8, <2>1
<1>11. ASSUME NEW s \in SUBSET S PROVE Holds(val, Shift(s))
  <2>1. Shift(s) \subseteq m + 1 .. m + n
    OBVIOUS
  <2>2. IsFiniteSet(Shift(s))
    <3>1. IsFiniteSet(m + 1 .. m + n)
      BY FS_Interval
    <3> HIDE DEF Shift
    <3> QED BY <2>1, <3>1, FS_Subset
  <2>3. \A p \in Shift(s) : val[p] \in Nullable
    BY <1>3
  <2> QED BY <2>1, <2>2, <2>3 DEF Holds
<1> DEFINE T == {s \in SUBSET S : Summary(agg, chosen[s], val, Shift(s))}
<1> HIDE DEF chosen, agg
<1>12. {} \in T
  <2>1. Shift({}) = {}
    OBVIOUS
  <2> QED BY <1>2, <1>10, <2>1, SummaryOfNothing
<1>13. ASSUME NEW s \in SUBSET S, s # {}, s \ {pick[s]} \in T PROVE s \in T
  <2> DEFINE x == Max(s)
             r == s \ {x}
  <2>1. x \in s /\ r \in T
    BY <1>4, <1>13 DEF Picks
  <2>2. chosen[s] = Update(agg, chosen[r], raw[x])
    BY <1>10, <1>13
  <2>3. Shift(s) = Shift(r) \union {m + x} /\ m + x \notin Shift(r) /\ val[m + x] = raw[x]
    <3>1. x \in 1 .. n /\ s = r \union {x} /\ x \notin r /\ r \subseteq 1 .. n
      BY <2>1
    <3> HIDE DEF x, r
    <3> QED BY <3>1
  <2>4. Holds(val, Shift(r) \union {m + x})
    BY <1>11, <2>3
  <2>5. Summary(agg, chosen[r], val, Shift(r))
    BY <2>1
  <2> HIDE DEF x, r, Shift
  <2>6. Summary(agg, Update(agg, chosen[r], val[m + x]), val, Shift(r) \union {m + x})
    BY <1>2, <2>3, <2>4, <2>5, SummaryOfUpdate
  <2> QED BY <2>2, <2>3, <2>6
<1>14. S \in T
  <2> HIDE DEF T, pick
  <2>1. \A s \in SUBSET S : s \in T
    <3> HIDE DEF S
    <3>1. PicksInto(T, pick, S)
      BY <1>12, <1>13 DEF PicksInto
    <3> QED BY <1>1, <1>4, <3>1, PickInduction
  <2> QED BY <2>1
<1>15. Shift(S) = m + 1 .. m + n
  <2>1. ASSUME NEW p \in m + 1 .. m + n PROVE p \in Shift(S)
    <3>1. p - m \in 1 .. n /\ p = m + (p - m)
      OBVIOUS
    <3> QED BY <3>1
  <2> QED BY <2>1
<1> QED BY <1>9, <1>11, <1>14, <1>15 DEF agg

-----------------------------------------------------------------------------
(* Tables and the values they stand for.  `val` gives the raw values of    *)
(* every class; part[c][r] are the positions of val[c] that were folded in *)
(* during round r, the last round being the one in memory.                 *)

States ==
  {f \in [DOMAIN Aggs -> Int \union Nullable \union (Int \X Int)] :
     \A i \in DOMAIN Aggs : f[i] \in State(Aggs[i])}
Entry == [key : Keys, states : States]

\* The positions of class c that were folded in during the rounds R.
Piece(part, c, R) == UNION {part[c][r] : r \in R}

\* The table holds the classes of D that came up during the rounds R, each
\* with a key of its class and the states of its values.
Represents(table, D, val, part, R) ==
  /\ table = [c \in {d \in D : Piece(part, d, R) # {}} |-> table[c]]
  /\ IsFiniteSet(DOMAIN table)
  /\ \A c \in DOMAIN table :
       /\ table[c] \in Entry
       /\ Class[table[c].key] = c
       /\ \A i \in DOMAIN Aggs :
            Summary(Aggs[i], table[c].states[i], val[c], Piece(part, c, R))

\* The rounds 0 .. n divide the values of every class among them.
Divides(val, part, n) ==
  \A c \in Classes :
    /\ val[c] \in Seq(Values)
    /\ \A r, q \in 0 .. n : r # q => part[c][r] \cap part[c][q] = {}
    /\ Piece(part, c, 0 .. n) = DOMAIN val[c]

LEMMA AggsTyped ==
  ASSUME NEW i \in DOMAIN Aggs
  PROVE  Aggs[i] \in AggregateFunction
BY GroupAssumption

\* Well-typed states of each aggregate are a row of states.
LEMMA StatesType ==
  ASSUME NEW f, f = [i \in DOMAIN Aggs |-> f[i]], \A i \in DOMAIN Aggs : f[i] \in State(Aggs[i])
  PROVE  f \in States
<1>1. ASSUME NEW i \in DOMAIN Aggs PROVE f[i] \in Int \union Nullable \union (Int \X Int)
  <2>1. f[i] \in State(Aggs[i])
    OBVIOUS
  <2> QED BY <2>1 DEF State
<1> QED BY <1>1 DEF States

\* Any rounds of a class hold finitely many nullable values.
LEMMA PieceHolds ==
  ASSUME NEW val, NEW part, NEW n \in Nat, Divides(val, part, n), NEW c \in Classes,
         NEW R \in SUBSET (0 .. n)
  PROVE  Holds(val[c], Piece(part, c, R))
<1>1. val[c] \in Seq(Values) /\ Piece(part, c, 0 .. n) = DOMAIN val[c]
  BY DEF Divides
<1>2. Piece(part, c, R) \subseteq Piece(part, c, 0 .. n)
  BY DEF Piece
<1>3. IsFiniteSet(DOMAIN val[c]) /\ \A p \in DOMAIN val[c] : val[c][p] \in Nullable
  <2>1. DOMAIN val[c] = 1 .. Len(val[c]) /\ Len(val[c]) \in Nat
    BY <1>1
  <2>2. \A p \in DOMAIN val[c] : val[c][p] \in Values
    BY <1>1
  <2>3. IsFiniteSet(1 .. Len(val[c]))
    <3>1. 1 \in Int /\ Len(val[c]) \in Int
      BY <2>1
    <3> QED BY ONLY <3>1, FS_Interval
  <2> QED BY <2>1, <2>2, <2>3, ValuesNullable
<1> HIDE DEF Piece
<1> QED BY <1>1, <1>2, <1>3, FS_Subset DEF Holds

\* Rounds that are apart have no position in common.
LEMMA PiecesApart ==
  ASSUME NEW val, NEW part, NEW n \in Nat, Divides(val, part, n), NEW c \in Classes,
         NEW R \in SUBSET (0 .. n), NEW r \in 0 .. n, r \notin R
  PROVE  /\ Piece(part, c, R) \cap Piece(part, c, {r}) = {}
         /\ Piece(part, c, R \union {r}) = Piece(part, c, R) \union Piece(part, c, {r})
<1>1. \A q \in R : q \in 0 .. n /\ q # r
  OBVIOUS
<1>2. \A q \in R : part[c][q] \cap part[c][r] = {}
  BY <1>1 DEF Divides
<1> QED BY <1>2 DEF Piece

\* Rounds in which no class of D came up may be added.
LEMMA RepresentsMore ==
  ASSUME NEW table, NEW D, NEW val, NEW part, NEW R, NEW Q, R \subseteq Q,
         Represents(table, D, val, part, R),
         \A r \in Q \ R : \A c \in D : part[c][r] = {}
  PROVE  Represents(table, D, val, part, Q)
<1>1. \A c \in D : Piece(part, c, Q) = Piece(part, c, R)
  BY DEF Piece
<1>2. {d \in D : Piece(part, d, Q) # {}} = {d \in D : Piece(part, d, R) # {}}
  BY <1>1
<1>3. table = [c \in {d \in D : Piece(part, d, Q) # {}} |-> table[c]]
  BY <1>2 DEF Represents
<1>4. \A c \in DOMAIN table : c \in D
  BY DEF Represents
<1> QED BY <1>1, <1>3, <1>4 DEF Represents

\* What a table represents does not change when values are added behind
\* those it stands for, in other rounds.
LEMMA RepresentsLater ==
  ASSUME NEW val, NEW part, NEW n \in Nat, Divides(val, part, n),
         NEW D \in SUBSET Classes, NEW R \in SUBSET (0 .. n),
         NEW table, Represents(table, D, val, part, R),
         NEW next, NEW new,
         \A c \in D : \A p \in DOMAIN val[c] : p \in DOMAIN next[c] /\ next[c][p] = val[c][p],
         \A c \in D : \A r \in R : new[c][r] = part[c][r]
  PROVE  Represents(table, D, next, new, R)
<1>1. \A c \in D : Piece(new, c, R) = Piece(part, c, R)
  BY DEF Piece
<1>2. table = [c \in {d \in D : Piece(new, d, R) # {}} |-> table[c]] /\ IsFiniteSet(DOMAIN table)
      /\ DOMAIN table \subseteq D
  BY <1>1 DEF Represents
<1>3. ASSUME NEW c \in DOMAIN table
      PROVE  /\ table[c] \in Entry
             /\ Class[table[c].key] = c
             /\ \A i \in DOMAIN Aggs : Summary(Aggs[i], table[c].states[i], next[c], Piece(new, c, R))
  <2> DEFINE V == Piece(part, c, R)
  <2>1. c \in D /\ Piece(new, c, R) = V
    BY <1>1, <1>2
  <2>2. Holds(val[c], V)
    BY <2>1, PieceHolds
  <2>3. V \subseteq DOMAIN next[c] /\ \A p \in V : val[c][p] = next[c][p]
    BY <2>1, <2>2 DEF Holds
  <2>4. /\ table[c] \in Entry /\ Class[table[c].key] = c
        /\ \A i \in DOMAIN Aggs : Summary(Aggs[i], table[c].states[i], val[c], V)
    BY DEF Represents
  <2> HIDE DEF V
  <2>5. \A i \in DOMAIN Aggs : Summary(Aggs[i], table[c].states[i], next[c], V)
    BY <2>2, <2>3, <2>4, SummaryAgrees
  <2>6. \A i \in DOMAIN Aggs : Summary(Aggs[i], table[c].states[i], next[c], Piece(new, c, R))
    BY <2>1, <2>5, Zenon
  <2> QED BY <2>4, <2>6
<1> QED BY <1>2, <1>3 DEF Represents

\* PartialStates is a row of states, and that of no values an untouched one.
LEMMA PartialStatesType ==
  ASSUME NEW n \in Nat, NEW raw \in [1 .. n -> Values]
  PROVE  PartialStates(raw) \in States
<1> DEFINE f == PartialStates(raw)
<1>1. f = [i \in DOMAIN Aggs |-> f[i]]
  BY DEF PartialStates
<1>2. ASSUME NEW i \in DOMAIN Aggs PROVE f[i] \in State(Aggs[i])
  <2> DEFINE V == 0 + 1 .. 0 + n
  <2>1. V = DOMAIN raw /\ \A j \in 1 .. n : raw[0 + j] = raw[j]
    OBVIOUS
  <2>2. Holds(raw, V) /\ Summary(Aggs[i], PartialStates(raw)[i], raw, V)
    BY <2>1, PartialSummary
  <2> HIDE DEF V
  <2> QED BY <2>2, AggsTyped, SummaryType
<1> HIDE DEF f
<1> QED BY <1>1, <1>2, StatesType DEF f

\* A new round begins with nothing in it.
LEMMA NewRound ==
  ASSUME NEW val, NEW part, NEW n \in Nat, Divides(val, part, n),
         NEW new, \A c \in Classes : \A r \in 0 .. n : new[c][r] = part[c][r],
         \A c \in Classes : new[c][n + 1] = {}
  PROVE  /\ Divides(val, new, n + 1)
         /\ Represents(NoGroups, Classes, val, new, {n + 1})
<1>1. n + 1 \in 0 .. n + 1 /\ 0 .. n + 1 = (0 .. n) \union {n + 1}
  OBVIOUS
<1>2. ASSUME NEW c \in Classes
      PROVE  /\ val[c] \in Seq(Values)
             /\ \A r, q \in 0 .. n + 1 : r # q => new[c][r] \cap new[c][q] = {}
             /\ Piece(new, c, 0 .. n + 1) = DOMAIN val[c]
  <2>1. /\ val[c] \in Seq(Values)
        /\ \A r, q \in 0 .. n : r # q => part[c][r] \cap part[c][q] = {}
        /\ Piece(part, c, 0 .. n) = DOMAIN val[c]
    BY DEF Divides
  <2>2. /\ \A r \in 0 .. n : new[c][r] = part[c][r]
        /\ new[c][n + 1] = {}
    OBVIOUS
  <2> DEFINE S == 0 .. n
             m == n + 1
  <2>3. 0 .. n + 1 = S \union {m}
    BY <1>1
  <2>4. \A r, q \in S \union {m} : r # q => new[c][r] \cap new[c][q] = {}
    <3> HIDE DEF S, m
    <3> QED BY <2>1, <2>2 DEF S, m
  <2>5. Piece(new, c, S \union {m}) = Piece(part, c, S)
    <3> HIDE DEF S, m
    <3> QED BY <2>2 DEF Piece, S, m
  <2> QED BY <2>1, <2>3, <2>4, <2>5
<1>3. Divides(val, new, n + 1)
  BY <1>2 DEF Divides
<1>4. \A c \in Classes : Piece(new, c, {n + 1}) = {}
  BY DEF Piece
<1>5. DOMAIN NoGroups = {} /\ NoGroups = [c \in {} |-> NoGroups[c]]
  BY DEF NoGroups
<1>6. {d \in Classes : Piece(new, d, {n + 1}) # {}} = {}
  BY <1>4
<1>7. NoGroups = [c \in {d \in Classes : Piece(new, d, {n + 1}) # {}} |-> NoGroups[c]]
  BY <1>5, <1>6
<1>8. IsFiniteSet(DOMAIN NoGroups)
  BY <1>5, FS_EmptySet
<1> QED BY <1>3, <1>5, <1>7, <1>8 DEF Represents

-----------------------------------------------------------------------------
(* Merging spill files.                                                    *)

\* The table after the entries at s.
Merging(table, file, s) ==
  [c \in DOMAIN table \union s |->
     IF c \notin s THEN table[c]
     ELSE IF c \in DOMAIN table
       THEN [key |-> table[c].key, states |-> MergeStates(table[c].states, file[c].states)]
       ELSE file[c]]

\* The order of the entries does not matter: each goes to a group of its own.
LEMMA MergeFileIs ==
  ASSUME NEW table, table = [c \in DOMAIN table |-> table[c]],
         NEW file, IsFiniteSet(DOMAIN file)
  PROVE  MergeFile(table, file) = Merging(table, file, DOMAIN file)
<1> DEFINE S == DOMAIN file
           Body(iter) ==
             [s \in SUBSET S |->
                IF s = {} THEN table
                ELSE LET x == CHOOSE x \in s : TRUE IN MergeInto(iter[s \ {x}], x, file[x])]
           chosen == CHOOSE iter : iter = Body(iter)
           pick == [s \in SUBSET S |-> Pick(s)]
           it == [s \in SUBSET S |-> Merging(table, file, s)]
<1>1. Picks(pick, S) /\ \A s \in SUBSET S : pick[s] = Pick(s)
  BY PickIn DEF Picks
<1>2. Merging(table, file, {}) = table
  BY DEF Merging
<1>3. ASSUME NEW s \in SUBSET S, NEW x \in s
      PROVE  Merging(table, file, s) = MergeInto(Merging(table, file, s \ {x}), x, file[x])
  <2> DEFINE old == Merging(table, file, s \ {x})
             new == Merging(table, file, s)
             entry == IF x \in DOMAIN old
                        THEN [key |-> old[x].key,
                              states |-> MergeStates(old[x].states, file[x].states)]
                        ELSE file[x]
             set == Set(old, x, entry)
  <2>1. MergeInto(old, x, file[x]) = set
    BY DEF MergeInto
  <2>2. DOMAIN old = DOMAIN table \union (s \ {x}) /\ DOMAIN new = DOMAIN table \union s
    BY DEF Merging
  <2>3. x \in DOMAIN old <=> x \in DOMAIN table
    BY <2>2
  <2>4. x \in DOMAIN table => old[x] = table[x]
    BY DEF Merging
  <2>5. new[x] = entry
    <3>1. CASE x \in DOMAIN table
      <4>1. new[x] = [key |-> table[x].key,
                      states |-> MergeStates(table[x].states, file[x].states)]
        BY <3>1 DEF Merging
      <4> HIDE DEF new, old
      <4> QED BY <2>3, <2>4, <3>1, <4>1
    <3>2. CASE x \notin DOMAIN table
      <4>1. new[x] = file[x]
        BY <3>2 DEF Merging
      <4> HIDE DEF new, old
      <4> QED BY <2>3, <3>2, <4>1
    <3> QED BY <3>1, <3>2
  <2>6. \A c \in DOMAIN new : c # x => new[c] = old[c]
    BY DEF Merging
  <2>7. new = [c \in DOMAIN new |-> new[c]]
    BY DEF Merging
  <2> HIDE DEF new, old, entry
  <2>8. set = [c \in DOMAIN old \union {x} |-> IF c = x THEN entry ELSE old[c]]
    BY DEF Set
  <2>9. DOMAIN old \union {x} = DOMAIN new
    BY <2>2
  <2>10. new = set
    BY <2>5, <2>6, <2>7, <2>8, <2>9
  <2> QED BY <2>1, <2>10 DEF new, old
<1>4. it = Body(it)
  <2>1. ASSUME NEW s \in SUBSET S, s # {}
        PROVE  it[s] = MergeInto(it[s \ {Pick(s)}], Pick(s), file[Pick(s)])
    <3>1. Pick(s) \in s /\ s \ {Pick(s)} \in SUBSET S
      BY <2>1, PickIn
    <3>2. it[s] = Merging(table, file, s) /\ it[s \ {Pick(s)}] = Merging(table, file, s \ {Pick(s)})
      BY <3>1
    <3> HIDE DEF it
    <3> QED BY <1>3, <3>1, <3>2
  <2>2. it[{}] = table
    BY <1>2
  <2> HIDE DEF Merging
  <2>3. it = [s \in SUBSET S |-> it[s]]
    OBVIOUS
  <2> HIDE DEF it
  <2> QED BY <2>1, <2>2, <2>3 DEF Pick
<1>5. chosen = Body(chosen)
  <2> HIDE DEF Body
  <2> QED BY <1>4
<1>6. MergeFile(table, file) = chosen[S]
  BY DEF MergeFile, FoldSet, MapThenFoldSet
<1>7. /\ chosen[{}] = table
      /\ \A s \in SUBSET S : s # {} => chosen[s] = MergeInto(chosen[s \ {Pick(s)}], Pick(s), file[Pick(s)])
  <2>1. \A iter : iter = Body(iter) =>
          /\ iter[{}] = table
          /\ \A s \in SUBSET S : s # {} => iter[s] = MergeInto(iter[s \ {Pick(s)}], Pick(s), file[Pick(s)])
    BY DEF Pick
  <2> HIDE DEF Body, chosen
  <2> QED BY <1>5, <2>1
<1> HIDE DEF chosen
<1> DEFINE T == {s \in SUBSET S : chosen[s] = Merging(table, file, s)}
<1>8. {} \in T
  BY <1>2, <1>7
<1>9. ASSUME NEW s \in SUBSET S, s # {}, s \ {pick[s]} \in T PROVE s \in T
  <2>1. Pick(s) \in s /\ pick[s] = Pick(s)
    BY <1>1, <1>9, PickIn
  <2>2. chosen[s \ {Pick(s)}] = Merging(table, file, s \ {Pick(s)})
    BY <1>9, <2>1
  <2>3. chosen[s] = MergeInto(chosen[s \ {Pick(s)}], Pick(s), file[Pick(s)])
    BY <1>7, <1>9
  <2>4. chosen[s] = Merging(table, file, s)
    BY <1>3, <2>1, <2>2, <2>3
  <2> QED BY <2>4
<1>10. \A s \in SUBSET S : s \in T
  <2> HIDE DEF T, pick
  <2>1. PicksInto(T, pick, S)
    BY <1>8, <1>9 DEF PicksInto
  <2> QED BY <1>1, <2>1, PickInduction
<1> QED BY <1>6, <1>10

\* Merging well-typed rows of states.
LEMMA MergeStatesType ==
  ASSUME NEW a \in States, NEW b \in States
  PROVE  /\ MergeStates(a, b) \in States
         /\ \A i \in DOMAIN Aggs : MergeStates(a, b)[i] = Merge(Aggs[i], a[i], b[i])
<1> DEFINE f == MergeStates(a, b)
<1>1. f = [i \in DOMAIN Aggs |-> f[i]] /\ \A i \in DOMAIN Aggs : f[i] = Merge(Aggs[i], a[i], b[i])
  BY DEF MergeStates
<1>2. \A i \in DOMAIN Aggs : a[i] \in State(Aggs[i]) /\ b[i] \in State(Aggs[i])
  BY DEF States
<1> HIDE DEF f
<1>3. \A i \in DOMAIN Aggs : f[i] \in State(Aggs[i])
  BY <1>1, <1>2, AggsTyped, MergeType
<1> QED BY <1>1, <1>3, StatesType DEF f

\* A file of round r merged into a table of other rounds.
LEMMA MergeFileRepresents ==
  ASSUME NEW val, NEW part, NEW n \in Nat, Divides(val, part, n),
         NEW D \in SUBSET Classes, NEW R \in SUBSET (0 .. n), NEW r \in 0 .. n, r \notin R,
         NEW table, Represents(table, D, val, part, R),
         NEW file, Represents(file, D, val, part, {r})
  PROVE  Represents(MergeFile(table, file), D, val, part, R \union {r})
<1> DEFINE new == MergeFile(table, file)
           old(c) == Piece(part, c, R)
           one(c) == Piece(part, c, {r})
           all(c) == Piece(part, c, R \union {r})
<1>1. /\ DOMAIN table = {d \in D : old(d) # {}} /\ IsFiniteSet(DOMAIN table)
      /\ table = [c \in DOMAIN table |-> table[c]]
  BY DEF Represents
<1>2. DOMAIN file = {d \in D : one(d) # {}} /\ IsFiniteSet(DOMAIN file)
  BY DEF Represents
<1>3. new = Merging(table, file, DOMAIN file)
  BY <1>1, <1>2, MergeFileIs
<1>4. /\ DOMAIN new = DOMAIN table \union DOMAIN file
      /\ new = [c \in DOMAIN new |-> new[c]]
      /\ \A c \in DOMAIN new :
           /\ c \notin DOMAIN file => new[c] = table[c]
           /\ c \in DOMAIN file /\ c \notin DOMAIN table => new[c] = file[c]
           /\ c \in DOMAIN file /\ c \in DOMAIN table =>
                new[c] = [key |-> table[c].key, states |-> MergeStates(table[c].states, file[c].states)]
  BY <1>3 DEF Merging
<1> HIDE DEF new
<1>5. \A c \in D : old(c) \cap one(c) = {} /\ all(c) = old(c) \union one(c)
  BY PiecesApart
<1>6. DOMAIN new = {d \in D : all(d) # {}}
  <2> HIDE DEF old, one, all
  <2> QED BY <1>1, <1>2, <1>4, <1>5
<1>7. IsFiniteSet(DOMAIN new)
  <2>1. IsFiniteSet(DOMAIN table \union DOMAIN file)
    BY <1>1, <1>2, FS_Union
  <2> QED BY <1>4, <2>1
<1>8. \A c \in D : Holds(val[c], old(c)) /\ Holds(val[c], one(c))
  BY PieceHolds
<1>9. ASSUME NEW c \in DOMAIN new
      PROVE  /\ new[c] \in Entry
             /\ Class[new[c].key] = c
             /\ \A i \in DOMAIN Aggs : Summary(Aggs[i], new[c].states[i], val[c], all(c))
  <2>1. c \in D
    BY <1>6
  <2>2. CASE c \notin DOMAIN file
    <3>1. one(c) = {} /\ all(c) = old(c) /\ c \in DOMAIN table /\ new[c] = table[c]
      <4> HIDE DEF old, one, all
      <4> QED BY <1>2, <1>4, <1>5, <2>1, <2>2
    <3>2. /\ table[c] \in Entry /\ Class[table[c].key] = c
          /\ \A i \in DOMAIN Aggs : Summary(Aggs[i], table[c].states[i], val[c], old(c))
      BY <3>1 DEF Represents
    <3> HIDE DEF old, one, all
    <3> QED BY <3>1, <3>2, Zenon
  <2>3. CASE c \in DOMAIN file /\ c \notin DOMAIN table
    <3>1. old(c) = {} /\ all(c) = one(c) /\ new[c] = file[c]
      <4> HIDE DEF old, one, all
      <4> QED BY <1>1, <1>4, <1>5, <2>1, <2>3
    <3>2. /\ file[c] \in Entry /\ Class[file[c].key] = c
          /\ \A i \in DOMAIN Aggs : Summary(Aggs[i], file[c].states[i], val[c], one(c))
      BY <2>3 DEF Represents
    <3> HIDE DEF old, one, all
    <3> QED BY <3>1, <3>2, Zenon
  <2>4. CASE c \in DOMAIN file /\ c \in DOMAIN table
    <3>1. new[c] = [key |-> table[c].key, states |-> MergeStates(table[c].states, file[c].states)]
      BY <1>4, <2>4
    <3>2. /\ table[c] \in Entry /\ Class[table[c].key] = c
          /\ \A i \in DOMAIN Aggs : Summary(Aggs[i], table[c].states[i], val[c], old(c))
      BY <2>4 DEF Represents
    <3>3. /\ file[c] \in Entry
          /\ \A i \in DOMAIN Aggs : Summary(Aggs[i], file[c].states[i], val[c], one(c))
      BY <2>4 DEF Represents
    <3>4. table[c].states \in States /\ file[c].states \in States /\ table[c].key \in Keys
      BY <3>2, <3>3 DEF Entry
    <3>5. MergeStates(table[c].states, file[c].states) \in States
          /\ \A i \in DOMAIN Aggs : MergeStates(table[c].states, file[c].states)[i]
                                      = Merge(Aggs[i], table[c].states[i], file[c].states[i])
      BY <3>4, MergeStatesType
    <3>6. new[c] \in Entry /\ Class[new[c].key] = c
      BY <3>1, <3>2, <3>4, <3>5 DEF Entry
    <3>7. ASSUME NEW i \in DOMAIN Aggs
          PROVE  Summary(Aggs[i], new[c].states[i], val[c], all(c))
      <4>1. new[c].states[i] = Merge(Aggs[i], table[c].states[i], file[c].states[i])
        BY <3>1, <3>5
      <4>2. Holds(val[c], old(c)) /\ Holds(val[c], one(c)) /\ old(c) \cap one(c) = {}
            /\ all(c) = old(c) \union one(c)
        BY <1>5, <1>8, <2>1
      <4> DEFINE agg == Aggs[i]
                 a == table[c].states[i]
                 b == file[c].states[i]
      <4>3. Summary(agg, a, val[c], old(c)) /\ Summary(agg, b, val[c], one(c))
        BY <3>2, <3>3
      <4>4. agg \in AggregateFunction
        BY AggsTyped
      <4> HIDE DEF old, one, all, agg, a, b
      <4>5. Summary(agg, Merge(agg, a, b), val[c], old(c) \union one(c))
        BY <4>2, <4>3, <4>4, SummaryOfUnion
      <4>6. Summary(agg, Merge(agg, a, b), val[c], all(c))
        BY <4>2, <4>5, Zenon
      <4> QED BY <4>1, <4>6, Zenon DEF agg, a, b
    <3> QED BY <3>6, <3>7
  <2> QED BY <2>2, <2>3, <2>4
<1>10. new = [c \in {d \in D : all(d) # {}} |-> new[c]]
  BY <1>4, <1>6
<1> QED BY <1>7, <1>9, <1>10 DEF Represents, new

Tables == UNION {[X -> Entry] : X \in SUBSET Classes}

\* Merging a file into a table of groups gives one.
LEMMA MergeFileType ==
  ASSUME NEW table \in Tables, NEW file \in Tables, IsFiniteSet(DOMAIN file)
  PROVE  MergeFile(table, file) \in Tables
<1> DEFINE new == MergeFile(table, file)
<1>1. /\ table = [c \in DOMAIN table |-> table[c]]
      /\ DOMAIN table \subseteq Classes /\ DOMAIN file \subseteq Classes
      /\ \A c \in DOMAIN table : table[c] \in Entry
      /\ \A c \in DOMAIN file : file[c] \in Entry
  BY DEF Tables
<1>2. new = Merging(table, file, DOMAIN file)
  BY <1>1, MergeFileIs
<1>3. /\ DOMAIN new = DOMAIN table \union DOMAIN file
      /\ new = [c \in DOMAIN new |-> new[c]]
      /\ \A c \in DOMAIN new :
           /\ c \notin DOMAIN file => new[c] = table[c]
           /\ c \in DOMAIN file /\ c \notin DOMAIN table => new[c] = file[c]
           /\ c \in DOMAIN file /\ c \in DOMAIN table =>
                new[c] = [key |-> table[c].key, states |-> MergeStates(table[c].states, file[c].states)]
  BY <1>2 DEF Merging
<1> HIDE DEF new
<1>4. ASSUME NEW c \in DOMAIN table, c \in DOMAIN file
      PROVE  [key |-> table[c].key, states |-> MergeStates(table[c].states, file[c].states)] \in Entry
  <2>1. table[c] \in Entry /\ file[c] \in Entry
    BY <1>1, <1>4
  <2>2. table[c].states \in States /\ file[c].states \in States /\ table[c].key \in Keys
    BY <2>1 DEF Entry
  <2>3. MergeStates(table[c].states, file[c].states) \in States
    BY <2>2, MergeStatesType
  <2> QED BY <2>2, <2>3 DEF Entry
<1>5. \A c \in DOMAIN new : new[c] \in Entry
  BY <1>1, <1>3, <1>4
<1>6. new \in [DOMAIN new -> Entry] /\ DOMAIN new \in SUBSET Classes
  BY <1>1, <1>3, <1>5
<1>7. new \in Tables
  BY <1>6 DEF Tables
<1> QED BY <1>7 DEF new

\* A represented table is a table of groups.
LEMMA RepresentsType ==
  ASSUME NEW table, NEW D \in SUBSET Classes, NEW val, NEW part, NEW R,
         Represents(table, D, val, part, R)
  PROVE  table \in Tables /\ IsFiniteSet(DOMAIN table)
<1>1. /\ DOMAIN table \in SUBSET Classes /\ \A c \in DOMAIN table : table[c] \in Entry
      /\ table = [c \in DOMAIN table |-> table[c]]
  BY DEF Represents
<1>2. table \in [DOMAIN table -> Entry]
  BY <1>1
<1> QED BY <1>1, <1>2 DEF Tables, Represents

\* Each file holds what the classes of D did in one round before the n-th.
FilesOfRounds(files, round, D, val, part, n) ==
  /\ \A j \in DOMAIN files :
       /\ round[j] \in 0 .. n - 1
       /\ Represents(files[j], D, val, part, {round[j]})
  /\ \A j, k \in DOMAIN files : j # k => round[j] # round[k]

\* Together with the table they represent the rounds of all.
LEMMA MergeFilesRepresents ==
  ASSUME NEW val, NEW part, NEW n \in Nat, Divides(val, part, n),
         NEW D \in SUBSET Classes, NEW table, Represents(table, D, val, part, {n}),
         NEW P, NEW files \in Seq(P), NEW round,
         FilesOfRounds(files, round, D, val, part, n),
         NEW all, all = {n} \union {round[j] : j \in DOMAIN files}
  PROVE  Represents(MergeFiles(table, files), D, val, part, all)
<1> DEFINE m == Len(files)
           S == 1 .. m
           file(j) == files[j]
           Body(iter) ==
             [s \in SUBSET DOMAIN files |->
                IF s = {} THEN table
                ELSE LET x == Max(s) IN MergeFile(iter[s \ {x}], files[x])]
           chosen == CHOOSE iter : iter = Body(iter)
           pick == [s \in SUBSET S |-> Max(s)]
           step == [p \in S \X Tables |-> MergeFile(p[2], file(p[1]))]
           Rounds(s) == {n} \union {round[j] : j \in s}
<1>0. /\ \A j \in DOMAIN files :
           /\ round[j] \in 0 .. n - 1
           /\ Represents(files[j], D, val, part, {round[j]})
      /\ \A j, k \in DOMAIN files : j # k => round[j] # round[k]
  BY DEF FilesOfRounds
<1>1. DOMAIN files = S /\ m \in Nat /\ IsFiniteSet(S)
  <2>1. DOMAIN files = S /\ m \in Nat
    OBVIOUS
  <2> HIDE DEF m
  <2> QED BY <2>1, FS_Interval
<1>2. Picks(pick, S) /\ \A s \in SUBSET S : pick[s] = Max(s)
  BY <1>1, MaxIn DEF Picks
<1>3. table \in Tables
  BY RepresentsType
<1>4. \A j \in S : file(j) \in Tables /\ IsFiniteSet(DOMAIN file(j))
  BY <1>0, <1>1, RepresentsType
<1>5. step \in [S \X Tables -> Tables]
  BY <1>4, MergeFileType
<1>6. PICK it \in [SUBSET S -> Tables] : Unfolds(it, S, pick, table, step)
  <2> HIDE DEF S, pick, step
  <2> QED BY <1>1, <1>2, <1>3, <1>5, FoldExists
<1>7. it = Body(it)
  <2>1. it[{}] = table
    BY <1>6 DEF Unfolds
  <2>2. ASSUME NEW s \in SUBSET S, s # {}
        PROVE  it[s] = MergeFile(it[s \ {Max(s)}], files[Max(s)])
    <3>1. it[s] = step[<<pick[s], it[s \ {pick[s]}]>>]
      BY <1>6, <2>2 DEF Unfolds
    <3>2. pick[s] = Max(s) /\ Max(s) \in S /\ it[s \ {Max(s)}] \in Tables
      BY <1>2, <2>2 DEF Picks
    <3> QED BY <3>1, <3>2
  <2> QED BY <1>1, <2>1, <2>2
<1>8. chosen = Body(chosen)
  <2> HIDE DEF Body
  <2> QED BY <1>7
<1>9. MergeFiles(table, files) = chosen[S]
  <2>1. MergeFiles(table, files) = chosen[DOMAIN files]
    BY DEF MergeFiles, FoldLeft, MapThenFoldSet
  <2> HIDE DEF chosen
  <2> QED BY <1>1, <2>1
<1>10. /\ chosen[{}] = table
       /\ \A s \in SUBSET S : s # {} => chosen[s] = MergeFile(chosen[s \ {Max(s)}], file(Max(s)))
  <2>1. \A iter : iter = Body(iter) =>
           /\ iter[{}] = table
           /\ \A s \in SUBSET S : s # {} => iter[s] = MergeFile(iter[s \ {Max(s)}], file(Max(s)))
    BY <1>1
  <2> HIDE DEF Body, chosen
  <2> QED BY <1>8, <2>1
<1> DEFINE T == {s \in SUBSET S : Represents(chosen[s], D, val, part, Rounds(s))}
<1> HIDE DEF chosen
<1>11. {} \in T
  <2>1. Rounds({}) = {n}
    OBVIOUS
  <2> QED BY <1>10, <2>1
<1>12. ASSUME NEW s \in SUBSET S, s # {}, s \ {pick[s]} \in T PROVE s \in T
  <2> DEFINE x == Max(s)
             r == s \ {x}
             at == round[x]
  <2>1. x \in s /\ r \in T
    BY <1>2, <1>12 DEF Picks
  <2>2. chosen[s] = MergeFile(chosen[r], file(x))
    BY <1>10, <1>12
  <2>3. Represents(chosen[r], D, val, part, Rounds(r))
    BY <2>1
  <2>4. Represents(file(x), D, val, part, {at}) /\ at \in 0 .. n - 1
    BY <1>0, <1>1, <2>1
  <2>5. Rounds(s) = Rounds(r) \union {at} /\ at \notin Rounds(r)
        /\ Rounds(r) \in SUBSET (0 .. n) /\ at \in 0 .. n
    <3>1. x \in DOMAIN files /\ s = r \union {x} /\ x \notin r /\ r \subseteq DOMAIN files
      BY <1>1, <2>1
    <3>2. \A j \in r : round[j] # at /\ round[j] \in 0 .. n - 1
      BY <1>0, <3>1
    <3>3. at # n /\ 0 .. n - 1 \subseteq 0 .. n /\ n \in 0 .. n
      BY <2>4
    <3> HIDE DEF x, r
    <3> QED BY <2>4, <3>1, <3>2, <3>3
  <2> HIDE DEF x, r, at, Rounds, file
  <2>6. Represents(MergeFile(chosen[r], file(x)), D, val, part, Rounds(r) \union {at})
    BY <2>3, <2>4, <2>5, MergeFileRepresents
  <2>7. Represents(chosen[s], D, val, part, Rounds(s))
    BY <2>2, <2>5, <2>6
  <2> QED BY <2>7
<1> HIDE DEF T, pick, step, file, Body, Rounds, S
<1>13. S \in T
  <2>1. PicksInto(T, pick, S)
    BY <1>11, <1>12 DEF PicksInto
  <2>2. SUBSET S \subseteq T
    BY <1>1, <1>2, <2>1, PickInduction
  <2> QED BY <2>2
<1>14. Represents(chosen[S], D, val, part, Rounds(S))
  BY <1>13 DEF T
<1>15. Rounds(S) = all
  BY <1>1 DEF Rounds
<1> QED BY <1>1, <1>9, <1>14, <1>15, Zenon

-----------------------------------------------------------------------------
(* The raw values behind rows, and what is made of all of them.            *)

RowType == [key : Keys, raw : UNION {[1 .. n -> Values] : n \in Nat \ {0}}]

RawAt(rows, class, i) == IF Class[rows[i].key] = class THEN rows[i].raw ELSE <<>>

\* One more row adds its values to those of its class, and to no other.
LEMMA RawInAppend ==
  ASSUME NEW rows \in Seq(RowType), NEW row \in RowType, NEW class
  PROVE  /\ RawIn(rows, class) \in Seq(Values)
         /\ Class[row.key] = class =>
              RawIn(Append(rows, row), class) = RawIn(rows, class) \o row.raw
         /\ Class[row.key] # class => RawIn(Append(rows, row), class) = RawIn(rows, class)
<1> DEFINE more == Append(rows, row)
           ss == [i \in DOMAIN rows |-> RawAt(rows, class, i)]
           s == IF Class[row.key] = class THEN row.raw ELSE <<>>
           tt == [i \in DOMAIN more |-> RawAt(more, class, i)]
<1>1. \A r \in RowType : r.raw \in Seq(Values)
  BY DEF RowType
<1>2. ss \in Seq(Seq(Values)) /\ s \in Seq(Values)
  <2>1. \A i \in DOMAIN rows : RawAt(rows, class, i) \in Seq(Values)
    BY <1>1 DEF RawAt
  <2>2. DOMAIN rows = 1 .. Len(rows) /\ Len(rows) \in Nat
    OBVIOUS
  <2> QED BY <1>1, <2>1, <2>2
<1>3. tt = Append(ss, s)
  <2>1. Len(more) = Len(rows) + 1 /\ DOMAIN more = 1 .. Len(rows) + 1 /\ Len(rows) \in Nat
    OBVIOUS
  <2>2. Len(ss) = Len(rows) /\ DOMAIN ss = 1 .. Len(rows)
    OBVIOUS
  <2>3. Append(ss, s) = [i \in 1 .. Len(rows) + 1 |-> IF i = Len(rows) + 1 THEN s ELSE ss[i]]
    BY <1>2, <2>2
  <2>4. \A i \in 1 .. Len(rows) + 1 :
           RawAt(more, class, i) = IF i = Len(rows) + 1 THEN s ELSE ss[i]
    BY <2>1, <2>2 DEF RawAt
  <2> HIDE DEF s, ss
  <2> QED BY <2>1, <2>3, <2>4
<1>4. RawIn(rows, class) = FlattenSeq(ss) /\ RawIn(more, class) = FlattenSeq(tt)
  BY DEF RawIn, RawAt
<1> HIDE DEF ss, tt, s
<1>5. RawIn(rows, class) \in Seq(Values) /\ RawIn(more, class) = RawIn(rows, class) \o s
  BY <1>2, <1>3, <1>4, FlattenAppend
<1>6. RawIn(rows, class) \o <<>> = RawIn(rows, class)
  BY <1>5
<1> QED BY <1>5, <1>6 DEF s

\* No rows, no values and no classes.
LEMMA RawInEmpty == ClassesIn(<<>>) = {} /\ \A class : RawIn(<<>>, class) = <<>>
<1>1. \A class : [i \in DOMAIN <<>> |-> IF Class[<<>>[i].key] = class THEN <<>>[i].raw ELSE <<>>] = <<>>
  OBVIOUS
<1>2. \A class : RawIn(<<>>, class) = <<>>
  BY <1>1, FlattenEmpty DEF RawIn
<1> QED BY <1>2 DEF ClassesIn

LEMMA ClassesAppend ==
  ASSUME NEW rows \in Seq(RowType), NEW row
  PROVE  ClassesIn(Append(rows, row)) = ClassesIn(rows) \union {Class[row.key]}
<1> DEFINE n == Len(rows)
           more == Append(rows, row)
<1>1. DOMAIN rows = 1 .. n /\ n \in Nat /\ DOMAIN more = 1 .. n + 1
  OBVIOUS
<1>2. DOMAIN more = DOMAIN rows \union {n + 1}
  BY <1>1
<1>3. (\A i \in DOMAIN rows : more[i] = rows[i]) /\ more[n + 1] = row
  OBVIOUS
<1> HIDE DEF n, more
<1>4. ClassesIn(more) = ClassesIn(rows) \union {Class[row.key]}
  BY <1>2, <1>3 DEF ClassesIn
<1> QED BY <1>4 DEF more

\* A class has values when a row of it is there, each row having some.
LEMMA ValuesOfClasses ==
  ASSUME NEW rows \in Seq(RowType), NEW class
  PROVE  /\ RawIn(rows, class) \in Seq(Values)
         /\ DOMAIN RawIn(rows, class) # {} <=> class \in ClassesIn(rows)
         /\ ClassesIn(rows) \subseteq Classes
<1> DEFINE Good(s) == /\ RawIn(s, class) \in Seq(Values)
                      /\ DOMAIN RawIn(s, class) # {} <=> class \in ClassesIn(s)
           T == {s \in Seq(RowType) : Good(s)}
<1>1. <<>> \in T
  <2>1. DOMAIN <<>> = {} /\ <<>> \in Seq(RowType) /\ <<>> \in Seq(Values)
    OBVIOUS
  <2> QED BY <2>1, RawInEmpty
<1>2. ASSUME NEW s \in T, NEW row \in RowType PROVE Append(s, row) \in T
  <2> DEFINE more == Append(s, row)
             v == RawIn(s, class)
             u == row.raw
  <2>1. s \in Seq(RowType) /\ v \in Seq(Values) /\ (DOMAIN v # {} <=> class \in ClassesIn(s))
    OBVIOUS
  <2>2. more \in Seq(RowType) /\ u \in Seq(Values) /\ Len(u) \in Nat \ {0}
    BY <2>1 DEF RowType
  <2>3. RawIn(more, class) = IF Class[row.key] = class THEN v \o u ELSE v
    BY <2>1, RawInAppend
  <2>4. ClassesIn(more) = ClassesIn(s) \union {Class[row.key]}
    BY <2>1, ClassesAppend
  <2> HIDE DEF v, u, more
  <2>5. DOMAIN (v \o u) # {} /\ v \o u \in Seq(Values)
    <3>1. DOMAIN (v \o u) = 1 .. Len(v) + Len(u) /\ v \o u \in Seq(Values) /\ Len(v) \in Nat
      BY <2>1, <2>2
    <3>2. 1 \in DOMAIN (v \o u)
      BY <2>2, <3>1
    <3> QED BY <3>1, <3>2
  <2>6. Good(more)
    BY <2>1, <2>3, <2>4, <2>5
  <2> HIDE DEF Good
  <2> QED BY <2>2, <2>6 DEF more
<1>3. rows \in T
  <2> HIDE DEF T
  <2> QED BY <1>1, <1>2, SeqInduction
<1>4. ClassesIn(rows) \subseteq Classes
  <2>1. \A i \in DOMAIN rows : rows[i] \in RowType
    OBVIOUS
  <2> QED BY <2>1 DEF ClassesIn, Classes, RowType
<1> QED BY <1>3, <1>4

\* The rows of two datasets, one after the other.
LEMMA RawInConcat ==
  ASSUME NEW s \in Seq(RowType), NEW t \in Seq(RowType), NEW class
  PROVE  /\ RawIn(s \o t, class) = RawIn(s, class) \o RawIn(t, class)
         /\ ClassesIn(s \o t) = ClassesIn(s) \union ClassesIn(t)
<1> DEFINE v == RawIn(s, class)
           Good(r) == /\ RawIn(s \o r, class) = v \o RawIn(r, class)
                      /\ ClassesIn(s \o r) = ClassesIn(s) \union ClassesIn(r)
           T == {r \in Seq(RowType) : Good(r)}
<1>1. v \in Seq(Values)
  BY ValuesOfClasses
<1>2. <<>> \in T
  <2>1. s \o <<>> = s /\ <<>> \in Seq(RowType) /\ v \o <<>> = v
    BY <1>1
  <2> HIDE DEF v
  <2> QED BY <2>1, RawInEmpty DEF v
<1>3. ASSUME NEW r \in T, NEW row \in RowType PROVE Append(r, row) \in T
  <2> DEFINE more == Append(r, row)
             all == s \o r
             w == RawIn(r, class)
             u == row.raw
  <2>1. r \in Seq(RowType) /\ all \in Seq(RowType) /\ more \in Seq(RowType)
        /\ s \o more = Append(all, row)
    OBVIOUS
  <2>2. RawIn(all, class) = v \o w /\ ClassesIn(all) = ClassesIn(s) \union ClassesIn(r)
    OBVIOUS
  <2>3. u \in Seq(Values) /\ w \in Seq(Values)
    <3>1. u \in Seq(Values)
      BY ONLY row \in RowType DEF RowType
    <3>2. w \in Seq(Values)
      BY ONLY <2>1, ValuesOfClasses
    <3> QED BY <3>1, <3>2
  <2>4. RawIn(more, class) = (IF Class[row.key] = class THEN w \o u ELSE w)
        /\ ClassesIn(more) = ClassesIn(r) \union {Class[row.key]}
    BY <2>1, RawInAppend, ClassesAppend
  <2> HIDE DEF all
  <2>5. RawIn(Append(all, row), class)
            = (IF Class[row.key] = class THEN RawIn(all, class) \o u ELSE RawIn(all, class))
        /\ ClassesIn(Append(all, row)) = ClassesIn(all) \union {Class[row.key]}
    <3>1. all \in Seq(RowType) /\ row \in RowType
      BY <2>1
    <3>2. ClassesIn(Append(all, row)) = ClassesIn(all) \union {Class[row.key]}
      BY ONLY <3>1, ClassesAppend
    <3>3. /\ Class[row.key] = class => RawIn(Append(all, row), class) = RawIn(all, class) \o u
          /\ Class[row.key] # class => RawIn(Append(all, row), class) = RawIn(all, class)
      BY ONLY <3>1, RawInAppend
    <3> QED BY ONLY <3>2, <3>3
  <2> HIDE DEF more, v, w, u
  <2>6. (v \o w) \o u = v \o (w \o u)
    BY <1>1, <2>3
  <2>7. Good(more)
    BY <2>1, <2>2, <2>4, <2>5, <2>6
  <2> HIDE DEF Good
  <2> QED BY <2>1, <2>7 DEF more
<1>4. t \in T
  <2> HIDE DEF T
  <2> QED BY <1>2, <1>3, SeqInduction
<1> QED BY <1>4

\* By class, the values behind all rows.
RawValues(rows) == [c \in Classes |-> RawIn(rows, c)]

\* Of the classes of D those that occur, with what SQL makes of the rows.
IsReference(table, rows, D) ==
  /\ DOMAIN table = D \cap ClassesIn(rows)
  /\ \A c \in DOMAIN table : \A a \in DOMAIN Aggs :
       Finalize(Aggs[a], table[c].states[a]) = Reference(Aggs[a], RawIn(rows, c))

\* A table that stands for every round of D gives the reference results.
LEMMA TableIsReference ==
  ASSUME NEW rows \in Seq(RowType), NEW val, val = RawValues(rows),
         NEW part, NEW n \in Nat, Divides(val, part, n),
         NEW D \in SUBSET Classes, NEW R, R = 0 .. n,
         NEW table, Represents(table, D, val, part, R)
  PROVE  IsReference(table, rows, D)
<1>1. \A c \in Classes : val[c] \in Seq(Values) /\ Piece(part, c, R) = DOMAIN val[c]
  BY DEF Divides
<1>2. DOMAIN table = {d \in D : Piece(part, d, R) # {}}
  BY DEF Represents
<1>3. \A c \in Classes : val[c] = RawIn(rows, c) /\ (DOMAIN val[c] # {} <=> c \in ClassesIn(rows))
  BY ValuesOfClasses DEF RawValues
<1>4. DOMAIN table = D \cap ClassesIn(rows)
  BY <1>1, <1>2, <1>3
<1>5. ASSUME NEW c \in DOMAIN table, NEW a \in DOMAIN Aggs
      PROVE  Finalize(Aggs[a], table[c].states[a]) = Reference(Aggs[a], val[c])
  <2> DEFINE state == table[c].states[a]
             agg == Aggs[a]
             values == val[c]
  <2>1. c \in Classes
    BY <1>4
  <2>2. values \in Seq(Nullable) /\ agg \in AggregateFunction
    BY <1>1, <2>1, ValuesNullable, AggsTyped
  <2>3. Piece(part, c, R) = DOMAIN values
    BY <1>1, <2>1
  <2>4. Summary(agg, state, values, Piece(part, c, R))
    BY DEF Represents
  <2> HIDE DEF state, agg, values
  <2>5. Summary(agg, state, values, DOMAIN values)
    BY <2>3, <2>4, Zenon
  <2>6. Finalize(agg, state) = Reference(agg, values)
    BY <2>2, <2>5, SummaryIsReference
  <2> QED BY <2>6 DEF state, agg, values
<1>6. \A c \in DOMAIN table : c \in Classes
  BY <1>4
<1> QED BY <1>3, <1>4, <1>5, <1>6 DEF IsReference

-----------------------------------------------------------------------------
(* Tables that are parted by their keys.                                   *)

\* Equal keys have the same place.
Agree(place) == \A k, l \in Keys : Class[k] = Class[l] => place[k] = place[l]

ClassesAt(place, b) == {c \in Classes : \E k \in Keys : Class[k] = c /\ place[k] = b}

\* The classes of one place, taken out of a table.
LEMMA PartRepresents ==
  ASSUME NEW place, Agree(place), NEW table, NEW val, NEW part, NEW R,
         Represents(table, Classes, val, part, R), NEW b,
         NEW new, new = [c \in {d \in DOMAIN table : place[table[d].key] = b} |-> table[c]]
  PROVE  Represents(new, ClassesAt(place, b), val, part, R)
<1>1. DOMAIN table = {d \in Classes : Piece(part, d, R) # {}}
  BY DEF Represents
<1>2. \A d \in DOMAIN table : place[table[d].key] = b <=> d \in ClassesAt(place, b)
  <2>1. ASSUME NEW d \in DOMAIN table
        PROVE  place[table[d].key] = b <=> d \in ClassesAt(place, b)
    <3>1. table[d].key \in Keys /\ Class[table[d].key] = d /\ d \in Classes
      BY <1>1 DEF Represents, Entry
    <3> QED BY <3>1 DEF Agree, ClassesAt
  <2> QED BY <2>1
<1>3. DOMAIN new = {d \in DOMAIN table : place[table[d].key] = b}
  OBVIOUS
<1>4. DOMAIN new = {d \in ClassesAt(place, b) : Piece(part, d, R) # {}}
  <2>1. ClassesAt(place, b) \subseteq Classes
    BY DEF ClassesAt
  <2> QED BY <1>1, <1>2, <1>3, <2>1
<1>5. DOMAIN new \subseteq DOMAIN table /\ \A c \in DOMAIN new : new[c] = table[c]
  OBVIOUS
<1>6. new = [c \in DOMAIN new |-> new[c]]
  OBVIOUS
<1>7. IsFiniteSet(DOMAIN new)
  BY <1>5, FS_Subset DEF Represents
<1>8. new = [c \in {d \in ClassesAt(place, b) : Piece(part, d, R) # {}} |-> new[c]]
  BY <1>4, <1>6
<1> QED BY <1>5, <1>7, <1>8 DEF Represents

\* No class has two places, and each has one of those the keys have.
LEMMA PlacesApart ==
  ASSUME NEW place, Agree(place), NEW B, \A k \in Keys : place[k] \in B
  PROVE  /\ \A b, d \in B : b # d => ClassesAt(place, b) \cap ClassesAt(place, d) = {}
         /\ \A c \in Classes : \E b \in B : c \in ClassesAt(place, b)
BY DEF Agree, ClassesAt, Classes
=============================================================================
