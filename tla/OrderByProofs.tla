--------------------------- MODULE OrderByProofs ---------------------------
(***************************************************************************)
(* The ranges of order_by, for any data, any number of partitions and      *)
(* either direction: every key RangePartitioner accepts has a partition,   *)
(* and partitions follow the order of the first key.                       *)
(***************************************************************************)
EXTENDS OrderBy, DataTheorems, WellFoundedInduction

\* A finite set of integers has a least element: the one with the fewest
\* elements below it.
LEMMA FiniteHasMin ==
  ASSUME NEW S \in SUBSET Int, IsFiniteSet(S), S # {}
  PROVE  Min(S) \in S /\ \A y \in S : Min(S) =< y
<1> DEFINE Below(x) == {y \in S : y < x}
<1> DEFINE Counts == {Cardinality(Below(x)) : x \in S}
<1>1. \A x \in S : Cardinality(Below(x)) \in Nat
  <2> TAKE x \in S
  <2>1. IsFiniteSet(Below(x))
    BY FS_Subset
  <2> QED
    BY <2>1, FS_CardinalityType
<1>2. \E n \in Counts : \A k \in Counts : ~ (<<k, n>> \in OpToRel(<, Nat))
  <2>1. Counts \subseteq Nat /\ Counts # {}
    BY <1>1
  <2> HIDE DEF Counts
  <2> QED
    BY <2>1, NatLessThanWellFounded, WFMin
<1>3. PICK x \in S : \A y \in S : ~ (Cardinality(Below(y)) < Cardinality(Below(x)))
  BY <1>1, <1>2 DEF OpToRel
<1>4. \A y \in S : x =< y
  <2> SUFFICES ASSUME NEW y \in S, y < x
               PROVE  FALSE
    OBVIOUS
  <2>1. IsFiniteSet(Below(x))
    BY FS_Subset
  <2>2. Below(y) \in SUBSET Below(x)
    <3>1. \A z \in S : z < y => z < x
      OBVIOUS
    <3> QED
      BY <3>1
  <2>3. y \in Below(x) /\ y \notin Below(y)
    OBVIOUS
  <2>4. Cardinality(Below(y)) <= Cardinality(Below(x)) /\ Cardinality(Below(y)) # Cardinality(Below(x))
    BY <2>1, <2>2, <2>3, FS_Subset
  <2> HIDE DEF Below
  <2> QED
    BY <2>4, <1>1, <1>3
<1> QED
  BY <1>4 DEF Min

\* Likewise a greatest one: the one whose opposite is least.
LEMMA FiniteHasMax ==
  ASSUME NEW S \in SUBSET Int, IsFiniteSet(S), S # {}
  PROVE  Max(S) \in S
<1> DEFINE Neg == {- x : x \in S}
<1>1. Neg \in SUBSET Int /\ Neg # {}
  <2>1. \A x \in S : - x \in Int
    OBVIOUS
  <2>2. PICK x \in S : - x \in Neg
    OBVIOUS
  <2> QED
    BY <2>1, <2>2
<1>2. IsFiniteSet(Neg)
  <2> DEFINE f == [x \in S |-> - x]
  <2>1. f \in Surjection(S, Neg)
    BY DEF Surjection
  <2> QED
    BY <2>1, FS_Surjection
<1>3. Min(Neg) \in Neg
  BY <1>1, <1>2, FiniteHasMin
<1>4. \A y \in Neg : Min(Neg) =< y
  BY <1>1, <1>2, FiniteHasMin
<1>5. PICK x \in S : Min(Neg) = - x
  BY <1>3
<1>6. \A y \in S : x >= y
  <2> SUFFICES ASSUME NEW y \in S
               PROVE  x >= y
    OBVIOUS
  <2>1. - x =< - y
    BY <1>4, <1>5
  <2> QED
    BY <2>1
<1> QED
  BY <1>6 DEF Max

-----------------------------------------------------------------------------
\* What planning decides: one partition without boundaries, or as many as
\* configured, with a whole number between any two.
PlanInv ==
  /\ ascending \in Directions
  /\ shuffle_partitions \in ShufflePartitions
  /\ source \in [Sources -> BoundedSeq(Row, MaxRows)]
  /\ \/ phase = "plan"
     \/ range_boundaries = <<>> /\ num_partitions = 1
     \/ /\ num_partitions = shuffle_partitions
        /\ range_boundaries \in [1 .. shuffle_partitions - 1 -> Int]

\* A row's first key is null or an integer.
LEMMA KeyType ==
  ASSUME NEW row \in Row, NEW asc \in Directions, row[1] # Null
  PROVE  row[1][1] \in Int
<1>1. 1 \in DOMAIN asc
  BY OrderByAssumption
<1>2. 1 \in DOMAIN Values
  BY <1>1, OrderByAssumption
<1>3. row[1] \in Values[1]
  BY <1>2 DEF Row
<1>4. row[1] \in [1 .. 1 -> Int]
  BY <1>2, <1>3, OrderByAssumption
<1> QED
  BY <1>4

\* The keys compute_statistics looks at are finitely many integers.
LEMMA KeysFinite ==
  ASSUME PlanInv
  PROVE  KeyValues \in SUBSET Int /\ IsFiniteSet(KeyValues)
<1> DEFINE Spots == {x \in Sources \X (1 .. MaxRows) :
                        x[2] \in DOMAIN source[x[1]] /\ source[x[1]][x[2]][1] # Null}
<1> DEFINE key == [x \in Spots |-> source[x[1]][x[2]][1][1]]
<1>1. \A p \in Sources : \E m \in 0 .. MaxRows : source[p] \in [1 .. m -> Row]
  BY DEF PlanInv, BoundedSeq, SeqOf
<1>2. KeyValues \in SUBSET Int
  BY <1>1, KeyType DEF KeyValues, Range, PlanInv
<1>3. IsFiniteSet(Spots)
  <2>1. IsFiniteSet(Sources) /\ IsFiniteSet(1 .. MaxRows)
    BY OrderByAssumption, FS_Interval DEF Sources
  <2>2. IsFiniteSet(Sources \X (1 .. MaxRows))
    BY <2>1, FS_Product
  <2> QED
    BY <2>2, FS_Subset
<1>4. \A k \in KeyValues : \E x \in Spots : key[x] = k
  <2> TAKE k \in KeyValues
  <2>1. PICK p \in Sources : \E row \in Range(source[p]) : row[1] # Null /\ k = row[1][1]
    BY DEF KeyValues
  <2>2. PICK i \in DOMAIN source[p] : source[p][i][1] # Null /\ k = source[p][i][1][1]
    BY <2>1 DEF Range
  <2>3. i \in 1 .. MaxRows
    BY <1>1, OrderByAssumption
  <2>4. <<p, i>> \in Spots
    BY <2>2, <2>3
  <2>5. key[<<p, i>>] = k
    BY <2>2, <2>4
  <2> QED
    BY <2>4, <2>5
<1>5. \A x \in Spots : key[x] \in KeyValues
  <2> SUFFICES ASSUME NEW x \in Spots PROVE key[x] \in KeyValues
    OBVIOUS
  <2> DEFINE p == x[1]
             row == source[p][x[2]]
  <2>1. p \in Sources /\ row \in Range(source[p]) /\ row[1] # Null
    BY DEF Range
  <2>2. key[x] = row[1][1]
    OBVIOUS
  <2> HIDE DEF p, row, Spots, key
  <2>3. row[1][1] \in {r[1][1] : r \in {q \in Range(source[p]) : q[1] # Null}}
    BY <2>1
  <2>4. row[1][1] \in KeyValues
    BY <2>1, <2>3 DEF KeyValues
  <2> QED
    BY <2>2, <2>4
<1>6. key \in Surjection(Spots, KeyValues)
  <2> HIDE DEF Spots
  <2> QED
    BY <1>4, <1>5 DEF Surjection
<1> QED
  BY <1>2, <1>3, <1>6, FS_Surjection

\* PlanSort cuts the range at whole numbers, or not at all.
LEMMA PlanSortStep ==
  ASSUME PlanInv, PlanSort
  PROVE  PlanInv'
<1> DEFINE Keys == {Signed(v) : v \in KeyValues}
<1>1. shuffle_partitions \in Nat
  BY OrderByAssumption DEF PlanInv
<1>2. CASE shuffle_partitions > 1 /\ rangeable /\ KeyValues # {}
  <2>1. Keys \in SUBSET Int /\ Keys # {}
    BY <1>2, KeysFinite DEF Signed
  <2>2. IsFiniteSet(Keys)
    <3> DEFINE f == [v \in KeyValues |-> Signed(v)]
    <3>1. f \in Surjection(KeyValues, Keys)
      BY DEF Surjection
    <3> QED
      BY <3>1, KeysFinite, FS_Surjection
  <2>3. Min(Keys) \in Int /\ Max(Keys) \in Int
    BY <2>1, <2>2, FiniteHasMin, FiniteHasMax
  <2>4. Boundaries(Min(Keys), Max(Keys)) \in [1 .. shuffle_partitions - 1 -> Int]
    <3> HIDE DEF Keys
    <3> QED
      BY <1>1, <2>3 DEF Boundaries, RangeBoundaries
  <2>5. num_partitions' = shuffle_partitions /\ range_boundaries' = Boundaries(Min(Keys), Max(Keys))
    BY <1>2 DEF PlanSort
  <2> HIDE DEF Keys
  <2> QED
    BY <2>4, <2>5 DEF PlanInv, PlanSort, query
<1>3. CASE ~ (shuffle_partitions > 1 /\ rangeable /\ KeyValues # {})
  BY <1>3 DEF PlanInv, PlanSort, query
<1> QED
  BY <1>2, <1>3

\* The plan is made once.
THEOREM Inductive == Spec => []PlanInv
<1>1. Init => PlanInv
  BY DEF Init, PlanInv
<1>2. PlanInv /\ [Next]_vars => PlanInv'
  <2> SUFFICES ASSUME PlanInv, [Next]_vars
               PROVE  PlanInv'
    OBVIOUS
  <2>1. CASE PlanSort
    BY <2>1, PlanSortStep
  <2>2. CASE \E p \in Sources : WriteSource(p) \/ WriteRaises(p)
    BY <2>2 DEF WriteSource, WriteRaises, PlanInv, query, plan
  <2>3. CASE \E t \in Targets : ReadTarget(t)
    BY <2>3 DEF ReadTarget, PlanInv, query, plan
  <2>4. CASE UNCHANGED vars
    BY <2>4 DEF vars, PlanInv, query, plan
  <2> QED
    BY <2>1, <2>2, <2>3, <2>4 DEF Next
<1> QED
  BY <1>1, <1>2, PTL DEF Spec

-----------------------------------------------------------------------------
\* bisect_right answers a partition, and one no earlier for a key no smaller.
LEMMA PartitionForMonotone ==
  ASSUME PlanInv, range_boundaries \in [1 .. shuffle_partitions - 1 -> Int],
         NEW k \in Int, NEW l \in Int, k =< l
  PROVE  /\ PartitionFor(k) \in 0 .. shuffle_partitions - 1
         /\ PartitionFor(k) =< PartitionFor(l)
<1> DEFINE Passed(key) == {i \in DOMAIN range_boundaries :
                             range_boundaries[i] <= key * shuffle_partitions}
<1>1. shuffle_partitions \in Nat /\ shuffle_partitions > 0
  BY OrderByAssumption DEF PlanInv
<1>2. /\ IsFiniteSet(1 .. shuffle_partitions - 1)
      /\ Cardinality(1 .. shuffle_partitions - 1) = shuffle_partitions - 1
  BY <1>1, FS_Interval
<1>3. \A key \in Int : /\ IsFiniteSet(Passed(key))
                       /\ Cardinality(Passed(key)) \in 0 .. shuffle_partitions - 1
  <2> TAKE key \in Int
  <2> DEFINE passed == Passed(key)
  <2>1. passed \in SUBSET (1 .. shuffle_partitions - 1)
    OBVIOUS
  <2> HIDE DEF passed
  <2>2. IsFiniteSet(passed)
    BY <1>2, <2>1, FS_Subset
  <2>3. Cardinality(passed) =< Cardinality(1 .. shuffle_partitions - 1)
    BY <1>2, <2>1, FS_Subset
  <2>4. Cardinality(passed) \in Nat
    BY <2>2, FS_CardinalityType
  <2>5. Cardinality(passed) \in 0 .. shuffle_partitions - 1
    BY <1>1, <1>2, <2>3, <2>4
  <2> QED
    BY <2>2, <2>5 DEF passed
<1>4. k * shuffle_partitions =< l * shuffle_partitions
  BY <1>1
<1>5. Passed(k) \in SUBSET Passed(l)
  <2> SUFFICES ASSUME NEW i \in Passed(k)
               PROVE  i \in Passed(l)
    OBVIOUS
  <2>1. k * shuffle_partitions \in Int /\ l * shuffle_partitions \in Int
    BY <1>1
  <2>2. range_boundaries[i] \in Int /\ range_boundaries[i] =< k * shuffle_partitions
    OBVIOUS
  <2> QED
    BY <1>4, <2>1, <2>2
<1>6. Cardinality(Passed(k)) =< Cardinality(Passed(l))
  BY <1>3, <1>5, FS_Subset
<1> QED
  BY <1>3, <1>6 DEF PartitionFor, RangePartitionFor

\* Every row the partitioner accepts has a partition, and a row whose first
\* key comes first never has a later one, in either direction.
THEOREM RangesAreOrdered == Spec => []RangesFollowTheOrder
<1>1. PlanInv => RangesFollowTheOrder
  <2> SUFFICES ASSUME PlanInv, phase # "plan",
                      NEW r \in Row, NEW s \in Row,
                      ~ HasNoTarget(r), ~ HasNoTarget(s)
               PROVE  /\ Target(r) \in Targets
                      /\ Precedes(<<ascending[1]>>, r, s) => Target(r) <= Target(s)
    BY DEF RangesFollowTheOrder
  <2>1. CASE range_boundaries = <<>>
    <3>1. num_partitions = 1 \/ (num_partitions = shuffle_partitions /\ 1 .. shuffle_partitions - 1 = {})
      BY <2>1 DEF PlanInv
    <3> QED
      BY <2>1, <3>1, OrderByAssumption DEF Target, Targets, PlanInv
  <2>2. CASE range_boundaries # <<>>
    <3>1. /\ num_partitions = shuffle_partitions
          /\ range_boundaries \in [1 .. shuffle_partitions - 1 -> Int]
      BY <2>2 DEF PlanInv
    <3>2. r[1] # Null /\ s[1] # Null
      BY <2>2 DEF HasNoTarget
    <3>3. r[1][1] \in Int /\ s[1][1] \in Int
      BY <3>2, KeyType DEF PlanInv
    <3>4. Signed(r[1][1]) \in Int /\ Signed(s[1][1]) \in Int
      BY <3>3 DEF Signed
    <3>5. Target(r) \in Targets
      BY <2>2, <3>1, <3>4, PartitionForMonotone DEF Target, Targets
    <3>6. ASSUME Precedes(<<ascending[1]>>, r, s)
          PROVE  Signed(r[1][1]) =< Signed(s[1][1])
      BY <3>2, <3>3, <3>6 DEF Precedes, Signed
    <3> QED
      BY <2>2, <3>1, <3>4, <3>5, <3>6, PartitionForMonotone DEF Target
  <2> QED
    BY <2>1, <2>2
<1> QED
  BY <1>1, Inductive, PTL

-----------------------------------------------------------------------------
(* What the two stages make of the rows.                                   *)

\* A row of one of the partitions, with its place in the dataset.
IsInput(src, x) == \E p \in DOMAIN src : Has(Tag(Before(src, p), src[p]), x)

\* The partition each row is sent to.
Routes == [row \in Rows(ascending) |-> Target(row)]

\* The rows of one partition that go to t, with ties in order.
IsBlock(asc, pairs, routes, t, block) ==
  /\ block \in Seq(Pairs(asc))
  /\ Arranged(block, Ties(asc))
  /\ \A x \in Pairs(asc) : Has(block, x) <=> Has(pairs, x) /\ routes[x.row] = t

\* The rows of all partitions that go to t, sorted.
IsResult(asc, src, routes, t, result) ==
  /\ result \in Seq(Pairs(asc))
  /\ Arranged(result, RowOrder(asc))
  /\ \A x \in Pairs(asc) : Has(result, x) <=> IsInput(src, x) /\ routes[x.row] = t

BlocksInv ==
  /\ DOMAIN blocks \subseteq Sources
  /\ phase = "plan" => DOMAIN blocks = {}
  /\ phase \in {"read", "done"} => DOMAIN blocks = Sources
  /\ \A p \in DOMAIN blocks :
       /\ \A row \in Range(source[p]) : ~ HasNoTarget(row)
       /\ \A t \in Targets : IsBlock(ascending, Tagged(p), Routes, t, blocks[p][t])

ResultsInv ==
  /\ phase \in {"plan", "write", "read", "done", "raised"}
  /\ phase \in {"plan", "write", "raised"} => DOMAIN results = {}
  /\ phase = "done" => DOMAIN results = Targets
  /\ \A t \in DOMAIN results :
       t \in Targets /\ IsResult(ascending, source, Routes, t, results[t])

LEMMA SourceType ==
  ASSUME PlanInv
  PROVE  /\ ascending \in Seq(BOOLEAN) /\ ascending # <<>>
         /\ Row \subseteq Rows(ascending)
         /\ source \in Seq(Seq(Row)) /\ DOMAIN source = Sources
         /\ source \in Seq(Seq(Rows(ascending)))
<1>1. ascending \in Seq(BOOLEAN) /\ ascending # <<>> /\ DOMAIN ascending = DOMAIN Values
  BY OrderByAssumption DEF PlanInv
<1>2. Row \subseteq Rows(ascending)
  <2>1. \A e \in DOMAIN Values : \A v \in Values[e] : v \in Nullables
    BY OrderByAssumption DEF Nullables
  <2>2. ASSUME NEW row \in Row PROVE row \in Rows(ascending)
    <3>1. row \in [DOMAIN Values -> UNION {Values[e] : e \in DOMAIN Values}]
          /\ \A e \in DOMAIN Values : row[e] \in Nullables
      BY <2>1 DEF Row
    <3>2. row \in [DOMAIN Values -> Nullables]
      BY <3>1
    <3> QED BY <1>1, <3>2 DEF Rows
  <2> QED BY <2>2
<1>3. \A p \in Sources : source[p] \in Seq(Row)
  <2>1. \A p \in Sources : \E m \in 0 .. MaxRows : source[p] \in [1 .. m -> Row]
    BY DEF PlanInv, BoundedSeq, SeqOf
  <2>2. \A m \in 0 .. MaxRows : \A s \in [1 .. m -> Row] : s \in Seq(Row)
    BY OrderByAssumption
  <2> QED BY <2>1, <2>2
<1>4. source \in [1 .. NumSources -> Seq(Row)] /\ NumSources \in Nat
  BY <1>3, OrderByAssumption DEF PlanInv, Sources
<1>5. source \in Seq(Seq(Row))
  BY ONLY <1>4
<1>6. source \in [1 .. NumSources -> Seq(Rows(ascending))]
  BY <1>2, <1>4
<1>7. source \in Seq(Seq(Rows(ascending)))
  BY ONLY <1>4, <1>6
<1> QED BY <1>1, <1>2, <1>4, <1>5, <1>7 DEF Sources

\* A partition's tagged rows.
LEMMA SourceTagged ==
  ASSUME PlanInv, NEW p \in Sources
  PROVE  /\ Tagged(p) = Tag(Before(source, p), source[p])
         /\ Tagged(p) \in Seq(Pairs(ascending))
         /\ Arranged(Tagged(p), Ties(ascending))
         /\ Before(source, p) \in Nat
         /\ \A x : Has(Tagged(p), x) =>
              /\ x.seq \in Before(source, p) .. Before(source, p) + Len(source[p]) - 1
              /\ Has(source[p], x.row)
<1>1. Tagged(p) = Tag(Before(source, p), source[p])
  BY DEF Tagged, Tag, Before
<1>2. ascending \in Seq(BOOLEAN) /\ source \in Seq(Seq(Rows(ascending))) /\ p \in DOMAIN source
  BY SourceType
<1>3. Before(source, p) \in Nat
  BY <1>2, TagFlatten
<1>4. source[p] \in Seq(Rows(ascending)) /\ Before(source, p) \in Int
  BY <1>2, <1>3
<1> QED BY <1>1, <1>2, <1>3, <1>4, TaggedRows

\* Where a row goes is decided by the plan.
LEMMA RouteFacts ==
  ASSUME PlanInv, NEW row \in Rows(ascending)
  PROVE  Routes[row] = Target(row)
BY DEF Routes

\* The records of a bucket are those that go there.
LEMMA BucketIsBlock ==
  ASSUME PlanInv, NEW p \in Sources, NEW t
  PROVE  IsBlock(ascending, Tagged(p), Routes, t, Bucket(t, SortRows(ascending, Tagged(p))))
<1> DEFINE S == Pairs(ascending)
           R == Ties(ascending)
           sorted == SortRows(ascending, Tagged(p))
           n == Len(sorted)
           ss == [i \in DOMAIN sorted |-> IF Target(sorted[i].row) = t THEN <<sorted[i]>> ELSE <<>>]
<1>1. ascending \in Seq(BOOLEAN) /\ Tagged(p) \in Seq(S) /\ Arranged(Tagged(p), R)
  BY SourceType, SourceTagged
<1>2. sorted \in Seq(S) /\ SameElements(sorted, Tagged(p)) /\ Arranged(sorted, RowOrder(ascending))
  BY <1>1, SortRowsSorts
<1>3. Bucket(t, sorted) = FlattenSeq(ss)
  BY DEF Bucket
<1>4. \A a \in S : a.row \in Rows(ascending) /\ Routes[a.row] = Target(a.row)
  BY RouteFacts DEF Pairs, Rows
<1> HIDE DEF S, sorted
<1>5. n \in Nat /\ DOMAIN sorted = 1 .. n /\ \A i \in 1 .. n : sorted[i] \in S
  BY <1>2
<1> HIDE DEF n
<1>6. \A i \in 1 .. n : ss[i] = IF Target(sorted[i].row) = t THEN <<sorted[i]>> ELSE <<>>
  BY <1>5
<1>7. \A i \in 1 .. n : ss[i] \in Seq(S)
  <2>1. \A a \in S : <<a>> \in Seq(S)
    OBVIOUS
  <2>2. <<>> \in Seq(S)
    OBVIOUS
  <2> HIDE DEF ss
  <2> QED BY <1>5, <1>6, <2>1, <2>2
<1>8. ss \in Seq(Seq(S)) /\ DOMAIN ss = 1 .. n
  <2>1. DOMAIN ss = 1 .. n /\ ss = [i \in 1 .. n |-> ss[i]]
    BY <1>5
  <2> HIDE DEF ss
  <2>2. ss \in [1 .. n -> Seq(S)]
    BY <1>7, <2>1
  <2>3. ss \in Seq(Seq(S))
    BY ONLY <1>5, <2>2
  <2> QED BY <2>1, <2>3
<1> HIDE DEF ss
<1>9. \A i \in 1 .. n : \A x : Has(ss[i], x) <=> x = sorted[i] /\ Target(sorted[i].row) = t
  <2>1. \A a, x : Has(<<a>>, x) <=> x = a
    <3>1. \A a : DOMAIN <<a>> = {1} /\ <<a>>[1] = a
      OBVIOUS
    <3> QED BY <3>1 DEF Has
  <2>2. \A x : ~ Has(<<>>, x)
    BY DEF Has
  <2> SUFFICES ASSUME NEW i \in 1 .. n, NEW x
               PROVE  Has(ss[i], x) <=> x = sorted[i] /\ Target(sorted[i].row) = t
    OBVIOUS
  <2>3. CASE Target(sorted[i].row) = t
    <3>1. ss[i] = <<sorted[i]>>
      BY <1>6, <2>3
    <3>2. Has(<<sorted[i]>>, x) <=> x = sorted[i]
      BY <2>1
    <3> QED BY <2>3, <3>1, <3>2
  <2>4. CASE Target(sorted[i].row) # t
    <3>1. ss[i] = <<>>
      BY <1>6, <2>4
    <3> QED BY <2>2, <2>4, <3>1
  <2> QED BY <2>3, <2>4
<1>10. InOrder(ss, R)
  <2>1. \A i \in 1 .. n : Arranged(ss[i], R)
    <3>1. \A a : Arranged(<<a>>, R)
      <4>1. \A a : DOMAIN <<a>> = {1}
        OBVIOUS
      <4> QED BY <4>1 DEF Arranged
    <3>2. Arranged(<<>>, R)
      BY DEF Arranged
    <3> QED BY <1>6, <3>1, <3>2
  <2>2. ASSUME NEW i \in 1 .. n, NEW j \in 1 .. n, i < j PROVE AllBefore(ss[i], ss[j], R)
    <3>1. <<sorted[i], sorted[j]>> \in RowOrder(ascending)
      BY <1>2, <1>5, <2>2 DEF Arranged
    <3>2. <<sorted[i], sorted[j]>> \in R
      BY <3>1 DEF RowOrder, Kept, Ties
    <3> QED BY <1>9, <3>2 DEF AllBefore
  <2> QED BY <1>8, <2>1, <2>2 DEF InOrder
<1> DEFINE block == FlattenSeq(ss)
<1>11. block \in Seq(S) /\ Arranged(block, R) /\ \A x : Has(block, x) <=> \E i \in 1 .. n : Has(ss[i], x)
  <2>1. /\ FlattenSeq(ss) \in Seq(S) /\ Arranged(FlattenSeq(ss), R)
        /\ \A x : Has(FlattenSeq(ss), x) <=> \E i \in DOMAIN ss : Has(ss[i], x)
    BY <1>8, <1>10, FlattenArranged
  <2> QED BY <1>8, <2>1
<1> HIDE DEF block
<1>12. \A x \in S : Has(block, x) <=> Has(Tagged(p), x) /\ Routes[x.row] = t
  <2>1. \A x : Has(block, x) <=> Has(sorted, x) /\ Target(x.row) = t
    <3> SUFFICES ASSUME NEW x PROVE Has(block, x) <=> Has(sorted, x) /\ Target(x.row) = t
      OBVIOUS
    <3>1. Has(block, x) <=> \E i \in 1 .. n : x = sorted[i] /\ Target(sorted[i].row) = t
      BY <1>9, <1>11
    <3>2. Has(sorted, x) <=> \E i \in 1 .. n : x = sorted[i]
      BY <1>5 DEF Has
    <3> QED BY <3>1, <3>2
  <2>2. \A x : Has(sorted, x) <=> Has(Tagged(p), x)
    BY <1>2 DEF SameElements
  <2> QED BY <1>4, <2>1, <2>2
<1>13. IsBlock(ascending, Tagged(p), Routes, t, block)
  BY <1>11, <1>12 DEF IsBlock, S
<1> QED BY <1>3, <1>13 DEF block, sorted

\* What a range reads is all that goes there, ties in order.
LEMMA ReadIsResult ==
  ASSUME PlanInv, BlocksInv, DOMAIN blocks = Sources, NEW t \in Targets,
         NEW read, read = FlattenSeq([p \in Sources |-> blocks[p][t]])
  PROVE  IsResult(ascending, source, Routes, t, SortRows(ascending, read))
<1> DEFINE S == Pairs(ascending)
           R == Ties(ascending)
           ss == [p \in Sources |-> blocks[p][t]]
<1>1. ascending \in Seq(BOOLEAN) /\ DOMAIN source = Sources /\ source \in Seq(Seq(Rows(ascending)))
  BY SourceType
<1>2. \A p \in Sources : IsBlock(ascending, Tagged(p), Routes, t, ss[p])
  BY DEF BlocksInv
<1>3. DOMAIN ss = Sources /\ ss = [p \in Sources |-> ss[p]] /\ read = FlattenSeq(ss)
  OBVIOUS
<1> HIDE DEF ss
<1>4. ss \in Seq(Seq(S))
  <2>1. ss \in [Sources -> Seq(S)]
    BY <1>2, <1>3 DEF IsBlock
  <2>2. ss \in [1 .. NumSources -> Seq(S)] /\ NumSources \in Nat
    BY <2>1, OrderByAssumption DEF Sources
  <2> QED BY ONLY <2>2
<1>5. InOrder(ss, R)
  <2>1. \A p \in Sources : Arranged(ss[p], R)
    BY <1>2 DEF IsBlock
  <2>2. ASSUME NEW p \in Sources, NEW q \in Sources, p < q PROVE AllBefore(ss[p], ss[q], R)
    <3> SUFFICES ASSUME NEW x, NEW y, Has(ss[p], x), Has(ss[q], y) PROVE <<x, y>> \in R
      BY DEF AllBefore
    <3>1. ss[p] \in Seq(S) /\ ss[q] \in Seq(S)
      BY <1>2 DEF IsBlock
    <3>2. x \in S /\ y \in S
      <4> DEFINE a == ss[p]
                 b == ss[q]
      <4>1. a \in Seq(S) /\ b \in Seq(S) /\ (\E i \in DOMAIN a : a[i] = x) /\ \E i \in DOMAIN b : b[i] = y
        BY <3>1 DEF Has
      <4> HIDE DEF a, b, S
      <4> QED BY <4>1
    <3>3. Has(Tagged(p), x) /\ Has(Tagged(q), y)
      BY <1>2, <3>2 DEF IsBlock
    <3>4. /\ x.seq \in Before(source, p) .. Before(source, p) + Len(source[p]) - 1
          /\ y.seq \in Before(source, q) .. Before(source, q) + Len(source[q]) - 1
          /\ Before(source, p) \in Nat /\ Before(source, q) \in Nat
      BY <3>3, SourceTagged
    <3>5. Before(source, p) + Len(source[p]) <= Before(source, q) /\ Len(source[p]) \in Nat /\ Len(source[q]) \in Nat
      <4>1. Before(source, p) + Len(source[p]) <= Before(source, q)
        BY <1>1, <2>2, TagFlatten
      <4>2. source[p] \in Seq(Rows(ascending)) /\ source[q] \in Seq(Rows(ascending))
        BY <1>1
      <4> QED BY <4>1, <4>2
    <3>6. x.seq < y.seq
      BY <3>4, <3>5
    <3> QED BY <3>2, <3>6 DEF Ties
  <2> QED BY <1>3, <2>1, <2>2 DEF InOrder
<1>6. /\ read \in Seq(S) /\ Arranged(read, R)
      /\ \A x : Has(read, x) <=> \E p \in Sources : Has(ss[p], x)
  BY <1>3, <1>4, <1>5, FlattenArranged
<1> DEFINE result == SortRows(ascending, read)
<1>7. result \in Seq(S) /\ SameElements(result, read) /\ Arranged(result, RowOrder(ascending))
  BY <1>1, <1>6, SortRowsSorts
<1> HIDE DEF result
<1>8. \A x : IsInput(source, x) <=> \E p \in Sources : Has(Tagged(p), x)
  BY <1>1, SourceTagged DEF IsInput
<1>9. \A x \in S : Has(result, x) <=> IsInput(source, x) /\ Routes[x.row] = t
  <2>1. \A x \in S : \A p \in Sources : Has(ss[p], x) <=> Has(Tagged(p), x) /\ Routes[x.row] = t
    BY <1>2 DEF IsBlock
  <2> QED BY <1>6, <1>7, <1>8, <2>1 DEF SameElements
<1>10. IsResult(ascending, source, Routes, t, result)
  BY <1>7, <1>9 DEF IsResult
<1> QED BY <1>10 DEF result

-----------------------------------------------------------------------------
(* The inductive invariant.                                                *)

OrderInv == PlanInv /\ BlocksInv /\ ResultsInv

LEMMA PlanKept ==
  ASSUME UNCHANGED <<query, plan>>
  PROVE  /\ ascending' = ascending /\ source' = source
         /\ Routes' = Routes /\ Targets' = Targets
         /\ \A p : Tagged(p)' = Tagged(p)
         /\ \A row : HasNoTarget(row)' <=> HasNoTarget(row)
<1>1. /\ ascending' = ascending /\ source' = source /\ shuffle_partitions' = shuffle_partitions
      /\ range_boundaries' = range_boundaries /\ num_partitions' = num_partitions
  BY DEF query, plan
<1>2. Routes' = Routes
  BY <1>1 DEF Routes, Target, PartitionFor, Signed
<1>3. \A p : Tagged(p)' = Tagged(p)
  BY <1>1 DEF Tagged
<1> QED BY <1>1, <1>2, <1>3 DEF Targets, HasNoTarget

LEMMA OrderInit == Init => OrderInv
<1> SUFFICES ASSUME Init PROVE OrderInv
  OBVIOUS
<1>1. DOMAIN [p \in {} |-> <<>>] = {}
  OBVIOUS
<1>2. DOMAIN blocks = {} /\ DOMAIN results = {} /\ phase = "plan"
  BY <1>1 DEF Init
<1> QED BY <1>2 DEF Init, OrderInv, PlanInv, BlocksInv, ResultsInv

LEMMA WriteSourceStep ==
  ASSUME OrderInv, NEW p \in Sources, WriteSource(p)
  PROVE  BlocksInv' /\ ResultsInv'
<1>1. UNCHANGED <<query, plan, results>> /\ phase = "write" /\ p \notin DOMAIN blocks
      /\ (\A row \in Range(source[p]) : ~ HasNoTarget(row))
      /\ phase' = IF DOMAIN blocks' = Sources THEN "read" ELSE "write"
  BY DEF WriteSource
<1>2. /\ ascending' = ascending /\ source' = source /\ Routes' = Routes /\ Targets' = Targets
      /\ (\A q : Tagged(q)' = Tagged(q)) /\ \A row : HasNoTarget(row)' <=> HasNoTarget(row)
  BY <1>1, PlanKept
<1>3. /\ DOMAIN blocks' = DOMAIN blocks \union {p}
      /\ \A q \in DOMAIN blocks : blocks'[q] = blocks[q]
      /\ \A t \in Targets : blocks'[p][t] = Bucket(t, SortRows(ascending, Tagged(p)))
  BY <1>1 DEF WriteSource
<1>4. \A t \in Targets : IsBlock(ascending, Tagged(p), Routes, t, blocks'[p][t])
  BY <1>3, BucketIsBlock DEF OrderInv
<1>5. \A q \in DOMAIN blocks' :
        /\ \A row \in Range(source[q]) : ~ HasNoTarget(row)
        /\ \A t \in Targets : IsBlock(ascending, Tagged(q), Routes, t, blocks'[q][t])
  <2> SUFFICES ASSUME NEW q \in DOMAIN blocks'
               PROVE  /\ \A row \in Range(source[q]) : ~ HasNoTarget(row)
                      /\ \A t \in Targets : IsBlock(ascending, Tagged(q), Routes, t, blocks'[q][t])
    OBVIOUS
  <2>1. CASE q = p
    BY <1>1, <1>4, <2>1
  <2>2. CASE q # p
    <3>1. q \in DOMAIN blocks /\ blocks'[q] = blocks[q]
      BY <1>3, <2>2
    <3>2. \A t \in Targets : IsBlock(ascending, Tagged(q), Routes, t, blocks[q][t])
      BY <3>1 DEF OrderInv, BlocksInv
    <3>3. \A row \in Range(source[q]) : ~ HasNoTarget(row)
      BY <3>1 DEF OrderInv, BlocksInv
    <3> QED BY <3>1, <3>2, <3>3
  <2> QED BY <2>1, <2>2
<1>6. /\ DOMAIN blocks' \subseteq Sources
      /\ phase' # "plan"
      /\ phase' \in {"read", "done"} => DOMAIN blocks' = Sources
  BY <1>1, <1>3 DEF OrderInv, BlocksInv
<1>7. BlocksInv'
  BY <1>2, <1>5, <1>6 DEF BlocksInv, Sources
<1>8. ResultsInv'
  <2>1. DOMAIN results = {} /\ results' = results /\ phase' \in {"read", "write"}
    BY <1>1 DEF OrderInv, ResultsInv
  <2> QED BY <2>1 DEF ResultsInv
<1> QED BY <1>7, <1>8

LEMMA ReadTargetStep ==
  ASSUME OrderInv, NEW t \in Targets, ReadTarget(t)
  PROVE  BlocksInv' /\ ResultsInv'
<1>1. UNCHANGED <<query, plan, blocks>> /\ phase = "read" /\ t \notin DOMAIN results
      /\ phase' = IF DOMAIN results' = Targets THEN "done" ELSE "read"
  BY DEF ReadTarget
<1>2. /\ ascending' = ascending /\ source' = source /\ Routes' = Routes /\ Targets' = Targets
      /\ (\A q : Tagged(q)' = Tagged(q)) /\ \A row : HasNoTarget(row)' <=> HasNoTarget(row)
  BY <1>1, PlanKept
<1>3. DOMAIN blocks = Sources /\ blocks' = blocks
  BY <1>1 DEF OrderInv, BlocksInv
<1>4. /\ DOMAIN results' = DOMAIN results \union {t}
      /\ \A u \in DOMAIN results : results'[u] = results[u]
      /\ results'[t] = SortRows(ascending, FlattenSeq([p \in Sources |-> blocks[p][t]]))
  BY <1>1 DEF ReadTarget
<1>5. IsResult(ascending, source, Routes, t, results'[t])
  BY <1>3, <1>4, ReadIsResult DEF OrderInv
<1>6. \A u \in DOMAIN results' : u \in Targets /\ IsResult(ascending, source, Routes, u, results'[u])
  <2> SUFFICES ASSUME NEW u \in DOMAIN results'
               PROVE  u \in Targets /\ IsResult(ascending, source, Routes, u, results'[u])
    OBVIOUS
  <2>1. CASE u = t
    BY <1>5, <2>1
  <2>2. CASE u # t
    <3>1. u \in DOMAIN results /\ results'[u] = results[u]
      BY <1>4, <2>2
    <3>2. u \in Targets /\ IsResult(ascending, source, Routes, u, results[u])
      BY <3>1 DEF OrderInv, ResultsInv
    <3> QED BY <3>1, <3>2
  <2> QED BY <2>1, <2>2
<1>7. ResultsInv'
  BY <1>1, <1>2, <1>6 DEF ResultsInv
<1>8. BlocksInv'
  <2>1. \A q \in DOMAIN blocks :
          /\ \A row \in Range(source[q]) : ~ HasNoTarget(row)
          /\ \A u \in Targets : IsBlock(ascending, Tagged(q), Routes, u, blocks[q][u])
    BY DEF OrderInv, BlocksInv
  <2>2. phase' \in {"read", "done"}
    BY <1>1
  <2> QED BY <1>2, <1>3, <2>1, <2>2 DEF BlocksInv, Sources
<1> QED BY <1>7, <1>8

\* A step that keeps the plan, the blocks and the results.
LEMMA OrderKept ==
  ASSUME OrderInv, UNCHANGED <<query, plan, blocks, results>>,
         phase' = phase \/ (phase = "write" /\ phase' = "raised")
  PROVE  BlocksInv' /\ ResultsInv'
<1>1. UNCHANGED <<query, plan>> /\ blocks' = blocks /\ results' = results
  OBVIOUS
<1>2. /\ ascending' = ascending /\ source' = source /\ Routes' = Routes /\ Targets' = Targets
      /\ (\A q : Tagged(q)' = Tagged(q)) /\ \A row : HasNoTarget(row)' <=> HasNoTarget(row)
  BY <1>1, PlanKept
<1>3. \A q \in DOMAIN blocks :
        /\ \A row \in Range(source[q]) : ~ HasNoTarget(row)
        /\ \A u \in Targets : IsBlock(ascending, Tagged(q), Routes, u, blocks[q][u])
  BY DEF OrderInv, BlocksInv
<1>4. \A u \in DOMAIN results : u \in Targets /\ IsResult(ascending, source, Routes, u, results[u])
  BY DEF OrderInv, ResultsInv
<1>5. /\ DOMAIN blocks \subseteq Sources
      /\ phase' = "plan" => DOMAIN blocks = {}
      /\ phase' \in {"read", "done"} => DOMAIN blocks = Sources
  BY DEF OrderInv, BlocksInv
<1>6. /\ phase' \in {"plan", "write", "read", "done", "raised"}
      /\ phase' \in {"plan", "write", "raised"} => DOMAIN results = {}
      /\ phase' = "done" => DOMAIN results = Targets
  BY DEF OrderInv, ResultsInv
<1>7. BlocksInv'
  BY <1>1, <1>2, <1>3, <1>5 DEF BlocksInv, Sources
<1>8. ResultsInv'
  BY <1>1, <1>2, <1>4, <1>6 DEF ResultsInv
<1> QED BY <1>7, <1>8

LEMMA OrderStep == OrderInv /\ [Next]_vars => BlocksInv' /\ ResultsInv'
<1> SUFFICES ASSUME OrderInv, [Next]_vars PROVE BlocksInv' /\ ResultsInv'
  OBVIOUS
<1>1. CASE PlanSort
  <2>1. DOMAIN blocks = {} /\ DOMAIN results = {} /\ blocks' = blocks /\ results' = results /\ phase' = "write"
    BY <1>1 DEF PlanSort, OrderInv, BlocksInv, ResultsInv
  <2> QED BY <2>1 DEF BlocksInv, ResultsInv
<1>2. ASSUME NEW p \in Sources, WriteSource(p) PROVE BlocksInv' /\ ResultsInv'
  BY <1>2, WriteSourceStep
<1>3. ASSUME NEW p \in Sources, WriteRaises(p) PROVE BlocksInv' /\ ResultsInv'
  BY <1>3, OrderKept DEF WriteRaises
<1>4. ASSUME NEW t \in Targets, ReadTarget(t) PROVE BlocksInv' /\ ResultsInv'
  BY <1>4, ReadTargetStep
<1>5. CASE UNCHANGED vars
  BY <1>5, OrderKept DEF vars
<1> QED BY <1>1, <1>2, <1>3, <1>4, <1>5 DEF Next

THEOREM OrderInductive == Spec => []OrderInv
<1>1. PlanInv /\ OrderInv /\ [Next]_vars => BlocksInv' /\ ResultsInv'
  BY OrderStep
<1>2. PlanInv' /\ BlocksInv' /\ ResultsInv' => OrderInv'
  BY DEF OrderInv
<1> QED BY OrderInit, <1>1, <1>2, Inductive, PTL DEF Spec

-----------------------------------------------------------------------------
(* The result.                                                             *)

\* Once all sources are written, no row is left without a partition.
LEMMA InputRows ==
  ASSUME OrderInv, DOMAIN blocks = Sources, NEW x, IsInput(source, x)
  PROVE  x.row \in Row /\ ~ HasNoTarget(x.row)
<1>1. PlanInv /\ DOMAIN source = Sources /\ source \in Seq(Seq(Row))
  BY SourceType DEF OrderInv
<1>2. PICK p \in Sources : Has(Tag(Before(source, p), source[p]), x)
  BY <1>1 DEF IsInput
<1>3. Has(source[p], x.row)
  BY <1>1, <1>2, SourceTagged
<1>4. PICK i \in DOMAIN source[p] : source[p][i] = x.row
  BY <1>3 DEF Has
<1>5. x.row \in Range(source[p])
  BY <1>4 DEF Range
<1>6. source[p] \in Seq(Row)
  BY <1>1
<1>7. x.row \in Row
  BY <1>4, <1>6
<1> QED BY <1>5, <1>7 DEF OrderInv, BlocksInv

\* The ranges come in the order of the rows.
LEMMA RangesInOrder ==
  ASSUME PlanInv, RangesFollowTheOrder, phase # "plan",
         NEW x \in Pairs(ascending), NEW y \in Pairs(ascending),
         x.row \in Row, y.row \in Row, ~ HasNoTarget(x.row), ~ HasNoTarget(y.row),
         Target(x.row) < Target(y.row), Target(x.row) \in Int, Target(y.row) \in Int
  PROVE  <<x, y>> \in RowOrder(ascending)
<1>1. ascending \in Seq(BOOLEAN) /\ ascending # <<>> /\ 0 + 1 \in DOMAIN ascending
  BY SourceType
<1>2. x.row \in Rows(ascending) /\ y.row \in Rows(ascending)
  BY SourceType
<1>3. \A r, s : r[1] = s[1] => Target(r) = Target(s)
  BY DEF Target
<1>4. x.row[1] # y.row[1] /\ x.row # y.row /\ x # y
  BY <1>3
<1>5. ~ KeyBefore(ascending[1], y.row[1], x.row[1])
  <2>1. ~ Precedes(<<ascending[1]>>, y.row, x.row)
    BY DEF RangesFollowTheOrder
  <2>2. DOMAIN <<ascending[1]>> = {1} /\ <<ascending[1]>>[1] = ascending[1] /\ 1 .. 1 - 1 = {}
    OBVIOUS
  <2> QED BY <2>1, <2>2 DEF Precedes, KeyBefore
<1>6. ~ PrecedesFrom(ascending, 0, y.row, x.row)
  <2>1. 0 \in Nat /\ 0 + 1 = 1
    OBVIOUS
  <2>2. PrecedesFrom(ascending, 0, y.row, x.row) <=>
          \/ KeyBefore(ascending[0 + 1], y.row[0 + 1], x.row[0 + 1])
          \/ y.row[0 + 1] = x.row[0 + 1] /\ PrecedesFrom(ascending, 0 + 1, y.row, x.row)
    BY <1>1, <1>2, <2>1, FromNext
  <2> QED BY <1>4, <1>5, <2>1, <2>2
<1>7. <<y, x>> \notin RowOrder(ascending)
  BY <1>1, <1>4, <1>6, RowOrderIs
<1> QED BY <1>1, <1>4, <1>7, RowOrderStrict

LEMMA CollectedIsSorted ==
  ASSUME OrderInv, RangesFollowTheOrder, phase = "done"
  PROVE  Collected = OrderedBy(ascending, AllRows)
<1> DEFINE S == Pairs(ascending)
           Q == RowOrder(ascending)
           N == num_partitions
           ss == [n \in 1 .. N |-> results[n - 1]]
           out == OrderedBy(ascending, AllRows)
<1>1. /\ PlanInv /\ ascending \in Seq(BOOLEAN)
      /\ source \in Seq(Seq(Rows(ascending))) /\ DOMAIN source = Sources
      /\ DOMAIN blocks = Sources /\ DOMAIN results = Targets
  BY SourceType DEF OrderInv, BlocksInv, ResultsInv
<1>2. N \in Nat /\ Targets = 0 .. N - 1
  BY OrderByAssumption, <1>1 DEF PlanInv, Targets
<1>3. Collected = FlattenSeq(ss)
  BY DEF Collected
<1>4. DOMAIN ss = 1 .. N /\ ss = [n \in 1 .. N |-> ss[n]]
  OBVIOUS
<1>5. \A n \in 1 .. N : n - 1 \in Targets /\ IsResult(ascending, source, Routes, n - 1, ss[n])
  <2>1. \A n \in 1 .. N : n - 1 \in Targets /\ ss[n] = results[n - 1]
    BY <1>2
  <2> HIDE DEF N, ss
  <2> QED BY <1>1, <2>1 DEF OrderInv, ResultsInv
<1> HIDE DEF N, ss
<1>6. ss \in Seq(Seq(S))
  <2>1. ss \in [1 .. N -> Seq(S)]
    BY <1>4, <1>5 DEF IsResult
  <2> QED BY ONLY <1>2, <2>1
<1>7. \A n \in 1 .. N : \A x : Has(ss[n], x) => x \in S
  <2> SUFFICES ASSUME NEW n \in 1 .. N, NEW x, Has(ss[n], x) PROVE x \in S
    OBVIOUS
  <2>1. ss[n] \in Seq(S)
    BY <1>5 DEF IsResult
  <2> HIDE DEF S
  <2>2. PICK i \in DOMAIN ss[n] : ss[n][i] = x
    BY DEF Has
  <2> QED BY <2>1, <2>2
<1>8. \A x \in S : IsInput(source, x) =>
        x.row \in Row /\ ~ HasNoTarget(x.row) /\ Routes[x.row] = Target(x.row) /\ Target(x.row) \in Targets
  <2> SUFFICES ASSUME NEW x \in S, IsInput(source, x)
               PROVE  x.row \in Row /\ ~ HasNoTarget(x.row) /\ Routes[x.row] = Target(x.row) /\ Target(x.row) \in Targets
    OBVIOUS
  <2>1. x.row \in Row /\ ~ HasNoTarget(x.row)
    BY <1>1, InputRows
  <2>2. x.row \in Rows(ascending)
    BY <1>1, <2>1, SourceType
  <2>3. Target(x.row) \in Targets
    BY <2>1 DEF RangesFollowTheOrder
  <2> QED BY <1>1, <2>1, <2>2, <2>3, RouteFacts
<1>9. InOrder(ss, Q)
  <2>1. \A n \in 1 .. N : Arranged(ss[n], Q)
    BY <1>5 DEF IsResult
  <2>2. ASSUME NEW n \in 1 .. N, NEW m \in 1 .. N, n < m PROVE AllBefore(ss[n], ss[m], Q)
    <3> SUFFICES ASSUME NEW x, NEW y, Has(ss[n], x), Has(ss[m], y) PROVE <<x, y>> \in Q
      BY DEF AllBefore
    <3>1. x \in S /\ y \in S
      BY <1>7
    <3>2. IsInput(source, x) /\ Routes[x.row] = n - 1 /\ IsInput(source, y) /\ Routes[y.row] = m - 1
      BY <1>5, <3>1 DEF IsResult
    <3>3. Target(x.row) = n - 1 /\ Target(y.row) = m - 1 /\ n - 1 < m - 1 /\ n - 1 \in Int /\ m - 1 \in Int
      BY <1>2, <1>8, <2>2, <3>1, <3>2
    <3> QED BY <1>1, <1>8, <3>1, <3>2, <3>3, RangesInOrder
  <2> QED BY <1>4, <2>1, <2>2 DEF InOrder
<1>10. /\ Collected \in Seq(S) /\ Arranged(Collected, Q)
       /\ \A x : Has(Collected, x) <=> \E n \in 1 .. N : Has(ss[n], x)
  BY <1>3, <1>4, <1>6, <1>9, FlattenArranged
<1>11. \A x \in S : Has(Collected, x) <=> IsInput(source, x)
  <2> SUFFICES ASSUME NEW x \in S PROVE Has(Collected, x) <=> IsInput(source, x)
    OBVIOUS
  <2>1. ASSUME NEW n \in 1 .. N, Has(ss[n], x) PROVE IsInput(source, x)
    BY <1>5, <2>1 DEF IsResult
  <2>2. ASSUME IsInput(source, x) PROVE \E n \in 1 .. N : Has(ss[n], x)
    <3> DEFINE n == Routes[x.row] + 1
    <3>1. n \in 1 .. N /\ n - 1 = Routes[x.row]
      <4>1. Routes[x.row] \in 0 .. N - 1
        BY <1>2, <1>8, <2>2
      <4> QED BY <1>2, <4>1
    <3>2. Has(ss[n], x)
      <4> HIDE DEF n
      <4> QED BY <1>5, <2>2, <3>1 DEF IsResult
    <3> QED BY <3>1, <3>2
  <2> QED BY <1>10, <2>1, <2>2
<1>12. /\ AllRows \in Seq(Rows(ascending))
       /\ \A x : Has(Tag(0, AllRows), x) <=> IsInput(source, x)
  BY <1>1, TagFlatten DEF AllRows, IsInput
<1>13. out \in Seq(S) /\ SameElements(out, Tag(0, AllRows)) /\ Arranged(out, Q)
  BY <1>1, <1>12, TagZero, OrderedBySorts
<1>14. \A x \in S : Has(out, x) <=> Has(Collected, x)
  BY <1>11, <1>12, <1>13 DEF SameElements
<1>15. StrictOrder(Q, S)
  BY <1>1, RowOrderStrict
<1> HIDE DEF S, Q, out
<1>16. Collected = out
  BY <1>10, <1>13, <1>14, <1>15, ArrangedUnique
<1> QED BY <1>16 DEF out

\* order_by: the ranges one after another are the one stable sort of the
\* whole dataset, for any sort expressions, directions, rows and partitions.
THEOREM CollectSorts == Spec => []CollectsTheStableSort
<1>1. OrderInv /\ RangesFollowTheOrder => CollectsTheStableSort
  BY CollectedIsSorted DEF CollectsTheStableSort
<1> QED BY OrderInductive, RangesAreOrdered, <1>1, PTL
=============================================================================
