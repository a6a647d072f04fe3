------------------------- MODULE HashAggregateProofs -------------------------
(***************************************************************************)
(* Theorems about the operator that drives the aggregates: groups_bytes is *)
(* the size of the groups in memory, and the rounds a table is spilled in  *)
(* do not change the result.                                               *)
(***************************************************************************)
EXTENDS HashAggregate, GroupTheorems

-----------------------------------------------------------------------------
(* The size of the table.                                                  *)

\* What is well typed about the table in memory: a finite number of groups,
\* each with a key of its class.
TableType ==
  /\ IsFiniteSet(DOMAIN groups)
  /\ \A c \in DOMAIN groups : groups[c].key \in Keys

StateBytes(states) ==
  MapThenSumSet(LAMBDA i : IF Aggs[i] \in Folds2 /\ states[i] = Null THEN NullBytes ELSE ValueBytes,
                DOMAIN Aggs)

\* The size of a row of states is a number.
LEMMA StateBytesType ==
  ASSUME NEW states
  PROVE  StateBytes(states) \in Int
<1> DEFINE S == DOMAIN Aggs
           w == [i \in S |-> IF Aggs[i] \in Folds2 /\ states[i] = Null THEN NullBytes ELSE ValueBytes]
           Body(iter) ==
             [s \in SUBSET S |->
                IF s = {} THEN 0
                ELSE LET x == CHOOSE x \in s : TRUE
                     IN (IF Aggs[x] \in Folds2 /\ states[x] = Null THEN NullBytes ELSE ValueBytes)
                          + iter[s \ {x}]]
           chosen == CHOOSE iter : iter = Body(iter)
<1>1. IsFiniteSet(S) /\ \A x \in S : w[x] \in Int
  <2>1. Aggs \in Seq(AggregateFunction) /\ NullBytes \in Int /\ ValueBytes \in Int
    BY AggregateAssumption, GroupAssumption
  <2>2. S = 1 .. Len(Aggs) /\ Len(Aggs) \in Nat
    BY <2>1
  <2> QED BY <2>1, <2>2, FS_Interval
<1>2. ASSUME NEW it PROVE it = Body(it) <=> IsSum(it, w, S)
  <2>1. ASSUME NEW s \in SUBSET S, s # {}
        PROVE  w[Pick(s)] = IF Aggs[Pick(s)] \in Folds2 /\ states[Pick(s)] = Null
                              THEN NullBytes ELSE ValueBytes
    BY <2>1, PickIn
  <2>2. Body(it) = [s \in SUBSET S |-> IF s = {} THEN 0 ELSE w[Pick(s)] + it[s \ {Pick(s)}]]
    BY <2>1 DEF Pick
  <2> HIDE DEF w, Body
  <2> QED BY <2>2 DEF IsSum
<1>3. chosen = Body(chosen)
  <2>1. \E it : IsSum(it, w, S)
    <3> HIDE DEF w, S
    <3> QED BY <1>1, SumExists
  <2>2. PICK it : IsSum(it, w, S)
    BY <2>1
  <2> HIDE DEF w, S, Body
  <2>3. it = Body(it)
    BY <1>2, <2>2
  <2> QED BY <2>3
<1>4. StateBytes(states) = chosen[S]
  BY DEF StateBytes, MapThenSumSet, MapThenFoldSet
<1> HIDE DEF chosen, w, Body
<1>5. IsSum(chosen, w, S)
  BY <1>2, <1>3
<1>6. chosen[S] = Total(w, S) /\ Total(w, S) \in Int
  <2> HIDE DEF S
  <2> QED BY <1>1, <1>5, SumIsTotal, TotalType
<1> QED BY <1>4, <1>6

\* A key and its states are counted apart.
LEMMA GroupBytesSplit ==
  ASSUME NEW key \in Keys, NEW states
  PROVE  GroupBytes(key, states) = KeyBytes[key] + StateBytes(states)
         /\ KeyBytes[key] \in Int /\ GroupBytes(key, states) \in Int
<1>1. GroupBytes(key, states) = KeyBytes[key] + StateBytes(states)
  BY DEF GroupBytes, StateBytes
<1>2. KeyBytes[key] \in Int
  BY AggregateAssumption
<1> QED BY <1>1, <1>2, StateBytesType

Sizes(table) == [c \in DOMAIN table |-> GroupBytes(table[c].key, table[c].states)]

\* The size of a table is a sum over its groups.
LEMMA TableBytesIsTotal ==
  ASSUME NEW table, IsFiniteSet(DOMAIN table), \A c \in DOMAIN table : table[c].key \in Keys
  PROVE  /\ TableBytes(table) = Total(Sizes(table), DOMAIN table)
         /\ \A c \in DOMAIN table : Sizes(table)[c] \in Int
<1> DEFINE S == DOMAIN table
           w == Sizes(table)
           Body(iter) ==
             [s \in SUBSET S |->
                IF s = {} THEN 0
                ELSE LET x == CHOOSE x \in s : TRUE
                     IN GroupBytes(table[x].key, table[x].states) + iter[s \ {x}]]
           chosen == CHOOSE iter : iter = Body(iter)
<1>1. \A c \in S : w[c] \in Int /\ w[c] = GroupBytes(table[c].key, table[c].states)
  BY GroupBytesSplit DEF Sizes
<1>2. ASSUME NEW it PROVE it = Body(it) <=> IsSum(it, w, S)
  <2>1. ASSUME NEW s \in SUBSET S, s # {}
        PROVE  w[Pick(s)] = GroupBytes(table[Pick(s)].key, table[Pick(s)].states)
    BY <1>1, <2>1, PickIn
  <2> HIDE DEF w
  <2>2. Body(it) = [s \in SUBSET S |-> IF s = {} THEN 0 ELSE w[Pick(s)] + it[s \ {Pick(s)}]]
    BY <2>1 DEF Pick
  <2> HIDE DEF Body
  <2> QED BY <2>2 DEF IsSum
<1>3. chosen = Body(chosen)
  <2>1. \E it : IsSum(it, w, S)
    <3> HIDE DEF w
    <3> QED BY <1>1, SumExists
  <2>2. PICK it : IsSum(it, w, S)
    BY <2>1
  <2> HIDE DEF w, S, Body
  <2>3. it = Body(it)
    BY <1>2, <2>2
  <2> QED BY <2>3
<1>4. TableBytes(table) = chosen[S]
  BY DEF TableBytes, MapThenSumSet, MapThenFoldSet
<1> HIDE DEF chosen, w, Body
<1>5. IsSum(chosen, w, S)
  BY <1>2, <1>3
<1>6. chosen[S] = Total(w, S)
  BY <1>1, <1>5, SumIsTotal
<1> QED BY <1>1, <1>4, <1>6 DEF w

\* Putting an entry into a table changes its size by the entry's alone.
LEMMA SetBytes ==
  ASSUME NEW table, IsFiniteSet(DOMAIN table), \A c \in DOMAIN table : table[c].key \in Keys,
         NEW class, NEW entry, entry.key \in Keys
  PROVE  /\ IsFiniteSet(DOMAIN Set(table, class, entry))
         /\ \A c \in DOMAIN Set(table, class, entry) : Set(table, class, entry)[c].key \in Keys
         /\ TableBytes(table) \in Int
         /\ class \in DOMAIN table =>
              TableBytes(Set(table, class, entry)) =
                TableBytes(table) + GroupBytes(entry.key, entry.states)
                  - GroupBytes(table[class].key, table[class].states)
         /\ class \notin DOMAIN table =>
              TableBytes(Set(table, class, entry)) =
                TableBytes(table) + GroupBytes(entry.key, entry.states)
<1> DEFINE next == Set(table, class, entry)
           rest == DOMAIN table \ {class}
           w == Sizes(table)
           v == Sizes(next)
<1>1. DOMAIN next = DOMAIN table \union {class}
      /\ next[class] = entry
      /\ \A c \in DOMAIN table : c # class => next[c] = table[c]
  BY DEF Set
<1> HIDE DEF next
<1>3. IsFiniteSet(DOMAIN next) /\ \A c \in DOMAIN next : next[c].key \in Keys
  BY <1>1, FS_AddElement
<1>4. TableBytes(next) = Total(v, DOMAIN next) /\ \A c \in DOMAIN next : v[c] \in Int
  BY <1>3, TableBytesIsTotal
<1>5. TableBytes(table) = Total(w, DOMAIN table) /\ \A c \in DOMAIN table : w[c] \in Int
  BY TableBytesIsTotal
<1>6. v[class] = GroupBytes(entry.key, entry.states) /\ v[class] \in Int
  BY <1>1, <1>4 DEF Sizes
<1>7. IsFiniteSet(rest) /\ rest \subseteq DOMAIN table /\ rest \subseteq DOMAIN next
      /\ class \notin rest /\ DOMAIN next \ {class} = rest
  BY <1>1, FS_Subset
<1>8. \A c \in rest : w[c] = v[c]
  BY <1>1 DEF Sizes
<1>9. class \in DOMAIN table => w[class] = GroupBytes(table[class].key, table[class].states)
  BY DEF Sizes
<1> HIDE DEF v, w, rest
<1>10. Total(v, DOMAIN next) = v[class] + Total(v, rest)
  BY <1>1, <1>3, <1>4, <1>7, TotalRemove
<1>11. Total(v, rest) = Total(w, rest) /\ Total(w, rest) \in Int
  BY <1>5, <1>7, <1>8, TotalAgrees, TotalType
<1>12. class \in DOMAIN table => Total(w, DOMAIN table) = w[class] + Total(w, rest)
  BY <1>5, <1>7, TotalRemove DEF rest
<1>13. class \notin DOMAIN table => rest = DOMAIN table
  BY DEF rest
<1>14. Total(w, DOMAIN table) \in Int
  BY <1>5, TotalType
<1>15. CASE class \in DOMAIN table
  BY <1>3, <1>4, <1>5, <1>6, <1>9, <1>10, <1>11, <1>12, <1>14, <1>15 DEF next
<1>16. CASE class \notin DOMAIN table
  BY <1>3, <1>4, <1>5, <1>6, <1>10, <1>11, <1>13, <1>14, <1>16 DEF next
<1> QED BY <1>15, <1>16

\* The row's group after it is folded in, and what groups_bytes then is.
LEMMA RowBytes ==
  ASSUME TableType, BytesMatchTable, NEW row, row.key \in Keys
  PROVE  /\ IsFiniteSet(DOMAIN GroupsAfter(row))
         /\ \A c \in DOMAIN GroupsAfter(row) : GroupsAfter(row)[c].key \in Keys
         /\ BytesAfter(row) = TableBytes(GroupsAfter(row))
<1> DEFINE class == Class[row.key]
           states == NewStates(row)
           key == IF class \in DOMAIN groups THEN groups[class].key ELSE row.key
<1>1. GroupsAfter(row) = Set(groups, class, [key |-> key, states |-> states])
  BY DEF GroupsAfter
<1>2. IsFiniteSet(DOMAIN groups) /\ (\A c \in DOMAIN groups : groups[c].key \in Keys) /\ key \in Keys
  BY DEF TableType
<1>3. groups_bytes = TableBytes(groups)
  BY DEF BytesMatchTable
<1>4. BytesAfter(row) = groups_bytes + GroupBytes(row.key, states)
        - IF class \in DOMAIN groups THEN GroupBytes(row.key, groups[class].states) ELSE 0
  BY DEF BytesAfter
<1> DEFINE entry == [key |-> key, states |-> states]
           next == Set(groups, class, entry)
<1>5. /\ IsFiniteSet(DOMAIN next)
      /\ \A c \in DOMAIN next : next[c].key \in Keys
      /\ TableBytes(groups) \in Int
      /\ class \in DOMAIN groups =>
           TableBytes(next) = TableBytes(groups) + GroupBytes(key, states)
                                - GroupBytes(groups[class].key, groups[class].states)
      /\ class \notin DOMAIN groups =>
           TableBytes(next) = TableBytes(groups) + GroupBytes(key, states)
  <2>1. entry.key = key /\ entry.states = states /\ entry.key \in Keys
    BY <1>2
  <2> HIDE DEF class, states, key, entry
  <2> QED BY <1>2, <2>1, SetBytes
<1>6. GroupBytes(row.key, states) = KeyBytes[row.key] + StateBytes(states)
      /\ KeyBytes[row.key] \in Int /\ StateBytes(states) \in Int
  BY GroupBytesSplit, StateBytesType
<1>7. CASE class \in DOMAIN groups
  <2> DEFINE old == groups[class].states
  <2>1. key = groups[class].key /\ key \in Keys
    BY <1>2, <1>7
  <2> HIDE DEF key, states, next, old
  <2>2. GroupBytes(key, states) = KeyBytes[key] + StateBytes(states)
        /\ GroupBytes(key, old) = KeyBytes[key] + StateBytes(old)
        /\ GroupBytes(row.key, old) = KeyBytes[row.key] + StateBytes(old)
        /\ KeyBytes[key] \in Int /\ StateBytes(old) \in Int
    BY <2>1, GroupBytesSplit, StateBytesType
  <2>3. TableBytes(next) = TableBytes(groups) + StateBytes(states) - StateBytes(old)
    BY <1>5, <1>6, <1>7, <2>1, <2>2 DEF old
  <2>4. BytesAfter(row) = TableBytes(groups) + StateBytes(states) - StateBytes(old)
    BY <1>3, <1>4, <1>5, <1>6, <1>7, <2>2 DEF old
  <2> QED BY <1>1, <1>5, <2>3, <2>4 DEF next
<1>8. CASE class \notin DOMAIN groups
  <2>1. key = row.key
    BY <1>8
  <2> HIDE DEF states, next
  <2>2. TableBytes(next) = TableBytes(groups) + GroupBytes(row.key, states)
    BY <1>5, <1>8, <2>1
  <2>3. BytesAfter(row) = TableBytes(groups) + GroupBytes(row.key, states)
    BY <1>3, <1>4, <1>5, <1>6, <1>8
  <2> QED BY <1>1, <1>5, <2>2, <2>3 DEF next
<1> QED BY <1>7, <1>8

BytesInv == TableType /\ BytesMatchTable

\* groups_bytes is the size of the groups in memory at every moment, for any
\* keys and values: what folding a row in adds and takes off is what the
\* table's size changes by, although the size taken off a known group is
\* computed with the row's key and the table keeps the first key it got, which
\* may be equal and of another size.
THEOREM BytesAreTheTable == Spec => []BytesMatchTable
<1>1. ASSUME NEW table, table = NoGroups
      PROVE  IsFiniteSet(DOMAIN table) /\ TableBytes(table) = 0 /\ DOMAIN table = {}
  <2>1. DOMAIN table = {} /\ IsFiniteSet({})
    BY <1>1, FS_EmptySet DEF NoGroups
  <2>2. TableBytes(table) = Total(Sizes(table), {})
    BY <2>1, TableBytesIsTotal
  <2>3. \A x \in {} : Sizes(table)[x] \in Int
    OBVIOUS
  <2> QED BY <2>1, <2>2, <2>3, TotalType
<1>2. Init => BytesInv
  BY <1>1 DEF Init, BytesInv, TableType, BytesMatchTable
<1>3. BytesInv /\ [Next]_vars => BytesInv'
  <2> SUFFICES ASSUME BytesInv, [Next]_vars PROVE BytesInv'
    OBVIOUS
  <2>1. ASSUME NEW row \in Row(is_partial), ConsumeRow(row) PROVE BytesInv'
    <3>1. row.key \in Keys
      BY DEF Row
    <3>2. CASE BytesAfter(row) >= threshold
      <4>1. groups' = NoGroups /\ groups_bytes' = 0
        BY <2>1, <3>2 DEF ConsumeRow
      <4>2. IsFiniteSet(DOMAIN groups') /\ TableBytes(groups') = 0 /\ DOMAIN groups' = {}
        BY <1>1, <4>1
      <4> QED BY <4>1, <4>2 DEF BytesInv, TableType, BytesMatchTable
    <3>3. CASE ~ (BytesAfter(row) >= threshold)
      <4>1. groups' = GroupsAfter(row) /\ groups_bytes' = BytesAfter(row)
        BY <2>1, <3>3 DEF ConsumeRow
      <4>2. /\ IsFiniteSet(DOMAIN groups')
            /\ \A c \in DOMAIN groups' : groups'[c].key \in Keys
            /\ groups_bytes' = TableBytes(groups')
        BY <3>1, <4>1, RowBytes DEF BytesInv
      <4> QED BY <4>2 DEF BytesInv, TableType, BytesMatchTable
    <3> QED BY <3>2, <3>3
  <2>2. CASE UNCHANGED <<groups, groups_bytes>>
    BY <2>2 DEF BytesInv, TableType, BytesMatchTable
  <2>3. InputEnds \/ ChildRaises \/ EmitTable \/ EmitBucket \/ ExhaustGenerator
        \/ DropGenerator \/ UNCHANGED vars => UNCHANGED <<groups, groups_bytes>>
    BY DEF InputEnds, ChildRaises, EmitTable, EmitBucket, ExhaustGenerator, DropGenerator, vars
  <2> QED BY <2>1, <2>2, <2>3 DEF Next
<1> QED BY <1>2, <1>3, PTL DEF Spec, BytesInv

-----------------------------------------------------------------------------
(* The buckets of spilled tables.                                          *)

\* What HashPartitioner promises (partitioner.py): equal keys, one bucket.
KeysAgree == \A k, l \in Keys : Class[k] = Class[l] => Bucket[k] = Bucket[l]

InBuckets(b) == ClassesAt(Bucket, b)

\* The classes of a bucket, taken out of a table.
LEMMA InBucketRepresents ==
  ASSUME KeysAgree, NEW table, NEW val, NEW part, NEW R,
         Represents(table, Classes, val, part, R), NEW b
  PROVE  Represents(InBucket(table, b), InBuckets(b), val, part, R)
<1> DEFINE new == InBucket(table, b)
<1>1. Agree(Bucket)
  BY DEF KeysAgree, Agree
<1>2. new = [c \in {d \in DOMAIN table : Bucket[table[d].key] = b} |-> table[c]]
  BY DEF InBucket
<1> HIDE DEF new
<1>3. Represents(new, ClassesAt(Bucket, b), val, part, R)
  BY <1>1, <1>2, PartRepresents
<1> QED BY <1>3 DEF new, InBuckets

-----------------------------------------------------------------------------
(* The loop over the rows.                                                 *)

LEMMA RowFacts ==
  ASSUME NEW partial \in BOOLEAN, NEW row \in Row(partial)
  PROVE  /\ row \in RowType
         /\ Class[row.key] \in Classes
         /\ Len(row.raw) \in Nat \ {0}
         /\ row.raw \in [1 .. Len(row.raw) -> Values] /\ row.raw \in Seq(Values)
         /\ partial => Len(row.raw) = 1
<1>1. row.key \in Keys
  BY DEF Row
<1>2. PICK n \in 1 .. (IF partial THEN 1 ELSE MaxFolded) : row.raw \in [1 .. n -> Values]
  BY DEF Row
<1>3. n \in Nat \ {0} /\ (partial => n = 1)
  BY <1>2, AggregateAssumption
<1>4. row.raw \in Seq(Values) /\ Len(row.raw) = n
  BY <1>2, <1>3
<1>5. row = [key |-> row.key, raw |-> row.raw]
  BY DEF Row
<1>6. row.raw \in UNION {[1 .. k -> Values] : k \in Nat \ {0}}
  BY <1>2, <1>3
<1>7. row \in RowType
  BY <1>1, <1>5, <1>6 DEF RowType
<1> QED BY <1>1, <1>2, <1>3, <1>4, <1>7 DEF Classes

\* The states of a row's group are those of the values folded in so far in
\* this round, `row` included, whichever of the three ways they are made.
LEMMA NewStatesSummary ==
  ASSUME NEW partial \in BOOLEAN, is_partial = partial, NEW row \in Row(partial),
         NEW val, NEW V, Holds(val, V), NEW m \in Nat,
         m + 1 .. m + Len(row.raw) \subseteq DOMAIN val,
         \A j \in 1 .. Len(row.raw) : val[m + j] = row.raw[j],
         V \cap (m + 1 .. m + Len(row.raw)) = {},
         Class[row.key] \in DOMAIN groups <=> V # {},
         Class[row.key] \in DOMAIN groups =>
           /\ groups[Class[row.key]].states \in States
           /\ \A i \in DOMAIN Aggs : Summary(Aggs[i], groups[Class[row.key]].states[i], val, V)
  PROVE  /\ NewStates(row) \in States
         /\ \A i \in DOMAIN Aggs :
              Summary(Aggs[i], NewStates(row)[i], val, V \union (m + 1 .. m + Len(row.raw)))
<1> DEFINE class == Class[row.key]
           known == class \in DOMAIN groups
           n == Len(row.raw)
           W == m + 1 .. m + n
           old == IF known THEN groups[class].states ELSE PartialStates(<<>>)
           f == NewStates(row)
<1>1. n \in Nat \ {0} /\ row.raw \in [1 .. n -> Values] /\ (partial => n = 1)
  BY RowFacts
<1>2. \A i \in DOMAIN Aggs : Holds(val, W) /\ Summary(Aggs[i], PartialStates(row.raw)[i], val, W)
  BY <1>1, PartialSummary
<1>3. old \in States /\ \A i \in DOMAIN Aggs : Summary(Aggs[i], old[i], val, V)
  <2>1. CASE known
    BY <2>1
  <2>2. CASE ~ known
    <3>1. V = {} /\ old = PartialStates(<<>>) /\ <<>> \in [1 .. 0 -> Values]
      BY <2>2
    <3>2. m + 1 .. m + 0 = {}
      OBVIOUS
    <3>3. ASSUME NEW i \in DOMAIN Aggs PROVE Summary(Aggs[i], old[i], val, V)
      <4> DEFINE E == m + 1 .. m + 0
                 none == <<>>
      <4>1. none \in [1 .. 0 -> Values] /\ E \subseteq DOMAIN val
            /\ \A j \in 1 .. 0 : val[m + j] = none[j]
        BY <3>2
      <4>2. Summary(Aggs[i], PartialStates(none)[i], val, E)
        <5> HIDE DEF none
        <5> QED BY <4>1, PartialSummary
      <4>3. E = V
        BY <3>1, <3>2
      <4> HIDE DEF E
      <4> QED BY <3>1, <4>2, <4>3, Zenon
    <3>4. PartialStates(<<>>) \in States
      BY <3>1, PartialStatesType
    <3> QED BY <3>1, <3>3, <3>4
  <2> QED BY <2>1, <2>2
<1>4. CASE partial
  <2>1. f = [i \in DOMAIN Aggs |-> Update(Aggs[i], old[i], row.raw[1])]
    BY <1>4 DEF NewStates
  <2>2. n = 1 /\ W = {m + 1} /\ val[m + 1] = row.raw[1] /\ row.raw[1] \in Values
    BY <1>1, <1>4
  <2> HIDE DEF f, old, n, W
  <2>3. ASSUME NEW i \in DOMAIN Aggs
        PROVE  f[i] \in State(Aggs[i]) /\ Summary(Aggs[i], f[i], val, V \union W)
    <3>1. Holds(val, W) /\ Holds(val, V \union {m + 1}) /\ m + 1 \notin V
      <4>1. Holds(val, W)
        BY <1>2
      <4>2. Holds(val, {m + 1})
        BY <2>2, <4>1
      <4>3. m + 1 \notin V
        BY <2>2 DEF n, W
      <4>4. IsFiniteSet(V \union {m + 1})
        BY FS_AddElement DEF Holds
      <4> QED BY <4>1, <4>2, <4>3, <4>4 DEF Holds
    <3>2. Summary(Aggs[i], old[i], val, V) /\ Aggs[i] \in AggregateFunction
      BY <1>3, AggsTyped
    <3>3. Summary(Aggs[i], Update(Aggs[i], old[i], val[m + 1]), val, V \union {m + 1})
      BY <3>1, <3>2, SummaryOfUpdate
    <3>4. Summary(Aggs[i], f[i], val, V \union W)
      BY <2>1, <2>2, <3>3
    <3>5. old[i] \in State(Aggs[i]) /\ row.raw[1] \in Nullable
      BY <1>3, <2>2, ValuesNullable DEF States
    <3> QED BY <2>1, <3>2, <3>4, <3>5, UpdateType
  <2>4. f = [i \in DOMAIN Aggs |-> f[i]]
    BY <2>1
  <2>5. f \in States
    BY <2>3, <2>4, StatesType
  <2> QED BY <2>3, <2>5 DEF f, W, n
<1>5. CASE ~ partial /\ known
  <2>1. f = MergeStates(old, PartialStates(row.raw))
    BY <1>5 DEF NewStates
  <2>2. PartialStates(row.raw) \in States
    BY <1>1, PartialStatesType
  <2> HIDE DEF f, old, n, W
  <2>3. f \in States /\ \A i \in DOMAIN Aggs : f[i] = Merge(Aggs[i], old[i], PartialStates(row.raw)[i])
    BY <1>3, <2>1, <2>2, MergeStatesType
  <2>4. V \cap W = {}
    BY DEF n, W
  <2>5. ASSUME NEW i \in DOMAIN Aggs PROVE Summary(Aggs[i], f[i], val, V \union W)
    <3>1. Holds(val, W) /\ Summary(Aggs[i], PartialStates(row.raw)[i], val, W)
          /\ Summary(Aggs[i], old[i], val, V) /\ Aggs[i] \in AggregateFunction
      BY <1>2, <1>3, AggsTyped
    <3>2. Summary(Aggs[i], Merge(Aggs[i], old[i], PartialStates(row.raw)[i]), val, V \union W)
      BY <2>4, <3>1, SummaryOfUnion
    <3> QED BY <2>3, <3>2
  <2> QED BY <2>3, <2>5 DEF f, W, n
<1>6. CASE ~ partial /\ ~ known
  <2>1. f = PartialStates(row.raw) /\ V = {} /\ V \union W = W
    BY <1>6 DEF NewStates
  <2>2. f \in States
    BY <1>1, <2>1, PartialStatesType
  <2> HIDE DEF W, f
  <2>3. \A i \in DOMAIN Aggs : Summary(Aggs[i], f[i], val, V \union W)
    BY <1>2, <2>1
  <2> QED BY <2>2, <2>3 DEF f, W, n
<1> QED BY <1>4, <1>5, <1>6

\* The row's values are the last of its class.
LastAre(row, val, next) ==
  \A c \in Classes : next[c] = IF c = Class[row.key] THEN val[c] \o row.raw ELSE val[c]

\* Their positions belong to round n.
GoTo(row, val, part, new, n) ==
  \A c \in Classes : \A r \in 0 .. n :
    new[c][r] = IF c = Class[row.key] /\ r = n
                  THEN part[c][r] \union (Len(val[c]) + 1 .. Len(val[c]) + Len(row.raw))
                  ELSE part[c][r]

\* A row is folded in: its values come after those of its class, and belong
\* to the round in memory.
LEMMA RowFolded ==
  ASSUME is_partial \in BOOLEAN, NEW row \in Row(is_partial),
         NEW val, NEW part, NEW n \in Nat, Divides(val, part, n),
         Represents(groups, Classes, val, part, {n}),
         NEW next, LastAre(row, val, next), NEW new, GoTo(row, val, part, new, n)
  PROVE  /\ Divides(next, new, n)
         /\ \A c \in Classes : \A p \in DOMAIN val[c] : p \in DOMAIN next[c] /\ next[c][p] = val[c][p]
         /\ Represents(GroupsAfter(row), Classes, next, new, {n})
<1> DEFINE class == Class[row.key]
           k == Len(row.raw)
           m == Len(val[class])
           W == m + 1 .. m + k
<1>0. /\ \A c \in Classes : next[c] = IF c = class THEN val[c] \o row.raw ELSE val[c]
      /\ \A c \in Classes : \A r \in 0 .. n :
           new[c][r] = IF c = class /\ r = n
                         THEN part[c][r] \union (Len(val[c]) + 1 .. Len(val[c]) + Len(row.raw))
                         ELSE part[c][r]
  BY DEF LastAre, GoTo
<1>1. class \in Classes /\ row.key \in Keys /\ k \in Nat \ {0}
      /\ row.raw \in [1 .. k -> Values] /\ row.raw \in Seq(Values)
  BY RowFacts DEF RowType
<1>2. val[class] \in Seq(Values) /\ m \in Nat /\ DOMAIN val[class] = 1 .. m
  BY <1>1 DEF Divides
<1>3. /\ next[class] \in Seq(Values)
      /\ DOMAIN next[class] = 1 .. m + k /\ 1 .. m + k = (1 .. m) \union W /\ (1 .. m) \cap W = {}
      /\ \A p \in 1 .. m : next[class][p] = val[class][p]
      /\ \A j \in 1 .. k : next[class][m + j] = row.raw[j]
  <2>1. next[class] = val[class] \o row.raw
    BY <1>0, <1>1
  <2>2. /\ val[class] \o row.raw \in Seq(Values)
        /\ DOMAIN (val[class] \o row.raw) = 1 .. m + k
        /\ \A p \in 1 .. m : (val[class] \o row.raw)[p] = val[class][p]
        /\ \A j \in 1 .. k : (val[class] \o row.raw)[m + j] = row.raw[j]
    <3> DEFINE v == val[class]
               u == row.raw
    <3>1. v \in Seq(Values) /\ u \in Seq(Values) /\ m = Len(v) /\ k = Len(u)
      BY <1>1, <1>2
    <3> HIDE DEF v, u, m, k
    <3>2. /\ v \o u \in Seq(Values)
          /\ DOMAIN (v \o u) = 1 .. m + k
          /\ \A p \in 1 .. m : (v \o u)[p] = v[p]
          /\ \A j \in 1 .. k : (v \o u)[m + j] = u[j]
      BY <3>1, ConcatFacts
    <3> QED BY <3>2 DEF v, u
  <2>3. 1 .. m + k = (1 .. m) \union W /\ (1 .. m) \cap W = {}
    <3> HIDE DEF m, k
    <3> QED BY <1>1, <1>2 DEF W
  <2> HIDE DEF class, m, k, W
  <2> QED BY <2>1, <2>2, <2>3
<1>4. \A c \in Classes : c # class => next[c] = val[c]
  BY <1>0
<1>5. \A c \in Classes : \A p \in DOMAIN val[c] : p \in DOMAIN next[c] /\ next[c][p] = val[c][p]
  <2> HIDE DEF class, m, k, W
  <2> QED BY <1>2, <1>3, <1>4
<1>6. /\ \A c \in Classes : c # class => \A r \in 0 .. n : new[c][r] = part[c][r]
      /\ \A r \in 0 .. n - 1 : new[class][r] = part[class][r]
      /\ new[class][n] = part[class][n] \union W
  <2>1. n \in 0 .. n /\ \A r \in 0 .. n - 1 : r \in 0 .. n /\ r # n
    OBVIOUS
  <2>2. \A c \in Classes : c # class => \A r \in 0 .. n : new[c][r] = part[c][r]
    BY <1>0
  <2>3. \A r \in 0 .. n : new[class][r] = IF r = n THEN part[class][r] \union W ELSE part[class][r]
    BY <1>0, <1>1
  <2> HIDE DEF class, W
  <2> QED BY <2>1, <2>2, <2>3
<1>7. \A c \in Classes : \A r \in 0 .. n : part[c][r] \subseteq DOMAIN val[c]
  BY DEF Divides, Piece
<1>8. Divides(next, new, n)
  <2>1. ASSUME NEW c \in Classes, c # class
        PROVE  /\ next[c] \in Seq(Values)
               /\ \A r, q \in 0 .. n : r # q => new[c][r] \cap new[c][q] = {}
               /\ Piece(new, c, 0 .. n) = DOMAIN next[c]
    <3>1. Piece(new, c, 0 .. n) = Piece(part, c, 0 .. n)
      BY <1>6, <2>1 DEF Piece
    <3> HIDE DEF class
    <3> QED BY <1>4, <1>6, <2>1, <3>1 DEF Divides
  <2>2. \A r, q \in 0 .. n : r # q => new[class][r] \cap new[class][q] = {}
    <3>1. \A r, q \in 0 .. n : r # q => part[class][r] \cap part[class][q] = {}
      BY <1>1 DEF Divides
    <3>2. \A r \in 0 .. n : part[class][r] \cap W = {}
      <4> HIDE DEF class, m, k, W
      <4> QED BY <1>1, <1>2, <1>3, <1>7
    <3>3. \A r \in 0 .. n : r # n => new[class][r] = part[class][r]
      BY <1>6
    <3> HIDE DEF class, m, k, W
    <3> QED BY <1>6, <3>1, <3>2, <3>3
  <2>3. Piece(new, class, 0 .. n) = DOMAIN next[class]
    <3>1. \A r \in 0 .. n : r # n => new[class][r] = part[class][r]
      BY <1>6
    <3>2. Piece(new, class, 0 .. n) = Piece(part, class, 0 .. n) \union W
      <4> HIDE DEF class, m, k, W
      <4> QED BY <1>6, <3>1 DEF Piece
    <3>3. Piece(part, class, 0 .. n) = DOMAIN val[class]
      BY <1>1 DEF Divides
    <3> HIDE DEF class, m, k, W
    <3> QED BY <1>2, <1>3, <3>2, <3>3
  <2> HIDE DEF class, m, k, W
  <2> QED BY <1>1, <1>3, <2>1, <2>2, <2>3 DEF Divides
<1>9. \A c \in Classes : Piece(part, c, {n}) = part[c][n] /\ Piece(new, c, {n}) = new[c][n]
  BY DEF Piece
<1> DEFINE V == part[class][n]
           table == GroupsAfter(row)
           f == NewStates(row)
           entry == [key |-> IF class \in DOMAIN groups THEN groups[class].key ELSE row.key, states |-> f]
<1>10. /\ DOMAIN groups = {d \in Classes : part[d][n] # {}}
       /\ IsFiniteSet(DOMAIN groups)
       /\ \A c \in DOMAIN groups :
            /\ groups[c] \in Entry /\ Class[groups[c].key] = c
            /\ \A i \in DOMAIN Aggs : Summary(Aggs[i], groups[c].states[i], val[c], part[c][n])
  <2>1. DOMAIN groups = {d \in Classes : Piece(part, d, {n}) # {}} /\ IsFiniteSet(DOMAIN groups)
    BY DEF Represents
  <2>2. DOMAIN groups = {d \in Classes : part[d][n] # {}}
    BY <1>9, <2>1
  <2>3. ASSUME NEW c \in DOMAIN groups
        PROVE  /\ groups[c] \in Entry /\ Class[groups[c].key] = c
               /\ \A i \in DOMAIN Aggs : Summary(Aggs[i], groups[c].states[i], val[c], Piece(part, c, {n}))
    BY DEF Represents
  <2>4. ASSUME NEW c \in DOMAIN groups
        PROVE  \A i \in DOMAIN Aggs : Summary(Aggs[i], groups[c].states[i], val[c], part[c][n])
    <3>1. Piece(part, c, {n}) = part[c][n]
      BY <1>9, <2>1
    <3> QED BY <2>3, <3>1, Zenon
  <2> QED BY <2>1, <2>2, <2>3, <2>4
<1>11. \A c \in Classes : Holds(val[c], part[c][n]) /\ Holds(next[c], part[c][n])
  <2>1. \A c \in Classes : Holds(val[c], part[c][n])
    <3>1. {n} \in SUBSET (0 .. n)
      OBVIOUS
    <3>2. \A c \in Classes : Holds(val[c], Piece(part, c, {n}))
      BY <3>1, PieceHolds
    <3> QED BY <1>9, <3>2
  <2> QED BY <1>5, <2>1 DEF Holds
<1>12. ASSUME NEW c \in DOMAIN groups, NEW i \in DOMAIN Aggs
       PROVE  Summary(Aggs[i], groups[c].states[i], next[c], part[c][n])
  <2>1. c \in Classes
    BY <1>10
  <2>2. part[c][n] \subseteq DOMAIN next[c] /\ \A p \in part[c][n] : val[c][p] = next[c][p]
    BY <1>5, <1>11, <2>1 DEF Holds
  <2> QED BY <1>10, <1>11, <2>1, <2>2, SummaryAgrees
<1>13. f \in States /\ \A i \in DOMAIN Aggs : Summary(Aggs[i], f[i], next[class], V \union W)
  <2>1. V \cap W = {}
    <3>1. V \subseteq 1 .. m
      <4>1. n \in 0 .. n
        OBVIOUS
      <4> HIDE DEF class, m
      <4> QED BY <1>1, <1>2, <1>7, <4>1
    <3> HIDE DEF V, class, m, k, W
    <3> QED BY <1>3, <3>1
  <2>2. class \in DOMAIN groups <=> V # {}
    BY <1>1, <1>10
  <2>3. class \in DOMAIN groups =>
          /\ groups[class].states \in States
          /\ \A i \in DOMAIN Aggs : Summary(Aggs[i], groups[class].states[i], next[class], V)
    BY <1>10, <1>12 DEF Entry
  <2>4. Holds(next[class], V) /\ W \subseteq DOMAIN next[class]
        /\ \A j \in 1 .. k : next[class][m + j] = row.raw[j]
    <3>1. Holds(next[class], V)
      BY <1>1, <1>11
    <3>2. W \subseteq DOMAIN next[class]
      <4> HIDE DEF class, m, k, W
      <4> QED BY <1>3
    <3> QED BY <1>3, <3>1, <3>2
  <2> DEFINE b == next[class]
  <2> HIDE DEF V, f, m, b
  <2> QED BY <1>2, <2>1, <2>2, <2>3, <2>4, NewStatesSummary DEF b, f
<1>14. table = Set(groups, class, entry)
  BY DEF GroupsAfter
<1>15. entry \in Entry /\ Class[entry.key] = class /\ entry.states = f
  <2>1. entry.states = f /\ entry.key = IF class \in DOMAIN groups THEN groups[class].key ELSE row.key
    BY DEF entry
  <2>2. entry.key \in Keys /\ Class[entry.key] = class
    BY <1>1, <1>10, <2>1 DEF Entry
  <2> HIDE DEF f
  <2> QED BY <1>13, <2>1, <2>2 DEF Entry, entry
<1> HIDE DEF entry, f
<1>16. /\ DOMAIN table = DOMAIN groups \union {class}
       /\ table = [c \in DOMAIN table |-> table[c]]
       /\ table[class] = entry
       /\ \A c \in DOMAIN groups : c # class => table[c] = groups[c]
  BY <1>14 DEF Set
<1> HIDE DEF table
<1>17. DOMAIN table = {d \in Classes : Piece(new, d, {n}) # {}} /\ IsFiniteSet(DOMAIN table)
  <2>1. W # {}
    <3>1. m + 1 \in W
      <4> HIDE DEF m, k
      <4> QED BY <1>1, <1>2 DEF W
    <3> QED BY <3>1
  <2>2. \A c \in Classes : new[c][n] # {} <=> c = class \/ part[c][n] # {}
    <3>1. n \in 0 .. n
      OBVIOUS
    <3> HIDE DEF class, W
    <3> QED BY <1>6, <2>1, <3>1
  <2>3. IsFiniteSet(DOMAIN groups \union {class})
    BY <1>10, FS_AddElement
  <2>4. IsFiniteSet(DOMAIN table)
    BY <1>16, <2>3
  <2>5. \A c \in Classes : Piece(new, c, {n}) # {} <=> c = class \/ c \in DOMAIN groups
    BY <1>9, <1>10, <2>2
  <2>6. DOMAIN groups \subseteq Classes /\ DOMAIN table = DOMAIN groups \union {class} /\ class \in Classes
    BY <1>1, <1>10, <1>16
  <2> HIDE DEF class
  <2>7. DOMAIN table = {d \in Classes : Piece(new, d, {n}) # {}}
    BY <2>5, <2>6
  <2> QED BY <2>4, <2>7
<1>18. ASSUME NEW c \in DOMAIN table
       PROVE  /\ table[c] \in Entry
              /\ Class[table[c].key] = c
              /\ \A i \in DOMAIN Aggs : Summary(Aggs[i], table[c].states[i], next[c], Piece(new, c, {n}))
  <2>1. c \in Classes /\ Piece(new, c, {n}) = new[c][n] /\ n \in 0 .. n
    <3>1. c \in Classes
      BY <1>17
    <3>2. Piece(new, c, {n}) = new[c][n]
      BY <1>9, <3>1, Zenon
    <3>3. n \in 0 .. n
      OBVIOUS
    <3> QED BY <3>1, <3>2, <3>3
  <2>2. CASE c = class
    <3>1. new[c][n] = V \union W /\ table[c] = entry
      BY <1>6, <1>16, <2>2
    <3>2. \A i \in DOMAIN Aggs : Summary(Aggs[i], f[i], next[c], V \union W)
      BY <1>13, <2>2
    <3> HIDE DEF V, W, class
    <3>3. \A i \in DOMAIN Aggs : Summary(Aggs[i], f[i], next[c], Piece(new, c, {n}))
      BY <2>1, <3>1, <3>2, Zenon
    <3> QED BY <1>15, <2>2, <3>1, <3>3
  <2>3. CASE c # class
    <3>1. c \in DOMAIN groups /\ table[c] = groups[c] /\ new[c][n] = part[c][n]
      BY <1>6, <1>16, <2>1, <2>3
    <3>2. \A i \in DOMAIN Aggs : Summary(Aggs[i], groups[c].states[i], next[c], part[c][n])
      BY <1>12, <3>1
    <3>3. \A i \in DOMAIN Aggs : Summary(Aggs[i], groups[c].states[i], next[c], Piece(new, c, {n}))
      BY <2>1, <3>1, <3>2, Zenon
    <3> QED BY <1>10, <3>1, <3>3
  <2> QED BY <2>2, <2>3
<1>19. table = [c \in {d \in Classes : Piece(new, d, {n}) # {}} |-> table[c]]
  BY <1>16, <1>17
<1>20. Represents(table, Classes, next, new, {n})
  BY <1>17, <1>18, <1>19 DEF Represents
<1> QED BY <1>5, <1>8, <1>20 DEF table

-----------------------------------------------------------------------------
(* The whole operator.                                                     *)

\* The values behind the rows seen so far.
Vals == RawValues(seen)

\* Some class of bucket b came up during round r.
UsedIn(part, r, b) == \E c \in InBuckets(b) : part[c][r] # {}

\* What the operator saw and how often it spilled.
SeenInv ==
  /\ is_partial \in BOOLEAN
  /\ round_num \in Nat
  /\ seen \in Seq(RowType)

\* The paths of a bucket name, once each, files with the bucket's share of
\* one round, and leave out no round the bucket was used in.
PathsAt(files, paths, n, val, part) ==
  /\ \A f \in DOMAIN files : f[1] \in 0 .. n - 1
  /\ \A b \in Buckets :
       /\ paths[b] \in Seq(Nat \X Buckets)
       /\ \A j \in DOMAIN paths[b] :
            /\ paths[b][j] \in DOMAIN files
            /\ Represents(files[paths[b][j]], InBuckets(b), val, part, {paths[b][j][1]})
       /\ \A j, k \in DOMAIN paths[b] : j # k => paths[b][j][1] # paths[b][k][1]
       /\ \A r \in 0 .. n - 1 :
            UsedIn(part, r, b) => \E j \in DOMAIN paths[b] : paths[b][j][1] = r

PathsInv(val, part) == PathsAt(spill_files, spill_paths, round_num, val, part)

\* What was emitted: the whole table, or the buckets so far, every round in.
EmittedInv(val, part) ==
  /\ phase = "done" /\ ~ Spilled => emitted = <<groups>>
  /\ phase # "done" \/ Spilled =>
       /\ bucket \in 0 .. NumBuckets
       /\ emitted \in Seq(Tables)
       /\ Len(emitted) = bucket
       /\ \A k \in 1 .. bucket : Represents(emitted[k], InBuckets(k - 1), val, part, 0 .. round_num)
  /\ phase \in {"accumulate", "unread"} => bucket = 0
  /\ phase = "emit" => Spilled
  /\ phase = "done" /\ Spilled => bucket = NumBuckets

GroupInv(val, part) ==
  /\ Divides(val, part, round_num)
  /\ Represents(groups, Classes, val, part, {round_num})
  /\ phase \in {"accumulate", "unread", "emit"} => PathsInv(val, part)
  /\ EmittedInv(val, part)

HashInv == SeenInv /\ \E part : GroupInv(Vals, part)

LEMMA HashInit == Init => HashInv
<1> SUFFICES ASSUME Init PROVE HashInv
  OBVIOUS
<1> DEFINE part == [c \in Classes |-> [r \in {0} |-> {}]]
<1>1. seen = <<>> /\ round_num = 0 /\ groups = NoGroups /\ phase = "accumulate"
      /\ emitted = <<>> /\ bucket = 0 /\ is_partial \in BOOLEAN
  BY DEF Init
<1>2. \A c \in Classes : Vals[c] = <<>>
  BY <1>1, RawInEmpty DEF Vals, RawValues
<1>3. SeenInv
  <2>1. seen \in Seq(RowType)
    BY <1>1
  <2> QED BY <1>1, <2>1 DEF SeenInv
<1>4. \A c \in Classes : Vals[c] = <<>> /\ part[c][0] = {}
  BY <1>2
<1> HIDE DEF part
<1>5. 0 .. 0 = {0}
  OBVIOUS
<1>6. \A c \in Classes : Piece(part, c, {0}) = {}
  BY <1>4 DEF Piece
<1>7. Divides(Vals, part, 0)
  <2>1. \A r, q \in 0 .. 0 : ~ (r # q)
    OBVIOUS
  <2>2. ASSUME NEW c \in Classes PROVE Piece(part, c, 0 .. 0) = DOMAIN Vals[c] /\ Vals[c] \in Seq(Values)
    <3>1. Piece(part, c, 0 .. 0) = {}
      BY <1>5, <1>6
    <3>2. <<>> \in Seq(Values) /\ DOMAIN <<>> = {}
      OBVIOUS
    <3> QED BY <1>4, <3>1, <3>2
  <2> QED BY <2>1, <2>2 DEF Divides
<1>8. Represents(groups, Classes, Vals, part, {0})
  <2>1. DOMAIN groups = {} /\ groups = [c \in {} |-> groups[c]]
    BY <1>1 DEF NoGroups
  <2>2. {d \in Classes : Piece(part, d, {0}) # {}} = {}
    BY <1>6
  <2>3. groups = [c \in {d \in Classes : Piece(part, d, {0}) # {}} |-> groups[c]]
    BY <2>1, <2>2
  <2>4. IsFiniteSet(DOMAIN groups)
    BY <2>1, FS_EmptySet
  <2> QED BY <2>1, <2>3, <2>4 DEF Represents
<1>9. PathsInv(Vals, part)
  <2>1. \A b \in Buckets : spill_paths[b] = <<>>
    BY DEF Init
  <2>2. DOMAIN spill_files = {}
    BY DEF Init, NoGroups
  <2>3. 0 .. round_num - 1 = {}
    BY <1>1
  <2>4. <<>> \in Seq(Nat \X Buckets) /\ DOMAIN <<>> = {}
    OBVIOUS
  <2>5. ASSUME NEW b \in Buckets
        PROVE  spill_paths[b] \in Seq(Nat \X Buckets) /\ DOMAIN spill_paths[b] = {}
    BY <2>1, <2>4
  <2> QED BY <2>2, <2>3, <2>5 DEF PathsInv, PathsAt
<1>10. EmittedInv(Vals, part)
  <2>1. bucket \in 0 .. NumBuckets /\ emitted \in Seq(Tables) /\ Len(emitted) = bucket /\ 1 .. bucket = {}
    BY <1>1, AggregateAssumption
  <2> QED BY <1>1, <2>1 DEF EmittedInv
<1> QED BY <1>1, <1>3, <1>7, <1>8, <1>9, <1>10 DEF HashInv, GroupInv

\* Steps that see no new row leave the values as they are.
LEMMA SameSeen ==
  ASSUME SeenInv, seen' = seen, is_partial' = is_partial, round_num' = round_num
  PROVE  SeenInv' /\ Vals' = Vals
BY DEF SeenInv, Vals

LEMMA SamePaths ==
  ASSUME NEW part, PathsInv(Vals, part), Vals' = Vals, round_num' = round_num,
         spill_files' = spill_files, spill_paths' = spill_paths
  PROVE  PathsInv(Vals, part)'
BY DEF PathsInv

\* The steps between the loop and the generator, and those that end it.
LEMMA QuietSteps ==
  ASSUME HashInv, InputEnds \/ ChildRaises \/ ExhaustGenerator \/ DropGenerator \/ UNCHANGED vars
  PROVE  HashInv'
<1>1. PICK part : GroupInv(Vals, part)
  BY DEF HashInv
<1>2. /\ seen' = seen /\ is_partial' = is_partial /\ round_num' = round_num /\ groups' = groups
      /\ spill_paths' = spill_paths /\ bucket' = bucket /\ emitted' = emitted
  BY DEF InputEnds, ChildRaises, ExhaustGenerator, DropGenerator, vars, plan
<1>3. SeenInv' /\ Vals' = Vals
  BY <1>2, SameSeen DEF HashInv
<1>4. \/ phase' = phase /\ spill_files' = spill_files
      \/ phase = "accumulate" /\ phase' = "unread" /\ spill_files' = spill_files
      \/ phase = "accumulate" /\ phase' = "raised"
      \/ phase = "emit" /\ phase' = "done" /\ bucket = NumBuckets
      \/ phase \in {"unread", "emit"} /\ phase' = "closed"
  BY DEF InputEnds, ChildRaises, ExhaustGenerator, DropGenerator, vars
<1>5. Divides(Vals', part, round_num') /\ Represents(groups', Classes, Vals', part, {round_num'})
  BY <1>1, <1>2, <1>3 DEF GroupInv
<1>6. phase' \in {"accumulate", "unread", "emit"} =>
        phase \in {"accumulate", "unread", "emit"} /\ spill_files' = spill_files
  BY <1>4
<1>7. phase' \in {"accumulate", "unread", "emit"} => PathsInv(Vals, part)'
  <2>1. PathsInv(Vals, part) /\ spill_files' = spill_files => PathsInv(Vals, part)'
    <3> SUFFICES ASSUME PathsInv(Vals, part), spill_files' = spill_files PROVE PathsInv(Vals, part)'
      OBVIOUS
    <3> QED BY <1>2, <1>3, SamePaths
  <2> QED BY <1>1, <1>6, <2>1 DEF GroupInv
<1>8. EmittedInv(Vals, part)'
  <2>1. EmittedInv(Vals, part) /\ Spilled' = Spilled
    BY <1>1, <1>2 DEF GroupInv, Spilled
  <2>2. /\ phase' = "done" /\ ~ Spilled => phase = "done"
        /\ phase = "done" /\ ~ Spilled => phase' = "done"
        /\ phase' \in {"accumulate", "unread"} => phase \in {"accumulate", "unread"}
        /\ phase' = "emit" => phase = "emit"
        /\ phase' = "done" /\ Spilled => phase = "done" \/ bucket = NumBuckets
    BY <1>4, <2>1 DEF EmittedInv
  <2> QED BY <1>2, <1>3, <2>1, <2>2 DEF EmittedInv
<1>9. GroupInv(Vals, part)'
  BY <1>5, <1>7, <1>8 DEF GroupInv
<1> QED BY <1>3, <1>9 DEF HashInv

LEMMA TableStep ==
  ASSUME HashInv, EmitTable
  PROVE  HashInv'
<1>1. PICK part : GroupInv(Vals, part)
  BY DEF HashInv
<1>2. /\ seen' = seen /\ is_partial' = is_partial /\ round_num' = round_num /\ groups' = groups
      /\ phase' = "done" /\ ~ Spilled /\ emitted' = <<groups>>
  BY DEF EmitTable, plan
<1>3. SeenInv' /\ Vals' = Vals /\ Spilled' = Spilled
  BY <1>2, SameSeen DEF HashInv, Spilled
<1>4. Divides(Vals', part, round_num') /\ Represents(groups', Classes, Vals', part, {round_num'})
  BY <1>1, <1>2, <1>3 DEF GroupInv
<1>5. EmittedInv(Vals, part)'
  BY <1>2, <1>3 DEF EmittedInv
<1>6. GroupInv(Vals, part)'
  BY <1>2, <1>4, <1>5 DEF GroupInv
<1> QED BY <1>3, <1>6 DEF HashInv

\* Everything of a bucket, out of memory and its files, is every round's.
LEMMA MergedRepresents ==
  ASSUME KeysAgree, round_num \in Nat,
         NEW val, NEW part, Divides(val, part, round_num), PathsInv(val, part),
         Represents(groups, Classes, val, part, {round_num}), NEW b \in Buckets
  PROVE  Represents(Merged(b), InBuckets(b), val, part, 0 .. round_num)
<1> DEFINE n == round_num
           D == InBuckets(b)
           table == InBucket(groups, b)
           paths == spill_paths[b]
           P == Nat \X Buckets
           R == {n} \union {paths[j][1] : j \in DOMAIN paths}
<1>1. D \in SUBSET Classes
  BY DEF InBuckets, ClassesAt
<1>2. Represents(table, D, val, part, {n})
  BY InBucketRepresents
<1>3. /\ paths \in Seq(P)
      /\ \A j \in DOMAIN paths : /\ paths[j] \in DOMAIN spill_files
                                 /\ Represents(spill_files[paths[j]], D, val, part, {paths[j][1]})
      /\ \A j, k \in DOMAIN paths : j # k => paths[j][1] # paths[k][1]
      /\ \A r \in 0 .. n - 1 : UsedIn(part, r, b) => \E j \in DOMAIN paths : paths[j][1] = r
  BY DEF PathsInv, PathsAt
<1>4. \A j \in DOMAIN paths : paths[j][1] \in 0 .. n - 1
  BY <1>3 DEF PathsInv, PathsAt
<1> DEFINE files == [j \in DOMAIN paths |-> spill_files[paths[j]]]
           round == [j \in DOMAIN paths |-> paths[j][1]]
<1>5. Merged(b) = MergeFiles(table, files)
  BY DEF Merged
<1>6. Represents(MergeFiles(table, files), D, val, part, R)
  <2>1. \A j \in DOMAIN paths : spill_files[paths[j]] \in Tables
    <3> HIDE DEF n, D, table, paths
    <3> QED BY <1>1, <1>3, RepresentsType
  <2>2. files \in Seq(Tables)
    <3>1. DOMAIN paths = 1 .. Len(paths) /\ Len(paths) \in Nat
      BY <1>3
    <3>2. files \in [1 .. Len(paths) -> Tables]
      BY <2>1, <3>1
    <3> HIDE DEF files, paths
    <3> QED BY ONLY <3>1, <3>2
  <2>3. FilesOfRounds(files, round, D, val, part, n)
    BY <1>3, <1>4 DEF FilesOfRounds
  <2>4. R = {n} \union {round[j] : j \in DOMAIN files}
    OBVIOUS
  <2> HIDE DEF n, D, table, files, round, R
  <2>5. n \in Nat /\ Divides(val, part, n)
    BY DEF n
  <2> QED BY <1>1, <1>2, <2>2, <2>3, <2>4, <2>5, MergeFilesRepresents
<1>7. R \subseteq 0 .. n
  <2>1. n \in 0 .. n /\ \A r \in 0 .. n - 1 : r \in 0 .. n
    OBVIOUS
  <2> HIDE DEF n, paths
  <2> QED BY <1>4, <2>1
<1>8. \A r \in (0 .. n) \ R : \A c \in D : part[c][r] = {}
  <2>1. \A r \in 0 .. n : r # n => r \in 0 .. n - 1
    OBVIOUS
  <2> HIDE DEF n, paths, D
  <2>2. ASSUME NEW r \in (0 .. n) \ R PROVE ~ UsedIn(part, r, b)
    BY <1>3, <2>1
  <2> QED BY <2>2 DEF UsedIn, D
<1> DEFINE Q == 0 .. n
           new == MergeFiles(table, files)
<1>9. Represents(new, D, val, part, Q)
  <2> HIDE DEF R, Q, D, new
  <2> QED BY <1>6, <1>7, <1>8, RepresentsMore DEF Q, new
<1> QED BY <1>5, <1>9

LEMMA BucketStep ==
  ASSUME KeysAgree, HashInv, EmitBucket
  PROVE  HashInv'
<1>1. PICK part : GroupInv(Vals, part)
  BY DEF HashInv
<1>2. /\ seen' = seen /\ is_partial' = is_partial /\ round_num' = round_num /\ groups' = groups
      /\ spill_files' = spill_files /\ spill_paths' = spill_paths
      /\ phase \in {"unread", "emit"} /\ phase' = "emit" /\ Spilled /\ bucket < NumBuckets
      /\ emitted' = Append(emitted, Merged(bucket)) /\ bucket' = bucket + 1
  BY DEF EmitBucket, plan
<1>3. SeenInv' /\ Vals' = Vals /\ Spilled' = Spilled
  BY <1>2, SameSeen DEF HashInv, Spilled
<1>4. /\ Divides(Vals, part, round_num) /\ Represents(groups, Classes, Vals, part, {round_num})
      /\ PathsInv(Vals, part) /\ round_num \in Nat
  BY <1>1, <1>2 DEF GroupInv, HashInv, SeenInv
<1>5. /\ bucket \in Nat /\ bucket \in Buckets /\ bucket + 1 \in 0 .. NumBuckets
      /\ emitted \in Seq(Tables) /\ Len(emitted) = bucket
      /\ \A k \in 1 .. bucket : Represents(emitted[k], InBuckets(k - 1), Vals, part, 0 .. round_num)
  <2>1. /\ bucket \in 0 .. NumBuckets /\ emitted \in Seq(Tables) /\ Len(emitted) = bucket
        /\ \A k \in 1 .. bucket : Represents(emitted[k], InBuckets(k - 1), Vals, part, 0 .. round_num)
    BY <1>1, <1>2 DEF GroupInv, EmittedInv
  <2>2. NumBuckets \in Nat
    BY AggregateAssumption
  <2> QED BY <1>2, <2>1, <2>2 DEF Buckets
<1> DEFINE new == Merged(bucket)
<1>6. Represents(new, InBuckets(bucket), Vals, part, 0 .. round_num)
  BY <1>4, <1>5, MergedRepresents
<1>7. new \in Tables
  <2> DEFINE D == InBuckets(bucket)
             R == 0 .. round_num
             val == Vals
  <2>1. D \in SUBSET Classes
    BY DEF InBuckets, ClassesAt
  <2>2. Represents(new, D, val, part, R)
    BY <1>6
  <2> HIDE DEF D, R, new, val
  <2> QED BY <2>1, <2>2, RepresentsType
<1> HIDE DEF new
<1>8. /\ emitted' \in Seq(Tables) /\ Len(emitted') = bucket + 1
      /\ \A k \in 1 .. bucket : emitted'[k] = emitted[k]
      /\ emitted'[bucket + 1] = new
  BY <1>2, <1>5, <1>7 DEF new
<1>9. \A k \in 1 .. bucket + 1 : Represents(emitted'[k], InBuckets(k - 1), Vals, part, 0 .. round_num)
  <2>1. ASSUME NEW k \in 1 .. bucket + 1, k # bucket + 1
        PROVE  Represents(emitted'[k], InBuckets(k - 1), Vals, part, 0 .. round_num)
    <3>1. k \in 1 .. bucket
      BY <1>5, <2>1
    <3> QED BY <1>5, <1>8, <3>1
  <2>2. (bucket + 1) - 1 = bucket
    BY <1>5
  <2>3. Represents(emitted'[bucket + 1], InBuckets((bucket + 1) - 1), Vals, part, 0 .. round_num)
    BY <1>6, <1>8, <2>2
  <2> QED BY <2>1, <2>3
<1>10. EmittedInv(Vals, part)'
  BY <1>2, <1>3, <1>5, <1>8, <1>9 DEF EmittedInv
<1>11. PathsInv(Vals, part)'
  <2>1. /\ round_num' = round_num /\ Vals' = Vals /\ spill_files' = spill_files /\ spill_paths' = spill_paths
    BY <1>2, <1>3
  <2> QED BY <1>4, <2>1, SamePaths
<1>12. GroupInv(Vals, part)'
  BY <1>2, <1>3, <1>4, <1>10, <1>11 DEF GroupInv
<1> QED BY <1>3, <1>12 DEF HashInv

\* A row adds its values to those of its class.
LEMMA SeenGrows ==
  ASSUME SeenInv, NEW row \in Row(is_partial), seen' = Append(seen, row),
         is_partial' = is_partial, round_num' \in Nat
  PROVE  /\ SeenInv'
         /\ Class[row.key] \in Classes
         /\ \A c \in Classes : Vals'[c] = IF c = Class[row.key] THEN Vals[c] \o row.raw ELSE Vals[c]
<1> DEFINE class == Class[row.key]
<1>1. row \in RowType /\ class \in Classes /\ seen \in Seq(RowType) /\ is_partial \in BOOLEAN
  BY RowFacts DEF SeenInv
<1>2. \A c \in Classes : RawIn(Append(seen, row), c) = IF c = class THEN RawIn(seen, c) \o row.raw
                                                                  ELSE RawIn(seen, c)
  BY <1>1, RawInAppend
<1>3. \A c \in Classes : Vals[c] = RawIn(seen, c) /\ Vals'[c] = RawIn(Append(seen, row), c)
  BY DEF Vals, RawValues
<1>4. seen' \in Seq(RowType)
  BY <1>1
<1>5. SeenInv'
  BY <1>1, <1>4 DEF SeenInv
<1> QED BY <1>1, <1>2, <1>3, <1>5

\* Files written in rounds before the n-th stand for what they stood for,
\* whatever is added to the rounds from then on.
LEMMA PathsLater ==
  ASSUME NEW val, NEW part, round_num \in Nat, Divides(val, part, round_num), PathsInv(val, part),
         NEW next, NEW new,
         \A c \in Classes : \A p \in DOMAIN val[c] : p \in DOMAIN next[c] /\ next[c][p] = val[c][p],
         \A c \in Classes : \A r \in 0 .. round_num - 1 : new[c][r] = part[c][r]
  PROVE  PathsInv(next, new)
<1> DEFINE n == round_num
<1>1. ASSUME NEW b \in Buckets, NEW j \in DOMAIN spill_paths[b]
      PROVE  Represents(spill_files[spill_paths[b][j]], InBuckets(b), next, new, {spill_paths[b][j][1]})
  <2> DEFINE D == InBuckets(b)
             file == spill_files[spill_paths[b][j]]
             r == spill_paths[b][j][1]
             R == {r}
  <2>1. D \in SUBSET Classes
    BY DEF InBuckets, ClassesAt
  <2>2. Represents(file, D, val, part, R) /\ spill_paths[b][j] \in DOMAIN spill_files
    BY DEF PathsInv, PathsAt
  <2>3. r \in 0 .. n - 1
    BY <2>2 DEF PathsInv, PathsAt
  <2>4. R \in SUBSET (0 .. n) /\ \A c \in D : \A q \in R : new[c][q] = part[c][q]
    <3>1. r \in 0 .. n
      BY <2>3
    <3> HIDE DEF D, r
    <3> QED BY <2>1, <2>3, <3>1
  <2>5. \A c \in D : \A p \in DOMAIN val[c] : p \in DOMAIN next[c] /\ next[c][p] = val[c][p]
    BY <2>1
  <2>6. n \in Nat /\ Divides(val, part, n)
    OBVIOUS
  <2> HIDE DEF D, file, r, R, n
  <2>7. Represents(file, D, next, new, R)
    BY <2>1, <2>2, <2>4, <2>5, <2>6, RepresentsLater
  <2> QED BY <2>7 DEF D, file, r, R
<1>2. ASSUME NEW b \in Buckets, NEW r \in 0 .. n - 1, UsedIn(new, r, b)
      PROVE  \E j \in DOMAIN spill_paths[b] : spill_paths[b][j][1] = r
  <2>1. UsedIn(part, r, b)
    <3>1. \A c \in InBuckets(b) : c \in Classes
      BY DEF InBuckets, ClassesAt
    <3> QED BY <1>2, <3>1 DEF UsedIn
  <2> QED BY <2>1 DEF PathsInv, PathsAt
<1> QED BY <1>1, <1>2 DEF PathsInv, PathsAt

\* A spill writes the shares of the round in memory and names them.
LEMMA SpillPaths ==
  ASSUME KeysAgree, round_num \in Nat, NEW val, NEW part, NEW table,
         Represents(table, Classes, val, part, {round_num}), PathsInv(val, part), Spill(table)
  PROVE  PathsAt(spill_files', spill_paths', round_num + 1, val, part)
<1> DEFINE n == round_num
           used == {b \in Buckets : DOMAIN InBucket(table, b) # {}}
           file(b) == InBucket(table, b)
<1>1. \A b \in Buckets : Represents(file(b), InBuckets(b), val, part, {n})
  BY InBucketRepresents
<1>2. \A b \in Buckets : UsedIn(part, n, b) => b \in used
  <2>1. ASSUME NEW b \in Buckets, NEW c \in InBuckets(b), part[c][n] # {} PROVE b \in used
    <3>1. Piece(part, c, {n}) # {}
      BY <2>1 DEF Piece
    <3>2. DOMAIN file(b) = {d \in InBuckets(b) : Piece(part, d, {n}) # {}}
      BY <1>1 DEF Represents
    <3> QED BY <3>1, <3>2
  <2> QED BY <2>1 DEF UsedIn
<1>3. /\ DOMAIN spill_files' = DOMAIN spill_files \union {<<n, b>> : b \in used}
      /\ \A f \in DOMAIN spill_files' : spill_files'[f] = IF f[1] = n THEN file(f[2]) ELSE spill_files[f]
      /\ \A b \in Buckets : spill_paths'[b] = IF b \in used THEN Append(spill_paths[b], <<n, b>>) ELSE spill_paths[b]
  BY DEF Spill
<1>4. /\ \A f \in DOMAIN spill_files : f[1] \in 0 .. n - 1
      /\ \A b \in Buckets :
          /\ spill_paths[b] \in Seq(Nat \X Buckets)
          /\ \A j \in DOMAIN spill_paths[b] :
               /\ spill_paths[b][j] \in DOMAIN spill_files
               /\ Represents(spill_files[spill_paths[b][j]], InBuckets(b), val, part, {spill_paths[b][j][1]})
          /\ \A j, k \in DOMAIN spill_paths[b] : j # k => spill_paths[b][j][1] # spill_paths[b][k][1]
          /\ \A r \in 0 .. n - 1 :
               UsedIn(part, r, b) => \E j \in DOMAIN spill_paths[b] : spill_paths[b][j][1] = r
  BY DEF PathsInv, PathsAt
<1>5. n \in 0 .. (n + 1) - 1 /\ (\A r \in 0 .. n - 1 : r \in 0 .. (n + 1) - 1 /\ r # n)
      /\ \A r \in 0 .. (n + 1) - 1 : r = n \/ r \in 0 .. n - 1
  OBVIOUS
<1> HIDE DEF used, file
<1>6. \A f \in DOMAIN spill_files' : f[1] \in 0 .. (n + 1) - 1
  BY <1>3, <1>4, <1>5
<1>7. \A f \in DOMAIN spill_files : f \in DOMAIN spill_files' /\ spill_files'[f] = spill_files[f]
  BY <1>3, <1>4, <1>5
<1>8. \A b \in used : <<n, b>> \in DOMAIN spill_files' /\ spill_files'[<<n, b>>] = file(b)
  BY <1>3
<1>9. ASSUME NEW b \in Buckets
      PROVE  /\ spill_paths'[b] \in Seq(Nat \X Buckets)
             /\ \A j \in DOMAIN spill_paths'[b] :
                  /\ spill_paths'[b][j] \in DOMAIN spill_files'
                  /\ Represents(spill_files'[spill_paths'[b][j]], InBuckets(b), val, part, {spill_paths'[b][j][1]})
             /\ \A j, k \in DOMAIN spill_paths'[b] : j # k => spill_paths'[b][j][1] # spill_paths'[b][k][1]
             /\ \A r \in 0 .. (n + 1) - 1 :
                  UsedIn(part, r, b) => \E j \in DOMAIN spill_paths'[b] : spill_paths'[b][j][1] = r
  <2> DEFINE old == spill_paths[b]
             new == spill_paths'[b]
             k == Len(old)
  <2>1. /\ old \in Seq(Nat \X Buckets) /\ k \in Nat /\ DOMAIN old = 1 .. k
        /\ \A j \in DOMAIN old : /\ old[j] \in DOMAIN spill_files
                                 /\ old[j][1] \in 0 .. n - 1 /\ old[j][1] # n
                                 /\ Represents(spill_files[old[j]], InBuckets(b), val, part, {old[j][1]})
        /\ \A i, j \in DOMAIN old : i # j => old[i][1] # old[j][1]
        /\ \A r \in 0 .. n - 1 : UsedIn(part, r, b) => \E j \in DOMAIN old : old[j][1] = r
    <3>1. old \in Seq(Nat \X Buckets) /\ k \in Nat /\ DOMAIN old = 1 .. k
      BY <1>4
    <3> QED BY <1>4, <1>5, <3>1
  <2>2. CASE b \in used
    <3>1. new = Append(old, <<n, b>>) /\ <<n, b>> \in Nat \X Buckets
      BY <1>3, <2>2
    <3>2. /\ new \in Seq(Nat \X Buckets) /\ DOMAIN new = DOMAIN old \union {k + 1}
          /\ \A j \in DOMAIN old : new[j] = old[j]
          /\ new[k + 1] = <<n, b>> /\ new[k + 1][1] = n
      <4> HIDE DEF old, new
      <4> QED BY <2>1, <3>1 DEF k
    <3> DEFINE m == k + 1
    <3> HIDE DEF old, new, k, m, n
    <3>3. spill_files'[new[m]] = file(b) /\ new[m] \in DOMAIN spill_files'
          /\ Represents(file(b), InBuckets(b), val, part, {n})
      BY <1>1, <1>8, <2>2, <3>2 DEF m
    <3>4. Represents(spill_files'[new[m]], InBuckets(b), val, part, {new[m][1]})
      BY <3>2, <3>3 DEF m
    <3>5. \A j \in DOMAIN old : /\ new[j] \in DOMAIN spill_files'
                                /\ Represents(spill_files'[new[j]], InBuckets(b), val, part, {new[j][1]})
      <4> SUFFICES ASSUME NEW j \in DOMAIN old
                   PROVE  /\ new[j] \in DOMAIN spill_files'
                          /\ Represents(spill_files'[new[j]], InBuckets(b), val, part, {new[j][1]})
        OBVIOUS
      <4>1. new[j] = old[j]
        BY <3>2
      <4>2. /\ old[j] \in DOMAIN spill_files /\ old[j][1] # n
            /\ Represents(spill_files[old[j]], InBuckets(b), val, part, {old[j][1]})
        BY <2>1
      <4>3. old[j] \in DOMAIN spill_files' /\ spill_files'[old[j]] = spill_files[old[j]]
        BY <1>7, <4>2
      <4> QED BY <4>1, <4>2, <4>3
    <3>6. ASSUME NEW i \in DOMAIN new, NEW j \in DOMAIN new, i # j PROVE new[i][1] # new[j][1]
      <4>1. /\ \A h \in DOMAIN new : h # m => h \in DOMAIN old
            /\ \A h \in DOMAIN old : new[h] = old[h] /\ old[h][1] # n
            /\ new[m][1] = n
        BY <2>1, <3>2 DEF m
      <4>2. CASE i = m
        BY <3>6, <4>1, <4>2
      <4>3. CASE j = m
        BY <3>6, <4>1, <4>3
      <4>4. CASE i # m /\ j # m
        <5>1. i \in DOMAIN old /\ j \in DOMAIN old /\ new[i] = old[i] /\ new[j] = old[j]
          BY <4>1, <4>4
        <5>2. old[i][1] # old[j][1]
          BY <2>1, <3>6, <5>1
        <5> QED BY <5>1, <5>2
      <4> QED BY <4>2, <4>3, <4>4
    <3>7. \A r \in 0 .. (n + 1) - 1 : UsedIn(part, r, b) => \E j \in DOMAIN new : new[j][1] = r
      <4>1. \A r \in 0 .. n - 1 : UsedIn(part, r, b) => \E j \in DOMAIN new : new[j][1] = r
        BY <2>1, <3>2
      <4>2. m \in DOMAIN new /\ new[m][1] = n
        BY <3>2 DEF m
      <4> QED BY <1>5, <4>1, <4>2
    <3> QED BY <3>2, <3>3, <3>4, <3>5, <3>6, <3>7 DEF m, old, new
  <2>3. CASE b \notin used
    <3>1. new = old /\ ~ UsedIn(part, n, b)
      BY <1>2, <1>3, <2>3
    <3> HIDE DEF old, new
    <3>2. /\ new \in Seq(Nat \X Buckets)
          /\ \A j \in DOMAIN new :
                  /\ new[j] \in DOMAIN spill_files'
                  /\ Represents(spill_files'[new[j]], InBuckets(b), val, part, {new[j][1]})
          /\ \A i, j \in DOMAIN new : i # j => new[i][1] # new[j][1]
      BY <1>7, <2>1, <3>1
    <3>3. \A r \in 0 .. (n + 1) - 1 : UsedIn(part, r, b) => \E j \in DOMAIN new : new[j][1] = r
      BY <1>5, <2>1, <3>1
    <3> QED BY <3>2, <3>3 DEF old, new
  <2> QED BY <2>2, <2>3
<1> QED BY <1>6, <1>9 DEF PathsAt

LEMMA RowStep ==
  ASSUME KeysAgree, HashInv, NEW row \in Row(is_partial), ConsumeRow(row)
  PROVE  HashInv'
<1> DEFINE n == round_num
           class == Class[row.key]
           k == Len(row.raw)
           next == Vals'
<1>1. PICK part : GroupInv(Vals, part)
  BY DEF HashInv
<1>2. /\ phase = "accumulate" /\ phase' = "accumulate"
      /\ seen' = Append(seen, row) /\ is_partial' = is_partial
      /\ bucket' = bucket /\ emitted' = emitted
      /\ \/ /\ Spill(GroupsAfter(row)) /\ groups' = NoGroups
         \/ /\ groups' = GroupsAfter(row)
            /\ UNCHANGED <<spill_files, spill_paths, round_num>>
  BY DEF ConsumeRow, plan
<1>3. /\ SeenInv /\ n \in Nat /\ is_partial \in BOOLEAN
      /\ Divides(Vals, part, n) /\ Represents(groups, Classes, Vals, part, {n})
      /\ PathsInv(Vals, part)
      /\ bucket = 0 /\ bucket \in 0 .. NumBuckets /\ emitted \in Seq(Tables) /\ Len(emitted) = bucket
  BY <1>1, <1>2 DEF HashInv, SeenInv, GroupInv, EmittedInv
<1>4. round_num' \in Nat
  BY <1>2, <1>3 DEF Spill
<1>5. /\ SeenInv'
      /\ class \in Classes
      /\ \A c \in Classes : next[c] = IF c = class THEN Vals[c] \o row.raw ELSE Vals[c]
  BY <1>2, <1>3, <1>4, SeenGrows
\* The row's positions go to the round in memory; the round after it is new.
<1>6. PICK new :
        /\ GoTo(row, Vals, part, new, n)
        /\ \A c \in Classes : \A r \in 0 .. n - 1 : new[c][r] = part[c][r]
        /\ \A c \in Classes : new[c][n + 1] = {}
  <2> DEFINE W(c) == Len(Vals[c]) + 1 .. Len(Vals[c]) + k
             new == [c \in Classes |->
                       [r \in 0 .. n + 1 |->
                          IF r = n + 1 THEN {}
                          ELSE IF c = class /\ r = n THEN part[c][r] \union W(c) ELSE part[c][r]]]
  <2>1. n + 1 \in 0 .. n + 1 /\ n + 1 \notin 0 .. n
        /\ (\A r \in 0 .. n : r \in 0 .. n + 1 /\ r # n + 1) /\ \A r \in 0 .. n - 1 : r \in 0 .. n /\ r # n
    BY <1>3
  <2> HIDE DEF n, class, k, W
  <2>2. \A c \in Classes : new[c][n + 1] = {}
    BY <2>1
  <2>3. ASSUME NEW c \in Classes, NEW r \in 0 .. n
        PROVE  new[c][r] = IF c = class /\ r = n THEN part[c][r] \union W(c) ELSE part[c][r]
    BY <2>1
  <2> HIDE DEF new
  <2>4. \A c \in Classes : \A r \in 0 .. n - 1 : new[c][r] = part[c][r]
    BY <2>1, <2>3
  <2>5. GoTo(row, Vals, part, new, n)
    BY <2>3 DEF GoTo, W, class, k
  <2> QED BY <2>2, <2>4, <2>5
<1>7. /\ Divides(next, new, n)
      /\ \A c \in Classes : \A p \in DOMAIN Vals[c] : p \in DOMAIN next[c] /\ next[c][p] = Vals[c][p]
      /\ Represents(GroupsAfter(row), Classes, next, new, {n})
  <2> DEFINE val == Vals
  <2> HIDE DEF n, next, val
  <2>1. /\ Divides(val, part, n) /\ Represents(groups, Classes, val, part, {n})
        /\ is_partial \in BOOLEAN /\ n \in Nat
    BY <1>3 DEF val
  <2>2. LastAre(row, val, next)
    BY <1>5 DEF val, LastAre
  <2>3. GoTo(row, val, part, new, n)
    BY <1>6 DEF val
  <2>4. /\ Divides(next, new, n)
        /\ \A c \in Classes : \A p \in DOMAIN val[c] : p \in DOMAIN next[c] /\ next[c][p] = val[c][p]
        /\ Represents(GroupsAfter(row), Classes, next, new, {n})
    BY <2>1, <2>2, <2>3, RowFolded
  <2> QED BY <2>4 DEF val
<1>8. PathsInv(next, new)
  <2> DEFINE val == Vals
  <2>1. /\ Divides(val, part, round_num) /\ PathsInv(val, part) /\ round_num \in Nat
        /\ \A c \in Classes : \A r \in 0 .. round_num - 1 : new[c][r] = part[c][r]
        /\ \A c \in Classes : \A p \in DOMAIN val[c] : p \in DOMAIN next[c] /\ next[c][p] = val[c][p]
    BY <1>3, <1>6, <1>7
  <2> HIDE DEF next, val
  <2> QED BY <2>1, PathsLater
<1>9. EmittedInv(Vals, new)'
  <2>1. 1 .. 0 = {}
    OBVIOUS
  <2> QED BY <1>2, <1>3, <2>1 DEF EmittedInv
<1>10. CASE groups' = GroupsAfter(row) /\ UNCHANGED <<spill_files, spill_paths, round_num>>
  <2>1. round_num' = n /\ PathsAt(spill_files', spill_paths', round_num', Vals', new)
    BY <1>8, <1>10 DEF PathsInv
  <2>2. Divides(Vals', new, round_num') /\ Represents(groups', Classes, Vals', new, {round_num'})
    BY <1>7, <1>10, <2>1
  <2>3. GroupInv(Vals, new)'
    BY <1>9, <2>1, <2>2 DEF GroupInv, PathsInv
  <2> QED BY <1>5, <2>3 DEF HashInv
<1>11. CASE Spill(GroupsAfter(row)) /\ groups' = NoGroups
  <2>1. round_num' = n + 1
    BY <1>11 DEF Spill
  <2>2. Divides(next, new, n + 1) /\ Represents(NoGroups, Classes, next, new, {n + 1})
    <3> HIDE DEF n, next
    <3>1. n \in Nat
      BY <1>3
    <3>2. \A c \in Classes : \A r \in 0 .. n : new[c][r] = new[c][r]
      OBVIOUS
    <3> QED BY <1>6, <1>7, <3>1, <3>2, NewRound
  <2>3. PathsAt(spill_files', spill_paths', n + 1, next, new)
    <3> DEFINE table == GroupsAfter(row)
    <3>1. Represents(table, Classes, next, new, {round_num}) /\ round_num \in Nat /\ Spill(table)
      BY <1>3, <1>7, <1>11
    <3> HIDE DEF table, next
    <3> QED BY <1>8, <3>1, SpillPaths
  <2>4. Divides(Vals', new, round_num') /\ Represents(groups', Classes, Vals', new, {round_num'})
        /\ PathsAt(spill_files', spill_paths', round_num', Vals', new)
    BY <1>11, <2>1, <2>2, <2>3
  <2>5. GroupInv(Vals, new)'
    BY <1>9, <2>4 DEF GroupInv, PathsInv
  <2> QED BY <1>5, <2>5 DEF HashInv
<1> QED BY <1>2, <1>10, <1>11

\* HashInv is inductive.
LEMMA HashInductive == KeysAgree => (Spec => []HashInv)
<1> SUFFICES ASSUME KeysAgree PROVE Spec => []HashInv
  OBVIOUS
<1>1. HashInv /\ [Next]_vars => HashInv'
  <2> SUFFICES ASSUME HashInv, [Next]_vars PROVE HashInv'
    OBVIOUS
  <2>1. ASSUME NEW row \in Row(is_partial), ConsumeRow(row) PROVE HashInv'
    BY <2>1, RowStep
  <2>2. ASSUME EmitTable PROVE HashInv'
    BY <2>2, TableStep
  <2>3. ASSUME EmitBucket PROVE HashInv'
    BY <2>3, BucketStep
  <2>4. ASSUME InputEnds \/ ChildRaises \/ ExhaustGenerator \/ DropGenerator \/ UNCHANGED vars
        PROVE  HashInv'
    BY <2>4, QuietSteps
  <2> QED BY <2>1, <2>2, <2>3, <2>4 DEF Next
<1> QED BY <1>1, HashInit, PTL DEF Spec

\* Equal keys fall into one bucket, so no class is emitted in two.
LEMMA BucketsApart ==
  ASSUME KeysAgree
  PROVE  /\ \A b, d \in Buckets : b # d => InBuckets(b) \cap InBuckets(d) = {}
         /\ \A c \in Classes : \E b \in Buckets : c \in InBuckets(b)
<1>1. Agree(Bucket) /\ \A k \in Keys : Bucket[k] \in Buckets
  BY AggregateAssumption DEF Buckets, KeysAgree, Agree
<1> QED BY <1>1, PlacesApart DEF InBuckets

\* _execute_hash_aggregate_partition computes GROUP BY whatever the
\* threshold, the rows and their keys: each group once, each aggregate as
\* over the raw values, if equal keys are sent to the same bucket.
THEOREM SpillingKeepsTheResult == KeysAgree => (Spec => []GroupsAsReference)
<1> SUFFICES ASSUME KeysAgree PROVE Spec => []GroupsAsReference
  OBVIOUS
<1>1. HashInv => GroupsAsReference
  <2> SUFFICES ASSUME HashInv, phase = "done" PROVE GroupsAsReference
    BY DEF GroupsAsReference
  <2>1. PICK part : GroupInv(Vals, part)
    BY DEF HashInv
  <2>2. SeenInv /\ Divides(Vals, part, round_num) /\ EmittedInv(Vals, part) /\ round_num \in Nat
        /\ Represents(groups, Classes, Vals, part, {round_num})
    BY <2>1 DEF HashInv, GroupInv, SeenInv
  <2>3. ClassesSeen \subseteq Classes /\ seen \in Seq(RowType)
    BY <2>2, ValuesOfClasses DEF SeenInv, ClassesSeen
  <2>4. CASE ~ Spilled
    <3>1. emitted = <<groups>> /\ round_num = 0
      BY <2>2, <2>4 DEF EmittedInv, Spilled
    <3>2. 0 .. round_num = {round_num}
      BY <3>1
    <3>3. Represents(groups, Classes, Vals, part, 0 .. round_num)
      BY <2>2, <3>2, Zenon
    <3>4. /\ DOMAIN groups = Classes \cap ClassesSeen
          /\ \A c \in DOMAIN groups : \A a \in DOMAIN Aggs :
               Finalize(Aggs[a], groups[c].states[a]) = Reference(Aggs[a], RawOf(c))
      <4> DEFINE D == Classes
                 table == groups
                 R == 0 .. round_num
      <4>1. D \in SUBSET Classes /\ Represents(table, D, Vals, part, R)
        BY <3>3
      <4> HIDE DEF D, table, R
      <4>2. IsReference(table, seen, D)
        BY <2>2, <2>3, <4>1, TableIsReference DEF Vals, R
      <4> QED BY <4>2 DEF D, table, IsReference, ClassesSeen, RawOf
    <3>5. DOMAIN emitted = {1} /\ emitted[1] = groups
      BY <3>1
    <3>6. EachGroupOnce
      BY <3>5 DEF EachGroupOnce
    <3>7. UNION {DOMAIN emitted[i] : i \in DOMAIN emitted} = ClassesSeen
      BY <2>3, <3>4, <3>5
    <3> QED BY <3>4, <3>5, <3>6, <3>7 DEF GroupsAsReference
  <2>5. CASE Spilled
    <3>1. /\ emitted \in Seq(Tables) /\ Len(emitted) = NumBuckets /\ NumBuckets \in Nat
          /\ \A k \in 1 .. NumBuckets : Represents(emitted[k], InBuckets(k - 1), Vals, part, 0 .. round_num)
      BY <2>2, <2>5, AggregateAssumption DEF EmittedInv
    <3>2. DOMAIN emitted = 1 .. NumBuckets
      BY <3>1
    <3>3. \A k \in 1 .. NumBuckets : k - 1 \in Buckets
      BY <3>1 DEF Buckets
    <3>4. \A b \in Buckets : b + 1 \in 1 .. NumBuckets /\ (b + 1) - 1 = b
      BY <3>1 DEF Buckets
    <3>5. ASSUME NEW k \in DOMAIN emitted
          PROVE  /\ DOMAIN emitted[k] = InBuckets(k - 1) \cap ClassesSeen
                 /\ \A c \in DOMAIN emitted[k] : \A a \in DOMAIN Aggs :
                      Finalize(Aggs[a], emitted[k][c].states[a]) = Reference(Aggs[a], RawOf(c))
      <4> DEFINE D == InBuckets(k - 1)
                 table == emitted[k]
                 R == 0 .. round_num
      <4>1. D \in SUBSET Classes /\ Represents(table, D, Vals, part, R)
        BY <3>1, <3>2 DEF InBuckets, ClassesAt
      <4> HIDE DEF D, table, R
      <4>2. IsReference(table, seen, D)
        BY <2>2, <2>3, <4>1, TableIsReference DEF Vals, R
      <4> QED BY <4>2 DEF D, table, IsReference, ClassesSeen, RawOf
    <3>6. UNION {DOMAIN emitted[i] : i \in DOMAIN emitted} = ClassesSeen
      <4>1. ASSUME NEW c \in ClassesSeen
            PROVE  \E k \in DOMAIN emitted : c \in DOMAIN emitted[k]
        <5>1. PICK b \in Buckets : c \in InBuckets(b)
          BY <2>3, BucketsApart
        <5> DEFINE k == b + 1
        <5>2. k \in DOMAIN emitted /\ k - 1 = b
          BY <3>2, <3>4
        <5>3. c \in InBuckets(k - 1)
          BY <5>1, <5>2
        <5> HIDE DEF k
        <5> QED BY <3>5, <5>2, <5>3
      <4> QED BY <3>5, <4>1
    <3>7. EachGroupOnce
      <4> SUFFICES ASSUME NEW i \in DOMAIN emitted, NEW j \in DOMAIN emitted, i # j
                   PROVE  DOMAIN emitted[i] \cap DOMAIN emitted[j] = {}
        BY DEF EachGroupOnce
      <4>1. i - 1 \in Buckets /\ j - 1 \in Buckets /\ i - 1 # j - 1
        BY <3>1, <3>2, <3>3
      <4>2. InBuckets(i - 1) \cap InBuckets(j - 1) = {}
        BY <4>1, BucketsApart
      <4> QED BY <3>5, <4>2
    <3> QED BY <3>5, <3>6, <3>7 DEF GroupsAsReference
  <2> QED BY <2>4, <2>5
<1>2. Spec => []HashInv
  BY HashInductive
<1> QED BY <1>1, <1>2, PTL
=============================================================================
