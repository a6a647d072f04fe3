------------------------------ MODULE OrderBy ------------------------------
(***************************************************************************)
(* order_by over partitions.  The planner reads the data once to cut the   *)
(* range of the first sort key into shuffle_partitions ranges of the same  *)
(* width; every source partition is sorted and split among the ranges;     *)
(* every range is sorted again; the result is the ranges in their order.   *)
(*                                                                         *)
(* A row is that of SortOrder.  The tasks of the two stages run in any     *)
(* order, their results are taken in the order of the partitions.          *)
(***************************************************************************)
EXTENDS SortOrder, FiniteSetsExt, Ranges

CONSTANTS
  Directions,         \* the values of sort.ascending
  Values,             \* the nullable values of each sort expression
  NumSources,         \* partitions of the child
  ShufflePartitions,  \* the values of execution.shuffle_partitions
  MaxRows             \* bound: rows of one source partition

ASSUME OrderByAssumption ==
  /\ Directions \subseteq Seq(BOOLEAN) \ {<<>>}
  /\ \A e \in DOMAIN Values : \A v \in Values[e] : v = Null \/ v \in [1 .. 1 -> Int]
  /\ \A ascending \in Directions : DOMAIN ascending = DOMAIN Values
  /\ NumSources \in Nat \ {0}
  /\ ShufflePartitions \subseteq Nat \ {0}
  /\ MaxRows \in Nat

VARIABLES
  ascending,
  shuffle_partitions,
  rangeable,          \* the first key is numeric and _is_oracle_executable
  source,             \* the child's rows, by partition
  phase,              \* "plan", "write", "read", "done", "raised"
  range_boundaries,   \* <<>> is None; otherwise as in Ranges
  num_partitions,
  blocks,             \* blocks[p][t]: what source p wrote for target t
  results             \* by target

query == <<ascending, shuffle_partitions, rangeable, source>>
plan == <<range_boundaries, num_partitions>>
vars == <<query, phase, plan, blocks, results>>

Sources == 1 .. NumSources
Targets == 0 .. num_partitions - 1
Row == {row \in [DOMAIN Values -> UNION {Values[e] : e \in DOMAIN Values}] :
          \A e \in DOMAIN Values : row[e] \in Values[e]}
AllRows == FlattenSeq(source)

\* The rows of a source as pairs, tagged with their place in the dataset.
Tagged(p) ==
  LET before == Len(FlattenSeq(SubSeq(source, 1, p - 1)))
  IN [i \in DOMAIN source[p] |-> [seq |-> before + i - 1, row |-> source[p][i]]]

Init ==
  /\ ascending \in Directions
  /\ shuffle_partitions \in ShufflePartitions
  /\ rangeable \in BOOLEAN
  /\ source \in [Sources -> BoundedSeq(Row, MaxRows)]
  /\ phase = "plan"
  /\ range_boundaries = <<>>
  /\ num_partitions = 0
  /\ blocks = [p \in {} |-> <<>>]
  /\ results = [t \in {} |-> <<>>]

-----------------------------------------------------------------------------
(* Planning.                                                               *)

\* The values of the first key that compute_statistics takes into account.
KeyValues ==
  UNION {{row[1][1] : row \in {r \in Range(source[p]) : r[1] # Null}} : p \in Sources}

\* Mutant: a descending key is partitioned by the value itself.
SignedUnsigned(v) == v

\* partition_key: Multiply(primary_key, -1) if the key is descending.
Signed(v) == IF ascending[1] THEN v ELSE - v

Boundaries(lo, hi) == RangeBoundaries(shuffle_partitions, lo, hi)

PlanSort ==
  /\ phase = "plan"
  /\ phase' = "write"
  /\ IF shuffle_partitions > 1 /\ rangeable /\ KeyValues # {}
       THEN /\ range_boundaries' = Boundaries(Min({Signed(v) : v \in KeyValues}),
                                              Max({Signed(v) : v \in KeyValues}))
            /\ num_partitions' = shuffle_partitions
       ELSE /\ range_boundaries' = <<>>
            /\ num_partitions' = 1
  /\ UNCHANGED <<query, blocks, results>>

-----------------------------------------------------------------------------
(* The stage that sorts the sources and writes the shuffle.                *)

PartitionFor(key) == RangePartitionFor(range_boundaries, shuffle_partitions, key)

\* Without boundaries it is HashPartitioner(1), whatever the key.
Target(row) == IF range_boundaries = <<>> THEN 0 ELSE PartitionFor(Signed(row[1][1]))

\* Neither -1 * None nor a comparison of None with a boundary is defined.
HasNoTarget(row) == range_boundaries # <<>> /\ row[1] = Null

\* The records of a bucket, as they come.
Bucket(t, sorted) ==
  FlattenSeq([i \in DOMAIN sorted |->
                IF Target(sorted[i].row) = t THEN <<sorted[i]>> ELSE <<>>])

WriteSource(p) ==
  /\ phase = "write"
  /\ p \notin DOMAIN blocks
  /\ \A row \in Range(source[p]) : ~ HasNoTarget(row)
  /\ LET sorted == SortRows(ascending, Tagged(p)) IN
       blocks' = [q \in DOMAIN blocks \union {p} |->
                    IF q = p
                      THEN [t \in Targets |-> Bucket(t, sorted)]
                      ELSE blocks[q]]
  /\ phase' = IF DOMAIN blocks' = Sources THEN "read" ELSE "write"
  /\ UNCHANGED <<query, plan, results>>

\* The TypeError is the same in every attempt, and the query fails.
WriteRaises(p) ==
  /\ phase = "write"
  /\ p \notin DOMAIN blocks
  /\ \E row \in Range(source[p]) : HasNoTarget(row)
  /\ phase' = "raised"
  /\ UNCHANGED <<query, plan, blocks, results>>

-----------------------------------------------------------------------------
(* The stage that reads the shuffle and sorts each range.                  *)

\* Blocks are registered, and so read, in the order of the source partitions.
ReadTarget(t) ==
  /\ phase = "read"
  /\ t \notin DOMAIN results
  /\ LET read == FlattenSeq([p \in Sources |-> blocks[p][t]]) IN
       results' = [u \in DOMAIN results \union {t} |->
                     IF u = t THEN SortRows(ascending, read) ELSE results[u]]
  /\ phase' = IF DOMAIN results' = Targets THEN "done" ELSE "read"
  /\ UNCHANGED <<query, plan, blocks>>

Next ==
  \/ PlanSort
  \/ \E p \in Sources : WriteSource(p)
  \/ \E p \in Sources : WriteRaises(p)
  \/ \E t \in Targets : ReadTarget(t)

Spec == Init /\ [][Next]_vars

-----------------------------------------------------------------------------
(* Properties.                                                             *)

\* Dataset.iter_records over the partitions _results_to_dataset makes.
Collected == FlattenSeq([n \in 1 .. num_partitions |-> results[n - 1]])

\* What collect() returns is the one stable sort of the whole dataset: no row
\* lost between two ranges, the ranges in the order of the first key, in
\* either direction, and ties in the order of the source partitions, however
\* many partitions there are and wherever the boundaries fall.
CollectsTheStableSort ==
  phase = "done" => Collected = OrderedBy(ascending, AllRows)

\* What makes that so: RangePartitioner sends every key it accepts to one of
\* the partitions, and a key that comes first never to a later one.
RangesFollowTheOrder ==
  phase # "plan" =>
    \A r, s \in {row \in Row : ~ HasNoTarget(row)} :
      /\ Target(r) \in Targets
      /\ Precedes(<<ascending[1]>>, r, s) => Target(r) <= Target(s)

\* docs/shuffle.md: nulls always sort last, regardless of direction.  They
\* are sorted, then, and do not make the query fail.
NullsAreSorted == phase # "raised"
=============================================================================
