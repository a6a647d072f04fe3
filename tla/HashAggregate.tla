---------------------------- MODULE HashAggregate ----------------------------
(***************************************************************************)
(* _execute_hash_aggregate_partition: group one partition's rows in a hash *)
(* table.  When the table's estimated size reaches the threshold, all of   *)
(* it is written to spill files, one per bucket of the key's hash, and     *)
(* accumulation starts over; the result then comes from merging the files  *)
(* and what is left in memory, one bucket at a time.                       *)
(*                                                                         *)
(* A key has two faces: dict lookups go by equality, modelled by Class,    *)
(* while HashPartitioner goes by the key's repr, modelled by Bucket.       *)
(***************************************************************************)
EXTENDS GroupTables

CONSTANTS
  Bucket,       \* HashPartitioner(NumBuckets).partition_for, by key
  NumBuckets,   \* _AGGREGATE_SPILL_BUCKETS
  KeyBytes,     \* getsizeof, summed over the key
  NullBytes,    \* getsizeof(None)
  ValueBytes,   \* getsizeof of anything else
  Thresholds,   \* the values of plan.spill_threshold_bytes
  MaxRows,      \* bound: rows in the partition
  MaxFolded     \* bound: raw rows behind one row of partial states

ASSUME AggregateAssumption ==
  /\ NumBuckets \in Nat \ {0}
  /\ Bucket \in [Keys -> 0 .. NumBuckets - 1]
  /\ KeyBytes \in [Keys -> Nat]
  /\ {NullBytes, ValueBytes, MaxRows, MaxFolded} \union Thresholds \subseteq Nat

VARIABLES
  is_partial,     \* plan.is_partial
  threshold,      \* plan.spill_threshold_bytes
  seen,           \* the rows taken from the child so far
  phase,          \* "accumulate", "unread", "emit", "done", "closed", "raised"
  groups,         \* by class: the key first inserted, and the states
  groups_bytes,
  spill_files,    \* the files in spill_dir, by <<round, bucket>>
  spill_paths,    \* by bucket
  round_num,
  bucket,         \* the bucket spilled_records_fn merges next
  emitted         \* the tables the rows came from, in order

plan == <<is_partial, threshold>>
vars == <<plan, seen, phase, groups, groups_bytes, spill_files,
          spill_paths, round_num, bucket, emitted>>

Buckets == 0 .. NumBuckets - 1
Spilled == round_num > 0

\* A row of the child: its key and the raw values folded into it, one for a
\* map-side input, several for a row of __agg_state columns.
Row(partial) ==
  [key : Keys, raw : UNION {[1 .. n -> Values] : n \in 1 .. IF partial THEN 1 ELSE MaxFolded}]

\* _estimate_group_bytes.  An Avg state is a pair, never None.
GroupBytes(key, states) ==
  KeyBytes[key]
    + MapThenSumSet(LAMBDA i : IF Aggs[i] \in Folds2 /\ states[i] = Null THEN NullBytes ELSE ValueBytes,
                    DOMAIN Aggs)

InBucket(table, b) ==
  [c \in {d \in DOMAIN table : Bucket[table[d].key] = b} |-> table[c]]

Init ==
  /\ is_partial \in BOOLEAN
  /\ threshold \in Thresholds
  /\ seen = <<>>
  /\ phase = "accumulate"
  /\ groups = NoGroups
  /\ groups_bytes = 0
  /\ spill_files = NoGroups
  /\ spill_paths = [b \in Buckets |-> <<>>]
  /\ round_num = 0
  /\ bucket = 0
  /\ emitted = <<>>

-----------------------------------------------------------------------------
(* The loop over the child's rows.                                         *)

\* The states of the row's group once the row is folded in.
NewStates(row) ==
  LET known == Class[row.key] \in DOMAIN groups
      old == IF known THEN groups[Class[row.key]].states ELSE PartialStates(<<>>)
  IN IF is_partial
       THEN [i \in DOMAIN Aggs |-> Update(Aggs[i], old[i], row.raw[1])]
       ELSE IF known THEN MergeStates(old, PartialStates(row.raw))
       ELSE PartialStates(row.raw)

\* Mutant: the old states of a known group stay counted.
BytesAfterOnlyAdding(row) == groups_bytes + GroupBytes(row.key, NewStates(row))

BytesAfter(row) ==
  LET class == Class[row.key] IN
  groups_bytes + GroupBytes(row.key, NewStates(row))
    - IF class \in DOMAIN groups THEN GroupBytes(row.key, groups[class].states) ELSE 0

GroupsAfter(row) ==
  LET class == Class[row.key] IN
  Set(groups, class,
      [key |-> IF class \in DOMAIN groups THEN groups[class].key ELSE row.key,
       states |-> NewStates(row)])

\* Mutant: the file name does not tell the rounds apart.
SpillSameNames(table) ==
  LET used == {b \in Buckets : DOMAIN InBucket(table, b) # {}} IN
  /\ spill_files' =
       [f \in DOMAIN spill_files \union {<<0, b>> : b \in used} |->
          IF f[2] \in used THEN InBucket(table, f[2]) ELSE spill_files[f]]
  /\ spill_paths' =
       [b \in Buckets |-> IF b \in used THEN Append(spill_paths[b], <<0, b>>)
                                        ELSE spill_paths[b]]
  /\ round_num' = round_num + 1

\* _spill_groups: a file for every bucket the table has keys in.
Spill(table) ==
  LET used == {b \in Buckets : DOMAIN InBucket(table, b) # {}} IN
  /\ spill_files' =
       [f \in DOMAIN spill_files \union {<<round_num, b>> : b \in used} |->
          IF f[1] = round_num THEN InBucket(table, f[2]) ELSE spill_files[f]]
  /\ spill_paths' =
       [b \in Buckets |-> IF b \in used THEN Append(spill_paths[b], <<round_num, b>>)
                                        ELSE spill_paths[b]]
  /\ round_num' = round_num + 1

ConsumeRow(row) ==
  /\ phase = "accumulate"
  /\ Len(seen) < MaxRows
  /\ seen' = Append(seen, row)
  /\ IF BytesAfter(row) >= threshold
       THEN /\ Spill(GroupsAfter(row))
            /\ groups' = NoGroups
            /\ groups_bytes' = 0
       ELSE /\ groups' = GroupsAfter(row)
            /\ groups_bytes' = BytesAfter(row)
            /\ UNCHANGED <<spill_files, spill_paths, round_num>>
  /\ UNCHANGED <<plan, phase, bucket, emitted>>

\* The child is exhausted; the Partition is returned, its generator unread.
InputEnds ==
  /\ phase = "accumulate"
  /\ phase' = "unread"
  /\ UNCHANGED <<plan, seen, groups, groups_bytes, spill_files,
                 spill_paths, round_num, bucket, emitted>>

\* The child raises while it is read, and the exception goes through.
ChildRaises ==
  /\ phase = "accumulate"
  /\ phase' = "raised"
  /\ UNCHANGED <<plan, seen, groups, groups_bytes, spill_files,
                 spill_paths, round_num, bucket, emitted>>

-----------------------------------------------------------------------------
(* The generator.                                                          *)

\* records_fn: without a spill the table is replayed.
EmitTable ==
  /\ phase = "unread"
  /\ ~ Spilled
  /\ emitted' = <<groups>>
  /\ phase' = "done"
  /\ UNCHANGED <<plan, seen, groups, groups_bytes, spill_files,
                 spill_paths, round_num, bucket>>

\* Everything of one bucket: what is left in memory, then the bucket's files.
Merged(b) ==
  MergeFiles(InBucket(groups, b),
             [i \in DOMAIN spill_paths[b] |-> spill_files[spill_paths[b][i]]])

EmitBucket ==
  /\ phase \in {"unread", "emit"}
  /\ Spilled
  /\ bucket < NumBuckets
  /\ emitted' = Append(emitted, Merged(bucket))
  /\ bucket' = bucket + 1
  /\ phase' = "emit"
  /\ UNCHANGED <<plan, seen, groups, groups_bytes, spill_files,
                 spill_paths, round_num>>

\* The finally clause of spilled_records_fn, after the last row.
ExhaustGenerator ==
  /\ phase = "emit"
  /\ bucket = NumBuckets
  /\ spill_files' = NoGroups
  /\ phase' = "done"
  /\ UNCHANGED <<plan, seen, groups, groups_bytes, spill_paths, round_num,
                 bucket, emitted>>

\* The consumer drops the generator: its own code raised, or, while it is
\* still unread, the other side of a join did.  A generator that was never
\* started has no finally clause to run.
DropGenerator ==
  /\ phase \in {"unread", "emit"}
  /\ spill_files' = IF phase = "emit" THEN NoGroups ELSE spill_files
  /\ phase' = "closed"
  /\ UNCHANGED <<plan, seen, groups, groups_bytes, spill_paths, round_num,
                 bucket, emitted>>

Next ==
  \/ \E row \in Row(is_partial) : ConsumeRow(row)
  \/ InputEnds
  \/ ChildRaises
  \/ EmitTable
  \/ EmitBucket
  \/ ExhaustGenerator
  \/ DropGenerator

Spec == Init /\ [][Next]_vars

-----------------------------------------------------------------------------
(* Properties.                                                             *)

RawOf(class) == RawIn(seen, class)
ClassesSeen == ClassesIn(seen)

\* partitioner.py: every row sharing a key lands in the same place, which is
\* what a reduce-side aggregate depends on; here, in the same bucket.
EachGroupOnce ==
  \A i, j \in DOMAIN emitted : i # j => DOMAIN emitted[i] \cap DOMAIN emitted[j] = {}

\* The final rows are those of SQL's GROUP BY over the raw rows, each group
\* once, however often the table was spilled, whichever keys came back after
\* a spill, and with groups of nothing but nulls (README.md: the same result
\* whether or not spilling triggers).
GroupsAsReference ==
  phase = "done" =>
    /\ UNION {DOMAIN emitted[i] : i \in DOMAIN emitted} = ClassesSeen
    /\ EachGroupOnce
    /\ \A i \in DOMAIN emitted : \A c \in DOMAIN emitted[i] : \A a \in DOMAIN Aggs :
          Finalize(Aggs[a], emitted[i][c].states[a]) = Reference(Aggs[a], RawOf(c))

TableBytes(table) ==
  MapThenSumSet(LAMBDA c : GroupBytes(table[c].key, table[c].states), DOMAIN table)

\* groups_bytes, kept up to date row by row, is the size of the table: no
\* group is counted twice or dropped, also when equal keys differ in size.
BytesMatchTable == groups_bytes = TableBytes(groups)
=============================================================================
