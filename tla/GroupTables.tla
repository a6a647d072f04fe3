----------------------------- MODULE GroupTables -----------------------------
(***************************************************************************)
(* The tables of a GROUP BY: the dict of _execute_hash_aggregate_partition *)
(* and what its rows, spill files and shuffle blocks hold.  A table has by *)
(* class of equal keys the key first inserted and the aggregates' states.  *)
(***************************************************************************)
EXTENDS Aggregates, SequencesExt

CONSTANTS
  Aggs,         \* plan.aggregates, all over the same column
  Keys,         \* the group-by keys that occur
  Class,        \* equal keys have the same class
  Values        \* the nullable values that occur in the column

ASSUME GroupAssumption ==
  /\ Aggs \in Seq(AggregateFunction)
  /\ DOMAIN Class = Keys
  /\ \A v \in Values : v = Null \/ v \in [1 .. 1 -> Int]

Classes == {Class[k] : k \in Keys}

\* The states a map-side task made of these values.
PartialStates(raw) ==
  [i \in DOMAIN Aggs |->
     FoldLeft(LAMBDA state, v : Update(Aggs[i], state, v), Initialize(Aggs[i]), raw)]

MergeStates(a, b) == [i \in DOMAIN Aggs |-> Merge(Aggs[i], a[i], b[i])]

NoGroups == [c \in {} |-> c]

Set(table, class, entry) ==
  [c \in DOMAIN table \union {class} |-> IF c = class THEN entry ELSE table[c]]

\* Mutant: the states read last replace those of a known group.
ReplaceIn(table, class, entry) == Set(table, class, entry)

\* A table with an entry merged in; a dict keeps the key it has.
MergeInto(table, class, entry) ==
  Set(table, class,
      IF class \in DOMAIN table
        THEN [key |-> table[class].key, states |-> MergeStates(table[class].states, entry.states)]
        ELSE entry)

\* A table with all entries of a file merged in, and of files one by one.
MergeFile(table, file) ==
  FoldSet(LAMBDA c, t : MergeInto(t, c, file[c]), table, DOMAIN file)

MergeFiles(table, files) == FoldLeft(MergeFile, table, files)

-----------------------------------------------------------------------------
\* The raw values behind the rows of a class, in the order of the rows.
RawIn(rows, class) ==
  FlattenSeq([i \in DOMAIN rows |->
                IF Class[rows[i].key] = class THEN rows[i].raw ELSE <<>>])

ClassesIn(rows) == {Class[rows[i].key] : i \in DOMAIN rows}
=============================================================================
