------------------------------- MODULE GroupBy -------------------------------
(***************************************************************************)
(* group_by().agg() over partitions.  Every source partition is grouped by *)
(* a partial HashAggregateExec; its groups are exchanged by the hash of    *)
(* their keys; every target partition merges the states it reads.  The     *)
(* tasks of a stage run in any order.                                      *)
(*                                                                         *)
(* What one operator does with its rows is HashAggregate's subject: spills *)
(* change no states, but which of several equal keys stands for the group. *)
(* Here an operator's output has any of them.                              *)
(***************************************************************************)
EXTENDS GroupTables

CONSTANTS
  Hash,               \* _stable_hash, by key
  NumSources,         \* partitions of the child
  ShufflePartitions,  \* the values of execution.shuffle_partitions
  MaxRows             \* bound: rows of one source partition

ASSUME GroupByAssumption ==
  /\ Hash \in [Keys -> Nat]
  /\ NumSources \in Nat \ {0}
  /\ ShufflePartitions \subseteq Nat \ {0}
  /\ MaxRows \in Nat

VARIABLES
  shuffle_partitions,
  source,             \* the child's rows, by partition
  phase,              \* "write", "read", "done"
  blocks,             \* blocks[p][t]: the groups source p wrote for target t
  results             \* the groups of a target

query == <<shuffle_partitions, source>>
vars == <<query, phase, blocks, results>>

Sources == 1 .. NumSources
Targets == 0 .. shuffle_partitions - 1

\* A row of the child: its key and its value of the column.
Row == [key : Keys, raw : [1 .. 1 -> Values]]

AllRows == FlattenSeq(source)

Init ==
  /\ shuffle_partitions \in ShufflePartitions
  /\ source \in [Sources -> BoundedSeq(Row, MaxRows)]
  /\ phase = "write"
  /\ blocks = [p \in {} |-> <<>>]
  /\ results = [t \in {} |-> <<>>]

-----------------------------------------------------------------------------
(* The stage that groups the sources and writes the shuffle.               *)

\* The keys the groups of these rows may end up with.
KeysOf(rows) ==
  {key \in [ClassesIn(rows) -> Keys] :
     \A c \in ClassesIn(rows) : \E i \in DOMAIN rows : rows[i].key = key[c] /\ Class[key[c]] = c}

\* The partial groups of a source, under these keys.
Grouped(rows, key) ==
  [c \in ClassesIn(rows) |-> [key |-> key[c], states |-> PartialStates(RawIn(rows, c))]]

\* HashPartitioner.partition_for.
PartitionFor(key) == Hash[key] % shuffle_partitions

\* The records of the block for target t.
ForTarget(table, t) ==
  [c \in {d \in DOMAIN table : PartitionFor(table[d].key) = t} |-> table[c]]

WriteSource(p) ==
  /\ phase = "write"
  /\ p \notin DOMAIN blocks
  /\ \E key \in KeysOf(source[p]) :
       LET table == Grouped(source[p], key) IN
       blocks' = [q \in DOMAIN blocks \union {p} |->
                    IF q = p THEN [t \in Targets |-> ForTarget(table, t)] ELSE blocks[q]]
  /\ phase' = IF DOMAIN blocks' = Sources THEN "read" ELSE "write"
  /\ UNCHANGED <<query, results>>

-----------------------------------------------------------------------------
(* The stage that reads the shuffle and merges the groups.                 *)

\* Blocks are registered, and so read, in the order of the source partitions.
ReadTarget(t) ==
  /\ phase = "read"
  /\ t \notin DOMAIN results
  /\ results' = [u \in DOMAIN results \union {t} |->
                   IF u = t THEN MergeFiles(NoGroups, [p \in Sources |-> blocks[p][t]])
                            ELSE results[u]]
  /\ phase' = IF DOMAIN results' = Targets THEN "done" ELSE "read"
  /\ UNCHANGED <<query, blocks>>

Next ==
  \/ \E p \in Sources : WriteSource(p)
  \/ \E t \in Targets : ReadTarget(t)

Spec == Init /\ [][Next]_vars

-----------------------------------------------------------------------------
(* Properties.                                                             *)

\* What collect() returns is SQL's GROUP BY of the whole dataset: every key
\* that occurs in one row of the result, from one target only, with each
\* aggregate as over the raw rows of all sources, though no task ever saw
\* those.  Sources without a row of the group, targets without a group, nulls
\* and equal keys that differ are no exception.
CollectsTheGroups ==
  phase = "done" =>
    /\ \A t, u \in Targets : t # u => DOMAIN results[t] \cap DOMAIN results[u] = {}
    /\ UNION {DOMAIN results[t] : t \in Targets} = ClassesIn(AllRows)
    /\ \A t \in Targets : \A c \in DOMAIN results[t] : \A i \in DOMAIN Aggs :
         Finalize(Aggs[i], results[t][c].states[i]) = Reference(Aggs[i], RawIn(AllRows, c))
=============================================================================
