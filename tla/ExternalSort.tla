---------------------------- MODULE ExternalSort ----------------------------
(***************************************************************************)
(* _execute_sort_partition: sort one partition's rows.  Rows gather in a   *)
(* buffer; when its estimated size reaches the threshold the buffer is     *)
(* sorted into a run on disk.  If there are runs, the result is the merge  *)
(* (heapq.merge) of them and of what is left in the buffer.                *)
(***************************************************************************)
EXTENDS SortOrder

CONSTANTS
  Ascending,    \* plan.ascending: one flag per sort expression
  Values,       \* the nullable values that occur
  NullBytes,    \* getsizeof(None)
  ValueBytes,   \* getsizeof of anything else
  Thresholds,   \* the values of plan.spill_threshold_bytes
  MaxRows       \* bound: rows in the partition

ASSUME SortAssumption ==
  /\ Ascending \in Seq(BOOLEAN)
  /\ \A v \in Values : v = <<>> \/ v \in [1 .. 1 -> Int]
  /\ {NullBytes, ValueBytes, MaxRows} \union Thresholds \subseteq Nat

VARIABLES
  threshold,
  seen,           \* the rows taken from the child so far
  phase,          \* "accumulate", "unread", "emit", "done", "closed", "raised"
  buffer,         \* (seq, record) pairs
  buffer_bytes,
  spill_files,    \* the sorted runs on disk, in the order of spill_paths
  unread,         \* what each run still holds, the final one first
  out             \* the pairs whose records the generator has yielded; `seq`
                  \* stands for a record's other columns

vars == <<threshold, seen, phase, buffer, buffer_bytes, spill_files, unread, out>>

Exprs == DOMAIN Ascending
Row == [Exprs -> Values]

\* _estimate_record_bytes, of a row that has no other columns.
RecordBytes(row) ==
  NullBytes * Cardinality({e \in Exprs : row[e] = Null})
    + ValueBytes * Cardinality({e \in Exprs : row[e] # Null})

Init ==
  /\ threshold \in Thresholds
  /\ seen = <<>>
  /\ phase = "accumulate"
  /\ buffer = <<>>
  /\ buffer_bytes = 0
  /\ spill_files = <<>>
  /\ unread = <<>>
  /\ out = <<>>

-----------------------------------------------------------------------------
ConsumeRow(row) ==
  /\ phase = "accumulate"
  /\ Len(seen) < MaxRows
  /\ seen' = Append(seen, row)
  /\ LET filled == Append(buffer, [seq |-> Len(seen), row |-> row])
         bytes == buffer_bytes + RecordBytes(row)
     IN IF bytes >= threshold
          THEN /\ spill_files' = Append(spill_files, SortRows(Ascending, filled))
               /\ buffer' = <<>>
               /\ buffer_bytes' = 0
          ELSE /\ buffer' = filled
               /\ buffer_bytes' = bytes
               /\ UNCHANGED spill_files
  /\ UNCHANGED <<threshold, phase, unread, out>>

ChildRaises ==
  /\ phase = "accumulate"
  /\ phase' = "raised"
  /\ UNCHANGED <<threshold, seen, buffer, buffer_bytes, spill_files, unread, out>>

\* The child is exhausted; the Partition is returned, its generator unread.
InputEnds ==
  /\ phase = "accumulate"
  /\ phase' = "unread"
  /\ unread' = <<SortRows(Ascending, buffer)>> \o spill_files
  /\ UNCHANGED <<threshold, seen, buffer, buffer_bytes, spill_files, out>>

\* heapq.merge: the run whose head has the least key, the first such run if
\* keys are equal.  Without a spill the one run is replayed.
Heads == {r \in DOMAIN unread : unread[r] # <<>>}
NextRun(r) ==
  /\ r \in Heads
  /\ \A q \in Heads :
        LET mine == CompositeKey(Ascending, Head(unread[r]))
            other == CompositeKey(Ascending, Head(unread[q]))
        IN ~ LexLess(other, mine) /\ (q < r => LexLess(mine, other))

YieldRow ==
  /\ phase \in {"unread", "emit"}
  /\ phase' = "emit"
  /\ \E r \in Heads :
        /\ NextRun(r)
        /\ out' = Append(out, Head(unread[r]))
        /\ unread' = [unread EXCEPT ![r] = Tail(@)]
  /\ UNCHANGED <<threshold, seen, buffer, buffer_bytes, spill_files>>

\* The last row was yielded, and the finally clause runs.
ExhaustGenerator ==
  /\ phase \in {"unread", "emit"}
  /\ Heads = {}
  /\ phase' = "done"
  /\ spill_files' = <<>>
  /\ UNCHANGED <<threshold, seen, buffer, buffer_bytes, unread, out>>

\* Mutant: the cleanup follows the loop instead of being its finally clause.
CloseWithoutFinally ==
  /\ phase \in {"unread", "emit"}
  /\ phase' = "closed"
  /\ UNCHANGED <<threshold, seen, buffer, buffer_bytes, spill_files, unread, out>>

\* The consumer drops the generator early: its own code raised, or, while it
\* is still unread, the other side of a broadcast join did.  A generator that
\* was never started has no finally clause to run.
CloseGenerator ==
  /\ phase \in {"unread", "emit"}
  /\ phase' = "closed"
  /\ spill_files' = IF phase = "emit" THEN <<>> ELSE spill_files
  /\ UNCHANGED <<threshold, seen, buffer, buffer_bytes, unread, out>>

Next ==
  \/ \E row \in Row : ConsumeRow(row)
  \/ ChildRaises
  \/ InputEnds
  \/ YieldRow
  \/ ExhaustGenerator
  \/ CloseGenerator

Spec == Init /\ [][Next]_vars

-----------------------------------------------------------------------------
(* Properties.                                                             *)

Sorted == OrderedBy(Ascending, seen)

\* At every moment the rows yielded are the first rows of one stable sort of
\* all the input, whether and wherever the buffer was spilled, with nulls
\* and with ties across runs; a generator read to its end yields all of them.
StreamsTheStableSort ==
  /\ phase \in {"emit", "done", "closed"} => IsPrefix(out, Sorted)
  /\ phase = "done" => Len(out) = Len(seen)

\* docs/spilling.md: the spill directory is removed in a finally block that
\* runs even if the generator is closed early.  So it is once a row has been
\* yielded.  The directory stays if the generator is dropped before that, or
\* if the child raises after a spill (README, section 4).
SpillDirRemoved ==
  phase = "done" \/ (phase = "closed" /\ out # <<>>) => spill_files = <<>>
=============================================================================
