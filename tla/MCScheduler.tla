---------------------------- MODULE MCScheduler ----------------------------
(* Plans for checking Scheduler: the stage lists that build_stages makes    *)
(* of small queries, with few partitions.                                   *)
EXTENDS Scheduler

\* A group_by's result joined with the broadcast of another's.  Stage 0 is the
\* left side's partial aggregation, 1 the right side's, 2 its final one and the
\* broadcast side, 3 the left side's final aggregation and the join.
QueryParts == (0 :> 1) @@ (1 :> 1) @@ (2 :> 2) @@ (3 :> 2)
QueryReads == (0 :> {}) @@ (1 :> {}) @@ (2 :> {[from |-> 1, broadcast |-> FALSE]})
              @@ (3 :> {[from |-> 0, broadcast |-> FALSE], [from |-> 2, broadcast |-> TRUE]})
QueryEmits == (0 :> (0 :> {0, 1})) @@ (1 :> (0 :> {0, 1})) @@ (2 :> (0 :> {0} @@ 1 :> {0}))
              @@ (3 :> (0 :> {} @@ 1 :> {}))

\* A broadcast join: stage 0 is the broadcast side, read by both tasks of 1.
BroadcastParts == (0 :> 2) @@ (1 :> 2)
BroadcastReads == (0 :> {}) @@ (1 :> {[from |-> 0, broadcast |-> TRUE]})
BroadcastEmits == (0 :> (0 :> {0} @@ 1 :> {0})) @@ (1 :> (0 :> {} @@ 1 :> {}))
=============================================================================
