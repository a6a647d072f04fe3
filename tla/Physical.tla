------------------------------ MODULE Physical ------------------------------
(***************************************************************************)
(* From a logical plan to its partitions' rows: the planner's translation, *)
(* the split into stages at the exchanges, and what one task computes.     *)
(* Rows are in the order Python yields them when nothing is spilled.       *)
(***************************************************************************)
EXTENDS Sources, Ranges

CONSTANT Hash(_)    \* _stable_hash of a key, a sequence of nullable values

-----------------------------------------------------------------------------
(* Nodes.                                                                  *)

ScanExec(scan) == [op |-> "ScanExec", scan |-> scan]
FilterExec(child, condition) == [op |-> "FilterExec", child |-> child, condition |-> condition]
ProjectExec(child, columns) == [op |-> "ProjectExec", child |-> child, columns |-> columns]
HashAggregateExec(child, group_by, aggregates, is_partial) ==
  [op |-> "HashAggregateExec", child |-> child, group_by |-> group_by,
   aggregates |-> aggregates, is_partial |-> is_partial]
ExchangeExec(child, num_partitions, partition_exprs, is_broadcast, range_boundaries) ==
  [op |-> "ExchangeExec", child |-> child, num_partitions |-> num_partitions,
   partition_exprs |-> partition_exprs, is_broadcast |-> is_broadcast,
   range_boundaries |-> range_boundaries]
HashJoinExec(left, right, on) == [op |-> "HashJoinExec", left |-> left, right |-> right, on |-> on]
SortExec(child, keys, ascending) ==
  [op |-> "SortExec", child |-> child, keys |-> keys, ascending |-> ascending]
ShuffleWriteExec(exchange, child) ==
  [op |-> "ShuffleWriteExec", child |-> child, num_partitions |-> exchange.num_partitions,
   partition_exprs |-> exchange.partition_exprs,
   range_boundaries |-> exchange.range_boundaries]
ShuffleReadExec(stage, broadcast) ==
  [op |-> "ShuffleReadExec", from |-> stage, broadcast |-> broadcast]

ColumnExprs(names) == [i \in DOMAIN names |-> Column(names[i])]

-----------------------------------------------------------------------------
(* What an operator makes of its rows.                                     *)

AggState == "__agg_state"

StateOf(group, aggregates, rows) ==
  [i \in DOMAIN aggregates |->
     FoldLeft(LAMBDA state, row : Agg!Update(aggregates[i].fn, state,
                                             Evaluate(aggregates[i].expr, row)),
              Agg!Initialize(aggregates[i].fn), rows)]

\* Mutant: the states that come in are not merged, the last one stays.
MergedLast(aggregates, rows) == Last(rows)[AggState]

MergedState(aggregates, rows) ==
  [i \in DOMAIN aggregates |->
     FoldLeft(LAMBDA state, row : Agg!Merge(aggregates[i].fn, state, row[AggState][i]),
              Head(rows)[AggState][i], Tail(rows))]

Finalized(aggregates, state) ==
  [n \in Range(OutputNames(aggregates)) |->
     LET i == CHOOSE j \in DOMAIN aggregates : aggregates[j].name = n
     IN AsValue(aggregates[i].fn, Agg!Finalize(aggregates[i].fn, state[i]))]

\* _execute_hash_aggregate_partition, a pass over raw rows or over states.
HashAggregateRows(plan, rows) ==
  LET keys == [i \in DOMAIN rows |-> GroupKey(plan.group_by, rows[i])]
      groups == SelectSeq([i \in DOMAIN rows |-> i],
                          LAMBDA i : \A j \in 1 .. i - 1 : keys[j] # keys[i])
      of(key) == SelectSeq(rows, LAMBDA row : GroupKey(plan.group_by, row) = key)
      output(key) ==
        IF plan.is_partial
          THEN key @@ [n \in {AggState} |-> StateOf(key, plan.aggregates, of(key))]
          ELSE key @@ Finalized(plan.aggregates, MergedState(plan.aggregates, of(key)))
      raises == plan.is_partial /\ \E row \in Range(rows), a \in Range(plan.aggregates) :
                                      Evaluate(a.expr, row) = Raise
  IN IF raises THEN Raised ELSE [g \in DOMAIN groups |-> output(keys[groups[g]])]

OneChild(plan, rows) ==
  CASE rows = Raised                  -> Raised
    [] plan.op = "FilterExec"         -> FilterRows(plan.condition, rows)
    [] plan.op = "ProjectExec"        -> ProjectRows(plan.columns, rows)
    [] plan.op = "HashAggregateExec"  -> HashAggregateRows(plan, rows)
    [] plan.op = "SortExec"           -> SortedRows(plan.keys, plan.ascending, rows)

\* The blocks _resolve_shuffle_blocks gives a task, in the order of their
\* source partitions.
ReadShuffle(shuffles, leaf, p) ==
  FlattenSeq([q \in DOMAIN shuffles[leaf.from + 1] |->
                shuffles[leaf.from + 1][q][IF leaf.broadcast THEN 0 ELSE p]])

\* execute_partition; a stage's shuffle is a sequence, by source partition,
\* of the rows for every target.
RECURSIVE ExecutePartition(_, _, _)
ExecutePartition(plan, p, shuffles) ==
  CASE plan.op = "ScanExec"        -> ReadPartition(plan.scan, p)
    [] plan.op = "ShuffleReadExec" -> ReadShuffle(shuffles, plan, p)
    [] plan.op = "HashJoinExec"    ->
         LET left == ExecutePartition(plan.left, p, shuffles)
             right == ExecutePartition(plan.right, p, shuffles)
         IN IF Raised \in {left, right} THEN Raised ELSE JoinRows(plan.on, left, right)
    [] OTHER -> OneChild(plan, ExecutePartition(plan.child, p, shuffles))

-----------------------------------------------------------------------------
(* _translate.  A result is a plan, or <<>> if planning raises.            *)

NoPlan == <<>>

\* _is_oracle_executable.  Mutant: whatever the child is.
AlwaysExecutable(plan) == TRUE

RECURSIVE IsOracleExecutable(_)
IsOracleExecutable(plan) ==
  \/ plan.op = "ScanExec"
  \/ plan.op \in {"FilterExec", "ProjectExec"} /\ IsOracleExecutable(plan.child)

\* execute(): the whole dataset, of scans, filters and projections only.
RECURSIVE Execute(_)
Execute(plan) ==
  CASE plan.op = "ScanExec" ->
         FlattenSeq([i \in 1 .. NumPartitionsOf(plan.scan) |-> ReadPartition(plan.scan, i - 1)])
    [] plan.op \in {"FilterExec", "ProjectExec"} -> OneChild(plan, Execute(plan.child))
    [] OTHER -> Raised

\* The part of _plan_sort that looks at data: what the exchange is to be.
\* Boundaries are None or as in Ranges.
SortExchange(sort, local_sort, key_type, shuffle_partitions) ==
  LET name == sort.keys[1]
      asc == sort.ascending[1]
      key == IF asc THEN Column(name) ELSE Binary(Column(name), "*", Literal(<<-1>>))
      signed(v) == IF asc THEN v[1] ELSE - v[1]
      single == ExchangeExec(local_sort, 1, <<Column(name)>>, FALSE, None)
      ranged(values) ==
        ExchangeExec(local_sort, shuffle_partitions, <<key>>, FALSE,
                     <<RangeBoundaries(shuffle_partitions, Min(values), Max(values))>>)
  IN IF \/ shuffle_partitions <= 1
        \/ key_type \notin {"int", "float"}
        \/ ~ IsOracleExecutable(local_sort.child)
       THEN single
     ELSE LET rows == Execute(local_sort.child)
              values == {signed(row[name]) : row \in {r \in Range(rows) : r[name] # Null}}
          IN IF rows = Raised THEN NoPlan
             ELSE IF values = {} THEN single ELSE ranged(values)

PlanSort(sort, child, shuffle_partitions) ==
  LET exchange == SortExchange(sort, SortExec(child, sort.keys, sort.ascending),
                               ColumnType(sort.child, sort.keys[1]), shuffle_partitions)
  IN IF exchange = NoPlan THEN NoPlan ELSE SortExec(exchange, sort.keys, sort.ascending)

PlanAggregate(agg, child, shuffle_partitions) ==
  LET partial == HashAggregateExec(child, agg.group_by, agg.aggregates, TRUE)
  IN HashAggregateExec(ExchangeExec(partial, shuffle_partitions, ColumnExprs(agg.group_by),
                                    FALSE, None),
                       agg.group_by, agg.aggregates, FALSE)

PlanJoin(join, left, right, shuffle_partitions) ==
  LET keys == <<Column(join.on)>> IN
  IF join.broadcast
    THEN HashJoinExec(left, ExchangeExec(right, 1, keys, TRUE, None), join.on)
    ELSE HashJoinExec(ExchangeExec(left, shuffle_partitions, keys, FALSE, None),
                      ExchangeExec(right, shuffle_partitions, keys, FALSE, None), join.on)

RECURSIVE Translate(_, _)
Translate(node, shuffle_partitions) ==
  IF node.op = "scan" THEN ScanExec(node)
  ELSE IF node.op = "join"
    THEN LET left == Translate(node.left, shuffle_partitions)
             right == Translate(node.right, shuffle_partitions)
         IN IF NoPlan \in {left, right} THEN NoPlan
            ELSE PlanJoin(node, left, right, shuffle_partitions)
  ELSE LET child == Translate(node.child, shuffle_partitions)
       IN CASE child = NoPlan        -> NoPlan
            [] node.op = "filter"    -> FilterExec(child, node.condition)
            [] node.op = "project"   -> ProjectExec(child, node.columns)
            [] node.op = "aggregate" -> PlanAggregate(node, child, shuffle_partitions)
            [] node.op = "sort"      -> PlanSort(node, child, shuffle_partitions)

-----------------------------------------------------------------------------
(* build_stages: a list of stages, each its plan and number of partitions; *)
(* a stage's id is its place in the list, counting from 0.                 *)

Stage(plan, num_partitions) == [plan |-> plan, num_partitions |-> num_partitions]

\* Mutant: the join has the right side's partitions.
JoinPartitionsRight(left, right) == right

\* _split of a join: the left side's partitions, 1 for a broadcast right side.
JoinPartitions(left, right) == left

\* The stages closed so far, and the fragment of the stage still open.
RECURSIVE Split(_, _)
Split(plan, stages) ==
  CASE plan.op = "ScanExec" ->
         [stages |-> stages, open |-> Stage(plan, NumPartitionsOf(plan.scan))]
    [] plan.op = "ExchangeExec" ->
         LET child == Split(plan.child, stages)
             write == Stage(ShuffleWriteExec(plan, child.open.plan), child.open.num_partitions)
         IN [stages |-> Append(child.stages, write),
             open |-> Stage(ShuffleReadExec(Len(child.stages), plan.is_broadcast),
                            plan.num_partitions)]
    [] plan.op = "HashJoinExec" ->
         LET left == Split(plan.left, stages)
             right == Split(plan.right, left.stages)
         IN [stages |-> right.stages,
             open |-> Stage(HashJoinExec(left.open.plan, right.open.plan, plan.on),
                            JoinPartitions(left.open.num_partitions,
                                           right.open.num_partitions))]
    [] OTHER ->
         LET child == Split(plan.child, stages)
         IN [child EXCEPT !.open.plan = [plan EXCEPT !.child = child.open.plan]]

StagesOf(plan) == LET split == Split(plan, <<>>) IN Append(split.stages, split.open)

-----------------------------------------------------------------------------
(* _execute_shuffle_write_task.                                            *)

TargetFor(write, row) ==
  LET key == [i \in DOMAIN write.partition_exprs |-> Evaluate(write.partition_exprs[i], row)]
  IN IF write.range_boundaries = None THEN Hash(key) % write.num_partitions
     ELSE RangePartitionFor(write.range_boundaries[1], write.num_partitions, key[1][1])

\* Neither -1 * None nor a comparison of None with a boundary is defined.
HasNoTarget(write, row) ==
  write.range_boundaries # None
  /\ Evaluate(write.partition_exprs[1], row) \in {Null, Raise}

\* What a task of a stage returns: rows, or the blocks it has written.
RunTask(stage, p, shuffles) ==
  IF stage.plan.op # "ShuffleWriteExec" THEN ExecutePartition(stage.plan, p, shuffles)
  ELSE LET rows == ExecutePartition(stage.plan.child, p, shuffles)
       IN IF rows = Raised \/ \E row \in Range(rows) : HasNoTarget(stage.plan, row)
            THEN Raised
            ELSE [t \in 0 .. stage.plan.num_partitions - 1 |->
                    SelectSeq(rows, LAMBDA row : TargetFor(stage.plan, row) = t)]
=============================================================================
