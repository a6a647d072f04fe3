------------------------------- MODULE Query -------------------------------
(***************************************************************************)
(* One query from the calls that build it to the rows collect() returns:   *)
(* DataFrame and MiniSparkSession around the parser, the optimizer, the    *)
(* planner, the stages and their tasks.  A stage runs in one step; that    *)
(* its tasks interleave, fail and are retried is the Scheduler's part.     *)
(***************************************************************************)
EXTENDS Optimizer, Physical, SqlMeaning, StageLists

CONSTANTS
  Readable,       \* the tables a DataFrame starts from
  Joinable,       \* those it is joined with
  Conditions, Projections, Groupings, Orders,    \* the arguments of filter,
                  \* select, group_by with agg, and order_by
  Statements,     \* the statements given to sql()
  Configs,        \* the values of predicate_pushdown, projection_pruning and
                  \* shuffle_partitions
  View,           \* the name that create_or_replace_temp_view is given
  MaxOperations,  \* bound: calls that build one query
  MayRedefine,    \* see Allowed
  MayMisread

VARIABLES
  shuffle_partitions,
  query,        \* DataFrame._plan
  operations,   \* how many calls have built it
  temp_views,   \* name -> plan
  statement,    \* what sql() was given, None if the query has other parts
  stages,       \* build_stages's list
  shuffles,     \* by stage that has run: by source partition, the rows for
                \* every target
  results       \* by partition of the last stage, its rows

config == <<flags, shuffle_partitions>>
user == <<query, operations, temp_views, statement>>
execution == <<stages, shuffles, results>>
vars == <<optimizerVars, shuffle_partitions, user, execution>>

TableScan(table) == Scan(table, Tables[table].columns)

(***************************************************************************)
(* Two things the engine gets wrong, each left to a run of its own: pruned *)
(* columns whose name was given to something else, and conditions that     *)
(* Parquet's reader takes for less than they are.                          *)
(***************************************************************************)
RECURSIVE Subplans(_)
Subplans(node) ==
  {node} \union CASE node.op = "scan" -> {}
                  [] node.op = "join" -> Subplans(node.left) \union Subplans(node.right)
                  [] OTHER            -> Subplans(node.child)

RECURSIVE Negates(_)
Negates(e) ==
  CASE e.op \in {"column", "literal"} -> FALSE
    [] IsBinary(e) -> \/ e.op = "!="
                      \/ e.op = "==" /\ e.left.op = "column" /\ e.right.op = "column"
                      \/ Negates(e.left) \/ Negates(e.right)
    [] OTHER       -> e.op = "not" \/ Negates(e.child)

Misread(plan1) ==
  /\ \E node \in Subplans(plan1) : node.op = "scan" /\ Tables[node.table].kind = "parquet"
  /\ \E node \in Subplans(plan1) : node.op = "filter" /\ Negates(node.condition)

Allowed(plan1) ==
  /\ MayRedefine \/ ~ Redefines(plan1)
  /\ MayMisread \/ ~ Misread(plan1)

-----------------------------------------------------------------------------
Init ==
  /\ \E c \in Configs : /\ predicate_pushdown = c.predicate_pushdown
                        /\ projection_pruning = c.projection_pruning
                        /\ shuffle_partitions = c.shuffle_partitions
  /\ \E table \in Readable : query = TableScan(table)
  /\ operations = 0
  /\ temp_views = [table \in Readable \union Joinable |-> TableScan(table)]
  /\ statement = None
  /\ plan = query
  /\ phase = "new"
  /\ iteration = 0
  /\ before = None
  /\ next_rule = <<>>
  /\ stages = <<>>
  /\ shuffles = <<>>
  /\ results = <<>>

(***************************************************************************)
(* Building a query.  Nothing is checked yet.                              *)
(***************************************************************************)
Transform(node) ==
  /\ phase = "new"
  /\ operations < MaxOperations
  /\ Allowed(node)
  /\ query' = node
  /\ plan' = node
  /\ operations' = operations + 1
  /\ statement' = None
  /\ UNCHANGED <<config, temp_views, phase, iteration, before, next_rule, execution>>

filter == \E condition \in Conditions : Transform(Filter(query, condition))
select == \E columns \in Projections : Transform(Project(query, columns))
agg == \E g \in Groupings : Transform(Aggregate(query, g.group_by, g.aggregates))
join == \E table \in Joinable, broadcast \in BOOLEAN :
          Transform(Join(query, TableScan(table), "a", broadcast))
order_by == \E o \in Orders : Transform(Sort(query, o.keys, o.ascending))

create_or_replace_temp_view ==
  /\ phase = "new"
  /\ operations < MaxOperations
  /\ temp_views' = [name \in DOMAIN temp_views \union {View} |->
                      IF name = View THEN query ELSE temp_views[name]]
  /\ operations' = operations + 1
  /\ statement' = None
  /\ UNCHANGED <<config, query, plan, phase, iteration, before, next_rule, execution>>

\* Bounds: the DataFrame is then not transformed any more, and once there is
\* a view the statements are those that use it.
sql(stmt) ==
  LET parsed == ParseSql(Render(stmt), temp_views) IN
  /\ phase = "new"
  /\ operations = IF stmt.from = View /\ View \in DOMAIN temp_views THEN operations ELSE 0
  /\ operations' = MaxOperations
  /\ statement' = <<stmt>>
  /\ IF parsed.ok
       THEN /\ Allowed(parsed.node)
            /\ query' = parsed.node
            /\ plan' = parsed.node
            /\ UNCHANGED phase
       ELSE /\ phase' = "unparsed"
            /\ UNCHANGED <<query, plan>>
  /\ UNCHANGED <<config, temp_views, iteration, before, next_rule, execution>>

(***************************************************************************)
(* An action: collect().                                                   *)
(***************************************************************************)
Analyze ==
  /\ phase = "new"
  /\ IF Valid(query)
       THEN StartOptimizing(query)
       ELSE /\ phase' = "rejected"
            /\ UNCHANGED <<plan, iteration, before, next_rule>>
  /\ UNCHANGED <<config, user, execution>>

OptimizeStep == Optimize /\ UNCHANGED <<shuffle_partitions, user, execution>>

\* plan_physical, which may evaluate expressions to cut a range, and
\* build_stages.
PlanStages ==
  /\ phase = "optimized"
  /\ plan' = ReadScans(plan, None, None)
  /\ LET physical == Translate(plan', shuffle_partitions) IN
       IF physical = NoPlan
         THEN /\ phase' = "raised"
              /\ UNCHANGED stages
         ELSE /\ phase' = "running"
              /\ stages' = StagesOf(physical)
  /\ UNCHANGED <<config, user, iteration, before, next_rule, shuffles, results>>

\* run_plan's loop over the stages, and _results_to_dataset.
RunStage ==
  /\ phase = "running"
  /\ LET stage == stages[Len(shuffles) + 1]
         outputs == [p \in 1 .. stage.num_partitions |-> RunTask(stage, p - 1, shuffles)]
     IN CASE Raised \in Range(outputs) ->
               /\ phase' = "raised"
               /\ UNCHANGED <<shuffles, results>>
          [] Raised \notin Range(outputs) /\ Len(shuffles) + 1 < Len(stages) ->
               /\ shuffles' = Append(shuffles, outputs)
               /\ UNCHANGED <<phase, results>>
          [] OTHER ->
               /\ results' = outputs
               /\ phase' = "done"
               /\ UNCHANGED shuffles
  /\ UNCHANGED <<config, user, plan, iteration, before, next_rule, stages>>

Next ==
  \/ filter \/ select \/ agg \/ join \/ order_by
  \/ create_or_replace_temp_view
  \/ \E stmt \in Statements : sql(stmt)
  \/ Analyze
  \/ OptimizeStep
  \/ PlanStages
  \/ RunStage

Spec == Init /\ [][Next]_vars

-----------------------------------------------------------------------------
(* Properties.                                                             *)

\* Every rule that rewrites the plan, and the planner as it reads the scans
\* anew, leaves one the analyzer would accept, with the columns of the query
\* in their order, that means the query's rows in their order
\* (test_optimizer.py: the optimizer must be correctness-preserving).  A filter
\* that is evaluated earlier, on rows a join or another filter would have
\* dropped, may raise.
MeansTheQuery(rewritten) ==
  /\ Valid(rewritten)
  /\ Schema(rewritten) = Schema(query)
  /\ Raised \notin {Rows(rewritten), Rows(query)} => Rows(rewritten) = Rows(query)
KeepsMeaning ==
  [][phase # "new" /\ plan' # plan => MeansTheQuery(plan')]_vars

\* An optimized plan is a fixed point of the whole list of rules, as far as
\* explain shows, and not one the cap on iterations has cut short; pruning
\* and elimination do not undo each other's work for ever.
Settles ==
  phase = "optimized" =>
    LET again == FoldLeft(LAMBDA node, rule : Apply(rule, node), plan, Rules)
    IN Explain(again) = Explain(plan)

\* A join and an aggregation give their rows in the order of their partitions.
RECURSIVE Ordered(_)
Ordered(node) ==
  CASE node.op = "scan"                  -> TRUE
    [] node.op \in {"join", "aggregate"} -> FALSE
    [] OTHER                             -> Ordered(node.child)

\* What collect() returns are the rows the query means over its whole input,
\* none lost, doubled or made up by the cuts into partitions, the exchanges
\* and the partial aggregation: in the same order where the query has one, and
\* sorted by its keys if it ends in order_by.
CollectsTheRows ==
  phase = "done" /\ Rows(query) # Raised =>
    LET collected == FlattenSeq(results)
        meant == Rows(query)
        keys(rows) == [i \in DOMAIN rows |-> [k \in DOMAIN query.keys |-> rows[i][query.keys[k]]]]
    IN /\ SameBag(collected, meant)
       /\ Ordered(query) => collected = meant
       /\ query.op = "sort" => keys(collected) = keys(meant)

\* A range-partitioned sort has no target for a null (finding OrderBy).
RangeSortOverNull(node) ==
  /\ node.op = "sort" /\ shuffle_partitions > 1
  /\ ColumnType(node.child, node.keys[1]) \in {"int", "float"}
  /\ \E row \in Range(Rows(node.child)) : row[node.keys[1]] = Null

\* Planning and running a query that the analyzer accepts raises nothing but
\* what its own expressions raise on a row, or the null keys of a
\* range-partitioned sort: in particular order_by falls back to one partition
\* where the rows below it cannot be had while planning
\* (planner.py:234, _is_oracle_executable).
FailsWhenTheRowsDo ==
  phase = "raised" =>
    \/ Rows(plan) = Raised
    \/ \E node \in Subplans(plan) : Rows(node) # Raised /\ RangeSortOverNull(node)

\* The ShuffleReadExec leaves of a stage's plan.
RECURSIVE LeavesOf(_)
LeavesOf(node) ==
  CASE node.op = "ScanExec"        -> {}
    [] node.op = "ShuffleReadExec" -> {[from |-> node.from, broadcast |-> node.broadcast]}
    [] node.op = "HashJoinExec"    -> LeavesOf(node.left) \union LeavesOf(node.right)
    [] OTHER                       -> LeavesOf(node.child)

\* The targets a task of a stage has sent rows to, none if it has not run.
EmittedBy(s, p) ==
  IF s >= Len(shuffles) THEN {}
  ELSE {t \in DOMAIN shuffles[s + 1][p + 1] : shuffles[s + 1][p + 1][t] # <<>>}

\* build_stages gives the scheduler the lists of stages it assumes, and nothing
\* a stage writes is left unread: every stage but the last is read by exactly
\* one later leaf, whose stage has a partition for every target that rows were
\* sent to, or, for a broadcast, all rows are in target 0.
StagesFitTheScheduler ==
  phase \in {"running", "done"} =>
    LET n == Len(stages)
        parts == [s \in StageIds(n) |-> stages[s + 1].num_partitions]
        reads == [s \in StageIds(n) |-> LeavesOf(stages[s + 1].plan)]
        emits == [s \in StageIds(n) |-> [p \in PartitionIds(parts, s) |-> EmittedBy(s, p)]]
        readers(s) == {<<r, leaf>> \in UNION {{r} \X reads[r] : r \in StageIds(n)} : leaf.from = s}
    IN /\ WellFormed(n, parts, reads, emits)
       /\ \A s \in StageIds(n) \ {n - 1} :
            \E r \in StageIds(n), leaf \in Leaves(n) :
              /\ readers(s) = {<<r, leaf>>}
              /\ UNION Range(emits[s]) \subseteq
                    IF leaf.broadcast THEN {0} ELSE PartitionIds(parts, r)

\* The filter that a Parquet scan is read with leaves out no row its condition
\* is true of, so the Filter above the scan still finds them all
\* (datasource.py: "a superset of the matching rows (never a subset)").
PushesASuperset ==
  \A node \in Subplans(plan) :
    node.op = "scan" /\ node.filter # None /\ Tables[node.table].kind = "parquet" =>
      \A row \in Range(Tables[node.table].rows) :
        Truthy(Evaluate(node.filter[1], row)) => PassesFilter(node.filter, row)

\* The parser accepts a statement if and only if it belongs to the documented
\* subset of SQL, and the plan it makes of its tokens means the rows that the
\* statement, as its author grouped it, asks for; the analyzer rejects the plan
\* if and only if a name of the statement is not there.
ParsesAsMeant ==
  \A stmt \in Range(statement) : phase \in {"new", "unparsed"} =>
    /\ phase = "unparsed" <=> ~ Legal(stmt, temp_views)
    /\ phase # "unparsed" =>
         /\ Valid(query) <=> Resolves(stmt, temp_views)
         /\ Valid(query) => \E rows \in {Rows(query)}, wanted \in {SqlRows(stmt, temp_views)} :
                              Answers(rows, wanted, stmt)
=============================================================================
