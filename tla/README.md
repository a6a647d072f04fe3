# A specification of minispark

TLA+ models of minispark, from a query's text or its DataFrame calls to the rows
`collect()` returns, and of the scheduler, the spilling operators and the
checkpoints under it. They are checked with TLC on small instances. For the
scheduler, the hash aggregate, `group_by` across partitions, the external sort,
`order_by` across partitions, checkpoints and the cuts of sources into partitions, every safety property
that the runs check is also proved with TLAPS, for every instance. Paths are
relative to the repository's root; line numbers are those of this commit.
`PROJECT.json` maps every definition to the lines it stands for.

## 1. The system

A query goes through five layers. The DataFrame API or the SQL parser builds a
logical plan; the analyzer checks it; the optimizer rewrites it; the planner
turns it into a physical plan; `build_stages` cuts that at its exchanges into a
list of stages. `LocalScheduler.run_plan` then runs the stages in order. A
stage is a batch of tasks, one per partition, run in this process or in a pool
of worker processes. A stage that ends in a shuffle write leaves block files,
registered in the driver's `ShuffleManager`; the stages that read it are given
lists of these blocks when their tasks are built.

| component | state | operations | what is hard | what makes it correct |
|---|---|---|---|---|
| scheduler (`execution/scheduler.py`, `metrics.py`) | open `_run_stage` calls, pending and done tasks, task ids, `recomputed_stages`, metrics, `last_metrics` | `run_plan`, `_run_stage`, `_run_to_completion`, `_try_recover_missing_shuffle`, `_run_batch` | retries, losses found by several readers, recovery nested inside the loop over results, killed workers | a reader gets one whole run of each upstream stage; a stage is recomputed at most once; a query ends; a dataset is returned only when everything it needs was available |
| task execution (`worker.py`, `tasks.py`) | none between tasks | `execute_task` | partial output of a failed write, in parallel processes | a failed attempt is never mistaken for a result |
| shuffle (`shuffle/`) | `_blocks` by stage, block files | `register_blocks`, `blocks_for`, `write_shuffle_partition`, `read_shuffle_blocks`, `cleanup` | loss and corruption of files, overwriting registration, path reuse | readers never see rows twice, or a mixture of runs |
| stage splitting (`stages.py`) | none | `build_stages` | order, partition counts of joins | a stage comes after those it reads |
| aggregate functions (`expressions/aggregate.py`) | one state per group | `initialize`, `update`, `merge`, `finalize` | nulls, groups of nothing but nulls, any order of merging | merge is associative and commutative, update is the merge of one row |
| hash aggregate (`physical/operators.py`, `spill.py`) | table and its size, spill files, paths by bucket, round | the loop over the child, `_spill_groups`, two generators | spilling between any two rows, equal keys, abandoned generators | the result is GROUP BY, spilled or not |
| sort (`physical/operators.py`, `spill.py`) | buffer and its size, runs | the loop over the child, `_sort_rows`, `heapq.merge` | ties and nulls across runs, abandoned generators | the stream is one stable sort of the input |
| checkpoints (`storage/checkpoint.py`) | a directory | `write_checkpoint`, `CheckpointDataSource` | interruption anywhere, retries over remains, lazy readers | a source that opens reads one whole dataset |
| partitioners (`shuffle/partitioner.py`) | none | `partition_for` | keys equal but for their repr; nulls in a range exchange | equal keys go to one place; ranges follow the order |
| physical planner (`physical/planner.py`) | none | translation, `_sort_range_boundaries`, scan pushdown | float boundaries, descending keys, nulls | global order over the partitions |
| hash join, filter, project | hash table of the left side | per-partition execution | both sides lost; equal keys | the join of the whole inputs |
| optimizer (`optimizer/`) | none | five rules, to a fixed point | names redefined by projects | a rewrite keeps a plan's meaning |
| logical plan, analyzer, expressions | none | validation, evaluation of a row | nulls | ill-typed plans are refused |
| SQL tokenizer and parser | position in the text | recursive descent | precedence | text means the plan it looks like |
| CSV, Parquet, in-memory sources | files | ranges, offsets, predicate translation | quoted newlines, null semantics | each row is read by one partition, none is dropped by a pushed filter |
| API, session, config, naive executors, examples | configuration, temporary views | builds plans | metrics after a failed action | |

The components share little: the driver and its workers communicate by tasks
and results, a stage and its readers by block files, a checkpoint's writer and
readers by a directory. There are no locks. The only concurrent steps are those
of the tasks of one batch, of the environment (files that vanish, processes that
die), and of a checkpoint's lazy readers with later writers.

## 2. The modules

### Scheduler, StageLists, QueryPromise, MCScheduler, SchedulerProofs

`Scheduler` models `run_plan`. The driver is one thread whose call stack is the
variable `stack`: its bottom frame is the for loop's `_run_stage`, each further
frame a recomputation called from within the loop over the results of the frame
below. `tasks[s][p]` is the task that the latest run of stage `s` built for
partition `p`; its `state` says where the task is in `_run_to_completion`:

| state | in the code |
|---|---|
| `pending` | in the batch, without a result |
| `success`, `failed` | in `batch_results`, not looked at yet |
| `recovering` | `_try_recover_missing_shuffle` runs for it |
| `again` | in the new `pending` dict |
| `done`, `exhausted` | in `done`, with a success or a failure |

| action | code |
|---|---|
| `StartStage` | the for loop calls `_run_stage`; tasks are built and blocks resolved |
| `RunTask` | `execute_task`: success, a missing block, or any other exception, which may leave some block files |
| `ProcessResult` | one turn of the loop over the results: `Accept`, `Recover`, `Retry` or `GiveUp` |
| `NextBatch` | `while pending` |
| `FinishStage` | metrics, `register_blocks`, return; a caller that waited gets fresh blocks (`Resume`) |
| `RaiseTaskError` | `TaskExecutionError`, through all open calls, and `finally` |
| `WorkerDies` | `BrokenProcessPool`, likewise |
| `ReturnDataset` | the end of the for loop, and `finally` |
| `LoseBlock` | the environment: a file is deleted or corrupted |

A block stands for the rows one source partition sends to one target; whether
its bytes are gone or fail their checksum is the same to a reader, so `files`
holds the readable ones. Leaves are read in the order of their stage ids (left
before right, eagerly), which decides which loss is reported first. What
`build_stages` guarantees about a list of stages is `WellFormed` of `StageLists`:
stages come after those they read, no two leaves read the same stage, since
`_split` makes one leaf and one stage of every exchange, and a task writes to finitely
many targets.
`Scheduler` assumes it (`PlanAssumption`), `Query` checks it of the lists that the
planner makes (`StagesFitTheScheduler`). The MC module has the lists of two
queries: a broadcast join, and two aggregations of which one is broadcast into a
join with the other.

`QueryPromise` is the abstract specification: stages become available in
dependency order and stay so, and `run_plan` returns only when all of them are.
`KeepsPromise` is the refinement, under the mapping `Available`: a stage is
available when its tasks held whole inputs and its whole output is registered.

### Nulls, Aggregates, GroupTables, GroupTheorems

`Nulls` has the nullable integers all operators work on. `Aggregates` has the four
steps of the five classes (count with and without a column), and `Reference`, the
value SQL gives the aggregate over a whole group. `GroupTables` has the table of
`_execute_hash_aggregate_partition`: by class of equal keys the key first inserted
and the states, how rows become states, and how a file of entries is merged
into a table. A spill file and a shuffle block are such files, so `HashAggregate`
and `GroupBy` share this, and their proofs share `GroupTheorems`.

### HashAggregate, MCHashAggregate, HashAggregateProofs

One partition of `HashAggregateExec`, map side (`is_partial`) or reduce side. A
key has a `Class` (dict equality) and a `Bucket` (the hash of its repr). Phases:
`accumulate` is the loop over the child; `unread` a returned Partition whose
generator nobody has started; `emit`, `done`, `closed`, `raised` its fates. The
table is a function from classes, so that the order of a dict, which nothing
depends on here, is left out. Sizes are two constants and the key's.

### GroupBy, MCGroupBy, GroupByProofs

`group_by().agg()` from the rows of the child to the collected groups, the three
nodes `_plan_aggregate` makes. `WriteSource` is a task of the first stage: the partial
`HashAggregateExec` and the hash exchange of its groups; `ReadTarget` a task of the
second: the blocks of all sources, in the order of the sources, merged by the
final `HashAggregateExec`. The tasks of a stage end in any order. An operator is one
step here, since spilling changes no states (`SpillingKeepsTheResult`); what it
may change is which of several equal keys is written for a group, so `KeysOf` leaves
that open, and with it the target, which depends on the key's repr.

### SortOrder, ExternalSort, MCExternalSort, ExternalSortProofs

One partition of `SortExec`, with the same phases. `SortRows` performs the
code's own passes with the code's own null-last keys, `YieldRow` the merge with
the composite key; `OrderedBy` is ORDER BY as SQL defines it (nulls last), written
independently of both. The keys stand in `SortOrder`, which `OrderBy` shares. `list.sort`, tuple comparison and `heapq.merge` are the
library's and are modelled by their contracts.

### OrderBy, MCOrderBy, OrderByProofs

`order_by` from the planner to the collected dataset. `PlanSort` is
`_sort_range_boundaries` with `compute_statistics`; `WriteSource` a task of the
first stage (sort, then split among the ranges) and `WriteRaises` the same task
with a key no boundary can be compared with; `Bucket` is what `write_shuffle_partition` makes
of the rows for one target; `ReadTarget` a task of the second
(read the blocks in the order of the sources, sort again). The tasks of a stage
end in any order. `rangeable` stands for the two conditions on the plan, a numeric
key and a child of scans, filters and projects. A boundary is kept multiplied by
`shuffle_partitions`, which makes it an integer where the code has a float; how
the float is rounded moves a row to another range but changes no order, as the
theorem shows for any boundaries. Sorting is one step here (`SortRows`), since
spilling changes nothing (`SpillingKeepsTheOrder`).

### DataTheorems

Lemmas without state, which the proofs share: sums over finite sets, the folds of
the community modules and `FlattenSeq`, the cuts of `Chunks`, and what stable
sorts, merge keys and concatenations of sorted sequences are.

### Query and what it is made of

`Query` follows one query through all five layers. Its state is the DataFrame's
plan, the temporary views, the plan as it is rewritten, the list of stages, and
what each stage that has run has left.

| action | code |
|---|---|
| `filter`, `select`, `agg`, `join`, `order_by` | the DataFrame's methods, which check nothing |
| `create_or_replace_temp_view`, `sql` | the session's; a statement is parsed against the views |
| `Analyze` | `analyze`, which refuses the query or starts the first pass |
| `OptimizeStep` | one rule (`ApplyRule`), or the end of a pass (`EndPass`): explain's text is compared |
| `PlanStages` | `plan_physical` and `build_stages`; a sort executes the plan below it |
| `RunStage` | all tasks of the next stage; the last one's rows are the result |

That the tasks of a stage interleave, fail and are retried is `Scheduler`'s part;
here a stage is one step. The modules it composes:

- `Plans`: logical plans as records, the analyzer as `Valid`, and the rows a plan
  means over its whole input (`Rows`), the reference for everything below. A
  TypeError is a value of its own (`Raise`), which makes the rows `Raised`. The
  order of rows is Python's: groups in the order of their first rows, a join's in
  that of its right side.
- `Sources`: the three sources. `Chunks` has the cut of rows or row groups into
  partitions, which the three share; on top of it the offsets and ranges of CSV
  lines, the row groups of Parquet, the inferred types that decide how a sort
  is planned, `translate_predicate`, and the scan pushdown. pyarrow evaluates a filter
  in SQL's three-valued logic (`ArrowEvaluate`, external).
- `Optimizer`: the five rules as recursive operators, one case per kind of node,
  one step per rule, so that a property sees the plan between any two of them.
  `Explain` keeps what the text shows and drops what it hides, the expressions of
  a Project.
- `Physical`: the planner's translation, the split at the exchanges (`Split`), and
  what a task computes (`RunTask`): partial states merged after the exchange, the
  join of two shuffled or of a broadcast side, the targets of hash and range
  exchanges. `Ranges` has the boundaries, which `OrderBy` uses too. The hash is a
  constant: any function of the key.
- `Sql`: tokens and the recursive descent. The six binary levels are one operator,
  `ParseExpr`, over a table of which level binds tighter (`Tighter`); the clauses
  follow `parse_select_stmt` one by one.
- `SqlMeaning`: not the code, but what it is held against. A statement is a tree;
  `Render` writes it down with no parenthesis more than precedence asks for,
  `Legal` is the subset docs/sql.md describes, `Resolves` what the analyzer has to
  accept of it, and `SqlRows` the rows it asks for, group by group.

Values are nullable integers; True and False are 1 and 0, which in Python they
equal. `MayRedefine` and `MayMisread` keep two known faults (4.5, 4.6) out of the
passing run and let each into a run of its own.

### Checkpoint, MCCheckpoint, CheckpointProofs

A directory, a writer that goes through `write_checkpoint` file by file and row
by row, an interruption at any of these points that leaves a prefix of the open
file, and a source that reads partition after partition at any later time.
A directory that holds a complete checkpoint may be written over. Two history
variables say so: `reused` while the old `_meta.pkl` still stands though a
checkpoint over it has begun, `undisturbed` of a source which opened on none such and
has seen none begin since.

## 3. What the runs check

| run | instance | shows |
|---|---|---|
| `scheduler` | 4 stages, a chain of three and a side of its own that meet in a join; 2 workers, 1 retry, 1 fault, 3 losses, deaths | `TypeOK`, `ReadsOneRun`, `WritersUseFreshPaths`, `AtMostOneRecompute`, `MetricsTellTheRuns`, `RetriesPayForFaults`, `CanGoOn`, `EveryStepCounts`, `QueryEnds`, `KeepsPromise` |
| `scheduler_lost_broadcast` | 2 stages of 2 tasks, one loss, 3 retries | `LossIsRecovered` is violated |
| `hash_aggregate` | 3 rows, 3 keys of which 2 are equal, values null, -1, 2, six aggregates, 3 thresholds | `GroupsAsReference`, `BytesMatchTable` |
| `hash_aggregate_equal_keys` | the same, equal keys in different buckets | `EachGroupOnce` is violated |
| `group_by` | 2 sources of up to 2 rows, 3 keys of which 2 are equal and have different hashes with equal remainders, values null, -1, 2, six aggregates, 1 to 3 targets | `CollectsTheGroups` |
| `external_sort` | 4 rows of two columns, ASC and DESC, values null, 0, 1, 3 thresholds | `StreamsTheStableSort`, `SpillDirRemoved` |
| `order_by` | 2 sources of up to 2 rows of two columns, keys null, -1, 0, 2, both directions, 1 to 3 ranges | `CollectsTheStableSort`, `RangesFollowTheOrder` |
| `order_by_nulls` | the same | `NullsAreSorted` is violated |
| `checkpoint` | datasets of 3 and 2 partitions of 2 rows, 4 attempts, one over the other or over its remains, 2 sources | `TypeOK`, `ReadsWholeDataset` |
| `query` | queries of up to 3 of 17 calls over tables of 4 or 5 rows with nulls, one in memory, one CSV file, one Parquet file of 3 row groups, joined with a CSV file of 3 rows; 51 statements, 40 of them legal; 3 configurations of the two flags and 1 to 3 shuffle partitions | `KeepsMeaning`, `Settles`, `CollectsTheRows`, `FailsWhenTheRowsDo`, `StagesFitTheScheduler`, `PushesASuperset`, `ParsesAsMeant` |
| `query_redefined` | queries of up to 2 calls with a project that swaps two names | `KeepsMeaning` is violated |
| `query_parquet` | one call over the Parquet table, conditions with a negation | `PushesASuperset` is violated |

Bounds. `MaxFaults`, `MaxLosses`, `MaxRows`, `MaxFolded`, `MaxAttempts` and
`MaxOpens` stand in guards and bound the environment, never the program. In
`scheduler` three losses are what it takes to lose a block of a stage in the middle
of the chain, then one of the stage before it while that is recomputed (a nested
recovery), then one of a stage already recomputed; one fault with one retry reaches
a retry and, with a loss, an exhausted task; two workers let a task finish
before, during or after its neighbour. Three rows are a spill, an equal key after it and a
remainder; four sorted rows are two runs with a tie across them and a
remainder; between keys -1 and 2, the key 0 is a boundary of three ranges and
inside one of two, and sources of two rows have ties within and across them;
in `group_by` they have groups in one of them, in both, in neither, of nulls only,
with a different key each, and three targets leave one without a group;
the smaller of two checkpoints leaves a partition of the larger. Three
calls are what it takes for a rule to see what two others made of its node (a
filter that passes a project into a side of a join, a pruned scan below both),
and for an exchange above an exchange above a join; `MaxOperations` bounds them.
A statement counts as one query on its own, or follows the calls that made its
view. Four rows in 2 partitions, 5 in 3 and 3 row groups in 2 have a last
partition that is full, short, and empty of a whole group. `SampleRows` is 1 so that
a column without a value in the sample has values after it. `MaxIterations` is
the code's own 10, and `Settles` shows that it cuts no loop short.
Runs end in final states, so the configurations do not check deadlock; for the
scheduler, `CanGoOn` says that no running query is stuck, and `QueryEnds` that each
ends.

Fairness. `FairSpec` asks weak fairness of `Driver` and of `RunTask`: the driver
thread keeps running, and a task handed to the pool is eventually run to one of
its three outcomes (a task that hangs forever would hang the query, there is no
timeout). Nothing obliges a block to be lost or a worker to die. The properties
of the other modules are safety properties and their specifications ask nothing.

Each property was tried on a mutant of the code it is about; the mutants stand
in the modules, before the operator they replace.

## 4. Where code and documentation disagree

1. `LossIsRecovered`. README.md:51 promises that after the loss of shuffle output
   the stage recomputes and the query still finishes. If two tasks of a batch
   hold a lost block, or lost blocks, of one stage, the first is given the
   recomputed blocks, and the second, for which `_try_recover_missing_shuffle`
   returns None (`scheduler.py:290`), is retried with the stale ones until the
   query fails. `RetriesPayForFaults` shows that this is the only way: with one
   reader per loss a query fails only by its own faults.
2. `EachGroupOnce`. `_stable_hash` hashes a key's repr, the group table compares
   keys: `0.0` and `-0.0`, or `1` and `True`, are one group in memory and two after a
   spill or a shuffle (`partitioner.py:89`, against `partitioner.py:5` and
   README.md:55). `GroupsAsReference` holds when equal keys have equal buckets.
3. docs/spilling.md:72 says that the spill directory is removed
   even if the generator is closed early. A generator that was never started
   has no `finally` to run (`operators.py:546`), as when the right side
   of a broadcast join raises `MissingShuffleDataError` after the left was sorted.
   `SpillDirRemoved` therefore speaks of generators that have yielded a row.
4. `NullsAreSorted`. docs/shuffle.md:155 says that nulls always sort last. With two
   or more shuffle partitions, a numeric first key and some nulls in it,
   `compute_statistics` skips the nulls, and the range partitioner then compares
   None with a number (`partitioner.py:77`), or, descending, multiplies it by -1
   (`planner.py:327`): the query fails. Without nulls in the first key, or with one
   partition, `CollectsTheStableSort` holds, and nulls sort last.
5. `KeepsMeaning`. docs/query-planning.md:74 says that a filter moves below a Project
   "when the filter does not need a column the Project computed or renamed".
   The code asks only whether the names exist below (`rules.py:226`): after
   `select(col("b").alias("a"), col("a").alias("b"))`, `filter(col("a") == 1)` is
   applied to the old `a`, and other rows come back. When no project redefines a
   name of its child, the property holds (run `query`).
6. `PushesASuperset`. `storage/datasource.py:26` says a source may return a superset
   of the matching rows, never a subset. `translate_predicate` negates what it
   got of a Not's child (`parquet.py:166`), also when that is one side of an And of
   which the other has no translation: `~((a == 1) & (a + b > 2))` becomes NOT a = 1.
   And None differs from 1 for Python, but not for pyarrow: `c != 1` reads no row
   where c is null. The same holds of a comparison of two null columns. Rows are
   missing from the result. Without negations, `!=` and comparisons of two columns
   the property holds (run `query`).

Others are without a run of their own. Some bound what the properties say:
`write_checkpoint` means a directory to hold exactly one dataset (`checkpoint.py:83`),
but replaces partition files one by one, under sources that read lazily by the
partition list they took, and leaves the old `_meta.pkl` until the end; a source that is
open when a checkpoint begins, or opens before it reaches `_meta.pkl`, may
collect rows of both datasets, and `ReadsWholeDataset` is about all others.
`FilterSimplification` also rewrites projects, where `Not(Not(x))` becomes `x` and
`True AND x` becomes `x`: for an `x` that is no boolean the column has other values
(`rules.py:142`), so the queries of the run compute booleans from comparisons only.
A filter pushed below a join meets rows the join would have dropped, which may
raise where the query as written would not (`rules.py:232`); a query that raises
is excepted. The left side of a join or a group key that is `True` on one side and `1`
on the other falls under 4.2, and the run has none.

Of SQL: docs/sql.md writes `[INNER] JOIN`, but INNER is no keyword and ends in a
syntax error. Of a GROUP BY query, the alias of a plain column, the order of the
select list and the omission of a group column are forgotten: the columns are
always the keys, then the aggregates (`parser.py:288`). An aggregate without GROUP BY over
no rows returns no row, where SQL returns one. A WHERE with an aggregate parses and
fails when it is evaluated. `SqlMeaning` asks for none of these, and the statements of the run avoid
them where they would matter.

## 5. What is proved

Each theorem is about `Spec`, for every value of the constants that satisfies the
module's ASSUME, and without fairness. The assumptions are types and, where the
code guarantees more, what it guarantees:

- `PlanAssumption`: the list of stages is one `build_stages` makes (`WellFormed`,
  which run `query` checks of the planner's lists). `BoundAssumption`: the
  bounds on retries, faults and losses are natural numbers, there is a worker.
- `GroupAssumption`, `AggregateAssumption`, `GroupByAssumption`, `SortAssumption`,
  `OrderByAssumption`: values are null or
  an integer, sizes and thresholds are natural numbers, there is at least one
  bucket, source or partition.
- `CheckpointAssumption`: every dataset has a partition, numbers of rows are natural.
- `KeysAgree` in `SpillingKeepsTheResult` and `GroupByIsReference`: equal keys have
  equal buckets, or equal targets, as `partitioner.py:5` promises. Without it the
  properties are false (4.2).

### The scheduler

`TypeCorrect`, `EveryTaskReadsOneRun` (`ReadsOneRun`) and
`EveryStageRecomputedOnce` (`AtMostOneRecompute`) follow from `Inductive`.
`ReadsOneRun` is not inductive: that a task built now reads one run depends on what
is registered, which depends on which stages have returned. `IInv` adds that the
call stack goes strictly upstream from the for loop's stage and that all but its
bottom frame are recomputations (`StackInv`); that recomputed stages and the log
agree with the stack (`LogInv`); that tasks hold and miss only blocks of earlier
stages, so a recovery never re-enters an open stage (`BelowInv`); that a run's ids
are consecutive (`IdInv`); and that what is registered for each stage the loop has
left is one whole run (`RegInv`). There is one lemma per action and part.

The second half of `SchedulerProofs` first states once what each action does to stack, tasks
and blocks (`Effects`) and to a single task (`TaskMoves`); its invariants are
proved over these and not over the actions again.

- `RunsWriteFreshPaths` (`WritersUseFreshPaths`): `FreshInv` says that ids grow and
  that none of an open run's ids is in a registered or held block of its stage.
- `RecoveriesAreFree` (`RetriesPayForFaults`): a task is exhausted only after more
  faults than `MaxRetries`, unless a stage lost two blocks or one read by broadcast.
  The difficulty is to find, when a task pays for a block of a stage that was
  already recomputed, the *second* lost block. `CauseInv` keeps for each recomputed
  stage a lost block that no task will hold again (`Dropped`), so a block that a
  task misses now is another one; `LostInv` and `MissingInv` say that what is missed
  was lost, `ReaderInv` that only one stage asks for it, `ChargeInv` counts.
- `SchedulerKeepsPromise` (`KeepsPromise`): the refinement of `QueryPromise`. By
  `LeftStagesAreDone` and `AvailableIsLeft` the available stages are those the loop
  has left, also while some of them run again; so a step either makes the loop's
  stage available after its sources, or ends the query, or stutters.
- `MetricsAreTheRuns` (`MetricsTellTheRuns`): `CountInv` relates the length of the
  log to loop, stack and `recomputed_stages`, `RunsInv` has the entry of each
  run, and `OrderInv` says that a reader whose entry is older than that of its source
  is running again or has a later entry.
- `QueryRunsDown` (`EveryStepCounts`): retries, recoveries within recoveries and lost
  blocks notwithstanding, a query makes only finitely many steps. `Remaining` is six
  numbers, compared from the first that differs: whether the query runs, the stages
  not recomputed yet, the iterations the loop has left, the height of the call stack
  (which grows only when a stage is recomputed or entered), what the tasks of the
  active stage have left (three steps for every attempt), and the blocks on disk.
  Every step makes one smaller and leaves those before it alone, although a
  recovery gives back a whole stage's worth of what comes after. `EndInv` keeps the
  numbers numbers: the blocks are finitely many, no attempt passes `MaxRetries`.
- `QueryCanGoOn` (`CanGoOn`): while a call is open its stage has a task a worker may
  run, a result to look at, a next batch or an end. The last part of `EndInv` gives it:
  only calls that wait for another have tasks that wait (`CallsBuilt`).

With `EveryStepCounts` and `CanGoOn`, `QueryEnds` needs only that an enabled step is
taken, which is what the fairness of `FairSpec` says.

### The hash aggregate and group_by

`MergeType`, `MergeCommutes`, `MergeAssociates`, `InitializeIsNeutral` and
`UpdateIsMergeOfOne`, for all integers and nulls, are the algebra that spill
rounds, map-side combining and the shuffle rely on.

`BytesAreTheTable` (`BytesMatchTable`): the running counter is the sum over the
table, groups counted when inserted and states when they change.

`SpillingKeepsTheResult` (`GroupsAsReference`): each group comes out once, with the
value SQL gives the aggregate over its raw values, whatever was spilled in
however many rounds. The sum, minimum and count of SQL are folds in an order
that CHOOSE picks, so `SummaryIsReference` first gives them a form without an order:
a `Summary` describes the values at a set of positions of the input, and the
summary of a disjoint union is the merge of the summaries (`SummaryOfUnion`).
`HashInv` then says that a group's positions are divided among the table and
the spill files (`Divides`), each holding the summary of its part
(`Represents`), and `MergeFilesRepresents` that reading a bucket back unites the
parts. On the reduce side the positions are those of the partial states.

`GroupByIsReference` (`CollectsTheGroups`): each group of the whole dataset comes out
of one target, once, with the value SQL gives the aggregate over the raw rows of
all sources, which no task has seen together. A source is to a target what a round
of spills is to a bucket, so the lemmas of `GroupTheorems` serve both. The positions
are those of a group's values in the whole dataset; each source's lie in a stretch
of their own (`SourcesAreLaid`, `SourcesDivide`), which may be empty. `BlocksInv` says
that a block represents the stretches of its source's groups that belong
to its target (`GroupedRepresents`), `ResultsInv` that a result represents the
whole of its groups (`MergedForTarget`), `PhaseInv` that a stage ends with its last task;
that no two targets share a group is `KeysAgree` (`PlacesApart`).

### Sorting

The reference of all three theorems is ORDER BY (`OrderedBy`), which ranks
positions. `StableBy` shows that it is an arrangement of the rows in a strict total
order, and `ArrangedUnique` that there is only one. So it is enough to show that
the code's sequences have the right elements in the right order.

- `SortRowsSorts`: the passes of `_sort_rows` from the last column to the first give
  that arrangement, because each pass is stable (`Kept`, `Ties`). The input need
  not be in any order but that of its ties.
- `MergeKeys`: the composite key of the merge compares rows as the passes do, nulls
  and the sequence number included.
- `SpillingKeepsTheOrder` (`StreamsTheStableSort`), `SortRemovesItsSpills`
  (`SpillDirRemoved`): while the child is read, buffer and runs share the rows out
  among them, each run is sorted, and the buffer has its ties in order (`Gathered`);
  while the generator runs, everything yielded comes before everything unread (`Merged`).
- `RangesAreOrdered` (`RangesFollowTheOrder`): a key the partitioner accepts has an
  existing partition, and one that comes first never a later one. It follows from
  `PlanInv` and `PartitionForMonotone`, which does not ask where the boundaries lie.
- `CollectSorts` (`CollectsTheStableSort`): a block holds the rows of its source that
  go to its target, ties in order; blocks in the order of the sources keep
  them so, hence a target's result is sorted (`ResultsInv`); and the ranges
  being in order, so is the concatenation (`FlattenArranged`).

### Sources and checkpoints

`EveryRowIsRead`, `NoRowIsReadTwice`, `PartitionsHaveNoGap`, for any number of rows or
row groups and any wanted number of partitions, zero and negative ones
included: each row lies in the chunk of exactly one partition that is kept, and the
kept ids start at 0 without a gap, on which stages and scheduler rely when they
count partitions. What is needed of the rounded division is `CeilDivIsEnough`.

`TypeCorrect` and `SourcesReadWholeDatasets` (`ReadsWholeDataset`) of
`CheckpointProofs`: `IInv` adds that while a dataset is written `_meta.pkl` is
unreadable, or that of a checkpoint being written over, and all partitions before
the current one are whole; and that what a readable `_meta.pkl` or an undisturbed
source describes is on disk, if it is not being written over.

### How folds and sorts are proved

The library's induction theorems take a predicate as a parameter, which the
installed provers cannot instantiate. `NatInductionSet` states induction for a
*set* of numbers instead, and follows from the well-founded order of the naturals. From it come
the first lemmas of `DataTheorems`: the recursive function a CHOOSE in a fold picks
exists and is unique, the sum over a finite set does not depend on
the order in which elements are chosen, a flattened sequence is the next one
appended, and every sequence is built by appending (`SeqInduction`). Where a fact
depends on a sequence being built step by step, the set is that of the lengths for
which it holds.

### Only model-checked

`QueryEnds`, since ENABLED, and so what fairness gives, is beyond the prover: proved is
that steps run out and that a running query has one; and the seven
properties of `Query`, whose modules recurse over plans, expressions and statements
with RECURSIVE operators, which the prover does not know. What these rest on and
does not recurse, the cuts of `Chunks` and the keys of `SortOrder`, is proved.

## 6. What is not modelled

Each component's status and reason is in `PROJECT.json`. Left out are: cutting
characters into tokens, strings, floats and division; the writers, `show`, `explain`
and `last_run_metrics` (which keeps the previous action's metrics when an action
fails, `dataframe.py:143`); joins on several columns; CSV files with quoted newlines or
mixed columns; boolean literals against Parquet integers, which pyarrow refuses;
metrics' times and sizes; configuration, logging and the naive executors, which
have no state; a hung task, a full disk during a spill and a killed driver.

## 7. Plan

1. The step at the heart of `KeepsMeaning` as a theorem, over sequences of rows and
   without recursion: a filter commutes with a project that does not redefine
   the columns it needs, and with the side of a join it is pushed into.
2. `PushesASuperset` for one connective at a time, as lemmas on three-valued and
   Python's values.
3. Actions in a row on one session, with `last_run_metrics`.
