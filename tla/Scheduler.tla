------------------------------ MODULE Scheduler ------------------------------
(***************************************************************************)
(* LocalScheduler.run_plan: one query, run as a list of stages.  A stage   *)
(* is a batch of tasks, one per partition; a stage whose plan is rooted at *)
(* ShuffleWriteExec writes block files that a later stage reads.  A failed *)
(* task is retried in place, and a task whose input blocks are gone makes  *)
(* the driver recompute the stage that wrote them (a nested _run_stage).   *)
(*                                                                         *)
(* The driver is one thread, so its call stack is a variable; tasks of a   *)
(* batch run in worker processes and interleave; block files may be lost   *)
(* at any moment.  Rows are abstracted to blocks: the rows that one source *)
(* partition sends to one target partition.                                *)
(***************************************************************************)
EXTENDS Naturals, FiniteSets, Sequences, SequencesExt, StageLists

CONSTANTS
  NumStages,        \* len(stages); a stage's id is its place in the list
  NumPartitions,    \* Stage.num_partitions, by stage
  Reads,            \* the ShuffleReadExec leaves of a stage's plan, by stage
  Emits,            \* targets that receive a record, by stage and partition
  MaxRetries,       \* engine.max_task_retries
  NumWorkers,       \* local[N]
  MaxFaults,        \* bound: ordinary task failures in one query
  MaxLosses,        \* bound: block files lost or corrupted in one query
  WorkersMayDie     \* whether a worker process may be killed

Stages == 0 .. NumStages - 1
ResultStage == NumStages - 1
Parts(s) == 0 .. NumPartitions[s] - 1
IsShuffleWrite(s) == s # ResultStage

\* A broadcast leaf always reads target 0.
Leaf == [from : Stages, broadcast : BOOLEAN]
TargetOf(leaf, p) == IF leaf.broadcast THEN 0 ELSE p

\* What build_stages produces (Query.StagesFitTheScheduler).
ASSUME PlanAssumption == WellFormed(NumStages, NumPartitions, Reads, Emits)

ASSUME BoundAssumption ==
  /\ MaxRetries \in Nat
  /\ NumWorkers \in Nat \ {0}
  /\ MaxFaults \in Nat
  /\ MaxLosses \in Nat
  /\ WorkersMayDie \in BOOLEAN

-----------------------------------------------------------------------------
VARIABLES
  cursor,             \* the stage run_plan's for loop runs next
  stack,              \* the open _run_stage calls, the active one last
  tasks,              \* tasks[s][p]: the task of the latest run of stage s
  next_task,          \* task_ids = itertools.count()
  files,              \* the readable block files under root_dir
  blocks,             \* ShuffleManager._blocks; an absent key is {}
  recomputed_stages,
  stage_metrics,      \* one entry per finished stage run
  last_metrics,       \* LocalScheduler.last_metrics, None is <<>>
  outcome,            \* of run_plan
  faults,             \* how many task attempts failed on their own merits
  lost                \* the block files lost so far

vars == <<cursor, stack, tasks, next_task, files, blocks, recomputed_stages,
          stage_metrics, last_metrics, outcome, faults, lost>>
metricsVars == <<stage_metrics, last_metrics>>

\* A ShuffleBlockMeta: `task` is source_task_id, which with stage and target
\* makes the path; `part` stands for the content, source partition's rows.
Block == [stage : Stages, part : Nat, task : Nat, target : Nat]

TaskStates == {"none", "pending", "success", "failed", "recovering", "again",
               "done", "exhausted"}

Task == [id : Nat, blocks : SUBSET Block, attempt : Nat, state : TaskStates,
         missing : SUBSET Stages]

Frame == [stage : Stages, recomputed : BOOLEAN]
Metrics == [stage_id : Stages, retried_tasks : Nat, recomputed : BOOLEAN]

TypeOK ==
  /\ cursor \in 0 .. NumStages
  /\ stack \in Seq(Frame)
  /\ DOMAIN tasks = Stages
  /\ \A s \in Stages : tasks[s] \in [Parts(s) -> Task]
  /\ next_task \in Nat
  /\ files \subseteq Block
  /\ blocks \in [Stages -> SUBSET Block]
  /\ recomputed_stages \subseteq Stages
  /\ stage_metrics \in Seq(Metrics)
  /\ last_metrics \in Seq(Metrics)
  /\ outcome \in {"running", "success", "raised"}
  /\ faults \in 0 .. MaxFaults
  /\ lost \subseteq Block

-----------------------------------------------------------------------------
\* The blocks a shuffle-write task of partition p of stage s writes.
BlocksOf(s, p, id) ==
  {[stage |-> s, part |-> p, task |-> id, target |-> t] : t \in Emits[s][p]}

BlocksFor(manager, s, target) == {b \in manager[s] : b.target = target}

\* Mutant: every leaf reads the task's own partition, a broadcast one too.
ResolveOwnPartition(manager, s, p) ==
  UNION {BlocksFor(manager, leaf.from, p) : leaf \in Reads[s]}

\* _resolve_shuffle_blocks: every leaf's blocks, as registered now.
Resolve(manager, s, p) ==
  UNION {BlocksFor(manager, leaf.from, TargetOf(leaf, p)) : leaf \in Reads[s]}

\* The tasks _run_to_completion builds before its loop.
FreshTasks(s) ==
  [p \in Parts(s) |->
     [id |-> next_task + p, blocks |-> Resolve(blocks, s, p), attempt |-> 0,
      state |-> "pending", missing |-> {}]]

\* The upstream stages whose blocks a task cannot read back.
Unreadable(task) == {b.stage : b \in task.blocks \ files}

Active == Last(stack).stage
Pending(s) == {p \in Parts(s) : tasks[s][p].state = "pending"}
Unprocessed(s) == {p \in Parts(s) : tasks[s][p].state \in {"success", "failed"}}
Exhausted(s) == {p \in Parts(s) : tasks[s][p].state = "exhausted"}
InState(s, states) == \A p \in Parts(s) : tasks[s][p].state \in states

Init ==
  /\ cursor = 0
  /\ stack = <<>>
  /\ tasks = [s \in Stages |->
                [p \in Parts(s) |-> [id |-> 0, blocks |-> {}, attempt |-> 0,
                                     state |-> "none", missing |-> {}]]]
  /\ next_task = 0
  /\ files = {}
  /\ blocks = [s \in Stages |-> {}]
  /\ recomputed_stages = {}
  /\ stage_metrics = <<>>
  /\ last_metrics = <<>>
  /\ outcome = "running"
  /\ faults = 0
  /\ lost = {}

-----------------------------------------------------------------------------
(* Tasks: execute_task, in this process or in a pool worker.               *)

\* pool.map hands tasks out in order, so at most NumWorkers of them are
\* unfinished at a time; with one worker the batch is sequential.
MayRun(s, p) ==
  /\ p \in Pending(s)
  /\ Cardinality({q \in Pending(s) : q < p}) < NumWorkers

\* The result of a task, as the driver will see it.
Report(s, p, state, missing) ==
  tasks' = [tasks EXCEPT ![s][p] =
              [tasks[s][p] EXCEPT !.state = state, !.missing = missing]]

\* Every leaf reads back; a shuffle-write task leaves its block files.
TaskSucceeds(s, p) ==
  /\ MayRun(s, p)
  /\ Unreadable(tasks[s][p]) = {}
  /\ files' = files \union BlocksOf(s, p, tasks[s][p].id)
  /\ Report(s, p, "success", {})
  /\ UNCHANGED faults

\* MissingShuffleDataError, raised by the first leaf that cannot be read.
\* Leaves are read left to right, which is the order of their stage ids.
TaskMissesBlocks(s, p) ==
  /\ MayRun(s, p)
  /\ \E m \in Unreadable(tasks[s][p]) :
        /\ \A n \in Unreadable(tasks[s][p]) : m <= n
        /\ Report(s, p, "failed", {m})
  /\ UNCHANGED <<files, faults>>

\* Any other exception.  One raised while writing leaves some block files
\* behind; one raised earlier leaves none.
TaskFails(s, p) ==
  /\ MayRun(s, p)
  /\ faults < MaxFaults
  /\ faults' = faults + 1
  /\ \E left \in SUBSET BlocksOf(s, p, tasks[s][p].id) :
        /\ Unreadable(tasks[s][p]) # {} => left = {}
        /\ files' = files \union left
  /\ Report(s, p, "failed", {})

RunTask ==
  /\ stack # <<>>
  /\ \E p \in Pending(Active) :
        \/ TaskSucceeds(Active, p)
        \/ TaskMissesBlocks(Active, p)
        \/ TaskFails(Active, p)
  /\ UNCHANGED <<cursor, stack, next_task, blocks, recomputed_stages,
                 metricsVars, outcome, lost>>

-----------------------------------------------------------------------------
(* The driver.                                                             *)

\* Mutant: task ids start over with every run.
EnterStageSameIds(s, recomputed) ==
  /\ stack' = Append(stack, [stage |-> s, recomputed |-> recomputed])
  /\ next_task' = next_task

\* The start of _run_stage: push the call and build the stage's tasks.
EnterStage(s, recomputed) ==
  /\ stack' = Append(stack, [stage |-> s, recomputed |-> recomputed])
  /\ next_task' = next_task + NumPartitions[s]

\* run_plan's finally clause.
Finish(result) ==
  /\ outcome' = result
  /\ last_metrics' = stage_metrics
  /\ files' = {}

\* The next iteration of run_plan's for loop.
StartStage ==
  /\ outcome = "running"
  /\ stack = <<>>
  /\ cursor < NumStages
  /\ EnterStage(cursor, FALSE)
  /\ tasks' = [tasks EXCEPT ![cursor] = FreshTasks(cursor)]
  /\ UNCHANGED <<cursor, files, blocks, recomputed_stages, metricsVars,
                 outcome, faults, lost>>

\* The batch has come back, p is the first result not yet looked at.
NextResult(s, p) ==
  /\ Pending(s) = {}
  /\ p \in Unprocessed(s)
  /\ \A q \in Unprocessed(s) : p <= q

\* _try_recover_missing_shuffle applies: the stage was not recomputed yet.
Recoverable(task) ==
  task.state = "failed" /\ task.missing \ recomputed_stages # {}

Accept(s, p) ==
  /\ tasks[s][p].state = "success"
  /\ Report(s, p, "done", {})
  /\ UNCHANGED <<stack, next_task, recomputed_stages>>

\* Mutant: the recomputation is run as if it were the stage's own run.
RecoverUnmarked(s, p) ==
  /\ Recoverable(tasks[s][p])
  /\ \E m \in tasks[s][p].missing \ recomputed_stages :
        /\ recomputed_stages' = recomputed_stages \union {m}
        /\ EnterStage(m, FALSE)
        /\ tasks' = [tasks EXCEPT ![s][p] = [tasks[s][p] EXCEPT !.state = "recovering"],
                                  ![m] = FreshTasks(m)]

\* Mutant: the recovery is not remembered in recomputed_stages.
RecoverUnrecorded(s, p) ==
  /\ Recoverable(tasks[s][p])
  /\ \E m \in tasks[s][p].missing \ recomputed_stages :
        /\ recomputed_stages' = recomputed_stages
        /\ EnterStage(m, TRUE)
        /\ tasks' = [tasks EXCEPT ![s][p] = [tasks[s][p] EXCEPT !.state = "recovering"],
                                  ![m] = FreshTasks(m)]

\* Recompute the missing stage inside the loop over the results; the task
\* waits for the nested _run_stage to return.
Recover(s, p) ==
  /\ Recoverable(tasks[s][p])
  /\ \E m \in tasks[s][p].missing \ recomputed_stages :
        /\ recomputed_stages' = recomputed_stages \union {m}
        /\ EnterStage(m, TRUE)
        /\ tasks' = [tasks EXCEPT ![s][p] = [tasks[s][p] EXCEPT !.state = "recovering"],
                                  ![m] = FreshTasks(m)]

\* Mutant: a retry does not count as an attempt.
RetryForFree(s, p) ==
  /\ tasks[s][p].state = "failed"
  /\ ~ Recoverable(tasks[s][p])
  /\ tasks[s][p].attempt < MaxRetries
  /\ Report(s, p, "again", {})
  /\ UNCHANGED <<stack, next_task, recomputed_stages>>

\* Mutant: a task to retry is marked TaskState.RETRYING, which the loop that
\* picks the next batch does not know.
RetryMarked(s, p) ==
  /\ tasks[s][p].state = "failed"
  /\ ~ Recoverable(tasks[s][p])
  /\ tasks[s][p].attempt < MaxRetries
  /\ tasks' = [tasks EXCEPT ![s][p] =
                  [tasks[s][p] EXCEPT !.state = "retrying", !.missing = {},
                                      !.attempt = tasks[s][p].attempt + 1]]
  /\ UNCHANGED <<stack, next_task, recomputed_stages>>

\* The same task goes into the next batch, with the blocks it had.
Retry(s, p) ==
  /\ tasks[s][p].state = "failed"
  /\ ~ Recoverable(tasks[s][p])
  /\ tasks[s][p].attempt < MaxRetries
  /\ tasks' = [tasks EXCEPT ![s][p] =
                  [tasks[s][p] EXCEPT !.state = "again", !.missing = {},
                                      !.attempt = tasks[s][p].attempt + 1]]
  /\ UNCHANGED <<stack, next_task, recomputed_stages>>

GiveUp(s, p) ==
  /\ tasks[s][p].state = "failed"
  /\ ~ Recoverable(tasks[s][p])
  /\ tasks[s][p].attempt >= MaxRetries
  /\ Report(s, p, "exhausted", {})
  /\ UNCHANGED <<stack, next_task, recomputed_stages>>

ProcessResult ==
  /\ stack # <<>>
  /\ \E p \in Unprocessed(Active) :
        /\ NextResult(Active, p)
        /\ \/ Accept(Active, p)
           \/ Recover(Active, p)
           \/ Retry(Active, p)
           \/ GiveUp(Active, p)
  /\ UNCHANGED <<cursor, files, blocks, metricsVars, outcome, faults, lost>>

\* `while pending`: the tasks to run again are the next batch.
NextBatch ==
  /\ stack # <<>>
  /\ InState(Active, {"again", "done", "exhausted"})
  /\ ~ InState(Active, {"done", "exhausted"})
  /\ tasks' = [tasks EXCEPT ![Active] =
                 [p \in Parts(Active) |->
                    IF tasks[Active][p].state = "again"
                      THEN [tasks[Active][p] EXCEPT !.state = "pending"]
                      ELSE tasks[Active][p]]]
  /\ UNCHANGED <<cursor, stack, next_task, files, blocks, recomputed_stages,
                 metricsVars, outcome, faults, lost>>

\* Mutant: fresh blocks are appended to the stale ones.
RegisteredAppended(s) ==
  IF IsShuffleWrite(s)
    THEN [blocks EXCEPT ![s] = @ \union
            UNION {BlocksOf(s, p, tasks[s][p].id) : p \in Parts(s)}]
    ELSE blocks

\* What the blocks map is once stage s has returned.
Registered(s) ==
  IF IsShuffleWrite(s)
    THEN [blocks EXCEPT ![s] =
            UNION {BlocksOf(s, p, tasks[s][p].id) : p \in Parts(s)}]
    ELSE blocks

\* Mutant: the recovered task keeps the blocks it had.
ResumeStale(caller, manager) ==
  tasks' = [tasks EXCEPT ![caller] =
              [p \in Parts(caller) |->
                 IF tasks[caller][p].state = "recovering"
                   THEN [tasks[caller][p] EXCEPT !.state = "again", !.missing = {}]
                   ELSE tasks[caller][p]]]

\* The task of the calling frame that waits for this recomputation gets the
\* blocks registered now, for every leaf, and its attempt is not charged.
Resume(caller, manager) ==
  tasks' = [tasks EXCEPT ![caller] =
              [p \in Parts(caller) |->
                 IF tasks[caller][p].state = "recovering"
                   THEN [tasks[caller][p] EXCEPT !.state = "again", !.missing = {},
                                                 !.blocks = Resolve(manager, caller, p)]
                   ELSE tasks[caller][p]]]

StageDone(s) == InState(s, {"done"})

\* Every task is done: _run_stage appends metrics, registers and returns.
FinishStage ==
  /\ stack # <<>>
  /\ StageDone(Active)
  /\ stage_metrics' =
       Append(stage_metrics,
              [stage_id |-> Active,
               retried_tasks |-> Cardinality({p \in Parts(Active) : tasks[Active][p].attempt > 0}),
               recomputed |-> Last(stack).recomputed])
  /\ blocks' = Registered(Active)
  /\ stack' = Front(stack)
  /\ IF Len(stack) = 1
       THEN cursor' = cursor + 1 /\ UNCHANGED tasks
       ELSE Resume(Last(Front(stack)).stage, Registered(Active)) /\ UNCHANGED cursor
  /\ UNCHANGED <<next_task, files, recomputed_stages, last_metrics, outcome,
                 faults, lost>>

\* TaskExecutionError, through every open _run_stage.
RaiseTaskError ==
  /\ stack # <<>>
  /\ InState(Active, {"done", "exhausted"})
  /\ Exhausted(Active) # {}
  /\ Finish("raised")
  /\ stack' = <<>>
  /\ UNCHANGED <<cursor, tasks, next_task, blocks, recomputed_stages,
                 stage_metrics, faults, lost>>

\* A worker of the pool is killed: pool.map raises BrokenProcessPool, which
\* nothing catches.  A batch of one task never uses the pool.
WorkerDies ==
  /\ WorkersMayDie
  /\ stack # <<>>
  /\ NumWorkers > 1
  /\ Pending(Active) # {}
  /\ Cardinality(Pending(Active) \union Unprocessed(Active)) > 1
  /\ Finish("raised")
  /\ stack' = <<>>
  /\ UNCHANGED <<cursor, tasks, next_task, blocks, recomputed_stages,
                 stage_metrics, faults, lost>>

ReturnDataset ==
  /\ outcome = "running"
  /\ stack = <<>>
  /\ cursor = NumStages
  /\ Finish("success")
  /\ UNCHANGED <<cursor, stack, tasks, next_task, blocks, recomputed_stages,
                 stage_metrics, faults, lost>>

-----------------------------------------------------------------------------
(* The environment: a block file vanishes or its bytes no longer match the *)
(* recorded checksum; a reader treats both alike.                          *)
LoseBlock ==
  /\ outcome = "running"
  /\ Cardinality(lost) < MaxLosses
  /\ \E b \in files : files' = files \ {b} /\ lost' = lost \union {b}
  /\ UNCHANGED <<cursor, stack, tasks, next_task, blocks, recomputed_stages,
                 metricsVars, outcome, faults>>

Driver ==
  \/ StartStage
  \/ ProcessResult
  \/ NextBatch
  \/ FinishStage
  \/ RaiseTaskError
  \/ ReturnDataset

Next ==
  \/ Driver
  \/ RunTask
  \/ WorkerDies
  \/ LoseBlock

Spec == Init /\ [][Next]_vars

\* The driver thread keeps running and the operating system keeps scheduling
\* the workers; nothing obliges a fault, a death or a loss to happen, except
\* that a task that is run ends in one of its three ways.
FairSpec == Spec /\ WF_vars(Driver) /\ WF_vars(RunTask)
-----------------------------------------------------------------------------
(* Properties.                                                             *)

\* The blocks of one run of stage s whose first task id is base.
RunBlocks(s, base) == UNION {BlocksOf(s, p, base + p) : p \in Parts(s)}

\* What the task of partition p of stage s holds for a leaf is what one
\* single run of the leaf's stage wrote for that target: nothing missing,
\* nothing twice, no mixture of a run and its recomputation.
HoldsOneRun(task, leaf, p) ==
  \E base \in 0 .. next_task :
     {b \in task.blocks : b.stage = leaf.from}
       = {b \in RunBlocks(leaf.from, base) : b.target = TargetOf(leaf, p)}

\* Every task built holds one whole run of each stage it reads.  This is
\* about _resolve_shuffle_blocks, called when a stage starts and again after
\* a recovery, and about register_blocks, which must overwrite.
ReadsOneRun ==
  \A s \in Stages : \A p \in Parts(s) :
     tasks[s][p].state # "none" =>
        \A leaf \in Reads[s] : HoldsOneRun(tasks[s][p], leaf, p)

\* A run of a stage that has not returned writes to no path that a reader was
\* given: the retries of an attempt reuse their task's id, recomputations
\* draw new ids, so no block is ever rewritten under its reader.
WritersUseFreshPaths ==
  \A i \in DOMAIN stack :
     LET s == stack[i].stage IN
     \A p \in Parts(s) :
        LET mine == BlocksOf(s, p, tasks[s][p].id) IN
        /\ mine \cap blocks[s] = {}
        /\ \A r \in Stages : \A q \in Parts(r) : mine \cap tasks[r][q].blocks = {}

\* _try_recover_missing_shuffle: a stage is run once by the for loop and is
\* recomputed at most once, however many tasks miss its blocks, however often
\* they are lost and however deep the recovery nests.
AtMostOneRecompute ==
  /\ \A i, j \in DOMAIN stage_metrics :
        /\ stage_metrics[i].stage_id = stage_metrics[j].stage_id
        /\ stage_metrics[i].recomputed = stage_metrics[j].recomputed
        => i = j
  /\ \A i, j \in DOMAIN stack :
        stack[i].stage = stack[j].stage => i = j
  /\ \A i \in DOMAIN stage_metrics, j \in DOMAIN stack :
        stage_metrics[i].stage_id = stack[j].stage =>
           ~ stage_metrics[i].recomputed /\ stack[j].recomputed

\* The position of the last entry for stage s.
LastRun(log, s) ==
  CHOOSE i \in DOMAIN log :
     log[i].stage_id = s /\ \A j \in DOMAIN log : log[j].stage_id = s => j <= i

\* The metrics of a query that succeeded account for all its runs: one entry
\* of each stage's own run, one more of each recomputed stage, and the last
\* run of a stage comes before the last run of the stage that reads it.
MetricsTellTheRuns ==
  outcome = "success" =>
    /\ {m.stage_id : m \in {m \in Range(last_metrics) : ~ m.recomputed}} = Stages
    /\ {m.stage_id : m \in {m \in Range(last_metrics) : m.recomputed}} = recomputed_stages
    /\ Len(last_metrics) = NumStages + Cardinality(recomputed_stages)
    /\ \A s \in Stages : \A leaf \in Reads[s] :
          LastRun(last_metrics, leaf.from) < LastRun(last_metrics, s)

\* Some stage lost two blocks, or one that several tasks read.
LossHasTwoReaders ==
  \/ \E b, c \in lost : b # c /\ b.stage = c.stage
  \/ \E b \in lost : \E s \in Stages : [from |-> b.stage, broadcast |-> TRUE] \in Reads[s]

\* A recovery costs a task none of its retries (execution-model.md), and gives
\* it readable blocks of every leaf: as long as each stage's loss hits one
\* reader, only failures on their own merits exhaust a task.
RetriesPayForFaults ==
  \A s \in Stages : \A p \in Parts(s) :
    tasks[s][p].state = "exhausted" => faults > MaxRetries \/ LossHasTwoReaders

\* README.md: if an upstream stage's shuffle output goes missing, that whole
\* stage recomputes and the query still finishes.
LossIsRecovered == faults = 0 => outcome # "raised"

\* run_plan returns or raises whatever is lost, and however often.
QueryEnds == <>(outcome # "running")

\* What is left of a task's life: its retries, and the steps of its attempt.
Left(attempt, state) ==
  3 * (MaxRetries - attempt) + CASE state = "again" -> 3
                                 [] state = "pending" -> 2
                                 [] state \in {"success", "failed"} -> 1
                                 [] OTHER -> 0

StepsLeft(s) == [p \in Parts(s) |-> Left(tasks[s][p].attempt, tasks[s][p].state)]

SumOver(w, S) == MapThenSumSet(LAMBDA x : w[x], S)

\* What is left of the query, the weightiest part first: the stages that may
\* still be recomputed, the iterations of the loop, the open calls (the next
\* iteration's is still to come), the active stage's tasks, the files to lose.
Remaining ==
  << IF outcome = "running" THEN 1 ELSE 0,
     Cardinality(Stages \ recomputed_stages),
     NumStages - cursor,
     IF stack = <<>> THEN 2 ELSE Len(stack),
     IF stack = <<>> THEN 0 ELSE SumOver(StepsLeft(Active), Parts(Active)),
     Cardinality(files) >>

\* The first place at which two tuples of natural numbers differ counts.
Less(a, b) ==
  /\ a \in Seq(Nat)
  /\ \E i \in DOMAIN a : a[i] < b[i] /\ \A j \in 1 .. i - 1 : a[j] = b[j]

\* Every step uses something up: no batch, retry or recovery brings back what
\* was left before, whatever fails or is lost in between.
EveryStepCounts == [][Less(Remaining', Remaining)]_vars

\* A query that is running has a next step: the loop over the stages, a task of
\* the batch, a result to look at, or a batch that is all looked at.  It never
\* waits for a task that a recovery has left behind.
CanGoOn ==
  outcome = "running" /\ stack # <<>> =>
    \/ \E p \in Parts(Active) : MayRun(Active, p) \/ NextResult(Active, p)
    \/ InState(Active, {"again", "done", "exhausted"})

\* The stages whose whole output a reader can be given, for QueryPromise:
\* every task of the stage holds all of its input, and all that its run wrote
\* is registered (or, for the result stage, is the dataset to return).  A
\* stage stays available while it is run again, and when that run raises.
Available ==
  {s \in Stages :
     /\ s < cursor
     /\ \/ InState(s, {"done"})
        \/ \E i \in DOMAIN stack : stack[i].stage = s
        \/ outcome = "raised"
     /\ IsShuffleWrite(s) => \E base \in 0 .. next_task : blocks[s] = RunBlocks(s, base)
     /\ \A p \in Parts(s) : \A leaf \in Reads[s] : HoldsOneRun(tasks[s][p], leaf, p)}

Promise ==
  INSTANCE QueryPromise WITH
    Stages <- Stages,
    Sources <- [s \in Stages |-> {leaf.from : leaf \in Reads[s]}],
    available <- Available,
    outcome <- outcome

\* The scheduler keeps the promise of QueryPromise: stages become available
\* only after the stages they read, none is ever taken back by a recovery,
\* and a dataset is returned only when all of them are.
KeepsPromise == Promise!Spec
=============================================================================
