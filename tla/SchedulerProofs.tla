--------------------------- MODULE SchedulerProofs ---------------------------
(***************************************************************************)
(* Proofs about Scheduler for every plan, every number of workers, retries,*)
(* faults and losses.  IInv is the inductive invariant: its parts say how  *)
(* the call stack, the registered blocks and the task ids hang together.   *)
(* What follows it builds on it: that no run overwrites what a reader      *)
(* holds, that a recovery costs a task none of its retries, that the       *)
(* scheduler implements QueryPromise, that the metrics of a query that     *)
(* succeeded tell its runs, and that every query ends.  For these, effects *)
(* name what each action does to the tasks, one by one, and the invariants *)
(* are proved over the effects.                                            *)
(***************************************************************************)
EXTENDS Scheduler, DataTheorems, SequenceTheorems

\* PlanAssumption in the words of this module.
LEMMA PlanFacts ==
  /\ NumStages \in Nat \ {0}
  /\ NumPartitions \in [Stages -> Nat \ {0}]
  /\ Reads \in [Stages -> SUBSET Leaf]
  /\ \A s \in Stages : \A leaf \in Reads[s] : leaf.from < s
  /\ \A s1, s2 \in Stages : \A l1 \in Reads[s1], l2 \in Reads[s2] :
        l1.from = l2.from => s1 = s2 /\ l1 = l2
  /\ DOMAIN Emits = Stages
  /\ \A s \in Stages : Emits[s] \in [Parts(s) -> SUBSET Nat]
  /\ \A s \in Stages : \A p \in Parts(s) : IsFiniteSet(Emits[s][p])
  /\ \A p \in Parts(ResultStage) : Emits[ResultStage][p] = {}
PROOF
<1>1. Leaf = Leaves(NumStages) /\ Stages = StageIds(NumStages)
  BY DEF Leaf, Leaves, Stages, StageIds
<1>2. \A s : Parts(s) = PartitionIds(NumPartitions, s)
  BY DEF Parts, PartitionIds
<1> QED
  BY PlanAssumption, <1>1, <1>2 DEF WellFormed, ResultStage

\* The for loop's call is at the bottom of the stack, every other call is a
\* recomputation, and a call runs an earlier stage than its caller.
StackInv ==
  /\ stack # <<>> => /\ cursor < NumStages
                     /\ stack[1] = [stage |-> cursor, recomputed |-> FALSE]
  /\ \A i \in DOMAIN stack : i > 1 =>
        stack[i].recomputed /\ stack[i].stage \in recomputed_stages
  /\ \A i, j \in DOMAIN stack : i < j => stack[j].stage < stack[i].stage

\* Only stages the loop has left are recomputed; the log records each run
\* once it has returned.
LogInv ==
  /\ \A s \in recomputed_stages : s < cursor
  /\ \A i \in DOMAIN stage_metrics :
        IF stage_metrics[i].recomputed
          THEN /\ stage_metrics[i].stage_id \in recomputed_stages
               /\ \A j \in DOMAIN stack : stack[j].stage # stage_metrics[i].stage_id
          ELSE stage_metrics[i].stage_id < cursor
  /\ \A i, j \in DOMAIN stage_metrics :
        /\ stage_metrics[i].stage_id = stage_metrics[j].stage_id
        /\ stage_metrics[i].recomputed = stage_metrics[j].recomputed
        => i = j

\* A task only holds, and only misses, blocks of stages before its own.
BelowInv ==
  \A s \in Stages : \A p \in Parts(s) :
     /\ \A b \in tasks[s][p].blocks : b.stage < s
     /\ \A m \in tasks[s][p].missing : m < s

\* The ids of a stage's tasks are consecutive.
IdInv ==
  \A s \in Stages :
     \/ \A p \in Parts(s) : tasks[s][p].state = "none"
     \/ \E base \in 0 .. next_task : \A p \in Parts(s) : tasks[s][p].id = base + p

\* Of a shuffle-write stage the loop has left, one whole run is registered.
RegInv(manager, n) ==
  \A s \in Stages :
     /\ \A b \in manager[s] : b.stage = s
     /\ s < cursor /\ IsShuffleWrite(s) =>
           \E base \in 0 .. n : manager[s] = RunBlocks(s, base)

IInv ==
  /\ TypeOK
  /\ StackInv
  /\ LogInv
  /\ BelowInv
  /\ IdInv
  /\ RegInv(blocks, next_task)
  /\ ReadsOneRun

-----------------------------------------------------------------------------
(* Lemmas about the operators of the model.                                *)

\* The stage the driver runs is the one of the last frame.
LEMMA ActiveFrame ==
  ASSUME TypeOK, stack # <<>>
  PROVE  /\ Len(stack) \in Nat \ {0}
         /\ Len(stack) \in DOMAIN stack
         /\ Last(stack) = stack[Len(stack)]
         /\ Last(stack) \in Frame
         /\ Active \in Stages
<1>1. stack \in Seq(Frame)
  BY DEF TypeOK
<1>2. Len(stack) \in Nat \ {0} /\ Len(stack) \in DOMAIN stack
  BY <1>1
<1>3. Last(stack) = stack[Len(stack)] /\ stack[Len(stack)] \in Frame
  BY <1>1, <1>2 DEF Last
<1> QED BY <1>2, <1>3 DEF Active, Frame

\* Popping a frame leaves the others as they were.
LEMMA PoppedFrames ==
  ASSUME TypeOK, stack # <<>>
  PROVE  /\ Front(stack) \in Seq(Frame)
         /\ Len(Front(stack)) = Len(stack) - 1
         /\ \A i \in DOMAIN Front(stack) : i \in DOMAIN stack /\ Front(stack)[i] = stack[i]
<1>1. stack \in Seq(Frame)
  BY DEF TypeOK
<1>2. Len(stack) \in Nat \ {0}
  BY ActiveFrame
<1>3. Front(stack) = SubSeq(stack, 1, Len(stack) - 1)
  BY DEF Front
<1> DEFINE n == Len(stack) - 1
<1>4. n \in Nat /\ \A i \in 1 .. n : stack[i] \in Frame
  BY <1>1, <1>2
<1>5. /\ SubSeq(stack, 1, n) \in Seq(Frame)
      /\ Len(SubSeq(stack, 1, n)) = IF 1 <= n THEN n - 1 + 1 ELSE 0
      /\ \A i \in 1 .. n - 1 + 1 : SubSeq(stack, 1, n)[i] = stack[1 + i - 1]
  <2> HIDE DEF n
  <2> QED BY <1>4, SubSeqProperties
<1>6. Len(Front(stack)) = n
  <2>1. n \in Nat /\ Front(stack) = SubSeq(stack, 1, n)
    BY <1>3, <1>4
  <2>2. Len(SubSeq(stack, 1, n)) = IF 1 <= n THEN n - 1 + 1 ELSE 0
    BY <1>5
  <2> HIDE DEF n
  <2> QED BY <2>1, <2>2
<1>7. ASSUME NEW i \in 1 .. n
      PROVE  Front(stack)[i] = stack[i]
  <2>1. n \in Nat /\ Front(stack) = SubSeq(stack, 1, n)
    BY <1>3, <1>4
  <2> HIDE DEF n
  <2>2. n - 1 + 1 = n /\ 1 + i - 1 = i
    BY ONLY <2>1, i \in 1 .. n
  <2>3. SubSeq(stack, 1, n)[i] = stack[1 + i - 1]
    BY <1>5, <2>2
  <2> QED BY <2>1, <2>2, <2>3
<1>8. DOMAIN Front(stack) = 1 .. n /\ DOMAIN stack = 1 .. Len(stack)
  BY <1>1, <1>3, <1>5, <1>6
<1> QED BY <1>2, <1>3, <1>5, <1>6, <1>7, <1>8

\* The partitions of a stage are finitely many.
LEMMA PartsFinite ==
  ASSUME NEW s \in Stages
  PROVE  /\ IsFiniteSet(Parts(s))
         /\ Parts(s) \subseteq Nat
         /\ 0 \in Parts(s)
<1> DEFINE n == NumPartitions[s]
<1>1. n \in Nat \ {0}
  BY PlanFacts
<1> HIDE DEF n
<1>2. IsFiniteSet(0 .. n - 1)
  BY <1>1, FS_Interval
<1>3. 0 .. n - 1 \subseteq Nat /\ 0 \in 0 .. n - 1
  BY <1>1
<1> QED BY <1>2, <1>3 DEF Parts, n

\* A task of a stage writes blocks that are well formed.
LEMMA BlocksOfType ==
  ASSUME NEW s \in Stages, NEW p \in Parts(s), NEW id \in Nat
  PROVE  BlocksOf(s, p, id) \subseteq Block
<1>1. Emits[s][p] \subseteq Nat
  BY PlanFacts
<1>2. p \in Nat
  BY PartsFinite
<1> QED BY <1>1, <1>2 DEF BlocksOf, Block

\* Resolved blocks are registered blocks of earlier stages.
LEMMA ResolveType ==
  ASSUME NEW manager \in [Stages -> SUBSET Block], NEW s \in Stages, NEW p
  PROVE  Resolve(manager, s, p) \subseteq Block
<1> SUFFICES ASSUME NEW leaf \in Reads[s]
             PROVE  BlocksFor(manager, leaf.from, TargetOf(leaf, p)) \subseteq Block
  BY DEF Resolve
<1>1. leaf.from \in Stages
  BY PlanFacts DEF Leaf
<1> QED BY <1>1 DEF BlocksFor

LEMMA FreshTasksType ==
  ASSUME TypeOK, NEW s \in Stages
  PROVE  FreshTasks(s) \in [Parts(s) -> Task]
<1> SUFFICES ASSUME NEW p \in Parts(s)
             PROVE  [id |-> next_task + p, blocks |-> Resolve(blocks, s, p), attempt |-> 0,
                     state |-> "pending", missing |-> {}] \in Task
  BY DEF FreshTasks
<1>1. next_task + p \in Nat
  BY PartsFinite DEF TypeOK
<1>2. Resolve(blocks, s, p) \subseteq Block
  BY ResolveType DEF TypeOK
<1> QED BY <1>1, <1>2 DEF Task, TaskStates

\* Changing the state of one task keeps the tasks well formed.
LEMMA ReportType ==
  ASSUME TypeOK, NEW s \in Stages, NEW p \in Parts(s), NEW state \in TaskStates,
         NEW missing \in SUBSET Stages, Report(s, p, state, missing)
  PROVE  /\ DOMAIN tasks' = Stages
         /\ \A r \in Stages : tasks'[r] \in [Parts(r) -> Task]
<1>1. DOMAIN tasks = Stages /\ \A r \in Stages : tasks[r] \in [Parts(r) -> Task]
  BY DEF TypeOK
<1>2. tasks[s][p] \in Task
  BY <1>1
<1>3. [tasks[s][p] EXCEPT !.state = state, !.missing = missing] \in Task
  BY <1>2 DEF Task
<1> QED BY <1>1, <1>3 DEF Report

\* What a registration leaves is well formed.
LEMMA RegisteredType ==
  ASSUME TypeOK, NEW s \in Stages
  PROVE  Registered(s) \in [Stages -> SUBSET Block]
<1>1. \A p \in Parts(s) : tasks[s][p].id \in Nat
  BY DEF TypeOK, Task
<1>2. UNION {BlocksOf(s, p, tasks[s][p].id) : p \in Parts(s)} \subseteq Block
  BY <1>1, BlocksOfType
<1> QED BY <1>2 DEF Registered, TypeOK

-----------------------------------------------------------------------------
(* Type correctness.                                                       *)

\* The tasks stay well formed: one partition's task replaced by another.
LEMMA PutTaskType ==
  ASSUME TypeOK, NEW s \in Stages, NEW p \in Parts(s), NEW task \in Task,
         tasks' = [tasks EXCEPT ![s][p] = task]
  PROVE  /\ DOMAIN tasks' = Stages
         /\ \A r \in Stages : tasks'[r] \in [Parts(r) -> Task]
BY DEF TypeOK

\* Or all tasks of a stage replaced.
LEMMA PutStageType ==
  ASSUME TypeOK, NEW s \in Stages, NEW batch \in [Parts(s) -> Task],
         tasks' = [tasks EXCEPT ![s] = batch]
  PROVE  /\ DOMAIN tasks' = Stages
         /\ \A r \in Stages : tasks'[r] \in [Parts(r) -> Task]
BY DEF TypeOK

\* The initial state is well formed.
LEMMA TypeInit == Init => TypeOK
<1> SUFFICES ASSUME Init PROVE TypeOK
  OBVIOUS
<1>1. [id |-> 0, blocks |-> {}, attempt |-> 0, state |-> "none", missing |-> {}] \in Task
  BY DEF Task, TaskStates
<1>2. NumStages \in Nat /\ MaxFaults \in Nat
  BY PlanFacts, BoundAssumption
<1>3. <<>> \in Seq(Frame) /\ <<>> \in Seq(Metrics)
  OBVIOUS
<1> QED BY <1>1, <1>2, <1>3 DEF Init, TypeOK

\* The steps of a task keep the state well formed.
LEMMA TypeRunTask == TypeOK /\ RunTask => TypeOK'
<1> SUFFICES ASSUME TypeOK, RunTask PROVE TypeOK'
  OBVIOUS
<1>1. Active \in Stages
  BY ActiveFrame DEF RunTask
<1>2. PICK p \in Pending(Active) :
         TaskSucceeds(Active, p) \/ TaskMissesBlocks(Active, p) \/ TaskFails(Active, p)
  BY DEF RunTask
<1>3. p \in Parts(Active)
  BY <1>2 DEF Pending
<1>4. tasks[Active][p] \in Task
  BY <1>1, <1>3 DEF TypeOK
<1>5. BlocksOf(Active, p, tasks[Active][p].id) \subseteq Block
  <2>1. tasks[Active][p].id \in Nat
    BY <1>4 DEF Task
  <2> QED BY <1>1, <1>3, <2>1, BlocksOfType
<1>6. \A m \in Unreadable(tasks[Active][p]) : m \in Stages
  BY <1>4 DEF Unreadable, Task, Block
<1>7. /\ DOMAIN tasks' = Stages
      /\ \A r \in Stages : tasks'[r] \in [Parts(r) -> Task]
  <2>1. \E state \in TaskStates, missing \in SUBSET Stages :
           Report(Active, p, state, missing)
    BY <1>2, <1>6 DEF TaskSucceeds, TaskMissesBlocks, TaskFails, TaskStates
  <2> QED BY <1>1, <1>3, <2>1, ReportType
<1>8. files' \subseteq Block
  BY <1>2, <1>5 DEF TaskSucceeds, TaskMissesBlocks, TaskFails, TypeOK
<1>9. faults' \in 0 .. MaxFaults
  <2>1. faults \in 0 .. MaxFaults /\ MaxFaults \in Nat
    BY BoundAssumption DEF TypeOK
  <2>2. faults' = faults \/ (faults < MaxFaults /\ faults' = faults + 1)
    BY <1>2 DEF TaskSucceeds, TaskMissesBlocks, TaskFails
  <2> QED BY <2>1, <2>2
<1> QED BY <1>7, <1>8, <1>9 DEF RunTask, TypeOK, metricsVars

\* Entering a stage keeps the stack and the id counter well formed.
LEMMA EnterStageType ==
  ASSUME TypeOK, NEW s \in Stages, NEW recomputed \in BOOLEAN, EnterStage(s, recomputed)
  PROVE  stack' \in Seq(Frame) /\ next_task' \in Nat
<1>1. [stage |-> s, recomputed |-> recomputed] \in Frame
  BY DEF Frame
<1>2. NumPartitions[s] \in Nat
  BY PlanFacts
<1> QED BY <1>1, <1>2 DEF EnterStage, TypeOK

\* A processed result, recovery included, leaves the state well formed.
LEMMA TypeProcessResult == TypeOK /\ ProcessResult => TypeOK'
<1> SUFFICES ASSUME TypeOK, ProcessResult PROVE TypeOK'
  OBVIOUS
<1>1. Active \in Stages
  BY ActiveFrame DEF ProcessResult
<1>2. PICK p \in Unprocessed(Active) :
         \/ Accept(Active, p)
         \/ Recover(Active, p)
         \/ Retry(Active, p)
         \/ GiveUp(Active, p)
  BY DEF ProcessResult
<1>3. p \in Parts(Active)
  BY <1>2 DEF Unprocessed
<1>4. tasks[Active][p] \in Task
  BY <1>1, <1>3 DEF TypeOK
<1>5. CASE Recover(Active, p)
  <2>1. PICK m \in tasks[Active][p].missing \ recomputed_stages :
           /\ recomputed_stages' = recomputed_stages \union {m}
           /\ EnterStage(m, TRUE)
           /\ tasks' = [tasks EXCEPT
                          ![Active][p] = [tasks[Active][p] EXCEPT !.state = "recovering"],
                          ![m] = FreshTasks(m)]
    BY <1>5 DEF Recover
  <2>2. m \in Stages
    BY <1>4 DEF Task
  <2>3. FreshTasks(m) \in [Parts(m) -> Task]
    BY <2>2, FreshTasksType
  <2>4. [tasks[Active][p] EXCEPT !.state = "recovering"] \in Task
    BY <1>4 DEF Task, TaskStates
  <2>5. /\ DOMAIN tasks' = Stages
        /\ \A r \in Stages : tasks'[r] \in [Parts(r) -> Task]
    BY <1>1, <1>3, <2>1, <2>2, <2>3, <2>4 DEF TypeOK
  <2>6. stack' \in Seq(Frame) /\ next_task' \in Nat
    BY <2>1, <2>2, EnterStageType
  <2>7. recomputed_stages' \subseteq Stages
    BY <2>1, <2>2 DEF TypeOK
  <2> QED BY <2>5, <2>6, <2>7 DEF ProcessResult, TypeOK, metricsVars
<1>6. CASE Accept(Active, p) \/ Retry(Active, p) \/ GiveUp(Active, p)
  <2>1. \E task \in Task : tasks' = [tasks EXCEPT ![Active][p] = task]
    <3>1. CASE Accept(Active, p) \/ GiveUp(Active, p)
      <4>1. /\ [tasks[Active][p] EXCEPT !.state = "done", !.missing = {}] \in Task
            /\ [tasks[Active][p] EXCEPT !.state = "exhausted", !.missing = {}] \in Task
        BY <1>4 DEF Task, TaskStates
      <4> QED BY <3>1, <4>1 DEF Accept, GiveUp, Report
    <3>2. CASE Retry(Active, p)
      <4> DEFINE n == tasks[Active][p].attempt + 1
                 again == [tasks[Active][p] EXCEPT !.state = "again", !.missing = {},
                                                   !.attempt = n]
      <4>1. again \in Task
        <5>1. n \in Nat
          BY <1>4 DEF Task
        <5> HIDE DEF n
        <5> QED BY <1>4, <5>1 DEF Task, TaskStates
      <4>2. tasks' = [tasks EXCEPT ![Active][p] = again]
        BY <3>2 DEF Retry
      <4> HIDE DEF again
      <4> QED BY <4>1, <4>2
    <3> QED BY <1>6, <3>1, <3>2
  <2>2. /\ DOMAIN tasks' = Stages
        /\ \A r \in Stages : tasks'[r] \in [Parts(r) -> Task]
    BY <1>1, <1>3, <2>1, PutTaskType
  <2>3. UNCHANGED <<stack, next_task, recomputed_stages>>
    BY <1>6 DEF Accept, Retry, GiveUp
  <2> QED BY <2>2, <2>3 DEF ProcessResult, TypeOK, metricsVars
<1> QED BY <1>2, <1>5, <1>6

\* A stage that returns leaves the state well formed.
LEMMA TypeFinishStage == TypeOK /\ StackInv /\ FinishStage => TypeOK'
<1> SUFFICES ASSUME TypeOK, StackInv, FinishStage PROVE TypeOK'
  OBVIOUS
<1>1. stack # <<>> /\ Active \in Stages /\ Last(stack) \in Frame
  BY ActiveFrame DEF FinishStage
<1>2. Registered(Active) \in [Stages -> SUBSET Block]
  BY <1>1, RegisteredType
<1>3. stage_metrics' \in Seq(Metrics)
  <2> DEFINE retried == {p \in Parts(Active) : tasks[Active][p].attempt > 0}
  <2>1. Cardinality(retried) \in Nat
    BY <1>1, PartsFinite, FS_Subset, FS_CardinalityType
  <2>2. [stage_id |-> Active, retried_tasks |-> Cardinality(retried),
         recomputed |-> Last(stack).recomputed] \in Metrics
    BY <1>1, <2>1 DEF Metrics, Frame
  <2> QED BY <2>2 DEF FinishStage, TypeOK
<1>4. stack' \in Seq(Frame)
  BY <1>1, PoppedFrames DEF FinishStage
<1>5. /\ cursor' \in 0 .. NumStages
      /\ DOMAIN tasks' = Stages
      /\ \A r \in Stages : tasks'[r] \in [Parts(r) -> Task]
  <2>1. CASE Len(stack) = 1
    <3>1. cursor' = cursor + 1 /\ UNCHANGED tasks
      BY <2>1 DEF FinishStage
    <3>2. cursor \in 0 .. NumStages /\ cursor < NumStages /\ NumStages \in Nat
      BY <1>1, PlanFacts DEF TypeOK, StackInv
    <3> QED BY <3>1, <3>2 DEF TypeOK
  <2>2. CASE Len(stack) # 1
    <3> DEFINE caller == Last(Front(stack)).stage
    <3>1. cursor' = cursor /\ Resume(caller, Registered(Active))
      BY <2>2 DEF FinishStage
    <3>2. caller \in Stages
      <4>1. Front(stack) # <<>> /\ Front(stack) \in Seq(Frame)
        BY <1>1, <2>2, PoppedFrames, ActiveFrame
      <4>2. Last(Front(stack)) \in Frame
        BY <4>1 DEF Last
      <4> QED BY <4>2 DEF Frame
    <3> HIDE DEF caller
    <3>3. \A p \in Parts(caller) :
             IF tasks[caller][p].state = "recovering"
               THEN [tasks[caller][p] EXCEPT !.state = "again", !.missing = {},
                       !.blocks = Resolve(Registered(Active), caller, p)] \in Task
               ELSE tasks[caller][p] \in Task
      <4> SUFFICES ASSUME NEW p \in Parts(caller), tasks[caller][p] \in Task
                   PROVE  [tasks[caller][p] EXCEPT !.state = "again", !.missing = {},
                             !.blocks = Resolve(Registered(Active), caller, p)] \in Task
        BY <3>2 DEF TypeOK
      <4>1. Resolve(Registered(Active), caller, p) \in SUBSET Block
        BY <1>2, <3>2, ResolveType
      <4> QED BY <4>1 DEF Task, TaskStates
    <3> QED BY <3>1, <3>2, <3>3, PutStageType DEF Resume, TypeOK
  <2> QED BY <2>1, <2>2
<1> QED BY <1>2, <1>3, <1>4, <1>5 DEF FinishStage, TypeOK

\* Every step keeps the state well formed.
LEMMA TypeNext == TypeOK /\ StackInv /\ [Next]_vars => TypeOK'
<1> SUFFICES ASSUME TypeOK, StackInv, [Next]_vars PROVE TypeOK'
  OBVIOUS
<1>1. CASE StartStage
  <2>1. cursor \in Stages
    BY <1>1, PlanFacts DEF StartStage, TypeOK, Stages
  <2>2. stack' \in Seq(Frame) /\ next_task' \in Nat
    BY <1>1, <2>1, EnterStageType DEF StartStage
  <2>3. FreshTasks(cursor) \in [Parts(cursor) -> Task]
    BY <2>1, FreshTasksType
  <2>4. /\ DOMAIN tasks' = Stages
        /\ \A r \in Stages : tasks'[r] \in [Parts(r) -> Task]
    BY <1>1, <2>1, <2>3, PutStageType DEF StartStage
  <2> QED BY <1>1, <2>2, <2>4 DEF StartStage, TypeOK, metricsVars
<1>2. CASE ProcessResult
  BY <1>2, TypeProcessResult
<1>3. CASE NextBatch
  <2>1. Active \in Stages
    BY <1>3, ActiveFrame DEF NextBatch
  <2>2. \A p \in Parts(Active) :
           (IF tasks[Active][p].state = "again"
              THEN [tasks[Active][p] EXCEPT !.state = "pending"]
              ELSE tasks[Active][p]) \in Task
    <3> SUFFICES ASSUME NEW p \in Parts(Active), tasks[Active][p] \in Task
                 PROVE  [tasks[Active][p] EXCEPT !.state = "pending"] \in Task
      BY <2>1 DEF TypeOK
    <3> QED BY DEF Task, TaskStates
  <2>3. /\ DOMAIN tasks' = Stages
        /\ \A r \in Stages : tasks'[r] \in [Parts(r) -> Task]
    BY <1>3, <2>1, <2>2, PutStageType DEF NextBatch
  <2> QED BY <1>3, <2>3 DEF NextBatch, TypeOK, metricsVars
<1>4. CASE FinishStage
  BY <1>4, TypeFinishStage
<1>5. CASE RaiseTaskError \/ WorkerDies \/ ReturnDataset
  <2>1. outcome' \in {"success", "raised"} /\ files' = {} /\ last_metrics' = stage_metrics
    BY <1>5 DEF RaiseTaskError, WorkerDies, ReturnDataset, Finish
  <2>2. stack' \in Seq(Frame)
    <3>1. stack' = <<>> \/ stack' = stack
      BY <1>5 DEF RaiseTaskError, WorkerDies, ReturnDataset
    <3>2. <<>> \in Seq(Frame) /\ stack \in Seq(Frame)
      BY DEF TypeOK
    <3> QED BY <3>1, <3>2
  <2>3. UNCHANGED <<cursor, tasks, next_task, blocks, recomputed_stages,
                    stage_metrics, faults, lost>>
    BY <1>5 DEF RaiseTaskError, WorkerDies, ReturnDataset
  <2> QED BY <2>1, <2>2, <2>3 DEF TypeOK
<1>6. CASE LoseBlock
  BY <1>6 DEF LoseBlock, TypeOK, metricsVars
<1>7. CASE RunTask
  BY <1>7, TypeRunTask
<1>8. CASE UNCHANGED vars
  BY <1>8 DEF vars, metricsVars, TypeOK
<1> QED BY <1>1, <1>2, <1>3, <1>4, <1>5, <1>6, <1>7, <1>8 DEF Next, Driver

-----------------------------------------------------------------------------
(* The call stack and the log.                                             *)

\* Stages are numbers, in frames and in log entries.
LEMMA StagesAreNumbers ==
  ASSUME TypeOK
  PROVE  /\ Stages \subseteq Nat
         /\ \A i \in DOMAIN stack : stack[i] \in Frame /\ stack[i].stage \in Stages
         /\ \A i \in DOMAIN stage_metrics : stage_metrics[i].stage_id \in Stages
<1>1. Stages \subseteq Nat
  BY PlanFacts DEF Stages
<1>2. stack \in Seq(Frame) /\ stage_metrics \in Seq(Metrics)
  BY DEF TypeOK
<1>3. \A i \in DOMAIN stack : stack[i] \in Frame
  BY <1>2
<1>4. \A i \in DOMAIN stage_metrics : stage_metrics[i] \in Metrics
  BY <1>2
<1> QED BY <1>1, <1>3, <1>4 DEF Frame, Metrics

\* Pushing a frame leaves the others as they were.
LEMMA PushedFrames ==
  ASSUME TypeOK, NEW s \in Stages, NEW recomputed \in BOOLEAN, EnterStage(s, recomputed)
  PROVE  /\ Len(stack) \in Nat
         /\ DOMAIN stack = 1 .. Len(stack)
         /\ DOMAIN stack' = 1 .. Len(stack) + 1
         /\ \A i \in 1 .. Len(stack) : stack'[i] = stack[i]
         /\ stack'[Len(stack) + 1] = [stage |-> s, recomputed |-> recomputed]
<1>1. [stage |-> s, recomputed |-> recomputed] \in Frame
  BY DEF Frame
<1>2. stack \in Seq(Frame)
  BY DEF TypeOK
<1> QED BY <1>1, <1>2, AppendProperties DEF EnterStage

\* Entering the loop's next stage: the stack was empty.
LEMMA StackStartStage ==
  TypeOK /\ StackInv /\ LogInv /\ StartStage => StackInv' /\ LogInv'
<1> SUFFICES ASSUME TypeOK, StackInv, LogInv, StartStage PROVE StackInv' /\ LogInv'
  OBVIOUS
<1>1. cursor \in Stages /\ cursor < NumStages /\ stack = <<>>
  BY PlanFacts DEF StartStage, TypeOK, Stages
<1>2. DOMAIN stack' = 1 .. 1 /\ stack'[1] = [stage |-> cursor, recomputed |-> FALSE]
  <2>1. Len(stack) = 0
    BY <1>1
  <2>2. EnterStage(cursor, FALSE)
    BY DEF StartStage
  <2>3. /\ DOMAIN stack' = 1 .. Len(stack) + 1
        /\ stack'[Len(stack) + 1] = [stage |-> cursor, recomputed |-> FALSE]
    BY <1>1, <2>2, PushedFrames
  <2> QED BY <2>1, <2>3
<1>3. UNCHANGED <<cursor, recomputed_stages, stage_metrics>>
  BY DEF StartStage, metricsVars
<1>4. StackInv'
  BY <1>1, <1>2, <1>3 DEF StackInv
<1>5. \A i \in DOMAIN stage_metrics : stage_metrics[i].recomputed =>
         stage_metrics[i].stage_id < cursor
  BY DEF LogInv
<1>6. LogInv'
  <2>1. \A i \in DOMAIN stage_metrics : stage_metrics[i].recomputed =>
           \A j \in DOMAIN stack' : stack'[j].stage # stage_metrics[i].stage_id
    BY <1>1, <1>2, <1>5 DEF Stages
  <2> QED BY <1>3, <2>1 DEF LogInv
<1> QED BY <1>4, <1>6

\* A recovery recomputes a stage below every open one, which it has not
\* recomputed before.
LEMMA StackProcessResult ==
  TypeOK /\ StackInv /\ LogInv /\ BelowInv /\ ProcessResult => StackInv' /\ LogInv'
<1> SUFFICES ASSUME TypeOK, StackInv, LogInv, BelowInv, ProcessResult
             PROVE  StackInv' /\ LogInv'
  OBVIOUS
<1>1. Active \in Stages /\ stack # <<>> /\ Active = stack[Len(stack)].stage
      /\ Len(stack) \in Nat \ {0} /\ stack \in Seq(Frame)
  BY ActiveFrame DEF ProcessResult, Active, TypeOK
<1>2. PICK p \in Unprocessed(Active) :
         \/ Accept(Active, p)
         \/ Recover(Active, p)
         \/ Retry(Active, p)
         \/ GiveUp(Active, p)
  BY DEF ProcessResult
<1>3. p \in Parts(Active)
  BY <1>2 DEF Unprocessed
<1>4. UNCHANGED <<cursor, stage_metrics>>
  BY DEF ProcessResult, metricsVars
<1>5. CASE UNCHANGED <<stack, recomputed_stages>>
  BY <1>4, <1>5 DEF StackInv, LogInv
<1>6. CASE Recover(Active, p)
  <2>1. PICK m \in tasks[Active][p].missing \ recomputed_stages :
           /\ recomputed_stages' = recomputed_stages \union {m}
           /\ EnterStage(m, TRUE)
    BY <1>6 DEF Recover
  <2>2. m \in Stages /\ m < Active
    <3>1. tasks[Active][p] \in Task
      BY <1>1, <1>3 DEF TypeOK
    <3> QED BY <1>1, <1>3, <2>1, <3>1 DEF Task, BelowInv
  <2>3. \A i \in DOMAIN stack : stack[i].stage \in Stages /\ Active <= stack[i].stage
    <3>1. \A i \in DOMAIN stack : stack[i].stage \in Stages
      BY StagesAreNumbers
    <3>2. \A i \in DOMAIN stack : i = Len(stack) \/ i < Len(stack)
      BY <1>1
    <3>3. Len(stack) \in DOMAIN stack
      BY <1>1
    <3> QED BY <1>1, <3>1, <3>2, <3>3 DEF StackInv, Stages
  <2>4. m < cursor
    <3>1. 1 \in DOMAIN stack /\ stack[1].stage = cursor
      BY <1>1 DEF StackInv
    <3> QED BY <1>1, <2>2, <2>3, <3>1 DEF Stages
  <2> DEFINE n == Len(stack)
  <2>5. /\ n \in Nat \ {0}
        /\ DOMAIN stack = 1 .. n
        /\ DOMAIN stack' = 1 .. n + 1
        /\ \A i \in 1 .. n : stack'[i] = stack[i]
        /\ stack'[n + 1] = [stage |-> m, recomputed |-> TRUE]
    BY <1>1, <2>1, <2>2, PushedFrames
  <2>6. \A i \in DOMAIN stack' : i = n + 1 \/ (i \in DOMAIN stack /\ i < n + 1)
    <3> HIDE DEF n
    <3> QED BY <2>5
  <2>7. \A i \in DOMAIN stack : stack'[i] = stack[i] /\ m < stack[i].stage
    BY <1>1, <2>2, <2>3, <2>5 DEF Stages
  <2>8. 1 \in DOMAIN stack /\ n + 1 # 1
    BY <2>5
  <2> HIDE DEF n
  <2>9. StackInv'
    <3>1. cursor' < NumStages /\ stack'[1] = [stage |-> cursor', recomputed |-> FALSE]
      BY <1>1, <1>4, <2>7, <2>8 DEF StackInv
    <3>2. ASSUME NEW i \in DOMAIN stack', i > 1
          PROVE  stack'[i].recomputed /\ stack'[i].stage \in recomputed_stages'
      BY <2>1, <2>5, <2>6, <2>7, <3>2 DEF StackInv
    <3>3. ASSUME NEW i \in DOMAIN stack', NEW j \in DOMAIN stack', i < j
          PROVE  stack'[j].stage < stack'[i].stage
      <4>1. i \in DOMAIN stack /\ stack'[i] = stack[i]
        BY <2>5, <2>6, <2>7, <3>3
      <4>2. CASE j = n + 1
        BY <2>5, <2>7, <4>1, <4>2
      <4>3. CASE j \in DOMAIN stack
        BY <2>7, <3>3, <4>1, <4>3 DEF StackInv
      <4> QED BY <2>6, <4>2, <4>3
    <3> QED BY <3>1, <3>2, <3>3 DEF StackInv
  <2>10. LogInv'
    <3>1. \A s \in recomputed_stages' : s < cursor'
      BY <1>4, <2>1, <2>4 DEF LogInv
    <3>2. ASSUME NEW i \in DOMAIN stage_metrics, stage_metrics[i].recomputed,
                 NEW j \in DOMAIN stack'
          PROVE  stack'[j].stage # stage_metrics[i].stage_id
      <4>1. CASE j = n + 1
        BY <2>1, <2>5, <3>2, <4>1 DEF LogInv
      <4>2. CASE j \in DOMAIN stack
        BY <2>7, <3>2, <4>2 DEF LogInv
      <4> QED BY <2>6, <4>1, <4>2
    <3> QED BY <1>4, <2>1, <3>1, <3>2 DEF LogInv
  <2> QED BY <2>9, <2>10
<1> QED BY <1>2, <1>5, <1>6 DEF Accept, Retry, GiveUp

\* A stage that returns is logged once and its frame is gone.
LEMMA StackFinishStage ==
  TypeOK /\ StackInv /\ LogInv /\ FinishStage => StackInv' /\ LogInv'
<1> SUFFICES ASSUME TypeOK, StackInv, LogInv, FinishStage PROVE StackInv' /\ LogInv'
  OBVIOUS
<1> DEFINE n == Len(stack)
           top == stack[n]
<1>1. /\ stack # <<>> /\ n \in Nat \ {0} /\ n \in DOMAIN stack
      /\ Last(stack) = top /\ Active = top.stage /\ top \in Frame
      /\ DOMAIN stack = 1 .. n
  BY ActiveFrame DEF FinishStage, Active, TypeOK
<1>2. /\ DOMAIN stack' = 1 .. n - 1
      /\ \A i \in DOMAIN stack' : i \in DOMAIN stack /\ i < n /\ stack'[i] = stack[i]
  <2>1. /\ Front(stack) \in Seq(Frame)
        /\ Len(Front(stack)) = n - 1
        /\ \A i \in DOMAIN Front(stack) : i \in DOMAIN stack /\ Front(stack)[i] = stack[i]
    BY <1>1, PoppedFrames
  <2>2. stack' = Front(stack)
    BY DEF FinishStage
  <2>3. DOMAIN Front(stack) = 1 .. n - 1
    BY <2>1
  <2> HIDE DEF n
  <2> QED BY <1>1, <2>1, <2>2, <2>3
<1>3. UNCHANGED recomputed_stages /\ cursor' = IF n = 1 THEN cursor + 1 ELSE cursor
  BY DEF FinishStage
<1>4. cursor \in Nat /\ top.stage \in Nat
  BY <1>1, PlanFacts DEF TypeOK, Frame, Stages
<1>5. cursor < NumStages /\ stack[1] = [stage |-> cursor, recomputed |-> FALSE]
  BY <1>1 DEF StackInv
<1>6. IF n = 1 THEN top.stage = cursor /\ ~ top.recomputed
               ELSE top.recomputed /\ top.stage \in recomputed_stages
  BY <1>1, <1>5 DEF StackInv
<1>7. \A i \in DOMAIN stack' : top.stage < stack'[i].stage /\ stack'[i].stage \in Nat
  <2>1. \A i \in DOMAIN stack : stack[i].stage \in Nat
    BY StagesAreNumbers
  <2> QED BY <1>1, <1>2, <2>1 DEF StackInv
<1> DEFINE e == [stage_id |-> top.stage,
                 retried_tasks |-> Cardinality({p \in Parts(Active) : tasks[Active][p].attempt > 0}),
                 recomputed |-> top.recomputed]
           k == Len(stage_metrics)
<1>8. /\ k \in Nat
      /\ DOMAIN stage_metrics = 1 .. k
      /\ DOMAIN stage_metrics' = 1 .. k + 1
      /\ \A i \in 1 .. k : stage_metrics'[i] = stage_metrics[i]
      /\ stage_metrics'[k + 1] = e
  <2>1. stage_metrics' = Append(stage_metrics, e)
    BY <1>1 DEF FinishStage
  <2>2. Cardinality({p \in Parts(Active) : tasks[Active][p].attempt > 0}) \in Nat
    <3>1. Active \in Stages
      BY <1>1, ActiveFrame
    <3> QED BY <3>1, PartsFinite, FS_Subset, FS_CardinalityType
  <2>3. e \in Metrics
    BY <1>1, <2>2 DEF Metrics, Frame
  <2>4. stage_metrics \in Seq(Metrics)
    BY DEF TypeOK
  <2> HIDE DEF e
  <2> QED BY <2>1, <2>3, <2>4, AppendProperties
<1>9. e.stage_id = top.stage /\ e.recomputed = top.recomputed /\ top = stack[n]
  OBVIOUS
<1> HIDE DEF n, top, e, k
<1>10. \A i \in DOMAIN stage_metrics' : i = k + 1 \/ i \in DOMAIN stage_metrics
  BY <1>8
<1>11. StackInv'
  <2>1. stack' # <<>> => cursor' = cursor /\ stack'[1] = stack[1]
    <3> SUFFICES ASSUME n # 1 PROVE cursor' = cursor /\ stack'[1] = stack[1]
      BY <1>1, <1>2, PoppedFrames DEF FinishStage, n
    <3> QED BY <1>1, <1>2, <1>3
  <2>2. \A i \in DOMAIN stack' : i > 1 =>
           stack'[i].recomputed /\ stack'[i].stage \in recomputed_stages'
    BY <1>2, <1>3 DEF StackInv
  <2>3. \A i, j \in DOMAIN stack' : i < j => stack'[j].stage < stack'[i].stage
    BY <1>2 DEF StackInv
  <2> QED BY <1>5, <2>1, <2>2, <2>3 DEF StackInv
<1>12. LogInv'
  <2>1. \A s \in recomputed_stages' : s < cursor'
    BY <1>3, <1>4 DEF LogInv, TypeOK, Stages
  <2>2. ASSUME NEW i \in DOMAIN stage_metrics'
        PROVE  IF stage_metrics'[i].recomputed
                 THEN /\ stage_metrics'[i].stage_id \in recomputed_stages'
                      /\ \A j \in DOMAIN stack' : stack'[j].stage # stage_metrics'[i].stage_id
                 ELSE stage_metrics'[i].stage_id < cursor'
    <3>1. CASE i = k + 1
      BY <1>3, <1>4, <1>6, <1>7, <1>8, <1>9, <3>1
    <3>2. CASE i \in DOMAIN stage_metrics
      <4>1. stage_metrics[i].stage_id \in Nat
        BY <3>2, StagesAreNumbers
      <4> QED BY <1>2, <1>3, <1>4, <1>8, <3>2, <4>1 DEF LogInv
    <3> QED BY <1>10, <3>1, <3>2
  <2>3. ASSUME NEW i \in DOMAIN stage_metrics
        PROVE  ~ (stage_metrics[i].stage_id = e.stage_id
                  /\ stage_metrics[i].recomputed = e.recomputed)
    <3>1. stage_metrics[i].stage_id \in Nat
      BY StagesAreNumbers
    <3> QED BY <1>1, <1>4, <1>6, <1>9, <3>1 DEF LogInv
  <2>4. \A i, j \in DOMAIN stage_metrics' :
           /\ stage_metrics'[i].stage_id = stage_metrics'[j].stage_id
           /\ stage_metrics'[i].recomputed = stage_metrics'[j].recomputed
           => i = j
    BY <1>8, <1>10, <2>3 DEF LogInv
  <2> QED BY <2>1, <2>2, <2>4 DEF LogInv
<1> QED BY <1>11, <1>12

\* Every step keeps the stack and the log in order.
LEMMA StackNext ==
  TypeOK /\ StackInv /\ LogInv /\ BelowInv /\ [Next]_vars => StackInv' /\ LogInv'
<1> SUFFICES ASSUME TypeOK, StackInv, LogInv, BelowInv, [Next]_vars
             PROVE  StackInv' /\ LogInv'
  OBVIOUS
<1>1. CASE UNCHANGED <<cursor, stack, recomputed_stages, stage_metrics>>
  BY <1>1 DEF StackInv, LogInv
<1>2. CASE RaiseTaskError \/ WorkerDies
  <2>1. /\ stack' = <<>>
        /\ UNCHANGED <<cursor, recomputed_stages, stage_metrics>>
    BY <1>2 DEF RaiseTaskError, WorkerDies
  <2> QED BY <2>1 DEF StackInv, LogInv
<1>3. CASE StartStage
  BY <1>3, StackStartStage
<1>4. CASE ProcessResult
  BY <1>4, StackProcessResult
<1>5. CASE FinishStage
  BY <1>5, StackFinishStage
<1>6. NextBatch \/ ReturnDataset \/ RunTask \/ LoseBlock \/ UNCHANGED vars
      => UNCHANGED <<cursor, stack, recomputed_stages, stage_metrics>>
  BY DEF NextBatch, ReturnDataset, RunTask, LoseBlock, vars, metricsVars
<1> QED BY <1>1, <1>2, <1>3, <1>4, <1>5, <1>6 DEF Next, Driver

-----------------------------------------------------------------------------
(* Tasks and the blocks they hold.                                         *)

\* Resolved blocks come from stages before the reader's.
LEMMA ResolveBelow ==
  ASSUME NEW manager, NEW n, RegInv(manager, n), NEW s \in Stages, NEW p
  PROVE  \A b \in Resolve(manager, s, p) : b.stage < s
<1> SUFFICES ASSUME NEW leaf \in Reads[s],
                    NEW b \in BlocksFor(manager, leaf.from, TargetOf(leaf, p))
             PROVE  b.stage < s
  BY DEF Resolve
<1>1. leaf.from \in Stages /\ leaf.from < s
  BY PlanFacts DEF Leaf
<1>2. b.stage = leaf.from
  BY <1>1 DEF BlocksFor, RegInv
<1> QED BY <1>1, <1>2

\* Resolved blocks are, for each leaf, one whole run of its stage.
LEMMA ResolveOneRun ==
  ASSUME NEW manager, NEW n, RegInv(manager, n), NEW s \in Stages, NEW p,
         cursor \in Nat, s <= cursor, cursor < NumStages, NEW leaf \in Reads[s]
  PROVE  \E base \in 0 .. n :
            {b \in Resolve(manager, s, p) : b.stage = leaf.from}
              = {b \in RunBlocks(leaf.from, base) : b.target = TargetOf(leaf, p)}
<1>1. leaf.from \in Stages /\ leaf.from < s /\ s \in Nat /\ leaf.from \in Nat
      /\ NumStages \in Nat
  BY PlanFacts DEF Leaf, Stages
<1>2. leaf.from < cursor /\ IsShuffleWrite(leaf.from)
  BY <1>1 DEF IsShuffleWrite, ResultStage
<1>3. PICK base \in 0 .. n : manager[leaf.from] = RunBlocks(leaf.from, base)
  BY <1>1, <1>2 DEF RegInv
<1>4. {b \in Resolve(manager, s, p) : b.stage = leaf.from}
        = BlocksFor(manager, leaf.from, TargetOf(leaf, p))
  <2>1. ASSUME NEW b \in Resolve(manager, s, p), b.stage = leaf.from
        PROVE  b \in BlocksFor(manager, leaf.from, TargetOf(leaf, p))
    <3>1. PICK other \in Reads[s] : b \in BlocksFor(manager, other.from, TargetOf(other, p))
      BY DEF Resolve
    <3>2. other.from \in Stages
      BY PlanFacts DEF Leaf
    <3>3. b.stage = other.from
      BY <3>1, <3>2 DEF BlocksFor, RegInv
    <3>4. other = leaf
      BY <2>1, <3>3, PlanFacts
    <3> QED BY <3>1, <3>4
  <2>2. ASSUME NEW b \in BlocksFor(manager, leaf.from, TargetOf(leaf, p))
        PROVE  b \in Resolve(manager, s, p) /\ b.stage = leaf.from
    <3>1. b \in Resolve(manager, s, p)
      BY DEF Resolve
    <3>2. b.stage = leaf.from
      BY <1>1 DEF BlocksFor, RegInv
    <3> QED BY <3>1, <3>2
  <2> QED BY <2>1, <2>2
<1>5. BlocksFor(manager, leaf.from, TargetOf(leaf, p))
        = {b \in RunBlocks(leaf.from, base) : b.target = TargetOf(leaf, p)}
  BY <1>3 DEF BlocksFor
<1> QED BY <1>4, <1>5

\* The active stage is one the loop has reached.
LEMMA ActiveReached ==
  ASSUME TypeOK, StackInv, stack # <<>>
  PROVE  /\ cursor \in Nat /\ cursor < NumStages
         /\ \A i \in DOMAIN stack : stack[i].stage \in Stages /\ stack[i].stage <= cursor
<1>1. cursor \in Nat /\ cursor < NumStages /\ stack[1].stage = cursor
  BY PlanFacts DEF TypeOK, StackInv
<1>2. Len(stack) \in Nat \ {0} /\ DOMAIN stack = 1 .. Len(stack)
  BY ActiveFrame DEF TypeOK
<1>3. ASSUME NEW i \in DOMAIN stack
      PROVE  stack[i].stage \in Stages /\ stack[i].stage <= cursor
  <2>1. stack[i].stage \in Nat /\ stack[i].stage \in Stages
    BY StagesAreNumbers
  <2>2. i = 1 \/ (1 \in DOMAIN stack /\ 1 < i)
    BY <1>2
  <2> QED BY <1>1, <2>1, <2>2 DEF StackInv
<1> QED BY <1>1, <1>3

\* What a returning stage registers is the run it has just finished.
LEMMA RegisterKeepsReg ==
  ASSUME TypeOK, StackInv, IdInv, RegInv(blocks, next_task), FinishStage
  PROVE  /\ RegInv(Registered(Active), next_task)
         /\ RegInv(blocks, next_task)'
<1>1. Active \in Stages /\ stack # <<>>
  BY ActiveFrame DEF FinishStage
<1> DEFINE fresh == UNION {BlocksOf(Active, p, tasks[Active][p].id) : p \in Parts(Active)}
<1>2. \A b \in fresh : b.stage = Active
  BY DEF BlocksOf
<1>3. PICK base \in 0 .. next_task : fresh = RunBlocks(Active, base)
  <2>1. tasks[Active][0].state = "done"
    BY <1>1, PartsFinite DEF FinishStage, StageDone, InState
  <2>2. PICK base \in 0 .. next_task : \A p \in Parts(Active) : tasks[Active][p].id = base + p
    BY <1>1, <2>1, PartsFinite DEF IdInv
  <2>3. fresh = RunBlocks(Active, base)
    BY <2>2 DEF RunBlocks
  <2> QED BY <2>3
<1>4. Registered(Active) = IF IsShuffleWrite(Active) THEN [blocks EXCEPT ![Active] = fresh]
                                                     ELSE blocks
  BY DEF Registered
<1>5. blocks \in [Stages -> SUBSET Block]
  BY DEF TypeOK
<1> HIDE DEF fresh
<1>6. ASSUME NEW s \in Stages
      PROVE  /\ \A b \in Registered(Active)[s] : b.stage = s
             /\ (s < cursor \/ s = Active) /\ IsShuffleWrite(s) =>
                   \E c \in 0 .. next_task : Registered(Active)[s] = RunBlocks(s, c)
  <2>1. CASE s = Active /\ IsShuffleWrite(s)
    <3>1. Registered(Active)[s] = fresh
      BY <1>4, <1>5, <2>1
    <3> QED BY <1>2, <1>3, <2>1, <3>1
  <2>2. CASE ~ (s = Active /\ IsShuffleWrite(s))
    <3>1. Registered(Active)[s] = blocks[s]
      BY <1>4, <1>5, <2>2
    <3> QED BY <2>2, <3>1 DEF RegInv
  <2> QED BY <2>1, <2>2
<1>7. \A s \in Stages : s < cursor' => s < cursor \/ s = Active
  <2>1. CASE Len(stack) = 1
    <3>1. Active = cursor
      BY <1>1, <2>1, ActiveFrame DEF Active, StackInv
    <3>2. cursor' = cursor + 1
      BY <2>1 DEF FinishStage
    <3> QED BY <3>1, <3>2, <1>1, ActiveReached, StagesAreNumbers
  <2>2. CASE Len(stack) # 1
    BY <2>2 DEF FinishStage
  <2> QED BY <2>1, <2>2
<1>8. blocks' = Registered(Active) /\ next_task' = next_task
  BY DEF FinishStage
<1> QED BY <1>6, <1>7, <1>8 DEF RegInv, IsShuffleWrite, RunBlocks, BlocksOf

\* Other steps keep what is registered; more ids may have been drawn.
LEMMA RegNext ==
  TypeOK /\ StackInv /\ IdInv /\ RegInv(blocks, next_task) /\ [Next]_vars
    => RegInv(blocks, next_task)'
<1> SUFFICES ASSUME TypeOK, StackInv, IdInv, RegInv(blocks, next_task), [Next]_vars
             PROVE  RegInv(blocks, next_task)'
  OBVIOUS
<1>1. CASE FinishStage
  BY <1>1, RegisterKeepsReg
<1>2. CASE UNCHANGED <<blocks, cursor>> /\ next_task' \in Nat /\ next_task <= next_task'
  <2>1. 0 .. next_task \subseteq 0 .. next_task'
    BY <1>2 DEF TypeOK
  <2> QED BY <1>2, <2>1 DEF RegInv, IsShuffleWrite, RunBlocks, BlocksOf
<1>3. ASSUME NEW s \in Stages, NEW r, EnterStage(s, r)
      PROVE  next_task' \in Nat /\ next_task <= next_task'
  <2>1. NumPartitions[s] \in Nat
    BY PlanFacts
  <2> QED BY <1>3, <2>1 DEF EnterStage, TypeOK
<1>4. CASE StartStage
  <2>1. cursor \in Stages
    BY <1>4, PlanFacts DEF StartStage, TypeOK, Stages
  <2> QED BY <1>2, <1>3, <1>4, <2>1 DEF StartStage
<1>5. CASE ProcessResult
  <2>1. PICK p \in Unprocessed(Active) :
           \/ Accept(Active, p)
           \/ Recover(Active, p)
           \/ Retry(Active, p)
           \/ GiveUp(Active, p)
    BY <1>5 DEF ProcessResult
  <2>2. CASE Recover(Active, p)
    <3>1. tasks[Active][p] \in Task
      <4>1. Active \in Stages
        BY <1>5, ActiveFrame DEF ProcessResult
      <4> QED BY <2>1, <4>1 DEF Unprocessed, TypeOK
    <3>2. \E m \in Stages : EnterStage(m, TRUE)
      BY <2>2, <3>1 DEF Recover, Task
    <3> QED BY <1>2, <1>3, <1>5, <3>2 DEF ProcessResult
  <2>3. CASE UNCHANGED next_task
    BY <1>2, <1>5, <2>3 DEF ProcessResult, TypeOK
  <2> QED BY <2>1, <2>2, <2>3 DEF Accept, Retry, GiveUp
<1>6. CASE RunTask \/ NextBatch \/ RaiseTaskError \/ WorkerDies \/ ReturnDataset
           \/ LoseBlock \/ UNCHANGED vars
  <2>1. UNCHANGED <<blocks, cursor, next_task>>
    BY <1>6 DEF RunTask, NextBatch, RaiseTaskError, WorkerDies, ReturnDataset, LoseBlock, vars
  <2> QED BY <1>2, <2>1 DEF TypeOK
<1> QED BY <1>1, <1>4, <1>5, <1>6 DEF Next, Driver

-----------------------------------------------------------------------------
(* A step either leaves a task its id and its blocks, or resolves its      *)
(* blocks again from `manager`, or builds the stage's tasks anew.          *)

KeepsTask(manager, s, p) ==
  LET old == tasks[s][p]
      new == tasks'[s][p]
  IN /\ new.id = old.id
     /\ new.state = "none" <=> old.state = "none"
     /\ \A m \in new.missing : m < s
     /\ \/ new.blocks = old.blocks
        \/ new.blocks = Resolve(manager, s, p) /\ s <= cursor /\ cursor < NumStages

BuildsStage(s) ==
  /\ tasks'[s] = FreshTasks(s)
  /\ next_task' = next_task + NumPartitions[s]
  /\ s <= cursor /\ cursor < NumStages

StageStep(manager, s) ==
  BuildsStage(s) \/ \A p \in Parts(s) : KeepsTask(manager, s, p)

\* Such a step preserves what is known of the tasks.
LEMMA StageStepKeeps ==
  ASSUME TypeOK, BelowInv, IdInv, ReadsOneRun, RegInv(blocks, next_task),
         NEW manager, RegInv(manager, next_task),
         next_task' \in Nat, next_task <= next_task',
         \A s \in Stages : StageStep(manager, s)
  PROVE  BelowInv' /\ IdInv' /\ ReadsOneRun'
<1> USE DEF StageStep
<1>1. cursor \in Nat /\ next_task \in Nat /\ 0 .. next_task \subseteq 0 .. next_task'
  BY PlanFacts DEF TypeOK
<1>2. BelowInv'
  <2> SUFFICES ASSUME NEW s \in Stages, NEW p \in Parts(s)
               PROVE  /\ \A b \in tasks'[s][p].blocks : b.stage < s
                      /\ \A m \in tasks'[s][p].missing : m < s
    BY DEF BelowInv, Parts
  <2>1. CASE BuildsStage(s)
    <3>1. tasks'[s][p].blocks = Resolve(blocks, s, p) /\ tasks'[s][p].missing = {}
      BY <2>1 DEF BuildsStage, FreshTasks
    <3> QED BY <3>1, ResolveBelow
  <2>2. CASE KeepsTask(manager, s, p)
    BY <2>2, ResolveBelow DEF KeepsTask, BelowInv
  <2> QED BY <2>1, <2>2
<1>3. IdInv'
  <2> SUFFICES ASSUME NEW s \in Stages
               PROVE  \/ \A p \in Parts(s) : tasks'[s][p].state = "none"
                      \/ \E base \in 0 .. next_task' :
                            \A p \in Parts(s) : tasks'[s][p].id = base + p
    BY DEF IdInv, Parts
  <2>1. CASE BuildsStage(s)
    <3>1. \A p \in Parts(s) : tasks'[s][p].id = next_task + p
      BY <2>1 DEF BuildsStage, FreshTasks
    <3>2. next_task \in 0 .. next_task'
      BY <1>1
    <3> QED BY <3>1, <3>2
  <2>2. CASE \A p \in Parts(s) : KeepsTask(manager, s, p)
    BY <1>1, <2>2 DEF KeepsTask, IdInv
  <2> QED BY <2>1, <2>2
<1>4. ReadsOneRun'
  <2> SUFFICES ASSUME NEW s \in Stages, NEW p \in Parts(s), tasks'[s][p].state # "none",
                      NEW leaf \in Reads[s]
               PROVE  \E base \in 0 .. next_task' :
                         {b \in tasks'[s][p].blocks : b.stage = leaf.from}
                           = {b \in RunBlocks(leaf.from, base) : b.target = TargetOf(leaf, p)}
    BY DEF ReadsOneRun, HoldsOneRun, Parts, RunBlocks, BlocksOf, TargetOf
  <2>1. CASE BuildsStage(s)
    <3>1. tasks'[s][p].blocks = Resolve(blocks, s, p) /\ s <= cursor /\ cursor < NumStages
      BY <2>1 DEF BuildsStage, FreshTasks
    <3>2. \E base \in 0 .. next_task :
             {b \in Resolve(blocks, s, p) : b.stage = leaf.from}
               = {b \in RunBlocks(leaf.from, base) : b.target = TargetOf(leaf, p)}
      BY <1>1, <3>1, ResolveOneRun
    <3> QED BY <1>1, <3>1, <3>2
  <2>2. CASE KeepsTask(manager, s, p) /\ tasks'[s][p].blocks = tasks[s][p].blocks
    <3>1. tasks[s][p].state # "none"
      BY <2>2 DEF KeepsTask
    <3>2. \E base \in 0 .. next_task :
             {b \in tasks[s][p].blocks : b.stage = leaf.from}
               = {b \in RunBlocks(leaf.from, base) : b.target = TargetOf(leaf, p)}
      BY <3>1 DEF ReadsOneRun, HoldsOneRun
    <3> QED BY <1>1, <2>2, <3>2
  <2>3. CASE /\ tasks'[s][p].blocks = Resolve(manager, s, p)
             /\ s <= cursor /\ cursor < NumStages
    <3>1. \E base \in 0 .. next_task :
             {b \in Resolve(manager, s, p) : b.stage = leaf.from}
               = {b \in RunBlocks(leaf.from, base) : b.target = TargetOf(leaf, p)}
      BY <1>1, <2>3, ResolveOneRun
    <3> QED BY <1>1, <2>3, <3>1
  <2> QED BY <2>1, <2>2, <2>3 DEF KeepsTask
<1> QED BY <1>2, <1>3, <1>4

\* A task whose id and blocks stay, in a stage where the others stay too.
LEMMA PutTaskStep ==
  ASSUME TypeOK, BelowInv, NEW manager, NEW s \in Stages, NEW p \in Parts(s),
         NEW task \in Task,
         task.id = tasks[s][p].id, task.blocks = tasks[s][p].blocks,
         task.state # "none", tasks[s][p].state # "none",
         \A m \in task.missing : m < s,
         NEW r \in Stages, tasks'[r] = [tasks EXCEPT ![s][p] = task][r]
  PROVE  \A q \in Parts(r) : KeepsTask(manager, r, q)
<1> SUFFICES ASSUME NEW q \in Parts(r) PROVE KeepsTask(manager, r, q)
  OBVIOUS
<1>1. CASE r = s /\ q = p
  BY <1>1 DEF KeepsTask, TypeOK
<1>2. CASE ~ (r = s /\ q = p)
  <2>1. tasks'[r][q] = tasks[r][q]
    BY <1>2 DEF TypeOK
  <2> QED BY <2>1 DEF KeepsTask, BelowInv
<1> QED BY <1>1, <1>2

\* The steps that leave all tasks alone are such steps.
LEMMA StutterStep ==
  ASSUME BelowInv, UNCHANGED tasks, NEW manager, NEW s \in Stages
  PROVE  StageStep(manager, s)
BY DEF StageStep, KeepsTask, BelowInv

\* So are the steps of a task,
LEMMA RunTaskStep ==
  ASSUME TypeOK, BelowInv, RunTask, NEW r \in Stages
  PROVE  StageStep(blocks, r)
<1>1. Active \in Stages
  BY ActiveFrame DEF RunTask
<1>2. PICK p \in Pending(Active) :
         TaskSucceeds(Active, p) \/ TaskMissesBlocks(Active, p) \/ TaskFails(Active, p)
  BY DEF RunTask
<1>3. p \in Parts(Active) /\ tasks[Active][p].state = "pending"
  BY <1>2 DEF Pending
<1>4. tasks[Active][p] \in Task
  BY <1>1, <1>3 DEF TypeOK
<1>5. PICK state \in {"success", "failed"}, missing \in SUBSET Stages :
         Report(Active, p, state, missing) /\ \A m \in missing : m < Active
  <2>1. \A m \in Unreadable(tasks[Active][p]) : m \in Stages /\ m < Active
    BY <1>1, <1>3, <1>4 DEF Unreadable, BelowInv, Task, Block
  <2> QED BY <1>2, <2>1 DEF TaskSucceeds, TaskMissesBlocks, TaskFails
<1> DEFINE task == [tasks[Active][p] EXCEPT !.state = state, !.missing = missing]
<1>6. /\ task \in Task
      /\ task.id = tasks[Active][p].id /\ task.blocks = tasks[Active][p].blocks
      /\ task.state # "none" /\ \A m \in task.missing : m < Active
  BY <1>4, <1>5 DEF Task, TaskStates
<1>7. tasks' = [tasks EXCEPT ![Active][p] = task]
  BY <1>5 DEF Report
<1> HIDE DEF task
<1> QED BY <1>1, <1>3, <1>6, <1>7, PutTaskStep DEF StageStep

\* and a processed result, which may build the tasks of a recomputation,
LEMMA ProcessResultStep ==
  ASSUME TypeOK, StackInv, BelowInv, ProcessResult, NEW r \in Stages
  PROVE  StageStep(blocks, r)
<1>1. Active \in Stages /\ stack # <<>>
  BY ActiveFrame DEF ProcessResult
<1>2. PICK p \in Unprocessed(Active) :
         \/ Accept(Active, p)
         \/ Recover(Active, p)
         \/ Retry(Active, p)
         \/ GiveUp(Active, p)
  BY DEF ProcessResult
<1>3. p \in Parts(Active) /\ tasks[Active][p].state # "none"
  BY <1>2 DEF Unprocessed
<1>4. tasks[Active][p] \in Task
  BY <1>1, <1>3 DEF TypeOK
<1>5. \A m \in tasks[Active][p].missing : m < Active /\ m \in Stages
  BY <1>1, <1>3, <1>4 DEF BelowInv, Task
<1>6. CASE Recover(Active, p)
  <2> DEFINE task == [tasks[Active][p] EXCEPT !.state = "recovering"]
  <2>1. PICK m \in tasks[Active][p].missing :
           /\ tasks' = [tasks EXCEPT ![Active][p] = task, ![m] = FreshTasks(m)]
           /\ next_task' = next_task + NumPartitions[m]
    BY <1>6 DEF Recover, EnterStage
  <2>2. /\ task \in Task
        /\ task.id = tasks[Active][p].id /\ task.blocks = tasks[Active][p].blocks
        /\ task.state # "none" /\ \A n \in task.missing : n < Active
    BY <1>4, <1>5 DEF Task, TaskStates
  <2> HIDE DEF task
  <2>3. CASE r = m
    <3>1. tasks'[r] = FreshTasks(r)
      BY <2>1, <2>3 DEF TypeOK
    <3>2. r <= cursor /\ cursor < NumStages
      <4>1. Active <= cursor /\ cursor < NumStages /\ cursor \in Nat
        BY <1>1, ActiveReached, ActiveFrame DEF Active
      <4>2. m < Active /\ m \in Nat /\ Active \in Nat
        BY <1>1, <1>5, <2>1, StagesAreNumbers
      <4> QED BY <2>3, <4>1, <4>2
    <3> QED BY <2>1, <2>3, <3>1, <3>2 DEF StageStep, BuildsStage
  <2>4. CASE r # m
    <3>1. tasks'[r] = [tasks EXCEPT ![Active][p] = task][r]
      BY <2>1, <2>4 DEF TypeOK
    <3> QED BY <1>1, <1>3, <2>2, <3>1, PutTaskStep DEF StageStep
  <2> QED BY <2>3, <2>4
<1>7. CASE Accept(Active, p) \/ Retry(Active, p) \/ GiveUp(Active, p)
  <2>1. PICK state \in {"done", "again", "exhausted"}, n \in Nat :
           tasks' = [tasks EXCEPT ![Active][p] =
                       [tasks[Active][p] EXCEPT !.state = state, !.missing = {}, !.attempt = n]]
    <3>1. CASE Accept(Active, p) \/ GiveUp(Active, p)
      <4> DEFINE n == tasks[Active][p].attempt
      <4>1. n \in Nat /\ [tasks[Active][p] EXCEPT !.attempt = n] = tasks[Active][p]
        BY <1>4 DEF Task
      <4>2. \A state : [tasks[Active][p] EXCEPT !.state = state, !.missing = {}, !.attempt = n]
                        = [tasks[Active][p] EXCEPT !.state = state, !.missing = {}]
        BY <1>4, <4>1 DEF Task
      <4> QED BY <3>1, <4>1, <4>2 DEF Accept, GiveUp, Report
    <3>2. CASE Retry(Active, p)
      <4>1. tasks[Active][p].attempt + 1 \in Nat
        BY <1>4 DEF Task
      <4> QED BY <3>2, <4>1 DEF Retry
    <3> QED BY <1>7, <3>1, <3>2
  <2> DEFINE task == [tasks[Active][p] EXCEPT !.state = state, !.missing = {}, !.attempt = n]
  <2>2. /\ task \in Task
        /\ task.id = tasks[Active][p].id /\ task.blocks = tasks[Active][p].blocks
        /\ task.state # "none" /\ \A m \in task.missing : m < Active
    BY <1>4, <2>1 DEF Task, TaskStates
  <2>3. tasks' = [tasks EXCEPT ![Active][p] = task]
    BY <2>1
  <2> HIDE DEF task
  <2> QED BY <1>1, <1>3, <2>2, <2>3, PutTaskStep DEF StageStep
<1> QED BY <1>2, <1>6, <1>7

\* and a batch put together,
LEMMA NextBatchStep ==
  ASSUME TypeOK, BelowInv, NextBatch, NEW r \in Stages
  PROVE  StageStep(blocks, r)
<1>1. Active \in Stages
  BY ActiveFrame DEF NextBatch
<1>2. CASE r # Active
  <2>1. tasks'[r] = tasks[r]
    BY <1>1, <1>2 DEF NextBatch, TypeOK
  <2> QED BY <2>1 DEF StageStep, KeepsTask, BelowInv
<1>3. CASE r = Active
  <2> SUFFICES ASSUME NEW p \in Parts(r) PROVE KeepsTask(blocks, r, p)
    BY DEF StageStep
  <2>1. tasks[r][p] \in Task
    BY DEF TypeOK
  <2>2. tasks'[r][p] = IF tasks[r][p].state = "again"
                         THEN [tasks[r][p] EXCEPT !.state = "pending"] ELSE tasks[r][p]
    BY <1>1, <1>3 DEF NextBatch, TypeOK
  <2> QED BY <2>1, <2>2 DEF KeepsTask, BelowInv, Task
<1> QED BY <1>2, <1>3

\* and a stage that returns, whose caller's task resolves its blocks again.
LEMMA FinishStageStep ==
  ASSUME TypeOK, StackInv, BelowInv, FinishStage, NEW r \in Stages
  PROVE  StageStep(Registered(Active), r)
<1>1. stack # <<>>
  BY DEF FinishStage
<1>2. CASE Len(stack) = 1
  BY <1>2, StutterStep DEF FinishStage
<1>3. CASE Len(stack) # 1
  <2> DEFINE caller == Last(Front(stack)).stage
             manager == Registered(Active)
  <2>1. Resume(caller, manager)
    BY <1>3 DEF FinishStage
  <2>2. caller \in Stages /\ caller <= cursor /\ cursor < NumStages
    <3>1. /\ Len(stack) - 1 \in DOMAIN stack
          /\ Last(Front(stack)) = stack[Len(stack) - 1]
      <4>1. Len(stack) \in Nat \ {0} /\ stack \in Seq(Frame)
        BY <1>1, ActiveFrame DEF TypeOK
      <4>2. /\ Front(stack) \in Seq(Frame)
            /\ Len(Front(stack)) = Len(stack) - 1
            /\ \A i \in DOMAIN Front(stack) : Front(stack)[i] = stack[i]
        BY <1>1, PoppedFrames
      <4>3. Len(stack) - 1 \in DOMAIN Front(stack) /\ Len(stack) - 1 \in DOMAIN stack
        BY <1>3, <4>1, <4>2
      <4> QED BY <4>2, <4>3 DEF Last
    <3> QED BY <1>1, <3>1, ActiveReached
  <2> HIDE DEF caller, manager
  <2>3. CASE r # caller
    <3>1. tasks'[r] = tasks[r]
      BY <2>1, <2>2, <2>3 DEF Resume, TypeOK
    <3> QED BY <3>1 DEF StageStep, KeepsTask, BelowInv
  <2>4. CASE r = caller
    <3> SUFFICES ASSUME NEW p \in Parts(r) PROVE KeepsTask(manager, r, p)
      BY DEF StageStep, manager
    <3>1. tasks[r][p] \in Task
      BY DEF TypeOK
    <3>2. tasks'[r][p] = IF tasks[r][p].state = "recovering"
                           THEN [tasks[r][p] EXCEPT !.state = "again", !.missing = {},
                                                    !.blocks = Resolve(manager, r, p)]
                           ELSE tasks[r][p]
      BY <2>1, <2>2, <2>4 DEF Resume, TypeOK
    <3> QED BY <2>2, <2>4, <3>1, <3>2 DEF KeepsTask, BelowInv, Task
  <2> QED BY <2>3, <2>4
<1> QED BY <1>2, <1>3

\* Every step keeps what is known of the tasks.
LEMMA TasksNext ==
  IInv /\ [Next]_vars => BelowInv' /\ IdInv' /\ ReadsOneRun'
<1> SUFFICES ASSUME IInv, [Next]_vars PROVE BelowInv' /\ IdInv' /\ ReadsOneRun'
  OBVIOUS
<1> USE DEF IInv
<1>1. next_task \in Nat /\ next_task' \in Nat /\ next_task <= next_task'
  <2>1. next_task \in Nat /\ \A s \in Stages : NumPartitions[s] \in Nat
    BY PlanFacts DEF TypeOK
  <2>2. next_task' = next_task \/ \E s \in Stages : next_task' = next_task + NumPartitions[s]
    <3>1. CASE StartStage
      <4>1. cursor \in Stages
        BY <3>1, PlanFacts DEF StartStage, TypeOK, Stages
      <4> QED BY <3>1, <4>1 DEF StartStage, EnterStage
    <3>2. CASE ProcessResult
      <4>1. PICK p \in Unprocessed(Active) :
               \/ Accept(Active, p)
               \/ Recover(Active, p)
               \/ Retry(Active, p)
               \/ GiveUp(Active, p)
        BY <3>2 DEF ProcessResult
      <4>2. tasks[Active][p] \in Task
        BY <3>2, ActiveFrame DEF ProcessResult, Unprocessed, TypeOK
      <4>3. Recover(Active, p) => \E s \in Stages : next_task' = next_task + NumPartitions[s]
        BY <4>2 DEF Recover, EnterStage, Task
      <4> QED BY <4>1, <4>3 DEF Accept, Retry, GiveUp
    <3> QED BY <3>1, <3>2 DEF Next, Driver, RunTask, NextBatch, FinishStage, RaiseTaskError,
                             WorkerDies, ReturnDataset, LoseBlock, vars
  <2> QED BY <2>1, <2>2
<1>2. CASE FinishStage
  <2>1. RegInv(Registered(Active), next_task)
    BY <1>2, RegisterKeepsReg
  <2>2. \A s \in Stages : StageStep(Registered(Active), s)
    BY <1>2, FinishStageStep
  <2> QED BY <1>1, <2>1, <2>2, StageStepKeeps
<1>3. CASE \A s \in Stages : StageStep(blocks, s)
  BY <1>1, <1>3, StageStepKeeps
<1>4. CASE StartStage
  <2>1. cursor \in Stages /\ cursor \in Nat /\ cursor < NumStages
    BY <1>4, PlanFacts DEF StartStage, TypeOK, Stages
  <2>2. \A s \in Stages : StageStep(blocks, s)
    <3> SUFFICES ASSUME NEW s \in Stages PROVE StageStep(blocks, s)
      OBVIOUS
    <3>1. tasks'[s] = IF s = cursor THEN FreshTasks(s) ELSE tasks[s]
      BY <1>4, <2>1 DEF StartStage, TypeOK
    <3>2. CASE s = cursor
      BY <1>4, <2>1, <3>1, <3>2 DEF StageStep, BuildsStage, StartStage, EnterStage
    <3>3. CASE s # cursor
      BY <3>1, <3>3 DEF StageStep, KeepsTask, BelowInv
    <3> QED BY <3>2, <3>3
  <2> QED BY <1>3, <2>2
<1>5. CASE UNCHANGED tasks
  BY <1>3, <1>5, StutterStep
<1> QED BY <1>2, <1>3, <1>4, <1>5, RunTaskStep, ProcessResultStep, NextBatchStep
        DEF Next, Driver, RaiseTaskError, WorkerDies, ReturnDataset, LoseBlock, vars

-----------------------------------------------------------------------------
(* The theorems.                                                           *)

\* The invariant holds at first,
LEMMA InvInit == Init => IInv
<1> SUFFICES ASSUME Init PROVE IInv
  OBVIOUS
<1>1. TypeOK
  BY TypeInit
<1>2. stack = <<>> /\ stage_metrics = <<>> /\ DOMAIN stack = {} /\ DOMAIN stage_metrics = {}
      /\ recomputed_stages = {} /\ cursor = 0
  BY DEF Init
<1>3. StackInv /\ LogInv
  BY <1>2 DEF StackInv, LogInv
<1>4. \A s \in Stages : \A p \in Parts(s) :
         tasks[s][p].state = "none" /\ tasks[s][p].blocks = {} /\ tasks[s][p].missing = {}
  BY DEF Init
<1>5. BelowInv /\ IdInv /\ ReadsOneRun
  BY <1>4 DEF BelowInv, IdInv, ReadsOneRun
<1>6. RegInv(blocks, next_task)
  <2>1. \A s \in Stages : blocks[s] = {} /\ ~ (s < cursor)
    BY <1>2, StagesAreNumbers, <1>1 DEF Init
  <2> QED BY <2>1 DEF RegInv
<1> QED BY <1>1, <1>3, <1>5, <1>6 DEF IInv

\* and every step preserves it.
LEMMA InvNext == IInv /\ [Next]_vars => IInv'
<1> SUFFICES ASSUME IInv, [Next]_vars PROVE IInv'
  OBVIOUS
<1>1. TypeOK'
  BY TypeNext DEF IInv
<1>2. StackInv' /\ LogInv'
  BY StackNext DEF IInv
<1>3. BelowInv' /\ IdInv' /\ ReadsOneRun'
  BY TasksNext
<1>4. RegInv(blocks, next_task)'
  BY RegNext DEF IInv
<1> QED BY <1>1, <1>2, <1>3, <1>4 DEF IInv

\* IInv is an invariant of the scheduler.
THEOREM Inductive == Spec => []IInv
<1>1. Init => IInv
  BY InvInit
<1>2. IInv /\ [Next]_vars => IInv'
  BY InvNext
<1> QED BY <1>1, <1>2, PTL DEF Spec

\* The scheduler's state is always well formed.
THEOREM TypeCorrect == Spec => []TypeOK
<1>1. IInv => TypeOK
  BY DEF IInv
<1> QED BY <1>1, Inductive, PTL

\* Whatever fails or is lost, a task is only ever given one whole run of each
\* stage it reads: no stale block next to a fresh one, and none left out.
THEOREM EveryTaskReadsOneRun == Spec => []ReadsOneRun
<1>1. IInv => ReadsOneRun
  BY DEF IInv
<1> QED BY <1>1, Inductive, PTL

\* A stage runs at most once and is recomputed at most once per query, for any
\* plan and any number of losses.
THEOREM EveryStageRecomputedOnce == Spec => []AtMostOneRecompute
<1>1. IInv => AtMostOneRecompute
  <2> SUFFICES ASSUME IInv PROVE AtMostOneRecompute
    OBVIOUS
  <2> USE DEF IInv
  <2>1. DOMAIN stack = 1 .. Len(stack) /\ Len(stack) \in Nat
    BY DEF TypeOK
  <2>2. ASSUME NEW i \in DOMAIN stack, NEW j \in DOMAIN stack,
               stack[i].stage = stack[j].stage
        PROVE  i = j
    <3>1. stack[i].stage \in Nat /\ stack[j].stage \in Nat
      BY StagesAreNumbers
    <3>2. i = j \/ i < j \/ j < i
      BY <2>1
    <3> QED BY <2>2, <3>1, <3>2 DEF StackInv
  <2>3. ASSUME NEW i \in DOMAIN stage_metrics, NEW j \in DOMAIN stack,
               stage_metrics[i].stage_id = stack[j].stage
        PROVE  ~ stage_metrics[i].recomputed /\ stack[j].recomputed
    <3>1. ~ stage_metrics[i].recomputed /\ stage_metrics[i].stage_id < cursor
      BY <2>3 DEF LogInv
    <3>2. j # 1
      <4> SUFFICES ASSUME j = 1 PROVE FALSE
        OBVIOUS
      <4>1. stack[j].stage = cursor /\ cursor \in Nat
        BY <2>1, PlanFacts DEF StackInv, TypeOK
      <4> QED BY <2>3, <3>1, <4>1
    <3>3. stack[j].recomputed
      BY <2>1, <3>2 DEF StackInv
    <3> QED BY <3>1, <3>3
  <2> QED BY <2>2, <2>3 DEF AtMostOneRecompute, LogInv
<1> QED BY <1>1, Inductive, PTL

-----------------------------------------------------------------------------
(* The open calls.                                                         *)

\* The stages of the open calls, and who waits for whom.
Open == {stack[i].stage : i \in DOMAIN stack}
Recomputing(m) == \E i \in DOMAIN stack : i > 1 /\ stack[i].stage = m
OpenFor(s, m) == \E i \in DOMAIN stack : i > 1 /\ stack[i].stage = m /\ stack[i - 1].stage = s

-----------------------------------------------------------------------------
(* The effects of the actions.                                             *)

\* A task of the active stage ran and changed from old to new.
RanTask(p, new) ==
  LET old == tasks[Active][p] IN
  /\ stack # <<>> /\ p \in Parts(Active) /\ new \in Task
  /\ old.state = "pending"
  /\ new.id = old.id /\ new.blocks = old.blocks /\ new.attempt = old.attempt
  /\ \A r \in Stages : \A q \in Parts(r) :
        tasks'[r][q] = IF r = Active /\ q = p THEN new ELSE tasks[r][q]
  /\ \/ /\ new.state = "success" /\ new.missing = {}
        /\ files' = files \union BlocksOf(Active, p, old.id) /\ faults' = faults
     \/ /\ new.state = "failed" /\ \E m \in Unreadable(old) : new.missing = {m}
        /\ files' = files /\ faults' = faults
     \/ /\ new.state = "failed" /\ new.missing = {}
        /\ files \subseteq files' /\ faults' = faults + 1
        /\ files' \subseteq files \union BlocksOf(Active, p, old.id)
  /\ UNCHANGED <<cursor, stack, next_task, blocks, recomputed_stages,
                 stage_metrics, last_metrics, outcome, lost>>

\* The driver judged a result of the active stage without a recovery.
JudgedTask(p, new) ==
  LET old == tasks[Active][p] IN
  /\ stack # <<>> /\ p \in Parts(Active) /\ new \in Task
  /\ new.id = old.id /\ new.blocks = old.blocks /\ new.missing = {}
  /\ \A r \in Stages : \A q \in Parts(r) :
        tasks'[r][q] = IF r = Active /\ q = p THEN new ELSE tasks[r][q]
  /\ \/ old.state = "success" /\ new.state = "done" /\ new.attempt = old.attempt
     \/ /\ old.state = "failed" /\ old.missing \subseteq recomputed_stages
        /\ \/ /\ new.state = "again" /\ new.attempt = old.attempt + 1
              /\ old.attempt < MaxRetries
           \/ new.state = "exhausted" /\ new.attempt = old.attempt /\ old.attempt >= MaxRetries
  /\ UNCHANGED <<cursor, stack, next_task, files, blocks, recomputed_stages,
                 stage_metrics, last_metrics, outcome, faults, lost>>

\* The driver began to recompute stage m for a task of the active stage.
BeganRecovery(p, m) ==
  LET old == tasks[Active][p] IN
  /\ stack # <<>> /\ p \in Parts(Active)
  /\ old.state = "failed" /\ m \in old.missing
  /\ m \in Stages /\ m < Active /\ m \notin recomputed_stages
  /\ recomputed_stages' = recomputed_stages \union {m}
  /\ EnterStage(m, TRUE)
  /\ \A r \in Stages : \A q \in Parts(r) :
        tasks'[r][q] = IF r = m THEN FreshTasks(m)[q]
                       ELSE IF r = Active /\ q = p THEN [old EXCEPT !.state = "recovering"]
                       ELSE tasks[r][q]
  /\ UNCHANGED <<cursor, files, blocks, stage_metrics, last_metrics, outcome, faults, lost>>

\* The driver put the next batch of the active stage together.
MadeBatch ==
  /\ stack # <<>>
  /\ \E p \in Parts(Active) : tasks[Active][p].state = "again"
  /\ \A r \in Stages : \A q \in Parts(r) :
        tasks'[r][q] = IF r = Active /\ tasks[r][q].state = "again"
                         THEN [tasks[r][q] EXCEPT !.state = "pending"] ELSE tasks[r][q]
  /\ UNCHANGED <<cursor, stack, next_task, files, blocks, recomputed_stages,
                 stage_metrics, last_metrics, outcome, faults, lost>>

\* The tasks of a call that waited for a recomputation go on.
Resumed(caller) ==
  \A r \in Stages : \A q \in Parts(r) :
    tasks'[r][q] = IF r = caller /\ tasks[r][q].state = "recovering"
                     THEN [tasks[r][q] EXCEPT !.state = "again", !.missing = {},
                             !.blocks = Resolve(Registered(Active), caller, q)]
                     ELSE tasks[r][q]

\* A recomputation returned to its caller, whose waiting tasks go on.
Returned(caller) ==
  LET n == Len(stack) IN
  /\ n > 1 /\ caller = stack[n - 1].stage /\ caller \in Stages
  /\ InState(Active, {"done"})
  /\ Resumed(caller)
  /\ blocks' = Registered(Active)
  /\ UNCHANGED <<cursor, next_task, files, recomputed_stages, last_metrics, outcome,
                 faults, lost>>

\* The stage the for loop ran returned.
LeftStage ==
  /\ Len(stack) = 1 /\ Active = cursor
  /\ InState(Active, {"done"})
  /\ cursor' = cursor + 1
  /\ blocks' = Registered(Active)
  /\ UNCHANGED <<tasks, next_task, files, recomputed_stages, last_metrics, outcome,
                 faults, lost>>

\* The for loop entered its next stage.
Started ==
  /\ outcome = "running" /\ stack = <<>>
  /\ cursor \in Stages
  /\ EnterStage(cursor, FALSE)
  /\ \A r \in Stages : \A q \in Parts(r) :
        tasks'[r][q] = IF r = cursor THEN FreshTasks(cursor)[q] ELSE tasks[r][q]
  /\ UNCHANGED <<cursor, files, blocks, recomputed_stages, stage_metrics, last_metrics,
                 outcome, faults, lost>>

\* The query ended.
Ended ==
  /\ stack' = <<>>
  /\ \/ stack # <<>> /\ outcome' = "raised"
     \/ stack = <<>> /\ outcome = "running" /\ cursor = NumStages /\ outcome' = "success"
  /\ files' = {}
  /\ last_metrics' = stage_metrics
  /\ UNCHANGED <<cursor, tasks, next_task, blocks, recomputed_stages, stage_metrics,
                 faults, lost>>

\* A block file was lost.
Lost ==
  /\ outcome = "running"
  /\ \E b \in files : files' = files \ {b} /\ lost' = lost \union {b}
  /\ UNCHANGED <<cursor, stack, tasks, next_task, blocks, recomputed_stages,
                 stage_metrics, last_metrics, outcome, faults>>

\* What a task does when it runs.
LEMMA RunTaskEffect ==
  ASSUME TypeOK, RunTask
  PROVE  \E p, new : RanTask(p, new)
<1>1. Active \in Stages
  BY ActiveFrame DEF RunTask
<1>2. PICK p \in Pending(Active) :
         TaskSucceeds(Active, p) \/ TaskMissesBlocks(Active, p) \/ TaskFails(Active, p)
  BY DEF RunTask
<1> DEFINE old == tasks[Active][p]
<1>3. p \in Parts(Active) /\ old \in Task /\ old.state = "pending"
  BY <1>1, <1>2 DEF Pending, TypeOK
<1>4. \A m \in Unreadable(old) : m \in Stages
  BY <1>3 DEF Unreadable, Task, Block
<1>5. \E state \in {"success", "failed"}, missing \in SUBSET Stages :
         /\ Report(Active, p, state, missing)
         /\ \/ /\ state = "success" /\ missing = {}
               /\ files' = files \union BlocksOf(Active, p, old.id) /\ faults' = faults
            \/ /\ state = "failed" /\ \E m \in Unreadable(old) : missing = {m}
               /\ files' = files /\ faults' = faults
            \/ /\ state = "failed" /\ missing = {}
               /\ files \subseteq files' /\ faults' = faults + 1
               /\ files' \subseteq files \union BlocksOf(Active, p, old.id)
  <2>1. CASE TaskSucceeds(Active, p)
    BY <2>1 DEF TaskSucceeds
  <2>2. CASE TaskMissesBlocks(Active, p)
    BY <1>4, <2>2 DEF TaskMissesBlocks
  <2>3. CASE TaskFails(Active, p)
    BY <2>3 DEF TaskFails
  <2> QED BY <1>2, <2>1, <2>2, <2>3
<1>6. PICK state \in {"success", "failed"}, missing \in SUBSET Stages :
         /\ Report(Active, p, state, missing)
         /\ \/ /\ state = "success" /\ missing = {}
               /\ files' = files \union BlocksOf(Active, p, old.id) /\ faults' = faults
            \/ /\ state = "failed" /\ \E m \in Unreadable(old) : missing = {m}
               /\ files' = files /\ faults' = faults
            \/ /\ state = "failed" /\ missing = {}
               /\ files \subseteq files' /\ faults' = faults + 1
               /\ files' \subseteq files \union BlocksOf(Active, p, old.id)
  BY <1>5
<1> DEFINE new == [old EXCEPT !.state = state, !.missing = missing]
<1>7. /\ new \in Task /\ new.state = state /\ new.missing = missing
      /\ new.id = old.id /\ new.blocks = old.blocks /\ new.attempt = old.attempt
  BY <1>3 DEF Task, TaskStates
<1>8. tasks' = [tasks EXCEPT ![Active][p] = new]
  BY <1>6 DEF Report
<1> HIDE DEF new
<1>9. \A r \in Stages : \A q \in Parts(r) :
         tasks'[r][q] = IF r = Active /\ q = p THEN new ELSE tasks[r][q]
  BY <1>1, <1>3, <1>8 DEF TypeOK
<1>10. stack # <<>> /\ UNCHANGED <<cursor, stack, next_task, blocks, recomputed_stages,
                   stage_metrics, last_metrics, outcome, lost>>
  BY DEF RunTask, metricsVars
<1>11. RanTask(p, new)
  BY <1>3, <1>6, <1>7, <1>9, <1>10 DEF RanTask
<1> QED BY <1>11

\* What processing a result does.
LEMMA ProcessResultEffect ==
  ASSUME TypeOK, BelowInv, ProcessResult
  PROVE  (\E p, new : JudgedTask(p, new)) \/ (\E p, m : BeganRecovery(p, m))
<1>1. Active \in Stages
  BY ActiveFrame DEF ProcessResult
<1>2. PICK p \in Unprocessed(Active) :
         \/ Accept(Active, p)
         \/ Recover(Active, p)
         \/ Retry(Active, p)
         \/ GiveUp(Active, p)
  BY DEF ProcessResult
<1> DEFINE old == tasks[Active][p]
<1>3. p \in Parts(Active) /\ old \in Task
  BY <1>1, <1>2 DEF Unprocessed, TypeOK
<1>4. /\ stack # <<>>
      /\ UNCHANGED <<cursor, files, blocks, stage_metrics, last_metrics, outcome, faults, lost>>
  BY DEF ProcessResult, metricsVars
<1>5. CASE Recover(Active, p)
  <2>1. PICK m \in old.missing \ recomputed_stages :
           /\ recomputed_stages' = recomputed_stages \union {m}
           /\ EnterStage(m, TRUE)
           /\ tasks' = [tasks EXCEPT ![Active][p] = [old EXCEPT !.state = "recovering"],
                                     ![m] = FreshTasks(m)]
    BY <1>5 DEF Recover
  <2>2. old.state = "failed"
    BY <1>5 DEF Recover, Recoverable
  <2>3. m \in Stages /\ m < Active
    BY <1>1, <1>3, <2>1 DEF Task, BelowInv
  <2>4. \A r \in Stages : \A q \in Parts(r) :
           tasks'[r][q] = IF r = m THEN FreshTasks(m)[q]
                          ELSE IF r = Active /\ q = p THEN [old EXCEPT !.state = "recovering"]
                          ELSE tasks[r][q]
    <3> DEFINE task == [old EXCEPT !.state = "recovering"]
               fresh == FreshTasks(m)
    <3>1. tasks' = [tasks EXCEPT ![Active][p] = task, ![m] = fresh]
      BY <2>1
    <3> HIDE DEF task, fresh
    <3>2. \A r \in Stages : \A q \in Parts(r) :
             tasks'[r][q] = IF r = m THEN fresh[q]
                            ELSE IF r = Active /\ q = p THEN task ELSE tasks[r][q]
      BY <1>1, <1>3, <2>3, <3>1 DEF TypeOK
    <3> QED BY <3>2 DEF task, fresh
  <2>5. BeganRecovery(p, m)
    BY <1>3, <1>4, <2>1, <2>2, <2>3, <2>4 DEF BeganRecovery
  <2> QED BY <2>5
<1>6. CASE Accept(Active, p) \/ Retry(Active, p) \/ GiveUp(Active, p)
  <2>1. ~ Recoverable(old) /\ old.state = "failed" => old.missing \subseteq recomputed_stages
    BY DEF Recoverable
  <2>2. old.attempt \in Nat /\ MaxRetries \in Nat
    BY <1>3, BoundAssumption DEF Task
  <2>3. PICK new : /\ tasks' = [tasks EXCEPT ![Active][p] = new]
                   /\ \E state \in TaskStates, n \in Nat :
                        /\ new = [old EXCEPT !.state = state, !.missing = {}, !.attempt = n]
                        /\ \/ old.state = "success" /\ state = "done" /\ n = old.attempt
                           \/ /\ old.state = "failed" /\ old.missing \subseteq recomputed_stages
                              /\ \/ /\ state = "again" /\ n = old.attempt + 1
                                    /\ old.attempt < MaxRetries
                                 \/ /\ state = "exhausted" /\ n = old.attempt
                                    /\ old.attempt >= MaxRetries
    <3>1. \A state \in TaskStates :
             [old EXCEPT !.state = state, !.missing = {}]
               = [old EXCEPT !.state = state, !.missing = {}, !.attempt = old.attempt]
      BY <1>3 DEF Task
    <3>2. CASE Accept(Active, p)
      BY <2>2, <3>1, <3>2 DEF Accept, Report, TaskStates
    <3>3. CASE GiveUp(Active, p)
      BY <2>1, <2>2, <3>1, <3>3 DEF GiveUp, Report, TaskStates
    <3>4. CASE Retry(Active, p)
      <4>1. old.attempt + 1 \in Nat
        BY <2>2
      <4> QED BY <2>1, <3>4, <4>1 DEF Retry, TaskStates
    <3> QED BY <1>6, <3>2, <3>3, <3>4
  <2>4. PICK state \in TaskStates, n \in Nat :
           /\ new = [old EXCEPT !.state = state, !.missing = {}, !.attempt = n]
           /\ \/ old.state = "success" /\ state = "done" /\ n = old.attempt
              \/ /\ old.state = "failed" /\ old.missing \subseteq recomputed_stages
                 /\ \/ /\ state = "again" /\ n = old.attempt + 1
                       /\ old.attempt < MaxRetries
                    \/ state = "exhausted" /\ n = old.attempt /\ old.attempt >= MaxRetries
    BY <2>3
  <2>5. /\ new \in Task /\ new.state = state /\ new.missing = {} /\ new.attempt = n
        /\ new.id = old.id /\ new.blocks = old.blocks
    BY <1>3, <2>4 DEF Task
  <2>6. \A r \in Stages : \A q \in Parts(r) :
           tasks'[r][q] = IF r = Active /\ q = p THEN new ELSE tasks[r][q]
    <3>1. tasks' = [tasks EXCEPT ![Active][p] = new]
      BY <2>3
    <3> QED BY <1>1, <1>3, <3>1 DEF TypeOK
  <2>7. UNCHANGED <<stack, next_task, recomputed_stages>>
    BY <1>6 DEF Accept, Retry, GiveUp
  <2>8. JudgedTask(p, new)
    BY <1>3, <1>4, <2>4, <2>5, <2>6, <2>7 DEF JudgedTask
  <2> QED BY <2>8
<1> QED BY <1>2, <1>5, <1>6

\* What putting a batch together does.
LEMMA NextBatchEffect ==
  ASSUME TypeOK, NextBatch
  PROVE  MadeBatch
<1>1. Active \in Stages
  BY ActiveFrame DEF NextBatch
<1>2. \A r \in Stages : \A q \in Parts(r) :
         tasks'[r][q] = IF r = Active /\ tasks[r][q].state = "again"
                          THEN [tasks[r][q] EXCEPT !.state = "pending"] ELSE tasks[r][q]
  BY <1>1 DEF NextBatch, TypeOK
<1>3. \E p \in Parts(Active) : tasks[Active][p].state = "again"
  BY DEF NextBatch, InState
<1> QED BY <1>2, <1>3 DEF NextBatch, MadeBatch, metricsVars

\* The frame under the active one.
LEMMA CallerFrame ==
  ASSUME TypeOK, stack # <<>>, Len(stack) # 1
  PROVE  /\ Len(stack) > 1
         /\ Last(Front(stack)) = stack[Len(stack) - 1]
         /\ stack[Len(stack) - 1].stage \in Stages
<1>1. Len(stack) \in Nat \ {0} /\ stack \in Seq(Frame)
  BY ActiveFrame DEF TypeOK
<1>2. /\ Front(stack) \in Seq(Frame)
      /\ Len(Front(stack)) = Len(stack) - 1
      /\ \A i \in DOMAIN Front(stack) : Front(stack)[i] = stack[i]
  BY PoppedFrames
<1>3. Len(stack) - 1 \in DOMAIN Front(stack) /\ Len(stack) - 1 \in DOMAIN stack
  BY <1>1, <1>2
<1>4. Last(Front(stack)) = stack[Len(stack) - 1]
  BY <1>2, <1>3 DEF Last
<1> QED BY <1>1, <1>3, <1>4, StagesAreNumbers

\* What returning from a run of a stage does.
LEMMA FinishStageEffect ==
  ASSUME TypeOK, StackInv, FinishStage
  PROVE  LeftStage \/ \E caller : Returned(caller)
<1>1. stack # <<>> /\ InState(Active, {"done"})
  BY DEF FinishStage, StageDone
<1>2. /\ blocks' = Registered(Active)
      /\ UNCHANGED <<next_task, files, recomputed_stages, last_metrics, outcome, faults, lost>>
  BY DEF FinishStage
<1>3. CASE Len(stack) = 1
  <2>1. Active = cursor
    BY <1>1, <1>3, ActiveFrame DEF Active, StackInv
  <2> QED BY <1>1, <1>2, <1>3, <2>1 DEF FinishStage, LeftStage
<1>4. CASE Len(stack) # 1
  <2> DEFINE caller == stack[Len(stack) - 1].stage
             manager == Registered(Active)
  <2>1. caller \in Stages /\ Len(stack) > 1 /\ caller = Last(Front(stack)).stage
    BY <1>1, <1>4, CallerFrame
  <2>2. Resume(caller, manager) /\ UNCHANGED cursor
    BY <1>4, <2>1 DEF FinishStage
  <2>3. \A r \in Stages : \A q \in Parts(r) :
           tasks'[r][q] = IF r = caller /\ tasks[r][q].state = "recovering"
                            THEN [tasks[r][q] EXCEPT !.state = "again", !.missing = {},
                                    !.blocks = Resolve(manager, caller, q)]
                            ELSE tasks[r][q]
    <3> HIDE DEF caller, manager
    <3> QED BY <2>1, <2>2 DEF Resume, TypeOK
  <2>4. Returned(caller)
    BY <1>1, <1>2, <2>1, <2>2, <2>3 DEF Returned, Resumed
  <2> QED BY <2>4
<1> QED BY <1>3, <1>4

\* A task's state after that, told by its old one.
LEMMA ResumedTask ==
  ASSUME TypeOK, NEW caller \in Stages, Resumed(caller), NEW r \in Stages, NEW q \in Parts(r)
  PROVE  /\ tasks'[r][q].attempt = tasks[r][q].attempt
         /\ tasks'[r][q].state = IF r = caller /\ tasks[r][q].state = "recovering"
                                   THEN "again"
                                   ELSE tasks[r][q].state
<1> DEFINE held == Resolve(Registered(Active), caller, q)
           old == tasks[r][q]
<1>1. old \in Task
  BY DEF TypeOK
<1>2. tasks'[r][q] = IF r = caller /\ old.state = "recovering"
                       THEN [old EXCEPT !.state = "again", !.missing = {}, !.blocks = held]
                       ELSE old
  BY DEF Resumed
<1> HIDE DEF held, old
<1>3. CASE r = caller /\ old.state = "recovering"
  <2>1. tasks'[r][q] = [old EXCEPT !.state = "again", !.missing = {}, !.blocks = held]
    BY <1>2, <1>3
  <2> QED BY <1>1, <1>3, <2>1 DEF Task, old
<1>4. CASE ~ (r = caller /\ old.state = "recovering")
  BY <1>2, <1>4 DEF old
<1> QED BY <1>3, <1>4

\* What entering the loop's next stage does.
LEMMA StartStageEffect ==
  ASSUME TypeOK, StartStage
  PROVE  Started
<1>1. cursor \in Stages
  BY PlanFacts DEF StartStage, TypeOK, Stages
<1>2. \A r \in Stages : \A q \in Parts(r) :
         tasks'[r][q] = IF r = cursor THEN FreshTasks(cursor)[q] ELSE tasks[r][q]
  <2> DEFINE fresh == FreshTasks(cursor)
  <2>1. tasks' = [tasks EXCEPT ![cursor] = fresh]
    BY DEF StartStage
  <2> HIDE DEF fresh
  <2>2. \A r \in Stages : \A q \in Parts(r) :
           tasks'[r][q] = IF r = cursor THEN fresh[q] ELSE tasks[r][q]
    BY <1>1, <2>1 DEF TypeOK
  <2> QED BY <2>2 DEF fresh
<1> QED BY <1>1, <1>2 DEF StartStage, Started, metricsVars

\* Every step of the scheduler has one of these effects.
LEMMA Effects ==
  ASSUME IInv, [Next]_vars
  PROVE  \/ \E p, new : RanTask(p, new)
         \/ \E p, new : JudgedTask(p, new)
         \/ \E p, m : BeganRecovery(p, m)
         \/ MadeBatch
         \/ FinishStage /\ ((\E caller : Returned(caller)) \/ LeftStage)
         \/ Started
         \/ Ended
         \/ Lost
         \/ UNCHANGED vars
<1>1. TypeOK /\ StackInv /\ BelowInv
  BY DEF IInv
<1>2. CASE RaiseTaskError \/ WorkerDies \/ ReturnDataset
  BY <1>2 DEF RaiseTaskError, WorkerDies, ReturnDataset, Finish, Ended
<1>3. CASE LoseBlock
  BY <1>3 DEF LoseBlock, Lost, metricsVars
<1>4. CASE UNCHANGED vars
  BY <1>4
<1> QED BY <1>1, <1>2, <1>3, <1>4, RunTaskEffect, ProcessResultEffect, NextBatchEffect,
           FinishStageEffect, StartStageEffect DEF Next, Driver

-----------------------------------------------------------------------------
(* Task ids are fresh.                                                     *)

\* No block that is registered or held has the id of a task not yet built, or
\* of a task of the same stage in a run that has not returned.
FreshInv ==
  /\ \A s \in Stages : \A b \in blocks[s] : b.task < next_task
  /\ \A s \in Stages : \A p \in Parts(s) :
        /\ tasks[s][p].state # "none" => tasks[s][p].id < next_task
        /\ \A b \in tasks[s][p].blocks : b.task < next_task
  /\ \A s \in Open : \A p \in Parts(s) :
        /\ \A b \in blocks[s] : b.task # tasks[s][p].id
        /\ \A r \in Stages : \A q \in Parts(r) : \A b \in tasks[r][q].blocks :
              b.stage = s => b.task # tasks[s][p].id

\* Open calls are calls of stages.
LEMMA OpenStages == TypeOK => Open \subseteq Stages
BY StagesAreNumbers DEF Open

\* Entering a stage opens it and closes none.
LEMMA OpenEntered ==
  ASSUME TypeOK, NEW m \in Stages, NEW r \in BOOLEAN, EnterStage(m, r)
  PROVE  Open' = Open \union {m}
<1> DEFINE n == Len(stack)
<1>1. /\ n \in Nat /\ DOMAIN stack = 1 .. n /\ DOMAIN stack' = 1 .. n + 1
      /\ \A i \in 1 .. n : stack'[i] = stack[i]
      /\ stack'[n + 1] = [stage |-> m, recomputed |-> r]
  BY PushedFrames
<1> HIDE DEF n
<1>2. \A i : i \in 1 .. n + 1 <=> i \in 1 .. n \/ i = n + 1
  BY <1>1
<1>3. Open' = {stack'[i].stage : i \in DOMAIN stack'}
  BY DEF Open
<1>4. ASSUME NEW x
      PROVE  x \in Open' <=> x \in Open \union {m}
  BY <1>1, <1>2, <1>3 DEF Open
<1> QED BY <1>4

\* Returning from a stage closes just that one.
LEMMA OpenFinished ==
  ASSUME TypeOK, StackInv, FinishStage
  PROVE  /\ Active \in Open
         /\ Open' = Open \ {Active}
<1> DEFINE n == Len(stack)
<1>1. /\ n \in Nat \ {0} /\ n \in DOMAIN stack /\ DOMAIN stack = 1 .. n
      /\ Active = stack[n].stage
  BY ActiveFrame DEF FinishStage, Active, TypeOK
<1>2. /\ Front(stack) \in Seq(Frame) /\ Len(Front(stack)) = n - 1
      /\ \A i \in DOMAIN Front(stack) : i \in DOMAIN stack /\ Front(stack)[i] = stack[i]
  BY PoppedFrames DEF FinishStage
<1>3. stack' = Front(stack)
  BY DEF FinishStage
<1> HIDE DEF n
<1>4. DOMAIN stack' = 1 .. n - 1 /\ \A i \in 1 .. n - 1 : stack'[i] = stack[i]
  BY <1>1, <1>2, <1>3
<1>5. \A i : i \in 1 .. n <=> i \in 1 .. n - 1 \/ i = n
  BY <1>1
<1>6. \A i \in 1 .. n - 1 : i \in DOMAIN stack /\ i < n /\ stack[i].stage \in Nat
  BY <1>1, StagesAreNumbers
<1>7. \A i \in 1 .. n - 1 : stack[i].stage # Active
  <2>1. Active \in Nat
    BY <1>1, StagesAreNumbers
  <2> QED BY <1>1, <1>6, <2>1 DEF StackInv
<1>8. Open' = {stack'[i].stage : i \in DOMAIN stack'}
  BY DEF Open
<1>9. ASSUME NEW x
      PROVE  x \in Open' <=> x \in Open \ {Active}
  BY <1>1, <1>4, <1>5, <1>6, <1>7, <1>8 DEF Open
<1>10. Active \in Open
  BY <1>1 DEF Open
<1> QED BY <1>9, <1>10

\* Steps that build no task and register nothing.
LEMMA FreshKept ==
  ASSUME FreshInv,
         \A r \in Stages : \A q \in Parts(r) :
            /\ tasks'[r][q].id = tasks[r][q].id
            /\ tasks'[r][q].blocks = tasks[r][q].blocks
            /\ tasks[r][q].state = "none" => tasks'[r][q].state = "none",
         UNCHANGED <<blocks, next_task>>, Open' \subseteq Open, TypeOK
  PROVE  FreshInv'
<1>1. \A s \in Stages : \A b \in blocks'[s] : b.task < next_task'
  BY DEF FreshInv
<1>2. \A s \in Stages : \A p \in Parts(s) :
         /\ tasks'[s][p].state # "none" => tasks'[s][p].id < next_task'
         /\ \A b \in tasks'[s][p].blocks : b.task < next_task'
  BY DEF FreshInv
<1>3. \A s \in Open' : \A p \in Parts(s) :
         /\ \A b \in blocks'[s] : b.task # tasks'[s][p].id
         /\ \A r \in Stages : \A q \in Parts(r) : \A b \in tasks'[r][q].blocks :
               b.stage = s => b.task # tasks'[s][p].id
  <2> SUFFICES ASSUME NEW s \in Open', NEW p \in Parts(s)
               PROVE  /\ \A b \in blocks'[s] : b.task # tasks'[s][p].id
                      /\ \A r \in Stages : \A q \in Parts(r) : \A b \in tasks'[r][q].blocks :
                            b.stage = s => b.task # tasks'[s][p].id
    OBVIOUS
  <2>1. s \in Stages /\ s \in Open
    BY OpenStages
  <2> QED BY <2>1 DEF FreshInv
<1> QED BY <1>1, <1>2, <1>3 DEF FreshInv, Parts

\* Steps that build the tasks of a stage draw ids that nobody has seen.
LEMMA FreshEntered ==
  ASSUME TypeOK, RegInv(blocks, next_task), FreshInv, NEW m \in Stages, m \notin Open,
         NEW recomputed \in BOOLEAN, EnterStage(m, recomputed), UNCHANGED blocks,
         \A r \in Stages : \A q \in Parts(r) :
            IF r = m THEN tasks'[r][q] = FreshTasks(m)[q]
            ELSE /\ tasks'[r][q].id = tasks[r][q].id
                 /\ tasks'[r][q].blocks = tasks[r][q].blocks
                 /\ tasks[r][q].state = "none" => tasks'[r][q].state = "none"
  PROVE  FreshInv'
<1>1. /\ next_task \in Nat /\ next_task' \in Nat /\ next_task < next_task'
      /\ next_task' = next_task + NumPartitions[m] /\ NumPartitions[m] \in Nat \ {0}
  BY PlanFacts DEF EnterStage, TypeOK
<1>2. Open' = Open \union {m} /\ Open \subseteq Stages
  BY OpenEntered, OpenStages
<1>3. \A q \in Parts(m) : /\ tasks'[m][q].id = next_task + q
                          /\ tasks'[m][q].blocks = Resolve(blocks, m, q)
  <2>1. \A q \in Parts(m) : tasks'[m][q] = FreshTasks(m)[q]
    OBVIOUS
  <2>2. \A q \in Parts(m) : /\ FreshTasks(m)[q].id = next_task + q
                            /\ FreshTasks(m)[q].blocks = Resolve(blocks, m, q)
    BY DEF FreshTasks
  <2> QED BY <2>1, <2>2
<1>4. \A q \in Parts(m) : q \in Nat /\ q < NumPartitions[m]
  BY <1>1 DEF Parts
<1>5. ASSUME NEW s \in Stages, NEW b \in blocks[s]
      PROVE  b.task \in Nat /\ b.task < next_task /\ b \in Block
  BY DEF FreshInv, TypeOK, Block
<1>6. ASSUME NEW q, NEW b \in Resolve(blocks, m, q)
      PROVE  \E s \in Stages : b \in blocks[s]
  BY PlanFacts DEF Resolve, BlocksFor, Leaf
<1>7. ASSUME NEW r \in Stages, NEW q \in Parts(r), NEW b \in tasks[r][q].blocks
      PROVE  b.task \in Nat /\ b.task < next_task
  BY DEF FreshInv, TypeOK, Task, Block
<1>8. ASSUME NEW r \in Stages, NEW q \in Parts(r), NEW b \in tasks'[r][q].blocks
      PROVE  b.task \in Nat /\ b.task < next_task
  BY <1>3, <1>5, <1>6, <1>7
<1>9. \A s \in Stages : \A p \in Parts(s) :
         /\ tasks'[s][p].state # "none" => tasks'[s][p].id < next_task'
         /\ \A b \in tasks'[s][p].blocks : b.task < next_task'
  <2> SUFFICES ASSUME NEW s \in Stages, NEW p \in Parts(s)
               PROVE  /\ tasks'[s][p].state # "none" => tasks'[s][p].id < next_task'
                      /\ \A b \in tasks'[s][p].blocks : b.task < next_task'
    OBVIOUS
  <2>1. tasks'[s][p].state # "none" => tasks'[s][p].id < next_task'
    <3>1. CASE s = m
      <4>1. tasks'[m][p].id = next_task + p /\ p \in Nat /\ p < NumPartitions[m]
        BY <1>3, <1>4, <3>1
      <4> QED BY <1>1, <3>1, <4>1
    <3>2. CASE s # m
      <4>1. tasks[s][p].state # "none" => tasks[s][p].id < next_task
        BY DEF FreshInv
      <4>2. tasks[s][p].id \in Nat
        BY DEF TypeOK, Task
      <4> QED BY <1>1, <3>2, <4>1, <4>2
    <3> QED BY <3>1, <3>2
  <2>2. \A b \in tasks'[s][p].blocks : b.task < next_task'
    BY <1>1, <1>8
  <2> QED BY <2>1, <2>2
<1>10. \A s \in Open' : \A p \in Parts(s) :
         /\ \A b \in blocks'[s] : b.task # tasks'[s][p].id
         /\ \A r \in Stages : \A q \in Parts(r) : \A b \in tasks'[r][q].blocks :
               b.stage = s => b.task # tasks'[s][p].id
  <2> SUFFICES ASSUME NEW s \in Open', NEW p \in Parts(s)
               PROVE  /\ \A b \in blocks[s] : b.task # tasks'[s][p].id
                      /\ \A r \in Stages : \A q \in Parts(r) : \A b \in tasks'[r][q].blocks :
                            b.stage = s => b.task # tasks'[s][p].id
    OBVIOUS
  <2>1. CASE s = m
    <3>1. tasks'[s][p].id >= next_task /\ tasks'[s][p].id \in Nat
      BY <1>1, <1>3, <1>4, <2>1
    <3>2. \A b \in blocks[s] : b.task \in Nat /\ b.task < next_task
      BY <1>5, <2>1
    <3>3. \A r \in Stages : \A q \in Parts(r) : \A b \in tasks'[r][q].blocks :
             b.task \in Nat /\ b.task < next_task
      BY <1>8
    <3> QED BY <1>1, <3>1, <3>2, <3>3
  <2>2. CASE s # m
    <3>1. s \in Open /\ s \in Stages /\ tasks'[s][p].id = tasks[s][p].id
      BY <1>2, <2>2
    <3>2. \A b \in blocks[s] : b.task # tasks[s][p].id
      BY <3>1 DEF FreshInv
    <3>3. \A r \in Stages : \A q \in Parts(r) : \A b \in tasks[r][q].blocks :
             b.stage = s => b.task # tasks[s][p].id
      BY <3>1 DEF FreshInv
    <3>4. ASSUME NEW q \in Parts(m), NEW b \in Resolve(blocks, m, q), b.stage = s
          PROVE  b.task # tasks[s][p].id
      <4>1. \E leaf \in Reads[m] : b \in blocks[leaf.from] /\ leaf.from \in Stages
        BY PlanFacts DEF Resolve, BlocksFor, Leaf
      <4>2. b \in blocks[s]
        BY <3>4, <4>1 DEF RegInv
      <4> QED BY <3>2, <4>2
    <3> QED BY <1>3, <3>1, <3>2, <3>3, <3>4
  <2> QED BY <2>1, <2>2
<1>11. \A s \in Stages : \A b \in blocks'[s] : b.task < next_task'
  BY <1>1, <1>5
<1> QED BY <1>9, <1>10, <1>11 DEF FreshInv, Parts

\* A stage that returns registers the blocks of its own tasks, and its caller's
\* waiting tasks are given registered blocks.
LEMMA FreshFinished ==
  ASSUME IInv, FreshInv, FinishStage, (\E caller : Returned(caller)) \/ LeftStage
  PROVE  FreshInv'
<1> DEFINE manager == Registered(Active)
<1>1. TypeOK /\ StackInv /\ RegInv(blocks, next_task) /\ IdInv
  BY DEF IInv
<1>2. Active \in Stages /\ stack # <<>>
  BY <1>1, ActiveFrame DEF FinishStage
<1>3. Open' = Open \ {Active} /\ Active \in Open /\ Open \subseteq Stages
  BY <1>1, OpenFinished, OpenStages
<1>4. blocks' = manager /\ next_task' = next_task
  BY DEF FinishStage
<1>5. \A s \in Stages : \A b \in manager[s] : b.stage = s
  BY <1>1, RegisterKeepsReg DEF RegInv
<1>6. \A s \in Stages : s # Active => manager[s] = blocks[s]
  BY <1>1 DEF Registered, TypeOK
<1>7. ASSUME NEW s \in Stages, NEW b \in manager[s]
      PROVE  b.task < next_task
  <2>1. CASE manager[s] = blocks[s]
    BY <2>1 DEF FreshInv
  <2>2. CASE manager[s] # blocks[s]
    <3>1. s = Active /\ manager[s] = UNION {BlocksOf(s, p, tasks[s][p].id) : p \in Parts(s)}
      BY <1>1, <1>6, <2>2 DEF Registered, TypeOK
    <3>2. PICK p \in Parts(s) : b \in BlocksOf(s, p, tasks[s][p].id)
      BY <3>1
    <3>3. tasks[s][p].state # "none"
      BY <3>1 DEF FinishStage, StageDone, InState
    <3> QED BY <3>2, <3>3 DEF BlocksOf, FreshInv
  <2> QED BY <2>1, <2>2
<1> HIDE DEF manager
<1>8. ASSUME NEW r \in Stages, NEW q \in Parts(r)
      PROVE  /\ tasks'[r][q].id = tasks[r][q].id
             /\ \/ tasks'[r][q].blocks = tasks[r][q].blocks
                \/ tasks'[r][q].blocks = Resolve(manager, r, q)
             /\ tasks[r][q].state = "none" => tasks'[r][q].state = "none"
  <2>1. tasks[r][q] \in Task
    BY <1>1 DEF TypeOK
  <2>2. CASE LeftStage
    BY <2>2 DEF LeftStage
  <2>3. CASE \E caller : Returned(caller)
    <3>1. \/ tasks'[r][q] = tasks[r][q]
          \/ /\ tasks[r][q].state = "recovering"
             /\ tasks'[r][q] = [tasks[r][q] EXCEPT !.state = "again", !.missing = {},
                                  !.blocks = Resolve(manager, r, q)]
      BY <2>3 DEF Returned, Resumed, manager
    <3> QED BY <2>1, <3>1 DEF Task
  <2> QED BY <2>2, <2>3
<1>9. ASSUME NEW r \in Stages, NEW q, NEW b \in Resolve(manager, r, q)
      PROVE  b.stage \in Stages /\ b \in manager[b.stage]
  BY <1>5, PlanFacts DEF Resolve, BlocksFor, Leaf
<1>10. ASSUME NEW s \in Stages, NEW p \in Parts(s)
       PROVE  /\ tasks'[s][p].state # "none" => tasks'[s][p].id < next_task'
              /\ \A b \in tasks'[s][p].blocks : b.task < next_task'
  BY <1>4, <1>7, <1>8, <1>9 DEF FreshInv
<1>11. ASSUME NEW s \in Open', NEW p \in Parts(s)
       PROVE  /\ \A b \in blocks'[s] : b.task # tasks'[s][p].id
              /\ \A r \in Stages : \A q \in Parts(r) : \A b \in tasks'[r][q].blocks :
                    b.stage = s => b.task # tasks'[s][p].id
  <2>1. s \in Open /\ s \in Stages /\ s # Active /\ manager[s] = blocks[s]
        /\ tasks'[s][p].id = tasks[s][p].id
    BY <1>3, <1>6, <1>8
  <2>2. \A b \in blocks[s] : b.task # tasks[s][p].id
    BY <2>1 DEF FreshInv
  <2>3. \A r \in Stages : \A q \in Parts(r) : \A b \in tasks[r][q].blocks :
           b.stage = s => b.task # tasks[s][p].id
    BY <2>1 DEF FreshInv
  <2>4. ASSUME NEW r \in Stages, NEW q \in Parts(r), NEW b \in tasks'[r][q].blocks,
               b.stage = s
        PROVE  b.task # tasks[s][p].id
    BY <1>8, <1>9, <2>1, <2>2, <2>3, <2>4
  <2> QED BY <1>4, <2>1, <2>2, <2>4
<1>12. \A s \in Stages : \A b \in blocks'[s] : b.task < next_task'
  BY <1>4, <1>7
<1> QED BY <1>10, <1>11, <1>12 DEF FreshInv, Parts

\* A stage that a step enters is not open: calls only go to earlier stages.
LEMMA EntersClosed ==
  ASSUME TypeOK, StackInv
  PROVE  /\ Started => cursor \notin Open
         /\ \A m \in Stages : m < Active /\ stack # <<>> => m \notin Open
<1>1. Started => cursor \notin Open
  BY DEF Started, Open
<1>2. ASSUME NEW m \in Stages, m < Active, stack # <<>>
      PROVE  m \notin Open
  <2>1. /\ Len(stack) \in DOMAIN stack /\ DOMAIN stack = 1 .. Len(stack)
        /\ Len(stack) \in Nat /\ Active = stack[Len(stack)].stage /\ Active \in Stages
    BY <1>2, ActiveFrame DEF Active, TypeOK
  <2>2. ASSUME NEW i \in DOMAIN stack
        PROVE  stack[i].stage \in Nat /\ Active <= stack[i].stage
    <3>1. i = Len(stack) \/ i < Len(stack)
      BY <2>1
    <3> QED BY <2>1, <3>1, StagesAreNumbers DEF StackInv
  <2>3. m \in Nat /\ Active \in Nat
    BY <2>1, StagesAreNumbers
  <2> QED BY <1>2, <2>2, <2>3 DEF Open
<1> QED BY <1>1, <1>2

\* Every step keeps the ids fresh.
LEMMA FreshNext == IInv /\ FreshInv /\ [Next]_vars => FreshInv'
<1> SUFFICES ASSUME IInv, FreshInv, [Next]_vars PROVE FreshInv'
  OBVIOUS
<1>1. TypeOK /\ StackInv /\ RegInv(blocks, next_task)
  BY DEF IInv
<1> DEFINE SameTask(r, q) == /\ tasks'[r][q].id = tasks[r][q].id
                             /\ tasks'[r][q].blocks = tasks[r][q].blocks
                             /\ tasks[r][q].state = "none" => tasks'[r][q].state = "none"
<1>2. \A r \in Stages : \A q \in Parts(r) : tasks[r][q] \in Task
  BY <1>1 DEF TypeOK
<1>3. CASE \E p, new : RanTask(p, new)
  <2>1. UNCHANGED stack /\ UNCHANGED <<blocks, next_task>>
    BY <1>3 DEF RanTask
  <2>2. \A r \in Stages : \A q \in Parts(r) : SameTask(r, q)
    BY <1>3 DEF RanTask
  <2> QED BY <1>1, <2>1, <2>2, FreshKept DEF Open
<1>4. CASE \E p, new : JudgedTask(p, new)
  <2>1. UNCHANGED stack /\ UNCHANGED <<blocks, next_task>>
    BY <1>4 DEF JudgedTask
  <2>2. \A r \in Stages : \A q \in Parts(r) : SameTask(r, q)
    BY <1>4 DEF JudgedTask
  <2> QED BY <1>1, <2>1, <2>2, FreshKept DEF Open
<1>5. CASE \E p, m : BeganRecovery(p, m)
  <2>1. PICK p, m : BeganRecovery(p, m)
    BY <1>5
  <2>2. /\ m \in Stages /\ m < Active /\ EnterStage(m, TRUE) /\ UNCHANGED blocks
        /\ stack # <<>>
    BY <2>1 DEF BeganRecovery
  <2>3. \A r \in Stages : \A q \in Parts(r) :
           IF r = m THEN tasks'[r][q] = FreshTasks(m)[q] ELSE SameTask(r, q)
    <3> SUFFICES ASSUME NEW r \in Stages, NEW q \in Parts(r)
                 PROVE  IF r = m THEN tasks'[r][q] = FreshTasks(m)[q] ELSE SameTask(r, q)
      OBVIOUS
    <3>1. IF r = m THEN tasks'[r][q] = FreshTasks(m)[q]
          ELSE \/ tasks'[r][q] = tasks[r][q]
               \/ /\ tasks[r][q].state = "failed"
                  /\ tasks'[r][q] = [tasks[r][q] EXCEPT !.state = "recovering"]
      BY <2>1 DEF BeganRecovery
    <3> QED BY <1>2, <3>1 DEF Task
  <2>4. m \notin Open
    BY <1>1, <2>2, EntersClosed
  <2> HIDE DEF SameTask
  <2> QED BY <1>1, <2>2, <2>3, <2>4, FreshEntered DEF SameTask
<1>6. CASE MadeBatch
  <2>1. UNCHANGED stack /\ UNCHANGED <<blocks, next_task>>
    BY <1>6 DEF MadeBatch
  <2>2. \A r \in Stages : \A q \in Parts(r) : SameTask(r, q)
    <3> SUFFICES ASSUME NEW r \in Stages, NEW q \in Parts(r) PROVE SameTask(r, q)
      OBVIOUS
    <3>1. tasks'[r][q] = IF r = Active /\ tasks[r][q].state = "again"
                           THEN [tasks[r][q] EXCEPT !.state = "pending"]
                           ELSE tasks[r][q]
      BY <1>6 DEF MadeBatch
    <3>2. tasks[r][q] \in Task
      BY <1>2
    <3> QED BY <3>1, <3>2 DEF Task
  <2> QED BY <1>1, <2>1, <2>2, FreshKept DEF Open
<1>7. CASE FinishStage /\ ((\E caller : Returned(caller)) \/ LeftStage)
  BY <1>7, FreshFinished
<1>8. CASE Started
  <2>1. cursor \in Stages /\ EnterStage(cursor, FALSE) /\ UNCHANGED blocks
    BY <1>8 DEF Started
  <2>2. \A r \in Stages : \A q \in Parts(r) :
           IF r = cursor THEN tasks'[r][q] = FreshTasks(cursor)[q] ELSE SameTask(r, q)
    BY <1>8 DEF Started
  <2>3. cursor \notin Open
    BY <1>1, <1>8, EntersClosed
  <2> HIDE DEF SameTask
  <2> QED BY <1>1, <2>1, <2>2, <2>3, FreshEntered DEF SameTask
<1>9. CASE Ended \/ Lost \/ UNCHANGED vars
  <2>1. /\ UNCHANGED <<tasks, blocks, next_task>>
        /\ stack' = stack \/ stack' = <<>>
    BY <1>9 DEF Ended, Lost, vars
  <2>2. \A r \in Stages : \A q \in Parts(r) : SameTask(r, q)
    BY <2>1
  <2>3. Open' \subseteq Open
    BY <2>1 DEF Open
  <2> QED BY <1>1, <2>1, <2>2, <2>3, FreshKept
<1> QED BY <1>3, <1>4, <1>5, <1>6, <1>7, <1>8, <1>9, Effects

\* No run of a stage that has not returned, a retry or a recomputation, ever
\* writes to a path that a reader was given or that is registered.
THEOREM RunsWriteFreshPaths == Spec => []WritersUseFreshPaths
<1>1. Init => FreshInv
  BY DEF Init, FreshInv, Open
<1>2. IInv /\ FreshInv => WritersUseFreshPaths
  <2> SUFFICES ASSUME IInv, FreshInv, NEW i \in DOMAIN stack, NEW p \in Parts(stack[i].stage)
               PROVE  LET s == stack[i].stage
                          mine == BlocksOf(s, p, tasks[s][p].id)
                      IN /\ mine \cap blocks[s] = {}
                         /\ \A r \in Stages : \A q \in Parts(r) :
                               mine \cap tasks[r][q].blocks = {}
    BY DEF WritersUseFreshPaths
  <2> DEFINE s == stack[i].stage
  <2>1. s \in Open
    BY DEF Open
  <2>2. \A b \in BlocksOf(s, p, tasks[s][p].id) : b.stage = s /\ b.task = tasks[s][p].id
    BY DEF BlocksOf
  <2> HIDE DEF s
  <2>3. /\ BlocksOf(s, p, tasks[s][p].id) \cap blocks[s] = {}
        /\ \A r \in Stages : \A q \in Parts(r) :
              BlocksOf(s, p, tasks[s][p].id) \cap tasks[r][q].blocks = {}
    BY <2>1, <2>2 DEF FreshInv, s
  <2> QED BY <2>3 DEF s
<1>3. IInv /\ FreshInv /\ [Next]_vars => FreshInv'
  BY FreshNext
<1> QED BY <1>1, <1>2, <1>3, Inductive, PTL DEF Spec

-----------------------------------------------------------------------------
(* What one step can do to one task.                                       *)

\* The task of partition q of stage r goes through its life: built, run,
\* judged, put into a batch again, resumed.
Moves(r, q) ==
  LET old == tasks[r][q]
      new == tasks'[r][q]
      Same == new.id = old.id /\ new.blocks = old.blocks /\ new.attempt = old.attempt
      Goes(from, to) == old.state = from /\ new.state = to
  IN
  \/ new = old
  \/ /\ new.blocks = Resolve(blocks', r, q)
     /\ new.attempt = 0 /\ new.state = "pending" /\ new.missing = {}
  \/ /\ Same /\ Goes("pending", "success") /\ new.missing = {}
     /\ BlocksOf(r, q, new.id) \subseteq files'
  \/ /\ Same /\ Goes("pending", "failed") /\ stack # <<>>
     /\ \E m \in Unreadable(old) : new.missing = {m}
  \/ Same /\ Goes("pending", "failed") /\ new.missing = {} /\ faults' = faults + 1
  \/ Same /\ Goes("success", "done") /\ new.missing = {}
  \/ Same /\ Goes("failed", "recovering") /\ new.missing = old.missing
  \/ /\ new.id = old.id /\ new.blocks = old.blocks /\ new.attempt = old.attempt + 1
     /\ Goes("failed", "again") /\ new.missing = {}
     /\ stack # <<>> /\ old.missing \subseteq recomputed_stages
  \/ /\ Same /\ Goes("failed", "exhausted") /\ new.missing = {}
     /\ stack # <<>> /\ old.missing \subseteq recomputed_stages /\ old.attempt >= MaxRetries
  \/ Same /\ Goes("again", "pending") /\ new.missing = old.missing
  \/ /\ new.id = old.id /\ new.attempt = old.attempt
     /\ Goes("recovering", "again") /\ new.missing = {}
     /\ new.blocks = Resolve(blocks', r, q)

\* Every step moves every task along.
LEMMA TaskMoves ==
  ASSUME IInv, [Next]_vars, NEW r \in Stages, NEW q \in Parts(r)
  PROVE  Moves(r, q)
<1>1. TypeOK /\ tasks[r][q] \in Task
  BY DEF IInv, TypeOK
<1>2. CASE UNCHANGED tasks
  BY <1>2 DEF Moves
<1>3. CASE \E p, new : RanTask(p, new)
  <2>1. PICK p, new : RanTask(p, new)
    BY <1>3
  <2>2. tasks'[r][q] = tasks[r][q] \/ (r = Active /\ q = p /\ tasks'[r][q] = new)
    BY <2>1 DEF RanTask
  <2>3. CASE r = Active /\ q = p /\ tasks'[r][q] = new
    BY <2>1, <2>3 DEF RanTask, Moves
  <2> QED BY <2>2, <2>3 DEF Moves
<1>4. CASE \E p, new : JudgedTask(p, new)
  <2>1. PICK p, new : JudgedTask(p, new)
    BY <1>4
  <2>2. tasks'[r][q] = tasks[r][q] \/ (r = Active /\ q = p /\ tasks'[r][q] = new)
    BY <2>1 DEF JudgedTask
  <2>3. CASE r = Active /\ q = p /\ tasks'[r][q] = new
    BY <2>1, <2>3 DEF JudgedTask, Moves
  <2> QED BY <2>2, <2>3 DEF Moves
<1>5. ASSUME NEW m, tasks'[r][q] = FreshTasks(m)[q], r = m, UNCHANGED blocks
      PROVE  Moves(r, q)
  BY <1>5 DEF FreshTasks, Moves
<1>6. CASE \E p, m : BeganRecovery(p, m)
  <2>1. PICK p, m : BeganRecovery(p, m)
    BY <1>6
  <2>2. \/ r = m /\ tasks'[r][q] = FreshTasks(m)[q] /\ UNCHANGED blocks
        \/ tasks'[r][q] = tasks[r][q]
        \/ /\ tasks[r][q].state = "failed"
           /\ tasks'[r][q] = [tasks[r][q] EXCEPT !.state = "recovering"]
    BY <2>1 DEF BeganRecovery
  <2>3. CASE /\ tasks[r][q].state = "failed"
             /\ tasks'[r][q] = [tasks[r][q] EXCEPT !.state = "recovering"]
    BY <1>1, <2>3 DEF Moves, Task
  <2>4. CASE r = m /\ tasks'[r][q] = FreshTasks(m)[q] /\ UNCHANGED blocks
    BY <1>5, <2>4
  <2>5. CASE tasks'[r][q] = tasks[r][q]
    BY <2>5 DEF Moves
  <2> QED BY <2>2, <2>3, <2>4, <2>5
<1>7. CASE MadeBatch
  <2>1. \/ tasks'[r][q] = tasks[r][q]
        \/ /\ tasks[r][q].state = "again"
           /\ tasks'[r][q] = [tasks[r][q] EXCEPT !.state = "pending"]
    BY <1>7 DEF MadeBatch
  <2> QED BY <1>1, <2>1 DEF Moves, Task
<1>8. CASE \E caller : Returned(caller)
  <2>1. PICK caller : Returned(caller)
    BY <1>8
  <2> DEFINE held == Resolve(Registered(Active), r, q)
  <2>2. \/ tasks'[r][q] = tasks[r][q]
        \/ /\ tasks[r][q].state = "recovering"
           /\ tasks'[r][q] = [tasks[r][q] EXCEPT !.state = "again", !.missing = {},
                                !.blocks = held]
    BY <2>1 DEF Returned, Resumed
  <2>3. held = Resolve(blocks', r, q)
    BY <2>1 DEF Returned
  <2> HIDE DEF held
  <2> QED BY <1>1, <2>2, <2>3 DEF Moves, Task
<1>9. CASE Started
  <2>1. \/ r = cursor /\ tasks'[r][q] = FreshTasks(cursor)[q] /\ UNCHANGED blocks
        \/ tasks'[r][q] = tasks[r][q]
    BY <1>9 DEF Started
  <2> QED BY <1>5, <2>1 DEF Moves
<1> QED BY <1>2, <1>3, <1>4, <1>6, <1>7, <1>8, <1>9, Effects DEF LeftStage, Ended, Lost, vars

\* Blocks are lost for good, failures are not forgotten, and a query that ended
\* does not go on.
LEMMA OneWay ==
  ASSUME IInv, [Next]_vars
  PROVE  /\ lost \subseteq lost'
         /\ faults' = faults \/ faults' = faults + 1
         /\ outcome' = "running" =>
              /\ outcome = "running"
              /\ files \union lost \subseteq files' \union lost'
<1>1. CASE \E p, new : RanTask(p, new)
  BY <1>1 DEF RanTask
<1>2. CASE (\E p, new : JudgedTask(p, new)) \/ (\E p, m : BeganRecovery(p, m))
  BY <1>2 DEF JudgedTask, BeganRecovery
<1>3. CASE (\E caller : Returned(caller)) \/ LeftStage
  BY <1>3 DEF Returned, LeftStage
<1>4. CASE MadeBatch \/ Started \/ Ended \/ Lost \/ UNCHANGED vars
  BY <1>4 DEF MadeBatch, Started, Ended, Lost, vars
<1> QED BY <1>1, <1>2, <1>3, <1>4, Effects

-----------------------------------------------------------------------------
(* Who reads what.                                                         *)

\* A call is open only while the query runs.
RunningInv == stack # <<>> => outcome = "running"

\* A task holds and misses blocks of its own leaves, for its own target, and a
\* stage is only recomputed for a stage that reads it.
ReaderInv ==
  /\ \A s \in Stages : \A p \in Parts(s) :
        /\ \A b \in tasks[s][p].blocks : \E leaf \in Reads[s] :
              b.stage = leaf.from /\ b.target = TargetOf(leaf, p)
        /\ \A m \in tasks[s][p].missing : \E leaf \in Reads[s] : leaf.from = m
  /\ \A i \in DOMAIN stack : i > 1 =>
        \E leaf \in Reads[stack[i - 1].stage] : leaf.from = stack[i].stage

\* The blocks a task is given are those registered for its leaves.
LEMMA ResolvedBlocks ==
  ASSUME NEW manager, \A s \in Stages : \A b \in manager[s] : b.stage = s,
         NEW s \in Stages, NEW p, NEW b \in Resolve(manager, s, p)
  PROVE  \E leaf \in Reads[s] :
            /\ leaf.from \in Stages /\ leaf.from < s
            /\ b \in manager[leaf.from] /\ b.stage = leaf.from /\ b.target = TargetOf(leaf, p)
BY PlanFacts DEF Resolve, BlocksFor, Leaf

\* Steps keep the query running while calls are open.
LEMMA RunningNext == IInv /\ RunningInv /\ [Next]_vars => RunningInv'
<1> SUFFICES ASSUME IInv, RunningInv, [Next]_vars PROVE RunningInv'
  OBVIOUS
<1>1. CASE \E p, new : RanTask(p, new)
  BY <1>1 DEF RanTask, RunningInv
<1>2. CASE (\E p, new : JudgedTask(p, new)) \/ (\E p, m : BeganRecovery(p, m))
  BY <1>2 DEF JudgedTask, BeganRecovery, RunningInv
<1>3. CASE FinishStage
  BY <1>3 DEF FinishStage, RunningInv
<1>4. CASE MadeBatch \/ Started \/ Ended \/ Lost \/ UNCHANGED vars
  BY <1>4 DEF MadeBatch, Started, Ended, Lost, vars, RunningInv
<1> QED BY <1>1, <1>2, <1>3, <1>4, Effects

\* The frames of a step's call stack: those there were, or one more for a
\* recomputation that a task of the last one waits for, or the loop's own call.
LEMMA FrameMoves ==
  ASSUME IInv, [Next]_vars, NEW i \in DOMAIN stack', i > 1
  PROVE  \/ /\ i \in DOMAIN stack /\ i - 1 \in DOMAIN stack
            /\ stack'[i] = stack[i] /\ stack'[i - 1] = stack[i - 1]
         \/ \E p, m : /\ BeganRecovery(p, m) /\ i = Len(stack) + 1
                      /\ stack'[i].stage = m /\ stack'[i - 1].stage = Active
                      /\ i - 1 \in DOMAIN stack /\ stack'[i - 1] = stack[i - 1]
<1>1. TypeOK /\ StackInv
  BY DEF IInv
<1>2. DOMAIN stack = 1 .. Len(stack) /\ Len(stack) \in Nat
  BY <1>1 DEF TypeOK
<1>3. TypeOK'
  BY InvNext DEF IInv
<1>4. DOMAIN stack' = 1 .. Len(stack') /\ i \in Nat
  BY <1>3 DEF TypeOK
<1>5. CASE stack' = stack
  BY <1>2, <1>4, <1>5
<1>6. CASE \E p, m : BeganRecovery(p, m)
  <2>1. PICK p, m : BeganRecovery(p, m)
    BY <1>6
  <2>2. m \in Stages /\ EnterStage(m, TRUE) /\ stack # <<>>
    BY <2>1 DEF BeganRecovery
  <2>3. /\ DOMAIN stack' = 1 .. Len(stack) + 1
        /\ \A j \in 1 .. Len(stack) : stack'[j] = stack[j]
        /\ stack'[Len(stack) + 1] = [stage |-> m, recomputed |-> TRUE]
    BY <1>1, <2>2, PushedFrames
  <2>4. Active = stack[Len(stack)].stage /\ Len(stack) \in DOMAIN stack
    BY <1>1, <2>2, ActiveFrame DEF Active
  <2>5. CASE i = Len(stack) + 1
    BY <1>2, <2>1, <2>3, <2>4, <2>5
  <2>6. CASE i # Len(stack) + 1
    BY <1>2, <1>4, <2>3, <2>6
  <2> QED BY <2>5, <2>6
<1>7. CASE FinishStage
  <2>1. /\ stack' = Front(stack)
        /\ \A j \in DOMAIN Front(stack) : j \in DOMAIN stack /\ Front(stack)[j] = stack[j]
    BY <1>1, <1>7, PoppedFrames DEF FinishStage
  <2>2. i - 1 \in DOMAIN stack'
    BY <1>3, <1>4 DEF TypeOK
  <2> QED BY <2>1, <2>2
<1>8. CASE Started
  <2>1. cursor \in Stages /\ EnterStage(cursor, FALSE) /\ Len(stack) = 0
    BY <1>8 DEF Started
  <2>2. DOMAIN stack' = 1 .. Len(stack) + 1
    BY <1>1, <2>1, PushedFrames
  <2>3. i \in 1 .. 0 + 1
    BY <2>1, <2>2
  <2>4. ~ i > 1
    BY <2>3
  <2> QED BY <2>4
<1>9. CASE Ended
  BY <1>4, <1>9 DEF Ended
<1>10. CASE (\E p, new : RanTask(p, new)) \/ (\E p, new : JudgedTask(p, new))
  BY <1>5, <1>10 DEF RanTask, JudgedTask
<1>11. CASE MadeBatch \/ Lost \/ UNCHANGED vars
  BY <1>5, <1>11 DEF MadeBatch, Lost, vars
<1> QED BY <1>6, <1>7, <1>8, <1>9, <1>10, <1>11, Effects

\* Steps keep to the leaves.
LEMMA ReaderNext == IInv /\ ReaderInv /\ [Next]_vars => ReaderInv'
<1> SUFFICES ASSUME IInv, ReaderInv, [Next]_vars PROVE ReaderInv'
  OBVIOUS
<1>1. \A s \in Stages : \A b \in blocks'[s] : b.stage = s
  BY InvNext DEF IInv, RegInv
<1>2. ASSUME NEW s \in Stages, NEW p \in Parts(s)
      PROVE  /\ \A b \in tasks[s][p].blocks : \E leaf \in Reads[s] :
                   b.stage = leaf.from /\ b.target = TargetOf(leaf, p)
             /\ \A m \in tasks[s][p].missing : \E leaf \in Reads[s] : leaf.from = m
  BY DEF ReaderInv
<1>3. ASSUME NEW s \in Stages, NEW p \in Parts(s)
      PROVE  /\ \A b \in tasks'[s][p].blocks : \E leaf \in Reads[s] :
                   b.stage = leaf.from /\ b.target = TargetOf(leaf, p)
             /\ \A m \in tasks'[s][p].missing : \E leaf \in Reads[s] : leaf.from = m
  <2>1. Moves(s, p)
    BY TaskMoves
  <2>2. \/ tasks'[s][p].blocks = tasks[s][p].blocks
        \/ tasks'[s][p].blocks = Resolve(blocks', s, p)
    BY <2>1 DEF Moves
  <2>3. \/ tasks'[s][p].missing = tasks[s][p].missing
        \/ tasks'[s][p].missing = {}
        \/ \E m \in Unreadable(tasks[s][p]) : tasks'[s][p].missing = {m}
    BY <2>1 DEF Moves
  <2>4. \A b \in Resolve(blocks', s, p) : \E leaf \in Reads[s] :
           b.stage = leaf.from /\ b.target = TargetOf(leaf, p)
    BY <1>1, ResolvedBlocks
  <2>5. \A m \in Unreadable(tasks[s][p]) : \E leaf \in Reads[s] : leaf.from = m
    BY <1>2 DEF Unreadable
  <2> QED BY <1>2, <2>2, <2>3, <2>4, <2>5
<1>4. ASSUME NEW i \in DOMAIN stack', i > 1
      PROVE  \E leaf \in Reads[stack'[i - 1].stage] : leaf.from = stack'[i].stage
  <2>1. CASE /\ i \in DOMAIN stack /\ stack'[i] = stack[i] /\ stack'[i - 1] = stack[i - 1]
    BY <1>4, <2>1 DEF ReaderInv
  <2>2. CASE \E p, m : /\ BeganRecovery(p, m)
                       /\ stack'[i].stage = m /\ stack'[i - 1].stage = Active
    <3>1. PICK p, m : BeganRecovery(p, m) /\ stack'[i].stage = m /\ stack'[i - 1].stage = Active
      BY <2>2
    <3>2. Active \in Stages /\ p \in Parts(Active) /\ m \in tasks[Active][p].missing
      BY <3>1, ActiveFrame DEF BeganRecovery, IInv
    <3> QED BY <1>2, <3>1, <3>2
  <2> QED BY <1>4, <2>1, <2>2, FrameMoves
<1> QED BY <1>3, <1>4 DEF ReaderInv, Parts

-----------------------------------------------------------------------------
(* Whatever is missed was lost.                                            *)

\* While the query runs, all that is registered, held or written by a task
\* that succeeded is on disk or was lost: nothing else removes a block file.
LostInv ==
  outcome = "running" =>
    /\ \A s \in Stages : blocks[s] \subseteq files \union lost
    /\ \A s \in Stages : \A p \in Parts(s) :
         /\ tasks[s][p].blocks \subseteq files \union lost
         /\ tasks[s][p].state \in {"success", "done"} =>
              BlocksOf(s, p, tasks[s][p].id) \subseteq files \union lost

\* What a stage that returns registers is on disk or lost.
LEMMA LostRegistered ==
  ASSUME TypeOK, LostInv, outcome = "running", stack # <<>>, InState(Active, {"done"}),
         NEW s \in Stages
  PROVE  Registered(Active)[s] \subseteq files \union lost
<1>1. Active \in Stages
  BY ActiveFrame
<1>2. Registered(Active)[s] = blocks[s]
      \/ (s = Active /\ Registered(Active)[s]
                          = UNION {BlocksOf(s, p, tasks[s][p].id) : p \in Parts(s)})
  BY <1>1 DEF Registered, TypeOK
<1>3. \A p \in Parts(Active) : tasks[Active][p].state = "done"
  BY DEF InState
<1>4. \A p \in Parts(Active) : BlocksOf(Active, p, tasks[Active][p].id) \subseteq files \union lost
  BY <1>1, <1>3 DEF LostInv
<1> QED BY <1>2, <1>4 DEF LostInv

\* Steps only remove a file that is lost.
LEMMA LostNext == IInv /\ LostInv /\ [Next]_vars => LostInv'
<1> SUFFICES ASSUME IInv, LostInv, [Next]_vars, outcome' = "running"
             PROVE  /\ \A s \in Stages : blocks'[s] \subseteq files' \union lost'
                    /\ \A s \in Stages : \A p \in Parts(s) :
                         /\ tasks'[s][p].blocks \subseteq files' \union lost'
                         /\ tasks'[s][p].state \in {"success", "done"} =>
                              BlocksOf(s, p, tasks'[s][p].id) \subseteq files' \union lost'
  BY DEF LostInv, Parts
<1>1. outcome = "running" /\ files \union lost \subseteq files' \union lost'
  BY OneWay
<1>2. ASSUME NEW s \in Stages
      PROVE  blocks'[s] \subseteq files' \union lost'
  <2>1. CASE UNCHANGED blocks
    BY <1>1, <2>1 DEF LostInv
  <2>2. CASE FinishStage
    <3>1. /\ stack # <<>> /\ InState(Active, {"done"}) /\ blocks' = Registered(Active)
      BY <2>2 DEF FinishStage, StageDone
    <3>2. Registered(Active)[s] \subseteq files \union lost
      BY <1>1, <3>1, LostRegistered DEF IInv
    <3> QED BY <1>1, <3>1, <3>2
  <2> QED BY <2>1, <2>2 DEF Next, Driver, StartStage, ProcessResult, NextBatch, RaiseTaskError,
                            ReturnDataset, RunTask, WorkerDies, LoseBlock, vars
<1>3. ASSUME NEW s \in Stages, NEW p \in Parts(s)
      PROVE  /\ tasks'[s][p].blocks \subseteq files' \union lost'
             /\ tasks'[s][p].state \in {"success", "done"} =>
                  BlocksOf(s, p, tasks'[s][p].id) \subseteq files' \union lost'
  <2>1. /\ tasks[s][p].blocks \subseteq files \union lost
        /\ tasks[s][p].state \in {"success", "done"} =>
             BlocksOf(s, p, tasks[s][p].id) \subseteq files \union lost
    BY <1>1 DEF LostInv
  <2>2. Moves(s, p)
    BY TaskMoves
  <2>3. Resolve(blocks', s, p) \subseteq files' \union lost'
    <3>1. \A leaf \in Reads[s] : leaf.from \in Stages
      BY PlanFacts DEF Leaf
    <3> QED BY <1>2, <3>1 DEF Resolve, BlocksFor
  <2>4. \/ tasks'[s][p].blocks = tasks[s][p].blocks
        \/ tasks'[s][p].blocks = Resolve(blocks', s, p)
    BY <2>2 DEF Moves
  <2>5. \/ tasks'[s][p].state \notin {"success", "done"}
        \/ BlocksOf(s, p, tasks'[s][p].id) \subseteq files'
        \/ tasks'[s][p].id = tasks[s][p].id /\ tasks[s][p].state \in {"success", "done"}
    BY <2>2 DEF Moves
  <2> QED BY <1>1, <2>1, <2>3, <2>4, <2>5
<1> QED BY <1>2, <1>3

\* Only a failed task misses a stage, and one of the blocks it holds of that
\* stage was lost.
MissingInv ==
  \A s \in Stages : \A p \in Parts(s) : \A m \in tasks[s][p].missing :
     /\ tasks[s][p].state \in {"failed", "recovering"}
     /\ \E b \in tasks[s][p].blocks : b \in lost /\ b.stage = m

\* Steps keep what is missed lost.
LEMMA MissingNext ==
  IInv /\ RunningInv /\ LostInv /\ MissingInv /\ [Next]_vars => MissingInv'
<1> SUFFICES ASSUME IInv, RunningInv, LostInv, MissingInv, [Next]_vars,
                    NEW s \in Stages, NEW p \in Parts(s), NEW m \in tasks'[s][p].missing
             PROVE  /\ tasks'[s][p].state \in {"failed", "recovering"}
                    /\ \E b \in tasks'[s][p].blocks : b \in lost' /\ b.stage = m
  BY DEF MissingInv, Parts
<1>1. Moves(s, p) /\ lost \subseteq lost'
  BY TaskMoves, OneWay
<1>2. m \in tasks[s][p].missing =>
        /\ tasks[s][p].state \in {"failed", "recovering"}
        /\ \E b \in tasks[s][p].blocks : b \in lost /\ b.stage = m
  BY DEF MissingInv
<1>3. stack # <<>> /\ m \in Unreadable(tasks[s][p]) =>
        \E b \in tasks[s][p].blocks : b \in lost /\ b.stage = m
  BY DEF Unreadable, LostInv, RunningInv
<1>4. CASE tasks'[s][p] = tasks[s][p]
  BY <1>1, <1>2, <1>4
<1>5. CASE /\ tasks'[s][p].blocks = tasks[s][p].blocks /\ tasks'[s][p].state = "failed"
           /\ stack # <<>> /\ \E n \in Unreadable(tasks[s][p]) : tasks'[s][p].missing = {n}
  BY <1>1, <1>3, <1>5
<1>6. CASE /\ tasks'[s][p].blocks = tasks[s][p].blocks
           /\ tasks[s][p].state = "failed" /\ tasks'[s][p].state = "recovering"
           /\ tasks'[s][p].missing = tasks[s][p].missing
  BY <1>1, <1>2, <1>6
<1> QED BY <1>1, <1>2, <1>4, <1>5, <1>6 DEF Moves

-----------------------------------------------------------------------------
(* Every recovery has a cause of its own.                                  *)

BroadcastRead(m) == \E s \in Stages : [from |-> m, broadcast |-> TRUE] \in Reads[s]

\* Block b of stage m is on its way out: it is registered only until the
\* recomputation of m returns, which does not write it, and held only by tasks
\* that wait for it to return.
Dropped(b, m) ==
  /\ b.stage = m
  /\ b \in blocks[m] => Recomputing(m)
  /\ Recomputing(m) => \A p \in Parts(m) : b.task # tasks[m][p].id
  /\ \A s \in Stages : \A p \in Parts(s) :
        b \in tasks[s][p].blocks => tasks[s][p].state = "recovering" /\ OpenFor(s, m)

\* Behind every recomputed stage is a lost block that nobody will miss again,
\* unless a broadcast leaf reads the stage.
CauseInv ==
  outcome = "running" =>
     \A m \in recomputed_stages : BroadcastRead(m) \/ \E b \in lost : Dropped(b, m)

\* What Dropped says of calls, in a step that keeps the calls.
LEMMA DroppedKept ==
  ASSUME NEW b, NEW m \in Stages, Dropped(b, m), UNCHANGED stack, UNCHANGED blocks,
         \A s \in Stages : \A p \in Parts(s) :
            /\ tasks'[s][p].id = tasks[s][p].id
            /\ \/ tasks'[s][p] = tasks[s][p]
               \/ tasks[s][p].state # "recovering" /\ tasks'[s][p].blocks = tasks[s][p].blocks
  PROVE  Dropped(b, m)'
<1>1. Recomputing(m)' = Recomputing(m) /\ \A s : OpenFor(s, m)' = OpenFor(s, m)
  BY DEF Recomputing, OpenFor
<1>2. Recomputing(m)' => \A p \in Parts(m) : b.task # tasks'[m][p].id
  BY <1>1 DEF Dropped
<1>3. ASSUME NEW s \in Stages, NEW p \in Parts(s), b \in tasks'[s][p].blocks
      PROVE  tasks'[s][p].state = "recovering" /\ OpenFor(s, m)'
  <2>1. tasks'[s][p] = tasks[s][p]
    BY <1>3 DEF Dropped
  <2> QED BY <1>1, <1>3, <2>1 DEF Dropped
<1> QED BY <1>1, <1>2, <1>3 DEF Dropped, Parts

\* A call that is open for another is below it in the stages.
LEMMA OpenBelow ==
  ASSUME TypeOK, StackInv, NEW m \in Stages
  PROVE  /\ Recomputing(m) => stack # <<>> /\ Active <= m
         /\ Recomputing(m) => Len(stack) > 1
         /\ \A s : OpenFor(s, m) => Recomputing(m)
<1>1. ASSUME Recomputing(m) PROVE stack # <<>> /\ Active <= m /\ Len(stack) > 1
  <2>1. PICK i \in DOMAIN stack : i > 1 /\ stack[i].stage = m
    BY <1>1 DEF Recomputing
  <2>2. stack # <<>> /\ DOMAIN stack = 1 .. Len(stack) /\ Len(stack) \in Nat
    BY <2>1 DEF TypeOK
  <2>3. Active = stack[Len(stack)].stage /\ Len(stack) \in DOMAIN stack /\ Active \in Stages
    BY <2>2, ActiveFrame DEF Active
  <2>4. i = Len(stack) \/ i < Len(stack)
    BY <2>2
  <2>5. m \in Nat /\ Active \in Nat
    BY <2>3, StagesAreNumbers
  <2>6. Active <= m
    BY <2>1, <2>3, <2>4, <2>5 DEF StackInv
  <2> QED BY <2>1, <2>2, <2>6
<1> QED BY <1>1 DEF OpenFor, Recomputing

\* Beginning a recovery: the block the task misses is the cause, since no other
\* task holds it.
LEMMA CauseRecovery ==
  ASSUME IInv, FreshInv, RunningInv, ReaderInv, MissingInv, CauseInv,
         NEW p, NEW m, BeganRecovery(p, m), NEW k \in recomputed_stages'
  PROVE  BroadcastRead(k) \/ \E b \in lost : Dropped(b, k)'
<1> DEFINE n == Len(stack)
<1>1. /\ TypeOK /\ StackInv /\ BelowInv /\ LogInv
      /\ \A s \in Stages : \A b \in blocks[s] : b.stage = s
  BY DEF IInv, RegInv
<1>2. PICK a \in Stages : a = Active
  BY <1>1, ActiveFrame DEF BeganRecovery
<1>3. /\ stack # <<>> /\ p \in Parts(a)
      /\ m \in Stages /\ m < a /\ m \in tasks[a][p].missing
      /\ tasks[a][p].state = "failed" /\ EnterStage(m, TRUE)
      /\ recomputed_stages' = recomputed_stages \union {m} /\ m \notin recomputed_stages
      /\ UNCHANGED <<blocks, lost, outcome>>
  BY <1>2 DEF BeganRecovery
<1>4. /\ n \in Nat \ {0} /\ n \in DOMAIN stack /\ a = stack[n].stage
      /\ DOMAIN stack = 1 .. n /\ DOMAIN stack' = 1 .. n + 1
      /\ \A i \in 1 .. n : stack'[i] = stack[i]
      /\ stack'[n + 1].stage = m
  <2>1. n \in Nat \ {0} /\ n \in DOMAIN stack /\ a = stack[n].stage
    BY <1>1, <1>2, <1>3, ActiveFrame DEF Active
  <2>2. /\ DOMAIN stack = 1 .. n /\ DOMAIN stack' = 1 .. n + 1
        /\ \A i \in 1 .. n : stack'[i] = stack[i]
        /\ stack'[n + 1] = [stage |-> m, recomputed |-> TRUE]
    BY <1>1, <1>3, PushedFrames
  <2> QED BY <2>1, <2>2
<1> HIDE DEF n
<1>5. \A i : i \in 1 .. n + 1 <=> i \in 1 .. n \/ i = n + 1
  BY <1>4
<1>6. \A s, j : OpenFor(s, j) => OpenFor(s, j)'
  <2> SUFFICES ASSUME NEW s, NEW j, OpenFor(s, j) PROVE OpenFor(s, j)'
    OBVIOUS
  <2>1. PICK i \in DOMAIN stack : i > 1 /\ stack[i].stage = j /\ stack[i - 1].stage = s
    BY DEF OpenFor
  <2>2. i \in 1 .. n /\ i - 1 \in 1 .. n /\ i \in DOMAIN stack'
    BY <1>4, <2>1
  <2> QED BY <1>4, <2>1, <2>2 DEF OpenFor
<1>7. OpenFor(a, m)'
  <2>1. n + 1 \in DOMAIN stack' /\ n + 1 > 1 /\ (n + 1) - 1 = n /\ n \in 1 .. n
    BY <1>4
  <2>2. stack'[(n + 1) - 1].stage = a
    BY <1>4, <2>1
  <2> QED BY <1>4, <2>1, <2>2 DEF OpenFor
<1>8. \A j : Recomputing(j)' <=> Recomputing(j) \/ j = m
  <2>1. \A j : Recomputing(j) <=> \E i \in 1 .. n : i > 1 /\ stack[i].stage = j
    BY <1>4 DEF Recomputing
  <2>2. \A j : Recomputing(j)' <=> \E i \in 1 .. n + 1 : i > 1 /\ stack'[i].stage = j
    BY <1>4 DEF Recomputing
  <2>3. n + 1 > 1
    BY <1>4
  <2> QED BY <1>4, <1>5, <2>1, <2>2, <2>3
<1>9. next_task \in Nat /\ outcome = "running" /\ m \in Nat /\ a \in Nat
  BY <1>1, <1>3, StagesAreNumbers DEF RunningInv, TypeOK
<1>10. \A q \in Parts(m) : /\ tasks'[m][q].id = next_task + q
                           /\ tasks'[m][q].blocks = Resolve(blocks, m, q)
                           /\ q \in Nat
  <2>1. \A q \in Parts(m) : tasks'[m][q] = FreshTasks(m)[q]
    BY <1>3 DEF BeganRecovery
  <2>2. \A q \in Parts(m) : /\ FreshTasks(m)[q].id = next_task + q
                            /\ FreshTasks(m)[q].blocks = Resolve(blocks, m, q)
    BY DEF FreshTasks
  <2> QED BY <1>3, <2>1, <2>2, PartsFinite
<1>11. ASSUME NEW q \in Parts(m), NEW b \in Resolve(blocks, m, q)
       PROVE  b.stage \in Stages /\ b.stage < m /\ b \in blocks[b.stage]
  BY <1>1, <1>3, ResolvedBlocks
<1>12. ASSUME NEW s \in Stages, NEW q \in Parts(s), s # m
       PROVE  /\ tasks'[s][q].id = tasks[s][q].id
              /\ tasks'[s][q].blocks = tasks[s][q].blocks
              /\ \/ tasks'[s][q] = tasks[s][q]
                 \/ /\ s = a /\ q = p /\ tasks[s][q].state = "failed"
                    /\ tasks'[s][q].state = "recovering"
              /\ s = a /\ q = p => tasks'[s][q].state = "recovering"
  <2>1. tasks'[s][q] = IF s = a /\ q = p THEN [tasks[s][q] EXCEPT !.state = "recovering"]
                       ELSE tasks[s][q]
    BY <1>2, <1>12 DEF BeganRecovery
  <2>2. tasks[s][q] \in Task
    BY <1>1 DEF TypeOK
  <2> QED BY <1>3, <2>1, <2>2 DEF Task
<1>13. CASE k = m
  <2> SUFFICES ASSUME ~ BroadcastRead(m) PROVE \E b \in lost : Dropped(b, m)'
    BY <1>13
  <2>1. PICK b \in tasks[a][p].blocks : b \in lost /\ b.stage = m
    BY <1>3 DEF MissingInv
  <2>2. PICK mine \in Reads[a] : b.stage = mine.from /\ b.target = TargetOf(mine, p)
    BY <1>3, <2>1 DEF ReaderInv
  <2>3. ASSUME NEW s \in Stages, NEW leaf \in Reads[s], leaf.from = m
        PROVE  s = a /\ leaf = mine
    BY <2>1, <2>2, <2>3, PlanFacts
  <2>4. ~ mine.broadcast
    <3>1. mine \in Leaf
      BY PlanFacts
    <3>2. mine.broadcast => mine = [from |-> m, broadcast |-> TRUE]
      BY <2>1, <2>2, <3>1 DEF Leaf
    <3> QED BY <3>2 DEF BroadcastRead
  <2>5. b.target = p
    BY <2>2, <2>4 DEF TargetOf
  <2>6. b.task \in Nat /\ b.task < next_task
    BY <1>1, <1>3, <2>1 DEF FreshInv, TypeOK, Task, Block
  <2>7. \A q \in Parts(m) : b.task # tasks'[m][q].id
    BY <1>9, <1>10, <2>6
  <2>8. ASSUME NEW s \in Stages, NEW q \in Parts(s), b \in tasks'[s][q].blocks
        PROVE  tasks'[s][q].state = "recovering" /\ OpenFor(s, m)'
    <3>1. s # m
      BY <1>9, <1>10, <1>11, <2>1, <2>8
    <3>2. b \in tasks[s][q].blocks
      BY <1>12, <2>8, <3>1
    <3>3. PICK leaf \in Reads[s] : b.stage = leaf.from /\ b.target = TargetOf(leaf, q)
      BY <3>2 DEF ReaderInv
    <3>4. s = a /\ leaf = mine
      BY <2>1, <2>3, <3>3
    <3>5. q = p
      BY <2>4, <2>5, <3>3, <3>4 DEF TargetOf
    <3> QED BY <1>7, <1>12, <3>1, <3>4, <3>5
  <2>9. Dropped(b, m)'
    BY <1>8, <2>1, <2>7, <2>8 DEF Dropped, Parts
  <2> QED BY <2>1, <2>9
<1>14. CASE k # m
  <2>1. k \in recomputed_stages /\ k \in Stages
    BY <1>1, <1>3, <1>14 DEF TypeOK
  <2> SUFFICES ASSUME ~ BroadcastRead(k) PROVE \E b \in lost : Dropped(b, k)'
    OBVIOUS
  <2>2. PICK b \in lost : Dropped(b, k)
    BY <1>9, <2>1 DEF CauseInv
  <2>3. Recomputing(k)' <=> Recomputing(k)
    BY <1>8, <1>14
  <2>4. \A q \in Parts(k) : tasks'[k][q].id = tasks[k][q].id
    BY <1>12, <1>14, <2>1
  <2>5. ASSUME NEW s \in Stages, NEW q \in Parts(s), b \in tasks'[s][q].blocks
        PROVE  tasks'[s][q].state = "recovering" /\ OpenFor(s, k)'
    <3>1. CASE s = m
      <4>1. b \in blocks[k] /\ k < m
        BY <1>10, <1>11, <2>2, <2>5, <3>1 DEF Dropped
      <4>2. Active <= k
        BY <1>1, <2>1, <2>2, <4>1, OpenBelow DEF Dropped
      <4>3. k \in Nat
        BY <1>1, <2>1, StagesAreNumbers
      <4> QED BY <1>2, <1>3, <1>9, <4>1, <4>2, <4>3
    <3>2. CASE s # m
      <4>1. b \in tasks[s][q].blocks
        BY <1>12, <2>5, <3>2
      <4>2. tasks[s][q].state = "recovering" /\ OpenFor(s, k)
        BY <2>2, <4>1 DEF Dropped
      <4> QED BY <1>6, <1>12, <3>2, <4>2
    <3> QED BY <3>1, <3>2
  <2>6. Dropped(b, k)'
    BY <1>3, <2>2, <2>3, <2>4, <2>5 DEF Dropped, Parts
  <2> QED BY <2>6
<1> QED BY <1>13, <1>14

\* Returning from a recomputation: its own cause is gone for good, since what it
\* wrote and what its caller's tasks are given is fresh.
LEMMA CauseReturned ==
  ASSUME IInv, CauseInv, outcome = "running", FinishStage, NEW caller, Returned(caller),
         NEW k \in recomputed_stages
  PROVE  BroadcastRead(k) \/ \E b \in lost : Dropped(b, k)'
<1> SUFFICES ASSUME ~ BroadcastRead(k) PROVE \E b \in lost : Dropped(b, k)'
  OBVIOUS
<1> DEFINE n == Len(stack)
<1>1. /\ TypeOK /\ StackInv /\ LogInv
      /\ k \in Stages
  BY DEF IInv, TypeOK
<1>2. PICK a \in Stages : a = Active
  BY <1>1, ActiveFrame DEF FinishStage
<1>3. /\ stack # <<>> /\ stack' = Front(stack) /\ n > 1 /\ caller = stack[n - 1].stage
      /\ caller \in Stages /\ blocks' = Registered(a)
  BY <1>2 DEF FinishStage, Returned
<1>4. n \in Nat \ {0} /\ n \in DOMAIN stack /\ a = stack[n].stage /\ DOMAIN stack = 1 .. n
  BY <1>1, <1>2, <1>3, ActiveFrame DEF Active, TypeOK
<1>5. DOMAIN stack' = 1 .. n - 1 /\ \A i \in 1 .. n - 1 : stack'[i] = stack[i]
  <2>1. /\ Front(stack) \in Seq(Frame) /\ Len(Front(stack)) = n - 1
        /\ \A i \in DOMAIN Front(stack) : Front(stack)[i] = stack[i]
    BY <1>1, <1>3, PoppedFrames
  <2> QED BY <1>3, <2>1
<1> HIDE DEF n
<1>6. n - 1 \in DOMAIN stack /\ n - 1 < n
  BY <1>3, <1>4
<1>7. a < caller /\ caller <= ResultStage /\ a \in Nat /\ caller \in Nat
  <2>1. a < caller
    BY <1>1, <1>3, <1>4, <1>6 DEF StackInv
  <2>2. a \in Nat /\ caller \in Nat /\ caller <= ResultStage
    BY <1>2, <1>3, PlanFacts DEF Stages, ResultStage
  <2> QED BY <2>1, <2>2
<1>8. \A i \in 1 .. n - 1 : i \in DOMAIN stack /\ i < n
  BY <1>4
<1>9. \A s : OpenFor(s, k)' <=> k # a /\ OpenFor(s, k)
  <2>1. \A i \in 1 .. n - 1 : stack[i].stage # a
    BY <1>1, <1>4, <1>7, <1>8, StagesAreNumbers DEF StackInv
  <2>2. \A i : i \in 1 .. n <=> i \in 1 .. n - 1 \/ i = n
    BY <1>4
  <2>3. \A i \in 1 .. n - 1 : i > 1 => i - 1 \in 1 .. n - 1
    BY <1>4
  <2>4. ASSUME NEW s
        PROVE  /\ OpenFor(s, k) <=> \E i \in 1 .. n : i > 1 /\ stack[i].stage = k /\ stack[i - 1].stage = s
               /\ OpenFor(s, k)' <=> \E i \in 1 .. n - 1 : i > 1 /\ stack[i].stage = k /\ stack[i - 1].stage = s
    BY <1>4, <1>5, <2>3 DEF OpenFor
  <2> QED BY <1>4, <2>1, <2>2, <2>4
<1>10. Recomputing(k)' <=> k # a /\ Recomputing(k)
  <2>1. Recomputing(k) <=> \E s : OpenFor(s, k)
    BY DEF Recomputing, OpenFor
  <2>2. Recomputing(k)' <=> \E s : OpenFor(s, k)'
    BY DEF Recomputing, OpenFor
  <2> QED BY <1>9, <2>1, <2>2
<1>11. PICK b \in lost : Dropped(b, k)
  BY DEF CauseInv
<1>12. ASSUME NEW s \in Stages, NEW q \in Parts(s)
       PROVE  /\ tasks'[s][q].id = tasks[s][q].id
              /\ \/ tasks'[s][q] = tasks[s][q] /\ ~ (s = caller /\ tasks[s][q].state = "recovering")
                 \/ s = caller /\ tasks'[s][q].blocks = Resolve(blocks', s, q)
  <2>1. tasks[s][q] \in Task
    BY <1>1 DEF TypeOK
  <2> DEFINE held == Resolve(Registered(Active), caller, q)
  <2>2. tasks'[s][q] = IF s = caller /\ tasks[s][q].state = "recovering"
                         THEN [tasks[s][q] EXCEPT !.state = "again", !.missing = {}, !.blocks = held]
                         ELSE tasks[s][q]
    BY DEF Returned, Resumed
  <2>3. held = Resolve(blocks', caller, q)
    BY <1>2, <1>3
  <2> HIDE DEF held
  <2> QED BY <2>1, <2>2, <2>3 DEF Task
<1>13. \A s \in Stages : s # a => blocks'[s] = blocks[s]
  BY <1>1, <1>2, <1>3 DEF Registered, TypeOK
<1>14. \A s \in Stages : \A c \in blocks'[s] : c.stage = s
  BY InvNext DEF IInv, RegInv, Next, Driver
<1>15. b.stage = k
  BY <1>11 DEF Dropped
\* Nothing that stays registered, or is given out, is the lost block.
<1>16. b \in blocks'[k] => k # a /\ Recomputing(k)
  <2>1. CASE k # a
    BY <1>1, <1>11, <1>13, <2>1 DEF Dropped
  <2>2. CASE k = a
    <3>1. blocks'[a] = UNION {BlocksOf(a, p, tasks[a][p].id) : p \in Parts(a)}
      BY <1>1, <1>2, <1>3, <1>7 DEF Registered, IsShuffleWrite, TypeOK
    <3>2. Recomputing(a)
      BY <1>3, <1>4 DEF Recomputing
    <3>3. \A p \in Parts(a) : b.task # tasks[a][p].id
      BY <1>11, <2>2, <3>2 DEF Dropped
    <3>4. b \notin blocks'[a]
      BY <3>1, <3>3 DEF BlocksOf
    <3> QED BY <2>2, <3>4
  <2> QED BY <2>1, <2>2
<1>17. ASSUME NEW q, b \in Resolve(blocks', caller, q)
       PROVE  FALSE
  <2>1. k < caller /\ b \in blocks'[k]
    BY <1>3, <1>14, <1>15, <1>17, ResolvedBlocks
  <2>2. k # a /\ Recomputing(k)
    BY <1>16, <2>1
  <2>3. PICK i \in 1 .. n - 1 : stack[i].stage = k
    BY <1>5, <1>10, <2>2 DEF Recomputing
  <2>4. i = n - 1 \/ i < n - 1
    BY <1>4, <2>3
  <2>5. k \in Nat
    BY <1>1, StagesAreNumbers
  <2> QED BY <1>1, <1>3, <1>6, <1>7, <1>8, <2>1, <2>3, <2>4, <2>5 DEF StackInv
<1>18. ASSUME NEW s \in Stages, NEW q \in Parts(s), b \in tasks'[s][q].blocks
       PROVE  tasks'[s][q].state = "recovering" /\ OpenFor(s, k)'
  <2>1. tasks'[s][q] = tasks[s][q] /\ ~ (s = caller /\ tasks[s][q].state = "recovering")
    BY <1>12, <1>17, <1>18
  <2>2. tasks[s][q].state = "recovering" /\ OpenFor(s, k)
    BY <1>11, <1>18, <2>1 DEF Dropped
  <2>3. k # a
    <3> SUFFICES ASSUME k = a PROVE FALSE
      OBVIOUS
    <3>1. PICK i \in 1 .. n : i > 1 /\ stack[i].stage = a /\ stack[i - 1].stage = s
      BY <1>4, <2>2 DEF OpenFor
    <3>2. i = n \/ i < n
      BY <1>4
    <3>3. i = n
      BY <1>1, <1>4, <1>7, <3>1, <3>2 DEF StackInv
    <3> QED BY <1>3, <2>1, <2>2, <3>1, <3>3
  <2> QED BY <1>9, <2>1, <2>2, <2>3
<1>19. Recomputing(k)' => \A p \in Parts(k) : b.task # tasks'[k][p].id
  BY <1>1, <1>10, <1>11, <1>12 DEF Dropped
<1>20. Dropped(b, k)'
  BY <1>10, <1>15, <1>16, <1>18, <1>19 DEF Dropped, Parts
<1> QED BY <1>20

\* Every step keeps a cause behind each recovery.
LEMMA CauseNext ==
  IInv /\ FreshInv /\ RunningInv /\ ReaderInv /\ MissingInv /\ CauseInv /\ [Next]_vars
    => CauseInv'
<1> SUFFICES ASSUME IInv, FreshInv, RunningInv, ReaderInv, MissingInv, CauseInv, [Next]_vars,
                    outcome' = "running", NEW k \in recomputed_stages'
             PROVE  BroadcastRead(k) \/ \E b \in lost' : Dropped(b, k)'
  BY DEF CauseInv, BroadcastRead
<1>1. outcome = "running" /\ lost \subseteq lost'
  BY OneWay
<1>2. TypeOK /\ StackInv /\ LogInv
  BY DEF IInv
<1>3. CASE \E p, m : BeganRecovery(p, m)
  BY <1>1, <1>3, CauseRecovery
<1>4. CASE FinishStage /\ \E caller : Returned(caller)
  <2>1. PICK caller : Returned(caller)
    BY <1>4
  <2>2. k \in recomputed_stages
    BY <2>1 DEF Returned
  <2> QED BY <1>1, <1>4, <2>1, <2>2, CauseReturned
<1>5. CASE k \in recomputed_stages
  <2> SUFFICES ASSUME ~ BroadcastRead(k), ~ (\E p, m : BeganRecovery(p, m)),
                      ~ (FinishStage /\ \E caller : Returned(caller))
               PROVE  \E b \in lost' : Dropped(b, k)'
    BY <1>3, <1>4
  <2>1. k \in Stages /\ k < cursor
    BY <1>2, <1>5 DEF TypeOK, LogInv
  <2>2. PICK b \in lost : Dropped(b, k)
    BY <1>1, <1>5 DEF CauseInv
  <2>3. CASE /\ UNCHANGED stack /\ UNCHANGED blocks
             /\ \A s \in Stages : \A p \in Parts(s) :
                  /\ tasks'[s][p].id = tasks[s][p].id
                  /\ \/ tasks'[s][p] = tasks[s][p]
                     \/ tasks[s][p].state # "recovering" /\ tasks'[s][p].blocks = tasks[s][p].blocks
    <3>1. Dropped(b, k)'
      BY <2>1, <2>2, <2>3, DroppedKept
    <3> QED BY <1>1, <3>1
  <2>4. CASE \E p, new : RanTask(p, new)
    <3>1. PICK p, new : RanTask(p, new)
      BY <2>4
    <3>2. UNCHANGED stack /\ UNCHANGED blocks
      BY <3>1 DEF RanTask
    <3>3. \A s \in Stages : \A q \in Parts(s) :
             /\ tasks'[s][q].id = tasks[s][q].id
             /\ \/ tasks'[s][q] = tasks[s][q]
                \/ tasks[s][q].state # "recovering" /\ tasks'[s][q].blocks = tasks[s][q].blocks
      BY <3>1 DEF RanTask
    <3> QED BY <2>3, <3>2, <3>3
  <2>5. CASE \E p, new : JudgedTask(p, new)
    <3>1. PICK p, new : JudgedTask(p, new)
      BY <2>5
    <3>2. UNCHANGED stack /\ UNCHANGED blocks
      BY <3>1 DEF JudgedTask
    <3>3. \A s \in Stages : \A q \in Parts(s) :
             /\ tasks'[s][q].id = tasks[s][q].id
             /\ \/ tasks'[s][q] = tasks[s][q]
                \/ tasks[s][q].state # "recovering" /\ tasks'[s][q].blocks = tasks[s][q].blocks
      BY <3>1 DEF JudgedTask
    <3> QED BY <2>3, <3>2, <3>3
  <2>6. CASE MadeBatch
    <3>1. \A s \in Stages : \A q \in Parts(s) :
             /\ tasks'[s][q].id = tasks[s][q].id
             /\ \/ tasks'[s][q] = tasks[s][q]
                \/ tasks[s][q].state # "recovering" /\ tasks'[s][q].blocks = tasks[s][q].blocks
      <4> SUFFICES ASSUME NEW s \in Stages, NEW q \in Parts(s)
                   PROVE  /\ tasks'[s][q].id = tasks[s][q].id
                          /\ \/ tasks'[s][q] = tasks[s][q]
                             \/ /\ tasks[s][q].state # "recovering"
                                /\ tasks'[s][q].blocks = tasks[s][q].blocks
        OBVIOUS
      <4>1. \/ tasks'[s][q] = tasks[s][q]
            \/ /\ tasks[s][q].state = "again"
               /\ tasks'[s][q] = [tasks[s][q] EXCEPT !.state = "pending"]
        BY <2>6 DEF MadeBatch
      <4>2. tasks[s][q] \in Task
        BY <1>2 DEF TypeOK
      <4> QED BY <4>1, <4>2 DEF Task
    <3> QED BY <2>3, <2>6, <3>1 DEF MadeBatch
  <2>7. CASE Lost \/ UNCHANGED vars
    BY <2>3, <2>7 DEF Lost, vars
  <2>8. ASSUME ~ Recomputing(k), ~ Recomputing(k)', b \notin blocks'[k],
               \A s \in Stages : \A q \in Parts(s) : b \notin tasks'[s][q].blocks
        PROVE  Dropped(b, k)'
    BY <2>2, <2>8 DEF Dropped, Parts
  <2>9. ~ Recomputing(k) => /\ b \notin blocks[k]
                            /\ \A s \in Stages : \A q \in Parts(s) : b \notin tasks[s][q].blocks
    BY <1>2, <2>1, <2>2, OpenBelow DEF Dropped
  <2>10. CASE Started
    <3>1. ~ Recomputing(k)
      BY <2>10 DEF Started, Recomputing
    <3>2. \A i \in DOMAIN stack' : i = 1
      <4>1. cursor \in Stages /\ EnterStage(cursor, FALSE) /\ Len(stack) = 0
        BY <2>10 DEF Started
      <4>2. DOMAIN stack' = 1 .. 0 + 1
        BY <1>2, <4>1, PushedFrames
      <4> QED BY <4>2
    <3>3. ~ Recomputing(k)'
      BY <3>2 DEF Recomputing
    <3>4. UNCHANGED blocks /\ \A s \in Stages : \A c \in blocks[s] : c.stage = s
      BY <2>10 DEF Started, IInv, RegInv
    <3>5. ASSUME NEW s \in Stages, NEW q \in Parts(s), b \in tasks'[s][q].blocks
          PROVE  FALSE
      <4>1. tasks'[s][q] = tasks[s][q] \/ tasks'[s][q].blocks = Resolve(blocks, s, q)
        <5>1. \/ tasks'[s][q] = tasks[s][q]
              \/ s = cursor /\ tasks'[s][q] = FreshTasks(cursor)[q]
          BY <2>10 DEF Started
        <5>2. FreshTasks(s)[q].blocks = Resolve(blocks, s, q)
          BY DEF FreshTasks
        <5> QED BY <5>1, <5>2
      <4>2. b \notin Resolve(blocks, s, q)
        <5> SUFFICES ASSUME b \in Resolve(blocks, s, q) PROVE FALSE
          OBVIOUS
        <5>1. b \in blocks[b.stage]
          BY <3>4, ResolvedBlocks
        <5> QED BY <2>2, <2>9, <3>1, <5>1 DEF Dropped
      <4> QED BY <2>9, <3>1, <3>5, <4>1, <4>2
    <3>6. Dropped(b, k)'
      BY <2>8, <2>9, <3>1, <3>3, <3>4, <3>5
    <3> QED BY <1>1, <3>6
  <2>11. CASE FinishStage /\ LeftStage
    <3>1. ~ Recomputing(k)
      <4>1. Recomputing(k) => Len(stack) > 1
        BY <1>2, <2>1, OpenBelow
      <4> QED BY <2>11, <4>1 DEF LeftStage
    <3>2. DOMAIN stack' = {}
      <4>1. Front(stack) \in Seq(Frame) /\ Len(Front(stack)) = 1 - 1
        BY <1>2, <2>11, PoppedFrames DEF FinishStage, LeftStage
      <4>2. DOMAIN Front(stack) = 1 .. 0
        BY <4>1
      <4> QED BY <2>11, <4>2 DEF FinishStage
    <3>3. ~ Recomputing(k)'
      BY <3>2 DEF Recomputing
    <3>4. blocks'[k] = blocks[k]
      <4>1. blocks' = Registered(cursor) /\ k # cursor
        BY <1>2, <2>1, <2>11, StagesAreNumbers DEF LeftStage, TypeOK
      <4> QED BY <1>2, <2>1, <4>1 DEF Registered, TypeOK
    <3>5. UNCHANGED tasks
      BY <2>11 DEF LeftStage
    <3>6. Dropped(b, k)'
      BY <2>8, <2>9, <3>1, <3>3, <3>4, <3>5
    <3> QED BY <1>1, <3>6
  <2>12. ~ Ended
    BY DEF Ended
  <2> QED BY <2>4, <2>5, <2>6, <2>7, <2>10, <2>11, <2>12, Effects
<1>6. k \in recomputed_stages \/ \E p, m : BeganRecovery(p, m)
  BY Effects DEF RanTask, JudgedTask, MadeBatch, FinishStage, Started, Ended, Lost, vars
<1> QED BY <1>3, <1>5, <1>6

-----------------------------------------------------------------------------
(* Retries pay for failures.                                               *)

\* The failures a task has to answer for: its retries, and the one it has just
\* been charged with or is about to be.
Charge(task) ==
  task.attempt + (IF task.state \in {"failed", "exhausted"} /\ task.missing = {} THEN 1 ELSE 0)

\* No task is charged more than the failures there were.
ChargeInv ==
  \A s \in Stages : \A p \in Parts(s) :
    /\ Charge(tasks[s][p]) <= faults \/ LossHasTwoReaders
    /\ tasks[s][p].state = "exhausted" => tasks[s][p].attempt >= MaxRetries

\* A task charged for a block that is gone although its stage was recomputed
\* tells of a second loss, or of a second reader.
LEMMA SecondLoss ==
  ASSUME IInv, RunningInv, MissingInv, CauseInv, stack # <<>>,
         NEW s \in Stages, NEW p \in Parts(s), tasks[s][p].state = "failed",
         tasks[s][p].missing # {}, tasks[s][p].missing \subseteq recomputed_stages
  PROVE  LossHasTwoReaders
<1>1. PICK m \in tasks[s][p].missing : m \in recomputed_stages
  OBVIOUS
<1>2. PICK c \in tasks[s][p].blocks : c \in lost /\ c.stage = m
  BY <1>1 DEF MissingInv
<1>3. CASE BroadcastRead(m)
  BY <1>2, <1>3 DEF BroadcastRead, LossHasTwoReaders
<1>4. CASE \E b \in lost : Dropped(b, m)
  <2>1. PICK b \in lost : Dropped(b, m)
    BY <1>4
  <2>2. b.stage = m /\ b \notin tasks[s][p].blocks
    BY <2>1 DEF Dropped
  <2> QED BY <1>2, <2>2 DEF LossHasTwoReaders
<1> QED BY <1>1, <1>3, <1>4 DEF CauseInv, RunningInv

\* Steps charge no task for more than happened.
LEMMA ChargeNext ==
  IInv /\ RunningInv /\ MissingInv /\ CauseInv /\ ChargeInv /\ [Next]_vars => ChargeInv'
<1> SUFFICES ASSUME IInv, RunningInv, MissingInv, CauseInv, ChargeInv, [Next]_vars,
                    NEW s \in Stages, NEW p \in Parts(s)
             PROVE  /\ Charge(tasks'[s][p]) <= faults' \/ LossHasTwoReaders'
                    /\ tasks'[s][p].state = "exhausted" => tasks'[s][p].attempt >= MaxRetries
  BY DEF ChargeInv, Charge, Parts
<1> DEFINE old == tasks[s][p]
           new == tasks'[s][p]
<1>1. Moves(s, p)
  BY TaskMoves
<1>2. /\ old.attempt \in Nat /\ new.attempt \in Nat /\ faults \in Nat /\ faults' \in Nat
      /\ MaxRetries \in Nat
  <2>1. TypeOK /\ TypeOK'
    BY InvNext DEF IInv
  <2>2. old \in Task /\ faults \in Nat
    BY <2>1, BoundAssumption DEF TypeOK
  <2>3. tasks'[s] \in [Parts(s) -> Task] /\ faults' \in 0 .. MaxFaults
    BY <2>1 DEF TypeOK, Parts
  <2>4. new \in Task /\ faults' \in Nat
    BY <2>3, BoundAssumption
  <2> QED BY <2>2, <2>4, BoundAssumption DEF Task
<1>3. /\ Charge(old) <= faults \/ LossHasTwoReaders
      /\ old.state = "exhausted" => old.attempt >= MaxRetries
  BY DEF ChargeInv
<1>4. LossHasTwoReaders => LossHasTwoReaders'
  BY OneWay DEF LossHasTwoReaders
<1>5. faults' = faults \/ faults' = faults + 1
  BY OneWay
<1>6. old.state \in {"again", "pending"} => old.missing = {}
  BY DEF MissingInv
<1>7. /\ stack # <<>> /\ old.state = "failed" /\ old.missing \subseteq recomputed_stages
      => old.missing = {} \/ LossHasTwoReaders
  BY SecondLoss
<1>8. CASE new = old
  BY <1>2, <1>3, <1>4, <1>5, <1>8 DEF Charge
<1>9. CASE new.attempt = 0 /\ new.state = "pending" /\ new.missing = {}
  BY <1>2, <1>9 DEF Charge
<1>10. CASE new.attempt = old.attempt /\ new.state \in {"success", "done", "recovering", "pending", "again"}
  <2>1. Charge(new) = old.attempt /\ old.attempt <= Charge(old)
    BY <1>2, <1>10 DEF Charge
  <2>2. Charge(old) \in Nat
    BY <1>2 DEF Charge
  <2> QED BY <1>2, <1>3, <1>4, <1>5, <1>10, <2>1, <2>2
<1>11. CASE /\ new.attempt = old.attempt /\ new.state = "failed" /\ old.state = "pending"
            /\ \/ \E m : new.missing = {m}
               \/ new.missing = {} /\ faults' = faults + 1
  <2>1. Charge(old) = old.attempt
    BY <1>2, <1>11 DEF Charge
  <2>2. Charge(new) = old.attempt \/ (Charge(new) = old.attempt + 1 /\ faults' = faults + 1)
    BY <1>2, <1>11 DEF Charge
  <2> QED BY <1>2, <1>3, <1>4, <1>5, <1>11, <2>1, <2>2
<1>12. CASE /\ old.state = "failed" /\ new.missing = {}
            /\ \/ new.state = "again" /\ new.attempt = old.attempt + 1
               \/ new.state = "exhausted" /\ new.attempt = old.attempt /\ old.attempt >= MaxRetries
            /\ stack # <<>> /\ old.missing \subseteq recomputed_stages
  <2>1. Charge(new) = old.attempt + 1
    BY <1>2, <1>12 DEF Charge
  <2>2. old.missing = {} => Charge(old) = old.attempt + 1
    BY <1>2, <1>12 DEF Charge
  <2> QED BY <1>2, <1>3, <1>4, <1>5, <1>7, <1>12, <2>1, <2>2
<1> QED BY <1>1, <1>8, <1>9, <1>10, <1>11, <1>12 DEF Moves

\* What is known of recoveries, together.
RecoveryInv ==
  FreshInv /\ RunningInv /\ ReaderInv /\ LostInv /\ MissingInv /\ CauseInv /\ ChargeInv

\* It holds at first,
LEMMA RecoveryInit == Init => RecoveryInv
<1> SUFFICES ASSUME Init PROVE RecoveryInv
  OBVIOUS
<1>1. /\ stack = <<>> /\ DOMAIN stack = {} /\ next_task = 0 /\ recomputed_stages = {}
      /\ \A s \in Stages : blocks[s] = {}
      /\ \A s \in Stages : \A p \in Parts(s) :
            tasks[s][p] = [id |-> 0, blocks |-> {}, attempt |-> 0, state |-> "none", missing |-> {}]
  BY DEF Init
<1>2. Open = {}
  BY <1>1 DEF Open
<1>3. FreshInv /\ RunningInv /\ ReaderInv /\ LostInv /\ MissingInv /\ CauseInv
  BY <1>1, <1>2 DEF FreshInv, RunningInv, ReaderInv, LostInv, MissingInv, CauseInv
<1>4. faults = 0
  BY DEF Init
<1>5. ASSUME NEW s \in Stages, NEW p \in Parts(s)
      PROVE  Charge(tasks[s][p]) = 0 /\ tasks[s][p].state # "exhausted"
  BY <1>1 DEF Charge
<1>6. ChargeInv
  BY <1>4, <1>5 DEF ChargeInv
<1> QED BY <1>3, <1>6 DEF RecoveryInv

\* and every step preserves it.
LEMMA RecoveryNext == IInv /\ RecoveryInv /\ [Next]_vars => RecoveryInv'
<1> SUFFICES ASSUME IInv, RecoveryInv, [Next]_vars PROVE RecoveryInv'
  OBVIOUS
<1> USE DEF RecoveryInv
<1>1. FreshInv' /\ RunningInv' /\ ReaderInv' /\ LostInv'
  BY FreshNext, RunningNext, ReaderNext, LostNext
<1>2. MissingInv' /\ CauseInv' /\ ChargeInv'
  BY MissingNext, CauseNext, ChargeNext
<1> QED BY <1>1, <1>2

\* RecoveryInv is an invariant of the scheduler.
THEOREM RecoveryInductive == Spec => []RecoveryInv
<1>1. Init => RecoveryInv
  BY RecoveryInit
<1>2. IInv /\ RecoveryInv /\ [Next]_vars => RecoveryInv'
  BY RecoveryNext
<1> QED BY <1>1, <1>2, Inductive, PTL DEF Spec

\* A recovery costs no task a retry: unless a stage lost two blocks, or one that
\* every task of its reader was given, only failures on their own merits,
\* more of them than a task has retries, make _run_stage give up on one.
THEOREM RecoveriesAreFree == Spec => []RetriesPayForFaults
<1>1. IInv /\ RecoveryInv => RetriesPayForFaults
  <2> SUFFICES ASSUME IInv, RecoveryInv, NEW s \in Stages, NEW p \in Parts(s),
                      tasks[s][p].state = "exhausted", ~ LossHasTwoReaders
               PROVE  faults > MaxRetries
    BY DEF RetriesPayForFaults
  <2>1. tasks[s][p].missing = {}
    BY DEF RecoveryInv, MissingInv
  <2>2. tasks[s][p].attempt + 1 <= faults /\ tasks[s][p].attempt >= MaxRetries
    BY <2>1 DEF RecoveryInv, ChargeInv, Charge
  <2>3. tasks[s][p].attempt \in Nat /\ faults \in Nat /\ MaxRetries \in Nat
    BY BoundAssumption DEF IInv, TypeOK, Task
  <2> QED BY <2>2, <2>3
<1> QED BY <1>1, Inductive, RecoveryInductive, PTL

-----------------------------------------------------------------------------
(* Stages the loop has left are done, or are run again.                    *)

\* No task of a stage the loop has left is unbuilt, and they are all done
\* unless a run of the stage is open or was cut off by an exception.
DoneInv ==
  \A s \in Stages : s < cursor =>
     /\ \A p \in Parts(s) : tasks[s][p].state # "none"
     /\ InState(s, {"done"}) \/ s \in Open \/ outcome = "raised"

\* Nothing happens after the query has ended.
LEMMA EndedForGood ==
  ASSUME IInv, RunningInv, [Next]_vars, outcome # "running"
  PROVE  UNCHANGED vars
<1>1. stack = <<>>
  BY DEF RunningInv
<1> QED BY <1>1, Effects DEF RanTask, JudgedTask, BeganRecovery, MadeBatch, FinishStage,
                              Started, Ended, Lost

\* The active stage is open.
LEMMA ActiveOpen ==
  ASSUME TypeOK, stack # <<>>
  PROVE  Active \in Open
BY ActiveFrame DEF Active, Open

\* The stages that are open after a step.
LEMMA OpenMoves ==
  ASSUME IInv, [Next]_vars
  PROVE  \/ Open \subseteq Open'
         \/ FinishStage /\ Open' = Open \ {Active}
         \/ Ended
<1>1. TypeOK /\ StackInv
  BY DEF IInv
<1>2. UNCHANGED stack => Open' = Open
  BY DEF Open
<1>3. CASE \E p, m : BeganRecovery(p, m)
  <2>1. PICK p, m : BeganRecovery(p, m)
    BY <1>3
  <2> QED BY <1>1, <2>1, OpenEntered DEF BeganRecovery
<1>4. CASE Started
  <2>1. cursor \in Stages /\ EnterStage(cursor, FALSE)
    BY <1>4 DEF Started
  <2>2. Open' = Open \union {cursor}
    BY <1>1, <2>1, OpenEntered
  <2> QED BY <2>2
<1>5. CASE FinishStage
  BY <1>1, <1>5, OpenFinished
<1> QED BY <1>2, <1>3, <1>4, <1>5, Effects DEF RanTask, JudgedTask, MadeBatch, Lost, vars

\* A step only changes tasks of stages that are open before or after it.
LEMMA ClosedKept ==
  ASSUME IInv, [Next]_vars, NEW s \in Stages, s \notin Open, s \notin Open',
         NEW q \in Parts(s)
  PROVE  tasks'[s][q] = tasks[s][q]
<1>1. TypeOK /\ StackInv
  BY DEF IInv
<1>2. stack # <<>> => s # Active
  BY <1>1, ActiveOpen
<1>3. CASE \E p, new : RanTask(p, new)
  BY <1>2, <1>3 DEF RanTask
<1>4. CASE \E p, new : JudgedTask(p, new)
  BY <1>2, <1>4 DEF JudgedTask
<1>5. CASE \E p, m : BeganRecovery(p, m)
  <2>1. PICK p, m : BeganRecovery(p, m)
    BY <1>5
  <2>2. s # m
    BY <1>1, <2>1, OpenEntered DEF BeganRecovery
  <2> QED BY <1>2, <2>1, <2>2 DEF BeganRecovery
<1>6. CASE MadeBatch
  BY <1>2, <1>6 DEF MadeBatch
<1>7. CASE \E caller : Returned(caller)
  <2>1. PICK caller : Returned(caller)
    BY <1>7
  <2>2. caller \in Open
    <3>1. DOMAIN stack = 1 .. Len(stack) /\ Len(stack) \in Nat
      BY <1>1 DEF TypeOK
    <3>2. Len(stack) > 1 /\ caller = stack[Len(stack) - 1].stage
      BY <2>1 DEF Returned
    <3>3. Len(stack) - 1 \in DOMAIN stack
      BY <3>1, <3>2
    <3> QED BY <3>2, <3>3 DEF Open
  <2> QED BY <2>1, <2>2 DEF Returned, Resumed
<1>8. CASE Started
  <2>1. cursor \in Stages /\ EnterStage(cursor, FALSE)
    BY <1>8 DEF Started
  <2>2. s # cursor
    BY <1>1, <2>1, OpenEntered
  <2> QED BY <1>8, <2>2 DEF Started
<1>9. CASE LeftStage \/ Ended \/ Lost \/ UNCHANGED vars
  BY <1>9 DEF LeftStage, Ended, Lost, vars
<1> QED BY <1>3, <1>4, <1>5, <1>6, <1>7, <1>8, <1>9, Effects

\* Every step leaves such stages done.
LEMMA DoneNext == IInv /\ RunningInv /\ DoneInv /\ [Next]_vars => DoneInv'
<1> SUFFICES ASSUME IInv, RunningInv, DoneInv, [Next]_vars, NEW s \in Stages, s < cursor'
             PROVE  /\ \A p \in Parts(s) : tasks'[s][p].state # "none"
                    /\ InState(s, {"done"})' \/ s \in Open' \/ outcome' = "raised"
  BY DEF DoneInv, Parts
<1>1. TypeOK /\ StackInv /\ s \in Nat /\ cursor \in Nat
  BY StagesAreNumbers DEF IInv, TypeOK
<1>2. s < cursor \/ (LeftStage /\ FinishStage /\ s = Active)
  <2>1. cursor' = cursor \/ (LeftStage /\ FinishStage)
    BY Effects DEF RanTask, JudgedTask, BeganRecovery, MadeBatch, Returned, Started, Ended, Lost, vars
  <2>2. LeftStage => cursor' = cursor + 1 /\ Active = cursor
    BY DEF LeftStage
  <2> QED BY <1>1, <2>1, <2>2
<1>3. FinishStage => InState(Active, {"done"})
  BY DEF FinishStage, StageDone
<1>4. \A p \in Parts(s) : Moves(s, p)
  BY TaskMoves
<1>5. \A p \in Parts(s) : tasks[s][p].state # "none" => tasks'[s][p].state # "none"
  BY <1>4 DEF Moves
<1>6. ASSUME FinishStage, s = Active
      PROVE  /\ \A p \in Parts(s) : tasks'[s][p].state # "none"
             /\ InState(s, {"done"})'
  <2>1. \A p \in Parts(s) : tasks[s][p].state = "done"
    BY <1>3, <1>6 DEF InState
  <2>2. ASSUME NEW p \in Parts(s) PROVE tasks'[s][p] = tasks[s][p]
    <3>1. UNCHANGED tasks \/ \E caller : Returned(caller)
      BY <1>1, <1>6, FinishStageEffect DEF LeftStage
    <3> QED BY <2>1, <3>1 DEF Returned, Resumed
  <2> QED BY <2>1, <2>2 DEF InState, Parts
<1>7. CASE s < cursor
  <2>1. /\ \A p \in Parts(s) : tasks[s][p].state # "none"
        /\ InState(s, {"done"}) \/ s \in Open \/ outcome = "raised"
    BY <1>7 DEF DoneInv
  <2>2. CASE outcome # "running"
    <3>1. UNCHANGED vars
      BY <2>2, EndedForGood
    <3> QED BY <2>1, <3>1 DEF vars, InState, Open, Parts
  <2>3. CASE s \in Open
    <3>1. s \in Open' \/ (FinishStage /\ s = Active) \/ Ended
      BY <2>3, OpenMoves
    <3>2. Ended => outcome' = "raised"
      BY <2>3 DEF Ended, Open
    <3> QED BY <1>5, <1>6, <2>1, <3>1, <3>2
  <2>4. CASE InState(s, {"done"}) /\ s \notin Open
    <3>1. s \in Open' \/ \A p \in Parts(s) : tasks'[s][p] = tasks[s][p]
      BY <2>4, ClosedKept
    <3>2. (\A p \in Parts(s) : tasks'[s][p] = tasks[s][p]) => InState(s, {"done"})'
      BY <2>4 DEF InState, Parts
    <3> QED BY <1>5, <2>1, <3>1, <3>2
  <2> QED BY <2>1, <2>2, <2>3, <2>4
<1> QED BY <1>2, <1>6, <1>7

-----------------------------------------------------------------------------
(* The refinement.                                                         *)

\* What is available is exactly what the loop has left.
LEMMA AvailableIsLeft == IInv /\ DoneInv => Available = {s \in Stages : s < cursor}
<1> SUFFICES ASSUME IInv, DoneInv, NEW s \in Stages, s < cursor
             PROVE  /\ \/ InState(s, {"done"})
                       \/ \E i \in DOMAIN stack : stack[i].stage = s
                       \/ outcome = "raised"
                    /\ IsShuffleWrite(s) =>
                          \E base \in 0 .. next_task : blocks[s] = RunBlocks(s, base)
                    /\ \A p \in Parts(s) : \A leaf \in Reads[s] : HoldsOneRun(tasks[s][p], leaf, p)
  BY DEF Available
<1>1. \A p \in Parts(s) : tasks[s][p].state # "none"
  BY DEF DoneInv
<1>2. \A p \in Parts(s) : \A leaf \in Reads[s] : HoldsOneRun(tasks[s][p], leaf, p)
  BY <1>1 DEF IInv, ReadsOneRun
<1>3. IsShuffleWrite(s) => \E base \in 0 .. next_task : blocks[s] = RunBlocks(s, base)
  BY DEF IInv, RegInv
<1>4. \/ InState(s, {"done"})
      \/ \E i \in DOMAIN stack : stack[i].stage = s
      \/ outcome = "raised"
  BY DEF DoneInv, Open
<1> QED BY <1>2, <1>3, <1>4

\* Every step of the scheduler is a step of the promise, or changes nothing of
\* what it is about.
LEMMA StepKeepsPromise ==
  ASSUME IInv, RunningInv, DoneInv, [Next]_vars,
         Available' = {s \in Stages : s < cursor'}
  PROVE  [Promise!Next]_(Promise!vars)
<1>1. Available = {s \in Stages : s < cursor}
  BY AvailableIsLeft
<1>2. TypeOK
  BY DEF IInv
<1>3. cursor \in Nat /\ NumStages \in Nat \ {0} /\ Stages \subseteq Nat
      /\ \A s \in Stages : s < NumStages
  BY <1>2, PlanFacts, StagesAreNumbers DEF TypeOK, Stages
<1>4. CASE FinishStage /\ LeftStage
  <2>1. stack # <<>> /\ cursor' = cursor + 1 /\ Active = cursor /\ UNCHANGED outcome
    BY <1>4 DEF FinishStage, LeftStage
  <2>2. cursor \in Stages /\ outcome = "running"
    BY <1>2, <2>1, ActiveFrame DEF RunningInv
  <2>3. Available' = Available \union {cursor} /\ cursor \notin Available
    <3>1. \A s \in Stages : s < cursor + 1 <=> s < cursor \/ s = cursor
      BY <1>3
    <3>2. Available' = {s \in Stages : s < cursor + 1}
      BY <2>1
    <3>3. ~ (cursor < cursor)
      BY <1>3
    <3> QED BY <1>1, <2>2, <3>1, <3>2, <3>3
  <2>4. {leaf.from : leaf \in Reads[cursor]} \subseteq Available
    BY <1>1, <2>2, PlanFacts DEF Leaf
  <2>5. Promise!Produce(cursor)
    BY <2>1, <2>2, <2>3, <2>4 DEF Promise!Produce
  <2> QED BY <2>2, <2>5 DEF Promise!Next
<1>5. CASE Ended
  <2>1. UNCHANGED cursor /\ Available' = Available
    BY <1>1, <1>5 DEF Ended
  <2>2. CASE stack # <<>> /\ outcome' = "raised"
    <3>1. outcome = "running"
      BY <2>2 DEF RunningInv
    <3>2. Promise!Raise
      BY <2>1, <2>2, <3>1 DEF Promise!Raise
    <3> QED BY <3>2 DEF Promise!Next
  <2>3. CASE outcome = "running" /\ cursor = NumStages /\ outcome' = "success"
    <3>1. Available = Stages
      BY <1>1, <1>3, <2>3
    <3>2. Promise!Return
      BY <2>1, <2>3, <3>1 DEF Promise!Return
    <3> QED BY <3>2 DEF Promise!Next
  <2> QED BY <1>5, <2>2, <2>3 DEF Ended
<1>6. CASE UNCHANGED <<cursor, outcome>>
  <2>1. Available' = Available
    BY <1>1, <1>6
  <2> QED BY <1>6, <2>1 DEF Promise!vars
<1> QED BY <1>4, <1>5, <1>6, Effects
        DEF RanTask, JudgedTask, BeganRecovery, MadeBatch, Returned, Started, Lost, vars

\* Stages left by the loop stay done, in every behaviour.
THEOREM LeftStagesAreDone == Spec => []DoneInv
<1>1. Init => DoneInv
  <2> SUFFICES ASSUME Init, NEW s \in Stages PROVE ~ (s < cursor)
    BY DEF DoneInv
  <2> QED BY PlanFacts DEF Init, Stages
<1>2. IInv /\ RunningInv /\ DoneInv /\ [Next]_vars => DoneInv'
  BY DoneNext
<1>3. RecoveryInv => RunningInv
  BY DEF RecoveryInv
<1> QED BY <1>1, <1>2, <1>3, Inductive, RecoveryInductive, PTL DEF Spec

\* LocalScheduler implements QueryPromise: whatever is lost and recomputed,
\* stages become available after the ones they read, none is taken back, and a
\* dataset is returned only when all of them are.
THEOREM SchedulerKeepsPromise == Spec => KeepsPromise
<1>1. Init /\ IInv /\ DoneInv => Promise!Init
  <2> SUFFICES ASSUME Init, IInv, DoneInv PROVE Promise!Init
    OBVIOUS
  <2>1. Available = {}
    BY AvailableIsLeft, PlanFacts DEF Init, Stages
  <2> QED BY <2>1 DEF Promise!Init, Init
<1>2. IInv /\ DoneInv => Available = {s \in Stages : s < cursor}
  BY AvailableIsLeft
<1>3. /\ IInv /\ RecoveryInv /\ DoneInv /\ [Next]_vars
      /\ (Available = {s \in Stages : s < cursor})'
      => [Promise!Next]_(Promise!vars)
  BY StepKeepsPromise DEF RecoveryInv
<1> QED
  BY <1>1, <1>2, <1>3, Inductive, RecoveryInductive, LeftStagesAreDone, PTL
     DEF Spec, KeepsPromise, Promise!Spec

-----------------------------------------------------------------------------
(* The metrics.                                                            *)

\* Unless the query was cut off, the log counts the runs that returned.
CountInv ==
  outcome # "raised" =>
    Len(stage_metrics) + Len(stack)
      = cursor + Cardinality(recomputed_stages) + (IF stack = <<>> THEN 0 ELSE 1)

\* Each stage the loop has left, and each recomputed one, has its entry.
RunsInv ==
  /\ \A s \in Stages : s < cursor =>
        \E i \in DOMAIN stage_metrics :
           stage_metrics[i].stage_id = s /\ ~ stage_metrics[i].recomputed
  /\ outcome # "raised" =>
       \A m \in recomputed_stages :
          \/ Recomputing(m)
          \/ \E i \in DOMAIN stage_metrics :
                stage_metrics[i].stage_id = m /\ stage_metrics[i].recomputed

\* A stage whose entry comes before that of a stage it reads is running again
\* or has a later entry.
OrderInv ==
  outcome # "raised" =>
    \A i, j \in DOMAIN stage_metrics :
       /\ i < j
       /\ \E leaf \in Reads[stage_metrics[i].stage_id] : leaf.from = stage_metrics[j].stage_id
       => \/ stage_metrics[i].stage_id \in Open
          \/ \E k \in DOMAIN stage_metrics :
                k > j /\ stage_metrics[k].stage_id = stage_metrics[i].stage_id

\* A dataset is returned after the last stage, with the whole log.
SuccessInv ==
  outcome = "success" =>
    stack = <<>> /\ cursor = NumStages /\ last_metrics = stage_metrics

\* A stage that returns appends the entry of its run.
LEMMA LogAppended ==
  ASSUME TypeOK, StackInv, FinishStage
  PROVE  LET n == Len(stack)
             l == Len(stage_metrics)
         IN /\ n \in Nat \ {0} /\ l \in Nat
            /\ DOMAIN stack = 1 .. n /\ DOMAIN stage_metrics = 1 .. l
            /\ Len(stack') = n - 1 /\ DOMAIN stack' = 1 .. n - 1
            /\ \A i \in 1 .. n - 1 : stack'[i] = stack[i]
            /\ Active = stack[n].stage
            /\ Len(stage_metrics') = l + 1 /\ DOMAIN stage_metrics' = 1 .. l + 1
            /\ \A i \in 1 .. l : stage_metrics'[i] = stage_metrics[i]
            /\ stage_metrics'[l + 1].stage_id = Active
            /\ IF n = 1 THEN ~ stage_metrics'[l + 1].recomputed
                        ELSE stage_metrics'[l + 1].recomputed
<1> DEFINE n == Len(stack)
           l == Len(stage_metrics)
<1>1. /\ stack # <<>> /\ n \in Nat \ {0} /\ n \in DOMAIN stack
      /\ Last(stack) = stack[n] /\ Active = stack[n].stage
      /\ DOMAIN stack = 1 .. n
  BY ActiveFrame DEF FinishStage, Active, TypeOK
<1>2. /\ Front(stack) \in Seq(Frame) /\ Len(Front(stack)) = n - 1
      /\ \A i \in DOMAIN Front(stack) : Front(stack)[i] = stack[i]
  BY <1>1, PoppedFrames
<1>3. stack' = Front(stack)
  BY DEF FinishStage
<1>4. IF n = 1 THEN ~ stack[n].recomputed ELSE stack[n].recomputed
  <2>1. n = 1 => ~ stack[n].recomputed
    BY <1>1 DEF StackInv
  <2>2. n # 1 => stack[n].recomputed
    BY <1>1 DEF StackInv
  <2> QED BY <2>1, <2>2
<1> DEFINE e == [stage_id |-> Active,
                 retried_tasks |-> Cardinality({p \in Parts(Active) : tasks[Active][p].attempt > 0}),
                 recomputed |-> Last(stack).recomputed]
<1>5. e.stage_id = Active /\ e.recomputed = stack[n].recomputed
  BY <1>1
<1>6. /\ l \in Nat /\ DOMAIN stage_metrics = 1 .. l
      /\ Len(stage_metrics') = l + 1 /\ DOMAIN stage_metrics' = 1 .. l + 1
      /\ \A i \in 1 .. l : stage_metrics'[i] = stage_metrics[i]
      /\ stage_metrics'[l + 1] = e
  <2>1. stage_metrics' = Append(stage_metrics, e)
    BY DEF FinishStage
  <2>2. Cardinality({p \in Parts(Active) : tasks[Active][p].attempt > 0}) \in Nat
    <3>1. Active \in Stages
      BY <1>1, ActiveFrame
    <3> QED BY <3>1, PartsFinite, FS_Subset, FS_CardinalityType
  <2>3. e \in Metrics
    BY <1>1, <2>2, ActiveFrame DEF Metrics, Frame
  <2>4. stage_metrics \in Seq(Metrics)
    BY DEF TypeOK
  <2> HIDE DEF e
  <2>5. /\ Append(stage_metrics, e) \in Seq(Metrics)
        /\ Len(Append(stage_metrics, e)) = l + 1
        /\ \A i \in 1 .. l : Append(stage_metrics, e)[i] = stage_metrics[i]
        /\ Append(stage_metrics, e)[l + 1] = e
    BY <2>3, <2>4, AppendProperties
  <2> QED BY <2>1, <2>4, <2>5
<1>7. Len(stack') = n - 1 /\ DOMAIN stack' = 1 .. n - 1
      /\ \A i \in 1 .. n - 1 : stack'[i] = stack[i]
  BY <1>2, <1>3
<1> HIDE DEF n, l, e
<1> QED BY <1>1, <1>4, <1>5, <1>6, <1>7 DEF n, l

\* The steps that tell on the metrics.
LEMMA LoudSteps ==
  ASSUME IInv, RunningInv, [Next]_vars
  PROVE  \/ \E p, m : BeganRecovery(p, m)
         \/ FinishStage /\ LeftStage
         \/ FinishStage /\ \E caller : Returned(caller)
         \/ Started
         \/ Ended /\ outcome' = "raised"
         \/ /\ UNCHANGED <<cursor, stack, recomputed_stages, stage_metrics>>
            /\ \/ UNCHANGED <<outcome, last_metrics>>
               \/ /\ outcome = "running" /\ outcome' = "success" /\ last_metrics' = stage_metrics
                  /\ stack = <<>> /\ cursor = NumStages
BY Effects DEF RanTask, JudgedTask, MadeBatch, Lost, Ended, vars

\* Steps keep the log's length.
LEMMA CountNext == IInv /\ RunningInv /\ CountInv /\ [Next]_vars => CountInv'
<1> SUFFICES ASSUME IInv, RunningInv, CountInv, [Next]_vars, outcome' # "raised"
             PROVE  Len(stage_metrics') + Len(stack')
                      = cursor' + Cardinality(recomputed_stages')
                          + (IF stack' = <<>> THEN 0 ELSE 1)
  BY DEF CountInv
<1> DEFINE n == Len(stack)
           l == Len(stage_metrics)
           c == Cardinality(recomputed_stages)
<1>1. TypeOK /\ StackInv
  BY DEF IInv
<1>2. IsFiniteSet(recomputed_stages) /\ c \in Nat
  <2>1. IsFiniteSet(Stages)
    BY PlanFacts, FS_Interval DEF Stages
  <2> QED BY <1>1, <2>1, FS_Subset, FS_CardinalityType DEF TypeOK
<1>3. n \in Nat /\ l \in Nat /\ cursor \in Nat /\ (n = 0 <=> stack = <<>>)
  BY <1>1, PlanFacts DEF TypeOK
<1>4. outcome # "raised" => l + n = cursor + c + (IF stack = <<>> THEN 0 ELSE 1)
  BY DEF CountInv
<1>5. CASE \E p, m : BeganRecovery(p, m)
  <2>1. PICK p, m : BeganRecovery(p, m)
    BY <1>5
  <2>2. /\ m \in Stages /\ EnterStage(m, TRUE) /\ stack # <<>> /\ m \notin recomputed_stages
        /\ recomputed_stages' = recomputed_stages \union {m}
        /\ UNCHANGED <<cursor, stage_metrics, outcome>>
    BY <2>1 DEF BeganRecovery
  <2>3. Len(stack') = n + 1 /\ stack' # <<>>
    <3>1. [stage |-> m, recomputed |-> TRUE] \in Frame /\ stack \in Seq(Frame)
      BY <1>1, <2>2 DEF Frame, TypeOK
    <3> QED BY <2>2, <3>1, AppendProperties DEF EnterStage
  <2>4. Cardinality(recomputed_stages') = c + 1
    BY <1>2, <2>2, FS_AddElement
  <2> HIDE DEF n, l, c
  <2> QED BY <1>2, <1>3, <1>4, <2>2, <2>3, <2>4 DEF l
<1>6. CASE FinishStage
  <2>1. /\ n \in Nat \ {0} /\ Len(stack') = n - 1 /\ Len(stage_metrics') = l + 1
    BY <1>1, <1>6, LogAppended
  <2>2. UNCHANGED <<recomputed_stages, outcome>> /\ stack # <<>>
        /\ cursor' = IF n = 1 THEN cursor + 1 ELSE cursor
    BY <1>6 DEF FinishStage
  <2>3. stack' = <<>> <=> n = 1
    <3>1. stack' \in Seq(Frame)
      BY <1>1, <1>6, PoppedFrames DEF FinishStage
    <3>2. stack' = <<>> <=> Len(stack') = 0
      BY <3>1
    <3> QED BY <2>1, <3>2
  <2>4. l + n = cursor + c + 1
    BY <1>4, <2>2
  <2>5. Cardinality(recomputed_stages') = c
    BY <2>2
  <2> HIDE DEF n, l, c
  <2>6. CASE n = 1
    BY <1>2, <1>3, <2>1, <2>2, <2>3, <2>4, <2>5, <2>6
  <2>7. CASE n # 1
    BY <1>2, <1>3, <2>1, <2>2, <2>3, <2>4, <2>5, <2>7
  <2> QED BY <2>6, <2>7
<1>7. CASE Started
  <2>1. /\ cursor \in Stages /\ EnterStage(cursor, FALSE) /\ stack = <<>>
        /\ UNCHANGED <<cursor, recomputed_stages, stage_metrics, outcome>>
    BY <1>7 DEF Started
  <2>2. Len(stack') = n + 1 /\ stack' # <<>>
    <3>1. [stage |-> cursor, recomputed |-> FALSE] \in Frame /\ stack \in Seq(Frame)
      BY <1>1, <2>1 DEF Frame, TypeOK
    <3> QED BY <2>1, <3>1, AppendProperties DEF EnterStage
  <2> QED BY <1>2, <1>3, <1>4, <2>1, <2>2
<1>8. CASE /\ UNCHANGED <<cursor, stack, recomputed_stages, stage_metrics>>
           /\ UNCHANGED outcome \/ outcome = "running"
  BY <1>4, <1>8
<1> QED BY <1>5, <1>6, <1>7, <1>8, LoudSteps

\* Steps leave each stage its entries.
LEMMA RunsNext == IInv /\ RunningInv /\ RunsInv /\ [Next]_vars => RunsInv'
<1> SUFFICES ASSUME IInv, RunningInv, RunsInv, [Next]_vars PROVE RunsInv'
  OBVIOUS
<1>1. TypeOK /\ StackInv /\ cursor \in Nat /\ Stages \subseteq Nat
  BY PlanFacts, StagesAreNumbers DEF IInv, TypeOK
<1>2. CASE \E p, m : BeganRecovery(p, m)
  <2>1. PICK p, m : BeganRecovery(p, m)
    BY <1>2
  <2>2. /\ m \in Stages /\ EnterStage(m, TRUE) /\ stack # <<>>
        /\ recomputed_stages' = recomputed_stages \union {m}
        /\ UNCHANGED <<cursor, stage_metrics, outcome>>
    BY <2>1 DEF BeganRecovery
  <2>3. /\ Len(stack) \in Nat \ {0} /\ DOMAIN stack = 1 .. Len(stack)
        /\ DOMAIN stack' = 1 .. Len(stack) + 1
        /\ \A i \in 1 .. Len(stack) : stack'[i] = stack[i]
        /\ stack'[Len(stack) + 1].stage = m
    <3>1. Len(stack) \in Nat \ {0}
      BY <1>1, <2>2, ActiveFrame
    <3>2. /\ DOMAIN stack = 1 .. Len(stack) /\ DOMAIN stack' = 1 .. Len(stack) + 1
          /\ \A i \in 1 .. Len(stack) : stack'[i] = stack[i]
          /\ stack'[Len(stack) + 1] = [stage |-> m, recomputed |-> TRUE]
      BY <1>1, <2>2, PushedFrames
    <3> QED BY <3>1, <3>2
  <2>4. \A k : Recomputing(k) => Recomputing(k)'
    BY <2>3 DEF Recomputing
  <2>5. Recomputing(m)'
    BY <2>3 DEF Recomputing
  <2>6. UNCHANGED <<cursor, stage_metrics>>
    BY <2>2
  <2> QED BY <2>2, <2>4, <2>5, <2>6 DEF RunsInv
<1>3. CASE Started
  <2>1. /\ stack = <<>>
        /\ UNCHANGED <<cursor, recomputed_stages, stage_metrics, outcome>>
    BY <1>3 DEF Started
  <2>2. \A k : ~ Recomputing(k)
    BY <2>1 DEF Recomputing
  <2> QED BY <2>1, <2>2 DEF RunsInv
<1>4. CASE Ended /\ outcome' = "raised"
  BY <1>4 DEF Ended, RunsInv
<1>5. CASE FinishStage
  <2> DEFINE n == Len(stack)
             l == Len(stage_metrics)
  <2>1. /\ n \in Nat \ {0} /\ l \in Nat
        /\ DOMAIN stack = 1 .. n /\ DOMAIN stage_metrics = 1 .. l
        /\ DOMAIN stack' = 1 .. n - 1
        /\ \A i \in 1 .. n - 1 : stack'[i] = stack[i]
        /\ Active = stack[n].stage
        /\ DOMAIN stage_metrics' = 1 .. l + 1
        /\ \A i \in 1 .. l : stage_metrics'[i] = stage_metrics[i]
        /\ stage_metrics'[l + 1].stage_id = Active
        /\ IF n = 1 THEN ~ stage_metrics'[l + 1].recomputed ELSE stage_metrics'[l + 1].recomputed
    BY <1>1, <1>5, LogAppended
  <2>2. UNCHANGED <<recomputed_stages, outcome>>
        /\ cursor' = IF n = 1 THEN cursor + 1 ELSE cursor
    BY <1>5 DEF FinishStage
  <2> HIDE DEF n, l
  <2>3. l + 1 \in DOMAIN stage_metrics' /\ \A i \in DOMAIN stage_metrics : i \in DOMAIN stage_metrics'
    BY <2>1
  <2>4. n = 1 => Active = cursor
    <3>1. stack # <<>> /\ stack[1].stage = cursor
      BY <1>1, <1>5 DEF FinishStage, StackInv
    <3> QED BY <2>1, <3>1
  <2>5. ASSUME NEW s \in Stages, s < cursor'
        PROVE  \E i \in DOMAIN stage_metrics' :
                  stage_metrics'[i].stage_id = s /\ ~ stage_metrics'[i].recomputed
    <3>1. s < cursor \/ (n = 1 /\ s = cursor)
      BY <1>1, <2>2, <2>5
    <3>2. CASE s < cursor
      <4>1. PICK i \in DOMAIN stage_metrics :
               stage_metrics[i].stage_id = s /\ ~ stage_metrics[i].recomputed
        BY <3>2 DEF RunsInv
      <4> QED BY <2>1, <2>3, <4>1
    <3> QED BY <2>1, <2>3, <2>4, <3>1, <3>2
  <2>6. ASSUME NEW m \in recomputed_stages, outcome # "raised"
        PROVE  \/ Recomputing(m)'
               \/ \E i \in DOMAIN stage_metrics' :
                     stage_metrics'[i].stage_id = m /\ stage_metrics'[i].recomputed
    <3>1. CASE Recomputing(m)
      <4>1. PICK i \in 1 .. n : i > 1 /\ stack[i].stage = m
        BY <2>1, <3>1 DEF Recomputing
      <4>2. i = n \/ i \in 1 .. n - 1
        BY <2>1
      <4>3. CASE i = n
        BY <2>1, <2>3, <4>1, <4>3
      <4>4. CASE i \in 1 .. n - 1
        BY <2>1, <4>1, <4>4 DEF Recomputing
      <4> QED BY <4>2, <4>3, <4>4
    <3>2. CASE \E i \in DOMAIN stage_metrics :
                  stage_metrics[i].stage_id = m /\ stage_metrics[i].recomputed
      BY <2>1, <2>3, <3>2
    <3> QED BY <2>6, <3>1, <3>2 DEF RunsInv
  <2> QED BY <2>2, <2>5, <2>6 DEF RunsInv
<1>6. CASE /\ UNCHANGED <<cursor, stack, recomputed_stages, stage_metrics>>
           /\ UNCHANGED outcome \/ outcome = "running"
  BY <1>6 DEF RunsInv, Recomputing
<1> QED BY <1>2, <1>3, <1>4, <1>5, <1>6, LoudSteps

\* The runs of a stage that returns come after the last ones of what it reads.
LEMMA OrderNext ==
  IInv /\ RunningInv /\ ReaderInv /\ OrderInv /\ [Next]_vars => OrderInv'
<1> SUFFICES ASSUME IInv, RunningInv, ReaderInv, OrderInv, [Next]_vars, outcome' # "raised"
             PROVE  \A i, j \in DOMAIN stage_metrics' :
                       /\ i < j
                       /\ \E leaf \in Reads[stage_metrics'[i].stage_id] :
                             leaf.from = stage_metrics'[j].stage_id
                       => \/ stage_metrics'[i].stage_id \in Open'
                          \/ \E k \in DOMAIN stage_metrics' :
                                k > j /\ stage_metrics'[k].stage_id = stage_metrics'[i].stage_id
  BY DEF OrderInv
<1>1. TypeOK /\ StackInv /\ LogInv /\ Stages \subseteq Nat
  BY StagesAreNumbers DEF IInv
<1>2. outcome # "raised"
  <2>1. outcome # "running" => outcome' = outcome
    BY EndedForGood DEF vars
  <2> QED BY <2>1
<1>3. CASE UNCHANGED stage_metrics /\ Open \subseteq Open'
  BY <1>2, <1>3 DEF OrderInv
<1>4. CASE FinishStage
  <2> DEFINE n == Len(stack)
             l == Len(stage_metrics)
  <2>1. /\ n \in Nat \ {0} /\ l \in Nat
        /\ DOMAIN stack = 1 .. n /\ DOMAIN stage_metrics = 1 .. l
        /\ DOMAIN stack' = 1 .. n - 1
        /\ \A i \in 1 .. n - 1 : stack'[i] = stack[i]
        /\ Active = stack[n].stage
        /\ DOMAIN stage_metrics' = 1 .. l + 1
        /\ \A i \in 1 .. l : stage_metrics'[i] = stage_metrics[i]
        /\ stage_metrics'[l + 1].stage_id = Active
    BY <1>1, <1>4, LogAppended
  <2> HIDE DEF n, l
  <2>2. Open' = Open \ {Active}
    BY <1>1, <1>4, OpenFinished
  <2> SUFFICES ASSUME NEW i \in DOMAIN stage_metrics', NEW j \in DOMAIN stage_metrics', i < j,
                      NEW leaf \in Reads[stage_metrics'[i].stage_id],
                      leaf.from = stage_metrics'[j].stage_id
               PROVE  \/ stage_metrics'[i].stage_id \in Open'
                      \/ \E k \in DOMAIN stage_metrics' :
                            k > j /\ stage_metrics'[k].stage_id = stage_metrics'[i].stage_id
    OBVIOUS
  <2> SUFFICES \/ stage_metrics'[i].stage_id \in Open'
               \/ \E k \in 1 .. l + 1 :
                     k > j /\ stage_metrics'[k].stage_id = stage_metrics'[i].stage_id
    BY <2>1
  <2>3. i \in 1 .. l /\ l + 1 \in 1 .. l + 1
        /\ (j \in 1 .. l \/ j = l + 1) /\ (j \in 1 .. l => l + 1 > j)
    <3>1. l \in Nat /\ i \in 1 .. l + 1 /\ j \in 1 .. l + 1 /\ i < j
      BY <2>1
    <3> QED BY ONLY <3>1
  <2>4. stage_metrics'[i] = stage_metrics[i] /\ stage_metrics[i].stage_id \in Stages
    BY <1>1, <2>1, <2>3, StagesAreNumbers
  <2>5. CASE j \in 1 .. l
    <3>1. leaf.from = stage_metrics[j].stage_id
      BY <2>1, <2>5
    <3>2. \/ stage_metrics[i].stage_id \in Open
          \/ \E k \in 1 .. l : k > j /\ stage_metrics[k].stage_id = stage_metrics[i].stage_id
      BY <1>2, <2>1, <2>3, <2>4, <2>5, <3>1 DEF OrderInv
    <3>3. \A k \in 1 .. l : k \in 1 .. l + 1 /\ stage_metrics'[k] = stage_metrics[k]
      BY <2>1
    <3> QED BY <2>1, <2>2, <2>3, <2>4, <2>5, <3>2, <3>3
  <2>6. CASE j = l + 1
    <3> DEFINE r == stage_metrics[i].stage_id
    <3>1. leaf \in Reads[r] /\ leaf.from = Active /\ r \in Stages /\ Active \in Stages
      BY <1>1, <2>1, <2>4, <2>6, ActiveFrame DEF FinishStage
    <3>2. CASE n = 1
      <4>1. stack # <<>> /\ Active = cursor
        BY <1>1, <1>4, <2>1, <3>2 DEF FinishStage, StackInv
      <4>2. r < cursor
        BY <1>1, <2>1, <2>3 DEF LogInv
      <4>3. cursor < r /\ cursor \in Nat /\ r \in Nat
        <5>1. leaf.from < r
          BY <3>1, PlanFacts
        <5> QED BY <1>1, <3>1, <4>1, <5>1
      <4> QED BY <4>2, <4>3
    <3>3. CASE n # 1
      <4>1. n \in DOMAIN stack /\ n > 1 /\ n - 1 \in 1 .. n - 1 /\ n - 1 \in DOMAIN stack
        BY <2>1, <3>3
      <4>2. PICK mine \in Reads[stack[n - 1].stage] : mine.from = stack[n].stage
        BY <4>1 DEF ReaderInv
      <4>3. stack[n - 1].stage \in Stages
        BY <1>1, <4>1, StagesAreNumbers
      <4>4. r = stack[n - 1].stage
        BY <2>1, <3>1, <4>2, <4>3, PlanFacts
      <4>5. r \in Open'
        BY <2>1, <4>1, <4>4 DEF Open
      <4> QED BY <2>4, <4>5
    <3> QED BY <3>2, <3>3
  <2> QED BY <2>3, <2>5, <2>6
<1>5. CASE \E p, m : BeganRecovery(p, m)
  <2>1. UNCHANGED stage_metrics
    BY <1>5 DEF BeganRecovery
  <2>2. Open \subseteq Open'
    <3>1. PICK p, m : BeganRecovery(p, m)
      BY <1>5
    <3> QED BY <1>1, <3>1, OpenEntered DEF BeganRecovery
  <2> QED BY <1>3, <2>1, <2>2
<1>6. CASE Started
  BY <1>3, <1>6 DEF Started, Open
<1>7. CASE UNCHANGED <<stack, stage_metrics>>
  BY <1>3, <1>7 DEF Open
<1> QED BY <1>4, <1>5, <1>6, <1>7, LoudSteps

\* A set of positions has a last one.
LEMMA HasLast ==
  ASSUME NEW n \in Nat, NEW T \in SUBSET (1 .. n), T # {}
  PROVE  \E x \in T : \A y \in T : y <= x
<1> DEFINE D == {n - x : x \in T}
           R == OpToRel(<, Nat)
<1>1. D \subseteq Nat /\ D # {}
  <2>1. \A x \in T : n - x \in Nat
    OBVIOUS
  <2> QED BY <2>1
<1>2. \E d \in D : \A e \in D : ~ (<<e, d>> \in R)
  <2>1. IsWellFoundedOn(R, Nat)
    BY NatLessThanWellFounded
  <2> HIDE DEF D, R
  <2> QED BY <1>1, <2>1, WFMin
<1>3. PICK d \in D : \A e \in D : ~ (<<e, d>> \in R)
  BY <1>2
<1>4. \A e \in D : ~ (e < d)
  <2> SUFFICES ASSUME NEW e \in D, e < d PROVE FALSE
    OBVIOUS
  <2>1. <<e, d>> \in Nat \X Nat
    BY <1>1
  <2>2. <<e, d>> \in R
    BY <2>1 DEF OpToRel
  <2> QED BY <1>3, <2>2
<1>5. PICK x \in T : d = n - x
  OBVIOUS
<1>6. ASSUME NEW y \in T PROVE y <= x
  <2>1. ~ (n - y < n - x)
    BY <1>4, <1>5
  <2>2. x \in Nat /\ y \in Nat
    OBVIOUS
  <2> QED BY <2>1, <2>2
<1> QED BY <1>6

\* And a set of numbers a first one.
LEMMA HasFirst ==
  ASSUME NEW T \in SUBSET Nat, T # {}
  PROVE  \E x \in T : \A y \in T : x <= y
<1> DEFINE R == OpToRel(<, Nat)
<1>1. PICK x \in T : \A y \in T : ~ (<<y, x>> \in R)
  <2>1. IsWellFoundedOn(R, Nat)
    BY NatLessThanWellFounded
  <2> HIDE DEF R
  <2> QED BY <2>1, WFMin
<1>2. \A y \in T : ~ (y < x)
  BY <1>1 DEF OpToRel
<1> QED BY <1>2

\* LastRun is the position of the last entry of a stage that has one.
LEMMA LastRunIsLast ==
  ASSUME NEW log, NEW n \in Nat, DOMAIN log = 1 .. n, NEW s,
         \E i \in DOMAIN log : log[i].stage_id = s
  PROVE  /\ LastRun(log, s) \in 1 .. n
         /\ log[LastRun(log, s)].stage_id = s
         /\ \A j \in 1 .. n : log[j].stage_id = s => j <= LastRun(log, s)
<1> DEFINE T == {i \in 1 .. n : log[i].stage_id = s}
<1>1. \E x \in T : \A y \in T : y <= x
  <2>1. T \in SUBSET (1 .. n) /\ T # {}
    OBVIOUS
  <2> HIDE DEF T
  <2> QED BY <2>1, HasLast
<1>2. \E i \in DOMAIN log :
         log[i].stage_id = s /\ \A j \in DOMAIN log : log[j].stage_id = s => j <= i
  BY <1>1
<1> QED BY <1>2 DEF LastRun

\* What is known of the log, together.
MetricsInv == CountInv /\ RunsInv /\ OrderInv /\ SuccessInv

\* It holds in every behaviour.
THEOREM MetricsInductive == Spec => []MetricsInv
<1>1. Init => MetricsInv
  <2> SUFFICES ASSUME Init PROVE MetricsInv
    OBVIOUS
  <2>1. /\ stack = <<>> /\ stage_metrics = <<>> /\ cursor = 0 /\ recomputed_stages = {}
        /\ outcome = "running" /\ DOMAIN stage_metrics = {}
    BY DEF Init
  <2>2. Len(stage_metrics) = 0 /\ Len(stack) = 0 /\ Cardinality(recomputed_stages) = 0
    BY <2>1, FS_EmptySet
  <2>3. CountInv
    BY <2>1, <2>2 DEF CountInv
  <2>4. \A s \in Stages : ~ (s < cursor)
    BY <2>1, PlanFacts DEF Stages
  <2>5. RunsInv /\ OrderInv /\ SuccessInv
    BY <2>1, <2>4 DEF RunsInv, OrderInv, SuccessInv
  <2> QED BY <2>3, <2>5 DEF MetricsInv
<1>2. IInv /\ RecoveryInv /\ MetricsInv /\ [Next]_vars => MetricsInv'
  <2> SUFFICES ASSUME IInv, RecoveryInv, MetricsInv, [Next]_vars PROVE MetricsInv'
    OBVIOUS
  <2>1. RunningInv /\ ReaderInv /\ CountInv /\ RunsInv /\ OrderInv /\ SuccessInv
    BY DEF RecoveryInv, MetricsInv
  <2>2. CountInv' /\ RunsInv' /\ OrderInv'
    BY <2>1, CountNext, RunsNext, OrderNext
  <2>3. SuccessInv'
    <3>1. CASE outcome # "running"
      BY <2>1, <3>1, EndedForGood DEF SuccessInv, vars
    <3>2. CASE outcome = "running"
      <4>1. outcome' = "success" =>
              /\ UNCHANGED <<cursor, stack, stage_metrics>>
              /\ last_metrics' = stage_metrics /\ stack = <<>> /\ cursor = NumStages
        BY <2>1, <3>2, LoudSteps DEF BeganRecovery, FinishStage, Started
      <4> QED BY <4>1 DEF SuccessInv
    <3> QED BY <3>1, <3>2
  <2> QED BY <2>2, <2>3 DEF MetricsInv
<1> QED BY <1>1, <1>2, Inductive, RecoveryInductive, PTL DEF Spec

\* The metrics of a query that succeeded tell all its runs and no others, and
\* the last run of each stage after the last run of every stage it reads: what
\* the result was computed from.
THEOREM MetricsAreTheRuns == Spec => []MetricsTellTheRuns
<1>1. IInv /\ MetricsInv => MetricsTellTheRuns
  <2> SUFFICES ASSUME IInv, MetricsInv, outcome = "success"
               PROVE  MetricsTellTheRuns
    BY DEF MetricsTellTheRuns
  <2> DEFINE l == Len(stage_metrics)
  <2>1. TypeOK /\ LogInv /\ CountInv /\ RunsInv /\ OrderInv
        /\ stack = <<>> /\ cursor = NumStages /\ last_metrics = stage_metrics
    BY DEF IInv, MetricsInv, SuccessInv
  <2>2. /\ l \in Nat /\ DOMAIN stage_metrics = 1 .. l
        /\ \A i \in 1 .. l : stage_metrics[i] \in Metrics
    BY <2>1 DEF TypeOK
  <2>3. \A s \in Stages : s < NumStages
    BY PlanFacts DEF Stages
  <2>4. \A s \in Stages : \E i \in 1 .. l :
           stage_metrics[i].stage_id = s /\ ~ stage_metrics[i].recomputed
    BY <2>1, <2>2, <2>3 DEF RunsInv
  <2>5. \A m \in recomputed_stages : \E i \in 1 .. l :
           stage_metrics[i].stage_id = m /\ stage_metrics[i].recomputed
    <3>1. \A m : ~ Recomputing(m)
      BY <2>1 DEF Recomputing
    <3> QED BY <2>1, <2>2, <3>1 DEF RunsInv
  <2>6. Range(last_metrics) = {stage_metrics[i] : i \in 1 .. l}
    BY <2>1, <2>2 DEF Range
  <2>7. {m.stage_id : m \in {m \in Range(last_metrics) : ~ m.recomputed}} = Stages
    BY <2>2, <2>4, <2>6 DEF Metrics
  <2>8. {m.stage_id : m \in {m \in Range(last_metrics) : m.recomputed}} = recomputed_stages
    <3>1. \A i \in 1 .. l : stage_metrics[i].recomputed =>
             stage_metrics[i].stage_id \in recomputed_stages
      BY <2>1, <2>2 DEF LogInv
    <3> QED BY <2>5, <2>6, <3>1
  <2>9. Len(last_metrics) = NumStages + Cardinality(recomputed_stages)
    <3>1. Len(stack) = 0 /\ outcome # "raised"
      BY <2>1
    <3>2. l + 0 = NumStages + Cardinality(recomputed_stages) + 0
      BY <2>1, <3>1 DEF CountInv
    <3>3. Cardinality(recomputed_stages) \in Nat
      <4>1. IsFiniteSet(Stages)
        BY PlanFacts, FS_Interval DEF Stages
      <4>2. recomputed_stages \in SUBSET Stages
        BY <2>1 DEF TypeOK
      <4> QED BY <4>1, <4>2, FS_Subset, FS_CardinalityType
    <3> QED BY <2>1, <2>2, <3>2, <3>3, PlanFacts
  <2> HIDE DEF l
  <2>10. ASSUME NEW s \in Stages, NEW leaf \in Reads[s]
         PROVE  LastRun(last_metrics, leaf.from) < LastRun(last_metrics, s)
    <3> DEFINE f == leaf.from
               i == LastRun(stage_metrics, s)
               j == LastRun(stage_metrics, f)
    <3>1. f \in Stages /\ f < s /\ s \in Nat /\ f \in Nat
      BY <2>1, PlanFacts, StagesAreNumbers DEF Leaf
    <3>2. /\ i \in 1 .. l /\ stage_metrics[i].stage_id = s
          /\ \A k \in 1 .. l : stage_metrics[k].stage_id = s => k <= i
      BY <2>2, <2>4, LastRunIsLast
    <3>3. j \in 1 .. l /\ stage_metrics[j].stage_id = f
      BY <2>2, <2>4, <3>1, LastRunIsLast
    <3> HIDE DEF f, i, j
    <3>4. i # j
      BY <3>1, <3>2, <3>3
    <3>5. ~ (i < j)
      <4> SUFFICES ASSUME i < j PROVE FALSE
        OBVIOUS
      <4>1. s \notin Open
        BY <2>1 DEF Open
      <4>2. \E k \in DOMAIN stage_metrics : k > j /\ stage_metrics[k].stage_id = s
        BY <2>1, <2>2, <3>2, <3>3, <4>1 DEF OrderInv, f
      <4>3. PICK k \in 1 .. l : k > j /\ stage_metrics[k].stage_id = s
        BY <2>2, <4>2
      <4>4. k <= i
        BY <3>2, <4>3
      <4> QED BY <2>2, <3>2, <3>3, <4>3, <4>4
    <3>6. j < i
      BY <2>2, <3>2, <3>3, <3>4, <3>5
    <3> QED BY <2>1, <3>6 DEF f, i, j
  <2> QED BY <2>7, <2>8, <2>9, <2>10 DEF MetricsTellTheRuns
<1> QED BY <1>1, Inductive, MetricsInductive, PTL

-----------------------------------------------------------------------------
(* Every query runs down.                                                  *)

\* A stage's call is open with all its tasks built, and only a call that waits
\* for another has a task that waits.
CallsBuilt ==
  \A i \in DOMAIN stack : \A p \in Parts(stack[i].stage) :
    /\ tasks[stack[i].stage][p].state # "none"
    /\ i = Len(stack) => tasks[stack[i].stage][p].state # "recovering"

\* The files on disk are finitely many and no task has more attempts than it
\* may.
EndInv ==
  /\ IsFiniteSet(files)
  /\ \A s \in Stages : \A p \in Parts(s) : tasks[s][p].attempt <= MaxRetries
  /\ CallsBuilt

\* A task writes finitely many files.
LEMMA BlocksFinite ==
  ASSUME NEW s \in Stages, NEW p \in Parts(s), NEW id
  PROVE  IsFiniteSet(BlocksOf(s, p, id))
<1> DEFINE E == Emits[s][p]
           B == BlocksOf(s, p, id)
           f == [t \in E |-> [stage |-> s, part |-> p, task |-> id, target |-> t]]
<1>1. IsFiniteSet(E)
  BY PlanFacts
<1>2. B = {f[t] : t \in E} /\ \A t \in E : f[t] \in B
  BY DEF BlocksOf
<1>3. f \in [E -> B]
  BY <1>2
<1> HIDE DEF E, B, f
<1>4. f \in Surjection(E, B)
  BY <1>2, <1>3 DEF Surjection
<1> QED BY <1>1, <1>4, FS_Surjection DEF B

\* A task that has just been built has all its retries and is pending.
LEMMA FreshTask ==
  ASSUME NEW s \in Stages, NEW p \in Parts(s)
  PROVE  FreshTasks(s)[p].attempt = 0 /\ FreshTasks(s)[p].state = "pending"
BY DEF FreshTasks

\* No step leaves an open call without its tasks.
LEMMA FrameKept ==
  ASSUME IInv, EndInv, stack # <<>>, UNCHANGED stack,
         \A s \in Stages : \A p \in Parts(s) :
            /\ tasks[s][p].state # "none" => tasks'[s][p].state # "none"
            /\ tasks'[s][p].state = "recovering" => tasks[s][p].state = "recovering"
  PROVE  CallsBuilt'
<1>1. \A i \in DOMAIN stack : stack[i].stage \in Stages
  BY StagesAreNumbers DEF IInv
<1> QED BY <1>1 DEF EndInv, CallsBuilt, Parts

\* It holds at first,
LEMMA EndInit == Init => EndInv
<1> SUFFICES ASSUME Init PROVE EndInv
  OBVIOUS
<1>1. files = {} /\ stack = <<>>
      /\ \A s \in Stages : \A p \in Parts(s) : tasks[s][p].attempt = 0
  BY DEF Init
<1> QED BY <1>1, BoundAssumption, FS_EmptySet DEF EndInv, CallsBuilt

\* and every step keeps it: the files,
LEMMA FilesStayFinite ==
  ASSUME IInv, EndInv, [Next]_vars
  PROVE  IsFiniteSet(files')
<1>1. IsFiniteSet(files)
  BY DEF EndInv
<1>2. ASSUME NEW p, NEW new, RanTask(p, new)
      PROVE  IsFiniteSet(files')
  <2> DEFINE B == BlocksOf(Active, p, tasks[Active][p].id)
  <2>1. Active \in Stages /\ p \in Parts(Active)
    BY <1>2, ActiveFrame DEF RanTask, IInv
  <2>2. IsFiniteSet(B)
    BY <2>1, BlocksFinite
  <2>3. files' \subseteq files \union B
    BY <1>2 DEF RanTask
  <2> HIDE DEF B
  <2>4. IsFiniteSet(files \union B)
    BY <1>1, <2>2, FS_Union
  <2> QED BY <2>3, <2>4, FS_Subset
<1>3. CASE Lost
  <2>1. files' \subseteq files
    BY <1>3 DEF Lost
  <2> QED BY <1>1, <2>1, FS_Subset
<1>4. CASE Ended
  BY <1>4, FS_EmptySet DEF Ended
<1>5. CASE UNCHANGED files
  BY <1>1, <1>5
<1> QED BY <1>2, <1>3, <1>4, <1>5, Effects
        DEF JudgedTask, BeganRecovery, MadeBatch, Returned, LeftStage, Started, vars

\* the attempts,
LEMMA AttemptsStayBounded ==
  ASSUME IInv, EndInv, [Next]_vars
  PROVE  \A s \in Stages : \A p \in Parts(s) : tasks'[s][p].attempt <= MaxRetries
<1> SUFFICES ASSUME NEW s \in Stages, NEW p \in Parts(s)
             PROVE  tasks'[s][p].attempt <= MaxRetries
  OBVIOUS
<1> DEFINE old == tasks[s][p]
<1>1. /\ old \in Task /\ old.attempt \in Nat /\ old.attempt <= MaxRetries
      /\ MaxRetries \in Nat
  BY BoundAssumption DEF IInv, TypeOK, EndInv, Task
<1>2. CASE tasks'[s][p] = old
  BY <1>1, <1>2
<1>3. ASSUME NEW q, NEW new, RanTask(q, new)
      PROVE  tasks'[s][p].attempt <= MaxRetries
  BY <1>1, <1>3 DEF RanTask
<1>4. ASSUME NEW q, NEW new, JudgedTask(q, new)
      PROVE  tasks'[s][p].attempt <= MaxRetries
  <2>1. CASE s = Active /\ p = q
    <3>1. tasks'[s][p] = new
      BY <1>4, <2>1 DEF JudgedTask
    <3>2. new.attempt = old.attempt \/ (new.attempt = old.attempt + 1 /\ old.attempt < MaxRetries)
      BY <1>4, <2>1 DEF JudgedTask
    <3> QED BY <1>1, <3>1, <3>2
  <2>2. CASE ~ (s = Active /\ p = q)
    BY <1>1, <1>4, <2>2 DEF JudgedTask
  <2> QED BY <2>1, <2>2
<1>5. ASSUME NEW q, NEW m, BeganRecovery(q, m)
      PROVE  tasks'[s][p].attempt <= MaxRetries
  <2>1. CASE s = m
    BY <1>1, <1>5, <2>1, FreshTask DEF BeganRecovery
  <2>2. CASE s # m
    <3>1. tasks'[s][p] = old \/ tasks'[s][p] = [old EXCEPT !.state = "recovering"]
      BY <1>5, <2>2 DEF BeganRecovery
    <3> QED BY <1>1, <3>1 DEF Task
  <2> QED BY <2>1, <2>2
<1>6. CASE MadeBatch
  <2>1. tasks'[s][p] = old \/ tasks'[s][p] = [old EXCEPT !.state = "pending"]
    BY <1>6 DEF MadeBatch
  <2> QED BY <1>1, <2>1 DEF Task
<1>7. ASSUME NEW caller, Returned(caller)
      PROVE  tasks'[s][p].attempt <= MaxRetries
  <2>1. caller \in Stages /\ Resumed(caller) /\ TypeOK
    BY <1>7 DEF Returned, IInv
  <2>2. tasks'[s][p].attempt = old.attempt
    BY <2>1, ResumedTask
  <2> QED BY <1>1, <2>2
<1>8. CASE Started
  <2>1. CASE s = cursor
    BY <1>1, <1>8, <2>1, FreshTask DEF Started
  <2>2. CASE s # cursor
    BY <1>1, <1>8, <2>2 DEF Started
  <2> QED BY <2>1, <2>2
<1>9. CASE UNCHANGED tasks
  BY <1>2, <1>9
<1> QED BY <1>3, <1>4, <1>5, <1>6, <1>7, <1>8, <1>9, Effects DEF LeftStage, Ended, Lost, vars

\* and the open calls.
LEMMA CallsStayBuilt ==
  ASSUME IInv, EndInv, [Next]_vars
  PROVE  CallsBuilt'
<1>1. TypeOK /\ StackInv /\ \A i \in DOMAIN stack : stack[i].stage \in Stages
  BY StagesAreNumbers DEF IInv
<1>2. \A i \in DOMAIN stack : \A p \in Parts(stack[i].stage) :
         tasks[stack[i].stage][p] \in Task
  BY <1>1 DEF TypeOK
<1>3. ASSUME NEW p, NEW new, RanTask(p, new) PROVE CallsBuilt'
  <2>1. new.state # "none" /\ new.state # "recovering" /\ stack # <<>> /\ UNCHANGED stack
    BY <1>3 DEF RanTask
  <2>2. \A r \in Stages : \A q \in Parts(r) : tasks'[r][q] = new \/ tasks'[r][q] = tasks[r][q]
    BY <1>3 DEF RanTask
  <2> QED BY <2>1, <2>2, FrameKept
<1>4. ASSUME NEW p, NEW new, JudgedTask(p, new) PROVE CallsBuilt'
  <2>1. new.state # "none" /\ new.state # "recovering" /\ stack # <<>> /\ UNCHANGED stack
    BY <1>4 DEF JudgedTask
  <2>2. \A r \in Stages : \A q \in Parts(r) : tasks'[r][q] = new \/ tasks'[r][q] = tasks[r][q]
    BY <1>4 DEF JudgedTask
  <2> QED BY <2>1, <2>2, FrameKept
<1>5. CASE MadeBatch
  <2>1. stack # <<>> /\ UNCHANGED stack
    BY <1>5 DEF MadeBatch
  <2>2. \A r \in Stages : \A q \in Parts(r) :
           tasks'[r][q].state = "pending" \/ tasks'[r][q] = tasks[r][q]
    <3> SUFFICES ASSUME NEW r \in Stages, NEW q \in Parts(r)
                 PROVE  tasks'[r][q].state = "pending" \/ tasks'[r][q] = tasks[r][q]
      OBVIOUS
    <3>1. tasks[r][q] \in Task
      BY <1>1 DEF TypeOK
    <3> QED BY <1>5, <3>1 DEF MadeBatch, Task
  <2> QED BY <2>1, <2>2, FrameKept
<1>6. ASSUME NEW s \in Stages, NEW r \in BOOLEAN, EnterStage(s, r), s \notin Open,
             \A p \in Parts(s) : tasks'[s][p] = FreshTasks(s)[p],
             \A i \in DOMAIN stack : \A p \in Parts(stack[i].stage) :
                tasks'[stack[i].stage][p].state # "none"
      PROVE  CallsBuilt'
  <2> DEFINE n == Len(stack)
  <2>1. /\ n \in Nat /\ DOMAIN stack = 1 .. n /\ DOMAIN stack' = 1 .. n + 1
        /\ \A i \in 1 .. n : stack'[i] = stack[i]
        /\ stack'[n + 1] = [stage |-> s, recomputed |-> r]
    BY <1>1, <1>6, PushedFrames
  <2>2. Len(stack') = n + 1
    BY <1>1, <1>6 DEF EnterStage, TypeOK
  <2> HIDE DEF n
  <2>3. \A p \in Parts(s) : tasks'[s][p].state = "pending"
    BY <1>6, FreshTask
  <2>4. \A i \in 1 .. n + 1 : i = n + 1 \/ (i \in 1 .. n /\ i # n + 1)
    BY <2>1
  <2>5. ASSUME NEW i \in 1 .. n + 1, NEW p \in Parts(stack'[i].stage)
        PROVE  /\ tasks'[stack'[i].stage][p].state # "none"
               /\ i = n + 1 => tasks'[stack'[i].stage][p].state # "recovering"
    <3>1. CASE i = n + 1
      BY <2>1, <2>3, <2>5, <3>1
    <3>2. CASE i \in 1 .. n /\ i # n + 1
      BY <1>6, <2>1, <2>5, <3>2
    <3> QED BY <2>4, <3>1, <3>2
  <2> QED BY <2>1, <2>2, <2>5 DEF CallsBuilt, Parts
<1>7. ASSUME NEW p, NEW m, BeganRecovery(p, m) PROVE CallsBuilt'
  <2>1. m \in Stages /\ m < Active /\ stack # <<>> /\ EnterStage(m, TRUE)
    BY <1>7 DEF BeganRecovery
  <2>2. m \notin Open
    BY <1>1, <2>1, EntersClosed
  <2>3. \A q \in Parts(m) : tasks'[m][q] = FreshTasks(m)[q]
    BY <1>7, <2>1 DEF BeganRecovery
  <2>4. ASSUME NEW i \in DOMAIN stack, NEW q \in Parts(stack[i].stage)
        PROVE  tasks'[stack[i].stage][q].state # "none"
    <3> DEFINE r == stack[i].stage
    <3>1. r \in Stages /\ r # m /\ tasks[r][q] \in Task /\ tasks[r][q].state # "none"
      BY <1>1, <1>2, <2>2 DEF Open, EndInv, CallsBuilt
    <3> HIDE DEF r
    <3>2. q \in Parts(r)
      BY <2>4 DEF r
    <3>3. tasks'[r][q] = tasks[r][q] \/ tasks'[r][q] = [tasks[r][q] EXCEPT !.state = "recovering"]
      BY <1>7, <3>1, <3>2 DEF BeganRecovery
    <3>4. tasks'[r][q].state # "none"
      BY <3>1, <3>3 DEF Task
    <3> QED BY <3>4 DEF r
  <2> QED BY <1>6, <2>1, <2>2, <2>3, <2>4
<1>8. CASE Started
  <2>1. cursor \in Stages /\ stack = <<>> /\ EnterStage(cursor, FALSE)
    BY <1>8 DEF Started
  <2>2. cursor \notin Open
    BY <2>1 DEF Open
  <2>3. \A q \in Parts(cursor) : tasks'[cursor][q] = FreshTasks(cursor)[q]
    BY <1>8, <2>1 DEF Started
  <2>4. DOMAIN stack = {}
    BY <2>1
  <2> QED BY <1>6, <2>1, <2>2, <2>3, <2>4
<1>9. CASE Ended
  <2>1. DOMAIN stack' = {}
    BY <1>9 DEF Ended
  <2> QED BY <2>1 DEF CallsBuilt
<1>10. CASE FinishStage /\ LeftStage
  <2>1. stack # <<>> /\ Len(stack) = 1 /\ stack' = Front(stack)
    BY <1>10 DEF FinishStage, LeftStage
  <2>2. Front(stack) \in Seq(Frame) /\ Len(Front(stack)) = 0
    BY <1>1, <2>1, PoppedFrames
  <2>3. DOMAIN stack' = {}
    BY <2>1, <2>2
  <2> QED BY <2>3 DEF CallsBuilt
<1>11. ASSUME NEW caller, Returned(caller), FinishStage PROVE CallsBuilt'
  <2> DEFINE n == Len(stack)
  <2>1. n > 1 /\ caller = stack[n - 1].stage /\ caller \in Stages /\ Resumed(caller)
    BY <1>11 DEF Returned
  <2>2. stack # <<>> /\ stack' = Front(stack)
    BY <1>11 DEF FinishStage
  <2>3. /\ n \in Nat /\ DOMAIN stack = 1 .. n /\ Len(stack') = n - 1
        /\ DOMAIN stack' = 1 .. n - 1 /\ \A i \in 1 .. n - 1 : stack'[i] = stack[i]
    BY <1>1, <2>2, PoppedFrames DEF TypeOK
  <2> HIDE DEF n
  <2>4. ASSUME NEW i \in 1 .. n - 1, NEW p \in Parts(stack[i].stage)
        PROVE  /\ tasks'[stack[i].stage][p].state # "none"
               /\ i = n - 1 => tasks'[stack[i].stage][p].state # "recovering"
    <3> DEFINE r == stack[i].stage
    <3>1. i \in DOMAIN stack
      BY <2>3
    <3>2. r \in Stages /\ tasks[r][p].state # "none" /\ p \in Parts(r)
      BY <1>1, <2>4, <3>1 DEF EndInv, CallsBuilt
    <3>3. i = n - 1 => r = caller
      BY <2>1
    <3> HIDE DEF r
    <3>4. tasks'[r][p].state = IF r = caller /\ tasks[r][p].state = "recovering"
                                 THEN "again" ELSE tasks[r][p].state
      BY <1>1, <2>1, <3>2, ResumedTask
    <3>5. tasks'[r][p].state # "none" /\ (r = caller => tasks'[r][p].state # "recovering")
      BY <3>2, <3>4
    <3> QED BY <3>3, <3>5 DEF r
  <2> QED BY <2>3, <2>4 DEF CallsBuilt, Parts
<1>12. CASE UNCHANGED <<stack, tasks>>
  BY <1>12 DEF EndInv, CallsBuilt, Parts
<1>13. CASE (\E p, new : RanTask(p, new)) \/ (\E p, new : JudgedTask(p, new))
  BY <1>3, <1>4, <1>13
<1>14. CASE \E p, m : BeganRecovery(p, m)
  BY <1>7, <1>14
<1>15. CASE FinishStage /\ ((\E caller : Returned(caller)) \/ LeftStage)
  BY <1>10, <1>11, <1>15
<1>16. CASE Lost \/ UNCHANGED vars
  BY <1>12, <1>16 DEF Lost, vars
<1> QED BY <1>5, <1>8, <1>9, <1>13, <1>14, <1>15, <1>16, Effects

\* So it is an invariant.
LEMMA EndNext == IInv /\ EndInv /\ [Next]_vars => EndInv'
BY FilesStayFinite, AttemptsStayBounded, CallsStayBuilt DEF EndInv

\* The parts of Remaining are numbers.
RemainingInv == Remaining \in Seq(Nat) /\ Len(Remaining) = 6

\* An attempt takes steps, and a retry uses up an attempt.
LEMMA LeftFalls ==
  ASSUME NEW n \in Nat, n <= MaxRetries
  PROVE  /\ Left(n, "success") < Left(n, "pending") /\ Left(n, "failed") < Left(n, "pending")
         /\ Left(n, "done") < Left(n, "success")
         /\ Left(n, "exhausted") < Left(n, "failed")
         /\ n < MaxRetries => Left(n + 1, "again") < Left(n, "failed")
         /\ Left(n, "pending") < Left(n, "again")
         /\ \A state : Left(n, state) \in Nat
<1> DEFINE r == MaxRetries - n
<1>1. MaxRetries \in Nat /\ r \in Nat /\ (n < MaxRetries => MaxRetries - (n + 1) = r - 1)
  BY BoundAssumption
<1>2. \A state : Left(n, state) = 3 * r + CASE state = "again" -> 3
                                            [] state = "pending" -> 2
                                            [] state \in {"success", "failed"} -> 1
                                            [] OTHER -> 0
  BY DEF Left
<1>3. n < MaxRetries => Left(n + 1, "again") = 3 * (r - 1) + 3
  BY <1>1 DEF Left
<1> HIDE DEF r
<1> QED BY <1>1, <1>2, <1>3

\* What a task has left: not less than nothing.
LEMMA StepsLeftNat ==
  IInv /\ EndInv => \A s \in Stages : \A p \in Parts(s) : StepsLeft(s)[p] \in Nat
<1> SUFFICES ASSUME IInv, EndInv, NEW s \in Stages, NEW p \in Parts(s)
             PROVE  StepsLeft(s)[p] \in Nat
  OBVIOUS
<1>1. tasks[s][p].attempt \in Nat /\ tasks[s][p].attempt <= MaxRetries
  BY DEF IInv, TypeOK, EndInv, Task
<1> QED BY <1>1, LeftFalls DEF StepsLeft

\* The sum is that of DataTheorems.
LEMMA SumIsTotalOf == \A w, S : SumOver(w, S) = Total(w, S)
BY DEF SumOver, Total

LEMMA RemainingType == IInv /\ EndInv => RemainingInv
<1> SUFFICES ASSUME IInv, EndInv PROVE RemainingInv
  OBVIOUS
<1>1. Cardinality(Stages \ recomputed_stages) \in Nat
  <2>1. IsFiniteSet(Stages)
    BY PlanFacts, FS_Interval DEF Stages
  <2> QED BY <2>1, FS_Subset, FS_CardinalityType
<1>2. NumStages - cursor \in Nat
  BY PlanFacts DEF IInv, TypeOK
<1>3. (IF stack = <<>> THEN 2 ELSE Len(stack)) \in Nat
  BY DEF IInv, TypeOK
<1>4. (IF stack = <<>> THEN 0 ELSE SumOver(StepsLeft(Active), Parts(Active))) \in Nat
  <2>1. CASE stack # <<>>
    <3> DEFINE w == StepsLeft(Active)
    <3>1. IsFiniteSet(Parts(Active)) /\ \A p \in Parts(Active) : w[p] \in Nat
      BY <2>1, ActiveFrame, PartsFinite, StepsLeftNat DEF IInv
    <3>2. \A p \in Parts(Active) : w[p] <= w[p]
      BY <3>1
    <3>3. Total(w, Parts(Active)) \in Nat
      <4> HIDE DEF w
      <4> QED BY <3>1, <3>2, TotalGrows
    <3> QED BY <2>1, <3>3, SumIsTotalOf
  <2> QED BY <2>1
<1>5. Cardinality(files) \in Nat
  BY FS_CardinalityType DEF EndInv
<1> QED BY <1>1, <1>2, <1>3, <1>4, <1>5 DEF RemainingInv, Remaining

\* Two tuples of six numbers, the first of which differ, or else the second...
LEMMA LessTuple ==
  ASSUME NEW a \in Seq(Nat), Len(a) = 6, NEW b \in Seq(Nat), Len(b) = 6,
         \/ a[1] < b[1]
         \/ a[1] = b[1] /\ a[2] < b[2]
         \/ a[1] = b[1] /\ a[2] = b[2] /\ a[3] < b[3]
         \/ a[1] = b[1] /\ a[2] = b[2] /\ a[3] = b[3] /\ a[4] < b[4]
         \/ a[1] = b[1] /\ a[2] = b[2] /\ a[3] = b[3] /\ a[4] = b[4] /\ a[5] < b[5]
         \/ /\ a[1] = b[1] /\ a[2] = b[2] /\ a[3] = b[3] /\ a[4] = b[4] /\ a[5] = b[5]
            /\ a[6] < b[6]
  PROVE  Less(a, b)
<1>1. a \in Seq(Nat) /\ DOMAIN a = 1 .. 6
  OBVIOUS
<1>2. \E i \in 1 .. 6 : a[i] < b[i] /\ \A j \in 1 .. i - 1 : a[j] = b[j]
  <2>1. ASSUME NEW i \in 1 .. 6, a[i] < b[i], \A j \in 1 .. 6 : j < i => a[j] = b[j]
        PROVE  \E k \in 1 .. 6 : a[k] < b[k] /\ \A j \in 1 .. k - 1 : a[j] = b[j]
    <3>1. \A j \in 1 .. i - 1 : j \in 1 .. 6 /\ j < i
      OBVIOUS
    <3> QED BY <2>1, <3>1
  <2>2. \A j \in 1 .. 6 : j = 1 \/ j = 2 \/ j = 3 \/ j = 4 \/ j = 5 \/ j = 6
    OBVIOUS
  <2>3. \E i \in 1 .. 6 : a[i] < b[i] /\ \A j \in 1 .. 6 : j < i => a[j] = b[j]
    <3>1. CASE a[1] < b[1]
      BY <2>2, <3>1
    <3>2. CASE a[1] = b[1] /\ a[2] < b[2]
      BY <2>2, <3>2
    <3>3. CASE a[1] = b[1] /\ a[2] = b[2] /\ a[3] < b[3]
      BY <2>2, <3>3
    <3>4. CASE a[1] = b[1] /\ a[2] = b[2] /\ a[3] = b[3] /\ a[4] < b[4]
      BY <2>2, <3>4
    <3>5. CASE a[1] = b[1] /\ a[2] = b[2] /\ a[3] = b[3] /\ a[4] = b[4] /\ a[5] < b[5]
      BY <2>2, <3>5
    <3>6. CASE /\ a[1] = b[1] /\ a[2] = b[2] /\ a[3] = b[3] /\ a[4] = b[4] /\ a[5] = b[5]
               /\ a[6] < b[6]
      BY <2>2, <3>6
    <3> QED BY <3>1, <3>2, <3>3, <3>4, <3>5, <3>6
  <2> QED BY <2>1, <2>3
<1> QED BY <1>1, <1>2 DEF Less

\* The parts before and after a step, one by one.
LEMMA RemainingParts ==
  /\ Remaining[1] = (IF outcome = "running" THEN 1 ELSE 0)
  /\ Remaining[2] = Cardinality(Stages \ recomputed_stages)
  /\ Remaining[3] = NumStages - cursor
  /\ Remaining[4] = (IF stack = <<>> THEN 2 ELSE Len(stack))
  /\ Remaining[6] = Cardinality(files)
  /\ Remaining'[1] = (IF outcome' = "running" THEN 1 ELSE 0)
  /\ Remaining'[2] = Cardinality(Stages \ recomputed_stages')
  /\ Remaining'[3] = NumStages - cursor'
  /\ Remaining'[4] = (IF stack' = <<>> THEN 2 ELSE Len(stack'))
  /\ Remaining'[6] = Cardinality(files')
BY DEF Remaining, Stages

\* Which of them has to be smaller.
LEMMA LessRemaining ==
  ASSUME RemainingInv, RemainingInv',
         \/ Remaining'[1] < Remaining[1]
         \/ /\ Remaining'[1] = Remaining[1]
            /\ \/ Remaining'[2] < Remaining[2]
               \/ /\ Remaining'[2] = Remaining[2]
                  /\ \/ Remaining'[3] < Remaining[3]
                     \/ /\ Remaining'[3] = Remaining[3]
                        /\ \/ Remaining'[4] < Remaining[4]
                           \/ /\ Remaining'[4] = Remaining[4]
                              /\ \/ Remaining'[5] < Remaining[5]
                                 \/ Remaining'[5] = Remaining[5] /\ Remaining'[6] < Remaining[6]
  PROVE  Less(Remaining', Remaining)
<1> DEFINE a == Remaining'
           b == Remaining
<1>1. a \in Seq(Nat) /\ Len(a) = 6 /\ b \in Seq(Nat) /\ Len(b) = 6
  BY DEF RemainingInv
<1>2. \/ a[1] < b[1]
      \/ a[1] = b[1] /\ a[2] < b[2]
      \/ a[1] = b[1] /\ a[2] = b[2] /\ a[3] < b[3]
      \/ a[1] = b[1] /\ a[2] = b[2] /\ a[3] = b[3] /\ a[4] < b[4]
      \/ a[1] = b[1] /\ a[2] = b[2] /\ a[3] = b[3] /\ a[4] = b[4] /\ a[5] < b[5]
      \/ /\ a[1] = b[1] /\ a[2] = b[2] /\ a[3] = b[3] /\ a[4] = b[4] /\ a[5] = b[5]
         /\ a[6] < b[6]
  OBVIOUS
<1> HIDE DEF a, b
<1>3. Less(a, b)
  BY <1>1, <1>2, LessTuple
<1> QED BY <1>3 DEF a, b

\* What the tasks of the active stage have left, after a step that leaves the
\* stack alone, is told by their new attempts and states.
LEMMA ActiveSteps ==
  ASSUME UNCHANGED stack
  PROVE  \A p \in Parts(Active) :
            /\ StepsLeft(Active)[p] = Left(tasks[Active][p].attempt, tasks[Active][p].state)
            /\ StepsLeft(Active)'[p] = Left(tasks'[Active][p].attempt, tasks'[Active][p].state)
<1>1. Active' = Active /\ Parts(Active)' = Parts(Active)
  BY DEF Active, Parts
<1>2. StepsLeft(Active)' = [p \in Parts(Active)' |->
                              Left(tasks'[Active'][p].attempt, tasks'[Active'][p].state)]
  BY DEF StepsLeft, Left
<1> QED BY <1>1, <1>2 DEF StepsLeft

\* A step of the active stage's tasks in which one has less left and none more.
LEMMA TasksRunDown ==
  ASSUME IInv, EndInv, IInv', EndInv', RemainingInv, RemainingInv', stack # <<>>,
         UNCHANGED <<cursor, stack, recomputed_stages, outcome>>,
         \A p \in Parts(Active) : StepsLeft(Active)'[p] <= StepsLeft(Active)[p],
         NEW y \in Parts(Active), StepsLeft(Active)'[y] < StepsLeft(Active)[y]
  PROVE  Less(Remaining', Remaining)
<1> DEFINE v == StepsLeft(Active)'
           w == StepsLeft(Active)
<1>1. Active \in Stages /\ Active' = Active /\ Parts(Active)' = Parts(Active) /\ stack' # <<>>
  BY ActiveFrame DEF IInv, Active, Parts
<1>2. IsFiniteSet(Parts(Active))
  BY <1>1, PartsFinite
<1>3. \A p \in Parts(Active) : w[p] \in Nat
  BY <1>1, StepsLeftNat
<1>4. \A p \in Parts(Active) : v[p] \in Nat
  <2>1. (IInv /\ EndInv => \A s \in Stages : \A p \in Parts(s) : StepsLeft(s)[p] \in Nat)'
    BY StepsLeftNat, PTL
  <2> QED BY <1>1, <2>1 DEF Stages, Parts
<1> DEFINE S == Parts(Active)
<1>5. /\ \A x \in S : v[x] \in Nat /\ w[x] \in Nat /\ v[x] <= w[x]
      /\ y \in S /\ v[y] < w[y] /\ IsFiniteSet(S)
  BY <1>2, <1>3, <1>4
<1>6. Remaining[5] = Total(w, S) /\ Remaining'[5] = Total(v, S)
  <2>1. Remaining'[5] = SumOver(StepsLeft(Active)', Parts(Active)')
    BY <1>1 DEF Remaining
  <2>2. Remaining'[5] = SumOver(v, Parts(Active))
    BY <1>1, <2>1
  <2> QED BY <2>2, SumIsTotalOf DEF Remaining
<1>7. /\ Remaining'[1] = Remaining[1] /\ Remaining'[2] = Remaining[2]
      /\ Remaining'[3] = Remaining[3] /\ Remaining'[4] = Remaining[4]
      /\ Remaining'[5] < Remaining[5]
  <2> HIDE DEF v, w, S
  <2>1. Total(v, S) < Total(w, S)
    BY <1>5, TotalShrinks
  <2> QED BY <1>6, <2>1, RemainingParts
<1> QED BY <1>7, LessRemaining

\* The steps of the active stage's tasks are such steps: one runs, or its
\* result is judged,
LEMMA TaskRunsDown ==
  ASSUME IInv, EndInv, IInv', EndInv', RemainingInv, RemainingInv',
         NEW p, NEW new, RanTask(p, new) \/ JudgedTask(p, new)
  PROVE  Less(Remaining', Remaining)
<1> DEFINE old == tasks[Active][p]
<1>1. /\ stack # <<>> /\ p \in Parts(Active)
      /\ UNCHANGED <<cursor, stack, recomputed_stages, outcome>>
      /\ \A r \in Stages : \A q \in Parts(r) :
            tasks'[r][q] = IF r = Active /\ q = p THEN new ELSE tasks[r][q]
      /\ \/ /\ new.attempt = old.attempt
            /\ \/ old.state = "pending" /\ new.state \in {"success", "failed"}
               \/ old.state = "success" /\ new.state = "done"
               \/ old.state = "failed" /\ new.state = "exhausted"
         \/ /\ new.attempt = old.attempt + 1 /\ old.attempt < MaxRetries
            /\ old.state = "failed" /\ new.state = "again"
  BY DEF RanTask, JudgedTask
<1>2. Active \in Stages
  BY <1>1, ActiveFrame DEF IInv
<1>3. /\ old.attempt \in Nat /\ old.attempt <= MaxRetries
      /\ \A q \in Parts(Active) : StepsLeft(Active)[q] \in Nat
  BY <1>1, <1>2, StepsLeftNat DEF IInv, TypeOK, EndInv, Task
<1>4. /\ StepsLeft(Active)[p] = Left(old.attempt, old.state)
      /\ StepsLeft(Active)'[p] = Left(new.attempt, new.state)
  BY <1>1, <1>2, ActiveSteps
<1>5. Left(new.attempt, new.state) < Left(old.attempt, old.state)
  <2> HIDE DEF old
  <2> QED BY <1>1, <1>3, LeftFalls
<1>6. \A q \in Parts(Active) : q # p => StepsLeft(Active)'[q] = StepsLeft(Active)[q]
  BY <1>1, <1>2, ActiveSteps
<1>7. \A q \in Parts(Active) : StepsLeft(Active)'[q] <= StepsLeft(Active)[q]
  <2>1. Left(new.attempt, new.state) <= Left(old.attempt, old.state)
    <3>1. /\ new.attempt \in Nat /\ new.attempt <= MaxRetries
          /\ old.attempt \in Nat /\ old.attempt <= MaxRetries
      <4> HIDE DEF old
      <4> QED BY <1>1, <1>3, BoundAssumption
    <3>2. Left(old.attempt, old.state) \in Nat /\ Left(new.attempt, new.state) \in Nat
      BY <3>1, LeftFalls
    <3> QED BY <1>5, <3>2
  <2> QED BY <1>3, <1>4, <1>6, <2>1
<1> QED BY <1>1, <1>4, <1>5, <1>7, TasksRunDown

\* or the ones to run again become the next batch.
LEMMA BatchRunsDown ==
  ASSUME IInv, EndInv, IInv', EndInv', RemainingInv, RemainingInv', MadeBatch
  PROVE  Less(Remaining', Remaining)
<1>1. stack # <<>> /\ UNCHANGED <<cursor, stack, recomputed_stages, outcome>>
  BY DEF MadeBatch
<1>2. Active \in Stages
  BY <1>1, ActiveFrame DEF IInv
<1>3. ASSUME NEW q \in Parts(Active)
      PROVE  /\ StepsLeft(Active)'[q] <= StepsLeft(Active)[q]
             /\ tasks[Active][q].state = "again" =>
                  StepsLeft(Active)'[q] < StepsLeft(Active)[q]
  <2> DEFINE old == tasks[Active][q]
             new == tasks'[Active][q]
  <2>1. /\ old \in Task /\ old.attempt \in Nat /\ old.attempt <= MaxRetries
    BY <1>2, <1>3 DEF IInv, TypeOK, EndInv, Task
  <2>2. new = IF old.state = "again" THEN [old EXCEPT !.state = "pending"] ELSE old
    BY <1>2, <1>3 DEF MadeBatch
  <2>3. /\ StepsLeft(Active)[q] = Left(old.attempt, old.state)
        /\ StepsLeft(Active)'[q] = Left(new.attempt, new.state)
    BY <1>1, <1>3, ActiveSteps
  <2> HIDE DEF old, new
  <2>4. /\ new.attempt = old.attempt
        /\ new.state = IF old.state = "again" THEN "pending" ELSE old.state
    BY <2>1, <2>2 DEF Task
  <2>5. Left(old.attempt, "pending") < Left(old.attempt, "again")
        /\ \A state : Left(old.attempt, state) \in Nat
    BY <2>1, LeftFalls
  <2>6. CASE old.state = "again"
    BY <2>3, <2>4, <2>5, <2>6
  <2>7. CASE old.state # "again"
    BY <2>3, <2>4, <2>5, <2>7 DEF old
  <2> QED BY <2>6, <2>7 DEF old
<1>4. PICK y \in Parts(Active) : tasks[Active][y].state = "again"
  BY DEF MadeBatch
<1> QED BY <1>1, <1>3, <1>4, TasksRunDown

\* Every step that changes anything leaves less.
LEMMA StepRunsDown ==
  ASSUME IInv, EndInv, RunningInv, IInv', EndInv', RemainingInv, RemainingInv',
         [Next]_vars, vars' # vars
  PROVE  Less(Remaining', Remaining)
<1>1. TypeOK /\ StackInv
  BY DEF IInv
<1>2. CASE \E p, new : RanTask(p, new) \/ JudgedTask(p, new)
  BY <1>2, TaskRunsDown
<1>3. CASE MadeBatch
  BY <1>3, BatchRunsDown
<1>4. ASSUME NEW p, NEW m, BeganRecovery(p, m) PROVE Less(Remaining', Remaining)
  <2>1. /\ m \in Stages \ recomputed_stages /\ UNCHANGED outcome
        /\ recomputed_stages' = recomputed_stages \union {m}
    BY <1>4 DEF BeganRecovery
  <2> DEFINE S == Stages \ recomputed_stages
  <2>2. IsFiniteSet(S)
    <3>1. IsFiniteSet(Stages)
      BY PlanFacts, FS_Interval DEF Stages
    <3> QED BY <3>1, FS_Subset
  <2>3. Stages \ recomputed_stages' = S \ {m} /\ m \in S
    BY <2>1
  <2> HIDE DEF S
  <2>4. Cardinality(S \ {m}) < Cardinality(S)
    BY <2>2, <2>3, RemoveOne
  <2>5. Remaining'[1] = Remaining[1]
    BY <2>1, RemainingParts
  <2>6. Remaining[2] = Cardinality(S) /\ Remaining'[2] = Cardinality(S \ {m})
    BY <2>3, RemainingParts DEF S
  <2> QED BY <2>4, <2>5, <2>6, LessRemaining
<1>5. CASE FinishStage /\ \E caller : Returned(caller)
  <2>1. /\ Len(stack) > 1 /\ stack # <<>> /\ stack' = Front(stack)
        /\ UNCHANGED <<cursor, recomputed_stages, outcome>>
    <3>1. Len(stack) > 1 /\ UNCHANGED <<cursor, recomputed_stages, outcome>>
      BY <1>5 DEF Returned
    <3>2. stack # <<>> /\ stack' = Front(stack)
      BY <1>5 DEF FinishStage
    <3> QED BY <3>1, <3>2
  <2>2. Len(stack') = Len(stack) - 1 /\ Len(stack) \in Nat
    BY <1>1, <2>1, PoppedFrames DEF TypeOK
  <2>3. stack' # <<>>
    BY <2>1, <2>2
  <2> QED BY <2>1, <2>2, <2>3, LessRemaining, RemainingParts
<1>6. CASE FinishStage /\ LeftStage
  <2>1. cursor' = cursor + 1 /\ UNCHANGED <<recomputed_stages, outcome>>
    BY <1>6 DEF LeftStage
  <2>2. cursor \in Int /\ NumStages \in Int
    BY <1>1, PlanFacts DEF TypeOK
  <2> QED BY <2>1, <2>2, LessRemaining, RemainingParts
<1>7. CASE Started
  <2>1. /\ cursor \in Stages /\ stack = <<>> /\ EnterStage(cursor, FALSE)
        /\ UNCHANGED <<cursor, recomputed_stages, outcome>>
    BY <1>7 DEF Started
  <2>2. stack' # <<>> /\ Len(stack') = 1
    BY <2>1 DEF EnterStage
  <2> QED BY <2>1, <2>2, LessRemaining, RemainingParts
<1>8. CASE Ended
  <2>1. outcome = "running" /\ outcome' # "running"
    BY <1>8 DEF Ended, RunningInv
  <2> QED BY <2>1, LessRemaining, RemainingParts
<1>9. CASE Lost
  <2>1. /\ UNCHANGED <<cursor, stack, tasks, recomputed_stages, outcome>>
        /\ \E b \in files : files' = files \ {b}
    BY <1>9 DEF Lost
  <2>2. Remaining'[5] = Remaining[5]
    <3>1. StepsLeft(Active)' = StepsLeft(Active) /\ Parts(Active)' = Parts(Active)
      BY <2>1 DEF StepsLeft, Active, Parts
    <3>2. Remaining'[5]
            = IF stack' = <<>> THEN 0 ELSE SumOver(StepsLeft(Active)', Parts(Active)')
      BY DEF Remaining
    <3> QED BY <2>1, <3>1, <3>2 DEF Remaining
  <2>3. Cardinality(files') < Cardinality(files)
    BY <2>1, RemoveOne DEF EndInv
  <2> QED BY <2>1, <2>2, <2>3, LessRemaining, RemainingParts
<1> QED BY <1>2, <1>3, <1>4, <1>5, <1>6, <1>7, <1>8, <1>9, Effects

\* What every query has at every moment.
THEOREM EndInductive == Spec => []EndInv
<1>1. Init => EndInv
  BY EndInit
<1>2. IInv /\ EndInv /\ [Next]_vars => EndInv'
  BY EndNext
<1> QED BY <1>1, <1>2, Inductive, PTL DEF Spec

\* Every step of a query uses up something that no later step gives back, for
\* every plan and whatever fails, dies or is lost: a query makes only finitely
\* many steps, retries and recoveries included.
THEOREM QueryRunsDown == Spec => EveryStepCounts
<1>1. IInv /\ EndInv => RemainingInv
  BY RemainingType
<1>2. /\ IInv /\ EndInv /\ RunningInv /\ IInv' /\ EndInv' /\ RemainingInv /\ RemainingInv'
      /\ [Next]_vars
      => [Less(Remaining', Remaining)]_vars
  BY StepRunsDown
<1>3. RecoveryInv => RunningInv
  BY DEF RecoveryInv
<1> QED BY <1>1, <1>2, <1>3, Inductive, EndInductive, RecoveryInductive, PTL
        DEF Spec, EveryStepCounts

\* A query that is running is never stuck.
THEOREM QueryCanGoOn == Spec => []CanGoOn
<1>1. IInv /\ EndInv => CanGoOn
  <2> SUFFICES ASSUME IInv, EndInv, stack # <<>>
               PROVE  \/ \E p \in Parts(Active) : MayRun(Active, p) \/ NextResult(Active, p)
                      \/ InState(Active, {"again", "done", "exhausted"})
    BY DEF CanGoOn
  <2>1. /\ Len(stack) \in DOMAIN stack /\ Active = stack[Len(stack)].stage
        /\ Active \in Stages
    BY ActiveFrame DEF IInv, Active
  <2>2. \A p \in Parts(Active) :
           tasks[Active][p].state \in TaskStates \ {"none", "recovering"}
    BY <2>1 DEF EndInv, CallsBuilt, IInv, TypeOK, Task
  <2>3. \A T \in SUBSET Parts(Active) : T # {} => \E p \in T : \A q \in T : p <= q
    BY <2>1, PartsFinite, HasFirst
  <2>4. CASE Pending(Active) # {}
    <3>1. PICK p \in Pending(Active) : \A q \in Pending(Active) : p <= q
      BY <2>3, <2>4 DEF Pending
    <3> DEFINE earlier == {q \in Pending(Active) : q < p}
    <3>2. earlier = {}
      BY <2>1, <3>1, PartsFinite DEF Pending
    <3>3. Cardinality(earlier) < NumWorkers
      <4> HIDE DEF earlier
      <4> QED BY <3>2, FS_EmptySet, BoundAssumption
    <3> QED BY <3>1, <3>3 DEF MayRun, Pending
  <2>5. CASE Pending(Active) = {} /\ Unprocessed(Active) # {}
    <3>1. PICK p \in Unprocessed(Active) : \A q \in Unprocessed(Active) : p <= q
      BY <2>3, <2>5 DEF Unprocessed
    <3> QED BY <2>5, <3>1 DEF NextResult, Unprocessed
  <2>6. CASE Pending(Active) = {} /\ Unprocessed(Active) = {}
    BY <2>2, <2>6 DEF Pending, Unprocessed, InState, TaskStates
  <2> QED BY <2>4, <2>5, <2>6
<1> QED BY <1>1, Inductive, EndInductive, PTL
=============================================================================
