----------------------------- MODULE Optimizer -----------------------------
(***************************************************************************)
(* Optimizer.optimize: its rules, applied in turn until a pass changes     *)
(* nothing that explain shows.  Query starts it with the plan of a query   *)
(* and takes the optimized one.                                            *)
(***************************************************************************)
EXTENDS Plans

CONSTANT MaxIterations    \* Optimizer.max_iterations

VARIABLES
  predicate_pushdown,  \* the flags of OptimizerConfig
  projection_pruning,
  plan,                \* current
  phase,               \* of the query: "optimizing" while rules are applied
  iteration,
  before,              \* explain_string(current) at the start of the pass
  next_rule            \* the rules of this pass still to be applied

flags == <<predicate_pushdown, projection_pruning>>
optimizerVars == <<flags, plan, phase, iteration, before, next_rule>>

-----------------------------------------------------------------------------
(* map_expressions, and the two rules that rewrite expressions.            *)

IsLiteral(e) == e.op = "literal"

\* Literals that cannot be compared would raise here; no query has any.
RECURSIVE Fold(_)
Fold(e) ==
  CASE e.op \in {"column", "literal"} -> e
    [] IsBinary(e) ->
         LET left == Fold(e.left)
             right == Fold(e.right)
         IN IF IsLiteral(left) /\ IsLiteral(right)
              THEN Literal(Apply2(e.op, left.value, right.value))
              ELSE Binary(left, e.op, right)
    [] OTHER ->
         LET child == Fold(e.child)
         IN IF IsLiteral(child) THEN Literal(Apply1(e.op, child.value))
                                ELSE Unary(e.op, child)

\* `literal op other`, for a literal on either side of `and` and `or`.
Absorb(op, literal, other) ==
  CASE op = "and" -> IF Truthy(literal.value) THEN other ELSE Literal(Bool(FALSE))
    [] op = "or"  -> IF Truthy(literal.value) THEN Literal(Bool(TRUE)) ELSE other

RECURSIVE SimplifyBool(_)
SimplifyBool(e) ==
  CASE IsBinary(e) ->
         LET left == SimplifyBool(e.left)
             right == SimplifyBool(e.right)
         IN CASE e.op \in {"and", "or"} /\ IsLiteral(left)  -> Absorb(e.op, left, right)
              [] e.op \in {"and", "or"} /\ ~ IsLiteral(left) /\ IsLiteral(right) ->
                   Absorb(e.op, right, left)
              [] OTHER -> Binary(left, e.op, right)
    [] e.op = "not" ->
         LET child == SimplifyBool(e.child)
         IN IF child.op = "not" THEN child.child ELSE Unary("not", child)
    [] OTHER -> e

Rewrite(rule, e) == IF rule = "ConstantFolding" THEN Fold(e) ELSE SimplifyBool(e)

\* The arguments of aggregates are left alone; keys and names are columns.
RECURSIVE MapExpressions(_, _)
MapExpressions(rule, node) ==
  CASE node.op = "scan"    -> node
    [] node.op = "filter"  -> Filter(MapExpressions(rule, node.child),
                                     Rewrite(rule, node.condition))
    [] node.op = "project" -> Project(MapExpressions(rule, node.child),
                                [i \in DOMAIN node.columns |->
                                   [node.columns[i] EXCEPT !.expr = Rewrite(rule, @)]])
    [] node.op = "join"    -> [node EXCEPT !.left = MapExpressions(rule, @),
                                           !.right = MapExpressions(rule, @)]
    [] OTHER               -> [node EXCEPT !.child = MapExpressions(rule, @)]

-----------------------------------------------------------------------------
(* PredicatePushdown.                                                      *)

\* Where a Filter goes whose child has been pushed down already.
PushFilter(condition, child) ==
  LET needs == ReferencedColumns(condition) IN
  CASE child.op = "project" /\ needs \subseteq Fields(child.child) ->
         [child EXCEPT !.child = Filter(@, condition)]
    [] child.op = "join" /\ needs \subseteq Fields(child.left) ->
         [child EXCEPT !.left = Filter(@, condition)]
    [] child.op = "join" /\ ~ needs \subseteq Fields(child.left)
                         /\ needs \subseteq Fields(child.right) ->
         [child EXCEPT !.right = Filter(@, condition)]
    [] OTHER -> Filter(child, condition)

RECURSIVE Pushdown(_)
Pushdown(node) ==
  CASE node.op = "scan"   -> node
    [] node.op = "filter" -> PushFilter(node.condition, Pushdown(node.child))
    [] node.op = "join"   -> [node EXCEPT !.left = Pushdown(@), !.right = Pushdown(@)]
    [] OTHER              -> [node EXCEPT !.child = Pushdown(@)]

-----------------------------------------------------------------------------
(* ProjectionPruning.                                                      *)

PlainColumns(names) == [i \in DOMAIN names |-> [name |-> names[i], expr |-> Column(names[i])]]

PruneScan(scan, needed) ==
  LET keep == SelectSeq(Schema(scan), LAMBDA n : n \in needed[1])
  IN IF needed # None /\ keep # <<>> /\ keep # Schema(scan)
       THEN Project(scan, PlainColumns(keep))
       ELSE scan

RECURSIVE Prune(_, _)
Prune(node, needed) ==
  CASE node.op = "scan"      -> PruneScan(node, needed)
    [] node.op = "filter"    ->
         [node EXCEPT !.child = Prune(@, Widened(needed, ReferencedColumns(node.condition)))]
    [] node.op = "sort"      ->
         [node EXCEPT !.child = Prune(@, Widened(needed, Range(node.keys)))]
    [] node.op = "project"   ->
         [node EXCEPT !.child = Prune(@, <<ReferencedByAll(node.columns)>>)]
    [] node.op = "aggregate" ->
         [node EXCEPT !.child = Prune(@, <<Range(node.group_by)
                                           \union ReferencedByAll(node.aggregates)>>)]
    [] node.op = "join"      ->
         LET side(child) == IF needed = None THEN <<Fields(child)>>
                            ELSE <<(needed[1] \intersect Fields(child)) \union {node.on}>>
         IN [node EXCEPT !.left = Prune(@, side(@)), !.right = Prune(@, side(@))]

-----------------------------------------------------------------------------
(* RedundantProjectionElimination.                                         *)

IsPlainColumnProjection(node) ==
  node.op = "project"
  /\ \A c \in Range(node.columns) : c.expr = Column(c.name)

\* Mutant: pruning's Projects pile up, one more in every pass.
MergeProjectsNever(project, child) == Project(child, project.columns)

\* A Project over a child that was rewritten already.
MergeProjects(project, child) ==
  CASE IsPlainColumnProjection(project) /\ Schema(project) = Schema(child) -> child
    [] ~ (IsPlainColumnProjection(project) /\ Schema(project) = Schema(child))
       /\ IsPlainColumnProjection(child) -> Project(child.child, project.columns)
    [] OTHER -> Project(child, project.columns)

RECURSIVE Eliminate(_)
Eliminate(node) ==
  CASE node.op = "scan"    -> node
    [] node.op = "project" -> MergeProjects(node, Eliminate(node.child))
    [] node.op = "join"    -> [node EXCEPT !.left = Eliminate(@), !.right = Eliminate(@)]
    [] OTHER               -> [node EXCEPT !.child = Eliminate(@)]

-----------------------------------------------------------------------------
(* Optimizer.optimize.                                                     *)

Rules ==
  <<"ConstantFolding", "FilterSimplification">>
  \o (IF predicate_pushdown THEN <<"PredicatePushdown">> ELSE <<>>)
  \o (IF projection_pruning THEN <<"ProjectionPruning">> ELSE <<>>)
  \o <<"RedundantProjectionElimination">>

Apply(rule, node) ==
  CASE rule = "PredicatePushdown"              -> Pushdown(node)
    [] rule = "ProjectionPruning"              -> Prune(node, None)
    [] rule = "RedundantProjectionElimination" -> Eliminate(node)
    [] OTHER                                   -> MapExpressions(rule, node)

\* explain_string shows the names of a Project's columns, not what they are.
\* Nor of an Aggregate's, which no rule rewrites.
RECURSIVE Explain(_)
Explain(node) ==
  CASE node.op = "scan"    -> node
    [] node.op = "project" -> [op |-> "project", names |-> Schema(node),
                               child |-> Explain(node.child)]
    [] node.op = "join"    -> [node EXCEPT !.left = Explain(@), !.right = Explain(@)]
    [] OTHER               -> [node EXCEPT !.child = Explain(@)]

\* A Project gives the name of a column of its child to another expression.
RECURSIVE Redefines(_)
Redefines(node) ==
  CASE node.op = "scan"    -> FALSE
    [] node.op = "join"    -> Redefines(node.left) \/ Redefines(node.right)
    [] node.op = "project" -> \/ Redefines(node.child)
                              \/ \E c \in Range(node.columns) :
                                   c.name \in Fields(node.child) /\ c.expr # Column(c.name)
    [] OTHER               -> Redefines(node.child)

\* optimize() is called: its first pass begins.
StartOptimizing(analyzed) ==
  /\ plan' = analyzed
  /\ phase' = "optimizing"
  /\ iteration' = 0
  /\ before' = <<Explain(analyzed)>>
  /\ next_rule' = Rules

ApplyRule ==
  /\ phase = "optimizing"
  /\ next_rule # <<>>
  /\ plan' = Apply(Head(next_rule), plan)
  /\ next_rule' = Tail(next_rule)
  /\ UNCHANGED <<flags, phase, iteration, before>>

EndPass ==
  /\ phase = "optimizing"
  /\ next_rule = <<>>
  /\ iteration' = iteration + 1
  /\ IF <<Explain(plan)>> = before \/ iteration' = MaxIterations
       THEN /\ phase' = "optimized"
            /\ before' = None
            /\ UNCHANGED next_rule
       ELSE /\ before' = <<Explain(plan)>>
            /\ next_rule' = Rules
            /\ UNCHANGED phase
  /\ UNCHANGED <<flags, plan>>

Optimize == ApplyRule \/ EndPass
=============================================================================
