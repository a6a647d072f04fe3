------------------------------- MODULE Plans -------------------------------
(***************************************************************************)
(* Logical plans, what the analyzer accepts of them, and the rows they     *)
(* mean.  Values are nullable integers, as in SortOrder; True and False    *)
(* are 1 and 0, which in Python they equal.  A column of a Project is a    *)
(* record of its output name and its expression, that is, an Alias;        *)
(* col("a") has the name "a".  An aggregate has a function as well, and    *)
(* count("*") an expression that nothing evaluates.                        *)
(***************************************************************************)
EXTENDS SortOrder

Agg == INSTANCE Aggregates

(***************************************************************************)
(* By name, what is in a table and how it is stored: the names of its      *)
(* columns, sorted, its rows, and the rest as Sources describes it.        *)
(***************************************************************************)
CONSTANT Tables

Bool(b) == IF b THEN <<1>> ELSE <<0>>
Truthy(v) == v # Null /\ v[1] # 0

\* A TypeError, and the rows of a query that ends in one.
Raise == <<0, 0>>
Raised == <<[raised |-> Raise]>>

-----------------------------------------------------------------------------
(* Expressions.                                                            *)

Column(name) == [op |-> "column", name |-> name]
Literal(value) == [op |-> "literal", value |-> value]
Unary(op, child) == [op |-> op, child |-> child]
Binary(left, op, right) == [op |-> op, left |-> left, right |-> right]
Ordering == {"<", "<=", ">", ">="}
Arithmetic == {"+", "-", "*"}
IsBinary(e) == e.op \in {"==", "!=", "and", "or"} \union Ordering \union Arithmetic

RECURSIVE ReferencedColumns(_)
ReferencedColumns(e) ==
  CASE e.op = "column"  -> {e.name}
    [] e.op = "literal" -> {}
    [] IsBinary(e)      -> ReferencedColumns(e.left) \union ReferencedColumns(e.right)
    [] OTHER            -> ReferencedColumns(e.child)

OfNumbers(op, x, y) ==
  CASE op = "<"  -> Bool(x < y)
    [] op = "<=" -> Bool(x <= y)
    [] op = ">"  -> Bool(x > y)
    [] op = ">=" -> Bool(x >= y)
    [] op = "+"  -> <<x + y>>
    [] op = "-"  -> <<x - y>>
    [] op = "*"  -> <<x * y>>

\* BinaryExpression.op: both operands have a value, `and` is not lazy, and
\* None has neither an order nor a sum.
Apply2(op, a, b) ==
  IF Raise \in {a, b} THEN Raise
  ELSE CASE op = "=="  -> Bool(a = b)
         [] op = "!="  -> Bool(a # b)
         [] op = "and" -> Bool(Truthy(a) /\ Truthy(b))
         [] op = "or"  -> Bool(Truthy(a) \/ Truthy(b))
         [] OTHER      -> IF Null \in {a, b} THEN Raise ELSE OfNumbers(op, a[1], b[1])

Apply1(op, a) ==
  CASE a = Raise        -> Raise
    [] op = "not"       -> Bool(~ Truthy(a))
    [] op = "isnull"    -> Bool(a = Null)
    [] op = "isnotnull" -> Bool(a # Null)

RECURSIVE Evaluate(_, _)
Evaluate(e, row) ==
  CASE e.op = "column"  -> row[e.name]
    [] e.op = "literal" -> e.value
    [] IsBinary(e)      -> Apply2(e.op, Evaluate(e.left, row), Evaluate(e.right, row))
    [] OTHER            -> Apply1(e.op, Evaluate(e.child, row))

-----------------------------------------------------------------------------
(* Nodes.  A Scan's columns and filter are those its source was read with; *)
(* no filter is <<>>, a filter the element of a tuple.                     *)

None == <<>>

Scan(table, columns) ==
  [op |-> "scan", table |-> table, columns |-> columns, filter |-> None]
Filter(child, condition) == [op |-> "filter", child |-> child, condition |-> condition]
Project(child, columns) == [op |-> "project", child |-> child, columns |-> columns]
Aggregate(child, group_by, aggregates) ==
  [op |-> "aggregate", child |-> child, group_by |-> group_by, aggregates |-> aggregates]
Join(left, right, on, broadcast) ==
  [op |-> "join", left |-> left, right |-> right, on |-> on, broadcast |-> broadcast]
Sort(child, keys, ascending) ==
  [op |-> "sort", child |-> child, keys |-> keys, ascending |-> ascending]

OutputNames(columns) == [i \in DOMAIN columns |-> columns[i].name]

RECURSIVE Schema(_)
Schema(plan) ==
  CASE plan.op = "scan"      -> plan.columns
    [] plan.op = "project"   -> OutputNames(plan.columns)
    [] plan.op = "aggregate" -> plan.group_by \o OutputNames(plan.aggregates)
    [] plan.op = "join"      -> Schema(plan.left)
                                \o SelectSeq(Schema(plan.right), LAMBDA n : n # plan.on)
    [] OTHER                 -> Schema(plan.child)
Fields(plan) == Range(Schema(plan))

\* The names that are needed of a node's columns: None if all are, otherwise
\* a set, the element of a tuple.  Mutant: a node restricts them to its own.
WidenedFromNothing(needed, names) ==
  IF needed = None THEN <<names>> ELSE <<needed[1] \union names>>

\* What a node needs that changes no columns itself.
Widened(needed, names) ==
  IF needed = None THEN None ELSE <<needed[1] \union names>>

ReferencedByAll(columns) == UNION {ReferencedColumns(c.expr) : c \in Range(columns)}

-----------------------------------------------------------------------------
(* The analyzer.                                                           *)

RECURSIVE Valid(_)
Valid(plan) ==
  CASE plan.op = "scan"      -> TRUE
    [] plan.op = "filter"    -> /\ Valid(plan.child)
                                /\ ReferencedColumns(plan.condition) \subseteq Fields(plan.child)
    [] plan.op = "project"   -> /\ Valid(plan.child)
                                /\ ReferencedByAll(plan.columns) \subseteq Fields(plan.child)
                                /\ IsInjective(Schema(plan))
    [] plan.op = "aggregate" -> /\ Valid(plan.child)
                                /\ Range(plan.group_by) \subseteq Fields(plan.child)
                                /\ ReferencedByAll(plan.aggregates) \subseteq Fields(plan.child)
                                /\ IsInjective(Schema(plan))
    [] plan.op = "join"      -> /\ Valid(plan.left) /\ Valid(plan.right)
                                /\ Fields(plan.left) \intersect Fields(plan.right) = {plan.on}
    [] plan.op = "sort"      -> /\ Valid(plan.child)
                                /\ Range(plan.keys) \subseteq Fields(plan.child)

-----------------------------------------------------------------------------
(* The rows of a plan over its whole input, in their order.                *)

FilterRows(condition, rows) ==
  IF \E row \in Range(rows) : Evaluate(condition, row) = Raise THEN Raised
  ELSE SelectSeq(rows, LAMBDA row : Truthy(Evaluate(condition, row)))

ProjectRows(columns, rows) ==
  LET value(row, n) == Evaluate((CHOOSE c \in Range(columns) : c.name = n).expr, row)
      projected == [i \in DOMAIN rows |->
                      [n \in Range(OutputNames(columns)) |-> value(rows[i], n)]]
  IN IF \E row \in Range(projected) : Raise \in Range(row) THEN Raised ELSE projected

\* A count is never null.
AsValue(fn, finalized) == IF fn \in Agg!Counts THEN <<finalized>> ELSE finalized

GroupKey(group_by, row) == [n \in Range(group_by) |-> row[n]]

\* Groups in the order of their first rows, as those of a dict.
AggregateRows(group_by, aggregates, rows) ==
  LET key(i) == GroupKey(group_by, rows[i])
      firsts == SelectSeq([i \in DOMAIN rows |-> i],
                          LAMBDA i : \A j \in 1 .. i - 1 : key(j) # key(i))
      inputs(a, k) == LET of == SelectSeq(rows, LAMBDA r : GroupKey(group_by, r) = k)
                      IN [i \in DOMAIN of |-> Evaluate(a.expr, of[i])]
      value(a, k) == AsValue(a.fn, Agg!Reference(a.fn, inputs(a, k)))
      group(k) == k @@ [n \in Range(OutputNames(aggregates)) |->
                          value(CHOOSE a \in Range(aggregates) : a.name = n, k)]
  IN IF \E row \in Range(rows), a \in Range(aggregates) : Evaluate(a.expr, row) = Raise
       THEN Raised
       ELSE [i \in DOMAIN firsts |-> group(key(firsts[i]))]

\* The left side is the table, the right side is streamed; keys are equal as
\* in a dict, two nulls too.
JoinRows(on, left, right) ==
  FlattenSeq([i \in DOMAIN right |->
    LET matching == SelectSeq(left, LAMBDA l : l[on] = right[i][on])
    IN [j \in DOMAIN matching |-> matching[j] @@ right[i]]])

SortedRows(keys, ascending, rows) ==
  LET pairs == [i \in DOMAIN rows |->
                  [seq |-> i, row |-> [e \in DOMAIN keys |-> rows[i][keys[e]]]]]
      sorted == SortRows(ascending, pairs)
  IN [i \in DOMAIN rows |-> rows[sorted[i].seq]]

RECURSIVE Rows(_)
Rows(plan) ==
  IF plan.op = "scan"
    THEN LET rows == Tables[plan.table].rows
         IN [i \in DOMAIN rows |-> [n \in Range(plan.columns) |-> rows[i][n]]]
  ELSE IF plan.op = "join"
    THEN LET left == Rows(plan.left)
             right == Rows(plan.right)
         IN IF Raised \in {left, right} THEN Raised ELSE JoinRows(plan.on, left, right)
  ELSE LET rows == Rows(plan.child)
       IN CASE rows = Raised         -> Raised
            [] plan.op = "filter"    -> FilterRows(plan.condition, rows)
            [] plan.op = "project"   -> ProjectRows(plan.columns, rows)
            [] plan.op = "aggregate" -> AggregateRows(plan.group_by, plan.aggregates, rows)
            [] plan.op = "sort"      -> SortedRows(plan.keys, plan.ascending, rows)
=============================================================================
