------------------------------ MODULE Sources ------------------------------
(***************************************************************************)
(* MemoryDataSource, CSVDataSource and ParquetDataSource: how a table is   *)
(* cut into partitions, what a partition yields, and the types that are    *)
(* found for its columns.  A table of Tables is a record of                *)
(*   kind            "memory", "csv" or "parquet"                          *)
(*   columns, rows   the names of its columns, sorted, and its rows        *)
(*   num_partitions  as given to the source                                *)
(*   row_groups      of Parquet: their numbers of rows                     *)
(* A line of a CSV file is a row, the first line its header; an offset is  *)
(* the number of lines before it.                                          *)
(***************************************************************************)
EXTENDS Plans

CONSTANT SampleRows    \* _SCHEMA_SAMPLE_ROWS

Cut == INSTANCE Chunks

Types == {"int", "float", "string", "null"}

-----------------------------------------------------------------------------
(* Schema inference.                                                       *)

\* infer_schema goes by the first record, _infer_schema_from_sample by the
\* values of a sample that are there; a Parquet file declares its types.
InferredType(table, name) ==
  LET sample == Head(table.rows)[name]
      first(n) == SubSeq(table.rows, 1, Cut!Lower(n, Len(table.rows)))
  IN CASE table.kind = "memory"  -> IF sample = Null THEN "null" ELSE "int"
       [] table.kind = "csv"     ->
            IF \E row \in Range(first(SampleRows)) : row[name] # Null THEN "int" ELSE "string"
       [] table.kind = "parquet" -> "int"

\* The type a plan's schema gives a column; a computed one is a string.
RECURSIVE ColumnType(_, _)
ColumnType(plan, name) ==
  LET ofExpr(e) == IF e.op = "column" THEN ColumnType(plan.child, e.name) ELSE "string"
      named(columns) == CHOOSE c \in Range(columns) : c.name = name
  IN CASE plan.op = "scan"    -> InferredType(Tables[plan.table], name)
       [] plan.op = "project" -> ofExpr(named(plan.columns).expr)
       [] plan.op = "join"    -> IF name \in Fields(plan.left) THEN ColumnType(plan.left, name)
                                 ELSE ColumnType(plan.right, name)
       [] plan.op = "aggregate" /\ name \notin Range(plan.group_by) ->
            LET a == named(plan.aggregates)
            IN CASE a.fn \in Agg!Counts -> "int"
                 [] a.fn = "avg"        -> "float"
                 [] OTHER               -> ofExpr(a.expr)
       [] OTHER               -> ColumnType(plan.child, name)

-----------------------------------------------------------------------------
(* translate_predicate: the pyarrow filter of an expression, None if it    *)
(* has none, otherwise the element of a tuple.                             *)

IsComparison(e) == e.op \in {"==", "!="} \union Ordering

\* _translate_operand: the null literal is left out.
Translates(e) == e.op = "column" \/ (e.op = "literal" /\ e.value # Null)

\* Mutant: one side of an Or is pushed, as it is of an And.
BothOrEither(op, left, right) ==
  IF left # None /\ right # None THEN <<Binary(left[1], op, right[1])>>
  ELSE IF left # None THEN left ELSE right

BothOrNothing(op, left, right) ==
  CASE left # None /\ right # None -> <<Binary(left[1], op, right[1])>>
    [] op = "and" /\ left = None   -> right
    [] op = "and" /\ right = None  -> left
    [] OTHER                       -> None

RECURSIVE TranslatePredicate(_)
TranslatePredicate(e) ==
  CASE e.op \in {"and", "or"} ->
         BothOrNothing(e.op, TranslatePredicate(e.left), TranslatePredicate(e.right))
    [] e.op = "not" ->
         LET inner == TranslatePredicate(e.child)
         IN IF inner = None THEN None ELSE <<Unary("not", inner[1])>>
    [] e.op \in {"isnull", "isnotnull"} -> IF e.child.op = "column" THEN <<e>> ELSE None
    [] IsComparison(e) -> IF e.left.op = "column" /\ Translates(e.right) THEN <<e>> ELSE None
    [] OTHER -> None

\* pyarrow's comparisons and connectives are SQL's, of three values.
Apply2Kleene(op, a, b) ==
  CASE op = "and" /\ <<0>> \in {a, b} -> Bool(FALSE)
    [] op = "or" /\ <<1>> \in {a, b}  -> Bool(TRUE)
    [] Null \in {a, b} /\ ~ (op = "and" /\ <<0>> \in {a, b})
                       /\ ~ (op = "or" /\ <<1>> \in {a, b}) -> Null
    [] OTHER                          -> Apply2(op, a, b)

RECURSIVE ArrowEvaluate(_, _)
ArrowEvaluate(e, row) ==
  CASE e.op = "column"  -> row[e.name]
    [] e.op = "literal" -> e.value
    [] e.op = "not"     -> LET v == ArrowEvaluate(e.child, row)
                           IN IF v = Null THEN Null ELSE Apply1("not", v)
    [] IsBinary(e)      -> Apply2Kleene(e.op, ArrowEvaluate(e.left, row),
                                        ArrowEvaluate(e.right, row))
    [] OTHER            -> Apply1(e.op, ArrowEvaluate(e.child, row))

\* What a scan whose source was given the filter still reads of a Parquet row.
PassesFilter(filter, row) ==
  LET pushed == IF filter = None THEN None ELSE TranslatePredicate(filter[1])
  IN pushed = None \/ ArrowEvaluate(pushed[1], row) = Bool(TRUE)

-----------------------------------------------------------------------------
(* read(): the partitions and what they yield.  Only Parquet looks at the  *)
(* filter.                                                                 *)

Units(table) ==
  IF table.kind = "parquet" THEN Len(table.row_groups) ELSE Len(table.rows)

NumPartitionsOf(scan) ==
  LET table == Tables[scan.table]
  IN Cardinality(Cut!Partitions(Units(table), table.num_partitions))

RowGroup(table, g) ==
  LET before(n) == FoldLeft(LAMBDA sum, size : sum + size, 0, SubSeq(table.row_groups, 1, n))
  IN SubSeq(table.rows, before(g - 1) + 1, before(g))

\* Mutant: f.tell() after the row's line, not before it.
OffsetAfter(row) == row + 2

\* _locate_partition_offsets, of a row that counts from 0.
LocateOffset(row) == row + 1

\* _read_csv_range: line n + 1 is row n of rows, until the file ends.
ReadCsvRange(table, start, end, offset) ==
  SubSeq(table.rows, offset, Cut!Lower(offset + (end - start) - 1, Len(table.rows)))

RowsOfPartition(table, filter, i) ==
  LET start == Cut!Start(Units(table), table.num_partitions, i)
      end == Cut!End(Units(table), table.num_partitions, i)
  IN CASE table.kind = "memory"  -> SubSeq(table.rows, start + 1, end)
       [] table.kind = "csv"     -> ReadCsvRange(table, start, end, LocateOffset(start))
       [] table.kind = "parquet" ->
            SelectSeq(FlattenSeq([g \in 1 .. end - start |-> RowGroup(table, start + g)]),
                      LAMBDA row : PassesFilter(filter, row))

ReadPartition(scan, i) ==
  LET rows == RowsOfPartition(Tables[scan.table], scan.filter, i)
  IN [n \in DOMAIN rows |-> [c \in Range(scan.columns) |-> rows[n][c]]]

-----------------------------------------------------------------------------
(* _pushdown_scan_reads: the scans are read anew with the columns and the  *)
(* filter that hold for them.  Both are None or the element of a tuple.    *)

\* sorted() of the names, which is the order of the columns of the tables.
RereadScan(scan, columns, filter) ==
  LET named == IF filter = None THEN {} ELSE ReferencedColumns(filter[1])
      wanted == Widened(columns, named)
  IN [scan EXCEPT !.filter = filter,
                  !.columns = IF wanted = None THEN Tables[scan.table].columns
                              ELSE SelectSeq(Tables[scan.table].columns,
                                             LAMBDA n : n \in wanted[1])]

RECURSIVE ReadScans(_, _, _)
ReadScans(node, columns, filter) ==
  LET below(child) == ReadScans(child, None, None) IN
  CASE node.op = "scan"    -> IF columns = None /\ filter = None THEN node
                              ELSE RereadScan(node, columns, filter)
    [] node.op = "filter"  ->
         LET condition == IF filter = None THEN node.condition
                          ELSE Binary(filter[1], "and", node.condition)
         IN [node EXCEPT !.child =
               ReadScans(@, Widened(columns, ReferencedColumns(node.condition)), <<condition>>)]
    [] node.op = "project" ->
         [node EXCEPT !.child = ReadScans(@, <<ReferencedByAll(node.columns)>>, None)]
    [] node.op = "join"    -> [node EXCEPT !.left = below(@), !.right = below(@)]
    [] OTHER               -> [node EXCEPT !.child = below(@)]
=============================================================================
