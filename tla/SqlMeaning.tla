----------------------------- MODULE SqlMeaning -----------------------------
(***************************************************************************)
(* What a user means by a statement, how it is written down, and what the  *)
(* documented subset of SQL makes of it.  A statement is a record of       *)
(*   items       None for all columns, or <<a sequence of items>>          *)
(*   from, join  the table; None or <<[table, left, right]>>, the columns  *)
(*               of the ON clause                                          *)
(*   where, having       None or <<condition>>                             *)
(*   group_by            a sequence of expressions                         *)
(*   order_by            a sequence of [expr, ascending]                   *)
(*   tail                tokens that do not belong there                   *)
(***************************************************************************)
EXTENDS Sql

-----------------------------------------------------------------------------
(* Writing it down, without a parenthesis more than precedence and the     *)
(* associativity to the left call for.                                     *)

Precedence(e) ==
  CASE e.op = "or"  -> 1
    [] e.op = "and" -> 2
    [] e.op = "not" -> 3
    [] e.op \in {"isnull", "isnotnull"}          -> 4
    [] e.op \in {"==", "!="} \union Ordering     -> 5
    [] e.op \in {"+", "-"}                       -> 6
    [] e.op = "*"                                -> 7
    [] e.op = "literal" /\ e.value # Null /\ e.value[1] < 0 -> 8
    [] OTHER                                     -> 9

TokenOf(op) ==
  CASE op = "or"  -> Keyword("OR")
    [] op = "and" -> Keyword("AND")
    [] op = "=="  -> Operator("=")
    [] op = "!="  -> Operator("<>")
    [] OTHER      -> Operator(op)

FunctionName(fn) == CHOOSE name \in DOMAIN Functions : Functions[name] = fn

Name(qualifier, name) ==
  IF qualifier = "" THEN <<Identifier(name)>>
  ELSE <<Identifier(qualifier), Punctuation("."), Identifier(name)>>

RECURSIVE Text(_), TextAt(_, _)
TextAt(e, least) ==
  IF Precedence(e) < least THEN <<Punctuation("(")>> \o Text(e) \o <<Punctuation(")")>>
  ELSE Text(e)
Text(e) ==
  CASE e.op = "column"    -> <<Identifier(e.name)>>
    [] e.op = "literal"   -> IF e.value = Null THEN <<Keyword("NULL")>>
                             ELSE IF e.value[1] < 0 THEN <<Operator("-"), Number(- e.value[1])>>
                             ELSE <<Number(e.value[1])>>
    [] e = CountStar      -> <<Identifier("COUNT"), Punctuation("("), Operator("*"),
                               Punctuation(")")>>
    [] e.op = "call" /\ e # CountStar ->
         <<Identifier(FunctionName(e.fn)), Punctuation("(")>> \o Text(e.child)
         \o <<Punctuation(")")>>
    [] e.op = "not"       -> <<Keyword("NOT")>> \o TextAt(e.child, 3)
    [] e.op = "isnull"    -> TextAt(e.child, 5) \o <<Keyword("IS"), Keyword("NULL")>>
    [] e.op = "isnotnull" -> TextAt(e.child, 5)
                             \o <<Keyword("IS"), Keyword("NOT"), Keyword("NULL")>>
    [] IsBinary(e)        ->
         LET own == Precedence(e)
         IN TextAt(e.left, IF own = 5 THEN 6 ELSE own) \o <<TokenOf(e.op)>>
            \o TextAt(e.right, own + 1)

Separated(parts) ==
  FlattenSeq([i \in DOMAIN parts |->
                (IF i = 1 THEN <<>> ELSE <<Punctuation(",")>>) \o parts[i]])

Clause(words, body) == [i \in DOMAIN words |-> Keyword(words[i])] \o body
Optional(words, clause) == IF clause = None THEN <<>> ELSE Clause(words, Text(clause[1]))
OptionalList(words, parts) == IF parts = <<>> THEN <<>> ELSE Clause(words, Separated(parts))

ItemText(item) ==
  Text(item.expr) \o (IF item.alias = None THEN <<>>
                      ELSE <<Keyword("AS"), Identifier(item.alias[1])>>)

\* The names of a join are qualified.
JoinText(stmt) ==
  IF stmt.join = None THEN <<>>
  ELSE LET join == stmt.join[1]
       IN <<Keyword("JOIN"), Identifier(join.table), Keyword("ON")>>
          \o Name(stmt.from, join.left) \o <<Operator("=")>> \o Name(join.table, join.right)

Render(stmt) ==
  Clause(<<"SELECT">>,
         IF stmt.items = None THEN <<Operator("*")>>
         ELSE Separated([i \in DOMAIN stmt.items[1] |-> ItemText(stmt.items[1][i])]))
  \o Clause(<<"FROM">>, <<Identifier(stmt.from)>>)
  \o JoinText(stmt)
  \o Optional(<<"WHERE">>, stmt.where)
  \o OptionalList(<<"GROUP", "BY">>, [i \in DOMAIN stmt.group_by |-> Text(stmt.group_by[i])])
  \o Optional(<<"HAVING">>, stmt.having)
  \o OptionalList(<<"ORDER", "BY">>,
                  [i \in DOMAIN stmt.order_by |->
                     Text(stmt.order_by[i].expr)
                     \o (IF stmt.order_by[i].ascending THEN <<>> ELSE <<Keyword("DESC")>>)])
  \o stmt.tail \o <<EOF>>

-----------------------------------------------------------------------------
(* The supported subset (docs/sql.md, "Scope").                            *)

ItemsOf(stmt) == IF stmt.items = None THEN <<>> ELSE stmt.items[1]
Aggregated(stmt) == {item \in Range(ItemsOf(stmt)) : ContainsAggregate(item)}
Groups(stmt) == stmt.group_by # <<>> \/ Aggregated(stmt) # {}

Legal(stmt, views) ==
  /\ stmt.tail = <<>>
  /\ stmt.from \in DOMAIN views
  /\ stmt.join # None => /\ stmt.join[1].table \in DOMAIN views
                         /\ stmt.join[1].left = stmt.join[1].right
  /\ stmt.group_by # <<>> => stmt.items # None
  /\ Groups(stmt) => \A item \in Range(ItemsOf(stmt)) \ Aggregated(stmt) :
                       item.expr.op = "column" /\ item.expr \in Range(stmt.group_by)
  /\ stmt.having # None /\ Groups(stmt) =>
       Calls(stmt.having[1]) \subseteq {item.expr : item \in Aggregated(stmt)}

RECURSIVE OutsideCalls(_)
OutsideCalls(e) ==
  CASE e.op = "call"   -> {}
    [] IsBinary(e)     -> OutsideCalls(e.left) \union OutsideCalls(e.right)
    [] e.op \in {"column", "literal"} -> ReferencedColumns(e)
    [] OTHER           -> OutsideCalls(e.child)

\* FROM with JOIN, then WHERE, as plans.
Source(stmt, views) ==
  IF stmt.join = None THEN views[stmt.from]
  ELSE Join(views[stmt.from], views[stmt.join[1].table], stmt.join[1].left, FALSE)
Selected(stmt, views) ==
  IF stmt.where = None THEN Source(stmt, views) ELSE Filter(Source(stmt, views), stmt.where[1])

\* Its names are there, and an aggregate, a key of GROUP BY or of ORDER BY is
\* nothing but that: for the analyzer to say.
Resolves(stmt, views) ==
  LET selected == Selected(stmt, views)
      output == IF stmt.items = None THEN Fields(selected)
                ELSE {OutputName(item) : item \in Range(ItemsOf(stmt))}
      inputs == {item.expr : item \in Range(ItemsOf(stmt))} \union Range(stmt.group_by)
  IN /\ Valid(selected)
     /\ UNION {ReferencedColumns(e) : e \in inputs} \subseteq Fields(selected)
     /\ stmt.items # None => Cardinality(output) = Len(ItemsOf(stmt))
     /\ \A item \in Aggregated(stmt) : item.expr.op = "call"
     /\ \A e \in Range(stmt.group_by) : e.op = "column"
     /\ \A e \in Range(stmt.having) : OutsideCalls(e) \subseteq output
     /\ \A o \in Range(stmt.order_by) : o.expr.op = "column" /\ o.expr.name \in output

-----------------------------------------------------------------------------
(* The rows a statement asks for, group by group.                          *)

\* The value of an expression for a group of rows whose output row is `out`.
RECURSIVE ValueOver(_, _, _)
ValueOver(e, rows, out) ==
  CASE e.op = "call"    ->
         AsValue(e.fn, Agg!Reference(e.fn, [i \in DOMAIN rows |-> Evaluate(e.child, rows[i])]))
    [] e.op = "column"  -> out[e.name]
    [] e.op = "literal" -> e.value
    [] IsBinary(e)      -> Apply2(e.op, ValueOver(e.left, rows, out), ValueOver(e.right, rows, out))
    [] OTHER            -> Apply1(e.op, ValueOver(e.child, rows, out))

\* A row on its own is a group of one whose columns it can name.
OutputRow(stmt, rows) ==
  IF stmt.items = None THEN Head(rows)
  ELSE LET named(n) == CHOOSE item \in Range(ItemsOf(stmt)) : OutputName(item) = n
       IN [n \in {OutputName(item) : item \in Range(ItemsOf(stmt))} |->
             ValueOver(named(n).expr, rows, Head(rows))]

\* An aggregate without GROUP BY has no row for no rows (README, section 4).
GroupsOf(stmt, rows) ==
  LET key(i) == [g \in DOMAIN stmt.group_by |-> Evaluate(stmt.group_by[g], rows[i])]
      indices == [i \in DOMAIN rows |-> i]
      firsts == SelectSeq(indices, LAMBDA i : \A j \in 1 .. i - 1 : key(j) # key(i))
      of(i) == SelectSeq(indices, LAMBDA j : key(j) = key(i))
  IN IF ~ Groups(stmt) THEN [i \in DOMAIN rows |-> <<rows[i]>>]
     ELSE [g \in DOMAIN firsts |-> [n \in DOMAIN of(firsts[g]) |-> rows[of(firsts[g])[n]]]]

\* The rows of the groups that HAVING keeps, in no particular order.
RowsOfGroups(stmt, groups) ==
  LET results == [g \in DOMAIN groups |->
                    [rows |-> groups[g], out |-> OutputRow(stmt, groups[g])]]
      keeps(r) == IF stmt.having = None THEN Bool(TRUE)
                  ELSE ValueOver(stmt.having[1], r.rows, r.out)
      kept == SelectSeq(results, LAMBDA r : Truthy(keeps(r)))
  IN IF \E r \in Range(results) : Raise \in Range(r.out) \union {keeps(r)} THEN Raised
     ELSE [i \in DOMAIN kept |-> kept[i].out]

SqlRows(stmt, views) ==
  LET rows == Rows(Selected(stmt, views))
  IN IF rows = Raised THEN Raised ELSE RowsOfGroups(stmt, GroupsOf(stmt, rows))

SameBag(s, t) ==
  \A row \in Range(s) \union Range(t) :
    Cardinality({i \in DOMAIN s : s[i] = row}) = Cardinality({i \in DOMAIN t : t[i] = row})

\* The rows are those that are wanted, in an order the statement allows.
Answers(rows, wanted, stmt) ==
  LET keys(row) == [k \in DOMAIN stmt.order_by |-> row[stmt.order_by[k].expr.name]]
      ascending == [k \in DOMAIN stmt.order_by |-> stmt.order_by[k].ascending]
  IN IF Raised \in {rows, wanted} THEN rows = wanted
     ELSE /\ SameBag(rows, wanted)
          /\ \A i, j \in DOMAIN rows : i < j => ~ Precedes(ascending, keys(rows[j]), keys(rows[i]))
=============================================================================
