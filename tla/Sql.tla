-------------------------------- MODULE Sql --------------------------------
(***************************************************************************)
(* parse_sql: from tokens to a logical plan, by recursive descent.  A      *)
(* token is a pair of its type and its value, EOF the last one.            *)
(***************************************************************************)
EXTENDS Plans

Keyword(word) == <<"KEYWORD", word>>
Identifier(name) == <<"IDENTIFIER", name>>
Number(n) == <<"NUMBER", n>>
Operator(sign) == <<"OPERATOR", sign>>
Punctuation(mark) == <<"PUNCTUATION", mark>>
EOF == <<"EOF", "">>

\* An AggregateFunction; count_star has no argument.
Call(fn, child) == [op |-> "call", fn |-> fn, child |-> child]
CountStar == Call("count_star", Literal(Null))
Functions == ("COUNT" :> "count") @@ ("SUM" :> "sum") @@ ("AVG" :> "avg")
             @@ ("MIN" :> "min") @@ ("MAX" :> "max")

RECURSIVE Repr(_)
Repr(e) ==
  CASE e.op = "column"  -> "Column(" \o e.name \o ")"
    [] e.op = "literal" -> "Literal(" \o ToString(e.value) \o ")"
    [] e.op = "call"    -> e.fn \o "(" \o Repr(e.child) \o ")"
    [] IsBinary(e)      -> e.op \o "(" \o Repr(e.left) \o ", " \o Repr(e.right) \o ")"
    [] OTHER            -> e.op \o "(" \o Repr(e.child) \o ")"

\* output_name.
OutputName(item) ==
  IF item.alias # None THEN item.alias[1]
  ELSE IF item.expr.op = "column" THEN item.expr.name ELSE Repr(item.expr)

-----------------------------------------------------------------------------
(* Parsing.  A result is what has been parsed and the tokens that are left.*)

Parsed(node, rest) == [ok |-> TRUE, node |-> node, rest |-> rest]
SqlParseError == [ok |-> FALSE]

\* Goes on with what Parse made, if it made something.
Then(result, Continue(_, _)) ==
  IF result.ok THEN Continue(result.node, result.rest) ELSE SqlParseError
Mapped(result, F(_)) == Then(result, LAMBDA node, rest : Parsed(F(node), rest))
Expect(token, ts, Continue(_)) == IF Head(ts) = token THEN Continue(Tail(ts)) ELSE SqlParseError
ExpectIdentifier(ts) ==
  IF Head(ts)[1] = "IDENTIFIER" THEN Parsed(Head(ts)[2], Tail(ts)) ELSE SqlParseError

\* By level, the level that binds tighter and the left-associative operators.
\* Mutant: NOT binds tighter than a comparison.
TighterNot ==
  [or |-> "and", and |-> "null_check", null_check |-> "comparison", comparison |-> "not",
   not |-> "additive", additive |-> "multiplicative", multiplicative |-> "unary",
   unary |-> "primary"]
Tighter ==
  [or |-> "and", and |-> "not", not |-> "null_check", null_check |-> "comparison",
   comparison |-> "additive", additive |-> "multiplicative", multiplicative |-> "unary",
   unary |-> "primary"]
Chained ==
  [or |-> {Keyword("OR")}, and |-> {Keyword("AND")},
   additive |-> {Operator("+"), Operator("-")}, multiplicative |-> {Operator("*")}]

\* By token, the operator of the expression it makes.
Comparisons == ("=" :> "==") @@ ("!=" :> "!=") @@ ("<>" :> "!=") @@ ("<" :> "<")
               @@ ("<=" :> "<=") @@ (">" :> ">") @@ (">=" :> ">=")
OpOf(token) ==
  CASE token = Keyword("OR")  -> "or"
    [] token = Keyword("AND") -> "and"
    [] token[1] = "OPERATOR" /\ token[2] \in DOMAIN Comparisons -> Comparisons[token[2]]
    [] OTHER                  -> token[2]

\* _parse_qualified_name: the qualifier is discarded.
ParseQualifiedName(ts) ==
  Then(ExpectIdentifier(ts), LAMBDA name, rest :
    IF Head(rest) = Punctuation(".") THEN ExpectIdentifier(Tail(rest)) ELSE Parsed(name, rest))

RECURSIVE ParseExpr(_, _), ParseChain(_, _, _), ParsePrimary(_), ParseCall(_, _)

\* The while loop of a left-associative level.
ParseChain(level, left, ts) ==
  IF Head(ts) \notin Chained[level] THEN Parsed(left, ts)
  ELSE Then(ParseExpr(Tighter[level], Tail(ts)), LAMBDA right, rest :
         ParseChain(level, Binary(left, OpOf(Head(ts)), right), rest))

ParseExpr(level, ts) ==
  LET operand == ParseExpr(Tighter[level], ts) IN
  CASE level \in DOMAIN Chained ->
         Then(operand, LAMBDA left, rest : ParseChain(level, left, rest))
    [] level = "not" ->
         IF Head(ts) # Keyword("NOT") THEN operand
         ELSE Mapped(ParseExpr("not", Tail(ts)), LAMBDA e : Unary("not", e))
    [] level = "null_check" ->
         Then(operand, LAMBDA e, rest :
           IF Head(rest) # Keyword("IS") THEN Parsed(e, rest)
           ELSE IF rest[2] = Keyword("NOT")
             THEN Expect(Keyword("NULL"), SubSeq(rest, 3, Len(rest)),
                         LAMBDA after : Parsed(Unary("isnotnull", e), after))
             ELSE Expect(Keyword("NULL"), Tail(rest),
                         LAMBDA after : Parsed(Unary("isnull", e), after)))
    [] level = "comparison" ->
         Then(operand, LAMBDA left, rest :
           IF Head(rest)[1] = "OPERATOR" /\ Head(rest)[2] \in DOMAIN Comparisons
             THEN Mapped(ParseExpr(Tighter[level], Tail(rest)),
                         LAMBDA right : Binary(left, OpOf(Head(rest)), right))
             ELSE Parsed(left, rest))
    [] level = "unary" ->
         IF Head(ts) # Operator("-") THEN operand
         ELSE Mapped(ParseExpr("unary", Tail(ts)),
                     LAMBDA e : Binary(Literal(<<-1>>), "*", e))
    [] level = "primary" -> ParsePrimary(ts)

ParsePrimary(ts) ==
  LET rest == Tail(ts) IN
  CASE Head(ts)[1] = "NUMBER"      -> Parsed(Literal(<<Head(ts)[2]>>), rest)
    [] Head(ts) = Keyword("TRUE")  -> Parsed(Literal(Bool(TRUE)), rest)
    [] Head(ts) = Keyword("FALSE") -> Parsed(Literal(Bool(FALSE)), rest)
    [] Head(ts) = Keyword("NULL")  -> Parsed(Literal(Null), rest)
    [] Head(ts) = Punctuation("(") ->
         Then(ParseExpr("or", rest), LAMBDA e, after :
           Expect(Punctuation(")"), after, LAMBDA last : Parsed(e, last)))
    [] Head(ts)[1] = "IDENTIFIER" ->
         IF Head(rest) = Punctuation("(") THEN ParseCall(Head(ts)[2], Tail(rest))
         ELSE Mapped(ParseQualifiedName(ts), LAMBDA name : Column(name))
    [] OTHER -> SqlParseError

\* _parse_function_call, after its parenthesis.
ParseCall(name, ts) ==
  IF name \notin DOMAIN Functions THEN SqlParseError
  ELSE IF name = "COUNT" /\ Head(ts) = Operator("*")
    THEN Expect(Punctuation(")"), Tail(ts), LAMBDA rest : Parsed(CountStar, rest))
    ELSE Then(ParseExpr("or", ts), LAMBDA e, after :
           Expect(Punctuation(")"), after, LAMBDA rest : Parsed(Call(Functions[name], e), rest)))

ParseSelectItem(ts) ==
  Then(ParseExpr("or", ts), LAMBDA e, rest :
    IF Head(rest) = Keyword("AS")
      THEN Mapped(ExpectIdentifier(Tail(rest)), LAMBDA name : [expr |-> e, alias |-> <<name>>])
      ELSE Parsed([expr |-> e, alias |-> None], rest))

ParseOrderItem(ts) ==
  Then(ParseExpr("or", ts), LAMBDA e, rest :
    Parsed([expr |-> e, ascending |-> Head(rest) # Keyword("DESC")],
           IF Head(rest) \in {Keyword("ASC"), Keyword("DESC")} THEN Tail(rest) ELSE rest))

ParseItem(kind, ts) ==
  CASE kind = "SELECT" -> ParseSelectItem(ts)
    [] kind = "GROUP"  -> ParseExpr("or", ts)
    [] kind = "ORDER"  -> ParseOrderItem(ts)

\* Items separated by commas.
RECURSIVE ParseList(_, _)
ParseList(kind, ts) ==
  Then(ParseItem(kind, ts), LAMBDA item, rest :
    IF Head(rest) = Punctuation(",")
      THEN Mapped(ParseList(kind, Tail(rest)), LAMBDA items : <<item>> \o items)
      ELSE Parsed(<<item>>, rest))

-----------------------------------------------------------------------------
(* The clauses of a statement.                                             *)

\* Stands for an expression where the analyzer wants a column, or an
\* aggregate function: it rejects the plan, as no node has such a column.
NotAColumn == ""
ColumnName(e) == IF e.op = "column" THEN e.name ELSE NotAColumn

RECURSIVE Calls(_)
Calls(e) ==
  CASE e.op = "call"                -> {e}
    [] e.op \in {"column", "literal"} -> {}
    [] IsBinary(e)                  -> Calls(e.left) \union Calls(e.right)
    [] OTHER                        -> Calls(e.child)
ContainsAggregate(item) == Calls(item.expr) # {}

AsProjected(item) == [name |-> OutputName(item), expr |-> item.expr]
AsAggregate(item) ==
  IF item.expr.op = "call"
    THEN [name |-> OutputName(item), fn |-> item.expr.fn, expr |-> item.expr.child]
    ELSE [name |-> OutputName(item), fn |-> "sum", expr |-> Column(NotAColumn)]

\* Mutant: the check of the items that are not aggregated is missing.
SelectUnchecked(plan, items, group_by) ==
  LET aggregates == SelectSeq(items, ContainsAggregate)
  IN IF group_by = <<>> /\ aggregates = <<>>
       THEN Parsed(Project(plan, [i \in DOMAIN items |-> AsProjected(items[i])]), <<>>)
       ELSE Parsed(Aggregate(plan, [i \in DOMAIN group_by |-> ColumnName(group_by[i])],
                             [i \in DOMAIN aggregates |-> AsAggregate(aggregates[i])]), <<>>)

\* _apply_select of a list of items.  An item that is not aggregated has to be
\* a GROUP BY column, under whatever alias, which is then forgotten.
SelectItems(plan, items, group_by) ==
  LET group_names == {ColumnName(e) : e \in Range(group_by)}
      plain == {item \in Range(items) : ~ ContainsAggregate(item)}
  IN IF /\ group_by # <<>> \/ plain # Range(items)
        /\ \E item \in plain : ColumnName(item.expr) \notin group_names \ {NotAColumn}
       THEN SqlParseError
       ELSE SelectUnchecked(plan, items, group_by)

ApplySelect(plan, items, group_by, ts) ==
  IF items = None
    THEN IF group_by = <<>> THEN Parsed(plan, ts) ELSE SqlParseError
    ELSE Then(SelectItems(plan, items[1], group_by), LAMBDA selected, none : Parsed(selected, ts))

RECURSIVE Substitute(_, _)
Substitute(e, aggregates) ==
  CASE e.op = "call" ->
         Column((CHOOSE a \in Range(aggregates) : Call(a.fn, a.expr) = e).name)
    [] e.op \in {"column", "literal"} -> e
    [] IsBinary(e) -> Binary(Substitute(e.left, aggregates), e.op, Substitute(e.right, aggregates))
    [] OTHER       -> Unary(e.op, Substitute(e.child, aggregates))

\* The filter of HAVING; only the aggregates of the select list are known.
Having(plan, e) ==
  CASE plan.op # "aggregate" -> Parsed(Filter(plan, e), <<>>)
    [] plan.op = "aggregate"
         /\ Calls(e) \subseteq {Call(a.fn, a.expr) : a \in Range(plan.aggregates)} ->
           Parsed(Filter(plan, Substitute(e, plan.aggregates)), <<>>)
    [] OTHER -> SqlParseError

SelectList(ts) ==
  IF Head(ts) = Operator("*") THEN Parsed(None, Tail(ts))
  ELSE Mapped(ParseList("SELECT", ts), LAMBDA items : <<items>>)

TableRef(ts, tables) ==
  Then(ExpectIdentifier(ts), LAMBDA name, rest :
    IF name \in DOMAIN tables THEN Parsed(tables[name], rest) ELSE SqlParseError)

JoinClause(left, ts, tables) ==
  IF Head(ts) # Keyword("JOIN") THEN Parsed(left, ts)
  ELSE Then(TableRef(Tail(ts), tables), LAMBDA right, t1 :
       Expect(Keyword("ON"), t1, LAMBDA t2 :
       Then(ParseQualifiedName(t2), LAMBDA left_col, t3 :
       Expect(Operator("="), t3, LAMBDA t4 :
       Then(ParseQualifiedName(t4), LAMBDA right_col, rest :
       IF left_col = right_col THEN Parsed(Join(left, right, left_col, FALSE), rest)
                               ELSE SqlParseError)))))

WhereClause(plan, ts) ==
  IF Head(ts) # Keyword("WHERE") THEN Parsed(plan, ts)
  ELSE Mapped(ParseExpr("or", Tail(ts)), LAMBDA e : Filter(plan, e))

GroupClause(ts) ==
  IF Head(ts) # Keyword("GROUP") THEN Parsed(<<>>, ts)
  ELSE Expect(Keyword("BY"), Tail(ts), LAMBDA rest : ParseList("GROUP", rest))

HavingClause(plan, ts) ==
  IF Head(ts) # Keyword("HAVING") THEN Parsed(plan, ts)
  ELSE Then(ParseExpr("or", Tail(ts)), LAMBDA e, rest :
         Then(Having(plan, e), LAMBDA filtered, none : Parsed(filtered, rest)))

OrderClause(plan, ts) ==
  IF Head(ts) # Keyword("ORDER") THEN Parsed(plan, ts)
  ELSE Expect(Keyword("BY"), Tail(ts), LAMBDA t1 :
         Mapped(ParseList("ORDER", t1), LAMBDA items :
           Sort(plan, [i \in DOMAIN items |-> ColumnName(items[i].expr)],
                      [i \in DOMAIN items |-> items[i].ascending])))

\* parse_select_stmt; `tables` are the plans of the registered views.
ParseSql(ts, tables) ==
  Expect(Keyword("SELECT"), ts, LAMBDA t1 :
  Then(SelectList(t1), LAMBDA items, t2 :
  Expect(Keyword("FROM"), t2, LAMBDA t3 :
  Then(TableRef(t3, tables), LAMBDA from, t4 :
  Then(JoinClause(from, t4, tables), LAMBDA joined, t5 :
  Then(WhereClause(joined, t5), LAMBDA filtered, t6 :
  Then(GroupClause(t6), LAMBDA group_by, t7 :
  Then(ApplySelect(filtered, items, group_by, t7), LAMBDA selected, t8 :
  Then(HavingClause(selected, t8), LAMBDA had, t9 :
  Then(OrderClause(had, t9), LAMBDA plan, rest :
  IF rest = <<EOF>> THEN Parsed(plan, rest) ELSE SqlParseError))))))))))
=============================================================================
