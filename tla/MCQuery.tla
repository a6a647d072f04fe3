------------------------------- MODULE MCQuery -------------------------------
(* Three tables and a fourth to join them with, the arguments of the calls *)
(* that build a query, and the statements, for Query.                      *)
EXTENDS Query

\* m: the type of c is that of no value at all.  s: the sample has no value of
\* b.  p: the row groups are not of one size.
MCTables ==
  [m |-> [kind |-> "memory", columns |-> <<"a", "b", "c">>, num_partitions |-> 2,
          rows |-> <<[a |-> <<1>>, b |-> <<2>>, c |-> <<>>],
                     [a |-> <<2>>, b |-> <<1>>, c |-> <<0>>],
                     [a |-> <<>>, b |-> <<2>>, c |-> <<1>>],
                     [a |-> <<1>>, b |-> <<1>>, c |-> <<1>>]>>],
   s |-> [kind |-> "csv", columns |-> <<"a", "b", "c">>, num_partitions |-> 3,
          rows |-> <<[a |-> <<2>>, b |-> <<>>, c |-> <<1>>],
                     [a |-> <<1>>, b |-> <<2>>, c |-> <<1>>],
                     [a |-> <<1>>, b |-> <<1>>, c |-> <<0>>],
                     [a |-> <<3>>, b |-> <<2>>, c |-> <<1>>],
                     [a |-> <<2>>, b |-> <<1>>, c |-> <<1>>]>>],
   p |-> [kind |-> "parquet", columns |-> <<"a", "b", "c">>, num_partitions |-> 2,
          row_groups |-> <<1, 2, 1>>,
          rows |-> <<[a |-> <<2>>, b |-> <<1>>, c |-> <<1>>],
                     [a |-> <<1>>, b |-> <<2>>, c |-> <<>>],
                     [a |-> <<1>>, b |-> <<1>>, c |-> <<0>>],
                     [a |-> <<3>>, b |-> <<2>>, c |-> <<1>>]>>],
   t |-> [kind |-> "csv", columns |-> <<"a", "d">>, num_partitions |-> 2,
          rows |-> <<[a |-> <<1>>, d |-> <<1>>], [a |-> <<>>, d |-> <<2>>],
                     [a |-> <<1>>, d |-> <<>>]>>]]

\* Any function of the key would do.
MCHash(key) == FoldLeft(LAMBDA h, v : 3 * h + (IF v = Null THEN 7 ELSE 10 + v[1]), 0, key)

-----------------------------------------------------------------------------
a == Column("a")
b == Column("b")
c == Column("c")
d == Column("d")
N(n) == Literal(<<n>>)
Is(e, n) == Binary(e, "==", N(n))
And(x, y) == Binary(x, "and", y)
Or(x, y) == Binary(x, "or", y)
Not(x) == Unary("not", x)
As(expr, name) == [expr |-> expr, name |-> name]
AsCall(fn, expr, name) == [fn |-> fn, expr |-> expr, name |-> name]

MCConditions ==
  {Is(a, 1), Is(d, 1), Binary(b, ">", a),
   And(Not(Not(Is(c, 1))), Binary(N(1), ">", N(0))),
   And(Binary(Binary(a, "+", b), ">", N(2)), Binary(c, ">=", N(0))),
   Or(Unary("isnull", c), Binary(Binary(a, "+", b), ">", N(3)))}

Negated == {Not(And(Is(a, 1), Binary(Binary(a, "+", b), ">", N(2)))), Binary(c, "!=", N(1))}

MCProjections ==
  {PlainColumns(<<"b", "a">>), <<As(a, "a"), As(Is(b, 1), "d")>>, <<As(c, "e"), As(a, "a")>>}

Renaming == {<<As(a, "b"), As(b, "a")>>}

MCGroupings ==
  {[group_by |-> <<"a">>,
    aggregates |-> <<AsCall("sum", b, "d"), AsCall("count_star", Literal(Null), "n")>>],
   [group_by |-> <<"b", "a">>, aggregates |-> <<AsCall("max", c, "c"), AsCall("count", c, "n")>>]}

MCOrders ==
  {[keys |-> <<"b">>, ascending |-> <<FALSE>>],
   [keys |-> <<"a", "c">>, ascending |-> <<TRUE, FALSE>>]}

MCConfigs ==
  {[predicate_pushdown |-> TRUE, projection_pruning |-> TRUE, shuffle_partitions |-> 2],
   [predicate_pushdown |-> FALSE, projection_pruning |-> TRUE, shuffle_partitions |-> 3],
   [predicate_pushdown |-> TRUE, projection_pruning |-> FALSE, shuffle_partitions |-> 1]}

-----------------------------------------------------------------------------
Star(from) ==
  [items |-> None, from |-> from, join |-> None, where |-> None, group_by |-> <<>>,
   having |-> None, order_by |-> <<>>, tail |-> <<>>]
Item(expr) == [expr |-> expr, alias |-> None]
ItemAs(expr, name) == [expr |-> expr, alias |-> <<name>>]
SelectFrom(from, items) == [Star(from) EXCEPT !.items = <<items>>]
By(expr, ascending) == [expr |-> expr, ascending |-> ascending]
Sum(e) == Call("sum", e)
GrouperOf(items) == [SelectFrom("m", items) EXCEPT !.group_by = <<a>>]
OnColumns(left, right) == <<[table |-> "t", left |-> left, right |-> right]>>

\* How the operators nest.
Wheres ==
  {Or(Is(a, 1), And(Is(b, 2), Is(c, 0))), And(Or(Is(a, 1), Is(b, 2)), Is(c, 1)),
   Or(And(Is(c, 1), Is(b, 1)), Is(a, 2)), Not(Is(b, 1)), And(Not(Is(b, 1)), Is(c, 1)),
   Not(And(Is(b, 1), Is(c, 1))), Not(Not(Is(b, 2))),
   Unary("isnull", a), Not(Unary("isnull", a)), Unary("isnotnull", Binary(b, "*", b)),
   Is(Binary(Binary(b, "-", N(1)), "-", N(1)), 0), Is(Binary(b, "-", Binary(b, "-", N(1))), 1),
   Is(Binary(b, "+", Binary(b, "*", N(2))), 3), Is(Binary(Binary(b, "+", b), "*", N(2)), 4),
   Binary(N(-1), "<", Binary(N(-1), "*", b)), Binary(Is(b, 1), "==", Is(c, 1)),
   Binary(a, "<=", b), Binary(b, "!=", N(2)), Is(d, 1)}

Plain ==
  {SelectFrom("m", <<Item(b), ItemAs(Binary(b, "+", N(1)), "e")>>),
   SelectFrom("s", <<ItemAs(a, "e"), Item(b)>>),
   SelectFrom("p", <<Item(a), Item(a)>>),
   SelectFrom("m", <<Item(d)>>),
   SelectFrom("nowhere", <<Item(a)>>),
   [SelectFrom("s", <<Item(c), Item(a)>>) EXCEPT !.order_by = <<By(a, FALSE), By(c, TRUE)>>],
   [SelectFrom("s", <<Item(c)>>) EXCEPT !.order_by = <<By(a, FALSE)>>],
   [SelectFrom("s", <<ItemAs(a, "e")>>) EXCEPT !.order_by = <<By(Binary(a, "*", a), TRUE)>>],
   [Star("p") EXCEPT !.where = <<Is(a, 1)>>, !.order_by = <<By(b, TRUE)>>],
   [SelectFrom("p", <<ItemAs(a, "e")>>) EXCEPT !.having = <<Is(Column("e"), 1)>>],
   [Star("m") EXCEPT !.tail = <<Identifier("a")>>],
   [Star("m") EXCEPT !.order_by = <<By(b, TRUE)>>, !.tail = <<Keyword("WHERE"), Identifier("b")>>],
   [Star("m") EXCEPT !.group_by = <<a>>]}

Grouped ==
  {GrouperOf(<<Item(a), ItemAs(Sum(b), "e")>>),
   GrouperOf(<<ItemAs(CountStar, "n"), ItemAs(Call("min", c), "e"), Item(a)>>),
   GrouperOf(<<Item(a), Item(b), Item(CountStar)>>),
   GrouperOf(<<Item(a), ItemAs(Binary(Sum(b), "+", N(1)), "e")>>),
   [GrouperOf(<<Item(a), Item(Sum(b))>>) EXCEPT !.having = <<Binary(Sum(b), ">", N(2))>>],
   [GrouperOf(<<Item(a), Item(Sum(b))>>) EXCEPT !.having = <<Binary(CountStar, ">", N(1))>>],
   [GrouperOf(<<Item(a), ItemAs(CountStar, "n")>>) EXCEPT
      !.having = <<Not(Is(CountStar, 1))>>, !.order_by = <<By(Column("n"), FALSE)>>],
   [GrouperOf(<<Item(a), ItemAs(Sum(b), "e")>>) EXCEPT
      !.where = <<Is(c, 1)>>, !.order_by = <<By(Column("e"), TRUE), By(a, TRUE)>>],
   [GrouperOf(<<Item(a), Item(c), ItemAs(Sum(b), "e")>>) EXCEPT !.group_by = <<a, c>>],
   [GrouperOf(<<ItemAs(Sum(b), "e")>>) EXCEPT !.group_by = <<Binary(a, "+", b)>>],
   SelectFrom("s", <<Item(a), ItemAs(Sum(b), "e")>>),
   SelectFrom("s", <<ItemAs(Sum(a), "e"), ItemAs(Call("count", b), "n")>>)}

Joining ==
  {[Star("m") EXCEPT !.join = OnColumns("a", "a")],
   [Star("m") EXCEPT !.join = OnColumns("a", "d")],
   [SelectFrom("s", <<Item(d), Item(b)>>) EXCEPT
      !.join = OnColumns("a", "a"), !.where = <<And(Is(d, 1), Unary("isnotnull", b))>>],
   [GrouperOf(<<Item(a), ItemAs(Sum(c), "e")>>) EXCEPT !.from = "p", !.join = OnColumns("a", "a")]}

OfView ==
  {Star(View), [Star(View) EXCEPT !.where = <<Is(a, 1)>>],
   [GrouperOf(<<Item(a), ItemAs(CountStar, "k")>>) EXCEPT !.from = View]}

MCStatements ==
  {[Star("m") EXCEPT !.where = <<e>>] : e \in Wheres} \union Plain \union Grouped
  \union Joining \union OfView
=============================================================================
