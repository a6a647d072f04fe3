----------------------------- MODULE Aggregates -----------------------------
(***************************************************************************)
(* expressions/aggregate.py: Count, Sum, Avg, Min and Max as the four      *)
(* steps HashAggregateExec drives.  A nullable value is <<>> (None) or     *)
(* <<v>>.  Values are integers.  Avg's quotient is kept as the pair of its *)
(* total and its count.                                                    *)
(***************************************************************************)
EXTENDS Nulls, Integers, Sequences, FiniteSets, FiniteSetsExt

Nullable == {Null} \union {<<v>> : v \in Int}

Counts == {"count_star", "count"}
Folds2 == {"sum", "min", "max"}         \* whose state is a nullable value
AggregateFunction == Counts \union Folds2 \union {"avg"}

State(agg) ==
  IF agg \in Counts THEN Int ELSE IF agg = "avg" THEN Int \X Int ELSE Nullable

Initialize(agg) ==
  IF agg \in Counts THEN 0 ELSE IF agg = "avg" THEN <<0, 0>> ELSE Null

\* What sum, min and max make of two values that are there.
Both(agg, a, b) ==
  IF agg = "sum" THEN a + b
  ELSE IF agg = "min" THEN (IF a < b THEN a ELSE b)
  ELSE (IF a > b THEN a ELSE b)

Update(agg, state, value) ==
  IF agg = "count_star" THEN state + 1
  ELSE IF value = Null THEN state
  ELSE IF agg = "count" THEN state + 1
  ELSE IF agg = "avg" THEN <<state[1] + value[1], state[2] + 1>>
  ELSE IF state = Null THEN value
  ELSE <<Both(agg, value[1], state[1])>>

Merge(agg, a, b) ==
  IF agg \in Counts THEN a + b
  ELSE IF agg = "avg" THEN <<a[1] + b[1], a[2] + b[2]>>
  ELSE IF a = Null THEN b
  ELSE IF b = Null THEN a
  ELSE <<Both(agg, a[1], b[1])>>

Finalize(agg, state) ==
  IF agg = "avg" /\ state[2] = 0 THEN Null ELSE state

-----------------------------------------------------------------------------
\* The value SQL gives an aggregate over a whole group: `values` is the
\* sequence of the group's nullable inputs.
Reference(agg, values) ==
  LET there == {i \in DOMAIN values : values[i] # Null}
      total == MapThenSumSet(LAMBDA i : values[i][1], there)
      bag == {values[i][1] : i \in there}
  IN CASE agg = "count_star" -> Len(values)
       [] agg = "count" -> Cardinality(there)
       [] agg \notin Counts /\ there = {} -> Null
       [] agg = "sum" /\ there # {} -> <<total>>
       [] agg = "avg" /\ there # {} -> <<total, Cardinality(there)>>
       [] agg = "min" /\ there # {} -> <<Min(bag)>>
       [] agg = "max" /\ there # {} -> <<Max(bag)>>
=============================================================================
