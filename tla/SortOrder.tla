----------------------------- MODULE SortOrder -----------------------------
(***************************************************************************)
(* The sort keys of physical/operators.py.  A row is the tuple of its sort *)
(* expressions' values, each <<>> (None) or <<v>>, with v an integer; the  *)
(* sequence `ascending` holds a flag per sort expression.  What is sorted  *)
(* are (seq, row) pairs.                                                   *)
(***************************************************************************)
EXTENDS Nulls, Integers, Sequences, FiniteSets, SequencesExt

OrZero(value) == IF value = Null THEN 0 ELSE value[1]

\* A stable sort: Before is a strict weak order on the elements.
StableSort(rows, Before(_, _)) ==
  LET rank(i) == 1 + Cardinality({j \in DOMAIN rows :
                       \/ Before(rows[j], rows[i])
                       \/ j < i /\ ~ Before(rows[i], rows[j])})
  IN [n \in DOMAIN rows |-> rows[CHOOSE i \in DOMAIN rows : rank(i) = n]]

\* Python's comparison of tuples of integers of the same length.
LexLess(a, b) ==
  \E n \in DOMAIN a : a[n] < b[n] /\ \A m \in 1 .. n - 1 : a[m] = b[m]

\* _null_last_sort_key, FALSE < TRUE being 0 < 1.
NullLastSortKey(asc, value) ==
  <<IF (value = Null) = asc THEN 1 ELSE 0, OrZero(value)>>

\* One list.sort(reverse=not asc), which keeps ties in place either way.
SortPass(e, asc, rows) ==
  LET key(pair) == NullLastSortKey(asc, pair.row[e])
  IN StableSort(rows, LAMBDA a, b : IF asc THEN LexLess(key(a), key(b))
                                           ELSE LexLess(key(b), key(a)))

\* _sort_rows: one pass per sort expression, the last one first.
SortRows(ascending, rows) ==
  FoldLeft(LAMBDA sorted, e : SortPass(e, ascending[e], sorted), rows,
           Reverse([e \in DOMAIN ascending |-> e]))

\* Mutant: the merge key without its tie-breaker.
CompositeKeyNoSeq(ascending, pair) ==
  FlattenSeq([e \in DOMAIN ascending |->
     <<IF pair.row[e] = Null THEN 1 ELSE 0,
       IF ascending[e] THEN OrZero(pair.row[e]) ELSE - OrZero(pair.row[e])>>])

\* _composite_sort_key; _Desc inverts the comparison, as a sign does.
CompositeKey(ascending, pair) ==
  Append(FlattenSeq([e \in DOMAIN ascending |->
           <<IF pair.row[e] = Null THEN 1 ELSE 0,
             IF ascending[e] THEN OrZero(pair.row[e]) ELSE - OrZero(pair.row[e])>>]),
         pair.seq)

-----------------------------------------------------------------------------
\* What the keys are for: SQL's ORDER BY, nulls last whatever the direction.
Precedes(ascending, a, b) ==
  \E e \in DOMAIN ascending :
    /\ \A d \in 1 .. e - 1 : a[d] = b[d]
    /\ a[e] # Null
    /\ \/ b[e] = Null
       \/ b[e] # Null /\ ascending[e] /\ a[e][1] < b[e][1]
       \/ b[e] # Null /\ ~ ascending[e] /\ a[e][1] > b[e][1]

\* The one stable sort of a sequence of rows, tagged with their positions.
OrderedBy(ascending, rows) ==
  StableSort([i \in DOMAIN rows |-> [seq |-> i - 1, row |-> rows[i]]],
             LAMBDA a, b : Precedes(ascending, a.row, b.row))
=============================================================================
