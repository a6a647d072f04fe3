----------------------------- MODULE MCGroupBy -----------------------------
(* Small datasets for checking GroupBy.                                     *)
EXTENDS GroupBy

\* "a" and "A" are equal keys (1 and True), "b" another.  Their hashes differ,
\* but not the partitions these give.
MCKeys == {"a", "A", "b"}
MCClass == "a" :> "a" @@ "A" :> "a" @@ "b" :> "b"
MCAggs == <<"count_star", "count", "sum", "avg", "min", "max">>
MCValues == {Null, <<-1>>, <<2>>}

\* Both groups in one of two partitions, apart in two of three.
MCHash == "a" :> 4 @@ "A" :> 10 @@ "b" :> 2
MCShufflePartitions == {1, 2, 3}
=============================================================================
