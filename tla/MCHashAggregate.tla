-------------------------- MODULE MCHashAggregate --------------------------
(* Small partitions for checking HashAggregate.                             *)
EXTENDS HashAggregate

\* "a" and "A" are equal keys of different sizes (1.0 and 1), "b" another.
MCKeys == {"a", "A", "b"}
MCClass == "a" :> "a" @@ "A" :> "a" @@ "b" :> "b"
MCKeyBytes == "a" :> 1 @@ "A" :> 2 @@ "b" :> 1
MCBucket == "a" :> 0 @@ "A" :> 0 @@ "b" :> 1
MCValues == {Null, <<-1>>, <<2>>}

MCAggs == <<"count_star", "count", "sum", "avg", "min", "max">>

\* One group of values spills, two groups spill, nothing spills.
MCThresholds == {12, 23, 100}

\* Equal keys whose reprs fall into different buckets (0.0 and -0.0).
ReprBucket == "a" :> 0 @@ "A" :> 1 @@ "b" :> 1
=============================================================================
