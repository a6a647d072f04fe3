------------------------------- MODULE Ranges -------------------------------
(***************************************************************************)
(* A range cut into n partitions of the same width, and the partition of a *)
(* key.  Boundaries are kept times n, so that they are integers.           *)
(***************************************************************************)
EXTENDS Integers, FiniteSets

\* lo + step * i, for i in 1 .. n - 1.
RangeBoundaries(n, lo, hi) == [i \in 1 .. n - 1 |-> lo * n + (hi - lo) * i]

\* RangePartitioner.partition_for: bisect_right of ascending boundaries.
RangePartitionFor(boundaries, n, key) ==
  Cardinality({i \in DOMAIN boundaries : boundaries[i] <= key * n})
=============================================================================
