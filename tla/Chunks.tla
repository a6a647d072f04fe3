------------------------------- MODULE Chunks -------------------------------
(***************************************************************************)
(* How the sources cut a table into partitions: `total` rows (of Parquet,  *)
(* row groups), at most `wanted` partitions, all but the last of the same  *)
(* size.  Rows and partitions count from 0.                                *)
(***************************************************************************)
EXTENDS Integers

Lower(a, b) == IF a <= b THEN a ELSE b
Higher(a, b) == IF a >= b THEN a ELSE b

\* Mutant: floor division, which leaves the last rows to nobody.
FloorDiv(a, b) == a \div b

\* -(-a // b)
CeilDiv(a, b) == - ((- a) \div b)

\* n: no more partitions than rows, and one if there is no row.
Wanted(total, wanted) == Higher(1, Lower(wanted, IF total = 0 THEN 1 ELSE total))

ChunkSize(total, wanted) == CeilDiv(total, Wanted(total, wanted))

Start(total, wanted, i) == i * ChunkSize(total, wanted)
End(total, wanted, i) == Lower((i + 1) * ChunkSize(total, wanted), total)

\* The partitions that are not skipped for being empty.
Partitions(total, wanted) ==
  {i \in 0 .. Wanted(total, wanted) - 1 :
     total = 0 \/ Start(total, wanted, i) < End(total, wanted, i)}

\* The row indices of a partition.
Chunk(total, wanted, i) == Start(total, wanted, i) .. End(total, wanted, i) - 1
=============================================================================
