--------------------------- MODULE MCExternalSort ---------------------------
(* Small partitions for checking ExternalSort.                              *)
EXTENDS ExternalSort

\* ORDER BY x ASC, y DESC.
MCAscending == <<TRUE, FALSE>>
MCValues == {<<>>, <<0>>, <<1>>}
\* A run per row or two, a run per two or three rows, no run.
MCThresholds == {4, 8, 100}
=============================================================================
