----------------------------- MODULE MCOrderBy -----------------------------
(* Small datasets for checking OrderBy.                                     *)
EXTENDS OrderBy

\* Both directions of the first key, the second the other way round.
MCDirections == {<<TRUE, FALSE>>, <<FALSE, TRUE>>}
\* The first key is cut into ranges: 0 is a boundary of three ranges between
\* -1 and 2, and lies between those of two.
MCValues == <<{<<>>, <<-1>>, <<0>>, <<2>>}, {<<>>, <<1>>}>>
MCShufflePartitions == {1, 2, 3}
=============================================================================
