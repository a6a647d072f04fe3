----------------------------- MODULE StageLists -----------------------------
(***************************************************************************)
(* What build_stages promises the scheduler of a list of n stages, told by *)
(* their numbers of partitions, the ShuffleReadExec leaves of their plans  *)
(* and the targets that each of their partitions sends records to.         *)
(***************************************************************************)
EXTENDS Naturals, FiniteSets

\* Only the last one does not write a shuffle.
StageIds(n) == 0 .. n - 1
PartitionIds(parts, s) == 0 .. parts[s] - 1

Leaves(n) == [from : StageIds(n), broadcast : BOOLEAN]

\* A leaf names an earlier stage, and no two leaves the same one: _split makes
\* a stage and the one leaf that reads it of every ExchangeExec.  A task sends
\* records to finitely many targets.
WellFormed(n, parts, reads, emits) ==
  /\ n \in Nat \ {0}
  /\ parts \in [StageIds(n) -> Nat \ {0}]
  /\ reads \in [StageIds(n) -> SUBSET Leaves(n)]
  /\ \A s \in StageIds(n) : \A leaf \in reads[s] : leaf.from < s
  /\ \A s1, s2 \in StageIds(n) : \A l1 \in reads[s1], l2 \in reads[s2] :
        l1.from = l2.from => s1 = s2 /\ l1 = l2
  /\ DOMAIN emits = StageIds(n)
  /\ \A s \in StageIds(n) : emits[s] \in [PartitionIds(parts, s) -> SUBSET Nat]
  /\ \A s \in StageIds(n) : \A p \in PartitionIds(parts, s) : IsFiniteSet(emits[s][p])
  /\ \A p \in PartitionIds(parts, n - 1) : emits[n - 1][p] = {}
=============================================================================
