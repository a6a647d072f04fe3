---------------------------- MODULE MCCheckpoint ----------------------------
(* Datasets for checking Checkpoint: one of three partitions, one of two.   *)
EXTENDS Checkpoint, TLC

MCDatasets == {"old", "new"}
MCPartitions == "old" :> 3 @@ "new" :> 2
=============================================================================
