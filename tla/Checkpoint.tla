----------------------------- MODULE Checkpoint -----------------------------
(***************************************************************************)
(* storage/checkpoint.py: DataFrame.checkpoint writes a dataset to one     *)
(* directory, a file per partition and then _meta.pkl; a                   *)
(* CheckpointDataSource opened on the directory reads the partitions back, *)
(* lazily and by path.  Nothing is locked, renamed or synchronised, the    *)
(* writer may be interrupted anywhere, and the files outlive it.           *)
(***************************************************************************)
EXTENDS Naturals, Sequences, FiniteSets

CONSTANTS
  Datasets,      \* the datasets that are checkpointed to the directory
  NumPartitions, \* by dataset
  NumRows,       \* rows of every partition
  MaxAttempts,   \* bound: calls of write_checkpoint
  MaxOpens       \* bound: sources opened

None == "none"
Torn == "torn"

ASSUME CheckpointAssumption ==
  /\ NumPartitions \in [Datasets -> Nat \ {0}]
  /\ {NumRows, MaxAttempts, MaxOpens} \subseteq Nat
  /\ Datasets \cap {None, Torn} = {}

VARIABLES
  files,      \* partition_<p>.pkl, by p: whose rows, how many, cut in the last
  meta,       \* _meta.pkl: None, Torn or the dataset it describes
  writer,     \* the dataset being written, the partition and its open file
  attempts,
  source,     \* the dataset an open source took from _meta.pkl, or None
  rows_read,  \* what the source's partitions have yielded so far
  opens,
  reused,     \* history: a checkpoint was begun over the one _meta.pkl describes
  undisturbed \* history: not so when the source opened, and none begun since

vars == <<files, meta, writer, attempts, source, rows_read, opens, reused, undisturbed>>
disk == <<files, meta>>
reader == <<source, rows_read, opens>>
history == <<reused, undisturbed>>

File == [of : Datasets, rows : 0 .. NumRows, torn : BOOLEAN]
Idle == [dataset |-> None, part |-> 0, open |-> FALSE]

TypeOK ==
  /\ DOMAIN files \subseteq Nat
  /\ files \in [DOMAIN files -> File]
  /\ meta \in Datasets \union {None, Torn}
  /\ writer \in [dataset : Datasets \union {None}, part : Nat, open : BOOLEAN]
  /\ source \in Datasets \union {None}
  /\ rows_read \in Seq(File)
  /\ reused \in BOOLEAN /\ undisturbed \in BOOLEAN

Init ==
  /\ files = [p \in {} |-> None]
  /\ meta = None
  /\ writer = Idle
  /\ attempts = 0
  /\ source = None
  /\ rows_read = <<>>
  /\ opens = 0
  /\ reused = FALSE
  /\ undisturbed = FALSE

-----------------------------------------------------------------------------
(* write_checkpoint.                                                       *)

StartCheckpoint(d) ==
  /\ writer = Idle
  /\ attempts < MaxAttempts
  /\ attempts' = attempts + 1
  /\ writer' = [dataset |-> d, part |-> 0, open |-> FALSE]
  /\ reused' = (meta \in Datasets)
  /\ undisturbed' = FALSE
  /\ UNCHANGED <<disk, reader>>

AtPartition == writer # Idle /\ writer.part < NumPartitions[writer.dataset]
AtMeta == writer # Idle /\ writer.part = NumPartitions[writer.dataset]

SetFile(p, file) ==
  files' = [q \in DOMAIN files \union {p} |-> IF q = p THEN file ELSE files[q]]

\* Mutant: _meta.pkl is written before the partitions.
OpenPartitionMetaFirst ==
  /\ AtPartition /\ ~ writer.open
  /\ SetFile(writer.part, [of |-> writer.dataset, rows |-> 0, torn |-> FALSE])
  /\ writer' = [writer EXCEPT !.open = TRUE]
  /\ meta' = writer.dataset
  /\ UNCHANGED <<attempts, reader, history>>

\* path.open("wb") truncates what was there.
OpenPartition ==
  /\ AtPartition /\ ~ writer.open
  /\ SetFile(writer.part, [of |-> writer.dataset, rows |-> 0, torn |-> FALSE])
  /\ writer' = [writer EXCEPT !.open = TRUE]
  /\ UNCHANGED <<meta, attempts, reader, history>>

WriteRow ==
  /\ AtPartition /\ writer.open
  /\ files[writer.part].rows < NumRows
  /\ files' = [files EXCEPT ![writer.part].rows = @ + 1]
  /\ UNCHANGED <<meta, writer, attempts, reader, history>>

ClosePartition ==
  /\ AtPartition /\ writer.open
  /\ files[writer.part].rows = NumRows
  /\ writer' = [writer EXCEPT !.part = writer.part + 1, !.open = FALSE]
  /\ UNCHANGED <<disk, attempts, reader, history>>

OpenMeta ==
  /\ AtMeta /\ ~ writer.open
  /\ meta' = Torn
  /\ writer' = [writer EXCEPT !.open = TRUE]
  /\ reused' = FALSE
  /\ UNCHANGED <<files, attempts, reader, undisturbed>>

WriteMeta ==
  /\ AtMeta /\ writer.open
  /\ meta' = writer.dataset
  /\ writer' = Idle
  /\ UNCHANGED <<files, attempts, reader, history>>

\* The process is killed or the disk is full: of what was written to the open
\* file only a part has reached it, perhaps with a record cut in two.
Interrupt ==
  /\ writer # Idle
  /\ writer' = Idle
  /\ IF AtPartition /\ writer.open
       THEN \E cut \in BOOLEAN, left \in 0 .. files[writer.part].rows :
              /\ cut => left < NumRows
              /\ SetFile(writer.part, [of |-> writer.dataset, rows |-> left, torn |-> cut])
       ELSE UNCHANGED files
  /\ UNCHANGED <<meta, attempts, reader, history>>

Writer ==
  \/ \E d \in Datasets : StartCheckpoint(d)
  \/ OpenPartition
  \/ WriteRow
  \/ ClosePartition
  \/ OpenMeta
  \/ WriteMeta
  \/ Interrupt

-----------------------------------------------------------------------------
(* CheckpointDataSource.                                                   *)

\* Mutant: the constructor takes whatever _meta.pkl is.
OpenSourceUnchecked ==
  /\ opens < MaxOpens
  /\ meta # None
  /\ opens' = opens + 1
  /\ source' = meta
  /\ rows_read' = <<>>
  /\ undisturbed' = ~ reused
  /\ UNCHANGED <<disk, writer, attempts, reused>>

\* The constructor; without a readable _meta.pkl it raises.
OpenSource ==
  /\ opens < MaxOpens
  /\ meta \in Datasets
  /\ opens' = opens + 1
  /\ source' = meta
  /\ rows_read' = <<>>
  /\ undisturbed' = ~ reused
  /\ UNCHANGED <<disk, writer, attempts, reused>>

Finished == source # None /\ Len(rows_read) = NumPartitions[source]

\* _read_checkpoint_partition: whatever records the file holds now.  A cut
\* record makes pickle.load raise, and the query fails.
ReadPartition ==
  /\ source # None
  /\ ~ Finished
  /\ LET p == Len(rows_read) IN
       IF p \in DOMAIN files /\ ~ files[p].torn
         THEN rows_read' = Append(rows_read, files[p]) /\ UNCHANGED source
         ELSE rows_read' = <<>> /\ source' = None
  /\ UNCHANGED <<disk, writer, attempts, opens, history>>

Next == Writer \/ OpenSource \/ ReadPartition

Spec == Init /\ [][Next]_vars

-----------------------------------------------------------------------------
(* Properties.                                                             *)

\* _meta.pkl is the commit point: a source that opens reads, to the last row,
\* the dataset it describes, although attempts to write it were interrupted
\* anywhere, over the remains of others or over a complete checkpoint.  Two
\* sources may read something else: one that was open when the next checkpoint
\* began, and one opened before that has replaced the _meta.pkl it found.
ReadsWholeDataset ==
  Finished /\ undisturbed =>
    \A n \in DOMAIN rows_read :
       rows_read[n].of = source /\ rows_read[n].rows = NumRows
=============================================================================
