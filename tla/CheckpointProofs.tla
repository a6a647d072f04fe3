-------------------------- MODULE CheckpointProofs --------------------------
(***************************************************************************)
(* _meta.pkl is a commit point: whoever opens a CheckpointDataSource reads *)
(* one whole dataset, for any datasets, any number of partitions, rows,    *)
(* attempts and interruptions, unless a checkpoint over it has begun.      *)
(***************************************************************************)
EXTENDS Checkpoint, TLAPS

-----------------------------------------------------------------------------
(* The inductive invariant.                                                *)

Whole(d) == [of |-> d, rows |-> NumRows, torn |-> FALSE]
Written(d, p) == p \in DOMAIN files /\ files[p] = Whole(d)

\* While a dataset is written there is no readable _meta.pkl but that of a
\* reused directory, the partitions before the current one are whole, and an
\* open one is the dataset's.
WriterInv ==
  writer # Idle =>
    /\ writer.dataset \in Datasets
    /\ writer.part <= NumPartitions[writer.dataset]
    /\ ~ reused => meta \notin Datasets
    /\ \A p \in Nat : p < writer.part => Written(writer.dataset, p)
    /\ writer.open /\ writer.part < NumPartitions[writer.dataset] =>
         /\ writer.part \in DOMAIN files
         /\ files[writer.part].of = writer.dataset
         /\ ~ files[writer.part].torn

\* What a readable _meta.pkl describes is on disk, if it is not written over.
MetaInv ==
  meta \in Datasets /\ ~ reused => \A p \in Nat : p < NumPartitions[meta] => Written(meta, p)

\* A source nobody disturbed describes what is on disk and has read just that.
SourceInv ==
  source # None /\ undisturbed =>
    /\ ~ reused
    /\ meta = source
    /\ Len(rows_read) <= NumPartitions[source]
    /\ \A n \in DOMAIN rows_read : rows_read[n] = Whole(source)

IInv == TypeOK /\ WriterInv /\ MetaInv /\ SourceInv

-----------------------------------------------------------------------------
(* Lemmas.                                                                 *)

\* Datasets are not the two words for no dataset.
LEMMA NoDataset ==
  None \notin Datasets /\ Torn \notin Datasets /\ None # Torn
BY CheckpointAssumption DEF None, Torn

\* The constants are numbers.
LEMMA Numbers ==
  NumRows \in Nat /\ \A d \in Datasets : NumPartitions[d] \in Nat /\ NumPartitions[d] > 0
BY CheckpointAssumption

\* A whole file is a file.
LEMMA WholeIsFile ==
  ASSUME NEW d \in Datasets
  PROVE  Whole(d) \in File
BY Numbers DEF Whole, File

\* Replacing or adding one file keeps the directory well formed.
LEMMA SetFileType ==
  ASSUME TypeOK, NEW p \in Nat, NEW f \in File, SetFile(p, f)
  PROVE  /\ DOMAIN files' = DOMAIN files \union {p}
         /\ DOMAIN files' \subseteq Nat
         /\ files' \in [DOMAIN files' -> File]
         /\ files'[p] = f
         /\ \A q \in DOMAIN files : q # p => files'[q] = files[q]
BY DEF TypeOK, SetFile

\* An idle writer needs no invariant.
LEMMA IdleType ==
  /\ Idle \in [dataset : Datasets \union {None}, part : Nat, open : BOOLEAN]
  /\ Idle.dataset = None
BY DEF Idle

-----------------------------------------------------------------------------
(* The invariant holds initially and is kept by every action.              *)

LEMMA InitIInv == Init => IInv
<1> SUFFICES ASSUME Init PROVE IInv
  OBVIOUS
<1>1. TypeOK
  <2>1. reused \in BOOLEAN /\ undisturbed \in BOOLEAN
    BY DEF Init
  <2>2. DOMAIN files = {} /\ files \in [{} -> File]
    BY DEF Init
  <2> QED BY <2>1, <2>2, IdleType DEF Init, TypeOK
<1>2. WriterInv /\ SourceInv
  BY DEF Init, WriterInv, SourceInv
<1>3. MetaInv
  BY NoDataset DEF Init, MetaInv
<1> QED
  BY <1>1, <1>2, <1>3 DEF IInv

\* A call of write_checkpoint begins.
LEMMA StartStep ==
  ASSUME IInv, NEW d \in Datasets, StartCheckpoint(d)
  PROVE  IInv'
<1>1. /\ writer' = [dataset |-> d, part |-> 0, open |-> FALSE]
      /\ reused' = (meta \in Datasets) /\ undisturbed' = FALSE
      /\ UNCHANGED <<files, meta, source, rows_read, opens>>
  BY DEF StartCheckpoint, disk, reader
<1>2. reused' \in BOOLEAN /\ (~ reused' => meta' \notin Datasets)
  <2>1. CASE meta \in Datasets
    BY <1>1, <2>1
  <2>2. CASE meta \notin Datasets
    BY <1>1, <2>2
  <2> QED BY <2>1, <2>2
<1>3. writer'.dataset = d /\ writer'.part = 0 /\ writer'.open = FALSE
  BY <1>1
<1>4. TypeOK'
  BY <1>1, <1>2 DEF IInv, TypeOK, File
<1>5. WriterInv'
  BY <1>1, <1>2, <1>3, Numbers DEF WriterInv
<1>6. MetaInv' /\ SourceInv'
  <2>1. ~ (meta' \in Datasets /\ ~ reused') /\ ~ undisturbed'
    BY <1>1, <1>2
  <2> QED BY <2>1 DEF MetaInv, SourceInv
<1> QED
  BY <1>4, <1>5, <1>6 DEF IInv

\* While a dataset is written no source is undisturbed, and a readable
\* _meta.pkl is that of a reused directory.
LEMMA NoSourceYet ==
  ASSUME IInv, writer # Idle
  PROVE  ~ (source # None /\ undisturbed) /\ ~ (meta \in Datasets /\ ~ reused)
BY NoDataset DEF IInv, WriterInv, SourceInv, TypeOK

LEMMA OpenPartitionStep ==
  ASSUME IInv, OpenPartition
  PROVE  IInv'
<1> DEFINE d == writer.dataset
           f == [of |-> d, rows |-> 0, torn |-> FALSE]
<1>1. /\ writer # Idle /\ writer.part < NumPartitions[d]
      /\ SetFile(writer.part, f)
      /\ writer' = [writer EXCEPT !.open = TRUE]
      /\ UNCHANGED <<meta, source, rows_read, opens, reused, undisturbed>>
  BY DEF OpenPartition, AtPartition, reader, history
<1>2. /\ d \in Datasets /\ (~ reused => meta \notin Datasets)
      /\ \A p \in Nat : p < writer.part => Written(d, p)
  BY <1>1 DEF IInv, WriterInv
<1>3. /\ writer \in [dataset : Datasets \union {None}, part : Nat, open : BOOLEAN]
      /\ writer.part \in Nat
  BY DEF IInv, TypeOK
<1>4. f \in File
  BY <1>2, Numbers DEF File
<1>5. TypeOK
  BY DEF IInv
<1> HIDE DEF f
<1>6. /\ DOMAIN files' = DOMAIN files \union {writer.part}
      /\ DOMAIN files' \subseteq Nat
      /\ files' \in [DOMAIN files' -> File]
      /\ files'[writer.part] = f
      /\ \A q \in DOMAIN files : q # writer.part => files'[q] = files[q]
  BY <1>1, <1>3, <1>4, <1>5, SetFileType
<1>7. /\ writer' \in [dataset : Datasets \union {None}, part : Nat, open : BOOLEAN]
      /\ writer'.dataset = d /\ writer'.part = writer.part
  BY <1>1, <1>3
<1>8. TypeOK'
  BY <1>1, <1>5, <1>6, <1>7 DEF TypeOK, File
<1>9. \A p \in Nat : p < writer.part => Written(d, p)'
  <2> SUFFICES ASSUME NEW p \in Nat, p < writer.part PROVE Written(d, p)'
    OBVIOUS
  <2>1. p \in DOMAIN files /\ files[p] = Whole(d) /\ p # writer.part
    BY <1>2, <1>3 DEF Written
  <2> QED
    BY <1>6, <1>7, <2>1 DEF Written, Whole
<1>10. f.of = d /\ ~ f.torn
  BY DEF f
<1>11. WriterInv'
  <2>1. (~ reused' => meta' \notin Datasets) /\ d \in Datasets /\ writer.part <= NumPartitions[d]
    BY <1>1, <1>2, <1>3, Numbers
  <2>2. \A p \in Nat : p < writer'.part => Written(writer.dataset, p)'
    BY <1>7, <1>9 DEF Written, Whole
  <2>3. /\ writer'.part \in DOMAIN files'
        /\ files'[writer'.part].of = writer'.dataset
        /\ ~ files'[writer'.part].torn
    BY <1>6, <1>7, <1>10
  <2> QED
    BY <1>7, <2>1, <2>2, <2>3 DEF WriterInv
<1>12. MetaInv' /\ SourceInv'
  BY <1>1, <1>2, NoSourceYet DEF MetaInv, SourceInv
<1> QED
  BY <1>8, <1>11, <1>12 DEF IInv

LEMMA WriteRowStep ==
  ASSUME IInv, WriteRow
  PROVE  IInv'
<1> DEFINE d == writer.dataset
           n == writer.part
           f == [files[n] EXCEPT !.rows = files[n].rows + 1]
<1>1. /\ writer # Idle /\ n < NumPartitions[d] /\ writer.open
      /\ files[n].rows < NumRows
      /\ files' = [files EXCEPT ![n] = f]
      /\ UNCHANGED <<meta, writer, source, rows_read, opens, reused, undisturbed>>
  BY DEF WriteRow, AtPartition, reader, history
<1>2. /\ d \in Datasets /\ (~ reused => meta \notin Datasets)
      /\ \A p \in Nat : p < n => Written(d, p)
      /\ n \in DOMAIN files /\ files[n].of = d /\ ~ files[n].torn
  BY <1>1 DEF IInv, WriterInv
<1>3. /\ n \in Nat /\ files[n] \in File
      /\ DOMAIN files \subseteq Nat /\ files \in [DOMAIN files -> File]
  BY <1>2 DEF IInv, TypeOK
<1>4. files[n].rows \in Nat /\ files[n].rows + 1 \in 0 .. NumRows
  BY <1>1, <1>3, Numbers DEF File
<1>5. f \in File /\ f.of = d /\ ~ f.torn
  BY <1>2, <1>3, <1>4 DEF File
<1> HIDE DEF f
<1>6. /\ DOMAIN files' = DOMAIN files
      /\ files' \in [DOMAIN files' -> File]
      /\ files'[n] = f
      /\ \A q \in DOMAIN files : q # n => files'[q] = files[q]
  BY <1>1, <1>2, <1>3, <1>5
<1>7. TypeOK'
  BY <1>1, <1>3, <1>6 DEF IInv, TypeOK, File
<1>8. \A p \in Nat : p < n => Written(d, p)'
  <2> SUFFICES ASSUME NEW p \in Nat, p < n PROVE Written(d, p)'
    OBVIOUS
  <2>1. p \in DOMAIN files /\ files[p] = Whole(d) /\ p # n
    BY <1>2, <1>3 DEF Written
  <2> QED
    BY <1>1, <1>6, <2>1 DEF Written, Whole
<1>9. WriterInv'
  <2>1. /\ writer' = writer /\ (~ reused' => meta' \notin Datasets) /\ d \in Datasets
        /\ n <= NumPartitions[d]
    BY <1>1, <1>2, <1>3, Numbers
  <2>2. \A p \in Nat : p < writer'.part => Written(writer.dataset, p)'
    BY <1>8, <2>1
  <2>3. /\ n \in DOMAIN files' /\ files'[n].of = d /\ ~ files'[n].torn
    BY <1>2, <1>5, <1>6
  <2> QED
    BY <2>1, <2>2, <2>3 DEF WriterInv
<1>10. MetaInv' /\ SourceInv'
  BY <1>1, <1>2, NoSourceYet DEF MetaInv, SourceInv
<1> QED
  BY <1>7, <1>9, <1>10 DEF IInv

LEMMA ClosePartitionStep ==
  ASSUME IInv, ClosePartition
  PROVE  IInv'
<1> DEFINE d == writer.dataset
           n == writer.part
<1>1. /\ writer # Idle /\ n < NumPartitions[d] /\ writer.open
      /\ files[n].rows = NumRows
      /\ writer' = [writer EXCEPT !.part = n + 1, !.open = FALSE]
      /\ UNCHANGED <<files, meta, source, rows_read, opens, reused, undisturbed>>
  BY DEF ClosePartition, AtPartition, reader, history, disk
<1>2. /\ d \in Datasets /\ (~ reused => meta \notin Datasets)
      /\ \A p \in Nat : p < n => Written(d, p)
      /\ n \in DOMAIN files /\ files[n].of = d /\ ~ files[n].torn
  BY <1>1 DEF IInv, WriterInv
<1>3. /\ n \in Nat /\ files[n] \in File
      /\ writer \in [dataset : Datasets \union {None}, part : Nat, open : BOOLEAN]
  BY <1>2 DEF IInv, TypeOK
<1>4. /\ writer' \in [dataset : Datasets \union {None}, part : Nat, open : BOOLEAN]
      /\ writer'.dataset = d /\ writer'.part = n + 1 /\ writer'.open = FALSE
  <2>1. n + 1 \in Nat
    BY <1>3
  <2> QED
    BY <1>1, <1>3, <2>1
<1>5. Written(d, n)
  BY <1>1, <1>2, <1>3 DEF Written, Whole, File
<1>6. \A p \in Nat : p < n + 1 => Written(d, p)'
  <2> SUFFICES ASSUME NEW p \in Nat, p < n + 1 PROVE Written(d, p)'
    OBVIOUS
  <2>1. p < n \/ p = n
    BY <1>3
  <2>2. Written(d, p)
    BY <1>2, <1>5, <2>1
  <2> QED
    BY <1>1, <1>4, <2>2 DEF Written, Whole
<1>7. TypeOK'
  BY <1>1, <1>4 DEF IInv, TypeOK, File
<1>8. WriterInv'
  <2>1. n + 1 <= NumPartitions[d] /\ d \in Datasets /\ (~ reused' => meta' \notin Datasets)
    BY <1>1, <1>2, <1>3, Numbers
  <2>2. \A p \in Nat : p < writer'.part => Written(writer.dataset, p)'
    BY <1>4, <1>6 DEF Written, Whole
  <2> QED
    BY <1>4, <2>1, <2>2 DEF WriterInv
<1>9. MetaInv' /\ SourceInv'
  BY <1>1, <1>2, NoSourceYet DEF MetaInv, SourceInv
<1> QED
  BY <1>7, <1>8, <1>9 DEF IInv

LEMMA OpenMetaStep ==
  ASSUME IInv, OpenMeta
  PROVE  IInv'
<1> DEFINE d == writer.dataset
           n == writer.part
<1>1. /\ writer # Idle /\ n = NumPartitions[d] /\ meta' = Torn /\ reused' = FALSE
      /\ writer' = [writer EXCEPT !.open = TRUE]
      /\ UNCHANGED <<files, source, rows_read, opens, undisturbed>>
  BY DEF OpenMeta, AtMeta, reader, history
<1>2. /\ d \in Datasets /\ (~ reused => meta \notin Datasets)
      /\ \A p \in Nat : p < n => Written(d, p)
  BY <1>1 DEF IInv, WriterInv
<1>3. writer \in [dataset : Datasets \union {None}, part : Nat, open : BOOLEAN]
  BY DEF IInv, TypeOK
<1>4. /\ writer' \in [dataset : Datasets \union {None}, part : Nat, open : BOOLEAN]
      /\ writer'.dataset = d /\ writer'.part = n
  BY <1>1, <1>3
<1>5. TypeOK'
  BY <1>1, <1>4 DEF IInv, TypeOK, File
<1>6. WriterInv'
  <2>1. n \in Nat /\ ~ (n < NumPartitions[d]) /\ n <= NumPartitions[d] /\ (~ reused' => meta' \notin Datasets)
    BY <1>1, <1>2, <1>3, NoDataset, Numbers
  <2>2. \A p \in Nat : p < writer'.part => Written(writer.dataset, p)'
    BY <1>1, <1>2, <1>4 DEF Written, Whole
  <2> QED
    BY <1>2, <1>4, <2>1, <2>2 DEF WriterInv
<1>7. MetaInv' /\ SourceInv'
  BY <1>1, <1>2, NoDataset, NoSourceYet DEF MetaInv, SourceInv
<1> QED
  BY <1>5, <1>6, <1>7 DEF IInv

\* The commit: _meta.pkl becomes readable once every partition is whole.
LEMMA WriteMetaStep ==
  ASSUME IInv, WriteMeta
  PROVE  IInv'
<1>1. /\ writer # Idle /\ writer.part = NumPartitions[writer.dataset]
      /\ meta' = writer.dataset /\ writer' = Idle
      /\ UNCHANGED <<files, source, rows_read, opens, reused, undisturbed>>
  BY DEF WriteMeta, AtMeta, reader, history
<1>2. /\ writer.dataset \in Datasets /\ (~ reused => meta \notin Datasets)
      /\ \A p \in Nat : p < writer.part => Written(writer.dataset, p)
  BY <1>1 DEF IInv, WriterInv
<1>3. TypeOK'
  BY <1>1, <1>2, IdleType DEF IInv, TypeOK, File
<1>4. WriterInv' /\ SourceInv'
  BY <1>1, <1>2, NoSourceYet DEF WriterInv, SourceInv, Idle
<1>5. MetaInv'
  BY <1>1, <1>2 DEF MetaInv, Written, Whole
<1> QED
  BY <1>3, <1>4, <1>5 DEF IInv

LEMMA InterruptStep ==
  ASSUME IInv, Interrupt
  PROVE  IInv'
<1>1. /\ writer # Idle /\ writer' = Idle
      /\ UNCHANGED <<meta, source, rows_read, opens, reused, undisturbed>>
  BY DEF Interrupt, reader, history
<1>2. writer.dataset \in Datasets /\ (~ reused => meta \notin Datasets)
  BY <1>1 DEF IInv, WriterInv
<1>3. /\ DOMAIN files' \subseteq Nat
      /\ files' \in [DOMAIN files' -> File]
  <2>1. CASE AtPartition /\ writer.open
    <3>1. PICK cut \in BOOLEAN, left \in 0 .. files[writer.part].rows :
            SetFile(writer.part, [of |-> writer.dataset, rows |-> left, torn |-> cut])
      BY <2>1 DEF Interrupt
    <3>2. writer.part \in DOMAIN files
      BY <1>1, <2>1 DEF IInv, WriterInv, AtPartition
    <3>3. writer.part \in Nat /\ files[writer.part] \in File
      BY <3>2 DEF IInv, TypeOK
    <3>4. left \in 0 .. NumRows
      BY <3>3, Numbers DEF File
    <3>5. [of |-> writer.dataset, rows |-> left, torn |-> cut] \in File
      BY <1>2, <3>4 DEF File
    <3>6. TypeOK
      BY DEF IInv
    <3> QED
      BY <3>1, <3>3, <3>5, <3>6, SetFileType
  <2>2. CASE ~ (AtPartition /\ writer.open)
    BY <2>2 DEF Interrupt, IInv, TypeOK
  <2> QED
    BY <2>1, <2>2
<1>4. TypeOK'
  BY <1>1, <1>3, IdleType DEF IInv, TypeOK, File
<1>5. WriterInv' /\ SourceInv' /\ MetaInv'
  BY <1>1, <1>2, NoSourceYet DEF WriterInv, SourceInv, MetaInv, Idle
<1> QED
  BY <1>4, <1>5 DEF IInv

LEMMA OpenSourceStep ==
  ASSUME IInv, OpenSource
  PROVE  IInv'
<1>1. /\ meta \in Datasets /\ source' = meta /\ rows_read' = <<>>
      /\ undisturbed' = ~ reused
      /\ UNCHANGED <<files, meta, writer, reused>>
  BY DEF OpenSource, disk
<1>2. TypeOK'
  BY <1>1 DEF IInv, TypeOK, File
<1>3. WriterInv' /\ MetaInv'
  BY <1>1 DEF IInv, WriterInv, MetaInv, Written, Whole, Idle
<1>4. SourceInv'
  <2>1. undisturbed' => ~ reused'
    BY <1>1
  <2>2. Len(rows_read') = 0 /\ DOMAIN rows_read' = {} /\ meta' = source'
    BY <1>1
  <2>3. 0 <= NumPartitions[source']
    BY <1>1, Numbers
  <2> QED
    BY <2>1, <2>2, <2>3 DEF SourceInv
<1> QED
  BY <1>2, <1>3, <1>4 DEF IInv

LEMMA ReadPartitionStep ==
  ASSUME IInv, ReadPartition
  PROVE  IInv'
<1> DEFINE p == Len(rows_read)
           q == NumPartitions[source]
<1>1. /\ source # None /\ ~ Finished
      /\ UNCHANGED <<files, meta, writer, reused, undisturbed>>
      /\ \/ p \in DOMAIN files /\ ~ files[p].torn
            /\ rows_read' = Append(rows_read, files[p]) /\ source' = source
         \/ ~ (p \in DOMAIN files /\ ~ files[p].torn)
            /\ rows_read' = <<>> /\ source' = None
  BY DEF ReadPartition, disk, history
<1>2. source \in Datasets /\ rows_read \in Seq(File) /\ p \in Nat /\ p # q
  BY <1>1 DEF IInv, TypeOK, Finished
<1>3. TypeOK'
  <2>1. p \in DOMAIN files => files[p] \in File
    BY DEF IInv, TypeOK
  <2>2. ASSUME p \in DOMAIN files, ~ files[p].torn
        PROVE  rows_read' \in Seq(File) /\ source' \in Datasets \union {None}
    <3>1. Append(rows_read, files[p]) \in Seq(File)
      BY <1>2, <2>1, <2>2
    <3> QED BY <1>1, <1>2, <2>2, <3>1
  <2>3. ASSUME ~ (p \in DOMAIN files /\ ~ files[p].torn)
        PROVE  rows_read' \in Seq(File) /\ source' \in Datasets \union {None}
    <3>1. rows_read' = <<>> /\ source' = None
      BY ONLY <1>1, <2>3
    <3> QED BY <3>1
  <2>4. rows_read' \in Seq(File) /\ source' \in Datasets \union {None}
    BY <2>2, <2>3
  <2> QED
    BY <1>1, <2>4 DEF IInv, TypeOK, File
<1>4. WriterInv' /\ MetaInv'
  BY <1>1 DEF IInv, WriterInv, MetaInv, Written, Whole, Idle
<1>5. SourceInv'
  <2> SUFFICES ASSUME undisturbed PROVE SourceInv'
    BY <1>1 DEF SourceInv
  <2>1. /\ ~ reused /\ meta = source /\ p <= q
        /\ \A n \in DOMAIN rows_read : rows_read[n] = Whole(source)
    BY <1>1 DEF IInv, SourceInv
  <2>2. p < q /\ p + 1 <= q
    BY <1>2, <2>1, Numbers
  <2>3. p \in DOMAIN files /\ files[p] = Whole(source)
    BY <1>2, <2>1, <2>2 DEF IInv, MetaInv, Written
  <2>4. rows_read' = Append(rows_read, Whole(source)) /\ source' = source
    BY <1>1, <2>3 DEF Whole
  <2>5. Whole(source) \in File
    BY <1>2, WholeIsFile
  <2>6. Len(rows_read') = p + 1
    BY <1>2, <2>4, <2>5
  <2>7. \A n \in DOMAIN rows_read' : rows_read'[n] = Whole(source)
    BY <1>2, <2>1, <2>4, <2>5
  <2> QED
    BY <1>1, <2>1, <2>2, <2>4, <2>6, <2>7 DEF SourceInv, Whole
<1> QED
  BY <1>3, <1>4, <1>5 DEF IInv

-----------------------------------------------------------------------------
(* The theorems.                                                           *)

\* The invariant is inductive.
THEOREM Inductive == Spec => []IInv
<1>1. Init => IInv
  BY InitIInv
<1>2. IInv /\ [Next]_vars => IInv'
  <2> SUFFICES ASSUME IInv, [Next]_vars PROVE IInv'
    OBVIOUS
  <2>1. CASE \E d \in Datasets : StartCheckpoint(d)
    BY <2>1, StartStep
  <2>2. CASE OpenPartition
    BY <2>2, OpenPartitionStep
  <2>3. CASE WriteRow
    BY <2>3, WriteRowStep
  <2>4. CASE ClosePartition
    BY <2>4, ClosePartitionStep
  <2>5. CASE OpenMeta
    BY <2>5, OpenMetaStep
  <2>6. CASE WriteMeta
    BY <2>6, WriteMetaStep
  <2>7. CASE Interrupt
    BY <2>7, InterruptStep
  <2>8. CASE OpenSource
    BY <2>8, OpenSourceStep
  <2>9. CASE ReadPartition
    BY <2>9, ReadPartitionStep
  <2>10. CASE UNCHANGED vars
    BY <2>10 DEF vars, IInv, TypeOK, WriterInv, MetaInv, SourceInv, Written, Whole, File, Idle
  <2> QED
    BY <2>1, <2>2, <2>3, <2>4, <2>5, <2>6, <2>7, <2>8, <2>9, <2>10 DEF Next, Writer
<1> QED
  BY <1>1, <1>2, PTL DEF Spec

\* The files, the writer and the source keep their types.
THEOREM TypeCorrect == Spec => []TypeOK
<1>1. IInv => TypeOK
  BY DEF IInv
<1> QED
  BY <1>1, Inductive, PTL

\* A source that was read to its end read the whole of the dataset that
\* _meta.pkl describes, whatever was interrupted before and whatever the
\* directory held, unless a checkpoint had begun over this one: the writer's
\* order of files is a commit protocol.
THEOREM SourcesReadWholeDatasets == Spec => []ReadsWholeDataset
<1>1. IInv => ReadsWholeDataset
  BY DEF IInv, SourceInv, ReadsWholeDataset, Finished, Whole
<1> QED
  BY <1>1, Inductive, PTL
=============================================================================
