---------------------------- MODULE GroupByProofs ----------------------------
(***************************************************************************)
(* Theorem about group_by().agg() over partitions: merging the states of   *)
(* the groups of every source gives SQL's GROUP BY of the whole dataset,   *)
(* in whatever order the tasks run.                                        *)
(*                                                                         *)
(* A source is to a target what a round of spills is to a bucket: the      *)
(* rounds of GroupTheorems are the sources here, counted from 0, and the   *)
(* one after the last is empty.                                            *)
(***************************************************************************)
EXTENDS GroupBy, GroupTheorems

-----------------------------------------------------------------------------
(* The sources' values in those of the whole dataset.                      *)

\* The values of a class in the first k sources, and those in source r + 1,
\* which lie in a stretch of their own.
Upto(ss, c, k) == RawIn(FlattenSeq(SubSeq(ss, 1, k)), c)
Own(ss, c, r) == RawIn(ss[r + 1], c)
Stretch(ss, c, r) == Len(Upto(ss, c, r)) + 1 .. Len(Upto(ss, c, r)) + Len(Own(ss, c, r))

LEMMA UptoNext ==
  ASSUME NEW ss \in Seq(Seq(RowType)), NEW c, NEW k \in Nat, k < Len(ss)
  PROVE  /\ Upto(ss, c, k) \in Seq(Values)
         /\ Own(ss, c, k) \in Seq(Values)
         /\ Upto(ss, c, k + 1) = Upto(ss, c, k) \o Own(ss, c, k)
<1> DEFINE init == SubSeq(ss, 1, k)
           more == SubSeq(ss, 1, k + 1)
           last == ss[k + 1]
<1>1. init \in Seq(Seq(RowType)) /\ last \in Seq(RowType) /\ more = Append(init, last)
  OBVIOUS
<1> HIDE DEF init, more, last
<1>2. FlattenSeq(init) \in Seq(RowType) /\ FlattenSeq(more) = FlattenSeq(init) \o last
  BY <1>1, FlattenAppend
<1>3. RawIn(FlattenSeq(more), c) = RawIn(FlattenSeq(init), c) \o RawIn(last, c)
  <2> DEFINE start == FlattenSeq(init)
  <2>1. start \in Seq(RowType) /\ last \in Seq(RowType) /\ FlattenSeq(more) = start \o last
    BY <1>1, <1>2
  <2> HIDE DEF start
  <2>2. RawIn(start \o last, c) = RawIn(start, c) \o RawIn(last, c)
    BY ONLY <2>1, RawInConcat
  <2> QED BY <2>1, <2>2 DEF start
<1>4. RawIn(FlattenSeq(init), c) \in Seq(Values) /\ RawIn(last, c) \in Seq(Values)
  BY <1>1, <1>2, ValuesOfClasses
<1> QED BY <1>3, <1>4 DEF Upto, Own, init, more, last

\* The first k sources lie one behind the other.
Laid(ss, c, k) ==
  /\ Upto(ss, c, k) \in Seq(Values)
  /\ \A r \in 0 .. k - 1 :
       /\ Len(Upto(ss, c, r)) + Len(Own(ss, c, r)) <= Len(Upto(ss, c, k))
       /\ \A j \in 1 .. Len(Own(ss, c, r)) :
            Upto(ss, c, k)[Len(Upto(ss, c, r)) + j] = Own(ss, c, r)[j]
  /\ \A p \in 1 .. Len(Upto(ss, c, k)) : \E r \in 0 .. k - 1 : p \in Stretch(ss, c, r)

LEMMA SourcesAreLaid ==
  ASSUME NEW ss \in Seq(Seq(RowType)), NEW c
  PROVE  \A k \in 0 .. Len(ss) : Laid(ss, c, k)
<1> DEFINE N == {k \in Nat : k <= Len(ss) => Laid(ss, c, k)}
<1>1. 0 \in N
  <2>1. SubSeq(ss, 1, 0) = <<>> /\ <<>> \in Seq(Values) /\ Len(<<>>) = 0
    OBVIOUS
  <2>2. Upto(ss, c, 0) = <<>>
    BY <2>1, FlattenEmpty, RawInEmpty DEF Upto
  <2>3. 0 .. 0 - 1 = {} /\ 1 .. 0 = {}
    OBVIOUS
  <2> QED BY <2>1, <2>2, <2>3 DEF Laid
<1>2. ASSUME NEW k \in N PROVE k + 1 \in N
  <2>1. k \in Nat
    OBVIOUS
  <2> SUFFICES ASSUME k + 1 <= Len(ss) PROVE Laid(ss, c, k + 1)
    BY <2>1
  <2> DEFINE v == Upto(ss, c, k)
             u == Own(ss, c, k)
             w == Upto(ss, c, k + 1)
             off(r) == Len(Upto(ss, c, r))
             len(r) == Len(Own(ss, c, r))
  <2>2. k < Len(ss) /\ Len(ss) \in Nat
    BY <2>1
  <2>3. Laid(ss, c, k)
    BY <2>2
  <2>4. v \in Seq(Values) /\ u \in Seq(Values) /\ w = v \o u
    BY <2>1, <2>2, UptoNext
  <2>5. /\ \A r \in 0 .. k - 1 :
             /\ off(r) + len(r) <= Len(v)
             /\ \A j \in 1 .. len(r) : v[off(r) + j] = Own(ss, c, r)[j]
        /\ \A p \in 1 .. Len(v) : \E r \in 0 .. k - 1 : p \in off(r) + 1 .. off(r) + len(r)
    BY <2>3 DEF Laid, Stretch
  <2>6. \A r \in 0 .. k - 1 : off(r) \in Nat /\ len(r) \in Nat
    <3>1. ASSUME NEW r \in 0 .. k - 1 PROVE off(r) \in Nat /\ len(r) \in Nat
      <4>1. r \in Nat /\ r < Len(ss)
        BY <2>1, <2>2
      <4>2. Upto(ss, c, r) \in Seq(Values) /\ Own(ss, c, r) \in Seq(Values)
        BY <4>1, UptoNext
      <4> QED BY <4>2
    <3> QED BY <3>1
  <2>7. off(k) = Len(v) /\ len(k) = Len(u)
    OBVIOUS
  <2>8. 0 .. (k + 1) - 1 = (0 .. k - 1) \union {k}
    BY <2>1
  <2> HIDE DEF v, u, w, off, len
  <2>9. /\ w \in Seq(Values) /\ Len(w) = Len(v) + Len(u) /\ Len(v) \in Nat /\ Len(u) \in Nat
        /\ \A p \in 1 .. Len(v) : w[p] = v[p]
        /\ \A j \in 1 .. Len(u) : w[Len(v) + j] = u[j]
    BY <2>4
  <2>10. ASSUME NEW r \in 0 .. (k + 1) - 1
         PROVE  /\ off(r) + len(r) <= Len(w)
                /\ \A j \in 1 .. len(r) : w[off(r) + j] = Own(ss, c, r)[j]
    <3>1. CASE r = k
      <4>1. off(r) = Len(v) /\ len(r) = Len(u) /\ Own(ss, c, r) = u
        BY <2>7, <3>1 DEF u
      <4>2. \A j \in 1 .. Len(u) : w[Len(v) + j] = Own(ss, c, r)[j]
        BY <2>9, <4>1
      <4> QED BY <2>9, <4>1, <4>2
    <3>2. CASE r # k
      <4>1. r \in 0 .. k - 1
        BY <2>8, <3>2
      <4>2. /\ off(r) \in Nat /\ len(r) \in Nat /\ off(r) + len(r) <= Len(v)
            /\ \A j \in 1 .. len(r) : v[off(r) + j] = Own(ss, c, r)[j]
        BY <2>5, <2>6, <4>1
      <4>3. \A j \in 1 .. len(r) : off(r) + j \in 1 .. Len(v)
        BY <2>9, <4>2
      <4>4. \A j \in 1 .. len(r) : w[off(r) + j] = v[off(r) + j]
        BY <2>9, <4>3
      <4>5. \A j \in 1 .. len(r) : w[off(r) + j] = Own(ss, c, r)[j]
        BY <4>2, <4>4
      <4>6. off(r) + len(r) <= Len(w)
        BY <2>9, <4>2
      <4> QED BY <4>5, <4>6
    <3> QED BY <3>1, <3>2
  <2>11. ASSUME NEW p \in 1 .. Len(w)
         PROVE  \E r \in 0 .. (k + 1) - 1 : p \in off(r) + 1 .. off(r) + len(r)
    <3>1. CASE p \in 1 .. Len(v)
      BY <2>5, <2>8, <3>1
    <3>2. CASE p \notin 1 .. Len(v)
      <4>1. p \in off(k) + 1 .. off(k) + len(k)
        BY <2>7, <2>9, <3>2
      <4> QED BY <2>8, <4>1
    <3> QED BY <3>1, <3>2
  <2> QED BY <2>9, <2>10, <2>11 DEF Laid, Stretch, w, off, len
<1>3. N = Nat
  <2>1. N \subseteq Nat
    OBVIOUS
  <2> HIDE DEF N
  <2> QED BY <1>1, <1>2, <2>1, NatInductionSet
<1>4. ASSUME NEW k \in 0 .. Len(ss) PROVE Laid(ss, c, k)
  <2>1. k \in Nat /\ k <= Len(ss)
    OBVIOUS
  <2> QED BY <1>3, <2>1
<1> QED BY <1>4

\* The positions of a class that the sources fill, by round.
Parts(ss) ==
  [c \in Classes |-> [r \in 0 .. Len(ss) |-> IF r = Len(ss) THEN {} ELSE Stretch(ss, c, r)]]

\* Each round's positions hold its source's values, behind m others.
Fills(positions, values, m, raw) ==
  /\ raw \in Seq(Values) /\ m \in Nat
  /\ positions = m + 1 .. m + Len(raw)
  /\ positions \subseteq DOMAIN values
  /\ \A j \in 1 .. Len(raw) : values[m + j] = raw[j]

LEMMA StretchHolds ==
  ASSUME NEW ss \in Seq(Seq(RowType)), NEW c \in Classes, NEW r \in 0 .. Len(ss) - 1
  PROVE  Fills(Parts(ss)[c][r], RawValues(FlattenSeq(ss))[c],
               Len(Upto(ss, c, r)), RawIn(ss[r + 1], c))
<1> DEFINE n == Len(ss)
           all == Upto(ss, c, n)
           m == Len(Upto(ss, c, r))
           raw == RawIn(ss[r + 1], c)
           val == RawValues(FlattenSeq(ss))
           positions == Parts(ss)[c][r]
<1>1. n \in Nat /\ r \in Nat /\ r < n /\ SubSeq(ss, 1, n) = ss
  OBVIOUS
<1>2. val[c] = all
  BY <1>1 DEF RawValues, Upto
<1>3. Upto(ss, c, r) \in Seq(Values) /\ raw \in Seq(Values) /\ raw = Own(ss, c, r)
  BY <1>1, UptoNext DEF Own
<1>4. Laid(ss, c, n)
  BY <1>1, SourcesAreLaid
<1>5. positions = Stretch(ss, c, r)
  <2>1. r \in 0 .. Len(ss) /\ r # Len(ss)
    OBVIOUS
  <2> QED BY <2>1 DEF Parts
<1>6. positions = m + 1 .. m + Len(raw)
  BY <1>3, <1>5 DEF Stretch
<1> HIDE DEF n, all, raw, m, val, positions
<1>7. /\ all \in Seq(Values) /\ m + Len(raw) <= Len(all)
      /\ \A j \in 1 .. Len(raw) : all[m + j] = raw[j]
  <2>1. /\ all \in Seq(Values) /\ m + Len(Own(ss, c, r)) <= Len(all)
        /\ \A j \in 1 .. Len(Own(ss, c, r)) : all[m + j] = Own(ss, c, r)[j]
    BY <1>4 DEF Laid, n, all, m
  <2> QED BY <1>3, <2>1
<1>8. m \in Nat /\ Len(raw) \in Nat
  BY <1>3 DEF m
<1>9. m + 1 .. m + Len(raw) \subseteq 1 .. Len(all) /\ DOMAIN all = 1 .. Len(all)
  BY <1>7, <1>8
<1>10. Fills(positions, val[c], m, raw)
  BY <1>2, <1>3, <1>6, <1>7, <1>8, <1>9 DEF Fills
<1> QED BY <1>10 DEF positions, val, m, raw

\* The sources divide the values of the dataset among them.
LEMMA SourcesDivide ==
  ASSUME NEW ss \in Seq(Seq(RowType)), NEW n, n = Len(ss)
  PROVE  Divides(RawValues(FlattenSeq(ss)), Parts(ss), n)
<1> DEFINE val == RawValues(FlattenSeq(ss))
           part == Parts(ss)
<1>1. n \in Nat /\ SubSeq(ss, 1, n) = ss
  OBVIOUS
<1>2. ASSUME NEW c \in Classes
      PROVE  /\ val[c] \in Seq(Values)
             /\ \A r, q \in 0 .. n : r # q => part[c][r] \cap part[c][q] = {}
             /\ Piece(part, c, 0 .. n) = DOMAIN val[c]
  <2>1. val[c] = Upto(ss, c, n)
    BY <1>1 DEF RawValues, Upto
  <2>2. \A k \in 0 .. n : Laid(ss, c, k)
    BY SourcesAreLaid
  <2>3. val[c] \in Seq(Values) /\ DOMAIN val[c] = 1 .. Len(val[c])
    <3>1. n \in 0 .. n
      BY <1>1
    <3>2. Upto(ss, c, n) \in Seq(Values)
      BY <2>2, <3>1 DEF Laid
    <3> QED BY <2>1, <3>2
  <2>4. /\ part[c][n] = {}
        /\ \A r \in 0 .. n - 1 : part[c][r] = Stretch(ss, c, r)
    <3>1. \A r \in 0 .. n : part[c][r] = IF r = n THEN {} ELSE Stretch(ss, c, r)
      BY DEF Parts
    <3>2. n \in 0 .. n /\ \A r \in 0 .. n - 1 : r \in 0 .. n /\ r # n
      BY <1>1
    <3> QED BY <3>1, <3>2
  <2>5. \A r \in 0 .. n : r # n => r \in 0 .. n - 1
    BY <1>1
  <2> HIDE DEF part, val
  <2>6. ASSUME NEW r \in 0 .. n - 1, NEW q \in 0 .. n - 1, r < q
        PROVE  Stretch(ss, c, r) \cap Stretch(ss, c, q) = {}
    <3>1. r \in 0 .. q - 1 /\ q \in 0 .. n
      BY <1>1, <2>6
    <3>2. Len(Upto(ss, c, r)) + Len(Own(ss, c, r)) <= Len(Upto(ss, c, q))
      BY <2>2, <3>1 DEF Laid
    <3>3. r \in Nat /\ q \in Nat /\ r < Len(ss) /\ q < Len(ss)
      BY <1>1
    <3>4. /\ Upto(ss, c, r) \in Seq(Values) /\ Own(ss, c, r) \in Seq(Values)
          /\ Upto(ss, c, q) \in Seq(Values) /\ Own(ss, c, q) \in Seq(Values)
      BY <3>3, UptoNext
    <3>5. /\ Len(Upto(ss, c, r)) \in Nat /\ Len(Own(ss, c, r)) \in Nat
          /\ Len(Upto(ss, c, q)) \in Nat /\ Len(Own(ss, c, q)) \in Nat
      BY <3>4
    <3> QED BY <3>2, <3>5 DEF Stretch
  <2>7. \A r, q \in 0 .. n : r # q => part[c][r] \cap part[c][q] = {}
    <3>1. ASSUME NEW r \in 0 .. n - 1, NEW q \in 0 .. n - 1, r # q
          PROVE  Stretch(ss, c, r) \cap Stretch(ss, c, q) = {}
      <4>1. r < q \/ q < r
        BY <3>1
      <4> QED BY <2>6, <4>1
    <3>2. ASSUME NEW r \in 0 .. n, NEW q \in 0 .. n, r # q
          PROVE  part[c][r] \cap part[c][q] = {}
      <4>1. CASE r = n \/ q = n
        BY <2>4, <4>1
      <4>2. CASE r # n /\ q # n
        <5>1. r \in 0 .. n - 1 /\ q \in 0 .. n - 1
          BY <2>5, <4>2
        <5>2. part[c][r] = Stretch(ss, c, r) /\ part[c][q] = Stretch(ss, c, q)
          BY <2>4, <5>1
        <5> QED BY <3>1, <3>2, <5>1, <5>2
      <4> QED BY <4>1, <4>2
    <3> QED BY <3>2
  <2>8. Piece(part, c, 0 .. n) = DOMAIN val[c]
    <3>1. ASSUME NEW p \in Piece(part, c, 0 .. n) PROVE p \in DOMAIN val[c]
      <4>1. PICK r \in 0 .. n : p \in part[c][r]
        BY DEF Piece
      <4>2. r \in 0 .. Len(ss) - 1
        BY <2>4, <2>5, <4>1
      <4> DEFINE m == Len(Upto(ss, c, r))
                 raw == RawIn(ss[r + 1], c)
      <4>3. m + 1 .. m + Len(raw) \subseteq DOMAIN val[c] /\ part[c][r] = m + 1 .. m + Len(raw)
        <5>1. Fills(part[c][r], val[c], m, raw)
          BY <4>2, StretchHolds DEF val, part
        <5> QED BY <5>1 DEF Fills
      <4> QED BY <4>1, <4>3
    <3>2. ASSUME NEW p \in DOMAIN val[c] PROVE p \in Piece(part, c, 0 .. n)
      <4>1. p \in 1 .. Len(Upto(ss, c, n)) /\ n \in 0 .. n
        BY <1>1, <2>1, <2>3
      <4>2. PICK r \in 0 .. n - 1 : p \in Stretch(ss, c, r)
        BY <2>2, <4>1 DEF Laid
      <4>3. r \in 0 .. n /\ p \in part[c][r]
        BY <1>1, <2>4, <4>2
      <4> QED BY <4>3 DEF Piece
    <3> QED BY <3>1, <3>2
  <2> QED BY <2>3, <2>7, <2>8
<1> QED BY <1>2 DEF Divides

\* Only finitely many classes occur in rows.
LEMMA ClassesFinite ==
  ASSUME NEW rows \in Seq(RowType)
  PROVE  IsFiniteSet(ClassesIn(rows))
<1> DEFINE D == DOMAIN rows
           f == [i \in D |-> Class[rows[i].key]]
<1>1. D = 1 .. Len(rows) /\ 1 \in Int /\ Len(rows) \in Int
  OBVIOUS
<1>2. IsFiniteSet(D)
  BY ONLY <1>1, FS_Interval
<1>3. f \in Surjection(D, ClassesIn(rows))
  BY DEF Surjection, ClassesIn
<1> HIDE DEF D, f
<1> QED BY <1>2, <1>3, FS_Surjection

\* What a source is grouped into stands for its round.
LEMMA GroupedRepresents ==
  ASSUME NEW ss \in Seq(Seq(RowType)), NEW val, val = RawValues(FlattenSeq(ss)),
         NEW p \in DOMAIN ss, NEW rows, rows = ss[p], NEW key \in KeysOf(rows)
  PROVE  Represents(Grouped(rows, key), Classes, val, Parts(ss), {p - 1})
<1> DEFINE table == Grouped(rows, key)
           r == p - 1
           part == Parts(ss)
<1>1. r \in 0 .. Len(ss) - 1 /\ r + 1 = p /\ rows \in Seq(RowType)
  OBVIOUS
<1> HIDE DEF r
<1>2. ClassesIn(rows) \subseteq Classes /\ IsFiniteSet(ClassesIn(rows))
  BY <1>1, ValuesOfClasses, ClassesFinite
<1>3. ASSUME NEW c \in Classes
      PROVE  Piece(part, c, {r}) = part[c][r] /\ (part[c][r] # {} <=> c \in ClassesIn(rows))
  <2> DEFINE m == Len(Upto(ss, c, r))
             raw == RawIn(ss[r + 1], c)
  <2>1. raw \in Seq(Values) /\ m \in Nat /\ part[c][r] = m + 1 .. m + Len(raw)
    <3>1. Fills(part[c][r], RawValues(FlattenSeq(ss))[c], m, raw)
      BY <1>1, StretchHolds
    <3> QED BY <3>1 DEF Fills
  <2>2. DOMAIN raw # {} <=> c \in ClassesIn(rows)
    BY <1>1, ValuesOfClasses
  <2> HIDE DEF m, raw, part
  <2>3. part[c][r] # {} <=> DOMAIN raw # {}
    <3>1. Len(raw) \in Nat /\ DOMAIN raw = 1 .. Len(raw)
      BY <2>1
    <3>2. Len(raw) # 0 => m + 1 \in part[c][r] /\ 1 \in DOMAIN raw
      BY <2>1, <3>1
    <3>3. Len(raw) = 0 => part[c][r] = {} /\ DOMAIN raw = {}
      BY <2>1, <3>1
    <3> QED BY <3>2, <3>3
  <2>4. Piece(part, c, {r}) = part[c][r]
    BY DEF Piece
  <2> QED BY <2>2, <2>3, <2>4
<1>4. {d \in Classes : Piece(part, d, {r}) # {}} = ClassesIn(rows)
  BY <1>2, <1>3
<1>5. DOMAIN table = ClassesIn(rows) /\ table = [c \in ClassesIn(rows) |-> table[c]]
  BY DEF Grouped
<1>6. ASSUME NEW c \in ClassesIn(rows)
      PROVE  /\ table[c] \in Entry
             /\ Class[table[c].key] = c
             /\ \A i \in DOMAIN Aggs : Summary(Aggs[i], table[c].states[i], val[c], Piece(part, c, {r}))
  <2> DEFINE m == Len(Upto(ss, c, r))
             raw == RawIn(ss[r + 1], c)
             n == Len(raw)
             V == m + 1 .. m + n
  <2>1. c \in Classes
    BY <1>2
  <2>2. table[c] = [key |-> key[c], states |-> PartialStates(raw)]
    BY <1>1 DEF Grouped
  <2>3. key[c] \in Keys /\ Class[key[c]] = c
    BY DEF KeysOf
  <2>4. /\ raw \in Seq(Values) /\ m \in Nat /\ part[c][r] = V /\ V \subseteq DOMAIN val[c]
        /\ \A j \in 1 .. n : val[c][m + j] = raw[j]
    <3>1. Fills(part[c][r], val[c], m, raw)
      BY <1>1, <2>1, StretchHolds
    <3> HIDE DEF m, raw, part
    <3> QED BY <3>1 DEF Fills
  <2>5. n \in Nat /\ raw \in [1 .. n -> Values]
    <3> HIDE DEF raw
    <3> QED BY <2>4
  <2>6. Piece(part, c, {r}) = V
    BY <1>3, <2>1, <2>4
  <2> HIDE DEF m, raw, n, table
  <2>7. PartialStates(raw) \in States
    BY <2>5, PartialStatesType
  <2>8. \A i \in DOMAIN Aggs : Summary(Aggs[i], PartialStates(raw)[i], val[c], V)
    BY <2>4, <2>5, PartialSummary
  <2>9. table[c] \in Entry /\ table[c].key = key[c] /\ table[c].states = PartialStates(raw)
    BY <2>2, <2>3, <2>7 DEF Entry
  <2> HIDE DEF V, part
  <2>10. \A i \in DOMAIN Aggs : Summary(Aggs[i], table[c].states[i], val[c], Piece(part, c, {r}))
    BY <2>6, <2>8, <2>9, Zenon
  <2> QED BY <2>3, <2>9, <2>10
<1> HIDE DEF table, part
<1>7. Represents(table, Classes, val, part, {r})
  BY <1>2, <1>4, <1>5, <1>6 DEF Represents
<1> QED BY <1>7 DEF table, part, r

-----------------------------------------------------------------------------
(* The whole aggregation.                                                  *)

\* What HashPartitioner promises (partitioner.py): equal keys, one partition.
KeysAgree ==
  \A k, l \in Keys : Class[k] = Class[l] =>
     \A n \in ShufflePartitions : Hash[k] % n = Hash[l] % n

Place == [k \in Keys |-> PartitionFor(k)]
InTarget(t) == ClassesAt(Place, t)

Vals == RawValues(AllRows)
Rounds == Parts(source)

\* The dataset and the number of targets are those of some query.
QueryType ==
  /\ shuffle_partitions \in ShufflePartitions
  /\ source \in Seq(Seq(RowType))
  /\ Len(source) = NumSources

\* Every block stands for its source, every result for all sources.
BlocksInv ==
  /\ DOMAIN blocks \subseteq Sources
  /\ \A p \in DOMAIN blocks : \A t \in Targets :
       Represents(blocks[p][t], InTarget(t), Vals, Rounds, {p - 1})

ResultsInv ==
  /\ DOMAIN results \subseteq Targets
  /\ \A t \in DOMAIN results :
       Represents(results[t], InTarget(t), Vals, Rounds, 0 .. NumSources)

PhaseInv ==
  /\ phase \in {"write", "read", "done"}
  /\ phase # "write" => DOMAIN blocks = Sources
  /\ phase = "done" => DOMAIN results = Targets

GroupByInv == QueryType /\ BlocksInv /\ ResultsInv /\ PhaseInv

LEMMA GroupByInit == Init => GroupByInv
<1> SUFFICES ASSUME Init PROVE GroupByInv
  OBVIOUS
<1>1. NumSources \in Nat \ {0} /\ MaxRows \in Nat
  BY GroupByAssumption
<1>2. Row \subseteq RowType
  <2>1. 1 \in Nat \ {0}
    OBVIOUS
  <2>2. [1 .. 1 -> Values] \subseteq UNION {[1 .. n -> Values] : n \in Nat \ {0}}
    BY <2>1
  <2> QED BY <2>2, Zenon DEF Row, RowType
<1>3. \A p \in Sources : source[p] \in Seq(RowType)
  <2>1. ASSUME NEW p \in Sources PROVE source[p] \in Seq(RowType)
    <3>1. source[p] \in UNION {[1 .. m -> Row] : m \in 0 .. MaxRows}
      BY DEF Init, BoundedSeq, SeqOf
    <3>2. PICK m \in 0 .. MaxRows : source[p] \in [1 .. m -> Row]
      BY <3>1
    <3>3. m \in Nat /\ source[p] \in [1 .. m -> RowType]
      BY <1>1, <1>2, <3>2
    <3> QED BY ONLY <3>3
  <2> QED BY <2>1
<1>4. source \in [1 .. NumSources -> Seq(RowType)]
  BY <1>3 DEF Init, Sources
<1>5. source \in Seq(Seq(RowType)) /\ Len(source) = NumSources
  BY ONLY <1>1, <1>4
<1>6. QueryType
  BY <1>5 DEF Init, QueryType
<1>7. DOMAIN blocks = {} /\ DOMAIN results = {} /\ phase = "write"
  BY DEF Init
<1> QED BY <1>6, <1>7 DEF GroupByInv, BlocksInv, ResultsInv, PhaseInv

\* Equal keys have one target.
LEMMA PlacesAgree ==
  ASSUME KeysAgree, QueryType
  PROVE  Agree(Place) /\ \A k \in Keys : Place[k] \in Targets
<1>1. shuffle_partitions \in ShufflePartitions /\ shuffle_partitions \in Nat \ {0}
  BY GroupByAssumption DEF QueryType
<1>2. \A k \in Keys : Hash[k] \in Nat
  BY GroupByAssumption
<1>3. Agree(Place)
  BY <1>1 DEF Agree, Place, PartitionFor, KeysAgree
<1>4. \A k \in Keys : Hash[k] % shuffle_partitions \in 0 .. shuffle_partitions - 1
  BY <1>1, <1>2
<1> QED BY <1>3, <1>4 DEF Place, PartitionFor, Targets

\* A source writes what its rows amount to, each class to its target.
LEMMA WriteStep ==
  ASSUME KeysAgree, GroupByInv, NEW p \in Sources, WriteSource(p)
  PROVE  GroupByInv'
<1>1. PICK key \in KeysOf(source[p]) :
        blocks' = [q \in DOMAIN blocks \union {p} |->
                     IF q = p THEN [t \in Targets |-> ForTarget(Grouped(source[p], key), t)]
                              ELSE blocks[q]]
  BY DEF WriteSource
<1>2. /\ shuffle_partitions' = shuffle_partitions /\ source' = source /\ results' = results
      /\ phase = "write"
      /\ phase' = IF DOMAIN blocks' = Sources THEN "read" ELSE "write"
  BY DEF WriteSource, query
<1>3. /\ QueryType' /\ Vals' = Vals /\ Rounds' = Rounds /\ Targets' = Targets
      /\ \A t : InTarget(t)' = InTarget(t)
  BY <1>2 DEF GroupByInv, QueryType, Vals, AllRows, Rounds, Targets, InTarget, Place, PartitionFor
<1> DEFINE table == Grouped(source[p], key)
<1>4. Represents(table, Classes, Vals, Rounds, {p - 1})
  <2>1. source \in Seq(Seq(RowType)) /\ p \in DOMAIN source
    BY DEF GroupByInv, QueryType, Sources
  <2> QED BY <2>1, GroupedRepresents DEF Vals, AllRows, Rounds
<1> HIDE DEF table
<1>5. ASSUME NEW t \in Targets
      PROVE  Represents(ForTarget(table, t), InTarget(t), Vals, Rounds, {p - 1})
  <2> DEFINE new == ForTarget(table, t)
  <2>1. \A d \in DOMAIN table : PartitionFor(table[d].key) = Place[table[d].key]
    <3>1. \A d \in DOMAIN table : table[d].key \in Keys
      BY <1>4 DEF Represents, Entry
    <3> QED BY <3>1 DEF Place
  <2>2. new = [c \in {d \in DOMAIN table : Place[table[d].key] = t} |-> table[c]]
    <3>1. {d \in DOMAIN table : PartitionFor(table[d].key) = t}
            = {d \in DOMAIN table : Place[table[d].key] = t}
      BY <2>1
    <3> QED BY <3>1 DEF ForTarget
  <2>3. Agree(Place)
    BY PlacesAgree DEF GroupByInv
  <2> HIDE DEF new
  <2>4. Represents(new, ClassesAt(Place, t), Vals, Rounds, {p - 1})
    BY <1>4, <2>2, <2>3, PartRepresents
  <2> QED BY <2>4 DEF new, InTarget
<1>6. DOMAIN blocks' = DOMAIN blocks \union {p}
      /\ \A q \in DOMAIN blocks' :
           blocks'[q] = IF q = p THEN [t \in Targets |-> ForTarget(table, t)] ELSE blocks[q]
  BY <1>1 DEF table
<1>7. ASSUME NEW q \in DOMAIN blocks', NEW t \in Targets
      PROVE  Represents(blocks'[q][t], InTarget(t), Vals, Rounds, {q - 1})
  <2>1. CASE q = p
    <3>1. blocks'[q][t] = ForTarget(table, t)
      BY <1>6, <2>1
    <3> QED BY <1>5, <2>1, <3>1
  <2>2. CASE q # p
    <3>1. q \in DOMAIN blocks /\ blocks'[q] = blocks[q]
      BY <1>6, <2>2
    <3> QED BY <3>1 DEF GroupByInv, BlocksInv
  <2> QED BY <2>1, <2>2
<1>8. BlocksInv'
  <2>1. DOMAIN blocks' \subseteq Sources
    BY <1>6 DEF GroupByInv, BlocksInv
  <2>2. Sources' = Sources
    BY DEF Sources
  <2> QED BY <1>3, <1>7, <2>1, <2>2 DEF BlocksInv
<1>9. ResultsInv'
  BY <1>2, <1>3 DEF GroupByInv, ResultsInv
<1>10. PhaseInv'
  BY <1>2 DEF PhaseInv, Sources
<1> QED BY <1>3, <1>8, <1>9, <1>10 DEF GroupByInv

\* A target merges what all sources wrote for it.
LEMMA MergedForTarget ==
  ASSUME KeysAgree, GroupByInv, phase = "read", NEW t \in Targets
  PROVE  Represents(MergeFiles(NoGroups, [p \in Sources |-> blocks[p][t]]),
                    InTarget(t), Vals, Rounds, 0 .. NumSources)
<1> DEFINE n == NumSources
           D == InTarget(t)
           val == Vals
           part == Rounds
           files == [p \in Sources |-> blocks[p][t]]
           round == [p \in Sources |-> p - 1]
           all == 0 .. n
<1>1. n \in Nat /\ Sources = 1 .. n
  BY GroupByAssumption DEF Sources
<1>2. D \in SUBSET Classes
  BY DEF InTarget, ClassesAt
<1>3. Divides(val, part, n)
  BY SourcesDivide DEF GroupByInv, QueryType, Vals, AllRows, Rounds
<1>4. \A c \in Classes : part[c][n] = {}
  BY <1>1 DEF Rounds, Parts, GroupByInv, QueryType
<1>5. Represents(NoGroups, D, val, part, {n})
  <2>1. \A c \in D : Piece(part, c, {n}) = {}
    BY <1>2, <1>4 DEF Piece
  <2>2. DOMAIN NoGroups = {} /\ NoGroups = [c \in {} |-> NoGroups[c]]
    BY DEF NoGroups
  <2>3. {d \in D : Piece(part, d, {n}) # {}} = {}
    BY <2>1
  <2>4. NoGroups = [c \in {d \in D : Piece(part, d, {n}) # {}} |-> NoGroups[c]]
    BY <2>2, <2>3
  <2>5. IsFiniteSet(DOMAIN NoGroups)
    BY <2>2, FS_EmptySet
  <2> QED BY <2>2, <2>4, <2>5 DEF Represents
<1>6. \A p \in Sources : Represents(files[p], D, val, part, {p - 1})
  BY DEF GroupByInv, BlocksInv, PhaseInv
<1> HIDE DEF D, val, part
<1>7. FilesOfRounds(files, round, D, val, part, n)
  <2>1. \A p \in Sources : p - 1 \in 0 .. n - 1
    BY <1>1
  <2>2. \A p, q \in Sources : p # q => p - 1 # q - 1
    BY <1>1
  <2>3. DOMAIN files = Sources /\ \A p \in Sources : round[p] = p - 1
    OBVIOUS
  <2> HIDE DEF files, round
  <2> QED BY <1>6, <2>1, <2>2, <2>3 DEF FilesOfRounds
<1>8. files \in Seq(Tables)
  <2>1. \A p \in Sources : files[p] \in Tables
    <3> HIDE DEF files
    <3> QED BY <1>2, <1>6, RepresentsType
  <2>2. files \in [1 .. n -> Tables]
    BY <1>1, <2>1
  <2> HIDE DEF files, n
  <2> QED BY ONLY <1>1, <2>2
<1>9. all = {n} \union {round[p] : p \in DOMAIN files}
  <2>1. {round[p] : p \in DOMAIN files} = {p - 1 : p \in Sources}
    OBVIOUS
  <2>2. \A r \in 0 .. n - 1 : r + 1 \in Sources /\ r = (r + 1) - 1
    BY <1>1
  <2>3. {p - 1 : p \in Sources} = 0 .. n - 1
    BY <1>1, <2>2
  <2>4. 0 .. n = {n} \union (0 .. n - 1)
    BY <1>1
  <2> QED BY <2>1, <2>3, <2>4
<1> HIDE DEF n, files, round, all
<1>10. Represents(MergeFiles(NoGroups, files), D, val, part, all)
  BY <1>1, <1>2, <1>3, <1>5, <1>7, <1>8, <1>9, MergeFilesRepresents
<1> QED BY <1>10 DEF n, D, val, part, files, all

LEMMA ReadStep ==
  ASSUME KeysAgree, GroupByInv, NEW t \in Targets, ReadTarget(t)
  PROVE  GroupByInv'
<1> DEFINE merged == MergeFiles(NoGroups, [p \in Sources |-> blocks[p][t]])
<1>1. results' = [u \in DOMAIN results \union {t} |-> IF u = t THEN merged ELSE results[u]]
  BY DEF ReadTarget
<1>2. /\ shuffle_partitions' = shuffle_partitions /\ source' = source /\ blocks' = blocks
      /\ phase = "read"
      /\ phase' = IF DOMAIN results' = Targets THEN "done" ELSE "read"
  BY DEF ReadTarget, query
<1>3. /\ QueryType' /\ Vals' = Vals /\ Rounds' = Rounds /\ Targets' = Targets
      /\ \A u : InTarget(u)' = InTarget(u)
  BY <1>2 DEF GroupByInv, QueryType, Vals, AllRows, Rounds, Targets, InTarget, Place, PartitionFor
<1>4. Represents(merged, InTarget(t), Vals, Rounds, 0 .. NumSources)
  BY <1>2, MergedForTarget
<1> HIDE DEF merged
<1>5. BlocksInv'
  BY <1>2, <1>3 DEF GroupByInv, BlocksInv, Sources
<1>6. ResultsInv'
  <2>1. DOMAIN results' \subseteq Targets
    BY <1>1 DEF GroupByInv, ResultsInv
  <2>2. \A u \in DOMAIN results' : Represents(results'[u], InTarget(u), Vals, Rounds, 0 .. NumSources)
    BY <1>1, <1>4 DEF GroupByInv, ResultsInv
  <2> QED BY <1>3, <2>1, <2>2 DEF ResultsInv
<1>7. PhaseInv'
  BY <1>2, <1>3 DEF GroupByInv, PhaseInv, Sources
<1> QED BY <1>3, <1>5, <1>6, <1>7 DEF GroupByInv

\* GroupByInv is inductive.
LEMMA GroupByInductive == KeysAgree => (Spec => []GroupByInv)
<1> SUFFICES ASSUME KeysAgree PROVE Spec => []GroupByInv
  OBVIOUS
<1>1. GroupByInv /\ [Next]_vars => GroupByInv'
  <2> SUFFICES ASSUME GroupByInv, [Next]_vars PROVE GroupByInv'
    OBVIOUS
  <2>1. ASSUME NEW p \in Sources, WriteSource(p) PROVE GroupByInv'
    BY <2>1, WriteStep
  <2>2. ASSUME NEW t \in Targets, ReadTarget(t) PROVE GroupByInv'
    BY <2>2, ReadStep
  <2>3. CASE UNCHANGED vars
    BY <2>3 DEF vars, query, GroupByInv, QueryType, BlocksInv, ResultsInv, PhaseInv, Vals, AllRows,
                Rounds, Sources, Targets, InTarget, Place, PartitionFor
  <2> QED BY <2>1, <2>2, <2>3 DEF Next
<1> QED BY <1>1, GroupByInit, PTL DEF Spec

\* group_by().agg() computes GROUP BY of the whole dataset for every number
\* of partitions on either side, all rows and keys and any order of the tasks,
\* if equal keys are sent to the same target: each group once, each aggregate
\* as over the raw rows, though only partial states ever met.
THEOREM GroupByIsReference == KeysAgree => (Spec => []CollectsTheGroups)
<1> SUFFICES ASSUME KeysAgree PROVE Spec => []CollectsTheGroups
  OBVIOUS
<1>1. GroupByInv => CollectsTheGroups
  <2> SUFFICES ASSUME GroupByInv, phase = "done" PROVE CollectsTheGroups
    BY DEF CollectsTheGroups
  <2>1. /\ QueryType /\ source \in Seq(Seq(RowType)) /\ DOMAIN results = Targets
        /\ \A t \in Targets : Represents(results[t], InTarget(t), Vals, Rounds, 0 .. NumSources)
    BY DEF GroupByInv, QueryType, ResultsInv, PhaseInv
  <2>2. AllRows \in Seq(RowType) /\ Divides(Vals, Rounds, NumSources) /\ NumSources \in Nat
    BY <2>1, FlattenType, SourcesDivide, GroupByAssumption DEF AllRows, Vals, Rounds, QueryType
  <2>3. ClassesIn(AllRows) \subseteq Classes
    BY <2>2, ValuesOfClasses
  <2>4. ASSUME NEW t \in Targets PROVE IsReference(results[t], AllRows, InTarget(t))
    <3> DEFINE D == InTarget(t)
               table == results[t]
               R == 0 .. NumSources
               val == Vals
               rows == AllRows
               part == Rounds
    <3>1. D \in SUBSET Classes
      BY DEF InTarget, ClassesAt
    <3>2. Represents(table, D, val, part, R)
      BY <2>1
    <3>3. rows \in Seq(RowType) /\ val = RawValues(rows) /\ Divides(val, part, NumSources)
      BY <2>2 DEF Vals
    <3> HIDE DEF D, table, R, val, rows, part
    <3>4. IsReference(table, rows, D)
      BY <2>2, <3>1, <3>2, <3>3, TableIsReference DEF R
    <3> QED BY <3>4 DEF table, rows, D
  <2>5. /\ \A t, u \in Targets : t # u => InTarget(t) \cap InTarget(u) = {}
        /\ \A c \in Classes : \E t \in Targets : c \in InTarget(t)
    BY <2>1, PlacesAgree, PlacesApart DEF InTarget
  <2>6. \A t \in Targets : DOMAIN results[t] = InTarget(t) \cap ClassesIn(AllRows)
    BY <2>4 DEF IsReference
  <2>7. UNION {DOMAIN results[t] : t \in Targets} = ClassesIn(AllRows)
    BY <2>3, <2>5, <2>6
  <2>8. \A t, u \in Targets : t # u => DOMAIN results[t] \cap DOMAIN results[u] = {}
    BY <2>5, <2>6
  <2>9. \A t \in Targets : \A c \in DOMAIN results[t] : \A i \in DOMAIN Aggs :
          Finalize(Aggs[i], results[t][c].states[i]) = Reference(Aggs[i], RawIn(AllRows, c))
    BY <2>4 DEF IsReference
  <2> QED BY <2>7, <2>8, <2>9 DEF CollectsTheGroups
<1>2. Spec => []GroupByInv
  BY GroupByInductive
<1> QED BY <1>1, <1>2, PTL
=============================================================================
