------------------------- MODULE ExternalSortProofs -------------------------
(***************************************************************************)
(* Spilling does not show: whatever is spilled and wherever, the records   *)
(* that a sorted Partition yields are the first ones of the stable sort of *)
(* its whole input, for any sort expressions, values and sizes.            *)
(*                                                                         *)
(* While rows are accumulated, the buffer holds the last ones as they came *)
(* and the runs the others, each in the order of the merge keys.  While    *)
(* they are merged, what was yielded comes before all that is unread.      *)
(***************************************************************************)
EXTENDS ExternalSort, DataTheorems

S == Pairs(Ascending)
Q == RowOrder(Ascending)

\* The pair is one of the rows with its position.
IsInput(rows, pair) == pair.seq + 1 \in DOMAIN rows /\ rows[pair.seq + 1] = pair.row

\* One of the runs holds the pair.
Spread(runs, pair) == \E r \in DOMAIN runs : Has(runs[r], pair)

\* No two runs hold the same pair.
Apart(runs) ==
  \A q, r \in DOMAIN runs : \A x \in S : Has(runs[q], x) /\ Has(runs[r], x) => q = r

InTurn(buf) == \A i, j \in DOMAIN buf : i < j => buf[i].seq < buf[j].seq

\* What the buffer and the runs hold of the rows taken from the child.
Gathered(buf, runs, rows) ==
  /\ buf \in Seq(S) /\ runs \in Seq(Seq(S)) /\ rows \in Seq(Rows(Ascending))
  /\ InTurn(buf)
  /\ \A r \in DOMAIN runs : Arranged(runs[r], Q)
  /\ Apart(runs)
  /\ \A x \in S : ~ (Has(buf, x) /\ Spread(runs, x))
  /\ \A x \in S : IsInput(rows, x) <=> Has(buf, x) \/ Spread(runs, x)

\* What was yielded and what the runs still hold.
Merged(yielded, runs, rows) ==
  /\ yielded \in Seq(S) /\ runs \in Seq(Seq(S)) /\ rows \in Seq(Rows(Ascending))
  /\ Arranged(yielded, Q)
  /\ \A r \in DOMAIN runs : Arranged(runs[r], Q)
  /\ Apart(runs)
  /\ \A x, y \in S : Has(yielded, x) /\ Spread(runs, y) => <<x, y>> \in Q
  /\ \A x \in S : IsInput(rows, x) <=> Has(yielded, x) \/ Spread(runs, x)

AllRead(runs) == \A r \in DOMAIN runs : runs[r] = <<>>

SortInv ==
  /\ phase \in {"accumulate", "unread", "emit", "done", "closed", "raised"}
  /\ phase = "accumulate" => Gathered(buffer, spill_files, seen)
  /\ phase \in {"unread", "emit", "done", "closed"} => Merged(out, unread, seen)
  /\ phase = "done" => AllRead(unread)

\* The directory is left only by a generator that yielded nothing.
SpillInv ==
  /\ phase \in {"accumulate", "unread"} => out = <<>>
  /\ phase = "done" => spill_files = <<>>
  /\ phase = "closed" => out = <<>> \/ spill_files = <<>>

-----------------------------------------------------------------------------
(* Elements.                                                               *)

LEMMA HasAppend ==
  ASSUME NEW A, NEW s \in Seq(A), NEW y \in A, NEW x
  PROVE  Has(Append(s, y), x) <=> Has(s, x) \/ x = y
<1> DEFINE t == Append(s, y)
           n == Len(s)
<1>1. /\ n \in Nat /\ DOMAIN s = 1 .. n /\ DOMAIN t = 1 .. n + 1
      /\ t[n + 1] = y /\ \A i \in 1 .. n : t[i] = s[i]
  OBVIOUS
<1> HIDE DEF t, n
<1>2. 1 .. n + 1 = 1 .. n \union {n + 1}
  BY <1>1
<1>3. Has(t, x) <=> \E i \in 1 .. n + 1 : t[i] = x
  BY <1>1 DEF Has
<1>4. Has(s, x) <=> \E i \in 1 .. n : s[i] = x
  BY <1>1 DEF Has
<1>5. Has(t, x) <=> Has(s, x) \/ x = y
  BY <1>1, <1>2, <1>3, <1>4
<1> QED BY <1>5 DEF t

LEMMA HasHead ==
  ASSUME NEW A, NEW s \in Seq(A), s # <<>>, NEW x
  PROVE  /\ Tail(s) \in Seq(A) /\ Head(s) \in A /\ Has(s, Head(s))
         /\ Has(s, x) <=> x = Head(s) \/ Has(Tail(s), x)
<1> DEFINE t == Tail(s)
           n == Len(s)
<1>1. /\ n \in Nat /\ n >= 1 /\ DOMAIN s = 1 .. n /\ t \in Seq(A) /\ DOMAIN t = 1 .. n - 1
      /\ Head(s) = s[1] /\ s[1] \in A /\ \A i \in 1 .. n - 1 : t[i] = s[i + 1]
  OBVIOUS
<1> HIDE DEF t, n
<1>2. Has(s, Head(s)) /\ (Has(t, x) => Has(s, x))
  <2>1. 1 \in 1 .. n /\ \A i \in 1 .. n - 1 : i + 1 \in 1 .. n
    BY <1>1
  <2> QED BY <1>1, <2>1 DEF Has
<1>3. Has(s, x) => x = Head(s) \/ Has(t, x)
  <2>1. \A i \in 1 .. n : i = 1 \/ (i - 1 \in 1 .. n - 1 /\ (i - 1) + 1 = i)
    BY <1>1
  <2>2. \A i \in 1 .. n : i = 1 \/ (i - 1 \in 1 .. n - 1 /\ t[i - 1] = s[i])
    <3> SUFFICES ASSUME NEW i \in 1 .. n, i # 1 PROVE i - 1 \in 1 .. n - 1 /\ t[i - 1] = s[i]
      OBVIOUS
    <3>1. i - 1 \in 1 .. n - 1 /\ (i - 1) + 1 = i
      BY <2>1
    <3> QED BY <1>1, <3>1
  <2> QED BY <1>1, <2>2 DEF Has
<1> QED BY <1>1, <1>2, <1>3 DEF t

\* A tail is arranged, and behind the head.
LEMMA ArrangedTail ==
  ASSUME NEW A, NEW s \in Seq(A), s # <<>>, NEW R, Arranged(s, R)
  PROVE  /\ Arranged(Tail(s), R)
         /\ \A x : Has(Tail(s), x) => <<Head(s), x>> \in R
<1> DEFINE t == Tail(s)
           n == Len(s)
<1>1. /\ n \in Nat /\ n >= 1 /\ DOMAIN s = 1 .. n /\ DOMAIN t = 1 .. n - 1
      /\ Head(s) = s[1] /\ \A i \in 1 .. n - 1 : t[i] = s[i + 1]
  OBVIOUS
<1> HIDE DEF t, n
<1>2. \A i \in 1 .. n - 1 : i + 1 \in 1 .. n /\ 1 \in 1 .. n /\ 1 < i + 1
  BY <1>1
<1>3. \A i, j \in 1 .. n - 1 : i < j => i + 1 < j + 1
  BY <1>1
<1>4. \A i, j \in 1 .. n : i < j => <<s[i], s[j]>> \in R
  BY <1>1 DEF Arranged
<1>5. \A i, j \in DOMAIN t : i < j => <<t[i], t[j]>> \in R
  BY <1>1, <1>2, <1>3, <1>4
<1>6. \A i \in DOMAIN t : <<Head(s), t[i]>> \in R
  BY <1>1, <1>2, <1>4
<1>7. Arranged(t, R) /\ \A x : Has(t, x) => <<Head(s), x>> \in R
  BY <1>5, <1>6 DEF Arranged, Has
<1> QED BY <1>7 DEF t

\* What comes after all of an arrangement goes to its end.
LEMMA ArrangedAppend ==
  ASSUME NEW A, NEW s \in Seq(A), NEW y \in A, NEW R, Arranged(s, R),
         \A x \in A : Has(s, x) => <<x, y>> \in R
  PROVE  Arranged(Append(s, y), R)
<1> DEFINE t == Append(s, y)
           n == Len(s)
<1>1. /\ n \in Nat /\ DOMAIN s = 1 .. n /\ DOMAIN t = 1 .. n + 1
      /\ t[n + 1] = y /\ \A i \in 1 .. n : t[i] = s[i] /\ s[i] \in A
  OBVIOUS
<1> HIDE DEF t, n
<1>2. ASSUME NEW i \in DOMAIN t, NEW j \in DOMAIN t, i < j PROVE <<t[i], t[j]>> \in R
  <2>1. i \in 1 .. n /\ (j \in 1 .. n \/ j = n + 1)
    BY <1>1, <1>2
  <2>2. CASE j \in 1 .. n
    BY <1>1, <1>2, <2>1, <2>2 DEF Arranged
  <2>3. CASE j = n + 1
    <3>1. Has(s, s[i]) /\ s[i] \in A
      BY <1>1, <2>1 DEF Has
    <3> QED BY <1>1, <2>1, <2>3, <3>1
  <2> QED BY <2>1, <2>2, <2>3
<1>3. Arranged(t, R)
  BY <1>2 DEF Arranged
<1> QED BY <1>3 DEF t

-----------------------------------------------------------------------------
(* The constants.                                                          *)

LEMMA AscendingType == Ascending \in Seq(BOOLEAN)
BY SortAssumption

LEMMA RowType == \A row \in Row : row \in Rows(Ascending)
<1>1. \A v \in Values : v \in Nullables
  BY SortAssumption DEF Nullables, Null
<1> QED BY <1>1 DEF Row, Exprs, Rows

LEMMA OrderFacts ==
  /\ \A a \in S : <<a, a>> \notin Q
  /\ \A a, b, c \in S : <<a, b>> \in Q /\ <<b, c>> \in Q => <<a, c>> \in Q
  /\ \A a, b \in S : a = b \/ <<a, b>> \in Q \/ <<b, a>> \in Q
<1>1. StrictOrder(Q, S) /\ \A a, b \in S : a = b \/ <<a, b>> \in Q \/ <<b, a>> \in Q
  BY AscendingType, RowOrderStrict DEF S, Q
<1> QED BY <1>1 DEF StrictOrder

\* The inputs are the tagged rows.
LEMMA InputsAreTagged ==
  ASSUME NEW rows \in Seq(Rows(Ascending)), NEW x \in S,
         NEW tagged, tagged = Tag(0, rows)
  PROVE  IsInput(rows, x) <=> Has(tagged, x)
<1>0. tagged = [i \in DOMAIN rows |-> [seq |-> i - 1, row |-> rows[i]]]
  BY TagZero
<1>1. x = [seq |-> x.seq, row |-> x.row] /\ x.seq \in Int
  BY DEF S, Pairs
<1>2. ASSUME IsInput(rows, x) PROVE Has(tagged, x)
  <2>1. x.seq + 1 \in DOMAIN rows /\ rows[x.seq + 1] = x.row /\ (x.seq + 1) - 1 = x.seq
    BY <1>1, <1>2 DEF IsInput
  <2>2. tagged[x.seq + 1] = [seq |-> (x.seq + 1) - 1, row |-> x.row] /\ DOMAIN tagged = DOMAIN rows
    BY <1>0, <2>1
  <2>3. tagged[x.seq + 1] = x
    BY <1>1, <2>1, <2>2
  <2> QED BY <2>1, <2>2, <2>3 DEF Has
<1>3. ASSUME Has(tagged, x) PROVE IsInput(rows, x)
  <2>1. PICK i \in DOMAIN rows : x = [seq |-> i - 1, row |-> rows[i]]
    BY <1>0, <1>3 DEF Has
  <2>2. x.seq = i - 1 /\ x.row = rows[i] /\ i \in Int
    BY <2>1
  <2>3. x.seq + 1 = i
    BY <2>2
  <2> QED BY <2>2, <2>3 DEF IsInput
<1> QED BY <1>2, <1>3

-----------------------------------------------------------------------------
(* Accumulating.                                                           *)

\* One more row.
LEMMA GatherRow ==
  ASSUME NEW buf, NEW runs, NEW rows, Gathered(buf, runs, rows), NEW row \in Rows(Ascending),
         NEW pair, pair = [seq |-> Len(rows), row |-> row]
  PROVE  Gathered(Append(buf, pair), runs, Append(rows, row))
<1> DEFINE n == Len(rows)
           more == Append(rows, row)
           fill == Append(buf, pair)
<1>1. /\ rows \in Seq(Rows(Ascending)) /\ buf \in Seq(S) /\ runs \in Seq(Seq(S))
      /\ n \in Nat /\ DOMAIN rows = 1 .. n
  BY DEF Gathered
<1>2. pair \in S /\ pair.seq = n /\ pair.row = row
  BY <1>1 DEF S, Pairs, Rows
<1>3. more \in Seq(Rows(Ascending)) /\ fill \in Seq(S)
  BY <1>1, <1>2
<1>4. /\ DOMAIN more = 1 .. n + 1 /\ more[n + 1] = row /\ \A i \in 1 .. n : more[i] = rows[i]
  BY <1>1
<1>5. \A x \in S : x.seq \in Int /\ (x.seq = n /\ x.row = row => x = pair)
  BY <1>2 DEF S, Pairs
<1> HIDE DEF more, n
<1>6. \A x \in S : IsInput(rows, x) => x.seq < n
  BY <1>1, <1>5 DEF IsInput
<1>7. \A x \in S : IsInput(more, x) <=> IsInput(rows, x) \/ x = pair
  <2> SUFFICES ASSUME NEW x \in S PROVE IsInput(more, x) <=> IsInput(rows, x) \/ x = pair
    OBVIOUS
  <2>1. CASE x.seq + 1 = n + 1
    <3>1. x.seq = n /\ ~ IsInput(rows, x)
      BY <1>1, <1>5, <1>6, <2>1
    <3>2. IsInput(more, x) <=> x.row = row
      BY <1>1, <1>4, <2>1 DEF IsInput
    <3> QED BY <1>2, <1>5, <3>1, <3>2
  <2>2. CASE x.seq + 1 # n + 1
    <3>1. x # pair
      BY <1>2, <2>2
    <3>2. x.seq + 1 \in 1 .. n <=> x.seq + 1 \in 1 .. n + 1
      BY <1>1, <1>5, <2>2
    <3> QED BY <1>1, <1>4, <3>1, <3>2 DEF IsInput
  <2> QED BY <2>1, <2>2
<1>8. ~ IsInput(rows, pair)
  BY <1>1, <1>2, <1>6
<1>9. \A x : Has(fill, x) <=> Has(buf, x) \/ x = pair
  BY <1>1, <1>2, HasAppend
<1>10. /\ \A x \in S : ~ (Has(buf, x) /\ Spread(runs, x))
       /\ \A x \in S : IsInput(rows, x) <=> Has(buf, x) \/ Spread(runs, x)
       /\ \A r \in DOMAIN runs : Arranged(runs[r], Q)
       /\ Apart(runs) /\ InTurn(buf)
  BY DEF Gathered
<1>11. InTurn(fill)
  <2>1. /\ DOMAIN buf = 1 .. Len(buf) /\ Len(buf) \in Nat /\ DOMAIN fill = 1 .. Len(buf) + 1
        /\ fill[Len(buf) + 1] = pair /\ \A i \in 1 .. Len(buf) : fill[i] = buf[i] /\ buf[i] \in S
    BY <1>1
  <2>2. ASSUME NEW i \in DOMAIN fill, NEW j \in DOMAIN fill, i < j PROVE fill[i].seq < fill[j].seq
    <3>1. i \in 1 .. Len(buf) /\ (j \in 1 .. Len(buf) \/ j = Len(buf) + 1)
      BY <2>1, <2>2
    <3>2. CASE j \in 1 .. Len(buf)
      BY <1>10, <2>1, <2>2, <3>1, <3>2 DEF InTurn
    <3>3. CASE j = Len(buf) + 1
      <4>1. Has(buf, buf[i]) /\ buf[i] \in S
        BY <2>1, <3>1 DEF Has
      <4>2. buf[i].seq < n
        BY <1>6, <1>10, <4>1
      <4> QED BY <1>2, <2>1, <3>1, <3>3, <4>2
    <3> QED BY <3>1, <3>2, <3>3
  <2> QED BY <2>2 DEF InTurn
<1> HIDE DEF fill
<1>12. \A x \in S : ~ (Has(fill, x) /\ Spread(runs, x))
  BY <1>2, <1>8, <1>9, <1>10
<1>13. \A x \in S : IsInput(more, x) <=> Has(fill, x) \/ Spread(runs, x)
  BY <1>7, <1>9, <1>10
<1>14. Gathered(fill, runs, more)
  BY <1>1, <1>3, <1>10, <1>11, <1>12, <1>13 DEF Gathered
<1> QED BY <1>14 DEF fill, more

\* Sorting the buffer.
LEMMA BufferSorts ==
  ASSUME NEW buf \in Seq(S), InTurn(buf), NEW run, run = SortRows(Ascending, buf)
  PROVE  run \in Seq(S) /\ Arranged(run, Q) /\ \A x : Has(run, x) <=> Has(buf, x)
<1>1. Arranged(buf, Ties(Ascending))
  <2>1. ASSUME NEW i \in DOMAIN buf, NEW j \in DOMAIN buf, i < j
        PROVE  <<buf[i], buf[j]>> \in Ties(Ascending)
    <3>1. buf[i].seq < buf[j].seq /\ buf[i] \in S /\ buf[j] \in S
      BY <2>1 DEF InTurn
    <3> QED BY <3>1 DEF Ties, S
  <2> QED BY <2>1 DEF Arranged
<1>2. buf \in Seq(Pairs(Ascending))
  BY DEF S
<1>3. run \in Seq(Pairs(Ascending)) /\ SameElements(run, buf) /\ Arranged(run, RowOrder(Ascending))
  BY <1>1, <1>2, AscendingType, SortRowsSorts
<1> QED BY <1>3 DEF S, Q, SameElements

\* Spilling it.
LEMMA GatherSpill ==
  ASSUME NEW buf, NEW runs, NEW rows, Gathered(buf, runs, rows),
         NEW run, run = SortRows(Ascending, buf)
  PROVE  Gathered(<<>>, Append(runs, run), rows)
<1> DEFINE n == Len(runs)
           more == Append(runs, run)
<1>1. /\ rows \in Seq(Rows(Ascending)) /\ buf \in Seq(S) /\ runs \in Seq(Seq(S)) /\ InTurn(buf)
      /\ n \in Nat /\ DOMAIN runs = 1 .. n
  BY DEF Gathered
<1>2. run \in Seq(S) /\ Arranged(run, Q) /\ \A x : Has(run, x) <=> Has(buf, x)
  BY <1>1, BufferSorts
<1>3. /\ more \in Seq(Seq(S)) /\ DOMAIN more = 1 .. n + 1 /\ more[n + 1] = run
      /\ \A i \in 1 .. n : more[i] = runs[i]
  BY <1>1, <1>2
<1> HIDE DEF more, n
<1>4. 1 .. n + 1 = 1 .. n \union {n + 1} /\ n + 1 \notin 1 .. n
  BY <1>1
<1>5. \A x : Spread(more, x) <=> Spread(runs, x) \/ Has(run, x)
  BY <1>1, <1>3, <1>4 DEF Spread
<1>6. /\ \A x \in S : ~ (Has(buf, x) /\ Spread(runs, x))
      /\ \A x \in S : IsInput(rows, x) <=> Has(buf, x) \/ Spread(runs, x)
      /\ \A r \in DOMAIN runs : Arranged(runs[r], Q)
      /\ Apart(runs)
  BY DEF Gathered
<1>7. \A r \in DOMAIN more : Arranged(more[r], Q)
  BY <1>1, <1>2, <1>3, <1>4, <1>6
<1>8. Apart(more)
  <2>1. ASSUME NEW q \in DOMAIN more, NEW r \in DOMAIN more, NEW x \in S, Has(more[q], x), Has(more[r], x)
        PROVE  q = r
    <3>1. q \in 1 .. n => Spread(runs, x)
      BY <1>1, <1>3, <2>1 DEF Spread
    <3>2. r \in 1 .. n => Spread(runs, x)
      BY <1>1, <1>3, <2>1 DEF Spread
    <3>3. CASE q \in 1 .. n /\ r \in 1 .. n
      BY <1>1, <1>3, <1>6, <2>1, <3>3 DEF Apart
    <3>4. CASE q = n + 1 \/ r = n + 1
      <4>1. Has(buf, x)
        BY <1>2, <1>3, <2>1, <3>4
      <4>2. q \notin 1 .. n /\ r \notin 1 .. n
        BY <1>6, <3>1, <3>2, <4>1
      <4> QED BY <1>3, <1>4, <2>1, <4>2
    <3> QED BY <1>3, <1>4, <2>1, <3>3, <3>4
  <2> QED BY <2>1 DEF Apart
<1>9. <<>> \in Seq(S) /\ InTurn(<<>>) /\ \A x : ~ Has(<<>>, x)
  BY DEF InTurn, Has
<1>10. Gathered(<<>>, more, rows)
  BY <1>1, <1>2, <1>3, <1>5, <1>6, <1>7, <1>8, <1>9 DEF Gathered
<1> QED BY <1>10 DEF more

-----------------------------------------------------------------------------
(* Merging.                                                                *)

\* What is left in the buffer is the first run.
LEMMA GatherEnd ==
  ASSUME NEW buf, NEW runs, NEW rows, Gathered(buf, runs, rows),
         NEW all, all = <<SortRows(Ascending, buf)>> \o runs
  PROVE  Merged(<<>>, all, rows)
<1> DEFINE n == Len(runs)
           run == SortRows(Ascending, buf)
<1>1. /\ rows \in Seq(Rows(Ascending)) /\ buf \in Seq(S) /\ runs \in Seq(Seq(S)) /\ InTurn(buf)
      /\ n \in Nat /\ DOMAIN runs = 1 .. n
  BY DEF Gathered
<1>2. run \in Seq(S) /\ Arranged(run, Q) /\ \A x : Has(run, x) <=> Has(buf, x)
  BY <1>1, BufferSorts
<1> HIDE DEF run
<1>3. /\ all \in Seq(Seq(S)) /\ DOMAIN all = 1 .. n + 1 /\ all[1] = run
      /\ \A i \in 1 .. n : all[i + 1] = runs[i]
  <2> DEFINE one == <<run>>
  <2>1. one \in Seq(Seq(S)) /\ Len(one) = 1 /\ one[1] = run /\ all = one \o runs
    BY <1>2 DEF run
  <2> HIDE DEF one
  <2>2. /\ all \in Seq(Seq(S)) /\ DOMAIN all = 1 .. Len(one) + Len(runs)
        /\ \A p \in 1 .. Len(one) : all[p] = one[p]
        /\ \A j \in 1 .. Len(runs) : all[Len(one) + j] = runs[j]
    <3>1. /\ one \o runs \in Seq(Seq(S)) /\ DOMAIN (one \o runs) = 1 .. Len(one) + Len(runs)
          /\ \A p \in 1 .. Len(one) : (one \o runs)[p] = one[p]
          /\ \A j \in 1 .. Len(runs) : (one \o runs)[Len(one) + j] = runs[j]
      BY <1>1, <2>1, ConcatFacts
    <3> QED BY <2>1, <3>1
  <2>3. 1 \in 1 .. Len(one) /\ \A i \in 1 .. n : 1 + i = i + 1
    BY <1>1, <2>1
  <2>4. Len(one) + Len(runs) = n + 1
    BY <1>1, <2>1
  <2> QED BY <2>1, <2>2, <2>3, <2>4
<1> HIDE DEF n
<1>4. \A r \in 1 .. n + 1 : r = 1 \/ (r - 1 \in 1 .. n /\ all[r] = runs[r - 1])
  <2> SUFFICES ASSUME NEW r \in 1 .. n + 1, r # 1 PROVE r - 1 \in 1 .. n /\ all[r] = runs[r - 1]
    OBVIOUS
  <2>1. r - 1 \in 1 .. n /\ (r - 1) + 1 = r
    BY <1>1
  <2> QED BY <1>3, <2>1
<1>5. \A x : Spread(all, x) <=> Spread(runs, x) \/ Has(run, x)
  <2> SUFFICES ASSUME NEW x PROVE Spread(all, x) <=> Spread(runs, x) \/ Has(run, x)
    OBVIOUS
  <2>1. Spread(all, x) => Spread(runs, x) \/ Has(run, x)
    BY <1>1, <1>3, <1>4 DEF Spread
  <2>2. Has(run, x) => Spread(all, x)
    <3>1. 1 \in 1 .. n + 1
      BY <1>1
    <3> QED BY <1>3, <3>1 DEF Spread
  <2>3. Spread(runs, x) => Spread(all, x)
    <3>1. \A i \in 1 .. n : i + 1 \in 1 .. n + 1
      BY <1>1
    <3> QED BY <1>1, <1>3, <3>1 DEF Spread
  <2> QED BY <2>1, <2>2, <2>3
<1>6. /\ \A x \in S : ~ (Has(buf, x) /\ Spread(runs, x))
      /\ \A x \in S : IsInput(rows, x) <=> Has(buf, x) \/ Spread(runs, x)
      /\ \A r \in DOMAIN runs : Arranged(runs[r], Q)
      /\ Apart(runs)
  BY DEF Gathered
<1>7. \A r \in DOMAIN all : Arranged(all[r], Q)
  BY <1>1, <1>2, <1>3, <1>4, <1>6
<1>8. Apart(all)
  <2>1. ASSUME NEW q \in DOMAIN all, NEW r \in DOMAIN all, NEW x \in S, Has(all[q], x), Has(all[r], x)
        PROVE  q = r
    <3>1. q # 1 => Spread(runs, x)
      BY <1>1, <1>3, <1>4, <2>1 DEF Spread
    <3>2. r # 1 => Spread(runs, x)
      BY <1>1, <1>3, <1>4, <2>1 DEF Spread
    <3>3. CASE q # 1 /\ r # 1
      <4>1. q - 1 \in DOMAIN runs /\ r - 1 \in DOMAIN runs
            /\ Has(runs[q - 1], x) /\ Has(runs[r - 1], x) /\ q \in Int /\ r \in Int
        <5>1. ASSUME NEW i \in DOMAIN all, i # 1, Has(all[i], x)
              PROVE  i - 1 \in DOMAIN runs /\ Has(runs[i - 1], x) /\ i \in Int
          <6>1. i \in 1 .. n + 1
            BY <1>3, <5>1
          <6>2. i - 1 \in 1 .. n /\ all[i] = runs[i - 1]
            BY <1>4, <5>1, <6>1
          <6> QED BY <1>1, <5>1, <6>1, <6>2
        <5> QED BY <2>1, <3>3, <5>1
      <4>2. q - 1 = r - 1
        BY <1>6, <4>1 DEF Apart
      <4> QED BY <4>1, <4>2
    <3>4. CASE q = 1 \/ r = 1
      <4>1. Has(buf, x)
        BY <1>2, <1>3, <2>1, <3>4
      <4> QED BY <1>6, <3>1, <3>2, <3>4, <4>1
    <3> QED BY <3>3, <3>4
  <2> QED BY <2>1 DEF Apart
<1>9. <<>> \in Seq(S) /\ Arranged(<<>>, Q) /\ \A x : ~ Has(<<>>, x)
  BY DEF Arranged, Has
<1> QED BY <1>1, <1>2, <1>3, <1>5, <1>6, <1>7, <1>8, <1>9 DEF Merged

\* The record the merge yields next: of the run whose head has the least key.
Least(runs, r) ==
  /\ r \in DOMAIN runs /\ runs[r] # <<>>
  /\ \A q \in DOMAIN runs : runs[q] # <<>> => <<Head(runs[q]), Head(runs[r])>> \notin Q

LEMMA MergeStep ==
  ASSUME NEW yielded, NEW runs, NEW rows, Merged(yielded, runs, rows), NEW r, Least(runs, r),
         NEW rest, rest = [runs EXCEPT ![r] = Tail(runs[r])]
  PROVE  Merged(Append(yielded, Head(runs[r])), rest, rows)
<1> DEFINE h == Head(runs[r])
           n == Len(runs)
           more == Append(yielded, h)
<1>1. /\ yielded \in Seq(S) /\ runs \in Seq(Seq(S)) /\ rows \in Seq(Rows(Ascending))
      /\ Arranged(yielded, Q) /\ Apart(runs)
      /\ \A q \in DOMAIN runs : Arranged(runs[q], Q)
      /\ \A x, y \in S : Has(yielded, x) /\ Spread(runs, y) => <<x, y>> \in Q
      /\ \A x \in S : IsInput(rows, x) <=> Has(yielded, x) \/ Spread(runs, x)
  BY DEF Merged
<1>2. /\ n \in Nat /\ DOMAIN runs = 1 .. n /\ r \in 1 .. n /\ runs[r] # <<>>
      /\ \A q \in 1 .. n : runs[q] \in Seq(S)
  BY <1>1 DEF Least
<1>3. /\ h \in S /\ Tail(runs[r]) \in Seq(S) /\ Has(runs[r], h) /\ Arranged(Tail(runs[r]), Q)
      /\ \A x : Has(runs[r], x) <=> x = h \/ Has(Tail(runs[r]), x)
      /\ \A x : Has(Tail(runs[r]), x) => <<h, x>> \in Q
  <2>1. runs[r] \in Seq(S) /\ runs[r] # <<>> /\ Arranged(runs[r], Q)
    BY <1>1, <1>2
  <2> DEFINE t == runs[r]
  <2> HIDE DEF t
  <2>2. \A x : /\ Tail(t) \in Seq(S) /\ Head(t) \in S /\ Has(t, Head(t))
               /\ Has(t, x) <=> x = Head(t) \/ Has(Tail(t), x)
    BY <2>1, HasHead DEF t
  <2>3. Arranged(Tail(t), Q) /\ \A x : Has(Tail(t), x) => <<Head(t), x>> \in Q
    BY <2>1, ArrangedTail DEF t
  <2> QED BY <2>2, <2>3 DEF t
<1>4. /\ DOMAIN rest = 1 .. n /\ rest \in Seq(Seq(S))
      /\ rest[r] = Tail(runs[r]) /\ \A q \in 1 .. n : q # r => rest[q] = runs[q]
  <2>1. /\ DOMAIN rest = 1 .. n
        /\ rest[r] = Tail(runs[r]) /\ \A q \in 1 .. n : q # r => rest[q] = runs[q]
    BY <1>2
  <2>2. rest \in [1 .. n -> Seq(S)]
    <3>1. rest = [q \in 1 .. n |-> rest[q]]
      BY <1>2
    <3>2. \A q \in 1 .. n : rest[q] \in Seq(S)
      BY <1>2, <1>3, <2>1
    <3> HIDE DEF n
    <3> QED BY <3>1, <3>2
  <2>3. rest \in Seq(Seq(S))
    <3> HIDE DEF n
    <3> QED BY ONLY <1>2, <2>2
  <2> QED BY <2>1, <2>3
<1> HIDE DEF h, n
<1>5. \A q \in 1 .. n : \A x : Has(rest[q], x) => Has(runs[q], x)
  BY <1>3, <1>4
<1>6. \A x : Spread(rest, x) => Spread(runs, x)
  BY <1>2, <1>4, <1>5 DEF Spread
<1>7. \A x : Spread(runs, x) => x = h \/ Spread(rest, x)
  <2>1. ASSUME NEW x, NEW q \in 1 .. n, Has(runs[q], x) PROVE x = h \/ Spread(rest, x)
    <3>1. CASE q = r
      BY <1>2, <1>3, <1>4, <2>1, <3>1 DEF Spread
    <3>2. CASE q # r
      BY <1>4, <2>1, <3>2 DEF Spread
    <3> QED BY <3>1, <3>2
  <2> QED BY <1>2, <2>1 DEF Spread
<1>8. Spread(runs, h)
  BY <1>2, <1>3 DEF Spread
\* The head comes before all that is left.
<1>9. ASSUME NEW y \in S, Spread(rest, y) PROVE <<h, y>> \in Q
  <2>1. PICK q \in 1 .. n : Has(rest[q], y)
    BY <1>4, <1>9 DEF Spread
  <2>2. CASE q = r
    BY <1>3, <1>4, <2>1, <2>2
  <2>3. CASE q # r
    <3> DEFINE t == runs[q]
    <3>1. t \in Seq(S) /\ Has(t, y) /\ Arranged(t, Q)
      BY <1>1, <1>2, <1>4, <2>1, <2>3
    <3>2. t # <<>>
      BY <3>1 DEF Has
    <3>3. <<Head(t), h>> \notin Q
      BY <1>2, <3>2 DEF Least, h
    <3> HIDE DEF t
    <3>4. Head(t) \in S /\ Has(t, Head(t)) /\ (y = Head(t) \/ Has(Tail(t), y))
      BY <3>1, <3>2, HasHead
    <3>5. Head(t) # h
      BY <1>1, <1>2, <1>3, <2>3, <3>4 DEF Apart, t
    <3>6. <<h, Head(t)>> \in Q
      BY <1>3, <3>3, <3>4, <3>5, OrderFacts
    <3>7. CASE y = Head(t)
      BY <3>6, <3>7
    <3>8. CASE Has(Tail(t), y)
      <4>1. <<Head(t), y>> \in Q
        BY <3>1, <3>2, <3>8, ArrangedTail
      <4> QED BY <1>3, <3>4, <3>6, <4>1, OrderFacts
    <3> QED BY <3>4, <3>7, <3>8
  <2> QED BY <2>2, <2>3
<1>10. \A x \in S : Has(yielded, x) => <<x, h>> \in Q
  BY <1>1, <1>3, <1>8
<1>11. more \in Seq(S) /\ Arranged(more, Q) /\ \A x : Has(more, x) <=> Has(yielded, x) \/ x = h
  <2>1. more \in Seq(S)
    BY <1>1, <1>3
  <2>2. Arranged(more, Q)
    BY <1>1, <1>3, <1>10, ArrangedAppend
  <2>3. \A x : Has(more, x) <=> Has(yielded, x) \/ x = h
    BY <1>1, <1>3, HasAppend
  <2> QED BY <2>1, <2>2, <2>3
<1> HIDE DEF more
<1>12. \A q \in DOMAIN rest : Arranged(rest[q], Q)
  BY <1>1, <1>2, <1>3, <1>4
<1>13. Apart(rest)
  BY <1>1, <1>2, <1>4, <1>5 DEF Apart
<1>14. \A x, y \in S : Has(more, x) /\ Spread(rest, y) => <<x, y>> \in Q
  BY <1>1, <1>6, <1>9, <1>11
<1>15. \A x \in S : IsInput(rows, x) <=> Has(more, x) \/ Spread(rest, x)
  BY <1>1, <1>6, <1>7, <1>8, <1>11
<1>16. Merged(more, rest, rows)
  BY <1>1, <1>4, <1>11, <1>12, <1>13, <1>14, <1>15 DEF Merged
<1> QED BY <1>16 DEF more, h

\* What was yielded is the beginning of the one stable sort.
LEMMA MergedIsPrefix ==
  ASSUME NEW yielded, NEW runs, NEW rows, Merged(yielded, runs, rows)
  PROVE  /\ IsPrefix(yielded, OrderedBy(Ascending, rows))
         /\ AllRead(runs) => Len(yielded) = Len(rows)
<1> DEFINE s == OrderedBy(Ascending, rows)
           tagged == Tag(0, rows)
<1>1. /\ yielded \in Seq(S) /\ rows \in Seq(Rows(Ascending)) /\ Arranged(yielded, Q)
      /\ \A x, y \in S : Has(yielded, x) /\ Spread(runs, y) => <<x, y>> \in Q
      /\ \A x \in S : IsInput(rows, x) <=> Has(yielded, x) \/ Spread(runs, x)
  BY DEF Merged
<1>2. s \in Seq(S) /\ Len(s) = Len(rows) /\ SameElements(s, tagged) /\ Arranged(s, Q)
  BY <1>1, AscendingType, TagZero, OrderedBySorts DEF S, Q
<1>3. \A x \in S : IsInput(rows, x) <=> Has(tagged, x)
  BY <1>1, InputsAreTagged
<1> HIDE DEF s, tagged
<1>4. \A x \in S : Has(s, x) <=> Has(yielded, x) \/ Spread(runs, x)
  BY <1>1, <1>2, <1>3 DEF SameElements
<1>5. /\ (\A n \in DOMAIN yielded : yielded[n] \in S /\ Has(yielded, yielded[n]))
      /\ \A i \in DOMAIN s : s[i] \in S /\ Has(s, s[i])
  BY <1>1, <1>2 DEF Has
<1>6. \A n \in DOMAIN yielded : Has(s, yielded[n])
  BY <1>4, <1>5
<1>7. ASSUME NEW n \in DOMAIN yielded, NEW i \in DOMAIN s, <<s[i], yielded[n]>> \in Q
      PROVE  Has(yielded, s[i])
  <2>1. ASSUME Spread(runs, s[i]) PROVE FALSE
    <3>1. <<yielded[n], s[i]>> \in Q
      BY <1>1, <1>5, <2>1
    <3>2. <<s[i], s[i]>> \in Q
      BY <1>5, <1>7, <3>1, OrderFacts
    <3> QED BY <1>5, <3>2, OrderFacts
  <2> QED BY <1>4, <1>5, <2>1
<1>8. StrictOrder(Q, S)
  BY AscendingType, RowOrderStrict DEF Q, S
<1>9. Len(yielded) <= Len(s) /\ \A n \in DOMAIN yielded : n \in DOMAIN s /\ yielded[n] = s[n]
  BY <1>1, <1>2, <1>6, <1>7, <1>8, ArrangedPrefix
<1>10. IsPrefix(yielded, s)
  <2>1. /\ Len(yielded) \in Nat /\ Len(s) \in Nat
        /\ DOMAIN yielded = 1 .. Len(yielded) /\ DOMAIN s = 1 .. Len(s)
    BY <1>1, <1>2
  <2>2. SubSeq(yielded, 1, Len(yielded)) = SubSeq(s, 1, Len(yielded))
    BY <1>1, <1>2, <1>9, <2>1
  <2> QED BY <1>9, <2>2 DEF IsPrefix
<1>11. ASSUME AllRead(runs) PROVE Len(yielded) = Len(rows)
  <2>1. \A x : ~ Spread(runs, x)
    BY <1>11 DEF AllRead, Spread, Has
  <2>2. \A x \in S : Has(s, x) <=> Has(yielded, x)
    BY <1>4, <2>1
  <2>3. yielded = s
    BY <1>1, <1>2, <1>8, <2>2, ArrangedUnique
  <2> QED BY <1>2, <2>3
<1> QED BY <1>10, <1>11 DEF s

-----------------------------------------------------------------------------
(* The inductive invariant.                                                *)

LEMMA SortInit == Init => SortInv /\ SpillInv
<1> SUFFICES ASSUME Init PROVE SortInv /\ SpillInv
  OBVIOUS
<1>1. Gathered(<<>>, <<>>, <<>>)
  BY DEF Gathered, InTurn, Apart, Has, Spread, IsInput
<1> QED BY <1>1 DEF Init, SortInv, SpillInv

\* _execute_sort_partition reads a row, and may spill.
LEMMA ConsumeGathers ==
  ASSUME SortInv, NEW row \in Row, ConsumeRow(row)
  PROVE  SortInv'
<1> DEFINE pair == [seq |-> Len(seen), row |-> row]
           filled == Append(buffer, pair)
<1>1. phase = "accumulate" /\ phase' = "accumulate" /\ seen' = Append(seen, row)
  BY DEF ConsumeRow
<1>2. Gathered(buffer, spill_files, seen) /\ row \in Rows(Ascending)
  BY <1>1, RowType DEF SortInv
<1>3. Gathered(filled, spill_files, seen')
  BY <1>1, <1>2, GatherRow
<1>4. \/ buffer' = filled /\ spill_files' = spill_files
      \/ buffer' = <<>> /\ spill_files' = Append(spill_files, SortRows(Ascending, filled))
  BY DEF ConsumeRow
<1> HIDE DEF filled
<1>5. Gathered(<<>>, Append(spill_files, SortRows(Ascending, filled)), seen')
  BY <1>3, GatherSpill
<1>6. Gathered(buffer', spill_files', seen')
  BY <1>3, <1>4, <1>5
<1> QED BY <1>1, <1>6 DEF SortInv

\* heapq.merge takes a least head.
LEMMA NextIsLeast ==
  ASSUME Merged(out, unread, seen), NEW r \in Heads, NextRun(r)
  PROVE  Least(unread, r)
<1>1. unread \in Seq(Seq(S)) /\ \A q \in DOMAIN unread : unread[q] \in Seq(S)
  BY DEF Merged
<1>2. r \in DOMAIN unread /\ unread[r] # <<>>
  BY DEF Heads
<1>3. ASSUME NEW q \in DOMAIN unread, unread[q] # <<>>
      PROVE  <<Head(unread[q]), Head(unread[r])>> \notin Q
  <2>1. q \in Heads
    BY <1>3 DEF Heads
  <2>2. ~ LexLess(CompositeKey(Ascending, Head(unread[q])), CompositeKey(Ascending, Head(unread[r])))
    BY <2>1 DEF NextRun
  <2>3. Head(unread[q]) \in S /\ Head(unread[r]) \in S
    BY <1>1, <1>2, <1>3, HasHead
  <2> QED BY <2>2, <2>3, AscendingType, MergeKeys DEF S, Q
<1> QED BY <1>2, <1>3 DEF Least

LEMMA YieldMerges == ASSUME SortInv, YieldRow PROVE SortInv'
<1>1. phase \in {"unread", "emit"} /\ phase' = "emit" /\ seen' = seen
  BY DEF YieldRow
<1>2. PICK r \in Heads :
        NextRun(r) /\ out' = Append(out, Head(unread[r])) /\ unread' = [unread EXCEPT ![r] = Tail(@)]
  BY DEF YieldRow
<1>3. Merged(out, unread, seen)
  BY <1>1 DEF SortInv
<1>4. Least(unread, r)
  BY <1>2, <1>3, NextIsLeast
<1>5. Merged(Append(out, Head(unread[r])), unread', seen)
  BY <1>2, <1>3, <1>4, MergeStep
<1>6. Merged(out', unread', seen')
  BY <1>1, <1>2, <1>5
<1> QED BY <1>1, <1>6 DEF SortInv

LEMMA SpillStep == SpillInv /\ [Next]_vars => SpillInv'
<1> SUFFICES ASSUME SpillInv, [Next]_vars PROVE SpillInv'
  OBVIOUS
<1>1. ASSUME NEW row \in Row, ConsumeRow(row) PROVE SpillInv'
  BY <1>1 DEF ConsumeRow, SpillInv
<1>2. CASE ChildRaises
  BY <1>2 DEF ChildRaises, SpillInv
<1>3. CASE InputEnds
  BY <1>3 DEF InputEnds, SpillInv
<1>4. CASE YieldRow
  BY <1>4 DEF YieldRow, SpillInv
<1>5. CASE ExhaustGenerator
  BY <1>5 DEF ExhaustGenerator, SpillInv
<1>6. CASE CloseGenerator
  BY <1>6 DEF CloseGenerator, SpillInv
<1>7. CASE UNCHANGED vars
  BY <1>7 DEF vars, SpillInv
<1> QED BY <1>1, <1>2, <1>3, <1>4, <1>5, <1>6, <1>7 DEF Next

LEMMA SortStep == SortInv /\ SpillInv /\ [Next]_vars => SortInv'
<1> SUFFICES ASSUME SortInv, SpillInv, [Next]_vars PROVE SortInv'
  OBVIOUS
<1>1. ASSUME NEW row \in Row, ConsumeRow(row) PROVE SortInv'
  BY <1>1, ConsumeGathers
<1>2. CASE ChildRaises
  BY <1>2 DEF ChildRaises, SortInv
<1>3. CASE InputEnds
  <2>1. Gathered(buffer, spill_files, seen) /\ out' = <<>> /\ seen' = seen /\ phase' = "unread"
    BY <1>3 DEF InputEnds, SortInv, SpillInv
  <2>2. unread' = <<SortRows(Ascending, buffer)>> \o spill_files
    BY <1>3 DEF InputEnds
  <2>3. Merged(<<>>, unread', seen)
    BY <2>1, <2>2, GatherEnd
  <2>4. Merged(out', unread', seen')
    BY <2>1, <2>3
  <2> QED BY <2>1, <2>4 DEF SortInv
<1>4. CASE YieldRow
  BY <1>4, YieldMerges
<1>5. CASE ExhaustGenerator
  <2>1. AllRead(unread)
    BY <1>5 DEF ExhaustGenerator, Heads, AllRead
  <2> QED BY <1>5, <2>1 DEF ExhaustGenerator, SortInv
<1>6. CASE CloseGenerator
  BY <1>6 DEF CloseGenerator, SortInv
<1>7. CASE UNCHANGED vars
  BY <1>7 DEF vars, SortInv
<1> QED BY <1>1, <1>2, <1>3, <1>4, <1>5, <1>6, <1>7 DEF Next

\* Both parts hold at every moment.
THEOREM SortInductive == Spec => [](SortInv /\ SpillInv)
<1>1. (SortInv /\ SpillInv) /\ [Next]_vars => (SortInv /\ SpillInv)'
  BY SortStep, SpillStep
<1> QED BY SortInit, <1>1, PTL DEF Spec

-----------------------------------------------------------------------------
(* What follows.                                                           *)

\* Streaming merge of the runs (heapq.merge over the spilled runs and the
\* last buffer): the records yielded are the first records of one stable sort
\* of the whole input, and a generator read to its end yields all of them.
THEOREM SpillingKeepsTheOrder == Spec => []StreamsTheStableSort
<1>1. SortInv /\ SpillInv => StreamsTheStableSort
  <2> SUFFICES ASSUME SortInv PROVE StreamsTheStableSort
    OBVIOUS
  <2>1. ASSUME phase \in {"emit", "done", "closed"} PROVE IsPrefix(out, Sorted)
    <3>1. Merged(out, unread, seen)
      BY <2>1 DEF SortInv
    <3> QED BY <3>1, MergedIsPrefix DEF Sorted
  <2>2. ASSUME phase = "done" PROVE Len(out) = Len(seen)
    <3>1. Merged(out, unread, seen) /\ AllRead(unread)
      BY <2>2 DEF SortInv
    <3> QED BY <3>1, MergedIsPrefix
  <2> QED BY <2>1, <2>2 DEF StreamsTheStableSort
<1> QED BY SortInductive, <1>1, PTL

\* The finally clause of the merging generator: once a record was yielded,
\* the generator removes its directory when it ends, read to its end or not.
THEOREM SortRemovesItsSpills == Spec => []SpillDirRemoved
<1>1. SortInv /\ SpillInv => SpillDirRemoved
  BY DEF SpillInv, SpillDirRemoved
<1> QED BY SortInductive, <1>1, PTL
=============================================================================
