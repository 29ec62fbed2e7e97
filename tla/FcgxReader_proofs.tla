-------------------------- MODULE FcgxReader_proofs --------------------------
(***************************************************************************)
(* The input of FcgxReader, for every set of scripts and every length of   *)
(* the buffer, of the reads and of the application's calls: the types, and *)
(* that what the application reads of a stream is, in order, the stream's  *)
(* own content and, at its end, all of it; that a good server's request is *)
(* not given up; and that what asks for an answer of the reader has one.   *)
(*                                                                         *)
(* The proof is in four parts.  The first is about one record at a time:   *)
(* the fields of the reader have their types and bounds at every pc        *)
(* (IInv).  The second is about the connection (Deep): without an error    *)
(* the reader is in the ith record of the script, or between it and the    *)
(* next, for an i that lies between the ends of the stream before and of   *)
(* the one that is read; after an error it may be anywhere, but never      *)
(* beyond the end of a stream that it has not seen.  The third is about a  *)
(* good server (Serving): nothing fails until the application has the      *)
(* request, so that FCGX_Accept_r gives it up for no reason.  The last is  *)
(* about the replies (Answering): they are those to the records before the *)
(* end of the record that the reader is in.                                *)
(***************************************************************************)
EXTENDS FcgxReader, SequenceTheorems, FiniteSetTheorems, WellFoundedInduction, TLAPS

------------------------------
(* Recursion and induction on an interval.                                 *)

\* A set of natural numbers that is not empty has a least element.
LEMMA LeastProps ==
    ASSUME NEW S \in SUBSET Nat, S # {}
    PROVE  \E n \in S : \A m \in S : ~(m < n)
<1>1. PICK n \in S : \A m \in S : ~(<<m, n>> \in OpToRel(<, Nat))
  BY NatLessThanWellFounded, WFMin
<1>2. ASSUME NEW m \in S, m < n
      PROVE  <<m, n>> \in OpToRel(<, Nat)
  BY <1>2 DEF OpToRel
<1> QED BY <1>1, <1>2

\* What holds of m, and of a number if of the one before, holds up to n.
LEMMA Upward ==
    ASSUME NEW m \in Nat, NEW n \in Nat, NEW S,
           m \in S, \A k \in m + 1 .. n : k - 1 \in S => k \in S
    PROVE  \A k \in m .. n : k \in S
<1> DEFINE bad == {k \in m .. n : k \notin S}
<1>1. SUFFICES ASSUME bad # {} PROVE FALSE
  OBVIOUS
<1>2. PICK k \in bad : \A j \in bad : ~(j < k)
  <2>1. bad \in SUBSET Nat
    OBVIOUS
  <2> HIDE DEF bad
  <2> QED BY <1>1, <2>1, LeastProps
<1>3. k \in m + 1 .. n
  BY <1>2
<1>4. k - 1 \in S
  BY <1>2, <1>3
<1> QED BY <1>2, <1>3, <1>4

\* g is defined step by step.
IsIteration(g, n, S, base, step) ==
    /\ g \in [0 .. n -> S]
    /\ g[0] = base
    /\ \A k \in 1 .. n : g[k] = step[<<g[k - 1], k>>]

\* A function that is defined step by step exists.
LEMMA StepsProps ==
    ASSUME NEW n \in Nat, NEW S, NEW base \in S, NEW step \in [S \X (1 .. n) -> S]
    PROVE  \E g : IsIteration(g, n, S, base, step)
<1> DEFINE Good(g, m) == /\ g \in [0 .. m -> S]
                         /\ g[0] = base
                         /\ \A k \in 1 .. m : g[k] = step[<<g[k - 1], k>>]
           good == {m \in 0 .. n : \E g : Good(g, m)}
<1>1. 0 \in good
  <2>1. Good([k \in 0 .. 0 |-> base], 0)
    OBVIOUS
  <2> HIDE DEF Good
  <2> QED BY <2>1
<1>2. ASSUME NEW m \in 0 + 1 .. n, m - 1 \in good PROVE m \in good
  <2>1. PICK g : Good(g, m - 1)
    BY <1>2
  <2> DEFINE h == [k \in 0 .. m |-> IF k = m THEN step[<<g[m - 1], m>>] ELSE g[k]]
  <2>2. g[m - 1] \in S
    BY <2>1
  <2>3. step[<<g[m - 1], m>>] \in S
    BY <2>2
  <2>4. \A k \in 0 .. m : k # m => k \in 0 .. m - 1
    OBVIOUS
  <2>5. h \in [0 .. m -> S]
    BY <2>1, <2>3, <2>4
  <2>6. h[0] = base
    BY <2>1
  <2>7. ASSUME NEW k \in 1 .. m PROVE h[k] = step[<<h[k - 1], k>>]
    <3>1. h[k - 1] = g[k - 1]
      OBVIOUS
    <3>2. CASE k = m
      <4>1. h[m] = step[<<g[m - 1], m>>]
        OBVIOUS
      <4> HIDE DEF h
      <4> QED BY <3>1, <3>2, <4>1
    <3>3. CASE k # m
      <4>1. k \in 1 .. m - 1
        BY <3>3
      <4>2. h[k] = g[k]
        BY <4>1
      <4>3. g[k] = step[<<g[k - 1], k>>]
        BY <2>1, <4>1
      <4> HIDE DEF h
      <4> QED BY <3>1, <4>2, <4>3
    <3> QED BY <3>2, <3>3
  <2>8. Good(h, m)
    BY <2>5, <2>6, <2>7
  <2>9. m \in 0 .. n /\ \E f : Good(f, m)
    <3>1. m \in 0 .. n
      BY <1>2
    <3> HIDE DEF Good
    <3> QED BY <2>8, <3>1, Zenon
  <2> HIDE DEF Good
  <2> QED BY <2>9, Zenon
<1>3. n \in good
  <2>1. \A k \in 0 .. n : k \in good
    <3> HIDE DEF good
    <3> QED BY <1>1, <1>2, Upward
  <2>2. n \in 0 .. n
    OBVIOUS
  <2> HIDE DEF good
  <2> QED BY <2>1, <2>2
<1> QED BY <1>3 DEF IsIteration

------------------------------
(* Where the records lie in the wire.                                      *)

Cell(records) == [rec : DOMAIN records, at : Nat]
Size(r) == HeaderLen + r.len + r.pad

\* The last cells of the records.
Ends(records) ==
    LET ends[i \in 0 .. Len(records)] ==
            IF i = 0 THEN 0 ELSE ends[i - 1] + Size(records[i])
    IN  ends

\* The fields of a record.
LEMMA RecordProps ==
    ASSUME NEW records \in Seq(Record), NEW i \in DOMAIN records
    PROVE  /\ records[i] \in Record
           /\ records[i].type \in {"begin", "params", "stdin", "data", "values", "unknown"}
           /\ records[i].id \in Nat /\ records[i].len \in Nat /\ records[i].pad \in Nat
           /\ records[i].nth \in Nat \ {0} /\ records[i].keep \in BOOLEAN
           /\ Size(records[i]) \in Nat /\ Size(records[i]) >= 2
<1>1. records[i] \in Record
  OBVIOUS
<1>2. /\ records[i].type \in {"begin", "params", "stdin", "data", "values", "unknown"}
      /\ records[i].id \in Nat /\ records[i].len \in Nat /\ records[i].pad \in Nat
      /\ records[i].nth \in Nat \ {0} /\ records[i].keep \in BOOLEAN
  BY <1>1 DEF Record
<1> QED BY <1>1, <1>2 DEF Size, HeaderLen

\* Ends adds up the sizes of the records.
LEMMA EndsProps ==
    ASSUME NEW records \in Seq(Record)
    PROVE  /\ Len(records) \in Nat /\ DOMAIN records = 1 .. Len(records)
           /\ \A i \in 0 .. Len(records) : Ends(records)[i] \in Nat
           /\ Ends(records)[0] = 0
           /\ \A i \in 1 .. Len(records) :
                 Ends(records)[i] = Ends(records)[i - 1] + Size(records[i])
<1> DEFINE n == Len(records)
           F(e) == [i \in 0 .. Len(records) |-> IF i = 0 THEN 0 ELSE e[i - 1] + Size(records[i])]
           step == [x \in Nat \X (1 .. n) |-> x[1] + Size(records[x[2]])]
<1>1. n \in Nat /\ DOMAIN records = 1 .. n
  BY LenProperties
<1>2. \A i \in 1 .. n : Size(records[i]) \in Nat
  BY <1>1, RecordProps
<1>3. step \in [Nat \X (1 .. n) -> Nat]
  <2> HIDE DEF n
  <2> QED BY <1>2
<1>4. PICK g : g \in [0 .. n -> Nat] /\ g[0] = 0 /\ \A k \in 1 .. n : g[k] = step[<<g[k - 1], k>>]
  <2>1. 0 \in Nat /\ n \in Nat
    BY <1>1
  <2> HIDE DEF n, step
  <2>2. \E g : IsIteration(g, n, Nat, 0, step)
    BY <1>3, <2>1, StepsProps
  <2> QED BY <2>2 DEF IsIteration
<1>5. \A k \in 1 .. n : g[k] = g[k - 1] + Size(records[k])
  <2>1. ASSUME NEW k \in 1 .. n PROVE g[k] = g[k - 1] + Size(records[k])
    <3>1. g[k - 1] \in Nat
      BY <1>1, <1>4
    <3>2. step[<<g[k - 1], k>>] = g[k - 1] + Size(records[k])
      BY <3>1
    <3> HIDE DEF step
    <3> QED BY <1>4, <3>2
  <2> QED BY <2>1
<1>6. g = F(g)
  <2>1. \A i \in 0 .. n : g[i] = F(g)[i]
    BY <1>1, <1>4, <1>5
  <2> QED BY <1>1, <1>4, <2>1
<1>7. Ends(records) = F(Ends(records))
  <2>1. Ends(records) = CHOOSE e : e = F(e)
    BY Zenon DEF Ends
  <2> HIDE DEF F
  <2> QED BY <1>6, <2>1
<1>8. Ends(records)[0] = 0
  BY <1>1, <1>7
<1>9. ASSUME NEW i \in 1 .. n PROVE Ends(records)[i] = Ends(records)[i - 1] + Size(records[i])
  <2>1. i \in 0 .. Len(records) /\ i # 0
    BY <1>1
  <2>2. F(Ends(records))[i] = Ends(records)[i - 1] + Size(records[i])
    BY <2>1
  <2> HIDE DEF F
  <2> QED BY <1>7, <2>2
<1>10. \A i \in 0 .. n : Ends(records)[i] \in Nat
  <2> DEFINE S == {k \in 0 .. n : Ends(records)[k] \in Nat}
  <2>1. 0 \in S
    BY <1>1, <1>8
  <2>2. ASSUME NEW k \in 0 + 1 .. n, k - 1 \in S PROVE k \in S
    BY <1>1, <1>2, <1>9, <2>2
  <2>3. \A k \in 0 .. n : k \in S
    <3>1. 0 \in Nat /\ n \in Nat
      BY <1>1
    <3> HIDE DEF S, n
    <3> QED BY <2>1, <2>2, <3>1, Upward
  <2> QED BY <2>3
<1> QED BY <1>1, <1>8, <1>9, <1>10

\* A record ends behind its header, and later ones behind it.
LEMMA EndsGrow ==
    ASSUME NEW records \in Seq(Record), NEW i \in 0 .. Len(records),
           NEW j \in 0 .. Len(records), i < j
    PROVE  /\ Ends(records)[i] + Size(records[j]) <= Ends(records)[j]
           /\ Ends(records)[i] + 2 <= Ends(records)[j]
<1>1. /\ Len(records) \in Nat /\ DOMAIN records = 1 .. Len(records)
      /\ \A k \in 0 .. Len(records) : Ends(records)[k] \in Nat
      /\ \A k \in 1 .. Len(records) :
            Ends(records)[k] = Ends(records)[k - 1] + Size(records[k])
  BY EndsProps
<1>2. \A k \in 1 .. Len(records) : Size(records[k]) \in Nat /\ Size(records[k]) >= 2
  BY <1>1, RecordProps
<1> DEFINE S == {k \in i .. Len(records) : Ends(records)[i] <= Ends(records)[k]}
<1>3. i \in S
  BY <1>1
<1>4. ASSUME NEW k \in i + 1 .. Len(records), k - 1 \in S PROVE k \in S
  <2>1. k \in 1 .. Len(records) /\ k - 1 \in 0 .. Len(records) /\ k \in 0 .. Len(records)
    BY <1>1
  <2>2. /\ Ends(records)[k] = Ends(records)[k - 1] + Size(records[k])
        /\ Size(records[k]) \in Nat
        /\ Ends(records)[i] \in Nat /\ Ends(records)[k - 1] \in Nat
    BY <1>1, <1>2, <2>1
  <2>3. Ends(records)[i] <= Ends(records)[k - 1] /\ k \in i .. Len(records)
    BY <1>4
  <2> QED BY <2>2, <2>3
<1>5. j - 1 \in S
  <2>1. \A k \in i .. Len(records) : k \in S
    <3>1. i \in Nat
      OBVIOUS
    <3> HIDE DEF S
    <3> QED BY <1>1, <1>3, <1>4, <3>1, Upward
  <2>2. j - 1 \in i .. Len(records)
    BY <1>1
  <2> HIDE DEF S
  <2> QED BY <2>1, <2>2
<1>6. j \in 1 .. Len(records) /\ j - 1 \in 0 .. Len(records)
  BY <1>1
<1>7. /\ Ends(records)[j] = Ends(records)[j - 1] + Size(records[j])
      /\ Size(records[j]) \in Nat /\ Size(records[j]) >= 2
      /\ Ends(records)[i] \in Nat /\ Ends(records)[j - 1] \in Nat
  BY <1>1, <1>2, <1>6
<1>8. Ends(records)[i] <= Ends(records)[j - 1]
  BY <1>5
<1> QED BY <1>7, <1>8

\* The cells of one record.
CellsOf(records, i) == [k \in 1 .. Size(records[i]) |-> [rec |-> i, at |-> k]]

\* The cells of one record.
LEMMA CellsOfProps ==
    ASSUME NEW records \in Seq(Record), NEW i \in 1 .. Len(records)
    PROVE  /\ CellsOf(records, i) \in Seq(Cell(records))
           /\ Len(CellsOf(records, i)) = Size(records[i])
           /\ \A k \in 1 .. Size(records[i]) : CellsOf(records, i)[k] = [rec |-> i, at |-> k]
<1>1. i \in DOMAIN records
  BY EndsProps
<1> DEFINE n == Size(records[i])
<1>2. n \in Nat
  BY <1>1, RecordProps
<1>3. \A k \in 1 .. n : [rec |-> i, at |-> k] \in Cell(records)
  BY <1>1 DEF Cell
<1> HIDE DEF n
<1>4. [k \in 1 .. n |-> [rec |-> i, at |-> k]] \in [1 .. n -> Cell(records)]
  BY <1>3
<1>5. CellsOf(records, i) = [k \in 1 .. n |-> [rec |-> i, at |-> k]]
  BY DEF CellsOf, n
<1>6. CellsOf(records, i) \in [1 .. n -> Cell(records)]
  BY <1>4, <1>5
<1>7. CellsOf(records, i) \in Seq(Cell(records)) /\ Len(CellsOf(records, i)) = n
  BY <1>2, <1>6
<1> QED BY <1>5, <1>7 DEF n

\* What FlattenSeq makes of them, record by record.
LEMMA CellsSteps ==
    ASSUME NEW records \in Seq(Record), records # <<>>
    PROVE  \E flat :
              /\ Cells(records) = flat[Len(records)]
              /\ flat[1] = CellsOf(records, 1)
              /\ \A i \in 2 .. Len(records) : flat[i] = flat[i - 1] \o CellsOf(records, i)
<1> DEFINE n == Len(records)
           all == [i \in DOMAIN records |-> CellsOf(records, i)]
           F(f) == [i \in 1 .. Len(all) |-> IF i = 1 THEN all[i] ELSE f[i - 1] \o all[i]]
           S == Seq(Cell(records))
           step == [x \in S \X (1 .. n) |-> x[1] \o CellsOf(records, x[2])]
<1>1. n \in Nat /\ DOMAIN records = 1 .. n /\ n # 0
  BY EndsProps
<1>2. Len(all) = n
  <2>1. all \in [1 .. n -> S]
    BY <1>1, CellsOfProps
  <2> HIDE DEF n, all, S
  <2> QED BY <1>1, <2>1
<1>3. \A i \in 1 .. n : CellsOf(records, i) \in S
  BY CellsOfProps
<1>4. step \in [S \X (1 .. n) -> S]
  <2>1. ASSUME NEW x \in S \X (1 .. n) PROVE x[1] \o CellsOf(records, x[2]) \in S
    <3>1. x[1] \in Seq(Cell(records)) /\ CellsOf(records, x[2]) \in Seq(Cell(records))
      BY <1>3
    <3> QED BY <3>1, ConcatProperties
  <2> HIDE DEF S, n
  <2> QED BY <2>1
<1>5. <<>> \in S
  OBVIOUS
<1>6. PICK g : g \in [0 .. n -> S] /\ g[0] = <<>> /\ \A k \in 1 .. n : g[k] = step[<<g[k - 1], k>>]
  <2> HIDE DEF S, n, step
  <2>2. \E g : IsIteration(g, n, S, <<>>, step)
    BY <1>1, <1>4, <1>5, StepsProps
  <2> QED BY <2>2 DEF IsIteration
<1>7. ASSUME NEW k \in 1 .. n PROVE g[k] = g[k - 1] \o CellsOf(records, k)
  <2>1. g[k - 1] \in S /\ k \in 1 .. n
    BY <1>1, <1>6
  <2>2. step[<<g[k - 1], k>>] = g[k - 1] \o CellsOf(records, k)
    <3> HIDE DEF S
    <3> QED BY <2>1
  <2> HIDE DEF step
  <2> QED BY <1>6, <2>2
<1>8. g[1] = CellsOf(records, 1)
  <2>1. 1 \in 1 .. n /\ g[1 - 1] = <<>>
    BY <1>1, <1>6
  <2>2. g[1] = <<>> \o CellsOf(records, 1)
    BY <1>7, <2>1
  <2>3. CellsOf(records, 1) \in Seq(Cell(records))
    BY <1>3, <2>1
  <2> QED BY <2>2, <2>3, ConcatEmptySeq
<1> DEFINE h == [i \in 1 .. n |-> g[i]]
<1>9. h = F(h)
  <2>1. ASSUME NEW i \in 1 .. n
        PROVE  h[i] = IF i = 1 THEN all[i] ELSE h[i - 1] \o all[i]
    <3>1. all[i] = CellsOf(records, i)
      BY <1>1
    <3>2. CASE i = 1
      BY <1>8, <3>1, <3>2
    <3>3. CASE i # 1
      <4>1. i - 1 \in 1 .. n
        BY <1>1, <3>3
      <4>2. h[i - 1] = g[i - 1] /\ h[i] = g[i]
        BY <4>1
      <4> HIDE DEF h, all
      <4> QED BY <1>7, <3>1, <3>3, <4>2
    <3> QED BY <3>2, <3>3
  <2> HIDE DEF all
  <2>2. F(h) = [i \in 1 .. n |-> IF i = 1 THEN all[i] ELSE h[i - 1] \o all[i]]
    BY <1>2
  <2>3. h = [i \in 1 .. n |-> h[i]]
    OBVIOUS
  <2> HIDE DEF h, F
  <2> QED BY <2>1, <2>2, <2>3
<1> DEFINE flat == CHOOSE f : f = F(f)
<1>10. flat = F(flat)
  <2> HIDE DEF F, h
  <2> QED BY <1>9
<1>11. Cells(records) = flat[n]
  <2>1. all = [i \in DOMAIN records |->
                [k \in 1..(HeaderLen + records[i].len + records[i].pad) |-> [rec |-> i, at |-> k]]]
    BY DEF CellsOf, Size
  <2>2. Cells(records) = FlattenSeq(all)
    BY <2>1, Zenon DEF Cells
  <2>3. FlattenSeq(all) = IF Len(all) = 0 THEN all ELSE flat[Len(all)]
    <3> HIDE DEF all
    <3> QED BY Zenon DEF FlattenSeq
  <2> HIDE DEF flat, all, n
  <2> QED BY <1>1, <1>2, <2>2, <2>3
<1>12. ASSUME NEW i \in 1 .. n
       PROVE  flat[i] = IF i = 1 THEN all[i] ELSE flat[i - 1] \o all[i]
  <2>1. F(flat)[i] = IF i = 1 THEN all[i] ELSE flat[i - 1] \o all[i]
    <3> HIDE DEF all, flat
    <3> QED BY <1>2
  <2> HIDE DEF F, flat
  <2> QED BY <1>10, <2>1
<1>13. flat[1] = CellsOf(records, 1)
  <2>1. 1 \in 1 .. n
    BY <1>1
  <2>2. flat[1] = all[1]
    <3> HIDE DEF all, flat
    <3> QED BY <1>12, <2>1
  <2> HIDE DEF flat
  <2> QED BY <1>1, <2>1, <2>2
<1>14. ASSUME NEW i \in 2 .. n PROVE flat[i] = flat[i - 1] \o CellsOf(records, i)
  <2>1. i \in 1 .. n /\ i # 1
    BY <1>1
  <2>2. flat[i] = flat[i - 1] \o all[i]
    <3> HIDE DEF all, flat
    <3> QED BY <1>12, <2>1
  <2> HIDE DEF flat
  <2> QED BY <1>1, <2>1, <2>2
<1> HIDE DEF flat
<1> QED BY <1>11, <1>13, <1>14

\* The wire has the cells of every record, each record behind the one before.
IsLayout(records, cells) ==
    /\ cells \in Seq(Cell(records))
    /\ Len(cells) = Ends(records)[Len(records)]
    /\ \A i \in 1 .. Len(records) : \A k \in 1 .. Size(records[i]) :
          cells[Ends(records)[i - 1] + k] = [rec |-> i, at |-> k]

\* The cells of record i are at End(i - 1) + 1, ..., End(i) of the flat sequence.
LEMMA CellsLayout ==
    ASSUME NEW records \in Seq(Record)
    PROVE  IsLayout(records, Cells(records))
<1> DEFINE n == Len(records)
<1>1. /\ n \in Nat /\ DOMAIN records = 1 .. n
      /\ \A i \in 0 .. n : Ends(records)[i] \in Nat
      /\ Ends(records)[0] = 0
      /\ \A i \in 1 .. n : Ends(records)[i] = Ends(records)[i - 1] + Size(records[i])
  BY EndsProps
<1>2. \A i \in 1 .. n : Size(records[i]) \in Nat
  BY <1>1, RecordProps
<1>3. CASE records = <<>>
  <2>1. n = 0
    BY <1>3
  <2>2. Cells(records) = <<>>
    BY <1>3 DEF Cells, FlattenSeq
  <2>3. <<>> \in Seq(Cell(records)) /\ Len(<<>>) = 0
    OBVIOUS
  <2> QED BY <1>1, <2>1, <2>2, <2>3 DEF IsLayout
<1>4. CASE records # <<>>
  <2>1. PICK flat :
              /\ Cells(records) = flat[n]
              /\ flat[1] = CellsOf(records, 1)
              /\ \A i \in 2 .. n : flat[i] = flat[i - 1] \o CellsOf(records, i)
    BY <1>4, CellsSteps
  <2> DEFINE Good(m) ==
                 /\ flat[m] \in Seq(Cell(records))
                 /\ Len(flat[m]) = Ends(records)[m]
                 /\ \A i \in 1 .. m : \A k \in 1 .. Size(records[i]) :
                       flat[m][Ends(records)[i - 1] + k] = [rec |-> i, at |-> k]
             S == {m \in 1 .. n : Good(m)}
  <2>2. n >= 1
    <3>1. n # 0
      BY <1>4, EmptySeq
    <3> QED BY <1>1, <3>1
  <2>3. \A i \in 1 .. n :
            /\ CellsOf(records, i) \in Seq(Cell(records))
            /\ Len(CellsOf(records, i)) = Size(records[i])
            /\ \A k \in 1 .. Size(records[i]) : CellsOf(records, i)[k] = [rec |-> i, at |-> k]
    BY CellsOfProps
  <2>4. 1 \in S
    <3>1. 1 \in 1 .. n
      BY <1>1, <2>2
    <3>2. /\ flat[1] \in Seq(Cell(records))
          /\ Len(flat[1]) = Size(records[1])
          /\ \A k \in 1 .. Size(records[1]) : flat[1][k] = [rec |-> 1, at |-> k]
      BY <2>1, <2>3, <3>1
    <3>3. Ends(records)[1 - 1] = 0 /\ Ends(records)[1] = Size(records[1])
      BY <1>1, <1>2, <3>1
    <3>4. \A i \in 1 .. 1 : i = 1
      OBVIOUS
    <3>5. \A i \in 1 .. 1 : \A k \in 1 .. Size(records[i]) :
              flat[1][Ends(records)[i - 1] + k] = [rec |-> i, at |-> k]
      <4>1. ASSUME NEW k \in 1 .. Size(records[1])
            PROVE  flat[1][Ends(records)[1 - 1] + k] = [rec |-> 1, at |-> k]
        <5>1. Ends(records)[1 - 1] + k = k
          BY <1>2, <3>1, <3>3
        <5> QED BY <3>2, <5>1
      <4> QED BY <3>4, <4>1
    <3> QED BY <3>1, <3>2, <3>3, <3>5
  <2>5. ASSUME NEW m \in 1 + 1 .. n, m - 1 \in S PROVE m \in S
    <3>0. Good(m - 1)
      BY <2>5
    <3> DEFINE f == flat[m - 1]
               c == CellsOf(records, m)
    <3>1. m \in 1 .. n /\ m \in 2 .. n /\ m - 1 \in 0 .. n
      BY <1>1
    <3>2. flat[m] = f \o c
      BY <2>1, <3>1
    <3>3. /\ f \in Seq(Cell(records))
          /\ Len(f) = Ends(records)[m - 1]
          /\ \A i \in 1 .. m - 1 : \A k \in 1 .. Size(records[i]) :
                f[Ends(records)[i - 1] + k] = [rec |-> i, at |-> k]
      BY <3>0
    <3>4. /\ c \in Seq(Cell(records))
          /\ Len(c) = Size(records[m])
          /\ \A k \in 1 .. Size(records[m]) : c[k] = [rec |-> m, at |-> k]
      BY <2>3, <3>1
    <3> HIDE DEF f, c
    <3>5. /\ f \o c \in Seq(Cell(records))
          /\ Len(f \o c) = Len(f) + Len(c)
          /\ \A x \in 1 .. Len(f) + Len(c) :
                (f \o c)[x] = IF x <= Len(f) THEN f[x] ELSE c[x - Len(f)]
      BY <3>3, <3>4, ConcatProperties
    <3>6. /\ Ends(records)[m - 1] \in Nat /\ Size(records[m]) \in Nat
          /\ Ends(records)[m] = Ends(records)[m - 1] + Size(records[m])
      BY <1>1, <1>2, <3>1
    <3>7. Len(f \o c) = Ends(records)[m]
      BY <3>3, <3>4, <3>5, <3>6
    <3>8. ASSUME NEW i \in 1 .. m, NEW k \in 1 .. Size(records[i])
          PROVE  (f \o c)[Ends(records)[i - 1] + k] = [rec |-> i, at |-> k]
      <4>1. i \in 1 .. n /\ i - 1 \in 0 .. n /\ k \in Nat
        BY <1>1, <1>2
      <4>2. /\ Ends(records)[i - 1] \in Nat /\ Size(records[i]) \in Nat
            /\ Ends(records)[i] \in Nat
            /\ Ends(records)[i] = Ends(records)[i - 1] + Size(records[i])
        BY <1>1, <1>2, <4>1
      <4>3. CASE i = m
        <5> DEFINE x == Ends(records)[m - 1] + k
        <5>1. x \in 1 .. Len(f) + Len(c) /\ ~(x <= Len(f)) /\ x - Len(f) = k
          BY <3>3, <3>4, <3>6, <4>2, <4>3
        <5>2. (f \o c)[x] = c[k]
          BY <3>5, <5>1
        <5>3. c[k] = [rec |-> m, at |-> k]
          BY <3>4, <4>3
        <5> QED BY <4>3, <5>2, <5>3
      <4>4. CASE i # m
        <5> DEFINE x == Ends(records)[i - 1] + k
        <5>1. i \in 1 .. m - 1 /\ m - 1 \in 0 .. Len(records) /\ i \in 0 .. Len(records)
          BY <1>1, <4>4
        <5>2. Ends(records)[i] <= Ends(records)[m - 1]
          <6>1. CASE i = m - 1
            BY <3>6, <6>1
          <6>2. CASE i < m - 1
            <7>1. Ends(records)[i] + 2 <= Ends(records)[m - 1]
              BY <5>1, <6>2, EndsGrow
            <7> QED BY <3>6, <4>2, <7>1, SMTT(30)
          <6> QED BY <5>1, <6>1, <6>2
        <5>3. x \in 1 .. Len(f) + Len(c) /\ x <= Len(f)
          <6>1. 1 <= k /\ k <= Size(records[i]) /\ k \in Int
            BY <4>2
          <6>2. x >= 1 /\ x <= Ends(records)[i] /\ x \in Int
            BY <4>2, <6>1
          <6>3. Len(f) \in Nat /\ Len(c) \in Nat /\ x <= Len(f)
            BY <3>3, <3>4, <3>6, <4>2, <5>2, <6>2, SMTT(30)
          <6> HIDE DEF x
          <6> QED BY <6>2, <6>3
        <5>4. (f \o c)[x] = f[x]
          BY <3>5, <5>3
        <5>5. f[x] = [rec |-> i, at |-> k]
          BY <3>3, <5>1
        <5> QED BY <5>4, <5>5
      <4> QED BY <4>3, <4>4
    <3>9. Good(m)
      <4> DEFINE g == flat[m]
      <4>1. g = f \o c
        BY <3>2
      <4>2. g \in Seq(Cell(records)) /\ Len(g) = Ends(records)[m]
        BY <3>5, <3>7, <4>1
      <4>3. \A i \in 1 .. m : \A k \in 1 .. Size(records[i]) :
                 g[Ends(records)[i - 1] + k] = [rec |-> i, at |-> k]
        BY <3>8, <4>1
      <4> QED BY <4>2, <4>3
    <3> HIDE DEF Good
    <3> QED BY <3>1, <3>9
  <2>6. n \in S
    <3>1. \A m \in 1 .. n : m \in S
      <4>1. 1 \in Nat /\ n \in Nat
        BY <1>1
      <4> HIDE DEF S, n
      <4> QED BY <2>4, <2>5, <4>1, Upward
    <3>2. n \in 1 .. n
      BY <1>1, <2>2
    <3> HIDE DEF S, n
    <3> QED BY <3>1, <3>2
  <2>7. Good(n)
    BY <2>6
  <2> DEFINE cells == flat[n]
  <2>8. /\ cells \in Seq(Cell(records))
        /\ Len(cells) = Ends(records)[n]
        /\ \A i \in 1 .. n : \A k \in 1 .. Size(records[i]) :
              cells[Ends(records)[i - 1] + k] = [rec |-> i, at |-> k]
    BY <2>7
  <2>9. Cells(records) = cells
    BY <2>1
  <2> HIDE DEF cells
  <2> QED BY <2>8, <2>9 DEF IsLayout
<1> QED BY <1>3, <1>4

\* Every cell is in a record.
LEMMA LayoutInverse ==
    ASSUME NEW records \in Seq(Record), NEW cells, IsLayout(records, cells),
           NEW p \in 1 .. Len(cells)
    PROVE  /\ cells[p].rec \in 1 .. Len(records)
           /\ cells[p].at \in 1 .. Size(records[cells[p].rec])
           /\ p = Ends(records)[cells[p].rec - 1] + cells[p].at
<1> DEFINE n == Len(records)
           S == {i \in 0 .. n : \A q \in 1 .. Ends(records)[i] :
                    \E j \in 1 .. i : Ends(records)[j - 1] < q /\ q <= Ends(records)[j]}
<1>1. /\ n \in Nat
      /\ \A i \in 0 .. n : Ends(records)[i] \in Nat
      /\ Ends(records)[0] = 0
      /\ \A i \in 1 .. n : Ends(records)[i] = Ends(records)[i - 1] + Size(records[i])
      /\ DOMAIN records = 1 .. n
  BY EndsProps
<1>2. 0 \in S
  BY <1>1
<1>3. ASSUME NEW i \in 0 + 1 .. n, i - 1 \in S PROVE i \in S
  <2>1. i \in 1 .. n /\ i - 1 \in 0 .. n /\ i \in 0 .. n
    BY <1>1
  <2>2. Ends(records)[i] \in Nat /\ Ends(records)[i - 1] \in Nat
    BY <1>1, <2>1
  <2>3. ASSUME NEW q \in 1 .. Ends(records)[i]
        PROVE  \E j \in 1 .. i : Ends(records)[j - 1] < q /\ q <= Ends(records)[j]
    <3>1. CASE q <= Ends(records)[i - 1]
      <4>1. q \in 1 .. Ends(records)[i - 1]
        BY <2>2, <3>1
      <4>2. PICK j \in 1 .. i - 1 : Ends(records)[j - 1] < q /\ q <= Ends(records)[j]
        BY <1>3, <4>1
      <4>3. j \in 1 .. i
        OBVIOUS
      <4> QED BY <4>2, <4>3
    <3>2. CASE ~(q <= Ends(records)[i - 1])
      <4>1. i \in 1 .. i /\ Ends(records)[i - 1] < q /\ q <= Ends(records)[i]
        BY <2>1, <2>2, <3>2
      <4> QED BY <4>1
    <3> QED BY <3>1, <3>2
  <2> QED BY <2>1, <2>3
<1>4. n \in S
  <2>1. \A m \in 0 .. n : m \in S
    <3>1. 0 \in Nat /\ n \in Nat
      BY <1>1
    <3> HIDE DEF S, n
    <3> QED BY <1>2, <1>3, <3>1, Upward
  <2>2. n \in 0 .. n
    BY <1>1
  <2> HIDE DEF S, n
  <2> QED BY <2>1, <2>2
<1>5. p \in 1 .. Ends(records)[n]
  BY DEF IsLayout
<1>6. PICK j \in 1 .. n : Ends(records)[j - 1] < p /\ p <= Ends(records)[j]
  <2>1. \A q \in 1 .. Ends(records)[n] : \E j \in 1 .. n : Ends(records)[j - 1] < q
         /\ q <= Ends(records)[j]
    BY <1>4
  <2> QED BY <1>5, <2>1
<1>7. /\ j \in 0 .. n /\ j - 1 \in 0 .. n
      /\ Ends(records)[j] \in Nat /\ Ends(records)[j - 1] \in Nat
      /\ Ends(records)[j] = Ends(records)[j - 1] + Size(records[j])
      /\ Size(records[j]) \in Nat /\ p \in Nat
  BY <1>1, <1>5, RecordProps
<1> DEFINE k == p - Ends(records)[j - 1]
<1>8. k \in 1 .. Size(records[j]) /\ p = Ends(records)[j - 1] + k
  BY <1>6, <1>7
<1>9. cells[p] = [rec |-> j, at |-> k]
  <2> HIDE DEF k
  <2>1. cells[Ends(records)[j - 1] + k] = [rec |-> j, at |-> k]
    BY <1>8 DEF IsLayout
  <2> QED BY <1>8, <2>1
<1>10. cells[p].rec = j /\ cells[p].at = k
  BY <1>9
<1> HIDE DEF k
<1> QED BY <1>8, <1>10

------------------------------
(* The types, and where the call is.                                       *)

Readers(records) ==
    [type : {"none", "params", "stdin", "data"},
     contentLen : Nat, paddingLen : Nat, skip : BOOLEAN, eorStop : BOOLEAN,
     avail : Nat, isClosed : BOOLEAN,
     error : {"none", "protocol", "version", "os", "callSeq"},
     head : Seq(Cell(records))]

Positions ==
    /\ last \in Int /\ 0 <= last /\ last <= Len(wire) + 1
    /\ served \in Nat /\ buffStop \in Nat /\ rdNext \in Nat
    /\ rdNext + reader.avail <= buffStop /\ buffStop <= Len(wire)

Types ==
    /\ script \in Scripts /\ wire = Cells(script)
    /\ Positions
    /\ reader \in Readers(script) /\ Len(reader.head) <= HeaderLen
    /\ replies \in Seq([type : {"cantMpx", "unknownType", "result"}, rec : DOMAIN script])
    /\ request \in [id : Nat, role : {"none", "responder", "filter", "bad"},
                    keep : BOOLEAN, begun : BOOLEAN]
    /\ call \in [client : {"begin", "params", "app"}, want : Nat]
    /\ params \in Seq(Cell(script))
    /\ delivered \in [{"stdin", "data"} -> Seq(Cell(script))]
    /\ pc \in {"top", "content", "padding", "header", "process", "nested",
               "begin", "params", "app"}
    /\ nest \in {"none", "body", "values"}
    /\ excused \subseteq {"unread", "signal"}

Filling == {"top", "content", "padding", "header", "process"}

\* FillBuffProc is called when nothing is left, and takes a record apart step by
\* step; a caller goes on when it returns.
Phases ==
    /\ pc \in Filling => reader.avail = 0 /\ ~reader.isClosed
    /\ pc \in {"padding", "header", "process"} => reader.contentLen = 0
    /\ pc \in {"header", "process"} => reader.paddingLen = 0
    /\ pc \in {"begin", "params", "app"} => call.client = pc

\* What a caller has: a reader of its type, and an environment.
Callers ==
    /\ call.client = "begin" =>
          reader.type = "none" /\ params = <<>> /\ delivered = Nothing
    /\ call.client = "params" => reader.type = "params" /\ delivered = Nothing
    /\ call.client = "app" => reader.type \in {"stdin", "data"}
    /\ call.client # "begin" => request.begun
    /\ request.begun => nest # "body" /\ (call.client = "begin" => pc = "begin")

\* A nested call has its record's header; else a header is what has just been read.
Heads ==
    /\ pc \in {"begin", "params", "app"} => nest = "none" /\ reader.head = <<>>
    /\ pc = "nested" => nest # "none"
    /\ pc = "process" => nest = "none" /\ reader.eorStop /\ Len(reader.head) = HeaderLen
    /\ nest # "none" => reader.eorStop /\ IsHeader(reader.head)
    /\ nest = "none" /\ pc # "process" =>
          ~reader.eorStop /\ Len(reader.head) < HeaderLen
    /\ nest = "none" /\ reader.head # <<>> =>
          reader.contentLen = 0 /\ reader.paddingLen = 0

\* Where it comes from.
HeadIsRead ==
    nest = "none" /\ reader.head # <<>> =>
        /\ Len(reader.head) <= rdNext
        /\ reader.head = SubSeq(wire, rdNext - Len(reader.head) + 1, rdNext)

IInv == Types /\ Phases /\ Callers /\ Heads /\ HeadIsRead

------------------------------
(* What the types say.                                                     *)

StateFacts ==
    /\ script \in Seq(Record) /\ IsLayout(script, wire)
    /\ wire \in Seq(Cell(script))
    /\ Len(wire) \in Nat /\ DOMAIN wire = 1 .. Len(wire)
    /\ Len(script) \in Nat /\ DOMAIN script = 1 .. Len(script)
    /\ reader.contentLen \in Nat /\ reader.paddingLen \in Nat /\ reader.avail \in Nat
    /\ reader.head \in Seq(Cell(script))
    /\ Len(reader.head) \in Nat /\ Len(reader.head) <= 2
    /\ BuffLen \in Nat /\ BuffLen >= 2 /\ HeaderLen = 2
    /\ last \in Int /\ 0 <= last /\ last <= Len(wire) + 1
    /\ served \in Nat /\ buffStop \in Nat /\ rdNext \in Nat
    /\ rdNext + reader.avail <= buffStop /\ buffStop <= Len(wire)

\* What the type invariant says, conjunct by conjunct.
LEMMA StateProps ==
    ASSUME Types
    PROVE  StateFacts
<1>1. script \in Scripts /\ wire = Cells(script)
  BY DEF Types
<1>2. script \in Seq(Record) /\ BuffLen \in Nat /\ BuffLen >= 2 /\ HeaderLen = 2
  BY <1>1, ReaderAssumption DEF HeaderLen
<1>3. IsLayout(script, wire)
  BY <1>1, <1>2, CellsLayout
<1>4. wire \in Seq(Cell(script))
  BY <1>3 DEF IsLayout
<1>5. Len(wire) \in Nat /\ DOMAIN wire = 1 .. Len(wire)
  BY <1>4, LenProperties
<1>6. Len(script) \in Nat /\ DOMAIN script = 1 .. Len(script)
  BY <1>2, LenProperties
<1>7. /\ reader.contentLen \in Nat /\ reader.paddingLen \in Nat /\ reader.avail \in Nat
      /\ reader.head \in Seq(Cell(script))
  BY DEF Types, Readers
<1>8. Len(reader.head) \in Nat /\ Len(reader.head) <= 2
  BY <1>2, <1>7, LenProperties DEF Types
<1>9. Positions
  BY DEF Types
<1> QED BY <1>2, <1>3, <1>4, <1>5, <1>6, <1>7, <1>8, <1>9 DEF StateFacts, Positions

\* The strengthened types imply the type invariant of the runs.
LEMMA TypesAreOK ==
    ASSUME Types
    PROVE  TypeOK
<1>1. StateFacts
  BY StateProps
<1>2. buffStop \in 0 .. Len(wire) /\ rdNext \in 0 .. buffStop /\ last \in 0 .. Len(wire) + 1
  BY <1>1 DEF StateFacts
<1>3. reader.avail \in 0 .. Buffered
  BY <1>1 DEF StateFacts, Buffered
<1>4. \A i \in DOMAIN replies : replies[i].type \in {"cantMpx", "unknownType", "result"}
  <2> DEFINE S == [type : {"cantMpx", "unknownType", "result"}, rec : DOMAIN script]
  <2>1. replies \in Seq(S)
    BY DEF Types
  <2>2. \A i \in DOMAIN replies : replies[i] \in S
    <3> HIDE DEF S
    <3> QED BY <2>1, LenProperties, ElementOfSeq
  <2> QED BY <2>2
<1>5. /\ reader.type \in {"none", "params", "stdin", "data"}
      /\ {reader.skip, reader.eorStop, reader.isClosed} \subseteq BOOLEAN
      /\ reader.error \in {"none", "protocol", "version", "os", "callSeq"}
  BY DEF Types, Readers
<1>6. call.client \in {"begin", "params", "app"} /\ call.want \in Nat
  BY DEF Types
<1> QED BY <1>1, <1>2, <1>3, <1>4, <1>5, <1>6 DEF TypeOK, Types, StateFacts

\* Later cells are of later records.
LEMMA LaterCells ==
    ASSUME NEW records \in Seq(Record), NEW cells, IsLayout(records, cells),
           NEW p \in 1 .. Len(cells), NEW q \in 1 .. Len(cells), p <= q
    PROVE  cells[p].rec <= cells[q].rec
<1> DEFINE i == cells[p].rec
           j == cells[q].rec
           x == cells[p].at
           y == cells[q].at
<1>1. /\ i \in 1 .. Len(records)
      /\ x \in 1 .. Size(records[i])
      /\ p = Ends(records)[i - 1] + x
  BY LayoutInverse
<1>2. /\ j \in 1 .. Len(records)
      /\ y \in 1 .. Size(records[j])
      /\ q = Ends(records)[j - 1] + y
  BY LayoutInverse
<1> HIDE DEF i, j, x, y
<1>3. /\ Len(records) \in Nat /\ DOMAIN records = 1 .. Len(records)
      /\ \A k \in 0 .. Len(records) : Ends(records)[k] \in Nat
      /\ \A k \in 1 .. Len(records) :
            Ends(records)[k] = Ends(records)[k - 1] + Size(records[k])
  BY EndsProps
<1>4. Size(records[j]) \in Nat /\ Size(records[i]) \in Nat
  BY <1>1, <1>2, <1>3, RecordProps
<1>5. /\ i - 1 \in 0 .. Len(records) /\ j \in 0 .. Len(records) /\ j - 1 \in 0 .. Len(records)
      /\ i \in Int /\ j \in Int
  <2>1. i \in 1 .. Len(records) /\ j \in 1 .. Len(records) /\ Len(records) \in Nat
    BY <1>1, <1>2, <1>3
  <2> QED BY <2>1
<1>6. /\ Ends(records)[j] = Ends(records)[j - 1] + Size(records[j])
      /\ Ends(records)[j] \in Nat /\ Ends(records)[j - 1] \in Nat /\ Ends(records)[i - 1] \in Nat
  BY <1>2, <1>3, <1>5
<1>7. SUFFICES ASSUME j < i PROVE FALSE
  BY <1>5 DEF i, j
<1>8. Ends(records)[j] <= Ends(records)[i - 1]
  <2>1. CASE j = i - 1
    BY <1>6, <2>1
  <2>2. CASE j < i - 1
    BY <1>5, <1>6, <2>2, EndsGrow
  <2> QED BY <1>5, <1>7, <2>1, <2>2
<1>9. q <= Ends(records)[j] /\ p >= Ends(records)[i - 1] + 1
  <2>1. x \in Int /\ x >= 1
    BY <1>1, <1>4
  <2>2. y \in Int /\ y <= Size(records[j])
    BY <1>2, <1>4
  <2>3. p = Ends(records)[i - 1] + x /\ q = Ends(records)[j - 1] + y
    BY <1>1, <1>2
  <2>4. p >= Ends(records)[i - 1] + 1
    BY <1>6, <2>1, <2>3
  <2>5. q <= Ends(records)[j]
    BY <1>4, <1>6, <2>2, <2>3
  <2> QED BY <2>4, <2>5
<1> QED BY <1>6, <1>8, <1>9

\* A set that has the numbers below each of its own, up to its cardinality.
LEMMA FrontProps ==
    ASSUME NEW n \in Nat, NEW A \in SUBSET (1 .. n),
           \A q \in A : \A p \in 1 .. q : p \in A
    PROVE  /\ Cardinality(A) \in Nat /\ Cardinality(A) <= n
           /\ \A p \in 1 .. Cardinality(A) : p \in A
<1>1. \A m \in Nat : IsFiniteSet(1 .. m) /\ Cardinality(1 .. m) = m
  <2>1. ASSUME NEW m \in Nat PROVE IsFiniteSet(1 .. m) /\ Cardinality(1 .. m) = m
    <3>1. /\ IsFiniteSet(1 .. m)
          /\ Cardinality(1 .. m) = IF 1 > m THEN 0 ELSE m - 1 + 1
      BY FS_Interval
    <3> QED BY <3>1
  <2> QED BY <2>1
<1>2. IsFiniteSet(A) /\ Cardinality(A) <= n
  <2>1. IsFiniteSet(1 .. n) /\ Cardinality(1 .. n) = n
    BY <1>1
  <2>2. IsFiniteSet(A) /\ Cardinality(A) <= Cardinality(1 .. n)
    BY <2>1, FS_Subset
  <2> QED BY <2>1, <2>2
<1>3. Cardinality(A) \in Nat
  BY <1>2, FS_CardinalityType
<1>4. ASSUME NEW p \in 1 .. Cardinality(A), p \notin A PROVE FALSE
  <2>1. p \in Nat /\ p >= 1 /\ p - 1 \in Nat
    BY <1>3
  <2>2. A \subseteq 1 .. p - 1
    <3>1. ASSUME NEW q \in A PROVE q \in 1 .. p - 1
      <4>1. ~(p <= q)
        <5>1. p <= q => p \in 1 .. q
          BY <2>1
        <5> QED BY <1>4, <5>1
      <4>2. q \in Int /\ q >= 1
        OBVIOUS
      <4> QED BY <2>1, <4>1, <4>2
    <3> QED BY <3>1
  <2>3. IsFiniteSet(1 .. p - 1) /\ Cardinality(1 .. p - 1) = p - 1
    BY <1>1, <2>1
  <2>4. Cardinality(A) <= Cardinality(1 .. p - 1)
    BY <2>2, <2>3, FS_Subset
  <2> QED BY <1>3, <2>1, <2>3, <2>4
<1> QED BY <1>2, <1>3, <1>4

\* What comes is a part of the wire, and what the server may send.
LEMMA ComeProps ==
    ASSUME Types
    PROVE  /\ Come \in Int /\ Come <= Len(wire) /\ Come <= last
           /\ \A p \in 1 .. Come : MaySend(wire[p].rec)
<1> DEFINE A == {p \in DOMAIN wire : \A i \in 1 .. wire[p].rec : MaySend(i)}
<1>1. /\ script \in Seq(Record) /\ IsLayout(script, wire)
      /\ Len(wire) \in Nat /\ DOMAIN wire = 1 .. Len(wire)
      /\ last \in Int
  BY StateProps DEF StateFacts
<1>2. A \in SUBSET (1 .. Len(wire))
  BY <1>1
<1>3. \A q \in A : \A p \in 1 .. q : p \in A
  <2>1. ASSUME NEW q \in A, NEW p \in 1 .. q PROVE p \in A
    <3>1. q \in 1 .. Len(wire) /\ p \in 1 .. Len(wire) /\ p <= q
      BY <1>1
    <3>2. wire[p].rec <= wire[q].rec
      BY <1>1, <3>1, LaterCells
    <3>3. wire[p].rec \in 1 .. Len(script) /\ wire[q].rec \in 1 .. Len(script)
      BY <1>1, <3>1, LayoutInverse
    <3>4. \A i \in 1 .. wire[p].rec : i \in 1 .. wire[q].rec
      BY <3>2, <3>3
    <3> QED BY <1>1, <3>1, <3>4
  <2> QED BY <2>1
<1>4. /\ Cardinality(A) \in Nat /\ Cardinality(A) <= Len(wire)
      /\ \A p \in 1 .. Cardinality(A) : p \in A
  <2> HIDE DEF A
  <2> QED BY <1>1, <1>2, <1>3, FrontProps
<1>5. Come = IF Cardinality(A) < last THEN Cardinality(A) ELSE last
  BY DEF Come
<1>6. Come \in Int /\ Come <= Cardinality(A) /\ Come <= last
  <2> HIDE DEF A
  <2> QED BY <1>1, <1>4, <1>5
<1>7. ASSUME NEW p \in 1 .. Come PROVE MaySend(wire[p].rec)
  <2>1. p \in A
    <3>1. p \in 1 .. Cardinality(A)
      BY <1>4, <1>6
    <3> HIDE DEF A
    <3> QED BY <1>4, <3>1
  <2>2. p \in 1 .. Len(wire) /\ \A i \in 1 .. wire[p].rec : MaySend(i)
    BY <1>1, <2>1
  <2>3. wire[p].rec \in 1 .. Len(script)
    BY <1>1, <2>2, LayoutInverse
  <2>4. wire[p].rec \in 1 .. wire[p].rec
    BY <2>3
  <2> QED BY <2>2, <2>4
<1>8. Come <= Len(wire)
  BY <1>1, <1>4, <1>6
<1> QED BY <1>6, <1>7, <1>8

\* The header that a nested call, or ProcessHeader, has.
LEMMA HeaderProps ==
    ASSUME Types, Len(reader.head) = HeaderLen
    PROVE  /\ reader.head[1].rec \in DOMAIN script
           /\ Header \in Record
           /\ Header.type \in {"begin", "params", "stdin", "data", "values", "unknown"}
           /\ Header.id \in Nat /\ Header.len \in Nat /\ Header.pad \in Nat
           /\ Header.keep \in BOOLEAN
           /\ Header.role \in {"none", "responder", "filter", "bad"}
<1>1. reader.head \in Seq(Cell(script))
  BY DEF Types, Readers
<1>2. 1 \in 1 .. Len(reader.head)
  BY DEF HeaderLen
<1>3. reader.head[1] \in Cell(script)
  BY <1>1, <1>2, ElementOfSeq
<1>4. reader.head[1].rec \in DOMAIN script
  BY <1>3 DEF Cell
<1>5. script \in Seq(Record)
  BY StateProps DEF StateFacts
<1>6. Header \in Record
  BY <1>4, <1>5, RecordProps DEF Header
<1> QED BY <1>4, <1>6 DEF Record

\* A run of cells.
LEMMA SegmentProps ==
    ASSUME StateFacts, NEW m \in Nat, NEW n \in Nat, m <= n, n <= Len(wire)
    PROVE  /\ SubSeq(wire, m + 1, n) \in Seq(Cell(script))
           /\ Len(SubSeq(wire, m + 1, n)) = n - m
           /\ \A i \in 1 .. n - m : SubSeq(wire, m + 1, n)[i] = wire[m + i]
<1>1. wire \in Seq(Cell(script)) /\ Len(wire) \in Nat
  BY DEF StateFacts
<1>2. \A i \in m + 1 .. n : wire[i] \in Cell(script)
  <2>1. \A i \in m + 1 .. n : i \in 1 .. Len(wire)
    BY <1>1
  <2> QED BY <1>1, <2>1, ElementOfSeq
<1>3. /\ SubSeq(wire, m + 1, n) \in Seq(Cell(script))
      /\ Len(SubSeq(wire, m + 1, n)) = IF m + 1 <= n THEN n - (m + 1) + 1 ELSE 0
      /\ \A i \in 1 .. n - (m + 1) + 1 : SubSeq(wire, m + 1, n)[i] = wire[(m + 1) + i - 1]
  <2>1. m + 1 \in Int /\ n \in Int
    OBVIOUS
  <2> QED BY <1>2, <2>1, SubSeqProperties
<1>4. Len(SubSeq(wire, m + 1, n)) = n - m
  BY <1>3
<1>5. \A i \in 1 .. n - m : SubSeq(wire, m + 1, n)[i] = wire[m + i]
  <2>1. \A i \in 1 .. n - m : i \in 1 .. n - (m + 1) + 1 /\ (m + 1) + i - 1 = m + i
    OBVIOUS
  <2> QED BY <1>3, <2>1
<1> QED BY <1>3, <1>4, <1>5

\* Two runs, one behind the other.
LEMMA SegmentJoin ==
    ASSUME StateFacts, NEW k \in Nat, NEW m \in Nat, NEW n \in Nat,
           k <= m, m <= n, n <= Len(wire)
    PROVE  SubSeq(wire, k + 1, m) \o SubSeq(wire, m + 1, n) = SubSeq(wire, k + 1, n)
<1>1. wire \in Seq(Cell(script)) /\ Len(wire) \in Nat
  BY DEF StateFacts
<1>2. k + 1 \in 1 .. Len(wire) + 1 /\ m \in (k + 1) - 1 .. Len(wire) /\ n \in m .. Len(wire)
  BY <1>1
<1> QED BY <1>1, <1>2, ConcatAdjacentSubSeq

------------------------------
(* Each step keeps the types, and where the call is.                       *)

\* What FillBuffProc makes of the status of a record.
LEMMA SwitchProps ==
    ASSUME NEW records, NEW r \in Readers(records), r.avail = 0,
           NEW status \in {"STREAM", "SKIP", "MGMT", "BEGIN", "protocol", "version", "os"},
           Switch(r, status)
    PROVE  /\ reader' \in Readers(records)
           /\ reader'.head = <<>> /\ ~reader'.eorStop /\ reader'.avail = 0
           /\ reader'.type = r.type
           /\ reader'.contentLen = r.contentLen /\ reader'.paddingLen = r.paddingLen
           /\ reader'.skip <=> r.skip \/ status = "SKIP"
           /\ \/ /\ pc' = "top" /\ ~reader'.isClosed /\ reader'.error = r.error
                 /\ status \in {"STREAM", "SKIP", "MGMT"}
                 /\ status = "STREAM" => r.contentLen > 0
              \/ /\ pc' = call.client /\ reader'.isClosed /\ reader'.error = r.error
                 /\ status = "STREAM" /\ r.contentLen = 0
              \/ /\ pc' = call.client /\ ~reader'.isClosed /\ reader'.error = r.error
                 /\ status = "BEGIN"
              \/ /\ pc' = call.client /\ reader'.isClosed
                 /\ reader'.error = IF r.error = "none" THEN status ELSE r.error
                 /\ status \in {"protocol", "version", "os"}
<1> DEFINE done == [r EXCEPT !.eorStop = FALSE, !.isClosed = FALSE, !.head = <<>>]
<1>1. /\ r.contentLen \in Nat /\ r.paddingLen \in Nat
      /\ r.skip \in BOOLEAN /\ r.type \in {"none", "params", "stdin", "data"}
      /\ r.error \in {"none", "protocol", "version", "os", "callSeq"}
  BY DEF Readers
<1>2. <<>> \in Seq(Cell(records))
  OBVIOUS
<1>3. /\ done \in Readers(records)
      /\ done.head = <<>> /\ ~done.eorStop /\ done.avail = 0 /\ ~done.isClosed
      /\ done.type = r.type /\ done.error = r.error
      /\ done.contentLen = r.contentLen /\ done.paddingLen = r.paddingLen
      /\ done.skip = r.skip
  BY <1>2 DEF Readers
<1>4. CASE status = "STREAM" /\ r.contentLen = 0
  <2>1. reader' = [done EXCEPT !.avail = 0, !.isClosed = TRUE] /\ pc' = call.client
    BY <1>4 DEF Switch, EndOfStream
  <2> HIDE DEF done
  <2> QED BY <1>3, <1>4, <2>1 DEF Readers
<1>5. CASE status = "STREAM" /\ r.contentLen > 0
  <2>1. reader' = done /\ pc' = "top"
    BY <1>5 DEF Switch
  <2> HIDE DEF done
  <2> QED BY <1>3, <1>5, <2>1
<1>6. CASE status = "SKIP"
  <2>1. reader' = [done EXCEPT !.skip = TRUE] /\ pc' = "top"
    BY <1>6 DEF Switch
  <2> HIDE DEF done
  <2> QED BY <1>3, <1>6, <2>1 DEF Readers
<1>7. CASE status = "MGMT"
  <2>1. reader' = done /\ pc' = "top"
    BY <1>7 DEF Switch
  <2> HIDE DEF done
  <2> QED BY <1>3, <1>7, <2>1
<1>8. CASE status = "BEGIN"
  <2>1. reader' = done /\ pc' = call.client
    BY <1>8 DEF Switch
  <2> HIDE DEF done
  <2> QED BY <1>3, <1>8, <2>1
<1>9. CASE status \in {"protocol", "version", "os"}
  <2>1. reader' = SetError(done, status) /\ pc' = call.client
    BY <1>9 DEF Switch
  <2> HIDE DEF done
  <2> QED BY <1>1, <1>3, <1>9, <2>1 DEF Readers, SetError
<1>10. r.contentLen = 0 \/ r.contentLen > 0
  BY <1>1
<1> QED BY <1>4, <1>5, <1>6, <1>7, <1>8, <1>9, <1>10

\* FillBuffProc finds nothing to read.
LEMMA TypesReadNothing ==
    ASSUME IInv, ReadNothing
    PROVE  IInv'
<1> USE DEF server, clients
<1>1. StateFacts
  BY StateProps DEF IInv
<1>2. reader \in Readers(script) /\ call \in [client : {"begin", "params", "app"}, want : Nat]
  BY DEF IInv, Types
<1>3. script' = script /\ wire' = wire
  BY DEF ReadNothing
<1>4. reader' \in Readers(script)
  BY <1>2 DEF ReadNothing
<1>5. Positions'
  BY <1>1 DEF ReadNothing, Positions, StateFacts
<1>6. Types'
  BY <1>5 DEF ReadNothing, Types, IInv
<1>7. Phases'
  BY DEF ReadNothing, Phases, IInv, Filling
<1>8. Callers'
  BY DEF ReadNothing, Callers, IInv
<1>9. Heads'
  BY DEF ReadNothing, Heads, IInv
<1>10. HeadIsRead'
  BY DEF ReadNothing, HeadIsRead, IInv
<1> QED BY <1>6, <1>7, <1>8, <1>9, <1>10 DEF IInv

\* FillBuffProc is at the end of a nested record (eorStop).
LEMMA TypesEndOfRecord ==
    ASSUME IInv, EndOfRecord
    PROVE  IInv'
<1> USE DEF server, clients
<1>1. StateFacts
  BY StateProps DEF IInv
<1>2. reader \in Readers(script) /\ call \in [client : {"begin", "params", "app"}, want : Nat]
  BY DEF IInv, Types
<1>3. script' = script /\ wire' = wire
  BY DEF EndOfRecord
<1>4. reader' \in Readers(script)
  BY <1>2 DEF EndOfRecord, Readers
<1>5. Positions'
  BY <1>1 DEF EndOfRecord, Positions, StateFacts
<1>6. Types'
  BY <1>4, <1>5 DEF EndOfRecord, Return, Types, IInv
<1>7. Phases'
  BY <1>2 DEF EndOfRecord, Return, Phases, Filling
<1>8. Callers'
  BY DEF EndOfRecord, Callers, IInv
<1>9. Heads'
  BY DEF EndOfRecord, Return, Heads, IInv
<1>10. HeadIsRead'
  BY DEF EndOfRecord, HeadIsRead, IInv
<1> QED BY <1>6, <1>7, <1>8, <1>9, <1>10 DEF IInv

\* FCGX_GetStr of a nested reader takes what is in the buffer.
LEMMA TypesNestedTakes ==
    ASSUME IInv, NestedTakes
    PROVE  IInv'
<1> USE DEF server, clients
<1>1. StateFacts
  BY StateProps DEF IInv
<1>2. reader \in Readers(script) /\ call \in [client : {"begin", "params", "app"}, want : Nat]
  BY DEF IInv, Types
<1>3. script' = script /\ wire' = wire
  BY DEF NestedTakes
<1>4. reader' \in Readers(script)
  BY <1>2 DEF NestedTakes, Readers
<1>5. Positions'
  BY <1>1, <1>2 DEF NestedTakes, Positions, StateFacts
<1>6. Types'
  BY <1>4, <1>5 DEF NestedTakes, Types, IInv
<1>7. Phases'
  BY DEF NestedTakes, Phases, Filling
<1>8. Callers'
  BY DEF NestedTakes, Callers, IInv
<1>9. Heads'
  BY DEF NestedTakes, Heads, IInv
<1>10. HeadIsRead'
  BY DEF NestedTakes, Heads, HeadIsRead, IInv
<1> QED BY <1>6, <1>7, <1>8, <1>9, <1>10 DEF IInv

\* FCGX_GetStr of a nested reader calls FillBuffProc.
LEMMA TypesNestedFills ==
    ASSUME IInv, NestedFills
    PROVE  IInv'
<1> USE DEF server, clients
<1>1. StateFacts
  BY StateProps DEF IInv
<1>2. reader \in Readers(script) /\ call \in [client : {"begin", "params", "app"}, want : Nat]
  BY DEF IInv, Types
<1>3. script' = script /\ wire' = wire
  BY DEF NestedFills
<1>4. reader' \in Readers(script)
  BY <1>2 DEF NestedFills
<1>5. Positions'
  BY <1>1 DEF NestedFills, Positions, StateFacts
<1>6. Types'
  BY <1>5 DEF NestedFills, Types, IInv
<1>7. Phases'
  BY DEF NestedFills, Phases
<1>8. Callers'
  BY DEF NestedFills, Callers, IInv
<1>9. Heads'
  BY DEF NestedFills, Heads, IInv
<1>10. HeadIsRead'
  BY DEF NestedFills, HeadIsRead, IInv
<1> QED BY <1>6, <1>7, <1>8, <1>9, <1>10 DEF IInv

\* FCGX_Accept_r goes on to FCGI_PARAMS.
LEMMA TypesAcceptReadsParams ==
    ASSUME IInv, AcceptReadsParams
    PROVE  IInv'
<1> USE DEF server, clients
<1>1. StateFacts
  BY StateProps DEF IInv
<1>2. reader \in Readers(script) /\ call \in [client : {"begin", "params", "app"}, want : Nat]
  BY DEF IInv, Types
<1>3. script' = script /\ wire' = wire
  BY DEF AcceptReadsParams
<1>4. reader' \in Readers(script)
  BY <1>2 DEF AcceptReadsParams, SetReaderType, Readers
<1>5. Positions'
  BY <1>1 DEF AcceptReadsParams, SetReaderType, Positions, StateFacts
<1>6. Types'
  BY <1>4, <1>5 DEF AcceptReadsParams, SetReaderType, Client, Types, IInv
<1>7. Phases'
  BY DEF AcceptReadsParams, Client, Phases, Filling
<1>8. Callers'
  BY DEF AcceptReadsParams, SetReaderType, Client, Phases, Callers, IInv
<1>9. Heads'
  BY DEF AcceptReadsParams, SetReaderType, Client, Heads, IInv
<1>10. HeadIsRead'
  BY DEF AcceptReadsParams, SetReaderType, HeadIsRead, IInv
<1> QED BY <1>6, <1>7, <1>8, <1>9, <1>10 DEF IInv

\* FCGX_Accept_r returns with the request.
LEMMA TypesAcceptReturns ==
    ASSUME IInv, AcceptReturns
    PROVE  IInv'
<1> USE DEF server, clients
<1>1. StateFacts
  BY StateProps DEF IInv
<1>2. reader \in Readers(script) /\ call \in [client : {"begin", "params", "app"}, want : Nat]
  BY DEF IInv, Types
<1>3. script' = script /\ wire' = wire
  BY DEF AcceptReturns
<1>4. reader' \in Readers(script)
  BY <1>2 DEF AcceptReturns, SetReaderType, Readers
<1>5. Positions'
  BY <1>1 DEF AcceptReturns, SetReaderType, Positions, StateFacts
<1>6. Types'
  BY <1>4, <1>5 DEF AcceptReturns, SetReaderType, Client, Types, IInv
<1>7. Phases'
  BY DEF AcceptReturns, Client, Phases, Filling
<1>8. Callers'
  BY DEF AcceptReturns, SetReaderType, Client, Phases, Callers, IInv
<1>9. Heads'
  BY DEF AcceptReturns, SetReaderType, Client, Heads, IInv
<1>10. HeadIsRead'
  BY DEF AcceptReturns, SetReaderType, HeadIsRead, IInv
<1> QED BY <1>6, <1>7, <1>8, <1>9, <1>10 DEF IInv

\* FCGX_GetStr returns less than it was asked for.
LEMMA TypesGetStrReturnsShort ==
    ASSUME IInv, GetStrReturnsShort
    PROVE  IInv'
<1> USE DEF server, clients
<1>1. StateFacts
  BY StateProps DEF IInv
<1>2. reader \in Readers(script) /\ call \in [client : {"begin", "params", "app"}, want : Nat]
  BY DEF IInv, Types
<1>3. script' = script /\ wire' = wire
  BY DEF GetStrReturnsShort
<1>4. reader' \in Readers(script)
  BY <1>2 DEF GetStrReturnsShort
<1>5. Positions'
  BY <1>1 DEF GetStrReturnsShort, Positions, StateFacts
<1>6. Types'
  BY <1>5 DEF GetStrReturnsShort, Types, IInv
<1>7. Phases'
  BY DEF GetStrReturnsShort, Phases, IInv
<1>8. Callers'
  BY DEF GetStrReturnsShort, Callers, IInv
<1>9. Heads'
  BY DEF GetStrReturnsShort, Heads, IInv
<1>10. HeadIsRead'
  BY DEF GetStrReturnsShort, HeadIsRead, IInv
<1> QED BY <1>6, <1>7, <1>8, <1>9, <1>10 DEF IInv

\* FCGX_GetStr calls FillBuffProc.
LEMMA TypesCallFillBuffProc ==
    ASSUME IInv, CallFillBuffProc
    PROVE  IInv'
<1> USE DEF server, clients
<1>1. StateFacts
  BY StateProps DEF IInv
<1>2. reader \in Readers(script) /\ call \in [client : {"begin", "params", "app"}, want : Nat]
  BY DEF IInv, Types
<1>3. script' = script /\ wire' = wire
  BY DEF CallFillBuffProc
<1>4. reader' \in Readers(script)
  BY <1>2 DEF CallFillBuffProc
<1>5. Positions'
  BY <1>1 DEF CallFillBuffProc, Positions, StateFacts
<1>6. Types'
  BY <1>5 DEF CallFillBuffProc, Types, IInv
<1>7. Phases'
  BY DEF CallFillBuffProc, Phases
<1>8. Callers'
  BY DEF CallFillBuffProc, Callers, IInv
<1>9. Heads'
  BY DEF CallFillBuffProc, Heads, IInv
<1>10. HeadIsRead'
  BY DEF CallFillBuffProc, HeadIsRead, IInv
<1> QED BY <1>6, <1>7, <1>8, <1>9, <1>10 DEF IInv

\* FCGX_StartFilterData.
LEMMA TypesStartFilterData ==
    ASSUME IInv, StartFilterData
    PROVE  IInv'
<1> USE DEF server, clients
<1>1. StateFacts
  BY StateProps DEF IInv
<1>2. reader \in Readers(script) /\ call \in [client : {"begin", "params", "app"}, want : Nat]
  BY DEF IInv, Types
<1>3. script' = script /\ wire' = wire
  BY DEF StartFilterData
<1>4. reader' \in Readers(script)
  BY <1>2 DEF StartFilterData, SetReaderType, SetError, Readers
<1>5. Positions'
  BY <1>1 DEF StartFilterData, SetReaderType, SetError, Positions, StateFacts
<1>6. Types'
  BY <1>4, <1>5 DEF StartFilterData, SetReaderType, SetError, Types, IInv
<1>7. Phases'
  BY DEF StartFilterData, Phases, IInv, Filling
<1>8. Callers'
  BY DEF StartFilterData, SetReaderType, SetError, Callers, IInv
<1>9. Heads'
  BY DEF StartFilterData, SetReaderType, SetError, Heads, IInv
<1>10. HeadIsRead'
  BY DEF StartFilterData, SetReaderType, SetError, HeadIsRead, IInv
<1> QED BY <1>6, <1>7, <1>8, <1>9, <1>10 DEF IInv

\* read(2) brings cells.
LEMMA TypesRead ==
    ASSUME IInv, Read
    PROVE  IInv'
<1> USE DEF server, clients
<1>1. StateFacts
  BY StateProps DEF IInv
<1>2. PICK n \in 1 .. Least(BuffLen, Come - buffStop) : buffStop' = buffStop + n
  BY DEF Read
<1>3. Come \in Int /\ Come <= Len(wire)
  BY ComeProps DEF IInv
<1>4. n \in Nat /\ n <= Come - buffStop
  BY <1>1, <1>3 DEF Least, StateFacts
<1>5. buffStop' \in Nat /\ buffStop <= buffStop' /\ buffStop' <= Len(wire)
  BY <1>1, <1>2, <1>3, <1>4 DEF StateFacts
<1>6. /\ pc = "top" /\ pc' = "content"
      /\ UNCHANGED <<server, served, replies, rdNext, reader, request, call, nest, clients>>
  BY DEF Read
<1>7. Positions'
  BY <1>1, <1>5, <1>6 DEF StateFacts, Positions
<1>8. Types'
  BY <1>6, <1>7 DEF Types, IInv
<1>9. Phases' /\ Callers' /\ Heads' /\ HeadIsRead'
  BY <1>6 DEF Phases, Callers, Heads, HeadIsRead, IInv, Filling, IsHeader
<1> QED BY <1>8, <1>9 DEF IInv

\* An error, after which what has come of a header is lost.
LEMMA HeadlessProps ==
    ASSUME Types, NEW error \in {"protocol", "os"},
           reader' = SetError(Headless(reader), error)
    PROVE  /\ reader' \in Readers(script)
           /\ reader'.head = IF nest = "none" THEN <<>> ELSE reader.head
           /\ reader'.isClosed
           /\ reader'.error = IF reader.error = "none" THEN error ELSE reader.error
           /\ reader'.type = reader.type /\ reader'.skip = reader.skip
           /\ reader'.eorStop = reader.eorStop /\ reader'.avail = reader.avail
           /\ reader'.contentLen = reader.contentLen
           /\ reader'.paddingLen = reader.paddingLen
<1>1. reader \in Readers(script)
  BY DEF Types
<1>2. <<>> \in Seq(Cell(script))
  OBVIOUS
<1>3. CASE nest = "none"
  <2> DEFINE r == [reader EXCEPT !.head = <<>>]
  <2>1. /\ r \in Readers(script) /\ r.head = <<>>
        /\ r.type = reader.type /\ r.skip = reader.skip
        /\ r.eorStop = reader.eorStop /\ r.avail = reader.avail
        /\ r.contentLen = reader.contentLen /\ r.error = reader.error
        /\ r.paddingLen = reader.paddingLen
    BY <1>1, <1>2 DEF Readers
  <2>2. reader' = SetError(r, error)
    BY <1>3 DEF Headless
  <2> HIDE DEF r
  <2>3. reader' = [r EXCEPT !.error = IF r.error = "none" THEN error ELSE r.error,
                           !.isClosed = TRUE]
    BY <2>2 DEF SetError
  <2> QED BY <1>3, <2>1, <2>3 DEF Readers
<1>4. CASE nest # "none"
  <2>1. reader' = [reader EXCEPT !.error = IF reader.error = "none" THEN error ELSE reader.error,
                           !.isClosed = TRUE]
    BY <1>4 DEF SetError, Headless
  <2> QED BY <1>1, <1>4, <2>1 DEF Readers
<1> QED BY <1>3, <1>4

\* read(2) fails or finds the end.
LEMMA TypesReadFails ==
    ASSUME IInv, ReadFails \/ ReadInterrupted
    PROVE  IInv'
<1> USE DEF server, clients
<1>1. StateFacts
  BY StateProps DEF IInv
<1>2. /\ pc = "top" /\ Return
      /\ UNCHANGED <<server, served, replies, buffStop, rdNext, request, call, nest,
                     params, delivered>>
      /\ excused' \subseteq excused \cup {"signal"}
  BY DEF ReadFails, ReadInterrupted
<1>3. PICK error \in {"protocol", "os"} : reader' = SetError(Headless(reader), error)
  BY DEF ReadFails, ReadInterrupted
<1>4. /\ reader' \in Readers(script)
      /\ reader'.head = IF nest = "none" THEN <<>> ELSE reader.head
      /\ reader'.isClosed
      /\ reader'.type = reader.type /\ reader'.skip = reader.skip
      /\ reader'.eorStop = reader.eorStop /\ reader'.avail = reader.avail
      /\ reader'.contentLen = reader.contentLen
      /\ reader'.paddingLen = reader.paddingLen
  BY <1>3, HeadlessProps DEF IInv
<1>5. Positions'
  BY <1>1, <1>2, <1>4 DEF StateFacts, Positions
<1>6. pc' \in {"nested", "begin", "params", "app"}
  BY <1>2 DEF Return, IInv, Types
<1>7. Len(reader'.head) <= HeaderLen
  BY <1>1, <1>4 DEF StateFacts
<1>8. Types'
  BY <1>2, <1>4, <1>5, <1>6, <1>7 DEF Types, IInv
<1>9. Phases'
  BY <1>2, <1>6 DEF Phases, Return, Filling
<1>10. Callers'
  BY <1>2, <1>4 DEF Callers, Return, IInv, Phases, Filling
<1>11. Heads'
  <2>1. nest' = nest /\ nest \in {"none", "body", "values"} /\ Heads
    BY <1>2 DEF IInv, Types
  <2>2. CASE nest = "none"
    <3>1. reader'.head = <<>> /\ Len(reader'.head) < HeaderLen /\ ~reader'.eorStop
      BY <1>2, <1>4, <2>1, <2>2 DEF Heads, HeaderLen
    <3>2. pc' \in {"begin", "params", "app"}
      BY <1>2, <2>2 DEF Return, IInv, Types
    <3> QED BY <2>1, <2>2, <3>1, <3>2 DEF Heads
  <2>3. CASE nest # "none"
    <3>1. reader'.head = reader.head /\ reader'.eorStop /\ IsHeader(reader.head)
      BY <1>4, <2>1, <2>3 DEF Heads
    <3>2. pc' = "nested"
      BY <1>2, <2>3 DEF Return
    <3>3. IsHeader(reader.head)'
      BY <3>1 DEF IsHeader
    <3> QED BY <2>1, <2>3, <3>1, <3>2, <3>3 DEF Heads
  <2> QED BY <2>2, <2>3
<1>12. HeadIsRead'
  BY <1>2, <1>4 DEF HeadIsRead
<1> QED BY <1>8, <1>9, <1>10, <1>11, <1>12 DEF IInv

\* The server hangs up.
LEMMA TypesHangUp ==
    ASSUME IInv, HangUp
    PROVE  IInv'
<1> USE DEF server, clients
<1>1. StateFacts
  BY StateProps DEF IInv
<1>2. Come \in Int /\ Come <= Len(wire)
  BY ComeProps DEF IInv
<1>3. UNCHANGED <<script, wire, served, replies, buffStop, rdNext, reader,
                   request, pc, call, nest, clients>>
  BY DEF HangUp
<1>4. last' \in buffStop .. Come
  BY DEF HangUp
<1>5. Positions'
  BY <1>1, <1>2, <1>3, <1>4 DEF StateFacts, Positions
<1>6. Types'
  BY <1>3, <1>5 DEF Types, IInv
<1>7. Phases' /\ Callers' /\ Heads' /\ HeadIsRead'
  BY <1>3 DEF Phases, Callers, Heads, HeadIsRead, IInv, IsHeader
<1> QED BY <1>6, <1>7 DEF IInv

\* FillBuffProc delivers content.
LEMMA TypesDeliverContent ==
    ASSUME IInv, DeliverContent
    PROVE  IInv'
<1> USE DEF server, clients
<1>1. StateFacts
  BY StateProps DEF IInv
<1>2. reader \in Readers(script) /\ reader.avail = 0 /\ reader.contentLen > 0
  BY DEF IInv, Types, DeliverContent, Phases, Filling
<1> DEFINE count == Least(reader.contentLen, Buffered)
<1>3. /\ count \in Nat /\ count <= Buffered /\ count <= reader.contentLen
      /\ reader.contentLen - count \in Nat
  BY <1>1, SMTT(30) DEF Least, StateFacts, Buffered
<1>4. reader' = [reader EXCEPT !.contentLen = reader.contentLen - count, !.avail = count]
  BY DEF DeliverContent
<1> HIDE DEF count
<1>5. /\ reader' \in Readers(script) /\ reader'.avail = count
      /\ reader'.head = reader.head
      /\ reader'.type = reader.type /\ reader'.eorStop = reader.eorStop
  BY <1>2, <1>3, <1>4 DEF Readers
<1>6. /\ pc = "content" /\ Return
      /\ UNCHANGED <<server, served, replies, buffStop, rdNext, request, call, nest, clients>>
  BY DEF DeliverContent
<1>7. Positions'
  BY <1>1, <1>3, <1>5, <1>6 DEF StateFacts, Positions, Buffered
<1>8. pc' \in {"nested", "begin", "params", "app"}
  BY <1>6 DEF Return, IInv, Types
<1>9. Types'
  BY <1>5, <1>6, <1>7, <1>8 DEF Types, IInv
<1>10. Phases'
  BY <1>6, <1>8 DEF Phases, Return, Filling
<1>11. Callers'
  BY <1>5, <1>6 DEF Callers, Return, IInv, Phases, Filling
<1>12. Heads'
  <2>1. nest' = nest /\ nest \in {"none", "body", "values"} /\ Heads
    BY <1>6 DEF IInv, Types
  <2>2. CASE nest = "none"
    <3>1. reader.head = <<>> /\ ~reader.eorStop
      BY <1>2, <1>6, <2>1, <2>2 DEF Heads
    <3>2. reader'.head = <<>> /\ Len(reader'.head) < HeaderLen /\ ~reader'.eorStop
      BY <1>5, <3>1 DEF HeaderLen
    <3>3. pc' \in {"begin", "params", "app"}
      BY <1>6, <2>2 DEF Return, IInv, Types
    <3> QED BY <2>1, <2>2, <3>2, <3>3 DEF Heads
  <2>3. CASE nest # "none"
    <3>1. reader'.head = reader.head /\ reader'.eorStop /\ IsHeader(reader.head)
      BY <1>5, <2>1, <2>3 DEF Heads
    <3>2. pc' = "nested"
      BY <1>6, <2>3 DEF Return
    <3>3. IsHeader(reader.head)'
      BY <3>1 DEF IsHeader
    <3> QED BY <2>1, <2>3, <3>1, <3>2, <3>3 DEF Heads
  <2> QED BY <2>2, <2>3
<1>13. HeadIsRead'
  BY <1>2, <1>5, <1>6 DEF HeadIsRead, IInv, Heads
<1> QED BY <1>9, <1>10, <1>11, <1>12, <1>13 DEF IInv

\* What is consumed was in the buffer.
LEMMA Advance ==
    ASSUME StateFacts, NEW count \in Nat, count <= Buffered, rdNext' = rdNext + count
    PROVE  rdNext' \in Nat /\ rdNext' <= buffStop
BY DEF StateFacts, Buffered

\* Skipping, of content or of padding: count cells are consumed.
LEMMA TypesSkips ==
    ASSUME IInv, NEW count \in Nat, count <= Buffered,
           NEW left \in Nat, NEW other \in Nat, NEW skip \in BOOLEAN,
           \/ pc = "content" /\ reader.contentLen = left + count /\ reader.paddingLen = other
              /\ reader' = [reader EXCEPT !.contentLen = left, !.skip = skip]
              /\ pc' = IF left > 0 THEN "top" ELSE "padding"
           \/ pc = "padding" /\ reader.paddingLen = left + count /\ reader.contentLen = other
              /\ reader' = [reader EXCEPT !.paddingLen = left]
              /\ pc' = IF left > 0 THEN "top" ELSE "header",
           rdNext' = rdNext + count,
           UNCHANGED <<server, served, replies, buffStop, request, call, nest, clients>>
    PROVE  IInv'
<1> USE DEF server, clients
<1>1. StateFacts
  BY StateProps DEF IInv
<1>2. /\ reader \in Readers(script) /\ reader.avail = 0 /\ ~reader.isClosed
      /\ pc = "padding" => reader.contentLen = 0
  BY DEF IInv, Types, Phases, Filling
<1>3. /\ reader' \in Readers(script)
      /\ reader'.head = reader.head /\ reader'.avail = 0 /\ ~reader'.isClosed
      /\ reader'.type = reader.type /\ reader'.eorStop = reader.eorStop
      /\ reader'.error = reader.error
      /\ pc = "content" => reader'.contentLen = left /\ reader'.paddingLen = reader.paddingLen
      /\ pc = "padding" => reader'.contentLen = 0 /\ reader'.paddingLen = left
  BY <1>2 DEF Readers
<1>4. rdNext' \in Nat /\ rdNext' <= buffStop
  BY <1>1, Advance
<1>5. Positions'
  BY <1>1, <1>3, <1>4 DEF StateFacts, Positions
<1>6. pc' \in {"top", "padding", "header"}
  OBVIOUS
<1>7. Types'
  BY <1>3, <1>5, <1>6 DEF Types, IInv
<1>8. Phases'
  <2>1. pc' \in {"padding", "header", "process"} => reader'.contentLen = 0
    BY <1>3
  <2>2. pc' \in {"header", "process"} => reader'.paddingLen = 0
    BY <1>3
  <2> QED BY <1>3, <1>6, <2>1, <2>2 DEF Phases, Filling
<1>9. Callers'
  BY <1>3, <1>6 DEF Callers, IInv
<1>10. nest' = nest /\ nest \in {"none", "body", "values"} /\ Heads /\ HeadIsRead
  BY DEF IInv, Types
<1>11. nest = "none" /\ reader.head # <<>> =>
           reader'.contentLen = 0 /\ reader'.paddingLen = 0 /\ rdNext' = rdNext
  <2>1. CASE nest = "none" /\ reader.head # <<>>
    <3>1. reader.contentLen = 0 /\ reader.paddingLen = 0
      BY <1>10, <2>1 DEF Heads
    <3>2. left = 0 /\ count = 0
      BY <3>1
    <3> QED BY <1>1, <1>3, <3>1, <3>2 DEF StateFacts
  <2> QED BY <2>1
<1>12. IsHeader(reader.head)' <=> IsHeader(reader.head)
  BY <1>3 DEF IsHeader
<1>13. Heads'
  BY <1>3, <1>6, <1>10, <1>11, <1>12 DEF Heads
<1>14. HeadIsRead'
  BY <1>3, <1>10, <1>11 DEF HeadIsRead
<1> QED BY <1>7, <1>8, <1>9, <1>13, <1>14 DEF IInv

\* FillBuffProc skips the content of a foreign record.
LEMMA TypesSkipContent ==
    ASSUME IInv, SkipContent
    PROVE  IInv'
<1>1. StateFacts
  BY StateProps DEF IInv
<1> DEFINE count == Least(reader.contentLen, Buffered)
           left == reader.contentLen - count
           skip == reader.skip /\ (reader.contentLen = 0 \/ left > 0)
<1>2. count \in Nat /\ count <= Buffered /\ left \in Nat /\ reader.contentLen = left + count
  BY <1>1, SMTT(30) DEF Least, StateFacts, Buffered
<1>3. /\ pc = "content" /\ rdNext' = rdNext + count
      /\ reader' = [reader EXCEPT !.contentLen = left, !.skip = skip]
      /\ pc' = IF left > 0 THEN "top" ELSE "padding"
      /\ UNCHANGED <<server, served, replies, buffStop, request, call, nest, clients>>
  BY DEF SkipContent
<1>4. skip \in BOOLEAN /\ reader.paddingLen \in Nat
  BY <1>1 DEF StateFacts
<1> HIDE DEF count, left, skip
<1> QED BY <1>2, <1>3, <1>4, TypesSkips

\* FillBuffProc skips padding.
LEMMA TypesSkipPadding ==
    ASSUME IInv, SkipPadding
    PROVE  IInv'
<1>1. StateFacts
  BY StateProps DEF IInv
<1> DEFINE count == Least(reader.paddingLen, Buffered)
           left == reader.paddingLen - count
<1>2. count \in Nat /\ count <= Buffered /\ left \in Nat /\ reader.paddingLen = left + count
  BY <1>1 DEF Least, StateFacts, Buffered
<1>3. /\ pc = "padding" /\ rdNext' = rdNext + count
      /\ reader' = [reader EXCEPT !.paddingLen = left]
      /\ pc' = IF left > 0 THEN "top" ELSE "header"
      /\ UNCHANGED <<server, served, replies, buffStop, request, call, nest, clients>>
  BY DEF SkipPadding
<1>4. reader.contentLen \in Nat /\ FALSE \in BOOLEAN
  BY <1>1 DEF StateFacts
<1> HIDE DEF count, left
<1> QED BY <1>2, <1>3, <1>4, TypesSkips

\* What is read of a header comes behind what has been read.
LEMMA HeaderReads ==
    ASSUME IInv, ReadHeader
    PROVE  \E count \in Nat :
              /\ count <= Buffered /\ count <= HeaderLen - Len(reader.head)
              /\ count = Buffered \/ count = HeaderLen - Len(reader.head)
              /\ rdNext' = rdNext + count
              /\ reader' \in Readers(script)
              /\ Len(reader'.head) = Len(reader.head) + count
              /\ reader'.head = SubSeq(wire, rdNext - Len(reader.head) + 1, rdNext')
              /\ reader'.avail = 0 /\ ~reader'.isClosed
              /\ reader'.contentLen = 0 /\ reader'.paddingLen = 0
              /\ reader'.type = reader.type /\ reader'.skip = reader.skip
              /\ reader'.error = reader.error
              /\ reader'.eorStop <=> Len(reader'.head) = HeaderLen
              /\ pc' = IF Len(reader'.head) = HeaderLen THEN "process" ELSE "top"
              /\ nest = "none" /\ Len(reader.head) < HeaderLen /\ Len(reader.head) <= rdNext
<1>1. StateFacts
  BY StateProps DEF IInv
<1> DEFINE count == Least(HeaderLen - Len(reader.head), Buffered)
           segment == SubSeq(wire, rdNext + 1, rdNext + count)
           head == reader.head \o segment
           full == Len(head) = HeaderLen
           k == rdNext - Len(reader.head)
<1>2. /\ pc = "header" /\ ~reader.eorStop
      /\ rdNext' = rdNext + count
      /\ reader' = [reader EXCEPT !.head = head, !.avail = 0, !.eorStop = full]
      /\ pc' = IF full THEN "process" ELSE "top"
  BY DEF ReadHeader
<1>3. /\ reader \in Readers(script) /\ reader.avail = 0 /\ ~reader.isClosed
      /\ reader.contentLen = 0 /\ reader.paddingLen = 0
  BY <1>2 DEF IInv, Types, Phases, Filling
<1>4. nest = "none" /\ Len(reader.head) < HeaderLen
  BY <1>2 DEF IInv, Heads
<1>5. /\ count \in Nat /\ count <= Buffered /\ count <= HeaderLen - Len(reader.head)
      /\ count = Buffered \/ count = HeaderLen - Len(reader.head)
      /\ rdNext \in Nat /\ rdNext + count \in Nat /\ rdNext + count <= Len(wire)
  <2>1. /\ Buffered \in Nat /\ rdNext \in Nat /\ buffStop = rdNext + Buffered
        /\ buffStop <= Len(wire) /\ Len(wire) \in Nat
    BY <1>1 DEF StateFacts, Buffered
  <2>2. HeaderLen - Len(reader.head) \in Nat
    BY <1>1, <1>4 DEF StateFacts
  <2>3. /\ count \in Nat /\ count <= Buffered /\ count <= HeaderLen - Len(reader.head)
        /\ count = Buffered \/ count = HeaderLen - Len(reader.head)
    BY <2>1, <2>2 DEF Least
  <2> HIDE DEF count
  <2> QED BY <2>1, <2>3
<1>6. Len(reader.head) <= rdNext /\ reader.head = SubSeq(wire, k + 1, rdNext)
  <2>1. CASE reader.head = <<>>
    <3>1. Len(reader.head) = 0
      BY <2>1
    <3>2. SubSeq(wire, k + 1, rdNext) = <<>>
      <4>1. k + 1 \in Int /\ rdNext \in Int /\ rdNext < k + 1
        BY <1>5, <3>1
      <4> HIDE DEF k
      <4> QED BY <4>1, SubSeqEmpty
    <3> QED BY <1>5, <2>1, <3>1, <3>2
  <2>2. CASE reader.head # <<>>
    BY <1>4, <2>2 DEF IInv, HeadIsRead
  <2> QED BY <2>1, <2>2
<1>7. k \in Nat /\ k <= rdNext
  BY <1>1, <1>5, <1>6 DEF StateFacts
<1>8. /\ segment \in Seq(Cell(script)) /\ Len(segment) = count
  <2>1. rdNext <= rdNext + count /\ (rdNext + count) - rdNext = count
    BY <1>5
  <2> HIDE DEF count
  <2> QED BY <1>1, <1>5, <2>1, SegmentProps
<1>9. reader.head \in Seq(Cell(script))
  BY <1>1 DEF StateFacts
<1>10. head \in Seq(Cell(script)) /\ Len(head) = Len(reader.head) + count
  <2> HIDE DEF segment, count
  <2> QED BY <1>8, <1>9, ConcatProperties
<1>11. head = SubSeq(wire, k + 1, rdNext + count)
  <2>1. head = SubSeq(wire, k + 1, rdNext) \o SubSeq(wire, rdNext + 1, rdNext + count)
    BY <1>6
  <2>2. rdNext <= rdNext + count
    BY <1>5
  <2> HIDE DEF count, k, head
  <2> QED BY <1>1, <1>5, <1>7, <2>1, <2>2, SegmentJoin
<1>12. full \in BOOLEAN
  OBVIOUS
<1>13. head = SubSeq(wire, rdNext - Len(reader.head) + 1, rdNext')
  BY <1>2, <1>11
<1> HIDE DEF full, head, segment, k
<1>14. /\ reader' \in Readers(script) /\ reader'.head = head
       /\ reader'.avail = 0 /\ ~reader'.isClosed
       /\ reader'.contentLen = 0 /\ reader'.paddingLen = 0
       /\ reader'.type = reader.type /\ reader'.skip = reader.skip
       /\ reader'.error = reader.error /\ reader'.eorStop = full
  BY <1>2, <1>3, <1>10, <1>12 DEF Readers
<1>15. full <=> Len(reader'.head) = HeaderLen
  BY <1>14 DEF full
<1> HIDE DEF count
<1> QED BY <1>2, <1>4, <1>5, <1>6, <1>10, <1>13, <1>14, <1>15

\* FillBuffProc completes a header.
LEMMA TypesReadHeader ==
    ASSUME IInv, ReadHeader
    PROVE  IInv'
<1> USE DEF server, clients
<1>1. StateFacts
  BY StateProps DEF IInv
<1>2. PICK count \in Nat :
              /\ count <= Buffered /\ count <= HeaderLen - Len(reader.head)
              /\ rdNext' = rdNext + count
              /\ reader' \in Readers(script)
              /\ Len(reader'.head) = Len(reader.head) + count
              /\ reader'.head = SubSeq(wire, rdNext - Len(reader.head) + 1, rdNext')
              /\ reader'.avail = 0 /\ ~reader'.isClosed
              /\ reader'.contentLen = 0 /\ reader'.paddingLen = 0
              /\ reader'.type = reader.type /\ reader'.skip = reader.skip
              /\ reader'.error = reader.error
              /\ reader'.eorStop <=> Len(reader'.head) = HeaderLen
              /\ pc' = IF Len(reader'.head) = HeaderLen THEN "process" ELSE "top"
              /\ nest = "none" /\ Len(reader.head) < HeaderLen /\ Len(reader.head) <= rdNext
  BY HeaderReads
<1>3. /\ pc = "header"
      /\ UNCHANGED <<server, served, replies, buffStop, request, call, nest, clients>>
  BY DEF ReadHeader
<1>4. /\ rdNext' \in Nat /\ rdNext' <= buffStop
      /\ Len(reader'.head) \in Nat /\ Len(reader'.head) <= HeaderLen
      /\ Len(reader'.head) <= rdNext'
      /\ rdNext' - Len(reader'.head) = rdNext - Len(reader.head)
  BY <1>1, <1>2 DEF StateFacts, Buffered
<1>5. Positions'
  BY <1>1, <1>2, <1>3, <1>4 DEF StateFacts, Positions
<1>6. pc' \in {"top", "process"}
  BY <1>2
<1>7. Types'
  BY <1>2, <1>3, <1>4, <1>5, <1>6 DEF Types, IInv
<1>8. Phases'
  BY <1>2, <1>6 DEF Phases, Filling
<1>9. Callers'
  BY <1>2, <1>3, <1>6 DEF Callers, IInv
<1>10. Heads'
  <2>1. pc' # "process" => Len(reader'.head) < HeaderLen
    BY <1>2, <1>4 DEF HeaderLen
  <2> QED BY <1>2, <1>3, <1>6, <2>1 DEF Heads
<1>11. HeadIsRead'
  BY <1>2, <1>3, <1>4 DEF HeadIsRead
<1> QED BY <1>7, <1>8, <1>9, <1>10, <1>11 DEF IInv

\* After the switch the call is outside of records, or back at its caller.
LEMMA TypesSwitch ==
    ASSUME IInv, pc \in {"process", "nested"},
           NEW r \in Readers(script), r.avail = 0, r.type = reader.type,
           NEW status \in {"STREAM", "SKIP", "MGMT", "BEGIN", "protocol", "version", "os"},
           Switch(r, status),
           UNCHANGED <<server, served, buffStop, rdNext, call, clients>>,
           nest' = "none",
           replies' \in Seq([type : {"cantMpx", "unknownType", "result"}, rec : DOMAIN script]),
           request' \in [id : Nat, role : {"none", "responder", "filter", "bad"},
                         keep : BOOLEAN, begun : BOOLEAN],
           request'.begun <=> request.begun \/ status = "BEGIN"
    PROVE  IInv'
<1> USE DEF server, clients
<1>1. StateFacts
  BY StateProps DEF IInv
<1>2. /\ reader' \in Readers(script)
      /\ reader'.head = <<>> /\ ~reader'.eorStop /\ reader'.avail = 0
      /\ reader'.type = reader.type
      /\ \/ pc' = "top" /\ ~reader'.isClosed
            /\ status \in {"STREAM", "SKIP", "MGMT"}
         \/ pc' = call.client
  BY SwitchProps
<1>3. call.client \in {"begin", "params", "app"}
  BY DEF IInv, Types
<1>4. pc' \in {"top", "begin", "params", "app"}
  BY <1>2, <1>3
<1>5. Positions'
  BY <1>1, <1>2 DEF StateFacts, Positions
<1>6. Len(reader'.head) < HeaderLen /\ Len(reader'.head) <= HeaderLen
  BY <1>2 DEF HeaderLen
<1>7. Types'
  <2>1. UNCHANGED <<script, wire, call, params, delivered, excused>>
    OBVIOUS
  <2>2. pc' \in {"top", "content", "padding", "header", "process", "nested",
                  "begin", "params", "app"}
    BY <1>4
  <2>3. Types
    BY DEF IInv
  <2> QED BY <1>2, <1>5, <1>6, <2>1, <2>2, <2>3 DEF Types
<1>8. Phases'
  BY <1>2, <1>3, <1>4 DEF Phases, Filling
<1>9. Callers'
  <2>1. request.begun => call.client # "begin"
    BY DEF IInv, Callers
  <2> QED BY <1>2, <1>3, <2>1 DEF Callers, IInv
<1>10. Heads'
  BY <1>2, <1>4, <1>6 DEF Heads
<1>11. HeadIsRead'
  BY <1>2 DEF HeadIsRead
<1> QED BY <1>7, <1>8, <1>9, <1>10, <1>11 DEF IInv

\* A reply is recorded, or its server is gone.
LEMMA ReplyProps ==
    ASSUME Types, Len(reader.head) = HeaderLen,
           NEW type \in {"cantMpx", "unknownType", "result"},
           NEW r, r.head = reader.head, NEW status, Reply(type, r, status)
    PROVE  /\ Switch(r, status) \/ Switch(r, "os")
           /\ replies' \in Seq([type : {"cantMpx", "unknownType", "result"},
                                rec : DOMAIN script])
<1> DEFINE S == [type : {"cantMpx", "unknownType", "result"}, rec : DOMAIN script]
           e == [type |-> type, rec |-> r.head[1].rec]
<1>1. replies \in Seq(S)
  BY DEF Types
<1>2. e \in S
  BY HeaderProps
<1>3. \/ Switch(r, status) /\ replies' = Append(replies, e)
      \/ Switch(r, "os") /\ replies' = replies
  BY DEF Reply
<1> HIDE DEF S, e
<1>4. Append(replies, e) \in Seq(S)
  BY <1>1, <1>2, AppendProperties
<1>5. replies' \in Seq(S) /\ (Switch(r, status) \/ Switch(r, "os"))
  BY <1>1, <1>3, <1>4
<1> QED BY <1>5 DEF S

\* The reader with the lengths of its header.
LEMMA WithLengthsProps ==
    ASSUME IInv, pc = "process"
    PROVE  /\ WithLengths \in Readers(script)
           /\ WithLengths.contentLen = Header.len /\ WithLengths.paddingLen = Header.pad
           /\ WithLengths.head = reader.head /\ WithLengths.avail = 0
           /\ WithLengths.type = reader.type /\ WithLengths.isClosed = reader.isClosed
           /\ WithLengths.eorStop = reader.eorStop /\ WithLengths.skip = reader.skip
           /\ WithLengths.error = reader.error
           /\ reader.avail = 0 /\ ~reader.isClosed /\ nest = "none"
           /\ Len(reader.head) = HeaderLen
           /\ Header \in Record
<1>1. Len(reader.head) = HeaderLen /\ nest = "none"
  BY DEF IInv, Heads
<1>2. Header.len \in Nat /\ Header.pad \in Nat /\ Header \in Record
  BY <1>1, HeaderProps DEF IInv
<1>3. reader \in Readers(script) /\ reader.avail = 0 /\ ~reader.isClosed
  BY DEF IInv, Types, Phases, Filling
<1>4. /\ WithLengths \in Readers(script)
      /\ WithLengths.contentLen = Header.len /\ WithLengths.paddingLen = Header.pad
      /\ WithLengths.head = reader.head /\ WithLengths.avail = reader.avail
      /\ WithLengths.type = reader.type /\ WithLengths.isClosed = reader.isClosed
      /\ WithLengths.eorStop = reader.eorStop /\ WithLengths.skip = reader.skip
      /\ WithLengths.error = reader.error
  BY <1>2, <1>3 DEF WithLengths, Readers
<1> QED BY <1>1, <1>2, <1>3, <1>4

\* ProcessHeader rejects what is not a header.
LEMMA TypesUnsupportedVersion ==
    ASSUME IInv, UnsupportedVersion
    PROVE  IInv'
<1> USE DEF server, clients
<1>1. /\ pc = "process" /\ Switch(reader, "version")
      /\ UNCHANGED <<server, served, replies, buffStop, rdNext, request, call, nest, clients>>
  BY DEF UnsupportedVersion
<1>2. /\ reader \in Readers(script) /\ reader.avail = 0 /\ nest' = "none"
      /\ replies' \in Seq([type : {"cantMpx", "unknownType", "result"}, rec : DOMAIN script])
      /\ request' \in [id : Nat, role : {"none", "responder", "filter", "bad"},
                         keep : BOOLEAN, begun : BOOLEAN]
  BY <1>1 DEF IInv, Types, Phases, Filling, Heads
<1> QED BY <1>1, <1>2, TypesSwitch

\* ProcessHeader: a record of a stream.
LEMMA TypesStreamRecord ==
    ASSUME IInv, StreamRecord
    PROVE  IInv'
<1> USE DEF server, clients
<1>1. /\ pc = "process"
      /\ UNCHANGED <<server, served, replies, buffStop, rdNext, request, call, nest, clients>>
  BY DEF StreamRecord, Processing
<1>2. PICK status \in {"SKIP", "protocol", "STREAM"} : Switch(WithLengths, status)
  BY DEF StreamRecord
<1>3. /\ nest' = "none"
      /\ replies' \in Seq([type : {"cantMpx", "unknownType", "result"}, rec : DOMAIN script])
      /\ request' \in [id : Nat, role : {"none", "responder", "filter", "bad"},
                         keep : BOOLEAN, begun : BOOLEAN]
  BY <1>1 DEF IInv, Types, Heads
<1>4. WithLengths \in Readers(script) /\ WithLengths.avail = 0 /\ WithLengths.type = reader.type
  BY <1>1, WithLengthsProps
<1>5. request'.begun <=> request.begun \/ status = "BEGIN"
  BY <1>1, <1>2
<1> QED BY <1>1, <1>2, <1>3, <1>4, <1>5, TypesSwitch

\* A management record, or a second begin record, that is answered.
LEMMA TypesReply ==
    ASSUME IInv, pc = "process",
           NEW type \in {"cantMpx", "unknownType", "result"},
           NEW status \in {"SKIP", "MGMT"},
           Reply(type, WithLengths, status),
           UNCHANGED <<server, served, buffStop, rdNext, request, call, nest, clients>>
    PROVE  IInv'
<1> USE DEF server, clients
<1>1. /\ WithLengths \in Readers(script) /\ WithLengths.avail = 0
      /\ WithLengths.type = reader.type /\ WithLengths.head = reader.head
      /\ Len(reader.head) = HeaderLen /\ nest = "none"
  BY WithLengthsProps
<1>2. /\ Switch(WithLengths, status) \/ Switch(WithLengths, "os")
      /\ replies' \in Seq([type : {"cantMpx", "unknownType", "result"}, rec : DOMAIN script])
  BY <1>1, ReplyProps DEF IInv
<1>3. PICK s \in {"SKIP", "MGMT", "os"} : Switch(WithLengths, s)
  BY <1>2
<1>4. request' \in [id : Nat, role : {"none", "responder", "filter", "bad"},
                         keep : BOOLEAN, begun : BOOLEAN]
  BY DEF IInv, Types
<1>5. request'.begun <=> request.begun \/ s = "BEGIN"
  BY <1>3
<1> QED BY <1>1, <1>2, <1>3, <1>4, <1>5, TypesSwitch

\* ProcessHeader: a second BEGIN_REQUEST.
LEMMA TypesBeginRefused ==
    ASSUME IInv, BeginRefused
    PROVE  IInv'
<1> USE DEF server, clients
<1>1. /\ pc = "process"
      /\ UNCHANGED <<server, served, buffStop, rdNext, request, call, nest, clients>>
      /\ \/ Switch(WithLengths, "protocol") /\ UNCHANGED replies
         \/ Reply("cantMpx", WithLengths, "SKIP")
  BY DEF BeginRefused, Processing
<1>2. CASE Switch(WithLengths, "protocol") /\ UNCHANGED replies
  <2>1. /\ nest' = "none"
        /\ replies' \in Seq([type : {"cantMpx", "unknownType", "result"}, rec : DOMAIN script])
        /\ request' \in [id : Nat, role : {"none", "responder", "filter", "bad"},
                         keep : BOOLEAN, begun : BOOLEAN]
    BY <1>1, <1>2 DEF IInv, Types, Heads
  <2>2. WithLengths \in Readers(script) /\ WithLengths.avail = 0 /\ WithLengths.type = reader.type
    BY <1>1, WithLengthsProps
  <2>3. request'.begun <=> request.begun \/ "protocol" = "BEGIN"
    BY <1>1
  <2> QED BY <1>1, <1>2, <2>1, <2>2, <2>3, TypesSwitch
<1>3. CASE Reply("cantMpx", WithLengths, "SKIP")
  BY <1>1, <1>3, TypesReply
<1> QED BY <1>1, <1>2, <1>3

\* ProcessManagementRecord: an unknown type.
LEMMA TypesUnknownManagement ==
    ASSUME IInv, UnknownManagement
    PROVE  IInv'
<1> USE DEF server, clients
<1>1. /\ pc = "process" /\ Reply("unknownType", WithLengths, "MGMT")
      /\ UNCHANGED <<server, served, buffStop, rdNext, request, call, nest, clients>>
  BY DEF UnknownManagement, Processing
<1> QED BY <1>1, TypesReply

\* ProcessBeginRecord and FCGI_GET_VALUES start a nested reader.
LEMMA TypesNest ==
    ASSUME IInv, Nest
    PROVE  IInv'
<1> USE DEF server, clients
<1>1. /\ pc = "process" /\ pc' = "nested" /\ reader' = WithLengths /\ IsHeader(reader.head)
      /\ UNCHANGED <<server, served, replies, buffStop, rdNext, call, clients>>
      /\ \/ nest' = "body" /\ ~request.begun /\ request' = [request EXCEPT !.id = Header.id]
         \/ nest' = "values" /\ request' = request
  BY DEF Nest, Processing
<1>2. StateFacts
  BY StateProps DEF IInv
<1>3. /\ reader' \in Readers(script) /\ reader'.avail = 0
      /\ reader'.type = reader.type /\ reader'.head = reader.head
      /\ reader'.eorStop = reader.eorStop
      /\ Len(reader.head) = HeaderLen
      /\ Header \in Record
  BY <1>1, WithLengthsProps
<1>4. request \in [id : Nat, role : {"none", "responder", "filter", "bad"},
                         keep : BOOLEAN, begun : BOOLEAN]
  BY DEF IInv, Types
<1>5. /\ request' \in [id : Nat, role : {"none", "responder", "filter", "bad"},
                         keep : BOOLEAN, begun : BOOLEAN]
      /\ request'.begun <=> request.begun
  BY <1>1, <1>3, <1>4 DEF Record
<1>6. Positions'
  BY <1>1, <1>2, <1>3 DEF StateFacts, Positions
<1>7. Types'
  BY <1>1, <1>2, <1>3, <1>5, <1>6 DEF Types, IInv, StateFacts
<1>8. Phases'
  BY <1>1 DEF Phases, Filling
<1>9. Callers'
  BY <1>1, <1>3, <1>5 DEF Callers, IInv
<1>10. reader'.eorStop /\ IsHeader(reader.head)'
  <2>1. IsHeader(reader.head)'
    BY <1>1, <1>3 DEF IsHeader
  <2> QED BY <1>1, <1>3, <2>1 DEF IInv, Heads
<1>11. Heads'
  BY <1>1, <1>10 DEF Heads
<1>12. HeadIsRead'
  BY <1>1 DEF HeadIsRead
<1> QED BY <1>7, <1>8, <1>9, <1>11, <1>12 DEF IInv

\* ProcessBeginRecord has read its body.
LEMMA TypesBeginReads ==
    ASSUME IInv, BeginReads
    PROVE  IInv'
<1> USE DEF server, clients
<1>1. /\ pc = "nested" /\ nest = "body" /\ reader.avail = 0 /\ nest' = "none"
      /\ UNCHANGED <<server, served, replies, buffStop, rdNext, call, clients>>
      /\ \/ Switch(reader, "protocol") /\ request' = request
         \/ /\ Switch(reader, "BEGIN")
            /\ request' = [request EXCEPT !.role = Header.role, !.begun = TRUE,
                                       !.keep = Header.keep]
  BY DEF BeginReads
<1>2. /\ reader \in Readers(script) /\ ~request.begun
      /\ replies' \in Seq([type : {"cantMpx", "unknownType", "result"}, rec : DOMAIN script])
      /\ request \in [id : Nat, role : {"none", "responder", "filter", "bad"},
                         keep : BOOLEAN, begun : BOOLEAN]
  BY <1>1 DEF IInv, Types, Callers
<1>3. Len(reader.head) = HeaderLen
  BY <1>1 DEF IInv, Heads, IsHeader, HeaderLen
<1>4. Header.role \in {"none", "responder", "filter", "bad"} /\ Header.keep \in BOOLEAN
  BY <1>3, HeaderProps DEF IInv
<1>5. CASE Switch(reader, "protocol") /\ request' = request
  <2>1. request'.begun <=> request.begun \/ "protocol" = "BEGIN"
    BY <1>5
  <2> QED BY <1>1, <1>2, <1>5, <2>1, TypesSwitch
<1>6. CASE /\ Switch(reader, "BEGIN")
           /\ request' = [request EXCEPT !.role = Header.role, !.begun = TRUE,
                                       !.keep = Header.keep]
  <2>1. /\ request' \in [id : Nat, role : {"none", "responder", "filter", "bad"},
                         keep : BOOLEAN, begun : BOOLEAN]
        /\ request'.begun
    BY <1>2, <1>4, <1>6
  <2> QED BY <1>1, <1>2, <1>6, <2>1, TypesSwitch
<1> QED BY <1>1, <1>5, <1>6

\* ProcessManagementRecord has read its pairs.
LEMMA TypesValuesRead ==
    ASSUME IInv, ValuesRead
    PROVE  IInv'
<1> USE DEF server, clients
<1>1. /\ pc = "nested" /\ nest = "values" /\ reader.avail = 0 /\ nest' = "none"
      /\ UNCHANGED <<server, served, buffStop, rdNext, request, call, clients>>
      /\ \/ Switch(reader, "protocol") /\ replies' = replies
         \/ Reply("result", reader, "MGMT")
  BY DEF ValuesRead
<1>2. /\ reader \in Readers(script)
      /\ replies \in Seq([type : {"cantMpx", "unknownType", "result"}, rec : DOMAIN script])
      /\ request' \in [id : Nat, role : {"none", "responder", "filter", "bad"},
                         keep : BOOLEAN, begun : BOOLEAN]
  BY <1>1 DEF IInv, Types
<1>3. Len(reader.head) = HeaderLen
  BY <1>1 DEF IInv, Heads, IsHeader, HeaderLen
<1>4. /\ replies' \in Seq([type : {"cantMpx", "unknownType", "result"}, rec : DOMAIN script])
      /\ \E s \in {"protocol", "MGMT", "os"} : Switch(reader, s)
  <2>1. CASE Switch(reader, "protocol") /\ replies' = replies
    BY <1>2, <2>1
  <2>2. CASE Reply("result", reader, "MGMT")
    <3>1. /\ Switch(reader, "MGMT") \/ Switch(reader, "os")
          /\ replies' \in Seq([type : {"cantMpx", "unknownType", "result"}, rec : DOMAIN script])
      BY <1>3, <2>2, ReplyProps DEF IInv
    <3> QED BY <3>1
  <2> QED BY <1>1, <2>1, <2>2
<1>5. PICK s \in {"protocol", "MGMT", "os"} : Switch(reader, s)
  BY <1>4
<1>6. request'.begun <=> request.begun \/ s = "BEGIN"
  BY <1>1, <1>5
<1> QED BY <1>1, <1>2, <1>4, <1>5, <1>6, TypesSwitch

\* A caller takes count of the cells that are available.
LEMMA TypesTakes ==
    ASSUME IInv, pc \in {"params", "app"}, NEW count \in Nat, count <= reader.avail,
           reader.avail > 0,
           NEW left \in Nat, left = reader.avail - count,
           rdNext' = rdNext + count, reader' = [reader EXCEPT !.avail = left],
           params' \in Seq(Cell(script)),
           delivered' \in [{"stdin", "data"} -> Seq(Cell(script))],
           call' \in [client : {"begin", "params", "app"}, want : Nat],
           call'.client = call.client,
           pc = "params" => delivered' = delivered,
           UNCHANGED <<server, served, replies, buffStop, request, pc, nest, excused>>
    PROVE  IInv'
<1> USE DEF server
<1>1. StateFacts
  BY StateProps DEF IInv
<1>2. reader \in Readers(script) /\ reader.head = <<>> /\ nest = "none" /\ ~reader.eorStop
  BY DEF IInv, Types, Heads
<1>3. /\ reader' \in Readers(script) /\ reader'.avail = left
      /\ reader'.head = <<>> /\ ~reader'.eorStop /\ reader'.type = reader.type
  BY <1>2 DEF Readers
<1>4. rdNext' \in Nat /\ rdNext' + left <= buffStop
  <2>1. /\ rdNext \in Nat /\ reader.avail \in Nat /\ buffStop \in Nat
        /\ rdNext + reader.avail <= buffStop
    BY <1>1 DEF StateFacts
  <2> QED BY <2>1
<1>5. Positions'
  BY <1>1, <1>3, <1>4 DEF StateFacts, Positions
<1>6. Len(reader'.head) < HeaderLen /\ Len(reader'.head) <= HeaderLen
  BY <1>3 DEF HeaderLen
<1>7. Types'
  BY <1>3, <1>5, <1>6 DEF Types, IInv
<1>8. Phases'
  BY DEF Phases, Filling, IInv
<1>9. call.client = pc
  BY DEF IInv, Phases
<1>10. Callers'
  BY <1>3, <1>9 DEF Callers, IInv
<1>11. Heads'
  BY <1>2, <1>3, <1>6 DEF Heads
<1>12. HeadIsRead'
  BY <1>3 DEF HeadIsRead
<1> QED BY <1>7, <1>8, <1>10, <1>11, <1>12 DEF IInv

\* ReadParams takes what is in the buffer.
LEMMA TypesReadParamsTakes ==
    ASSUME IInv, ReadParamsTakes
    PROVE  IInv'
<1> USE DEF server
<1> DEFINE segment == SubSeq(wire, rdNext + 1, rdNext + reader.avail)
<1>1. StateFacts
  BY StateProps DEF IInv
<1>2. /\ pc = "params" /\ reader.avail > 0
      /\ params' = params \o segment
      /\ rdNext' = rdNext + reader.avail /\ reader' = [reader EXCEPT !.avail = 0]
      /\ UNCHANGED <<server, served, replies, buffStop, request, pc, call, nest,
                     delivered, excused>>
  BY DEF ReadParamsTakes
<1>3. /\ rdNext \in Nat /\ rdNext + reader.avail \in Nat /\ rdNext <= rdNext + reader.avail
      /\ rdNext + reader.avail <= Len(wire) /\ reader.avail \in Nat
      /\ 0 = reader.avail - reader.avail /\ reader.avail <= reader.avail
  BY <1>1, SMTT(30) DEF StateFacts
<1>4. segment \in Seq(Cell(script))
  BY <1>1, <1>3, SegmentProps
<1>5. params \in Seq(Cell(script))
  BY DEF IInv, Types
<1>6. params' \in Seq(Cell(script))
  <2> HIDE DEF segment
  <2> QED BY <1>2, <1>4, <1>5, ConcatProperties
<1>7. /\ delivered' \in [{"stdin", "data"} -> Seq(Cell(script))]
      /\ call' \in [client : {"begin", "params", "app"}, want : Nat]
  BY <1>2 DEF IInv, Types
<1> DEFINE count == reader.avail
           left == 0
<1>8. /\ count \in Nat /\ count <= reader.avail /\ left \in Nat /\ left = reader.avail - count
      /\ rdNext' = rdNext + count /\ reader' = [reader EXCEPT !.avail = left]
  BY <1>2, <1>3
<1>9. pc \in {"params", "app"} /\ reader.avail > 0 /\ call'.client = call.client
  BY <1>2
<1> HIDE DEF segment, count, left
<1> QED BY <1>2, <1>6, <1>7, <1>8, <1>9, TypesTakes

\* FCGX_GetStr takes what is in the buffer.
LEMMA TypesGetStrTakes ==
    ASSUME IInv, GetStrTakes
    PROVE  IInv'
<1> USE DEF server
<1> DEFINE m == Least(call.want, reader.avail)
           segment == SubSeq(wire, rdNext + 1, rdNext + m)
           taken == delivered[reader.type] \o segment
           want == call.want - m
           left == reader.avail - m
<1>1. StateFacts
  BY StateProps DEF IInv
<1>2. /\ pc = "app" /\ call.want > 0 /\ reader.avail > 0
      /\ delivered' = [delivered EXCEPT ![reader.type] = taken]
      /\ rdNext' = rdNext + m /\ reader' = [reader EXCEPT !.avail = left]
      /\ call' = [call EXCEPT !.want = want]
      /\ UNCHANGED <<server, served, replies, buffStop, request, pc, nest, params, excused>>
  BY DEF GetStrTakes
<1>3. call \in [client : {"begin", "params", "app"}, want : Nat] /\ call.client = pc
  BY <1>2 DEF IInv, Types, Phases
<1>4. m \in Nat /\ m <= reader.avail /\ want \in Nat /\ left \in Nat
  BY <1>1, <1>3, SMTT(30) DEF Least, StateFacts
<1>5. reader.type \in {"stdin", "data"}
  BY <1>2, <1>3 DEF IInv, Callers
<1> HIDE DEF m
<1>6. /\ rdNext \in Nat /\ rdNext + m \in Nat /\ rdNext <= rdNext + m
      /\ rdNext + m <= Len(wire)
  BY <1>1, <1>4 DEF StateFacts
<1>7. segment \in Seq(Cell(script))
  BY <1>1, <1>6, SegmentProps
<1>8. delivered \in [{"stdin", "data"} -> Seq(Cell(script))]
  BY DEF IInv, Types
<1>9. taken \in Seq(Cell(script))
  <2>1. delivered[reader.type] \in Seq(Cell(script))
    BY <1>5, <1>8
  <2> HIDE DEF segment
  <2> QED BY <1>7, <2>1, ConcatProperties
<1> HIDE DEF segment, taken
<1>10. delivered' \in [{"stdin", "data"} -> Seq(Cell(script))]
  BY <1>2, <1>5, <1>8, <1>9
<1>11. call' \in [client : {"begin", "params", "app"}, want : Nat] /\ call'.client = call.client
  <2> HIDE DEF want
  <2> QED BY <1>2, <1>3, <1>4
<1>12. params' \in Seq(Cell(script))
  BY <1>2 DEF IInv, Types
<1>13. left = reader.avail - m
  OBVIOUS
<1> HIDE DEF left
<1> QED BY <1>2, <1>4, <1>10, <1>11, <1>12, <1>13, TypesTakes

\* The application calls FCGX_GetStr.
LEMMA TypesGetStr ==
    ASSUME IInv, NEW n \in Chunks, GetStr(n)
    PROVE  IInv'
<1> USE DEF server, clients
<1>1. n \in Nat
  BY ReaderAssumption
<1>2. /\ pc = "app" /\ call' = [call EXCEPT !.want = n]
      /\ UNCHANGED <<server, served, replies, buffStop, rdNext, reader, request,
                     pc, nest, clients>>
  BY DEF GetStr
<1>3. call \in [client : {"begin", "params", "app"}, want : Nat] /\ Types
  BY DEF IInv, Types
<1>4. /\ call' \in [client : {"begin", "params", "app"}, want : Nat]
      /\ call'.client = call.client
  BY <1>1, <1>2, <1>3
<1>5. Positions'
  BY <1>2, <1>3 DEF Types, Positions
<1>6. Types'
  BY <1>2, <1>3, <1>4, <1>5 DEF Types
<1>7. Phases' /\ Callers' /\ Heads' /\ HeadIsRead'
  BY <1>2, <1>4 DEF Phases, Callers, Heads, HeadIsRead, IInv, Filling, IsHeader
<1> QED BY <1>6, <1>7 DEF IInv

------------------------------
(* A new request.                                                          *)

\* Arithmetic for the step below, where the context is too large for it.
LEMMA NoneMore == \A n \in Nat : n + 0 <= n
OBVIOUS

\* A new reader and caller, on a connection of which rdNext cells are past.
LEMMA TypesNewRequest ==
    ASSUME script' \in Scripts, wire' = Cells(script'),
           last' \in Int, 0 <= last', last' <= Len(wire') + 1,
           served' \in Nat, buffStop' \in Nat, buffStop' <= Len(wire'), rdNext' = buffStop',
           reader' = NewReader, pc' = "top",
           call' = [client |-> "begin", want |-> 0],
           params' = <<>>, delivered' = Nothing,
           replies' \in Seq([type : {"cantMpx", "unknownType", "result"}, rec : DOMAIN script'])
               \/ replies' = <<>>,
           request' \in [id : Nat, role : {"none", "responder", "filter", "bad"},
                         keep : BOOLEAN, begun : BOOLEAN],
           ~request'.begun, nest' = "none", excused' \subseteq {"unread", "signal"}
    PROVE  IInv'
<1>1. NewReader \in Readers(script') /\ NewReader.head = <<>> /\ NewReader.avail = 0
      /\ ~NewReader.eorStop /\ ~NewReader.isClosed /\ NewReader.type = "none"
  BY DEF NewReader, Readers
<1>2. Len(reader'.head) = 0 /\ Len(reader'.head) <= HeaderLen /\ Len(reader'.head) < HeaderLen
  BY <1>1 DEF HeaderLen
<1>3. Positions'
  <2>1. reader'.avail = 0
    BY <1>1
  <2>2. rdNext' \in Nat /\ rdNext' <= buffStop'
    OBVIOUS
  <2>3. rdNext' + 0 <= rdNext'
    <3>1. \A n \in Nat : n + 0 <= n
      BY NoneMore
    <3> QED BY <2>2, <3>1
  <2> QED BY <2>1, <2>2, <2>3 DEF Positions
<1>4. replies' \in Seq([type : {"cantMpx", "unknownType", "result"}, rec : DOMAIN script'])
  <2> DEFINE S == [type : {"cantMpx", "unknownType", "result"}, rec : DOMAIN script']
  <2>1. replies' \in Seq(S) \/ replies' = <<>>
    OBVIOUS
  <2> HIDE DEF S
  <2>2. replies' \in Seq(S)
    BY <2>1, EmptySeq
  <2> QED BY <2>2 DEF S
<1>5. /\ params' \in Seq(Cell(script'))
      /\ delivered' \in [{"stdin", "data"} -> Seq(Cell(script'))]
  <2> DEFINE S == Cell(script')
  <2> HIDE DEF S
  <2>1. <<>> \in Seq(S)
    BY EmptySeq
  <2>2. Nothing \in [{"stdin", "data"} -> Seq(S)]
    BY <2>1 DEF Nothing
  <2>3. params' \in Seq(S) /\ delivered' \in [{"stdin", "data"} -> Seq(S)]
    BY <2>1, <2>2
  <2> QED BY <2>3 DEF S
<1>6. call' \in [client : {"begin", "params", "app"}, want : Nat] /\ call'.client = "begin"
  OBVIOUS
<1>7. Types'
  BY <1>1, <1>2, <1>3, <1>4, <1>5, <1>6 DEF Types
<1>8. Phases'
  BY <1>1 DEF Phases, Filling
<1>9. Callers'
  BY <1>1, <1>6 DEF Callers
<1>10. Heads'
  BY <1>1, <1>2 DEF Heads
<1>11. HeadIsRead'
  BY <1>1 DEF HeadIsRead
<1> QED BY <1>7, <1>8, <1>9, <1>10, <1>11 DEF IInv

\* The next connection.
LEMMA ConnectionProps ==
    ASSUME NextConnection
    PROVE  /\ script' \in Scripts /\ wire' = Cells(script')
           /\ last' \in Int /\ 0 <= last' /\ last' <= Len(wire') + 1
           /\ served' \in Nat /\ buffStop' \in Nat /\ buffStop' <= Len(wire')
           /\ rdNext' = buffStop' /\ replies' = <<>> /\ excused' = {}
<1>1. PICK records \in Scripts :
          script' = records /\ wire' = Cells(records) /\ last' = Len(wire') + 1
  BY DEF NextConnection
<1>2. Len(wire') \in Nat
  <2>1. records \in Seq(Record)
    BY ReaderAssumption
  <2>2. IsLayout(records, Cells(records))
    BY <2>1, CellsLayout
  <2>3. Cells(records) \in Seq(Cell(records))
    BY <2>2 DEF IsLayout
  <2>4. Len(Cells(records)) \in Nat
    BY <2>3, LenProperties
  <2> QED BY <1>1, <2>4
<1>3. served' = 0 /\ replies' = <<>> /\ buffStop' = 0 /\ rdNext' = 0 /\ excused' = {}
  BY DEF NextConnection
<1> QED BY <1>1, <1>2, <1>3

\* FCGX_Accept_r gives up a connection and takes the next.
LEMMA TypesAcceptRetries ==
    ASSUME IInv, AcceptRetries
    PROVE  IInv'
<1>1. /\ script' \in Scripts /\ wire' = Cells(script')
      /\ last' \in Int /\ 0 <= last' /\ last' <= Len(wire') + 1
      /\ served' \in Nat /\ buffStop' \in Nat /\ buffStop' <= Len(wire')
      /\ rdNext' = buffStop' /\ replies' = <<>> /\ excused' = {}
  BY ConnectionProps DEF AcceptRetries
<1>2. /\ reader' = NewReader /\ pc' = "top" /\ call' = [client |-> "begin", want |-> 0]
      /\ params' = <<>> /\ delivered' = Nothing
      /\ request' = [request EXCEPT !.begun = FALSE] /\ nest' = nest
  BY DEF AcceptRetries, NewRequest
<1>3. request \in [id : Nat, role : {"none", "responder", "filter", "bad"},
                   keep : BOOLEAN, begun : BOOLEAN]
  BY DEF IInv, Types
<1>4. /\ request' \in [id : Nat, role : {"none", "responder", "filter", "bad"},
                       keep : BOOLEAN, begun : BOOLEAN]
      /\ ~request'.begun
  BY <1>2, <1>3
<1>5. nest' = "none"
  <2>1. pc \in {"begin", "params"}
    BY DEF AcceptRetries, GivesUp
  <2> QED BY <1>2, <2>1 DEF IInv, Heads
<1>6. excused' \subseteq {"unread", "signal"}
  BY <1>1
<1> QED BY <1>1, <1>2, <1>4, <1>5, <1>6, TypesNewRequest

\* The application finishes the request.
LEMMA TypesFinish ==
    ASSUME IInv, Finish
    PROVE  IInv'
<1> USE DEF server
<1>1. /\ reader' = NewReader /\ pc' = "top" /\ call' = [client |-> "begin", want |-> 0]
      /\ params' = <<>> /\ delivered' = Nothing
      /\ request' = [request EXCEPT !.begun = FALSE] /\ nest' = nest /\ pc = "app"
  BY DEF Finish, NewRequest
<1>2. request \in [id : Nat, role : {"none", "responder", "filter", "bad"},
                   keep : BOOLEAN, begun : BOOLEAN]
  BY DEF IInv, Types
<1>3. /\ request' \in [id : Nat, role : {"none", "responder", "filter", "bad"},
                       keep : BOOLEAN, begun : BOOLEAN]
      /\ ~request'.begun
  BY <1>1, <1>2
<1>4. nest' = "none"
  BY <1>1 DEF IInv, Heads
<1>5. CASE NextConnection
  <2>1. /\ script' \in Scripts /\ wire' = Cells(script')
        /\ last' \in Int /\ 0 <= last' /\ last' <= Len(wire') + 1
        /\ served' \in Nat /\ buffStop' \in Nat /\ buffStop' <= Len(wire')
        /\ rdNext' = buffStop' /\ replies' = <<>> /\ excused' = {}
    BY <1>5, ConnectionProps
  <2>2. excused' \subseteq {"unread", "signal"}
    BY <2>1
  <2> QED BY <1>1, <1>3, <1>4, <2>1, <2>2, TypesNewRequest
<1>6. CASE /\ served' = served + 1
           /\ rdNext' = buffStop
           /\ excused' = IF Unread THEN excused \cup {"unread"} ELSE excused
           /\ UNCHANGED <<server, replies, buffStop>>
  <2>1. StateFacts
    BY StateProps DEF IInv
  <2>2. /\ script' \in Scripts /\ wire' = Cells(script')
        /\ excused' \subseteq {"unread", "signal"}
        /\ replies' \in Seq([type : {"cantMpx", "unknownType", "result"},
                             rec : DOMAIN script'])
    BY <1>6 DEF IInv, Types
  <2>3. /\ last' \in Int /\ 0 <= last' /\ last' <= Len(wire') + 1
        /\ served' \in Nat /\ buffStop' \in Nat /\ buffStop' <= Len(wire')
        /\ rdNext' = buffStop'
    BY <1>6, <2>1 DEF StateFacts
  <2> QED BY <1>1, <1>3, <1>4, <2>2, <2>3, TypesNewRequest
<1>7. \/ NextConnection
      \/ /\ served' = served + 1
         /\ rdNext' = buffStop
         /\ excused' = IF Unread THEN excused \cup {"unread"} ELSE excused
         /\ UNCHANGED <<server, replies, buffStop>>
  BY DEF Finish
<1> QED BY <1>5, <1>6, <1>7

\* The initial states.
LEMMA TypesInit ==
    ASSUME Init
    PROVE  IInv
<1>1. PICK records \in Scripts : Connected(records)
  BY DEF Init
<1>2. records \in Seq(Record) /\ IsLayout(records, Cells(records))
  <2>1. records \in Seq(Record)
    BY ReaderAssumption
  <2> QED BY <2>1, CellsLayout
<1>3. /\ script = records /\ wire = Cells(records) /\ last = Len(wire) + 1
      /\ served = 0 /\ replies = <<>> /\ buffStop = 0 /\ rdNext = 0
  BY <1>1 DEF Connected
<1>4. Len(wire) \in Nat
  <2>1. Cells(records) \in Seq(Cell(records))
    BY <1>2 DEF IsLayout
  <2> QED BY <1>3, <2>1, LenProperties
<1>5. /\ reader = NewReader /\ pc = "top" /\ call = [client |-> "begin", want |-> 0]
      /\ params = <<>> /\ delivered = Nothing /\ nest = "none" /\ excused = {}
      /\ request = NoRequest
  BY DEF Init
<1>6. /\ NewReader \in Readers(script) /\ NewReader.head = <<>> /\ NewReader.avail = 0
      /\ ~NewReader.eorStop /\ ~NewReader.isClosed /\ NewReader.type = "none"
  BY DEF NewReader, Readers
<1>7. Len(reader.head) = 0 /\ Len(reader.head) <= HeaderLen /\ Len(reader.head) < HeaderLen
  BY <1>5, <1>6 DEF HeaderLen
<1>8. Positions
  BY <1>3, <1>4, <1>5, <1>6 DEF Positions
<1>9. replies \in Seq([type : {"cantMpx", "unknownType", "result"}, rec : DOMAIN script])
  BY <1>3, EmptySeq
<1>10. params \in Seq(Cell(script)) /\ delivered \in [{"stdin", "data"} -> Seq(Cell(script))]
  <2> DEFINE S == Cell(script)
  <2> HIDE DEF S
  <2>1. <<>> \in Seq(S)
    BY EmptySeq
  <2>2. Nothing \in [{"stdin", "data"} -> Seq(S)]
    BY <2>1 DEF Nothing
  <2>3. params \in Seq(S) /\ delivered \in [{"stdin", "data"} -> Seq(S)]
    BY <1>5, <2>1, <2>2
  <2> QED BY <2>3 DEF S
<1>11. /\ request \in [id : Nat, role : {"none", "responder", "filter", "bad"},
                       keep : BOOLEAN, begun : BOOLEAN]
       /\ ~request.begun
  BY <1>5 DEF NoRequest
<1>12. call \in [client : {"begin", "params", "app"}, want : Nat] /\ call.client = "begin"
  BY <1>5
<1>13. script \in Scripts /\ wire = Cells(script)
  BY <1>1, <1>3
<1>14. Types
  BY <1>5, <1>6, <1>7, <1>8, <1>9, <1>10, <1>11, <1>12, <1>13 DEF Types
<1>15. Phases
  BY <1>5, <1>6 DEF Phases, Filling
<1>16. Callers
  BY <1>5, <1>6, <1>11, <1>12 DEF Callers
<1>17. Heads
  BY <1>5, <1>6, <1>7 DEF Heads
<1>18. HeadIsRead
  BY <1>5, <1>6 DEF HeadIsRead
<1> QED BY <1>14, <1>15, <1>16, <1>17, <1>18 DEF IInv

\* Steps that change no variable.
LEMMA TypesStutter ==
    ASSUME IInv, UNCHANGED vars
    PROVE  IInv'
<1>1. UNCHANGED <<script, wire, last, served, replies, buffStop, rdNext, reader, request,
                  pc, call, nest, params, delivered, excused>>
  BY DEF vars, server, clients
<1>2. Types'
  BY <1>1 DEF IInv, Types, Positions
<1>3. Phases' /\ Callers' /\ HeadIsRead'
  BY <1>1 DEF IInv, Phases, Callers, HeadIsRead, Filling
<1>4. Heads'
  BY <1>1 DEF IInv, Heads, IsHeader
<1> QED BY <1>2, <1>3, <1>4 DEF IInv

\* Every step keeps the types, and where the call is.
LEMMA TypesNext ==
    ASSUME IInv, [Next]_vars
    PROVE  IInv'
<1>1. CASE FillBuffProc
  <2>1. CASE Read BY <2>1, TypesRead
  <2>2. CASE ReadFails BY <2>2, TypesReadFails
  <2>3. CASE ReadNothing BY <2>3, TypesReadNothing
  <2>4. CASE DeliverContent BY <2>4, TypesDeliverContent
  <2>5. CASE SkipContent BY <2>5, TypesSkipContent
  <2>6. CASE SkipPadding BY <2>6, TypesSkipPadding
  <2>7. CASE EndOfRecord BY <2>7, TypesEndOfRecord
  <2>8. CASE ReadHeader BY <2>8, TypesReadHeader
  <2>9. CASE UnsupportedVersion BY <2>9, TypesUnsupportedVersion
  <2>10. CASE StreamRecord BY <2>10, TypesStreamRecord
  <2>11. CASE BeginRefused BY <2>11, TypesBeginRefused
  <2>12. CASE UnknownManagement BY <2>12, TypesUnknownManagement
  <2>13. CASE Nest BY <2>13, TypesNest
  <2>14. CASE NestedTakes BY <2>14, TypesNestedTakes
  <2>15. CASE NestedFills BY <2>15, TypesNestedFills
  <2>16. CASE BeginReads BY <2>16, TypesBeginReads
  <2>17. CASE ValuesRead BY <2>17, TypesValuesRead
  <2> QED BY <1>1, <2>1, <2>2, <2>3, <2>4, <2>5, <2>6, <2>7, <2>8, <2>9, <2>10, <2>11,
             <2>12, <2>13, <2>14, <2>15, <2>16, <2>17 DEF FillBuffProc
<1>2. CASE CallFillBuffProc BY <1>2, TypesCallFillBuffProc
<1>3. CASE AcceptRetries BY <1>3, TypesAcceptRetries
<1>4. CASE AcceptReadsParams BY <1>4, TypesAcceptReadsParams
<1>5. CASE ReadParamsTakes BY <1>5, TypesReadParamsTakes
<1>6. CASE AcceptReturns BY <1>6, TypesAcceptReturns
<1>7. CASE GetStrTakes BY <1>7, TypesGetStrTakes
<1>8. CASE GetStrReturnsShort BY <1>8, TypesGetStrReturnsShort
<1>9. CASE HangUp BY <1>9, TypesHangUp
<1>10. CASE ReadInterrupted BY <1>10, TypesReadFails
<1>11. CASE \E n \in Chunks : GetStr(n) BY <1>11, TypesGetStr
<1>12. CASE StartFilterData BY <1>12, TypesStartFilterData
<1>13. CASE Finish BY <1>13, TypesFinish
<1>14. CASE UNCHANGED vars BY <1>14, TypesStutter
<1> QED BY <1>1, <1>2, <1>3, <1>4, <1>5, <1>6, <1>7, <1>8, <1>9, <1>10, <1>11, <1>12,
           <1>13, <1>14 DEF Next, Library

\* FillBuffProc and its callers keep every field in its type and within its bounds,
\* at every pc: the inductive invariant.
THEOREM IInvariant == Spec => []IInv
BY TypesInit, TypesNext, PTL DEF Spec

\* The type invariant of the runs, for any scripts and any sizes.
THEOREM TypeCorrect == Spec => []TypeOK
<1>1. IInv => TypeOK
  BY TypesAreOK DEF IInv
<1> QED BY <1>1, IInvariant, PTL

------------------------------
(* The order of a request's records.                                       *)

Streams == {"params", "stdin", "data"}

\* The stream that comes before, and what is the rank of its end.
Prev(type) ==
    CASE type = "params" -> "none" [] type = "stdin" -> "params" [] OTHER -> "stdin"
MarkRank(type) ==
    CASE type = "none" -> 0 [] type = "params" -> 2 [] type = "stdin" -> 4 [] OTHER -> 6

\* The end of a stream; the begin record, if the type is "none".
Mark(records, n, type) ==
    CHOOSE j \in OwnRecords(records, n) : Rank(records[j]) = MarkRank(type)

\* The streams that the nth request has.
HasMark(records, n, type) ==
    \/ type \in {"none", "params", "stdin"}
    \/ type = "data" /\ records[OwnBegin(records, n)].role = "filter"

\* What the rank says.
LEMMA RankProps ==
    ASSUME NEW r \in Record
    PROVE  /\ Rank(r) \in 0 .. 7
           /\ Rank(r) = 0 <=> r.type = "begin"
           /\ \A type \in Streams :
                 /\ Rank(r) = MarkRank(type) <=> r.type = type /\ r.len = 0
                 /\ Rank(r) = MarkRank(type) - 1 <=> r.type = type /\ r.len > 0
<1>1. /\ r.type \in {"begin", "params", "stdin", "data", "values", "unknown"}
      /\ r.len \in Nat
  BY DEF Record
<1>2. CASE r.type = "begin"
  BY <1>1, <1>2 DEF Rank, MarkRank, Streams
<1>3. CASE r.type = "params"
  BY <1>1, <1>3 DEF Rank, MarkRank, Streams
<1>4. CASE r.type = "stdin"
  BY <1>1, <1>4 DEF Rank, MarkRank, Streams
<1>5. CASE r.type = "data"
  BY <1>1, <1>5 DEF Rank, MarkRank, Streams
<1>6. CASE r.type \in {"values", "unknown"}
  BY <1>1, <1>6 DEF Rank, MarkRank, Streams
<1> QED BY <1>1, <1>2, <1>3, <1>4, <1>5, <1>6

\* A set of numbers up to n that is not empty has a greatest element.
LEMMA GreatestProps ==
    ASSUME NEW n \in Nat, NEW S \in SUBSET (1 .. n), S # {}
    PROVE  \E m \in S : \A k \in S : k <= m
<1> DEFINE bounds == {m \in Nat : \A k \in S : k <= m}
<1>1. bounds \in SUBSET Nat /\ n \in bounds
  OBVIOUS
<1>2. PICK m \in bounds : \A k \in bounds : ~(k < m)
  <2>1. bounds # {}
    BY <1>1
  <2> HIDE DEF bounds
  <2> QED BY <1>1, <2>1, LeastProps
<1>3. m \in Nat /\ \A k \in S : k <= m
  BY <1>2
<1>4. m \in S
  <2>1. SUFFICES ASSUME m \notin S PROVE FALSE
    OBVIOUS
  <2>2. PICK k \in S : TRUE
    OBVIOUS
  <2>3. k \in Nat /\ k >= 1 /\ k <= m
    BY <1>3
  <2>4. m - 1 \in Nat
    BY <1>3, <2>3
  <2>5. \A j \in S : j <= m - 1
    <3>1. ASSUME NEW j \in S PROVE j <= m - 1
      <4>1. j \in Nat /\ j <= m /\ j # m
        BY <1>3, <2>1
      <4> QED BY <1>3, <4>1
    <3> QED BY <3>1
  <2>6. m - 1 \in bounds
    BY <2>4, <2>5
  <2>7. ~(m - 1 < m)
    <3> HIDE DEF bounds
    <3> QED BY <1>2, <2>6
  <2> QED BY <1>3, <2>7
<1> QED BY <1>3, <1>4

\* The conditions on a well-formed connection, one by one.
LEMMA WellFormedProps ==
    ASSUME NEW records \in Seq(Record), WellFormed(records),
           NEW i \in 1 .. Len(records)
    PROVE  LET r == records[i]
           IN  /\ \A j \in 1 .. Len(records) : i < j => r.nth <= records[j].nth
               /\ r.nth \in Requests(records)
               /\ r.role # "bad"
               /\ r.type = "begin" => r.len = BodyLen
               /\ r.id = OwnId(records, r.nth) /\ (r.type = "begin" \/ r.len = 0) => r.pad = 0
               /\ r.id # OwnId(records, r.nth) /\ r.id # 0 =>
                     OwnBegin(records, r.nth) < i /\ r.len > 0
               /\ r.id = 0 => \/ r.type = "values" /\ r.pad > 0 /\ r.len % 2 = 0
                              \/ r.type = "unknown" /\ r.len = 0
<1>1. DOMAIN records = 1 .. Len(records)
  BY EndsProps
<1>2. i \in DOMAIN records
  BY <1>1
<1> QED BY <1>1, <1>2 DEF WellFormed, Requests

\* A request's own records.
LEMMA OwnProps ==
    ASSUME NEW records \in Seq(Record), WellFormed(records), NEW n \in Requests(records)
    PROVE  /\ OwnRecords(records, n) \in SUBSET (1 .. Len(records))
           /\ Len(records) \in Nat
           /\ \A i \in OwnRecords(records, n) :
                 /\ records[i] \in Record
                 /\ records[i].nth = n /\ records[i].id = OwnId(records, n)
                 /\ Rank(records[i]) \in 0 .. 7
           /\ \A i, j \in OwnRecords(records, n) : i < j =>
                 \/ Rank(records[i]) < Rank(records[j])
                 \/ Rank(records[i]) = Rank(records[j]) /\ Rank(records[i]) \in {1, 3, 5}
           /\ \E i \in OwnRecords(records, n) : Rank(records[i]) = 0
           /\ \E i \in OwnRecords(records, n) : Rank(records[i]) = 2
           /\ \E i \in OwnRecords(records, n) : Rank(records[i]) = 4
           /\ \A i, j \in OwnRecords(records, n) :
                 Rank(records[i]) = 0 /\ (\A k \in OwnRecords(records, n) : k <= j) =>
                     Rank(records[j]) = IF records[i].role = "filter" THEN 6 ELSE 4
<1>1. Len(records) \in Nat /\ DOMAIN records = 1 .. Len(records)
  BY EndsProps
<1>2. OwnRecords(records, n) \in SUBSET (1 .. Len(records))
  BY <1>1 DEF OwnRecords
<1>3. ASSUME NEW i \in OwnRecords(records, n)
      PROVE  /\ records[i] \in Record
             /\ records[i].nth = n /\ records[i].id = OwnId(records, n)
             /\ Rank(records[i]) \in 0 .. 7
  <2>1. i \in DOMAIN records /\ records[i].nth = n /\ records[i].id = OwnId(records, n)
    BY <1>3 DEF OwnRecords
  <2> QED BY <2>1, RecordProps, RankProps
<1>4. InProtocolOrder(records, OwnRecords(records, n))
  BY DEF WellFormed
<1>5. {0, 2, 4} \subseteq {Rank(records[i]) : i \in OwnRecords(records, n)}
  BY <1>4 DEF InProtocolOrder
<1>6. /\ \E i \in OwnRecords(records, n) : Rank(records[i]) = 0
      /\ \E i \in OwnRecords(records, n) : Rank(records[i]) = 2
      /\ \E i \in OwnRecords(records, n) : Rank(records[i]) = 4
  BY <1>5
<1>7. \A i, j \in OwnRecords(records, n) : i < j =>
         \/ Rank(records[i]) < Rank(records[j])
         \/ Rank(records[i]) = Rank(records[j]) /\ Rank(records[i]) \in {1, 3, 5}
  BY <1>4 DEF InProtocolOrder
<1>8. \A i, j \in OwnRecords(records, n) :
         Rank(records[i]) = 0 /\ (\A k \in OwnRecords(records, n) : k <= j) =>
             Rank(records[j]) = IF records[i].role = "filter" THEN 6 ELSE 4
  BY <1>4 DEF InProtocolOrder
<1> QED BY <1>1, <1>2, <1>3, <1>6, <1>7, <1>8

\* It begins with its begin record.
LEMMA BeginProps ==
    ASSUME NEW records \in Seq(Record), WellFormed(records), NEW n \in Requests(records)
    PROVE  LET b == OwnBegin(records, n)
           IN  /\ b \in OwnRecords(records, n) /\ records[b].type = "begin"
               /\ records[b].id # 0 /\ OwnId(records, n) # 0
               /\ records[b].len = BodyLen /\ records[b].pad = 0
               /\ Rank(records[b]) = 0
<1> DEFINE own == OwnRecords(records, n)
           begins == {i \in DOMAIN records : records[i].type = "begin" /\ records[i].nth = n}
           b == OwnBegin(records, n)
<1>1. Len(records) \in Nat /\ DOMAIN records = 1 .. Len(records)
  BY EndsProps
<1>2. PICK i \in own : Rank(records[i]) = 0
  BY OwnProps
<1>3. records[i] \in Record /\ records[i].nth = n /\ i \in DOMAIN records
  BY <1>1, OwnProps
<1>4. records[i].type = "begin"
  BY <1>2, <1>3, RankProps
<1>5. begins \in SUBSET Nat /\ i \in begins
  BY <1>1, <1>3, <1>4
<1>6. PICK m \in begins : \A k \in begins : ~(k < m)
  <2>1. begins # {}
    BY <1>5
  <2> HIDE DEF begins
  <2> QED BY <1>5, <2>1, LeastProps
<1>7. \A j \in 1 .. m - 1 : ~(records[j].type = "begin" /\ records[j].nth = n)
  <2>1. m \in 1 .. Len(records)
    BY <1>1, <1>6
  <2>2. \A j \in 1 .. m - 1 : j \in DOMAIN records /\ j < m
    BY <1>1, <2>1
  <2> QED BY <1>6, <2>2
<1>8. /\ b \in DOMAIN records
      /\ records[b].type = "begin" /\ records[b].nth = n
  <2>1. /\ m \in DOMAIN records
        /\ records[m].type = "begin" /\ records[m].nth = n
        /\ \A j \in 1 .. m - 1 : ~(records[j].type = "begin" /\ records[j].nth = n)
    BY <1>6, <1>7
  <2> QED BY <2>1 DEF OwnBegin
<1>9. records[b].id = OwnId(records, n)
  BY DEF OwnId
<1>10. b \in own
  BY <1>8, <1>9 DEF OwnRecords
<1>11. b \in 1 .. Len(records) /\ records[b] \in Record
  BY <1>1, <1>8, RecordProps
<1>12. records[b].len = BodyLen /\ records[b].pad = 0 /\ records[b].id # 0
  <2> HIDE DEF b, own, begins
  <2> QED BY <1>8, <1>9, <1>11, WellFormedProps
<1>13. Rank(records[b]) = 0
  BY <1>8, <1>11, RankProps
<1> QED BY <1>8, <1>9, <1>10, <1>12, <1>13

\* Each of its streams has an end.
LEMMA MarkProps ==
    ASSUME NEW records \in Seq(Record), WellFormed(records), NEW n \in Requests(records),
           NEW type, HasMark(records, n, type)
    PROVE  /\ Mark(records, n, type) \in OwnRecords(records, n)
           /\ Rank(records[Mark(records, n, type)]) = MarkRank(type)
<1> DEFINE own == OwnRecords(records, n)
<1>1. \E j \in own : Rank(records[j]) = MarkRank(type)
  <2>1. CASE type = "none"
    BY <2>1, OwnProps DEF MarkRank
  <2>2. CASE type = "params"
    BY <2>2, OwnProps DEF MarkRank
  <2>3. CASE type = "stdin"
    BY <2>3, OwnProps DEF MarkRank
  <2>4. CASE type = "data" /\ records[OwnBegin(records, n)].role = "filter"
    <3>1. own \in SUBSET (1 .. Len(records)) /\ Len(records) \in Nat
      BY OwnProps
    <3>2. OwnBegin(records, n) \in own /\ Rank(records[OwnBegin(records, n)]) = 0
      BY BeginProps
    <3>3. PICK m \in own : \A k \in own : k <= m
      <4>1. own # {}
        BY <3>2
      <4> HIDE DEF own
      <4> QED BY <3>1, <4>1, GreatestProps
    <3>4. Rank(records[m]) = 6
      BY <2>4, <3>2, <3>3, OwnProps
    <3> QED BY <2>4, <3>4 DEF MarkRank
  <2> QED BY <2>1, <2>2, <2>3, <2>4 DEF HasMark
<1> QED BY <1>1 DEF Mark

\* What comes before, and behind, the end of a stream.
LEMMA OrderProps ==
    ASSUME NEW records \in Seq(Record), WellFormed(records), NEW n \in Requests(records),
           NEW type, HasMark(records, n, type), NEW i \in OwnRecords(records, n)
    PROVE  /\ i = Mark(records, n, type) <=> Rank(records[i]) = MarkRank(type)
           /\ i < Mark(records, n, type) <=> Rank(records[i]) < MarkRank(type)
<1> DEFINE own == OwnRecords(records, n)
           m == Mark(records, n, type)
           ri == Rank(records[i])
           rm == Rank(records[m])
<1>1. m \in own /\ rm = MarkRank(type)
  BY MarkProps
<1>2. MarkRank(type) \in {0, 2, 4, 6}
  BY DEF HasMark, MarkRank
<1>3. i \in Nat /\ m \in Nat /\ ri \in Nat
  <2>1. own \in SUBSET (1 .. Len(records)) /\ Len(records) \in Nat /\ ri \in 0 .. 7
    BY OwnProps
  <2>2. i \in own
    OBVIOUS
  <2> HIDE DEF own, m, ri
  <2> QED BY <1>1, <2>1, <2>2
<1>4. /\ i < m => ri < rm \/ (ri = rm /\ ri \in {1, 3, 5})
      /\ m < i => rm < ri \/ (rm = ri /\ rm \in {1, 3, 5})
  <2> HIDE DEF m
  <2> QED BY <1>1, OwnProps
<1>5. i = m => ri = rm
  OBVIOUS
<1> HIDE DEF own, m, ri, rm
<1>6. i = m <=> ri = MarkRank(type)
  BY <1>1, <1>2, <1>3, <1>4, <1>5
<1>7. i < m <=> ri < MarkRank(type)
  BY <1>1, <1>2, <1>3, <1>4, <1>5
<1> QED BY <1>6, <1>7 DEF m, ri

\* The records of a stream are between the end before and its own.
LEMMA StreamPlace ==
    ASSUME NEW records \in Seq(Record), WellFormed(records), NEW n \in Requests(records),
           NEW type \in Streams, HasMark(records, n, type),
           NEW i \in OwnRecords(records, n)
    PROVE  LET m == Mark(records, n, type)
               l == Mark(records, n, Prev(type))
           IN  /\ HasMark(records, n, Prev(type))
               /\ l \in OwnRecords(records, n) /\ m \in OwnRecords(records, n)
               /\ l < m
               /\ records[i].type = type <=> l < i /\ i <= m
               /\ i = m <=> records[i].type = type /\ records[i].len = 0
               /\ i = m => records[i].pad = 0
<1> DEFINE m == Mark(records, n, type)
           l == Mark(records, n, Prev(type))
           ri == Rank(records[i])
           own == OwnRecords(records, n)
<1>1. HasMark(records, n, Prev(type)) /\ MarkRank(Prev(type)) = MarkRank(type) - 2
  BY DEF Streams, HasMark, Prev, MarkRank
<1>2. MarkRank(type) \in {2, 4, 6}
  BY DEF Streams, MarkRank
<1>3. l \in own /\ m \in own /\ Rank(records[l]) = MarkRank(Prev(type))
  BY <1>1, MarkProps
<1>4. own \in SUBSET (1 .. Len(records)) /\ Len(records) \in Nat
  BY OwnProps
<1>5. /\ i = m <=> ri = MarkRank(type)
      /\ i < m <=> ri < MarkRank(type)
  BY OrderProps
<1>6. /\ i = l <=> ri = MarkRank(Prev(type))
      /\ i < l <=> ri < MarkRank(Prev(type))
  BY <1>1, OrderProps
<1>7. l < m
  <2>1. l < m <=> Rank(records[l]) < MarkRank(type)
    BY <1>3, OrderProps
  <2> QED BY <1>1, <1>2, <1>3, <2>1
<1>8. /\ records[i] \in Record /\ ri \in 0 .. 7
      /\ records[i].nth = n /\ records[i].id = OwnId(records, n)
  BY OwnProps
<1>9. /\ ri = MarkRank(type) <=> records[i].type = type /\ records[i].len = 0
      /\ ri = MarkRank(type) - 1 <=> records[i].type = type /\ records[i].len > 0
  BY <1>8, RankProps
<1>10. records[i].len \in Nat
  BY <1>8 DEF Record
<1>11. i \in 1 .. Len(records) /\ l \in 1 .. Len(records) /\ m \in 1 .. Len(records)
  BY <1>3, <1>4
<1>12. i = m => records[i].pad = 0
  <2>1. i = m => records[i].len = 0
    BY <1>5, <1>9
  <2> HIDE DEF m, own, ri
  <2> QED BY <1>8, <1>11, <2>1, WellFormedProps
<1> HIDE DEF m, l, ri, own
<1>13. i = m <=> records[i].type = type /\ records[i].len = 0
  BY <1>5, <1>9
<1>14. records[i].type = type <=> l < i /\ i <= m
  <2>1. records[i].type = type <=> ri = MarkRank(type) \/ ri = MarkRank(type) - 1
    BY <1>9, <1>10
  <2>2. i \in Int /\ l \in Int /\ m \in Int /\ ri \in Int
    BY <1>4, <1>8, <1>11
  <2>3. l < i <=> ri > MarkRank(type) - 2
    BY <1>1, <1>2, <1>6, <2>2
  <2>4. i <= m <=> ri <= MarkRank(type)
    BY <1>2, <1>5, <2>2
  <2> QED BY <1>2, <2>1, <2>2, <2>3, <2>4
<1> QED BY <1>1, <1>3, <1>7, <1>12, <1>13, <1>14 DEF l, m, own

------------------------------
(* The content of a request's stream.                                      *)

\* What IsOwn and OwnUpto say, of any records, cells and request.
IsOwnCell(records, id, n, type, c) ==
    LET r == records[c.rec]
    IN  /\ r.type = type /\ r.id = id /\ r.nth = n
        /\ HeaderLen < c.at /\ c.at <= HeaderLen + r.len

OwnCells(records, cells, id, n, type) ==
    LET own[p \in 0 .. Len(cells)] ==
            IF p = 0 THEN <<>>
            ELSE own[p - 1] \o (IF IsOwnCell(records, id, n, type, cells[p])
                                THEN <<cells[p]>> ELSE <<>>)
    IN  own

\* The model's OwnUpto is this, of the state's records and cells.
LEMMA OwnUptoIs ==
    ASSUME NEW type, NEW p
    PROVE  OwnUpto(type, p) = OwnCells(script, wire, request.id, served + 1, type)[p]
BY Zenon DEF OwnUpto, OwnCells, IsOwn, IsOwnCell

\* They are collected cell by cell.
OwnFacts(records, cells, id, n, type, own) ==
    /\ \A p \in 0 .. Len(cells) : own[p] \in Seq(Cell(records))
    /\ own[0] = <<>>
    /\ \A p \in 1 .. Len(cells) :
          own[p] = IF IsOwnCell(records, id, n, type, cells[p])
                   THEN own[p - 1] \o <<cells[p]>> ELSE own[p - 1]

\* The recursive function does that.
LEMMA OwnSteps ==
    ASSUME NEW records, NEW cells \in Seq(Cell(records)), NEW id, NEW n, NEW type
    PROVE  OwnFacts(records, cells, id, n, type, OwnCells(records, cells, id, n, type))
<1> DEFINE l == Len(cells)
           piece(p) == IF IsOwnCell(records, id, n, type, cells[p]) THEN <<cells[p]>> ELSE <<>>
           F(f) == [p \in 0 .. Len(cells) |->
                       IF p = 0 THEN <<>>
                       ELSE f[p - 1] \o (IF IsOwnCell(records, id, n, type, cells[p])
                                         THEN <<cells[p]>> ELSE <<>>)]
           S == Seq(Cell(records))
           step == [x \in S \X (1 .. l) |-> x[1] \o piece(x[2])]
           own == OwnCells(records, cells, id, n, type)
<1>1. l \in Nat /\ DOMAIN cells = 1 .. l
  BY LenProperties
<1>2. \A p \in 1 .. l : piece(p) \in S
  <2>1. ASSUME NEW p \in 1 .. l PROVE piece(p) \in S
    <3>1. cells[p] \in Cell(records)
      BY ElementOfSeq
    <3> QED BY <3>1
  <2> HIDE DEF piece
  <2> QED BY <2>1
<1>3. step \in [S \X (1 .. l) -> S]
  <2>1. \A x \in S \X (1 .. l) : x[1] \o piece(x[2]) \in S
    <3>1. ASSUME NEW x \in S \X (1 .. l) PROVE x[1] \o piece(x[2]) \in S
      <4>1. x[1] \in S /\ piece(x[2]) \in S
        <5> HIDE DEF piece
        <5> QED BY <1>2
      <4> HIDE DEF piece
      <4> QED BY <4>1, ConcatProperties
    <3> HIDE DEF piece
    <3> QED BY <3>1
  <2> HIDE DEF piece, S
  <2> QED BY <2>1
<1>4. <<>> \in S
  BY EmptySeq
<1>5. PICK g : g \in [0 .. l -> S] /\ g[0] = <<>> /\ \A k \in 1 .. l : g[k] = step[<<g[k - 1], k>>]
  <2> HIDE DEF l, step, S
  <2>1. \E g : IsIteration(g, l, S, <<>>, step)
    BY <1>1, <1>3, <1>4, StepsProps
  <2> QED BY <2>1 DEF IsIteration
<1>6. \A k \in 1 .. l : g[k] = g[k - 1] \o piece(k)
  <2>1. ASSUME NEW k \in 1 .. l PROVE g[k] = g[k - 1] \o piece(k)
    <3>1. k - 1 \in 0 .. l
      BY <1>1
    <3>2. g[k - 1] \in S
      <4> HIDE DEF S
      <4> QED BY <1>5, <3>1
    <3>3. step[<<g[k - 1], k>>] = g[k - 1] \o piece(k)
      <4> HIDE DEF S, piece
      <4> QED BY <3>2
    <3> HIDE DEF step, piece
    <3> QED BY <1>5, <3>3
  <2> HIDE DEF piece
  <2> QED BY <2>1
<1>7. g = F(g)
  <2>1. \A p \in 0 .. l : g[p] = IF p = 0 THEN <<>> ELSE g[p - 1] \o piece(p)
    <3>1. \A p \in 0 .. l : p # 0 => p \in 1 .. l
      BY <1>1
    <3> HIDE DEF piece
    <3> QED BY <1>5, <1>6, <3>1
  <2>2. g = [p \in 0 .. l |-> IF p = 0 THEN <<>> ELSE g[p - 1] \o piece(p)]
    <3> HIDE DEF piece, S
    <3> QED BY <1>5, <2>1
  <2> QED BY <2>2
<1>8. own = F(own)
  <2>1. own = CHOOSE f : f = F(f)
    BY Zenon DEF OwnCells
  <2> HIDE DEF F, own
  <2> QED BY <1>7, <2>1
<1>9. own[0] = <<>>
  <2>1. 0 \in 0 .. Len(cells)
    BY <1>1
  <2>2. F(own)[0] = <<>>
    BY <2>1
  <2> HIDE DEF F, own
  <2> QED BY <1>8, <2>2
<1>10. ASSUME NEW p \in 1 .. l PROVE own[p] = own[p - 1] \o piece(p)
  <2>1. p \in 0 .. Len(cells) /\ p # 0
    BY <1>1
  <2>2. F(own)[p] = own[p - 1] \o piece(p)
    <3> HIDE DEF own
    <3> QED BY <2>1
  <2> HIDE DEF F, own, piece
  <2> QED BY <1>8, <2>2
<1>11. \A p \in 0 .. l : own[p] \in S
  <2> DEFINE T == {k \in 0 .. l : own[k] \in S}
  <2>1. 0 \in T
    <3>1. 0 \in 0 .. l
      BY <1>1
    <3> HIDE DEF own, S, l
    <3> QED BY <1>4, <1>9, <3>1
  <2>2. ASSUME NEW k \in 0 + 1 .. l, k - 1 \in T PROVE k \in T
    <3>1. k \in 1 .. l /\ k \in 0 .. l
      BY <1>1
    <3>2. own[k - 1] \in S
      BY <2>2
    <3>3. piece(k) \in S
      <4> HIDE DEF piece, S, l
      <4> QED BY <1>2, <3>1
    <3>4. own[k] = own[k - 1] \o piece(k)
      <4> HIDE DEF piece, S, l, own
      <4> QED BY <1>10, <3>1
    <3>5. own[k] \in S
      <4> HIDE DEF piece, own
      <4> QED BY <3>2, <3>3, <3>4, ConcatProperties
    <3> QED BY <3>1, <3>5
  <2>3. \A k \in 0 .. l : k \in T
    <3>1. 0 \in Nat /\ l \in Nat
      BY <1>1
    <3>2. \A k \in 0 + 1 .. l : k - 1 \in T => k \in T
      <4> HIDE DEF T
      <4> QED BY <2>2
    <3> HIDE DEF T, l
    <3> QED BY <2>1, <3>1, <3>2, Upward
  <2> QED BY <2>3
<1>12. ASSUME NEW p \in 1 .. l
       PROVE  own[p] = IF IsOwnCell(records, id, n, type, cells[p])
                       THEN own[p - 1] \o <<cells[p]>> ELSE own[p - 1]
  <2>1. p - 1 \in 0 .. l
    BY <1>1
  <2>2. own[p - 1] \in S
    <3> HIDE DEF own, S, l
    <3> QED BY <1>11, <2>1
  <2>3. own[p - 1] \o <<>> = own[p - 1]
    <3> HIDE DEF own
    <3> QED BY <2>2, ConcatEmptySeq
  <2>4. own[p] = own[p - 1] \o piece(p)
    BY <1>10
  <2> HIDE DEF own
  <2> QED BY <2>3, <2>4
<1>13. OwnFacts(records, cells, id, n, type, own)
  <2> HIDE DEF own
  <2> QED BY <1>9, <1>11, <1>12 DEF OwnFacts
<1> QED BY <1>13

\* Cells that are not the stream's own change nothing.
LEMMA OwnSame ==
    ASSUME NEW records, NEW cells \in Seq(Cell(records)), NEW id, NEW nth, NEW type,
           NEW m \in Nat, NEW n \in Nat, m <= n, n <= Len(cells),
           \A p \in m + 1 .. n : ~IsOwnCell(records, id, nth, type, cells[p])
    PROVE  OwnCells(records, cells, id, nth, type)[n] = OwnCells(records, cells, id, nth, type)[m]
<1> DEFINE own == OwnCells(records, cells, id, nth, type)
           S == {k \in m .. n : own[k] = own[m]}
<1>1. OwnFacts(records, cells, id, nth, type, own)
  BY OwnSteps
<1> HIDE DEF own
<1>2. Len(cells) \in Nat
  BY LenProperties
<1>3. m \in S
  OBVIOUS
<1>4. ASSUME NEW k \in m + 1 .. n, k - 1 \in S PROVE k \in S
  <2>1. k \in 1 .. Len(cells) /\ k \in m .. n
    BY <1>2
  <2>2. own[k] = own[k - 1]
    BY <1>1, <2>1 DEF OwnFacts
  <2> QED BY <1>4, <2>1, <2>2
<1>5. \A k \in m .. n : k \in S
  <2>1. \A k \in m + 1 .. n : k - 1 \in S => k \in S
    <3> HIDE DEF S
    <3> QED BY <1>4
  <2> HIDE DEF S
  <2> QED BY <1>3, <2>1, Upward
<1>6. own[n] = own[m]
  BY <1>5
<1> QED BY <1>6 DEF own

\* A run of the stream's own cells is appended.
Appended(records, cells, id, nth, type, m, n) ==
    OwnCells(records, cells, id, nth, type)[n]
        = OwnCells(records, cells, id, nth, type)[m] \o SubSeq(cells, m + 1, n)

\* It is what the cells of one record do.
LEMMA OwnMore ==
    ASSUME NEW records, NEW cells \in Seq(Cell(records)), NEW id, NEW nth, NEW type,
           NEW m \in Nat, NEW n \in Nat, m <= n, n <= Len(cells),
           \A p \in m + 1 .. n : IsOwnCell(records, id, nth, type, cells[p])
    PROVE  Appended(records, cells, id, nth, type, m, n)
<1> DEFINE own == OwnCells(records, cells, id, nth, type)
           S == {k \in m .. n : own[k] = own[m] \o SubSeq(cells, m + 1, k)}
<1>1. OwnFacts(records, cells, id, nth, type, own)
  BY OwnSteps
<1> HIDE DEF own
<1>2. Len(cells) \in Nat
  BY LenProperties
<1>3. own[m] \in Seq(Cell(records))
  <2>1. m \in 0 .. Len(cells)
    BY <1>2
  <2> QED BY <1>1, <2>1 DEF OwnFacts
<1>4. m \in S
  <2>1. SubSeq(cells, m + 1, m) = <<>>
    <3>1. m + 1 \in Int /\ m \in Int /\ m < m + 1
      OBVIOUS
    <3> QED BY <3>1, SubSeqEmpty
  <2>2. own[m] \o <<>> = own[m]
    BY <1>3, ConcatEmptySeq
  <2>3. m \in m .. n
    OBVIOUS
  <2> QED BY <2>1, <2>2, <2>3
<1>5. ASSUME NEW k \in m + 1 .. n, k - 1 \in S PROVE k \in S
  <2>1. k \in 1 .. Len(cells) /\ k \in m .. n
    BY <1>2
  <2>2. own[k] = own[k - 1] \o <<cells[k]>>
    BY <1>1, <2>1 DEF OwnFacts
  <2>3. own[k - 1] = own[m] \o SubSeq(cells, m + 1, k - 1)
    BY <1>5
  <2>4. SubSeq(cells, m + 1, k) = SubSeq(cells, m + 1, k - 1) \o <<cells[k]>>
    <3>1. m + 1 \in 1 .. Len(cells) /\ k \in m + 1 .. Len(cells)
      BY <1>2, <2>1
    <3> QED BY <3>1, SubSeqRecursiveSecond
  <2>5. SubSeq(cells, m + 1, k - 1) \in Seq(Cell(records)) /\ <<cells[k]>> \in Seq(Cell(records))
    <3>1. \A i \in m + 1 .. k - 1 : cells[i] \in Cell(records)
      <4>1. \A i \in m + 1 .. k - 1 : i \in 1 .. Len(cells)
        BY <1>2, <2>1
      <4> QED BY <4>1, ElementOfSeq
    <3>2. m + 1 \in Int /\ k - 1 \in Int
      OBVIOUS
    <3>3. SubSeq(cells, m + 1, k - 1) \in Seq(Cell(records))
      BY <3>1, <3>2, SubSeqProperties
    <3>4. cells[k] \in Cell(records)
      BY <2>1, ElementOfSeq
    <3> QED BY <3>3, <3>4
  <2>6. (own[m] \o SubSeq(cells, m + 1, k - 1)) \o <<cells[k]>>
            = own[m] \o (SubSeq(cells, m + 1, k - 1) \o <<cells[k]>>)
    <3> DEFINE x == own[m]
               y == SubSeq(cells, m + 1, k - 1)
               z == <<cells[k]>>
    <3> HIDE DEF x, y, z
    <3>1. x \in Seq(Cell(records)) /\ y \in Seq(Cell(records)) /\ z \in Seq(Cell(records))
      BY <1>3, <2>5 DEF x, y, z
    <3>2. (x \o y) \o z = x \o (y \o z)
      BY <3>1, ConcatAssociative, SMTT(30)
    <3> QED BY <3>2 DEF x, y, z
  <2>7. own[k] = own[m] \o SubSeq(cells, m + 1, k)
    BY <2>2, <2>3, <2>4, <2>6, Zenon
  <2> QED BY <2>1, <2>7
<1>6. \A k \in m .. n : k \in S
  <2>1. \A k \in m + 1 .. n : k - 1 \in S => k \in S
    <3> HIDE DEF S
    <3> QED BY <1>5
  <2> HIDE DEF S
  <2> QED BY <1>4, <2>1, Upward
<1>7. own[n] = own[m] \o SubSeq(cells, m + 1, n)
  <2>1. n \in m .. n
    OBVIOUS
  <2>2. n \in S
    <3> HIDE DEF S
    <3> QED BY <1>6, <2>1
  <2> QED BY <2>2
<1> QED BY <1>7 DEF own, Appended

\* A sequence is a prefix of what it begins.
LEMMA PrefixJoin ==
    ASSUME NEW S, NEW s \in Seq(S), NEW t \in Seq(S)
    PROVE  IsPrefix(s, s \o t)
<1>1. /\ s \o t \in Seq(S) /\ Len(s \o t) = Len(s) + Len(t)
      /\ \A i \in 1 .. Len(s) : (s \o t)[i] = s[i]
      /\ Len(s) \in Nat /\ Len(t) \in Nat
  <2>1. Len(s) \in Nat /\ Len(t) \in Nat
    BY LenProperties
  <2>2. /\ s \o t \in Seq(S) /\ Len(s \o t) = Len(s) + Len(t)
        /\ \A i \in 1 .. Len(s) + Len(t) : (s \o t)[i] =
                     IF i <= Len(s) THEN s[i] ELSE t[i - Len(s)]
    BY ConcatProperties
  <2>3. \A i \in 1 .. Len(s) : i \in 1 .. Len(s) + Len(t) /\ i <= Len(s)
    BY <2>1
  <2> QED BY <2>1, <2>2, <2>3
<1>2. \A i \in 1 .. Len(s) : s[i] \in S /\ (s \o t)[i] \in S
  BY <1>1, ElementOfSeq
<1>3. /\ SubSeq(s, 1, Len(s)) = s
      /\ SubSeq(s \o t, 1, Len(s)) \in Seq(S)
      /\ Len(SubSeq(s \o t, 1, Len(s))) = Len(s)
      /\ \A i \in 1 .. Len(s) : SubSeq(s \o t, 1, Len(s))[i] = s[i]
  <2> DEFINE u == s \o t
             l == Len(s)
  <2>1. l \in Int /\ 1 \in Int /\ \A i \in 1 .. l : u[i] \in S
    BY <1>1, <1>2
  <2>2. /\ SubSeq(u, 1, l) \in Seq(S)
        /\ Len(SubSeq(u, 1, l)) = IF 1 <= l THEN l - 1 + 1 ELSE 0
        /\ \A i \in 1 .. l - 1 + 1 : SubSeq(u, 1, l)[i] = u[1 + i - 1]
    <3> HIDE DEF u, l
    <3> QED BY <2>1, SubSeqProperties
  <2>3. Len(SubSeq(u, 1, l)) = l
    <3> HIDE DEF u
    <3> QED BY <1>1, <2>2
  <2>4. \A i \in 1 .. l : i \in 1 .. l - 1 + 1 /\ 1 + i - 1 = i
    BY <1>1
  <2>5. \A i \in 1 .. l : SubSeq(u, 1, l)[i] = s[i]
    <3> HIDE DEF u
    <3>1. \A i \in 1 .. l : u[i] = s[i]
      BY <1>1 DEF u
    <3> QED BY <2>2, <2>4, <3>1
  <2>6. SubSeq(s, 1, Len(s)) = s
    BY SubSeqFull
  <2> QED BY <2>2, <2>3, <2>5, <2>6
<1>4. SubSeq(s \o t, 1, Len(s)) = s
  <2> DEFINE v == SubSeq(s \o t, 1, Len(s))
  <2>1. v \in Seq(S) /\ Len(v) = Len(s) /\ \A i \in 1 .. Len(s) : v[i] = s[i]
    BY <1>3
  <2> HIDE DEF v
  <2>2. v = s
    BY <2>1, SeqEqual
  <2> QED BY <2>2 DEF v
<1> QED BY <1>1, <1>3, <1>4 DEF IsPrefix

\* What has been collected is how all of it begins.
LEMMA OwnGrows ==
    ASSUME NEW records, NEW cells \in Seq(Cell(records)), NEW id, NEW nth, NEW type,
           NEW m \in Nat, NEW n \in Nat, m <= n, n <= Len(cells)
    PROVE  IsPrefix(OwnCells(records, cells, id, nth, type)[m],
                    OwnCells(records, cells, id, nth, type)[n])
<1> DEFINE own == OwnCells(records, cells, id, nth, type)
           C == Seq(Cell(records))
           S == {k \in m .. n : \E u \in C : own[k] = own[m] \o u}
<1>1. OwnFacts(records, cells, id, nth, type, own)
  BY OwnSteps
<1> HIDE DEF own
<1>2. Len(cells) \in Nat
  BY LenProperties
<1>3. own[m] \in C
  <2>1. m \in 0 .. Len(cells)
    BY <1>2
  <2> QED BY <1>1, <2>1 DEF OwnFacts
<1>4. m \in S
  <2>1. own[m] \o <<>> = own[m]
    BY <1>3, ConcatEmptySeq
  <2>2. m \in m .. n /\ <<>> \in C
    BY EmptySeq
  <2> HIDE DEF C
  <2> QED BY <2>1, <2>2
<1>5. ASSUME NEW k \in m + 1 .. n, k - 1 \in S PROVE k \in S
  <2>1. k \in 1 .. Len(cells) /\ k \in m .. n
    BY <1>2
  <2>2. PICK u \in C : own[k - 1] = own[m] \o u
    BY <1>5
  <2>3. CASE own[k] = own[k - 1]
    BY <2>1, <2>2, <2>3
  <2>4. CASE own[k] = own[k - 1] \o <<cells[k]>>
    <3>1. <<cells[k]>> \in C
      <4>1. cells[k] \in Cell(records)
        BY <2>1, ElementOfSeq
      <4> QED BY <4>1
    <3>2. u \o <<cells[k]>> \in C
      BY <3>1, ConcatProperties
    <3>3. (own[m] \o u) \o <<cells[k]>> = own[m] \o (u \o <<cells[k]>>)
      <4> DEFINE x == own[m]
                 z == <<cells[k]>>
      <4> HIDE DEF x, z
      <4>1. x \in C /\ z \in C
        BY <1>3, <3>1 DEF x, z
      <4>2. (x \o u) \o z = x \o (u \o z)
        BY <4>1, ConcatAssociative, SMTT(30)
      <4> QED BY <4>2 DEF x, z
    <3>4. own[k] = own[m] \o (u \o <<cells[k]>>)
      BY <2>2, <2>4, <3>3, Zenon
    <3> HIDE DEF C
    <3> QED BY <2>1, <3>2, <3>4
  <2> QED BY <1>1, <2>1, <2>3, <2>4 DEF OwnFacts
<1>6. \A k \in m .. n : k \in S
  <2>1. \A k \in m + 1 .. n : k - 1 \in S => k \in S
    <3> HIDE DEF S
    <3> QED BY <1>5
  <2> HIDE DEF S
  <2> QED BY <1>4, <2>1, Upward
<1>7. PICK u \in C : own[n] = own[m] \o u
  BY <1>6
<1>8. IsPrefix(own[m], own[m] \o u)
  BY <1>3, PrefixJoin
<1>9. IsPrefix(own[m], own[n])
  BY <1>7, <1>8
<1> QED BY <1>9 DEF own

------------------------------
(* Where in the records the reader is.                                     *)

End(i) == Ends(script)[i]
Mine(i) == i \in OwnRecords(script, served + 1)
MarkOf(type) == Mark(script, served + 1, type)

\* The cells of a header do not count until it is processed; Rest and padding of
\* the record are still to come.
Ahead == IF nest = "none" THEN Len(reader.head) ELSE 0
Pos == rdNext - Ahead
Rest == reader.avail + reader.contentLen
Boundary == Pos + Rest + reader.paddingLen

\* The end of a stream, not of a nested call's record.
Closed == reader.isClosed /\ nest = "none"

\* What has come belongs to this request or to one before.
NothingEarly == \A p \in 1 .. buffStop : script[wire[p].rec].nth <= served + 1

\* The reader is in the ith record, or between it and the next.
At(i) ==
    /\ Boundary = End(i)
    /\ nest # "none" => reader.head[1].rec = i
    /\ reader.paddingLen > 0 => i > 0 /\ reader.paddingLen <= script[i].pad
    /\ Rest > 0 =>
          i > 0 /\ reader.paddingLen = script[i].pad /\ Rest <= script[i].len

\* Whose content is in flight.
InFlight(i) ==
    /\ nest = "none" =>
          /\ Rest > 0 =>
                \/ reader.skip /\ reader.avail = 0 /\ ~Mine(i)
                \/ ~reader.skip /\ Mine(i) /\ script[i].type = reader.type
          /\ reader.skip => reader.contentLen > 0
    /\ nest # "none" =>
          /\ ~reader.skip /\ script[i].nth = served + 1
          /\ nest = "body" => script[i].type = "begin"
          /\ nest = "values" => script[i].type = "values" /\ script[i].id = 0

\* The request's begin record has not been read, at most records without an id.
Before(i) ==
    /\ nest = "none" => Rest = 0
    /\ nest = "body" => Mine(i) /\ request.id = script[i].id
    /\ \A j \in 1 .. Len(script) : i < j => served + 1 <= script[j].nth
    /\ \A j \in 1 .. i : script[j].nth = served + 1 =>
          script[j].id = 0 \/ (nest = "body" /\ i = j)

\* What has been read of a stream is what has come of it.
Got(type) == IF type = "params" THEN params ELSE delivered[type]
Whole == \A type \in Streams : Got(type) = OwnUpto(type, rdNext)

\* The record is behind the stream before, and not behind the one that is read.
Within(i) ==
    /\ Whole
    /\ reader.type = "none" \/ Closed => i = MarkOf(reader.type) /\ rdNext = End(i)
    /\ ~(reader.type = "none" \/ Closed) =>
          MarkOf(Prev(reader.type)) <= i /\ i < MarkOf(reader.type)

Placed(i) ==
    /\ At(i) /\ InFlight(i)
    /\ request.begun => Within(i)
    /\ ~request.begun => Before(i)

\* Without an error, the reader knows where it is.
Aligned == Regular /\ reader.error = "none" => \E i \in 0 .. Len(script) : Placed(i)

\* An error before the request has begun ends the call.
Early ==
    ~request.begun /\ reader.error # "none" =>
        pc = "begin" \/ (pc = "nested" /\ reader.isClosed)

\* The request that has begun is the one that the server has sent.
Begun ==
    Regular /\ request.begun =>
        /\ served + 1 \in Requests(script)
        /\ request.id = OwnId(script, served + 1)
        /\ request.role = script[OwnBegin(script, served + 1)].role
        /\ reader.type = "data" => request.role = "filter"
        /\ End(OwnBegin(script, served + 1)) <= Pos

\* After an error the reader may be anywhere; it may be set to the next stream, but
\* the end of the one before is still to come and stops it.
Lost ==
    /\ reader.contentLen = 0 /\ reader.paddingLen = 0 /\ ~reader.skip
    /\ Pos <= End(MarkOf(Prev(reader.type)) - 1) + 1

Skipping ==
    /\ reader.contentLen > 0 => reader.skip
    /\ \E i \in 0 .. Len(script) :
          At(i) /\ InFlight(i) /\ i < MarkOf(Prev(reader.type))

Failing ==
    /\ reader.type # "none"
    /\ nest # "none" => Boundary <= End(MarkOf(reader.type) - 1)
    /\ Closed =>
          /\ reader.type = "params" \/ (reader.type = "stdin" /\ request.role = "filter") =>
                rdNext + reader.avail <= End(MarkOf(reader.type) - 1) + 1
          /\ reader.avail > 0 => pc = "app" /\ call.want = 0
    /\ nest = "none" /\ ~reader.isClosed =>
          reader.type # "params" /\ reader.avail = 0 /\ (Skipping \/ Lost)

Failed == Regular /\ request.begun /\ reader.error # "none" => Failing

Deep ==
    /\ NothingEarly /\ Aligned /\ Early /\ Begun /\ Failed
    /\ EnvComplete /\ InputInOrder

------------------------------
(* Records and cells.                                                      *)

\* Where the records end.
LEMMA EndFacts ==
    ASSUME StateFacts
    PROVE  /\ Len(script) \in Nat /\ Len(wire) \in Nat
           /\ \A i \in 0 .. Len(script) : End(i) \in Nat
           /\ End(0) = 0 /\ End(Len(script)) = Len(wire)
           /\ \A i \in 1 .. Len(script) :
                 /\ script[i] \in Record
                 /\ script[i].len \in Nat /\ script[i].pad \in Nat
                 /\ End(i) = End(i - 1) + 2 + script[i].len + script[i].pad
           /\ \A i, j \in 0 .. Len(script) : i <= j => End(i) <= End(j)
           /\ \A i, j \in 0 .. Len(script) : i < j => End(i) + 2 <= End(j)
<1>1. script \in Seq(Record) /\ Len(wire) \in Nat /\ Len(wire) = End(Len(script))
  BY DEF StateFacts, IsLayout, End
<1>2. /\ Len(script) \in Nat /\ DOMAIN script = 1 .. Len(script)
      /\ \A i \in 0 .. Len(script) : End(i) \in Nat
      /\ End(0) = 0
      /\ \A i \in 1 .. Len(script) : End(i) = End(i - 1) + Size(script[i])
  BY <1>1, EndsProps DEF End
<1>3. ASSUME NEW i \in 1 .. Len(script)
      PROVE  /\ script[i] \in Record
             /\ script[i].len \in Nat /\ script[i].pad \in Nat
             /\ End(i) = End(i - 1) + 2 + script[i].len + script[i].pad
  <2>1. /\ script[i] \in Record
        /\ script[i].len \in Nat /\ script[i].pad \in Nat
    BY <1>1, <1>2, RecordProps
  <2>2. Size(script[i]) = 2 + script[i].len + script[i].pad
    BY DEF Size, HeaderLen
  <2>3. i - 1 \in 0 .. Len(script)
    BY <1>2
  <2>4. End(i - 1) \in Nat /\ End(i) = End(i - 1) + Size(script[i])
    BY <1>2, <2>3
  <2> DEFINE e == End(i - 1)
             f == End(i)
             s == Size(script[i])
             c == script[i].len
             d == script[i].pad
  <2>5. e \in Nat /\ c \in Nat /\ d \in Nat /\ f = e + s /\ s = 2 + c + d
    BY <2>1, <2>2, <2>4
  <2> HIDE DEF e, f, s, c, d
  <2>6. f = e + 2 + c + d
    BY <2>5
  <2> QED BY <2>1, <2>6 DEF e, f, c, d
<1>4. \A i, j \in 0 .. Len(script) : i < j => End(i) + 2 <= End(j)
  BY <1>1, EndsGrow DEF End
<1>5. \A i, j \in 0 .. Len(script) : i <= j => End(i) <= End(j)
  <2>1. ASSUME NEW i \in 0 .. Len(script), NEW j \in 0 .. Len(script), i <= j
        PROVE  End(i) <= End(j)
    <3>1. i = j \/ i < j
      BY <1>2, <2>1
    <3>2. End(i) \in Nat /\ End(j) \in Nat
      BY <1>2
    <3> QED BY <1>4, <3>1, <3>2
  <2> QED BY <2>1
<1>6. \A i \in 1 .. Len(script) :
         /\ script[i] \in Record
         /\ script[i].len \in Nat /\ script[i].pad \in Nat
         /\ End(i) = End(i - 1) + 2 + script[i].len + script[i].pad
  BY <1>3
<1>7. End(Len(script)) = Len(wire)
  BY <1>1
<1> QED BY <1>1, <1>2, <1>4, <1>5, <1>6, <1>7, Zenon

\* The cells of a record.
LEMMA CellFacts ==
    ASSUME StateFacts, NEW i \in 1 .. Len(script), NEW p \in Nat,
           End(i - 1) < p, p <= End(i)
    PROVE  /\ p \in 1 .. Len(wire)
           /\ wire[p] = [rec |-> i, at |-> p - End(i - 1)]
           /\ wire[p].rec = i /\ wire[p].at = p - End(i - 1)
<1>1. /\ End(i - 1) \in Nat /\ End(i) \in Nat /\ End(i) <= Len(wire) /\ Len(wire) \in Nat
      /\ End(i) = End(i - 1) + 2 + script[i].len + script[i].pad
      /\ script[i].len \in Nat /\ script[i].pad \in Nat
  <2>1. /\ i \in 0 .. Len(script) /\ i - 1 \in 0 .. Len(script)
        /\ Len(script) \in 0 .. Len(script) /\ i <= Len(script)
    BY EndFacts
  <2> QED BY <2>1, EndFacts
<1> DEFINE k == p - End(i - 1)
<1>2. k \in 1 .. Size(script[i]) /\ End(i - 1) + k = p
  <2> DEFINE e == End(i - 1)
             f == End(i)
             s == Size(script[i])
  <2>1. s = 2 + script[i].len + script[i].pad
    BY DEF Size, HeaderLen
  <2>2. e \in Nat /\ f \in Nat /\ s \in Nat /\ f = e + s
    <3> DEFINE c == script[i].len
               d == script[i].pad
    <3>1. e \in Nat /\ c \in Nat /\ d \in Nat /\ f = e + 2 + c + d /\ s = 2 + c + d
      BY <1>1, <2>1
    <3> HIDE DEF e, f, s, c, d
    <3> QED BY <3>1
  <2>3. e < p /\ p <= f
    OBVIOUS
  <2> HIDE DEF e, f, s
  <2>4. p - e \in 1 .. s /\ e + (p - e) = p
    BY <2>2, <2>3
  <2> QED BY <2>4 DEF e, s
<1>3. wire[End(i - 1) + k] = [rec |-> i, at |-> k]
  <2> HIDE DEF k
  <2> QED BY <1>2 DEF StateFacts, IsLayout, End
<1>4. p \in 1 .. Len(wire)
  BY <1>1
<1> QED BY <1>2, <1>3, <1>4

\* The record of a cell.
LEMMA RecordOf ==
    ASSUME StateFacts, NEW p \in 1 .. Len(wire)
    PROVE  /\ wire[p].rec \in 1 .. Len(script)
           /\ End(wire[p].rec - 1) < p /\ p <= End(wire[p].rec)
           /\ wire[p].at = p - End(wire[p].rec - 1)
<1> DEFINE i == wire[p].rec
           k == wire[p].at
<1>1. i \in 1 .. Len(script) /\ k \in 1 .. Size(script[i]) /\ p = End(i - 1) + k
  BY LayoutInverse DEF StateFacts, End
<1> HIDE DEF i, k
<1>2. /\ End(i - 1) \in Nat /\ Size(script[i]) = 2 + script[i].len + script[i].pad
      /\ End(i) = End(i - 1) + 2 + script[i].len + script[i].pad
      /\ script[i].len \in Nat /\ script[i].pad \in Nat
  <2>1. i - 1 \in 0 .. Len(script)
    BY <1>1, EndFacts
  <2> QED BY <1>1, <2>1, EndFacts DEF Size, HeaderLen
<1>3. End(i - 1) < p /\ p <= End(i) /\ k = p - End(i - 1)
  <2> DEFINE e == End(i - 1)
             f == End(i)
             s == Size(script[i])
  <2>1. e \in Nat /\ f \in Nat /\ s \in Nat /\ f = e + s
    <3> DEFINE c == script[i].len
               d == script[i].pad
    <3>1. e \in Nat /\ c \in Nat /\ d \in Nat /\ f = e + 2 + c + d /\ s = 2 + c + d
      BY <1>2
    <3> HIDE DEF e, f, s, c, d
    <3> QED BY <3>1
  <2>2. k \in 1 .. s /\ p = e + k
    BY <1>1
  <2> HIDE DEF e, f, s
  <2>3. e < p /\ p <= f /\ k = p - e
    BY <2>1, <2>2
  <2> QED BY <2>3 DEF e, f
<1> QED BY <1>1, <1>3 DEF i, k

\* The header that has been read behind a record is the next one's.
LEMMA NextHeader ==
    ASSUME IInv, pc = "process", NEW i \in 0 .. Len(script), Pos = End(i)
    PROVE  /\ i + 1 \in 1 .. Len(script)
           /\ IsHeader(reader.head) /\ reader.head[1].rec = i + 1
           /\ Header = script[i + 1]
           /\ rdNext = End(i) + 2 /\ rdNext <= End(i + 1)
<1>1. StateFacts
  BY StateProps DEF IInv
<1>2. nest = "none" /\ Len(reader.head) = 2 /\ reader.head # <<>>
  <2>1. nest = "none" /\ Len(reader.head) = 2
    BY SMTT(30) DEF IInv, Heads, HeaderLen
  <2>2. Len(<<>>) = 0
    OBVIOUS
  <2> QED BY <2>1, <2>2
<1>3. /\ rdNext \in Nat /\ buffStop \in Nat /\ Len(wire) \in Nat
      /\ rdNext <= Len(wire)
  BY <1>1 DEF StateFacts
<1>4. /\ Len(script) \in Nat /\ End(i) \in Nat /\ End(Len(script)) = Len(wire)
      /\ rdNext = End(i) + 2
  <2>1. Len(script) \in Nat /\ End(i) \in Nat /\ End(Len(script)) = Len(wire)
    BY <1>1, EndFacts
  <2>2. Pos = rdNext - 2
    BY <1>2 DEF Pos, Ahead
  <2> QED BY <1>3, <2>1, <2>2
<1>5. i + 1 \in 1 .. Len(script) /\ (i + 1) - 1 = i
  <2>1. i # Len(script)
    BY <1>3, <1>4
  <2> QED BY <1>4, <2>1
<1>6. /\ End(i + 1) \in Nat /\ End(i) + 2 <= End(i + 1)
  <2>1. i + 1 \in 0 .. Len(script) /\ i < i + 1
    BY <1>4, <1>5
  <2> QED BY <1>1, <2>1, EndFacts
<1>7. reader.head = SubSeq(wire, rdNext - 2 + 1, rdNext)
  BY <1>2 DEF IInv, HeadIsRead
<1>8. /\ wire[End(i) + 1] = [rec |-> i + 1, at |-> 1]
      /\ wire[End(i) + 2] = [rec |-> i + 1, at |-> 2]
  <2>1. /\ End((i + 1) - 1) = End(i)
        /\ End(i) + 1 \in Nat /\ End(i) < End(i) + 1 /\ End(i) + 1 <= End(i + 1)
        /\ End(i) + 2 \in Nat /\ End(i) < End(i) + 2 /\ End(i) + 2 <= End(i + 1)
        /\ (End(i) + 1) - End(i) = 1 /\ (End(i) + 2) - End(i) = 2
    BY <1>4, <1>5, <1>6
  <2>2. wire[End(i) + 1] = [rec |-> i + 1, at |-> (End(i) + 1) - End((i + 1) - 1)]
    BY <1>1, <1>5, <2>1, CellFacts
  <2>3. wire[End(i) + 2] = [rec |-> i + 1, at |-> (End(i) + 2) - End((i + 1) - 1)]
    BY <1>1, <1>5, <2>1, CellFacts
  <2> QED BY <2>1, <2>2, <2>3
<1>9. /\ reader.head \in Seq(Cell(script)) /\ Len(reader.head) = 2
      /\ reader.head[1] = wire[End(i) + 1] /\ reader.head[2] = wire[End(i) + 2]
  <2> DEFINE e == End(i)
  <2>1. e \in Nat /\ rdNext = e + 2 /\ e <= e + 2 /\ e + 2 \in Nat /\ e + 2 <= Len(wire)
    BY <1>3, <1>4
  <2>2. \A k \in 1 .. (e + 2) - e : SubSeq(wire, e + 1, e + 2)[k] = wire[e + k]
    <3> HIDE DEF e
    <3> QED BY <1>1, <2>1, SegmentProps
  <2>3. reader.head = SubSeq(wire, e + 1, e + 2)
    <3>1. rdNext - 2 + 1 = e + 1
      BY <2>1
    <3> QED BY <1>7, <2>1, <3>1
  <2>4. 1 \in 1 .. (e + 2) - e /\ 2 \in 1 .. (e + 2) - e
    BY <2>1
  <2>5. reader.head[1] = wire[e + 1] /\ reader.head[2] = wire[e + 2]
    <3> HIDE DEF e
    <3> QED BY <2>2, <2>3, <2>4
  <2> QED BY <1>1, <1>2, <2>5 DEF StateFacts
<1>10. reader.head[1].rec = i + 1
  BY <1>8, <1>9
<1>11. IsHeader(reader.head)
  <2>1. \A k \in 1 .. 2 : reader.head[k] = [rec |-> i + 1, at |-> k]
    <3>1. \A k \in 1 .. 2 : k = 1 \/ k = 2
      OBVIOUS
    <3> QED BY <1>8, <1>9, <3>1
  <2>2. reader.head = [k \in 1 .. 2 |-> [rec |-> i + 1, at |-> k]]
    <3>1. reader.head \in [1 .. 2 -> Cell(script)]
      BY <1>9, LenProperties
    <3> QED BY <2>1, <3>1
  <2> QED BY <1>10, <2>2 DEF IsHeader, HeaderLen
<1>12. Header = script[i + 1]
  BY <1>10 DEF Header
<1> QED BY <1>4, <1>5, <1>6, <1>10, <1>11, <1>12

\* What looks like a header is one.
LEMMA HeaderFrom ==
    ASSUME IInv, pc = "process", IsHeader(reader.head)
    PROVE  /\ reader.head[1].rec - 1 \in 0 .. Len(script)
           /\ Pos = End(reader.head[1].rec - 1)
<1>1. StateFacts
  BY StateProps DEF IInv
<1>2. nest = "none" /\ Len(reader.head) = 2 /\ reader.head # <<>>
  <2>1. nest = "none" /\ Len(reader.head) = 2
    BY SMTT(30) DEF IInv, Heads, HeaderLen
  <2>2. Len(<<>>) = 0
    OBVIOUS
  <2> QED BY <2>1, <2>2
<1>3. reader.head = SubSeq(wire, rdNext - 2 + 1, rdNext) /\ 2 <= rdNext
  BY <1>2 DEF IInv, HeadIsRead
<1> DEFINE e == rdNext - 2
           j == reader.head[1].rec
<1>4. e \in Nat /\ rdNext = e + 2 /\ e + 2 \in Nat /\ e + 2 <= Len(wire) /\ Len(wire) \in Nat
  BY <1>1, <1>3 DEF StateFacts
<1>5. reader.head[1] = wire[e + 1]
  <2>1. \A k \in 1 .. (e + 2) - e : SubSeq(wire, e + 1, e + 2)[k] = wire[e + k]
    <3>1. e <= e + 2
      BY <1>4
    <3> HIDE DEF e
    <3> QED BY <1>1, <1>4, <3>1, SegmentProps
  <2>2. 1 \in 1 .. (e + 2) - e
    BY <1>4
  <2>3. reader.head = SubSeq(wire, e + 1, e + 2)
    BY <1>3, <1>4
  <2> HIDE DEF e
  <2> QED BY <2>1, <2>2, <2>3
<1>6. wire[e + 1] = [rec |-> j, at |-> 1]
  <2>1. reader.head[1] = [rec |-> j, at |-> 1]
    <3>1. 1 \in 1 .. 2
      OBVIOUS
    <3> QED BY <3>1 DEF IsHeader, HeaderLen
  <2> QED BY <1>5, <2>1
<1>7. e + 1 \in 1 .. Len(wire)
  BY <1>4
<1> HIDE DEF e
<1>8. /\ wire[e + 1].rec \in 1 .. Len(script)
      /\ wire[e + 1].at = (e + 1) - End(wire[e + 1].rec - 1)
  BY <1>1, <1>7, RecordOf
<1>9. wire[e + 1].rec = j /\ wire[e + 1].at = 1
  BY <1>6
<1> HIDE DEF j
<1>10. j \in 1 .. Len(script) /\ 1 = (e + 1) - End(j - 1) /\ Len(script) \in Nat
  BY <1>1, <1>8, <1>9, EndFacts
<1>11. j - 1 \in 0 .. Len(script)
  BY <1>10
<1>12. End(j - 1) \in Nat
  BY <1>1, <1>11, EndFacts
<1>13. e = End(j - 1)
  BY <1>4, <1>10, <1>12
<1>14. Pos = e
  BY <1>2 DEF Pos, Ahead, e
<1> QED BY <1>11, <1>13, <1>14 DEF j

------------------------------
(* Steps that stay in the record.                                          *)

\* The numbers that say where the reader is.
LEMMA HereFacts ==
    ASSUME IInv
    PROVE  /\ StateFacts /\ rdNext <= Len(wire)
           /\ Ahead \in Nat /\ Pos \in Nat /\ rdNext = Pos + Ahead
           /\ Rest \in Nat /\ Rest = reader.avail + reader.contentLen
           /\ Boundary \in Nat /\ Boundary = Pos + Rest + reader.paddingLen
           /\ nest # "none" => Ahead = 0
           /\ Ahead > 0 => Rest = 0 /\ reader.paddingLen = 0
           /\ pc = "process" => Ahead = 2 /\ Rest = 0 /\ reader.paddingLen = 0
           /\ pc # "process" => Ahead <= 1
           /\ pc \in {"begin", "params", "app"} => Ahead = 0 /\ nest = "none"
<1>1. StateFacts
  BY StateProps DEF IInv
<1>2. /\ rdNext \in Nat /\ rdNext <= Len(wire)
      /\ reader.contentLen \in Nat /\ reader.paddingLen \in Nat /\ reader.avail \in Nat
      /\ Len(reader.head) \in Nat /\ Len(reader.head) <= 2
      /\ reader.head \in Seq(Cell(script)) /\ HeaderLen = 2
  BY <1>1 DEF StateFacts
<1>3. /\ Ahead \in Nat
      /\ nest # "none" => Ahead = 0
      /\ nest = "none" => Ahead = Len(reader.head)
  BY <1>2 DEF Ahead
<1>4. /\ pc = "process" => nest = "none" /\ Len(reader.head) = 2
      /\ nest = "none" /\ pc # "process" => Len(reader.head) < 2
      /\ pc \in {"begin", "params", "app"} => nest = "none" /\ reader.head = <<>>
      /\ pc = "nested" => nest # "none"
      /\ nest = "none" /\ reader.head # <<>> => reader.contentLen = 0 /\ reader.paddingLen = 0
      /\ nest = "none" /\ reader.head # <<>> => Len(reader.head) <= rdNext
  BY <1>2 DEF IInv, Heads, HeadIsRead
<1>5. Len(<<>>) = 0 /\ (Len(reader.head) > 0 => reader.head # <<>>)
  OBVIOUS
<1>6. pc \in Filling => reader.avail = 0
  BY DEF IInv, Phases
<1>7. pc \in Filling \cup {"nested", "begin", "params", "app"}
  BY DEF IInv, Types, Filling
<1>8. Ahead <= rdNext
  BY <1>2, <1>3, <1>4, <1>5
<1>9. Ahead > 0 => reader.avail = 0 /\ reader.contentLen = 0 /\ reader.paddingLen = 0
  <2>1. SUFFICES ASSUME Ahead > 0 PROVE reader.avail = 0 /\ reader.contentLen = 0
         /\ reader.paddingLen = 0
    OBVIOUS
  <2>2. nest = "none" /\ reader.head # <<>>
    BY <1>3, <1>5, <2>1
  <2>3. pc \in Filling
    BY <1>4, <1>7, <2>2
  <2> QED BY <1>4, <1>6, <2>2, <2>3
<1>10. /\ Pos \in Nat /\ rdNext = Pos + Ahead
  BY <1>2, <1>3, <1>8 DEF Pos
<1>11. /\ Rest \in Nat /\ Rest = reader.avail + reader.contentLen
  BY <1>2 DEF Rest
<1>12. Boundary \in Nat /\ Boundary = Pos + Rest + reader.paddingLen
  BY <1>2, <1>10, <1>11 DEF Boundary
<1>13. pc = "process" => Ahead = 2
  BY <1>3, <1>4
<1>14. pc # "process" => Ahead <= 1
  BY <1>2, <1>3, <1>4
<1>15. pc \in {"begin", "params", "app"} => Ahead = 0 /\ nest = "none"
  BY <1>3, <1>4, <1>5
<1>16. /\ Ahead > 0 => Rest = 0 /\ reader.paddingLen = 0
       /\ pc = "process" => Rest = 0 /\ reader.paddingLen = 0
  BY <1>9, <1>11, <1>13
<1> QED BY <1>1, <1>2, <1>3, <1>10, <1>11, <1>12, <1>13, <1>14, <1>15, <1>16, Zenon

\* The cells that are a record's own content.
LEMMA OwnCellAt ==
    ASSUME StateFacts, NEW i \in 1 .. Len(script), NEW p \in Nat,
           End(i - 1) < p, p <= End(i), NEW id, NEW n, NEW type
    PROVE  IsOwnCell(script, id, n, type, wire[p]) <=>
              /\ script[i].type = type /\ script[i].id = id /\ script[i].nth = n
              /\ End(i - 1) + 2 < p /\ p <= End(i) - script[i].pad
<1>1. wire[p].rec = i /\ wire[p].at = p - End(i - 1)
  BY CellFacts
<1> DEFINE e == End(i - 1)
           f == End(i)
           c == script[i].len
           d == script[i].pad
<1>2. e \in Nat /\ f \in Nat /\ c \in Nat /\ d \in Nat /\ f = e + 2 + c + d
  <2>1. i \in 0 .. Len(script) /\ i - 1 \in 0 .. Len(script)
    BY EndFacts
  <2> QED BY <2>1, EndFacts
<1>3. HeaderLen < p - e /\ p - e <= HeaderLen + c <=> e + 2 < p /\ p <= f - d
  <2>1. HeaderLen = 2
    BY DEF HeaderLen
  <2> HIDE DEF e, f, c, d
  <2> QED BY <1>2, <2>1
<1>4. IsOwnCell(script, id, n, type, wire[p]) <=>
         /\ script[i].type = type /\ script[i].id = id /\ script[i].nth = n
         /\ HeaderLen < p - e /\ p - e <= HeaderLen + c
  <2> HIDE DEF e
  <2>1. wire[p].rec = i /\ wire[p].at = p - e
    BY <1>1 DEF e
  <2> QED BY <2>1 DEF IsOwnCell
<1> HIDE DEF e, f, c, d
<1>5. IsOwnCell(script, id, n, type, wire[p]) <=>
         /\ script[i].type = type /\ script[i].id = id /\ script[i].nth = n
         /\ e + 2 < p /\ p <= f - d
  BY <1>3, <1>4
<1> QED BY <1>5 DEF e, f, d

\* No content of the request's streams is consumed.
Unowned ==
    \A type \in Streams : \A p \in rdNext + 1 .. rdNext' :
        ~IsOwnCell(script, request.id, served + 1, type, wire[p])

\* What has been read stays whole, if no content of it is consumed.
LEMMA WholeStays ==
    ASSUME IInv, Whole, Unowned,
           UNCHANGED <<script, wire, served, request, params, delivered>>,
           rdNext' \in Nat, rdNext <= rdNext', rdNext' <= Len(wire)
    PROVE  Whole'
<1>1. wire \in Seq(Cell(script)) /\ rdNext \in Nat
  BY HereFacts DEF StateFacts
<1>2. ASSUME NEW type \in Streams
      PROVE  Got(type)' = OwnUpto(type, rdNext)'
  <2> DEFINE own == OwnCells(script, wire, request.id, served + 1, type)
  <2>1. own[rdNext'] = own[rdNext]
    <3>1. \A p \in rdNext + 1 .. rdNext' :
             ~IsOwnCell(script, request.id, served + 1, type, wire[p])
      BY DEF Unowned
    <3> QED BY <1>1, <3>1, OwnSame
  <2>2. Got(type) = own[rdNext]
    <3>1. Got(type) = OwnUpto(type, rdNext)
      BY DEF Whole
    <3> QED BY <3>1, OwnUptoIs
  <2>3. OwnUpto(type, rdNext)' = own[rdNext']
    BY ZenonT(30) DEF OwnUpto, OwnCells, IsOwn, IsOwnCell
  <2>4. Got(type)' = Got(type)
    BY Zenon DEF Got
  <2> HIDE DEF own
  <2> QED BY <2>1, <2>2, <2>3, <2>4
<1> QED BY <1>2 DEF Whole

\* Such a step consumes what is in flight, or padding, or a part of a header.
Stays ==
    /\ UNCHANGED <<script, wire, served, request, nest, params, delivered>>
    /\ excused \subseteq excused'
    /\ call'.client = call.client
    /\ reader'.type = reader.type /\ reader'.error = reader.error
    /\ reader'.head = reader.head \/ nest = "none"
    /\ rdNext' \in Nat /\ rdNext <= rdNext' /\ rdNext' <= Len(wire)
    /\ Pos' \in Nat /\ Pos <= Pos' /\ Boundary' = Boundary
    /\ reader'.paddingLen \in Nat /\ reader'.paddingLen <= reader.paddingLen
    /\ reader'.avail \in Nat /\ reader'.contentLen \in Nat
    /\ Rest' <= Rest /\ reader'.contentLen <= reader.contentLen
    /\ Rest' > 0 => reader'.paddingLen = reader.paddingLen /\ reader'.skip = reader.skip
    /\ reader'.skip =>
          /\ reader.skip /\ reader'.avail <= reader.avail
          /\ reader.contentLen > 0 => reader'.contentLen > 0
    /\ reader'.avail > reader.avail => nest # "none" \/ (~reader.skip /\ reader.contentLen > 0)
    /\ Closed' <=> Closed
    /\ Closed => rdNext' = rdNext /\ reader'.avail = reader.avail
    /\ Closed /\ reader.avail > 0 => pc' = pc /\ call' = call
    /\ pc = "begin" => pc' = "begin" /\ rdNext' = rdNext
    /\ pc = "nested" /\ reader.isClosed => pc' = "nested" /\ reader'.isClosed

\* What is left of the record is a number, before and after.
LEMMA RestStays ==
    ASSUME IInv, Stays
    PROVE  /\ Rest \in Nat /\ reader.avail \in Nat /\ reader.contentLen \in Nat
           /\ Rest = reader.avail + reader.contentLen
           /\ Rest' \in Nat /\ reader'.avail \in Nat /\ reader'.contentLen \in Nat
           /\ Rest' = reader'.avail + reader'.contentLen
           /\ reader.paddingLen \in Nat /\ reader'.paddingLen \in Nat
<1>1. /\ reader'.avail \in Nat /\ reader'.contentLen \in Nat
      /\ reader'.paddingLen \in Nat
  BY DEF Stays
<1>2. Rest' = reader'.avail + reader'.contentLen
  BY DEF Rest
<1>3. /\ reader.avail \in Nat /\ reader.contentLen \in Nat
      /\ reader.paddingLen \in Nat
      /\ Rest \in Nat /\ Rest = reader.avail + reader.contentLen
  BY HereFacts DEF StateFacts
<1>4. Rest' \in Nat
  BY <1>1, <1>2
<1> QED BY <1>1, <1>2, <1>3, <1>4

\* The reader stays in its record ...
LEMMA AtStays ==
    ASSUME IInv, Stays, NEW i \in 0 .. Len(script), At(i)
    PROVE  At(i)'
<1>1. /\ Rest \in Nat /\ Rest' \in Nat /\ reader.paddingLen \in Nat
      /\ reader'.paddingLen \in Nat
  BY RestStays
<1>2. End(i)' = End(i)
  BY DEF End, Stays
<1>3. Boundary' = End(i)'
  BY <1>2 DEF At, Stays
<1>4. (script[i].pad \in Int /\ script[i].len \in Int) \/ i = 0
  BY EndFacts, HereFacts
<1>5. nest' # "none" => reader'.head[1].rec = i
  BY DEF At, Stays
<1>6. reader'.paddingLen > 0 => i > 0 /\ reader'.paddingLen <= script[i].pad
  BY <1>1, <1>4 DEF At, Stays
<1>7. Rest' > 0 => i > 0 /\ reader'.paddingLen = script[i].pad /\ Rest' <= script[i].len
  BY <1>1, <1>4 DEF At, Stays
<1>8. script' = script
  BY DEF Stays
<1> QED BY <1>3, <1>5, <1>6, <1>7, <1>8 DEF At

\* ... what is in flight stays what it was ...
LEMMA InFlightStays ==
    ASSUME IInv, Stays, NEW i \in 0 .. Len(script), InFlight(i)
    PROVE  InFlight(i)'
<1>1. /\ Rest \in Nat /\ Rest' \in Nat /\ reader.avail \in Nat /\ reader.contentLen \in Nat
      /\ reader'.avail \in Nat /\ reader'.contentLen \in Nat
      /\ Rest = reader.avail + reader.contentLen /\ Rest' = reader'.avail + reader'.contentLen
  BY RestStays
<1>3. /\ nest' = nest /\ script' = script /\ (Mine(i)' <=> Mine(i))
      /\ reader'.type = reader.type /\ served' = served
  BY DEF Stays, Mine
<1>4. CASE nest = "none"
  <2>1. reader'.skip => reader'.contentLen > 0 /\ reader'.avail = 0
    <3>1. SUFFICES ASSUME reader'.skip PROVE reader'.contentLen > 0 /\ reader'.avail = 0
      OBVIOUS
    <3>2. reader.skip /\ reader'.avail <= reader.avail /\ reader.contentLen > 0
      BY <1>4, <3>1 DEF Stays, InFlight
    <3>3. reader.avail = 0
      BY <1>1, <1>4, <3>2 DEF InFlight
    <3>4. reader'.contentLen > 0
      BY <3>1, <3>2 DEF Stays
    <3> QED BY <1>1, <3>2, <3>3, <3>4
  <2>2. Rest' > 0 =>
           \/ reader'.skip /\ reader'.avail = 0 /\ ~Mine(i)
           \/ ~reader'.skip /\ Mine(i) /\ script[i].type = reader.type
    <3>1. SUFFICES ASSUME Rest' > 0
          PROVE  \/ reader'.skip /\ reader'.avail = 0 /\ ~Mine(i)
                 \/ ~reader'.skip /\ Mine(i) /\ script[i].type = reader.type
      OBVIOUS
    <3>2. Rest > 0 /\ reader'.skip = reader.skip
      BY <1>1, <3>1 DEF Stays
    <3>3. \/ reader.skip /\ reader.avail = 0 /\ ~Mine(i)
          \/ ~reader.skip /\ Mine(i) /\ script[i].type = reader.type
      BY <1>4, <3>2 DEF InFlight
    <3> QED BY <2>1, <3>2, <3>3
  <2> QED BY <1>3, <1>4, <2>1, <2>2 DEF InFlight
<1>5. CASE nest # "none"
  <2>1. ~reader.skip /\ ~reader'.skip
    BY <1>5 DEF InFlight, Stays
  <2> QED BY <1>3, <1>5, <2>1 DEF InFlight
<1> QED BY <1>4, <1>5

\* ... a request that has not begun does not begin ...
LEMMA BeforeStays ==
    ASSUME IInv, Stays, NEW i \in 0 .. Len(script), Before(i)
    PROVE  Before(i)'
<1>1. Rest \in Nat /\ Rest' \in Nat
  BY RestStays
<1>2. /\ nest' = nest /\ script' = script /\ (Mine(i)' <=> Mine(i))
      /\ served' = served /\ request' = request
  BY DEF Stays, Mine
<1>3. nest = "none" => Rest' = 0
  BY <1>1 DEF Stays, Before
<1> QED BY <1>2, <1>3 DEF Before

\* ... and one that has begun stays between the ends of its streams.
LEMMA WithinStays ==
    ASSUME IInv, Stays, NEW i \in 0 .. Len(script), request.begun, Within(i), Unowned
    PROVE  Within(i)'
<1>1. Whole'
  <2>1. Whole /\ UNCHANGED <<script, wire, served, request, params, delivered>>
        /\ rdNext' \in Nat /\ rdNext <= rdNext' /\ rdNext' <= Len(wire)
    BY DEF Within, Stays
  <2> QED BY <2>1, WholeStays
<1>2. reader'.type = reader.type /\ (Closed' <=> Closed)
  BY DEF Stays
<1>3. /\ End(i)' = End(i) /\ MarkOf(reader.type)' = MarkOf(reader.type)
      /\ MarkOf(Prev(reader.type))' = MarkOf(Prev(reader.type))
  BY <1>2, Zenon DEF End, MarkOf, Stays
<1>4. reader.type = "none" \/ Closed => rdNext' = rdNext
  <2>1. reader.type = "none" => pc = "begin"
    BY DEF IInv, Callers, Types
  <2> QED BY <2>1 DEF Stays
<1>5. reader'.type = "none" \/ Closed' => i = MarkOf(reader.type)' /\ rdNext' = End(i)'
  BY <1>2, <1>3, <1>4 DEF Within
<1>6. ~(reader'.type = "none" \/ Closed') =>
         MarkOf(Prev(reader.type))' <= i /\ i < MarkOf(reader.type)'
  BY <1>2, <1>3 DEF Within
<1> QED BY <1>1, <1>5, <1>6 DEF Within

------------------------------
(* What the properties need of a step.                                     *)

\* Most steps are within a request, and leave alone what has come of it.
Same ==
    /\ UNCHANGED <<script, wire, served, request, params, delivered>>
    /\ excused \subseteq excused'

\* A connection does not become regular.
LEMMA RegularSame ==
    ASSUME Same, Regular'
    PROVE  Regular
<1>1. WellFormed(script) /\ script' = script
  BY DEF Regular, Same
<1>2. "unread" \notin excused
  BY DEF Regular, Same
<1> QED BY <1>1, <1>2 DEF Regular

\* What has been delivered stays in order.
LEMMA InputSame ==
    ASSUME Same, InputInOrder
    PROVE  InputInOrder'
<1>1. SUFFICES ASSUME Regular', NEW type \in DOMAIN delivered'
      PROVE  IsPrefix(delivered'[type], Own(type)')
  BY DEF InputInOrder
<1>2. Regular
  BY <1>1, RegularSame
<1>3. Own(type)' = Own(type)
  BY ZenonT(30) DEF Own, OwnUpto, IsOwn, Same
<1>4. delivered' = delivered
  BY DEF Same
<1>5. IsPrefix(delivered[type], Own(type))
  BY <1>1, <1>2, <1>4 DEF InputInOrder
<1> QED BY <1>3, <1>4, <1>5, Zenon

\* The environment stays complete.
LEMMA EnvSame ==
    ASSUME Same, EnvComplete,
           reader'.error = "none" => reader.error = "none",
           call'.client = "app" => call.client = "app"
    PROVE  EnvComplete'
<1>1. SUFFICES ASSUME Regular', call'.client = "app", reader'.error = "none"
      PROVE  params' = Own("params")'
  BY DEF EnvComplete
<1>2. params = Own("params")
  BY <1>1, RegularSame DEF EnvComplete
<1>3. Own("params")' = Own("params")
  BY ZenonT(30) DEF Own, OwnUpto, IsOwn, Same
<1>4. params' = params
  BY DEF Same
<1> QED BY <1>2, <1>3, <1>4, Zenon

\* The request stays the one that the server has sent.
LEMMA BegunSame ==
    ASSUME IInv, Same, Begun, reader'.type = reader.type,
           Pos' \in Nat, Pos <= Pos'
    PROVE  Begun'
<1>1. SUFFICES ASSUME Regular', request'.begun
      PROVE  /\ served' + 1 \in Requests(script')
             /\ request'.id = OwnId(script', served' + 1)
             /\ request'.role = script'[OwnBegin(script', served' + 1)].role
             /\ reader'.type = "data" => request'.role = "filter"
             /\ End(OwnBegin(script, served + 1))' <= Pos'
  BY DEF Begun
<1>2. script' = script /\ served' = served /\ request' = request
  BY DEF Same
<1>3. /\ served + 1 \in Requests(script)
      /\ request.id = OwnId(script, served + 1)
      /\ request.role = script[OwnBegin(script, served + 1)].role
      /\ reader.type = "data" => request.role = "filter"
      /\ End(OwnBegin(script, served + 1)) <= Pos
  BY <1>1, <1>2, RegularSame DEF Begun
<1>4. End(OwnBegin(script, served + 1))' = End(OwnBegin(script, served + 1))
  BY <1>2 DEF End
<1>5. End(OwnBegin(script, served + 1)) \in Nat
  <2>1. script \in Seq(Record) /\ WellFormed(script)
    BY <1>1, RegularSame, HereFacts DEF Regular, StateFacts
  <2>2. OwnBegin(script, served + 1) \in OwnRecords(script, served + 1)
    BY <1>3, <2>1, BeginProps
  <2>3. OwnBegin(script, served + 1) \in 0 .. Len(script)
    BY <1>3, <2>1, <2>2, OwnProps
  <2> QED BY <2>3, HereFacts, EndFacts
<1>6. Pos \in Nat
  BY HereFacts
<1>7. End(OwnBegin(script, served + 1))' <= Pos'
  BY <1>3, <1>4, <1>5, <1>6
<1> QED BY <1>2, <1>3, <1>7

\* An error before the request has begun stays one.
LEMMA EarlySame ==
    ASSUME Same, Early, reader'.error = reader.error,
           pc = "begin" => pc' = "begin",
           pc = "nested" /\ reader.isClosed => pc' = "nested" /\ reader'.isClosed
    PROVE  Early'
<1>1. request' = request
  BY DEF Same
<1> QED BY <1>1 DEF Early

\* Nothing is read from beyond the request.
LEMMA NotEarlySame ==
    ASSUME Same, NothingEarly, buffStop' = buffStop
    PROVE  NothingEarly'
<1>1. script' = script /\ wire' = wire /\ served' = served
  BY DEF Same
<1> QED BY <1>1 DEF NothingEarly

\* A reader that has failed does not recover.
LEMMA FailingStays ==
    ASSUME IInv, Stays, Failing
    PROVE  Failing'
<1>1. /\ End(MarkOf(reader.type) - 1)' = End(MarkOf(reader.type) - 1)
      /\ End(MarkOf(Prev(reader.type)) - 1)' = End(MarkOf(Prev(reader.type)) - 1)
      /\ MarkOf(Prev(reader.type))' = MarkOf(Prev(reader.type))
  BY Zenon DEF End, MarkOf, Stays
<1>2. /\ reader'.type = reader.type /\ nest' = nest /\ (Closed' <=> Closed)
      /\ Boundary' = Boundary /\ request' = request /\ script' = script
  BY DEF Stays
<1>3. reader'.type # "none"
  BY <1>2 DEF Failing
<1>4. nest' # "none" => Boundary' <= End(MarkOf(reader.type) - 1)'
  BY <1>1, <1>2 DEF Failing
<1>5. Closed' =>
          /\ reader'.type = "params" \/ (reader'.type = "stdin" /\ request'.role = "filter") =>
                rdNext' + reader'.avail <= End(MarkOf(reader.type) - 1)' + 1
          /\ reader'.avail > 0 => pc' = "app" /\ call'.want = 0
  <2>1. SUFFICES ASSUME Closed
        PROVE  /\ reader'.type = "params" \/ (reader'.type = "stdin" /\ request'.role = "filter") =>
                    rdNext' + reader'.avail <= End(MarkOf(reader.type) - 1)' + 1
               /\ reader'.avail > 0 => pc' = "app" /\ call'.want = 0
    BY <1>2
  <2>2. /\ reader.type = "params" \/ (reader.type = "stdin" /\ request.role = "filter") =>
              rdNext + reader.avail <= End(MarkOf(reader.type) - 1) + 1
        /\ reader.avail > 0 => pc = "app" /\ call.want = 0
    BY <2>1 DEF Failing
  <2>3. rdNext' = rdNext /\ reader'.avail = reader.avail
    BY <2>1 DEF Stays
  <2>4. reader.avail > 0 => pc' = pc /\ call' = call
    BY <2>1 DEF Stays
  <2> QED BY <1>1, <1>2, <2>2, <2>3, <2>4
<1>6. ASSUME nest = "none", ~Closed
      PROVE  reader'.type # "params" /\ reader'.avail = 0 /\ (Skipping' \/ Lost')
  <2>1. /\ reader.type # "params" /\ reader.avail = 0
        /\ Skipping \/ Lost
    BY <1>6 DEF Failing, Closed
  <2>2. reader'.avail = 0
    <3>1. ~(~reader.skip /\ reader.contentLen > 0)
      BY <2>1, RestStays DEF Skipping, Lost
    <3>2. ~(reader'.avail > reader.avail)
      BY <1>6, <3>1 DEF Stays
    <3> QED BY <2>1, <3>2, RestStays
  <2>3. reader'.contentLen > 0 => reader.contentLen > 0 /\ reader'.skip = reader.skip
    BY RestStays DEF Stays
  <2>4. CASE Skipping
    <3>1. reader'.contentLen > 0 => reader'.skip
      BY <2>3, <2>4 DEF Skipping
    <3>2. PICK i \in 0 .. Len(script) :
             At(i) /\ InFlight(i) /\ i < MarkOf(Prev(reader.type))
      BY <2>4 DEF Skipping
    <3>3. At(i)' /\ InFlight(i)'
      BY <3>2, AtStays, InFlightStays
    <3>4. i < MarkOf(Prev(reader.type))' /\ i \in 0 .. Len(script')
      BY <1>1, <1>2, <3>2
    <3> QED BY <1>2, <2>1, <2>2, <3>1, <3>3, <3>4 DEF Skipping
  <2>5. CASE Lost
    <3>1. reader'.contentLen = 0 /\ reader'.paddingLen = 0 /\ ~reader'.skip
      BY <2>5, RestStays DEF Stays, Lost
    <3>2. Pos' = Pos
      <4>1. Boundary' = Pos' + Rest' + reader'.paddingLen /\ Rest' = 0
        BY <2>2, <3>1, RestStays DEF Boundary
      <4>2. Boundary = Pos + Rest + reader.paddingLen /\ Rest = 0 /\ reader.paddingLen = 0
        BY <2>1, <2>5, HereFacts DEF Lost
      <4>3. Pos \in Nat /\ Pos' \in Nat
        BY HereFacts DEF Stays
      <4>4. Boundary' = Pos'
        <5>1. Boundary' = Pos' + 0 + 0
          BY <3>1, <4>1, Zenon
        <5> DEFINE p == Pos'
        <5>2. p \in Nat
          BY <4>3
        <5> HIDE DEF p
        <5>3. p + 0 + 0 = p
          BY <5>2
        <5> QED BY <5>1, <5>3 DEF p
      <4>5. Boundary = Pos
        BY <4>2, <4>3
      <4> QED BY <1>2, <4>4, <4>5
    <3>3. Pos' <= End(MarkOf(Prev(reader.type)) - 1)' + 1
      BY <1>1, <2>5, <3>2 DEF Lost
    <3> QED BY <1>2, <2>1, <2>2, <3>1, <3>3 DEF Lost
  <2> QED BY <1>2, <2>1, <2>2, <2>4, <2>5
<1>7. nest' = "none" /\ ~reader'.isClosed =>
         reader'.type # "params" /\ reader'.avail = 0 /\ (Skipping' \/ Lost')
  BY <1>2, <1>6 DEF Closed
<1> QED BY <1>1, <1>3, <1>4, <1>5, <1>7, <1>2 DEF Failing

\* Such a step keeps the reader aligned.
LEMMA StaysDeep ==
    ASSUME IInv, Deep, Stays, NothingEarly',
           \A i \in 0 .. Len(script) :
              Regular /\ request.begun /\ reader.error = "none" /\ Placed(i) => Unowned
    PROVE  Deep'
<1>1. Same /\ reader'.type = reader.type /\ reader'.error = reader.error
      /\ call'.client = call.client /\ Pos' \in Nat /\ Pos <= Pos'
  BY DEF Stays, Same
<1>2. Aligned'
  <2>1. SUFFICES ASSUME Regular', reader'.error = "none"
        PROVE  (\E i \in 0 .. Len(script) : Placed(i))'
    BY DEF Aligned
  <2>2. Regular /\ reader.error = "none" /\ script' = script /\ request' = request
    BY <1>1, <2>1, RegularSame DEF Same
  <2>3. PICK i \in 0 .. Len(script) : Placed(i)
    BY <2>2 DEF Deep, Aligned
  <2>4. At(i)' /\ InFlight(i)'
    BY <2>3, AtStays, InFlightStays DEF Placed
  <2>5. request.begun => Within(i)'
    BY <2>2, <2>3, WithinStays DEF Placed
  <2>6. ~request.begun => Before(i)'
    BY <2>3, BeforeStays DEF Placed
  <2>7. Placed(i)'
    BY <2>2, <2>4, <2>5, <2>6 DEF Placed
  <2>8. i \in 0 .. Len(script')
    BY <2>2
  <2> QED BY <2>7, <2>8
<1>3. Early'
  BY <1>1, EarlySame DEF Deep, Stays
<1>4. Begun'
  BY <1>1, BegunSame DEF Deep
<1>5. Failed'
  <2>1. SUFFICES ASSUME Regular', request'.begun, reader'.error # "none"
        PROVE  Failing'
    BY DEF Failed
  <2>2. Regular /\ reader.error # "none" /\ request.begun
    BY <1>1, <2>1, RegularSame DEF Same
  <2>3. Failing
    BY <2>2 DEF Deep, Failed
  <2> QED BY <2>3, FailingStays
<1>6. EnvComplete'
  BY <1>1, EnvSame DEF Deep
<1>7. InputInOrder'
  BY <1>1, InputSame DEF Deep
<1> QED BY <1>2, <1>3, <1>4, <1>5, <1>6, <1>7 DEF Deep

------------------------------
(* Where none of the request's content is consumed.                        *)

\* If nothing is consumed.
LEMMA UnownedNone ==
    ASSUME IInv, rdNext' = rdNext
    PROVE  Unowned
<1>1. \A p \in rdNext + 1 .. rdNext' : FALSE
  <2>1. rdNext \in Nat
    BY HereFacts DEF StateFacts
  <2> QED BY <2>1
<1> QED BY <1>1 DEF Unowned

\* If what is consumed is of one record: another's, of no stream, a header, or padding.
LEMMA UnownedIn ==
    ASSUME IInv, NEW i \in 1 .. Len(script), request.id = OwnId(script, served + 1),
           rdNext' \in Nat, End(i - 1) <= rdNext, rdNext' <= End(i),
           \/ ~Mine(i) \/ script[i].type \notin Streams
           \/ rdNext' <= End(i - 1) + 2 \/ End(i) - script[i].pad <= rdNext
    PROVE  Unowned
<1>1. SUFFICES ASSUME NEW type \in Streams, NEW p \in rdNext + 1 .. rdNext',
                      IsOwnCell(script, request.id, served + 1, type, wire[p])
      PROVE  FALSE
  BY DEF Unowned
<1>2. StateFacts /\ rdNext \in Nat
  BY HereFacts DEF StateFacts
<1>3. End(i - 1) \in Nat /\ End(i) \in Nat /\ script[i].pad \in Nat
       /\ DOMAIN script = 1 .. Len(script)
  <2>1. i \in 0 .. Len(script) /\ i - 1 \in 0 .. Len(script)
    BY <1>2, EndFacts
  <2> QED BY <1>2, <2>1, EndFacts DEF StateFacts
<1>4. /\ p \in Nat /\ End(i - 1) < p /\ p <= End(i)
      /\ rdNext < p /\ p <= rdNext'
  BY <1>2, <1>3
<1>5. /\ script[i].type = type /\ script[i].id = request.id /\ script[i].nth = served + 1
      /\ End(i - 1) + 2 < p /\ p <= End(i) - script[i].pad
  BY <1>1, <1>2, <1>4, OwnCellAt
<1>6. Mine(i)
  BY <1>3, <1>5 DEF Mine, OwnRecords
<1>7. ~(rdNext' <= End(i - 1) + 2)
  BY <1>3, <1>4, <1>5
<1>8. ~(End(i) - script[i].pad <= rdNext)
  BY <1>2, <1>3, <1>4, <1>5
<1> QED BY <1>1, <1>5, <1>6, <1>7, <1>8

\* What is consumed is taken from what is left of the record, or is a header's.
LEMMA BoundaryStays ==
    ASSUME IInv, NEW count \in Nat, NEW a \in Nat, NEW c \in Nat, NEW d \in Nat,
           rdNext' = rdNext + count, Ahead' = Ahead + a, Rest' = c, reader'.paddingLen = d,
           a <= count, count + c + d = a + Rest + reader.paddingLen
    PROVE  /\ Pos' \in Nat /\ Pos <= Pos' /\ Boundary' = Boundary
           /\ rdNext' \in Nat /\ rdNext <= rdNext'
<1> DEFINE h == Ahead
           r == Rest
           n == reader.paddingLen
           x == Pos
<1>1. /\ h \in Nat /\ r \in Nat /\ n \in Nat /\ x \in Nat
      /\ rdNext = x + h /\ Boundary = x + r + n
  BY HereFacts DEF StateFacts
<1>2. Pos' = rdNext' - Ahead' /\ Boundary' = Pos' + c + d
  BY DEF Pos, Boundary
<1>3. rdNext' = rdNext + count /\ Ahead' = h + a /\ count + c + d = a + r + n
  OBVIOUS
<1> HIDE DEF h, r, n, x
<1>4. Pos' = x + count - a
  <2>1. Pos' = ((x + h) + count) - (h + a)
    BY <1>1, <1>2, <1>3, Zenon
  <2>2. ((x + h) + count) - (h + a) = x + count - a
    BY <1>1
  <2> QED BY <2>1, <2>2
<1>5. Pos' \in Nat /\ x <= Pos'
  BY <1>1, <1>4
<1>6. Boundary' = Boundary
  BY <1>1, <1>2, <1>3, <1>4
<1>7. rdNext' \in Nat /\ rdNext <= rdNext'
  BY <1>1, <1>3
<1> QED BY <1>5, <1>6, <1>7 DEF x

------------------------------
(* The steps that change nothing that the request has.                     *)

\* Where the reader is depends on few variables.
LEMMA QuietDeep ==
    ASSUME IInv, Deep, NothingEarly',
           UNCHANGED <<script, wire, served, rdNext, reader, request, nest, params,
                       delivered, excused>>,
           call'.client = call.client,
           pc = "begin" => pc' = "begin",
           pc = "nested" /\ reader.isClosed => pc' = "nested",
           Closed /\ reader.avail > 0 => pc' = pc /\ call' = call
    PROVE  Deep'
<1>1. /\ Pos' = Pos /\ Boundary' = Boundary /\ Rest' = Rest /\ Closed' = Closed
  BY Zenon DEF Pos, Boundary, Rest, Ahead, Closed
<1>2. /\ rdNext \in Nat /\ rdNext <= Len(wire) /\ Pos \in Nat
      /\ reader.paddingLen \in Nat /\ reader.avail \in Nat /\ reader.contentLen \in Nat
      /\ Rest \in Nat
  BY HereFacts DEF StateFacts
<1>3. Stays
  BY <1>1, <1>2 DEF Stays
<1>4. Unowned
  BY UnownedNone
<1> QED BY <1>3, <1>4, StaysDeep

\* The server hangs up.
LEMMA DeepHangUp ==
    ASSUME IInv, Deep, HangUp
    PROVE  Deep'
<1>1. UNCHANGED <<script, wire, served, buffStop, rdNext, reader, request, pc, call, nest,
                  params, delivered, excused>>
  BY DEF HangUp, clients
<1>2. NothingEarly'
  BY <1>1 DEF NothingEarly, Deep
<1> QED BY <1>1, <1>2, QuietDeep

\* read(2) brings cells: none of a request that is still to come.
LEMMA DeepRead ==
    ASSUME IInv, Deep, Read
    PROVE  Deep'
<1>1. /\ UNCHANGED <<script, wire, served, rdNext, reader, request, call, nest,
                     params, delivered, excused>>
      /\ pc = "top"
  BY DEF Read, clients, server
<1>2. NothingEarly'
  <2>1. Come \in Int /\ Come <= Len(wire) /\ \A p \in 1 .. Come : MaySend(wire[p].rec)
    BY ComeProps DEF IInv
  <2>2. PICK n \in 1 .. Least(BuffLen, Come - buffStop) : buffStop' = buffStop + n
    BY DEF Read
  <2>3. buffStop \in Nat /\ BuffLen \in Nat
    BY HereFacts DEF StateFacts
  <2>4. buffStop' \in Nat /\ buffStop' <= Come
    BY <2>1, <2>2, <2>3 DEF Least
  <2>5. ASSUME NEW p \in 1 .. buffStop' PROVE script[wire[p].rec].nth <= served + 1
    <3>1. p \in 1 .. Come
      BY <2>1, <2>4
    <3> QED BY <2>1, <3>1 DEF MaySend
  <2> QED BY <1>1, <2>5 DEF NothingEarly
<1>3. ~reader.isClosed
  BY <1>1 DEF IInv, Phases, Filling
<1> QED BY <1>1, <1>2, <1>3, QuietDeep DEF Closed

\* The steps that only go on.
LEMMA DeepQuietly ==
    ASSUME IInv, Deep,
           ReadNothing \/ NestedFills \/ CallFillBuffProc \/ GetStrReturnsShort
             \/ \E n \in Chunks : GetStr(n)
    PROVE  Deep'
<1>1. UNCHANGED <<script, wire, served, buffStop, rdNext, reader, request, nest,
                  params, delivered, excused>>
  BY DEF ReadNothing, NestedFills, CallFillBuffProc, GetStrReturnsShort, GetStr, clients, server
<1>2. NothingEarly'
  BY <1>1 DEF NothingEarly, Deep
<1>3. /\ pc \notin {"begin"}
      /\ pc = "nested" => ~reader.isClosed
      /\ Closed => reader.avail = 0
  BY DEF ReadNothing, NestedFills, CallFillBuffProc, GetStrReturnsShort, GetStr, Closed,
         IInv, Phases, Filling
<1>4. call'.client = call.client
  <2>1. call \in [client : {"begin", "params", "app"}, want : Nat]
    BY DEF IInv, Types
  <2> QED BY <2>1 DEF ReadNothing, NestedFills, CallFillBuffProc, GetStrReturnsShort, GetStr
<1>5. Closed /\ reader.avail > 0 => pc' = pc /\ call' = call
  BY <1>3
<1> QED BY <1>1, <1>2, <1>3, <1>4, <1>5, QuietDeep

\* Steps that change no variable.
LEMMA DeepStutter ==
    ASSUME IInv, Deep, UNCHANGED vars
    PROVE  Deep'
<1>1. UNCHANGED <<script, wire, served, buffStop, rdNext, reader, request, pc, call, nest,
                  params, delivered, excused>>
  BY DEF vars, server, clients
<1>2. NothingEarly'
  BY <1>1 DEF NothingEarly, Deep
<1> QED BY <1>1, <1>2, QuietDeep

------------------------------
(* FillBuffProc in a record.                                               *)

\* FillBuffProc makes content available; what is left of the record stays.
LEMMA DeepDeliverContent ==
    ASSUME IInv, Deep, DeliverContent
    PROVE  Stays /\ Deep'
<1>1. /\ pc = "content" /\ reader.contentLen > 0 /\ ~reader.skip
      /\ UNCHANGED <<script, wire, served, buffStop, rdNext, request, call, nest,
                     params, delivered, excused>>
  BY DEF DeliverContent, clients, server
<1>2. reader \in Readers(script) /\ reader.avail = 0 /\ ~reader.isClosed
  BY <1>1 DEF IInv, Types, Phases, Filling
<1>3. StateFacts
  BY HereFacts
<1> DEFINE count == Least(reader.contentLen, Buffered)
<1>4. /\ count \in Nat /\ count <= reader.contentLen /\ reader.contentLen - count \in Nat
  BY <1>3, SMTT(30) DEF Least, StateFacts, Buffered
<1>5. reader' = [reader EXCEPT !.contentLen = reader.contentLen - count, !.avail = count]
  BY DEF DeliverContent
<1> HIDE DEF count
<1>6. /\ reader'.contentLen = reader.contentLen - count /\ reader'.avail = count
      /\ reader'.paddingLen = reader.paddingLen /\ reader'.skip = reader.skip
      /\ reader'.type = reader.type /\ reader'.error = reader.error
      /\ reader'.head = reader.head /\ reader'.isClosed = reader.isClosed
  BY <1>2, <1>5 DEF Readers
<1>7. /\ Ahead' = Ahead /\ Closed' = Closed
  BY <1>1, <1>6, Zenon DEF Ahead, Closed
<1>8. Rest' = Rest /\ Rest \in Nat /\ Rest = reader.contentLen
  <2>1. Rest' = count + (reader.contentLen - count)
    BY <1>6 DEF Rest
  <2>2. Rest = reader.avail + reader.contentLen /\ Rest \in Nat /\ reader.contentLen \in Nat
    BY HereFacts DEF StateFacts
  <2>3. Rest = reader.contentLen /\ Rest' = reader.contentLen
    BY <1>2, <1>4, <2>1, <2>2
  <2> QED BY <2>2, <2>3
<1>9. /\ rdNext \in Nat /\ rdNext <= Len(wire) /\ Pos \in Nat /\ reader.paddingLen \in Nat
      /\ reader.contentLen \in Nat
  BY <1>3, HereFacts DEF StateFacts
<1>10. Pos' = Pos /\ Boundary' = Boundary
  BY <1>1, <1>6, <1>7, <1>8, Zenon DEF Pos, Boundary
<1>11. Stays
  BY <1>1, <1>2, <1>4, <1>6, <1>7, <1>8, <1>9, <1>10 DEF Stays, Closed
<1>12. Unowned
  BY <1>1, UnownedNone
<1>13. NothingEarly'
  BY <1>1 DEF NothingEarly, Deep
<1> QED BY <1>11, <1>12, <1>13, StaysDeep

\* The end of a nested record is not the end of a stream.
LEMMA DeepEndOfRecord ==
    ASSUME IInv, Deep, EndOfRecord
    PROVE  Stays /\ Deep'
<1>1. /\ pc = "header" /\ reader.eorStop
      /\ reader' = [reader EXCEPT !.avail = 0, !.isClosed = TRUE]
      /\ UNCHANGED <<script, wire, served, buffStop, rdNext, request, call, nest,
                     params, delivered, excused>>
  BY DEF EndOfRecord, clients, server
<1>2. /\ reader \in Readers(script) /\ reader.avail = 0 /\ ~reader.isClosed
      /\ nest # "none"
  BY <1>1 DEF IInv, Types, Phases, Filling, Heads
<1>3. /\ reader'.contentLen = reader.contentLen /\ reader'.avail = reader.avail
      /\ reader'.paddingLen = reader.paddingLen /\ reader'.skip = reader.skip
      /\ reader'.type = reader.type /\ reader'.error = reader.error
      /\ reader'.head = reader.head
  BY <1>1, <1>2 DEF Readers
<1>4. Ahead' = Ahead /\ Rest' = Rest /\ ~Closed /\ ~Closed'
  BY <1>1, <1>2, <1>3, Zenon DEF Ahead, Rest, Closed
<1>5. /\ rdNext \in Nat /\ rdNext <= Len(wire) /\ Pos \in Nat /\ reader.paddingLen \in Nat
      /\ reader.avail \in Nat /\ reader.contentLen \in Nat /\ Rest \in Nat
  BY HereFacts DEF StateFacts
<1>6. Pos' = Pos /\ Boundary' = Boundary
  BY <1>1, <1>3, <1>4, Zenon DEF Pos, Boundary
<1>7. Stays
  BY <1>1, <1>2, <1>3, <1>4, <1>5, <1>6 DEF Stays
<1>8. Unowned
  BY <1>1, UnownedNone
<1>9. NothingEarly'
  BY <1>1 DEF NothingEarly, Deep
<1> QED BY <1>7, <1>8, <1>9, StaysDeep

\* The step before shows that count cells are skipped.
LEMMA SkipsStay ==
    ASSUME IInv, NEW count \in Nat, NEW c \in Nat, NEW d \in Nat, NEW skip \in BOOLEAN,
           pc \in {"content", "padding"},
           rdNext' = rdNext + count, rdNext + count <= Len(wire),
           reader' = [reader EXCEPT !.contentLen = c, !.paddingLen = d, !.skip = skip],
           count + c + d = reader.contentLen + reader.paddingLen,
           c <= reader.contentLen, d <= reader.paddingLen,
           c > 0 => d = reader.paddingLen /\ skip = reader.skip,
           skip => reader.skip /\ (reader.contentLen > 0 => c > 0),
           UNCHANGED <<script, wire, served, request, call, nest, params, delivered, excused>>
    PROVE  Stays
<1>1. /\ reader \in Readers(script) /\ reader.avail = 0 /\ ~reader.isClosed
  BY DEF IInv, Types, Phases, Filling
<1>2. /\ reader'.contentLen = c /\ reader'.avail = 0
      /\ reader'.paddingLen = d /\ reader'.skip = skip
      /\ reader'.type = reader.type /\ reader'.error = reader.error
      /\ reader'.head = reader.head /\ reader'.isClosed = reader.isClosed
  BY <1>1 DEF Readers
<1>3. /\ rdNext \in Nat /\ Ahead \in Nat /\ Rest = reader.avail + reader.contentLen
      /\ reader.paddingLen \in Nat /\ reader.contentLen \in Nat /\ Rest \in Nat
  BY HereFacts DEF StateFacts
<1>4. Rest = reader.contentLen /\ Rest' = c
  <2>1. Rest' = 0 + c
    BY <1>2 DEF Rest
  <2> QED BY <1>1, <1>3, <2>1
<1>5. /\ Ahead' = Ahead + 0 /\ ~Closed /\ ~Closed'
  <2>1. Ahead' = Ahead
    <3>1. nest' = nest /\ reader'.head = reader.head
      BY <1>2
    <3> QED BY <3>1 DEF Ahead
  <2>2. ~Closed /\ ~Closed'
    BY <1>1, <1>2 DEF Closed
  <2> QED BY <1>3, <2>1, <2>2
<1>6. /\ Pos' \in Nat /\ Pos <= Pos' /\ Boundary' = Boundary
      /\ rdNext' \in Nat /\ rdNext <= rdNext'
  <2>1. 0 \in Nat /\ 0 <= count /\ count + c + d = 0 + Rest + reader.paddingLen
    BY <1>3, <1>4
  <2> QED BY <1>2, <1>4, <1>5, <2>1, BoundaryStays
<1> QED BY <1>1, <1>2, <1>3, <1>4, <1>5, <1>6, SMTT(30) DEF Stays

\* FillBuffProc skips the content of another request's record.
LEMMA DeepSkipContent ==
    ASSUME IInv, Deep, SkipContent
    PROVE  Stays /\ Deep'
<1> DEFINE count == Least(reader.contentLen, Buffered)
           left == reader.contentLen - count
           skip == reader.skip /\ (reader.contentLen = 0 \/ left > 0)
<1>1. StateFacts
  BY HereFacts
<1>2. /\ count \in Nat /\ count <= Buffered /\ left \in Nat /\ reader.contentLen = left + count
      /\ reader.contentLen \in Nat /\ reader.paddingLen \in Nat
  BY <1>1, SMTT(30) DEF Least, StateFacts, Buffered
<1>3. /\ pc = "content" /\ (reader.contentLen > 0 => reader.skip)
      /\ rdNext' = rdNext + count
      /\ reader' = [reader EXCEPT !.contentLen = left, !.skip = skip]
      /\ UNCHANGED <<script, wire, served, buffStop, request, call, nest, params, delivered,
                     excused>>
  BY DEF SkipContent, server, clients
<1>4. reader \in Readers(script) /\ reader.avail = 0
  BY <1>3 DEF IInv, Types, Phases, Filling
<1> HIDE DEF count, left, skip
<1>5. reader' = [reader EXCEPT !.contentLen = left, !.paddingLen = reader.paddingLen, !.skip = skip]
  BY <1>3, <1>4 DEF Readers
<1>6. /\ rdNext + count <= Len(wire) /\ rdNext \in Nat
  BY <1>1, <1>2 DEF StateFacts, Buffered
<1>7. /\ skip \in BOOLEAN
      /\ left > 0 => skip = reader.skip
      /\ skip => reader.skip /\ (reader.contentLen > 0 => left > 0)
      /\ left <= reader.contentLen
      /\ count + left + reader.paddingLen = reader.contentLen + reader.paddingLen
  BY <1>2, <1>4 DEF skip, Readers
<1>8. Stays
  <2> DEFINE d == reader.paddingLen
  <2>1. /\ d \in Nat /\ d <= reader.paddingLen
        /\ count + left + d = reader.contentLen + reader.paddingLen
        /\ left > 0 => d = reader.paddingLen /\ skip = reader.skip
        /\ reader' = [reader EXCEPT !.contentLen = left, !.paddingLen = d, !.skip = skip]
        /\ pc \in {"content", "padding"}
    BY <1>2, <1>3, <1>5, <1>7
  <2>2. UNCHANGED <<script, wire, served, request, call, nest, params, delivered, excused>>
    BY <1>3
  <2>3. /\ rdNext' = rdNext + count /\ rdNext + count <= Len(wire)
        /\ skip => reader.skip /\ (reader.contentLen > 0 => left > 0)
        /\ count \in Nat /\ left \in Nat /\ left <= reader.contentLen /\ skip \in BOOLEAN
    BY <1>2, <1>3, <1>6, <1>7
  <2> HIDE DEF d
  <2> QED BY <2>1, <2>2, <2>3, SkipsStay
<1>9. ASSUME NEW i \in 0 .. Len(script), Regular, request.begun, Placed(i)
      PROVE  Unowned
  <2>1. CASE reader.contentLen = 0
    <3>1. rdNext' = rdNext
      BY <1>2, <1>3, <1>6, <2>1
    <3> QED BY <3>1, UnownedNone
  <2>2. CASE reader.contentLen > 0
    <3>1. /\ Rest = reader.contentLen /\ Rest \in Nat /\ rdNext = Pos
          /\ Boundary = Pos + Rest + reader.paddingLen /\ Pos \in Nat
      <4>1. /\ Rest = reader.avail + reader.contentLen /\ Rest \in Nat /\ Pos \in Nat
            /\ rdNext = Pos + Ahead /\ Boundary = Pos + Rest + reader.paddingLen
            /\ Ahead > 0 => Rest = 0
            /\ Ahead \in Nat
        BY HereFacts
      <4>2. Rest = reader.contentLen
        BY <1>2, <1>4, <4>1
      <4>3. Ahead = 0
        BY <2>2, <4>1, <4>2
      <4> QED BY <4>1, <4>2, <4>3
    <3>2. /\ reader.skip /\ nest = "none" /\ ~Mine(i)
          /\ i > 0 /\ reader.paddingLen = script[i].pad /\ Rest <= script[i].len
          /\ Boundary = End(i)
      <4>1. reader.skip /\ At(i) /\ InFlight(i) /\ Rest > 0
        BY <1>2, <1>3, <1>9, <2>2, <3>1 DEF Placed
      <4> QED BY <4>1 DEF At, InFlight
    <3>3. /\ i \in 1 .. Len(script) /\ End(i - 1) \in Nat /\ End(i) \in Nat
          /\ script[i].len \in Nat /\ script[i].pad \in Nat
          /\ End(i) = End(i - 1) + 2 + script[i].len + script[i].pad
      <4>1. i \in 1 .. Len(script) /\ i - 1 \in 0 .. Len(script)
        BY <1>1, <3>2, EndFacts
      <4> QED BY <1>1, <4>1, EndFacts
    <3>4. /\ rdNext' \in Nat /\ End(i - 1) <= rdNext /\ rdNext' <= End(i)
      <4> DEFINE e == End(i - 1)
                 f == End(i)
                 l == script[i].len
                 d == script[i].pad
                 n == reader.paddingLen
                 r == Rest
      <4>1. /\ e \in Nat /\ f \in Nat /\ l \in Nat /\ d \in Nat /\ f = e + 2 + l + d
            /\ n = d /\ r <= l /\ r \in Nat /\ f = rdNext + r + n /\ r = left + count
        BY <1>2, <3>1, <3>2, <3>3
      <4>2. rdNext \in Nat /\ count \in Nat /\ left \in Nat /\ rdNext' = rdNext + count
        BY <1>2, <1>3, <1>6
      <4> HIDE DEF e, f, l, d, n, r
      <4>3. rdNext + count \in Nat /\ e <= rdNext /\ rdNext + count <= f
        BY <4>1, <4>2
      <4> QED BY <4>2, <4>3 DEF e, f
    <3>5. request.id = OwnId(script, served + 1)
      BY <1>9 DEF Deep, Begun
    <3> QED BY <3>2, <3>3, <3>4, <3>5, UnownedIn
  <2> QED BY <1>2, <2>1, <2>2
<1>10. NothingEarly'
  BY <1>3 DEF NothingEarly, Deep
<1> QED BY <1>8, <1>9, <1>10, StaysDeep

\* FillBuffProc skips padding.
LEMMA DeepSkipPadding ==
    ASSUME IInv, Deep, SkipPadding
    PROVE  Stays /\ Deep'
<1> DEFINE count == Least(reader.paddingLen, Buffered)
           left == reader.paddingLen - count
<1>1. StateFacts
  BY HereFacts
<1>2. /\ count \in Nat /\ count <= Buffered /\ left \in Nat /\ reader.paddingLen = left + count
      /\ reader.paddingLen \in Nat
  BY <1>1, SMTT(30) DEF Least, StateFacts, Buffered
<1>3. /\ pc = "padding" /\ rdNext' = rdNext + count
      /\ reader' = [reader EXCEPT !.paddingLen = left]
      /\ UNCHANGED <<script, wire, served, buffStop, request, call, nest, params, delivered,
                     excused>>
  BY DEF SkipPadding, server, clients
<1>4. reader \in Readers(script) /\ reader.avail = 0 /\ reader.contentLen = 0
  BY <1>3 DEF IInv, Types, Phases, Filling
<1> HIDE DEF count, left
<1>5. /\ rdNext + count <= Len(wire) /\ rdNext \in Nat
  BY <1>1, <1>2 DEF StateFacts, Buffered
<1>6. Stays
  <2> DEFINE skip == reader.skip
             c == 0
  <2>1. /\ skip \in BOOLEAN /\ c \in Nat /\ left \in Nat /\ count \in Nat
        /\ reader' = [reader EXCEPT !.contentLen = c, !.paddingLen = left, !.skip = skip]
    BY <1>2, <1>3, <1>4 DEF Readers
  <2>2. /\ count + c + left = reader.contentLen + reader.paddingLen
        /\ c <= reader.contentLen /\ left <= reader.paddingLen
        /\ c > 0 => left = reader.paddingLen /\ skip = reader.skip
        /\ skip => reader.skip /\ (reader.contentLen > 0 => c > 0)
    BY <1>2, <1>4
  <2>3. /\ pc \in {"content", "padding"}
        /\ rdNext' = rdNext + count /\ rdNext + count <= Len(wire)
        /\ UNCHANGED <<script, wire, served, request, call, nest, params, delivered, excused>>
    BY <1>3, <1>5
  <2> HIDE DEF c, skip
  <2> QED BY <2>1, <2>2, <2>3, SkipsStay
<1>7. ASSUME NEW i \in 0 .. Len(script), Regular, request.begun, Placed(i)
      PROVE  Unowned
  <2>1. CASE reader.paddingLen = 0
    <3>1. rdNext' = rdNext
      BY <1>2, <1>3, <1>5, <2>1
    <3> QED BY <3>1, UnownedNone
  <2>2. CASE reader.paddingLen > 0
    <3>1. /\ Rest = 0 /\ rdNext = Pos /\ Pos \in Nat /\ Boundary = Pos + Rest + reader.paddingLen
      <4>1. /\ Rest = reader.avail + reader.contentLen /\ Rest \in Nat /\ Pos \in Nat
            /\ rdNext = Pos + Ahead /\ Boundary = Pos + Rest + reader.paddingLen
            /\ Ahead > 0 => reader.paddingLen = 0
            /\ Ahead \in Nat
        BY HereFacts
      <4>2. Rest = 0
        BY <1>4, <4>1
      <4>3. Ahead = 0
        BY <2>2, <4>1
      <4> QED BY <4>1, <4>2, <4>3
    <3>2. /\ i > 0 /\ reader.paddingLen <= script[i].pad /\ Boundary = End(i)
      BY <1>7, <2>2 DEF At, Placed
    <3>3. /\ i \in 1 .. Len(script) /\ End(i - 1) \in Nat /\ End(i) \in Nat
          /\ script[i].len \in Nat /\ script[i].pad \in Nat
          /\ End(i) = End(i - 1) + 2 + script[i].len + script[i].pad
      <4>1. i \in 1 .. Len(script) /\ i - 1 \in 0 .. Len(script)
        BY <1>1, <3>2, EndFacts
      <4> QED BY <1>1, <4>1, EndFacts
    <3>4. /\ rdNext' \in Nat /\ End(i - 1) <= rdNext /\ rdNext' <= End(i)
          /\ End(i) - script[i].pad <= rdNext
      <4> DEFINE e == End(i - 1)
                 f == End(i)
                 l == script[i].len
                 d == script[i].pad
                 n == reader.paddingLen
      <4>1. /\ e \in Nat /\ f \in Nat /\ l \in Nat /\ d \in Nat /\ f = e + 2 + l + d
            /\ n <= d /\ n \in Nat /\ f = rdNext + n /\ n = left + count
        <5>1. f = rdNext + 0 + n
          BY <3>1, <3>2
        <5> QED BY <1>2, <1>5, <3>2, <3>3, <5>1
      <4>2. rdNext \in Nat /\ count \in Nat /\ left \in Nat /\ rdNext' = rdNext + count
        BY <1>2, <1>3, <1>5
      <4> HIDE DEF e, f, l, d, n
      <4>3. rdNext + count \in Nat /\ e <= rdNext /\ rdNext + count <= f /\ f - d <= rdNext
        BY <4>1, <4>2
      <4> QED BY <4>2, <4>3 DEF e, f, d
    <3>5. request.id = OwnId(script, served + 1)
      BY <1>7 DEF Deep, Begun
    <3> QED BY <3>3, <3>4, <3>5, UnownedIn
  <2> QED BY <1>2, <2>1, <2>2
<1>8. NothingEarly'
  BY <1>3 DEF NothingEarly, Deep
<1> QED BY <1>6, <1>7, <1>8, StaysDeep

\* A nested call takes content of its own record.
LEMMA DeepNestedTakes ==
    ASSUME IInv, Deep, NestedTakes
    PROVE  Stays /\ Deep'
<1>1. StateFacts
  BY HereFacts
<1>2. /\ pc = "nested" /\ reader.avail > 0
      /\ rdNext' = rdNext + reader.avail
      /\ reader' = [reader EXCEPT !.avail = 0]
      /\ UNCHANGED <<script, wire, served, buffStop, request, pc, call, nest, params, delivered,
                     excused>>
  BY DEF NestedTakes, server, clients
<1>3. reader \in Readers(script) /\ nest # "none"
  BY <1>2 DEF IInv, Types, Heads
<1>4. /\ reader'.contentLen = reader.contentLen /\ reader'.avail = 0
      /\ reader'.paddingLen = reader.paddingLen /\ reader'.skip = reader.skip
      /\ reader'.type = reader.type /\ reader'.error = reader.error
      /\ reader'.head = reader.head /\ reader'.isClosed = reader.isClosed
  BY <1>2, <1>3 DEF Readers
<1>5. /\ rdNext \in Nat /\ rdNext + reader.avail <= Len(wire)
      /\ reader.avail \in Nat /\ reader.contentLen \in Nat /\ reader.paddingLen \in Nat
  BY <1>1 DEF StateFacts
<1>6. Rest' = reader.contentLen /\ Rest = reader.avail + reader.contentLen /\ Rest \in Nat
  <2>1. Rest' = 0 + reader.contentLen
    BY <1>4 DEF Rest
  <2> QED BY <1>5, <2>1, HereFacts
<1>7. Ahead = 0 /\ Ahead' = 0 /\ ~Closed /\ ~Closed'
  <2>1. nest' = nest
    BY <1>2
  <2> QED BY <1>3, <2>1 DEF Ahead, Closed
<1>8. /\ Pos' \in Nat /\ Pos <= Pos' /\ Boundary' = Boundary
      /\ rdNext' \in Nat /\ rdNext <= rdNext'
  <2> DEFINE count == reader.avail
             c == reader.contentLen
             d == reader.paddingLen
  <2>1. /\ count \in Nat /\ c \in Nat /\ d \in Nat /\ 0 \in Nat
        /\ rdNext' = rdNext + count /\ Ahead' = Ahead + 0 /\ Rest' = c /\ reader'.paddingLen = d
        /\ 0 <= count /\ count + c + d = 0 + Rest + reader.paddingLen
    BY <1>2, <1>4, <1>5, <1>6, <1>7
  <2> HIDE DEF count, c, d
  <2> QED BY <2>1, BoundaryStays
<1>9. Stays
  BY <1>2, <1>3, <1>4, <1>5, <1>6, <1>7, <1>8 DEF Stays
<1>10. ASSUME NEW i \in 0 .. Len(script), Regular, request.begun, Placed(i)
      PROVE  Unowned
  <2>1. /\ Rest > 0 /\ At(i) /\ InFlight(i)
    BY <1>2, <1>5, <1>6, <1>10 DEF Placed
  <2>2. /\ i > 0 /\ reader.paddingLen = script[i].pad /\ Rest <= script[i].len
        /\ Boundary = End(i)
        /\ script[i].type \notin Streams
    <3>1. nest \in {"body", "values"}
      BY <1>3 DEF IInv, Types
    <3>2. script[i].type \in {"begin", "values"}
      BY <1>3, <2>1, <3>1 DEF InFlight
    <3> QED BY <2>1, <3>2 DEF At, Streams
  <2>3. /\ i \in 1 .. Len(script) /\ End(i - 1) \in Nat /\ End(i) \in Nat
        /\ script[i].len \in Nat /\ script[i].pad \in Nat
        /\ End(i) = End(i - 1) + 2 + script[i].len + script[i].pad
    <3>1. i \in 1 .. Len(script) /\ i - 1 \in 0 .. Len(script)
      BY <1>1, <2>2, EndFacts
    <3> QED BY <1>1, <3>1, EndFacts
  <2>4. /\ rdNext' \in Nat /\ End(i - 1) <= rdNext /\ rdNext' <= End(i)
    <3> DEFINE e == End(i - 1)
               f == End(i)
               l == script[i].len
               d == script[i].pad
               r == Rest
               a == reader.avail
    <3>1. f = rdNext + r + d
      <4>1. /\ Boundary = Pos + Rest + reader.paddingLen /\ rdNext = Pos + Ahead /\ Pos \in Nat
        BY HereFacts
      <4>2. rdNext = Pos
        BY <1>7, <4>1
      <4> QED BY <2>2, <4>1, <4>2
    <3>2. /\ e \in Nat /\ f \in Nat /\ l \in Nat /\ d \in Nat /\ f = e + 2 + l + d
          /\ r <= l /\ r \in Nat /\ a \in Nat /\ a <= r
      <4>1. e \in Nat /\ f \in Nat /\ l \in Nat /\ d \in Nat /\ f = e + 2 + l + d
        BY <2>3
      <4>2. r <= l /\ r \in Nat /\ a \in Nat /\ a <= r
        BY <1>5, <1>6, <2>2
      <4> QED BY <4>1, <4>2
    <3>3. rdNext \in Nat /\ rdNext' = rdNext + a
      BY <1>2, <1>5
    <3> HIDE DEF e, f, l, d, r, a
    <3>4. rdNext + a \in Nat /\ e <= rdNext /\ rdNext + a <= f
      BY <3>1, <3>2, <3>3
    <3> QED BY <3>3, <3>4 DEF e, f
  <2>5. request.id = OwnId(script, served + 1)
    BY <1>10 DEF Deep, Begun
  <2> QED BY <2>2, <2>3, <2>4, <2>5, UnownedIn
<1>11. NothingEarly'
  BY <1>2 DEF NothingEarly, Deep
<1> QED BY <1>9, <1>10, <1>11, StaysDeep

\* FillBuffProc reads the header of the next record.
LEMMA DeepReadHeader ==
    ASSUME IInv, Deep, ReadHeader
    PROVE  Stays /\ Deep'
<1>1. StateFacts /\ rdNext \in Nat /\ Len(reader.head) \in Nat /\ HeaderLen = 2
      /\ buffStop \in Nat /\ buffStop <= Len(wire) /\ Len(wire) \in Nat
  BY HereFacts DEF StateFacts
<1>2. /\ pc = "header" /\ ~reader.eorStop
      /\ UNCHANGED <<script, wire, served, buffStop, request, call, nest, params, delivered,
                     excused>>
  BY DEF ReadHeader, server, clients
<1>3. /\ nest = "none" /\ reader.avail = 0 /\ reader.contentLen = 0 /\ reader.paddingLen = 0
      /\ ~reader.isClosed /\ reader \in Readers(script)
  BY <1>2 DEF IInv, Types, Heads, Phases, Filling
<1>4. PICK count \in Nat :
              /\ count <= Buffered /\ count <= HeaderLen - Len(reader.head)
              /\ count = Buffered \/ count = HeaderLen - Len(reader.head)
              /\ rdNext' = rdNext + count
              /\ reader' \in Readers(script)
              /\ Len(reader'.head) = Len(reader.head) + count
              /\ reader'.head = SubSeq(wire, rdNext - Len(reader.head) + 1, rdNext')
              /\ reader'.avail = 0 /\ ~reader'.isClosed
              /\ reader'.contentLen = 0 /\ reader'.paddingLen = 0
              /\ reader'.type = reader.type /\ reader'.skip = reader.skip
              /\ reader'.error = reader.error
              /\ reader'.eorStop <=> Len(reader'.head) = HeaderLen
              /\ pc' = IF Len(reader'.head) = HeaderLen THEN "process" ELSE "top"
              /\ nest = "none" /\ Len(reader.head) < HeaderLen /\ Len(reader.head) <= rdNext
  BY HeaderReads
<1>5. /\ Ahead = Len(reader.head) /\ Ahead' = Ahead + count
      /\ Rest = 0 /\ Rest' = 0 /\ ~Closed /\ ~Closed'
  BY <1>2, <1>3, <1>4 DEF Ahead, Rest, Closed
<1>6. rdNext + count <= Len(wire)
  BY <1>1, <1>4 DEF Buffered
<1>7. /\ Pos' \in Nat /\ Pos <= Pos' /\ Boundary' = Boundary
      /\ rdNext' \in Nat /\ rdNext <= rdNext'
  <2>1. /\ 0 \in Nat /\ Rest' = 0 /\ reader'.paddingLen = 0 /\ count <= count
        /\ count + 0 + 0 = count + Rest + reader.paddingLen
    BY <1>3, <1>4, <1>5
  <2> QED BY <1>4, <1>5, <2>1, BoundaryStays
<1>8. Stays
  BY <1>1, <1>2, <1>3, <1>4, <1>5, <1>6, <1>7 DEF Stays, Readers
<1>9. ASSUME NEW i \in 0 .. Len(script), Regular, request.begun, Placed(i)
      PROVE  Unowned
  <2>1. CASE count = 0
    <3>1. rdNext' = rdNext
      BY <1>1, <1>4, <2>1
    <3> QED BY <3>1, UnownedNone
  <2>2. CASE count > 0
    <3>1. /\ Boundary = End(i) /\ rdNext = End(i) + Ahead /\ End(i) \in Nat
          /\ End(Len(script)) = Len(wire) /\ Len(script) \in Nat
      <4>1. /\ Boundary = Pos + Rest + reader.paddingLen /\ rdNext = Pos + Ahead /\ Pos \in Nat
        BY HereFacts
      <4>2. Boundary = Pos
        BY <1>3, <1>5, <4>1
      <4>3. Boundary = End(i)
        BY <1>9 DEF Placed, At
      <4> QED BY <1>1, <4>1, <4>2, <4>3, EndFacts
    <3>2. Ahead \in Nat /\ Ahead + count <= 2
      BY <1>1, <1>4, <1>5
    <3>3. rdNext' \in Nat /\ End(i) <= rdNext /\ rdNext' <= End(i) + 2 /\ End(i) < rdNext'
      <4> DEFINE f == End(i)
                 h == Ahead
      <4>1. f \in Nat /\ h \in Nat /\ h + count <= 2 /\ count > 0 /\ rdNext = f + h
            /\ rdNext' = rdNext + count
        BY <1>4, <2>2, <3>1, <3>2
      <4> HIDE DEF f, h
      <4>2. f <= rdNext /\ rdNext + count <= f + 2 /\ f < rdNext + count /\ rdNext + count \in Nat
        BY <4>1
      <4> QED BY <4>1, <4>2 DEF f
    <3>4. i # Len(script)
      <4>1. rdNext' <= Len(wire)
        BY <1>4, <1>6
      <4> QED BY <1>1, <3>1, <3>3, <4>1
    <3>5. i + 1 \in 1 .. Len(script) /\ (i + 1) - 1 = i /\ i + 1 \in 0 .. Len(script) /\ i < i + 1
      BY <3>1, <3>4
    <3>6. End(i) + 2 <= End(i + 1) /\ End(i + 1) \in Nat
      BY <1>1, <3>5, EndFacts
    <3>7. /\ End((i + 1) - 1) <= rdNext /\ rdNext' <= End(i + 1)
          /\ rdNext' <= End((i + 1) - 1) + 2
      BY <3>1, <3>3, <3>5, <3>6
    <3>8. request.id = OwnId(script, served + 1)
      BY <1>9 DEF Deep, Begun
    <3> DEFINE j == i + 1
    <3> HIDE DEF j
    <3>9. j \in 1 .. Len(script) /\ End(j - 1) <= rdNext /\ rdNext' <= End(j)
          /\ rdNext' <= End(j - 1) + 2
      BY <3>5, <3>7 DEF j
    <3> QED BY <3>3, <3>8, <3>9, UnownedIn
  <2> QED BY <2>1, <2>2
<1>10. NothingEarly'
  BY <1>2 DEF NothingEarly, Deep
<1> QED BY <1>8, <1>9, <1>10, StaysDeep

------------------------------
(* Errors.                                                                 *)

\* The request that is read is one of the connection's.
Known == WellFormed(script) /\ served + 1 \in Requests(script)

\* The request that has begun.
LEMMA KnownRequest ==
    ASSUME IInv, Deep, Regular, request.begun
    PROVE  /\ Known /\ script \in Seq(Record)
           /\ request.id = OwnId(script, served + 1)
           /\ HasMark(script, served + 1, reader.type)
           /\ request.role = "filter" => HasMark(script, served + 1, "data")
<1>1. Known
  BY DEF Deep, Begun, Known, Regular
<1>2. script \in Seq(Record)
  BY HereFacts DEF StateFacts
<1>3. request.role = script[OwnBegin(script, served + 1)].role
  BY DEF Deep, Begun
<1>4. reader.type \in {"none", "params", "stdin", "data"}
  BY DEF IInv, Types, Readers
<1>5. reader.type = "data" => request.role = "filter"
  BY DEF Deep, Begun
<1>6. request.role = "filter" => HasMark(script, served + 1, "data")
  BY <1>3 DEF HasMark
<1>7. HasMark(script, served + 1, reader.type)
  <2>1. CASE reader.type = "data"
    BY <1>5, <1>6, <2>1
  <2>2. CASE reader.type # "data"
    BY <1>4, <2>2 DEF HasMark
  <2> QED BY <2>1, <2>2
<1>8. request.id = OwnId(script, served + 1)
  BY DEF Deep, Begun
<1> QED BY <1>1, <1>2, <1>6, <1>7, <1>8

\* Where a stream begins and ends.
LEMMA MarkFacts ==
    ASSUME StateFacts, Known, NEW type \in Streams, HasMark(script, served + 1, type)
    PROVE  LET l == MarkOf(Prev(type))
               m == MarkOf(type)
           IN  /\ l \in 1 .. Len(script) /\ m \in 1 .. Len(script) /\ l < m /\ l <= m - 1
               /\ l - 1 \in 0 .. Len(script) /\ m - 1 \in 0 .. Len(script)
               /\ l \in 0 .. Len(script) /\ m \in 0 .. Len(script)
               /\ End(l - 1) \in Nat /\ End(l) \in Nat /\ End(m - 1) \in Nat /\ End(m) \in Nat
               /\ End(l - 1) + 2 <= End(l) /\ End(l) <= End(m - 1) /\ End(m - 1) + 2 <= End(m)
<1> DEFINE l == MarkOf(Prev(type))
           m == MarkOf(type)
<1>1. /\ script \in Seq(Record) /\ WellFormed(script) /\ served + 1 \in Requests(script)
  BY DEF StateFacts, Known
<1>2. l \in OwnRecords(script, served + 1) /\ m \in OwnRecords(script, served + 1) /\ l < m
  <2>1. OwnRecords(script, served + 1) \in SUBSET (1 .. Len(script))
    BY <1>1, OwnProps
  <2>2. PICK i \in OwnRecords(script, served + 1) : Rank(script[i]) = 0
    BY <1>1, OwnProps
  <2> QED BY <1>1, <2>2, StreamPlace DEF MarkOf
<1>3. l \in 1 .. Len(script) /\ m \in 1 .. Len(script) /\ Len(script) \in Nat
  BY <1>1, <1>2, OwnProps
<1> HIDE DEF l, m
<1>4. /\ l <= m - 1 /\ l - 1 \in 0 .. Len(script) /\ m - 1 \in 0 .. Len(script)
      /\ l \in 0 .. Len(script) /\ m \in 0 .. Len(script) /\ l - 1 < l /\ m - 1 < m
  BY <1>2, <1>3
<1>5. End(l - 1) \in Nat /\ End(l) \in Nat /\ End(m - 1) \in Nat /\ End(m) \in Nat
  BY <1>4, EndFacts
<1>6. End(l - 1) + 2 <= End(l) /\ End(l) <= End(m - 1) /\ End(m - 1) + 2 <= End(m)
  BY <1>4, EndFacts
<1> QED BY <1>2, <1>3, <1>4, <1>5, <1>6 DEF l, m

\* A step that ends with an error.
LEMMA FailsDeep ==
    ASSUME IInv, Deep, Same, buffStop' = buffStop, call'.client = call.client,
           reader'.type = reader.type, reader'.error # "none",
           Pos' \in Nat, Pos <= Pos',
           ~request.begun => pc' = "begin" \/ (pc' = "nested" /\ reader'.isClosed),
           Regular /\ request.begun => Failing'
    PROVE  Deep'
<1>1. NothingEarly'
  BY NotEarlySame DEF Deep
<1>2. Aligned'
  BY DEF Aligned
<1>3. Early'
  <2>1. request' = request
    BY DEF Same
  <2> QED BY <2>1 DEF Early
<1>4. Begun'
  BY BegunSame DEF Deep
<1>5. Failed'
  <2>1. SUFFICES ASSUME Regular', request'.begun
        PROVE  Failing'
    BY DEF Failed
  <2>2. Regular /\ request.begun
    BY <2>1, RegularSame DEF Same
  <2> QED BY <2>2
<1>6. EnvComplete'
  BY EnvSame DEF Deep
<1>7. InputInOrder'
  BY InputSame DEF Deep
<1> QED BY <1>1, <1>2, <1>3, <1>4, <1>5, <1>6, <1>7 DEF Deep

\* When a read fails, the reader is in a record that comes before the stream's end.
LEMMA BeforeEnd ==
    ASSUME IInv, Deep, Regular, request.begun, pc = "top"
    PROVE  /\ reader.type \in Streams /\ HasMark(script, served + 1, reader.type)
           /\ End(MarkOf(reader.type) - 1) \in Nat
           /\ nest # "none" => Boundary <= End(MarkOf(reader.type) - 1)
           /\ reader.error = "none" \/ reader.type \in {"params", "stdin"} =>
                 rdNext <= End(MarkOf(reader.type) - 1) + 1
<1>1. reader.type \in Streams
  <2>1. call.client # "begin"
    BY DEF IInv, Callers
  <2> QED BY <2>1 DEF IInv, Types, Callers, Streams
<1>2. /\ Known /\ HasMark(script, served + 1, reader.type)
  BY KnownRequest
<1>3. StateFacts
  BY HereFacts
<1> DEFINE l == MarkOf(Prev(reader.type))
           m == MarkOf(reader.type)
<1>4. /\ l \in 1 .. Len(script) /\ m \in 1 .. Len(script) /\ l < m /\ l <= m - 1
      /\ l - 1 \in 0 .. Len(script) /\ m - 1 \in 0 .. Len(script) /\ Len(script) \in Nat
      /\ End(l - 1) \in Nat /\ End(l) \in Nat /\ End(m - 1) \in Nat
      /\ End(l - 1) + 2 <= End(l) /\ End(l) <= End(m - 1)
  BY <1>1, <1>2, <1>3, MarkFacts DEF StateFacts
<1>5. ~reader.isClosed /\ reader.avail = 0
  BY DEF IInv, Phases, Filling
<1>6. ~Closed
  BY <1>5 DEF Closed
<1>7. /\ Boundary \in Nat /\ Pos \in Nat /\ Rest \in Nat /\ reader.paddingLen \in Nat
      /\ Boundary = Pos + Rest + reader.paddingLen /\ rdNext = Pos + Ahead
      /\ Ahead \in Nat /\ Ahead <= 1
  BY HereFacts DEF StateFacts
<1>8. Pos <= Boundary /\ rdNext <= Pos + 1
  BY <1>7
<1> HIDE DEF l, m
<1>9. ASSUME NEW i \in 0 .. Len(script), At(i), i < m
      PROVE  Boundary <= End(m - 1) /\ rdNext <= End(m - 1) + 1
  <2>1. Boundary = End(i) /\ i <= m - 1
    BY <1>4, <1>9 DEF At
  <2>2. End(i) <= End(m - 1)
    BY <1>3, <1>4, <2>1, EndFacts
  <2> QED BY <1>4, <1>7, <1>8, <2>1, <2>2, SMTT(30)
<1>10. CASE reader.error = "none"
  <2>1. PICK i \in 0 .. Len(script) : Placed(i)
    BY <1>10 DEF Deep, Aligned
  <2>2. At(i) /\ Within(i)
    BY <2>1 DEF Placed
  <2>3. i < m
    BY <1>1, <1>6, <2>2 DEF Within, Streams, m
  <2> QED BY <1>1, <1>2, <1>4, <1>9, <2>2, <2>3 DEF m
<1>11. CASE reader.error # "none"
  <2>1. Failing
    BY <1>11 DEF Deep, Failed
  <2>2. nest # "none" => Boundary <= End(m - 1)
    BY <2>1 DEF Failing, m
  <2>3. ASSUME reader.type \in {"params", "stdin"}
        PROVE  rdNext <= End(m - 1) + 1
    <3>1. CASE nest # "none"
      BY <1>4, <1>7, <1>8, <2>2, <3>1, SMTT(30)
    <3>2. CASE nest = "none"
      <4>1. Skipping \/ Lost
        BY <1>5, <2>1, <3>2 DEF Failing
      <4>2. CASE Skipping
        <5>1. PICK i \in 0 .. Len(script) : At(i) /\ i < l
          BY <4>2 DEF Skipping, l
        <5> QED BY <1>4, <1>9, <5>1
      <4>3. CASE Lost
        <5>1. Pos <= End(l - 1) + 1
          BY <4>3 DEF Lost, l
        <5> QED BY <1>4, <1>7, <1>8, <5>1, SMTT(30)
      <4> QED BY <4>1, <4>2, <4>3
    <3> QED BY <3>1, <3>2
  <2> QED BY <1>1, <1>2, <1>4, <1>11, <2>2, <2>3 DEF m
<1> QED BY <1>10, <1>11

\* The error closes the stream before its end.
LEMMA FailingClosed ==
    ASSUME UNCHANGED <<script, served, request>>, reader'.type = reader.type,
           reader.type \in Streams, reader'.isClosed,
           reader'.avail > 0 => pc' = "app" /\ call'.want = 0,
           nest' # "none" => Boundary' <= End(MarkOf(reader.type) - 1),
           nest' = "none"
              /\ (reader.type = "params" \/ (reader.type = "stdin" /\ request.role = "filter")) =>
              rdNext' + reader'.avail <= End(MarkOf(reader.type) - 1) + 1
    PROVE  Failing'
<1>1. End(MarkOf(reader.type) - 1)' = End(MarkOf(reader.type) - 1)
  BY Zenon DEF End, MarkOf
<1>2. reader'.type # "none"
  BY DEF Streams
<1>3. nest' # "none" => Boundary' <= End(MarkOf(reader.type) - 1)'
  BY <1>1
<1>4. Closed' =>
          /\ reader'.type = "params" \/ (reader'.type = "stdin" /\ request'.role = "filter") =>
                rdNext' + reader'.avail <= End(MarkOf(reader.type) - 1)' + 1
          /\ reader'.avail > 0 => pc' = "app" /\ call'.want = 0
  BY <1>1 DEF Closed
<1> QED BY <1>2, <1>3, <1>4 DEF Failing

\* read(2) fails: the reader stays where it is, and does not go on.
LEMMA DeepReadFails ==
    ASSUME IInv, Deep, ReadFails \/ ReadInterrupted
    PROVE  Deep'
<1>1. /\ pc = "top"
      /\ pc' = IF nest # "none" THEN "nested" ELSE call.client
      /\ UNCHANGED <<script, wire, served, buffStop, rdNext, request, call, nest, params,
                     delivered>>
      /\ excused \subseteq excused'
  BY DEF ReadFails, ReadInterrupted, Return, server, clients
<1>2. PICK error \in {"protocol", "os"} : reader' = SetError(Headless(reader), error)
  BY DEF ReadFails, ReadInterrupted
<1>3. Types
  BY DEF IInv
<1>4. /\ reader' \in Readers(script)
      /\ reader'.head = IF nest = "none" THEN <<>> ELSE reader.head
      /\ reader'.isClosed
      /\ reader'.error = IF reader.error = "none" THEN error ELSE reader.error
      /\ reader'.type = reader.type /\ reader'.skip = reader.skip
      /\ reader'.eorStop = reader.eorStop /\ reader'.avail = reader.avail
      /\ reader'.contentLen = reader.contentLen
      /\ reader'.paddingLen = reader.paddingLen
  BY <1>2, <1>3, HeadlessProps
<1>5. /\ reader.avail = 0 /\ ~reader.isClosed
  BY <1>1 DEF IInv, Phases, Filling
<1>6. Ahead' = 0
  <2>1. Len(<<>>) = 0 /\ nest' = nest
    BY <1>1
  <2>2. CASE nest = "none"
    BY <1>4, <2>1, <2>2 DEF Ahead
  <2>3. CASE nest # "none"
    BY <2>1, <2>3 DEF Ahead
  <2> QED BY <2>2, <2>3
<1>7. /\ rdNext \in Nat /\ Pos \in Nat /\ Ahead \in Nat /\ rdNext = Pos + Ahead
      /\ nest # "none" => Ahead = 0
      /\ Rest \in Nat /\ reader.paddingLen \in Nat
      /\ Boundary = Pos + Rest + reader.paddingLen
  BY HereFacts DEF StateFacts
<1>8. Pos' = rdNext
  <2>1. Pos' = rdNext' - Ahead' /\ rdNext' = rdNext
    BY <1>1 DEF Pos
  <2> QED BY <1>6, <1>7, <2>1
<1>9. Pos' \in Nat /\ Pos <= Pos'
  BY <1>7, <1>8
<1>10. Same
  BY <1>1 DEF Same
<1>11. reader'.error # "none"
  BY <1>4
<1>12. ~request.begun => pc' = "begin" \/ (pc' = "nested" /\ reader'.isClosed)
  <2>1. ~request.begun => call.client = "begin"
    BY <1>3 DEF IInv, Callers
  <2> QED BY <1>1, <1>4, <2>1
<1>13. ASSUME Regular, request.begun
       PROVE  Failing'
  <2>1. /\ reader.type \in Streams
        /\ End(MarkOf(reader.type) - 1) \in Nat
        /\ nest # "none" => Boundary <= End(MarkOf(reader.type) - 1)
        /\ reader.error = "none" \/ reader.type \in {"params", "stdin"} =>
              rdNext <= End(MarkOf(reader.type) - 1) + 1
    BY <1>1, <1>13, BeforeEnd
  <2>2. nest' # "none" => Boundary' <= End(MarkOf(reader.type) - 1)
    <3>1. ASSUME nest # "none" PROVE Boundary' = Boundary
      <4>1. /\ Boundary' = Pos' + Rest' + reader'.paddingLen
            /\ Rest' = reader'.avail + reader'.contentLen
        BY DEF Boundary, Rest
      <4>2. /\ Pos' = Pos /\ reader'.paddingLen = reader.paddingLen
        BY <1>4, <1>7, <1>8, <3>1
      <4>3. Rest' = Rest
        BY <1>4, <4>1, Zenon DEF Rest
      <4> QED BY <4>1, <4>2, <4>3 DEF Boundary
    <3> QED BY <1>1, <2>1, <3>1
  <2>3. rdNext + 0 = rdNext
    BY <1>7
  <2>4. nest' = "none" /\ reader.type \in {"params", "stdin"} =>
           rdNext' + reader'.avail <= End(MarkOf(reader.type) - 1) + 1
    BY <1>1, <1>4, <1>5, <2>1, <2>3
  <2> QED BY <1>1, <1>4, <1>5, <2>1, <2>2, <2>4, FailingClosed
<1> QED BY <1>1, <1>4, <1>9, <1>10, <1>11, <1>12, <1>13, FailsDeep

------------------------------
(* At a header.                                                            *)

\* The number of the record whose header has been read.
Here == reader.head[1].rec

\* What the header's record can be, when all is well ...
HereInOrder ==
    /\ reader.type \in Streams /\ Whole
    /\ MarkOf(Prev(reader.type)) < Here /\ Here <= MarkOf(reader.type)

\* ... after an error ...
HereLost ==
    /\ reader.type \in {"stdin", "data"}
    /\ Here <= MarkOf(Prev(reader.type))

\* ... and before the request has begun.
HereFirst ==
    /\ \A j \in 1 .. Len(script) : Here <= j => served + 1 <= script[j].nth
    /\ \A j \in 1 .. Len(script) : j < Here /\ script[j].nth = served + 1 => script[j].id = 0
    /\ script[Here].id = 0 \/ (Mine(Here) /\ script[Here].type = "begin")

\* The header is the next record's.
LEMMA HereIs ==
    ASSUME IInv, pc = "process", IsHeader(reader.head)
    PROVE  /\ Here \in 1 .. Len(script) /\ Here - 1 \in 0 .. Len(script)
           /\ Here \in 0 .. Len(script)
           /\ Pos = End(Here - 1) /\ rdNext = End(Here - 1) + 2 /\ rdNext <= End(Here)
           /\ End(Here - 1) \in Nat /\ End(Here) \in Nat
           /\ End(Here) = rdNext + script[Here].len + script[Here].pad
           /\ Header = script[Here] /\ script[Here] \in Record
           /\ \A i \in 0 .. Len(script) : Boundary = End(i) => i = Here - 1
<1>1. StateFacts
  BY HereFacts
<1>2. Here - 1 \in 0 .. Len(script) /\ Pos = End(Here - 1)
  BY HeaderFrom DEF Here
<1> DEFINE i == Here - 1
<1>3. /\ i + 1 \in 1 .. Len(script) /\ Header = script[i + 1]
      /\ rdNext = End(i) + 2 /\ rdNext <= End(i + 1) /\ reader.head[1].rec = i + 1
  <2> HIDE DEF i
  <2>1. i \in 0 .. Len(script) /\ Pos = End(i)
    BY <1>2 DEF i
  <2> QED BY <2>1, NextHeader
<1>4. i + 1 = Here
  BY <1>3 DEF Here
<1>5. /\ Here \in 1 .. Len(script) /\ Header = script[Here] /\ rdNext = End(Here - 1) + 2
      /\ rdNext <= End(Here) /\ Here \in 0 .. Len(script) /\ Len(script) \in Nat
  <2>1. Here \in 1 .. Len(script) /\ Len(script) \in Nat
    BY <1>1, <1>3, <1>4 DEF StateFacts
  <2> QED BY <1>3, <1>4, <2>1
<1>6. /\ End(Here - 1) \in Nat /\ End(Here) \in Nat
      /\ script[Here].len \in Nat /\ script[Here].pad \in Nat /\ script[Here] \in Record
      /\ End(Here) = End(Here - 1) + 2 + script[Here].len + script[Here].pad
  BY <1>1, <1>2, <1>5, EndFacts
<1>7. End(Here) = rdNext + script[Here].len + script[Here].pad
  BY <1>5, <1>6
<1>8. ASSUME NEW k \in 0 .. Len(script), Boundary = End(k)
      PROVE  k = Here - 1
  <2>1. Boundary = Pos
    <3>1. /\ Boundary = Pos + Rest + reader.paddingLen /\ Rest = 0 /\ reader.paddingLen = 0
          /\ Pos \in Nat
      BY HereFacts
    <3> QED BY <3>1
  <2>2. End(k) = End(i) /\ i \in 0 .. Len(script)
    BY <1>2, <1>8, <2>1
  <2>3. k < i \/ i < k \/ k = i
    BY <1>5, <2>2
  <2>4. ~(k < i)
    <3>1. k < i => End(k) + 2 <= End(i)
      BY <1>1, <2>2, EndFacts
    <3> QED BY <1>6, <2>2, <3>1
  <2>5. ~(i < k)
    <3>1. i < k => End(i) + 2 <= End(k)
      BY <1>1, <2>2, EndFacts
    <3> QED BY <1>6, <2>2, <3>1
  <2> QED BY <2>3, <2>4, <2>5
<1> QED BY <1>2, <1>5, <1>6, <1>7, <1>8

\* It belongs to a request that has come.
LEMMA HereHasCome ==
    ASSUME IInv, NothingEarly, pc = "process", IsHeader(reader.head)
    PROVE  script[Here].nth \in Nat /\ script[Here].nth <= served + 1
<1>1. /\ Here \in 1 .. Len(script) /\ rdNext = End(Here - 1) + 2 /\ rdNext <= End(Here)
      /\ End(Here - 1) \in Nat /\ script[Here] \in Record
  BY HereIs
<1>2. StateFacts
  BY HereFacts
<1>3. /\ rdNext \in Nat /\ rdNext <= buffStop /\ buffStop \in Nat /\ End(Here - 1) < rdNext
  BY <1>1, <1>2, SMTT(30) DEF StateFacts
<1>4. wire[rdNext].rec = Here
  BY <1>1, <1>2, <1>3, CellFacts
<1>5. rdNext \in 1 .. buffStop
  BY <1>1, <1>3
<1>6. script[Here].nth <= served + 1
  BY <1>4, <1>5 DEF NothingEarly
<1> QED BY <1>1, <1>6 DEF Record

\* While a request is read, the record is of it, or has come with it.
LEMMA HereBegun ==
    ASSUME IInv, Deep, pc = "process", IsHeader(reader.head), Regular, request.begun
    PROVE  /\ script[Here].nth = served + 1
           /\ MarkOf("none") < Here
           /\ reader.error = "none" => HereInOrder
           /\ reader.error # "none" => HereLost
           /\ ~reader.skip
<1>1. /\ Here \in 1 .. Len(script) /\ Here - 1 \in 0 .. Len(script)
      /\ Pos = End(Here - 1) /\ End(Here - 1) \in Nat /\ Here \in 0 .. Len(script)
      /\ \A i \in 0 .. Len(script) : Boundary = End(i) => i = Here - 1
  BY HereIs
<1>2. /\ Known /\ script \in Seq(Record) /\ WellFormed(script)
      /\ served + 1 \in Requests(script) /\ HasMark(script, served + 1, reader.type)
  BY KnownRequest DEF Known
<1>3. StateFacts /\ Len(script) \in Nat /\ served \in Nat
  BY HereFacts DEF StateFacts
<1>4. reader.type \in Streams
  <2>1. call.client # "begin"
    BY DEF IInv, Callers
  <2> QED BY <2>1 DEF IInv, Types, Callers, Streams
<1>5. /\ reader.contentLen = 0 /\ nest = "none" /\ ~reader.isClosed
  BY DEF IInv, Phases, Heads, Filling
<1> DEFINE b == OwnBegin(script, served + 1)
           l == MarkOf(Prev(reader.type))
           m == MarkOf(reader.type)
<1>6. b \in OwnRecords(script, served + 1) /\ Rank(script[b]) = 0 /\ b \in 1 .. Len(script)
      /\ script[b].nth = served + 1
  <2>1. b \in OwnRecords(script, served + 1) /\ Rank(script[b]) = 0
    BY <1>2, BeginProps
  <2> QED BY <1>2, <2>1, OwnProps
<1>7. b = MarkOf("none")
  <2>1. HasMark(script, served + 1, "none") /\ MarkRank("none") = 0
    BY DEF HasMark, MarkRank
  <2> QED BY <1>2, <1>6, <2>1, OrderProps DEF MarkOf
<1>8. b < Here
  <2>1. End(b) <= Pos
    BY DEF Deep, Begun
  <2>2. b \in 0 .. Len(script)
    BY <1>6
  <2>3. Here <= b => End(Here - 1) + 2 <= End(b)
    <3>1. Here <= b => Here - 1 < b
      BY <1>1, <1>6
    <3> QED BY <1>1, <1>3, <2>2, <3>1, EndFacts
  <2>4. End(b) \in Nat
    BY <1>3, <2>2, EndFacts
  <2> QED BY <1>1, <1>6, <2>1, <2>3, <2>4
<1>9. script[Here].nth = served + 1
  <2>1. served + 1 <= script[Here].nth
    <3>1. script[b].nth <= script[Here].nth
      BY <1>1, <1>2, <1>6, <1>8, WellFormedProps
    <3> QED BY <1>6, <3>1
  <2>2. script[Here].nth \in Nat /\ script[Here].nth <= served + 1
    BY HereHasCome DEF Deep
  <2> QED BY <1>3, <2>1, <2>2
<1>10. /\ l \in 1 .. Len(script) /\ m \in 1 .. Len(script)
       /\ l - 1 \in 0 .. Len(script)
       /\ End(l - 1) \in Nat /\ End(l) \in Nat /\ End(l - 1) + 2 <= End(l)
  BY <1>2, <1>3, <1>4, MarkFacts
<1> HIDE DEF b, l, m
<1>11. ASSUME reader.error = "none"
       PROVE  HereInOrder /\ ~reader.skip
  <2>1. PICK i \in 0 .. Len(script) : Placed(i)
    BY <1>11 DEF Deep, Aligned
  <2>2. At(i) /\ InFlight(i) /\ Within(i)
    BY <2>1 DEF Placed
  <2>3. i = Here - 1
    BY <1>1, <2>2 DEF At
  <2>4. ~reader.skip
    BY <1>5, <2>2, <1>3 DEF InFlight, StateFacts
  <2>5. l <= i /\ i < m
    BY <1>4, <1>5, <2>2 DEF Within, Closed, Streams, l, m
  <2>6. l < Here /\ Here <= m
    BY <1>1, <1>10, <2>3, <2>5
  <2>7. Whole
    BY <2>2 DEF Within
  <2> QED BY <1>4, <2>4, <2>6, <2>7 DEF HereInOrder, l, m
<1>12. ASSUME reader.error # "none"
       PROVE  HereLost /\ ~reader.skip
  <2>1. Failing
    BY <1>12 DEF Deep, Failed
  <2>2. reader.type # "params" /\ (Skipping \/ Lost)
    BY <1>5, <2>1 DEF Failing
  <2>3. reader.type \in {"stdin", "data"}
    BY <1>4, <2>2 DEF Streams
  <2>4. CASE Skipping
    <3>1. PICK i \in 0 .. Len(script) : At(i) /\ InFlight(i) /\ i < l
      BY <2>4 DEF Skipping, l
    <3>2. i = Here - 1
      BY <1>1, <3>1 DEF At
    <3>3. ~reader.skip
      BY <1>5, <3>1, <1>3 DEF InFlight, StateFacts
    <3>4. Here <= l
      BY <1>1, <1>10, <3>1, <3>2
    <3> QED BY <2>3, <3>3, <3>4 DEF HereLost, l
  <2>5. CASE Lost
    <3>1. Pos <= End(l - 1) + 1 /\ ~reader.skip
      BY <2>5 DEF Lost, l
    <3>2. ~(l - 1 < Here - 1)
      <4>1. l - 1 < Here - 1 => End(l - 1) + 2 <= End(Here - 1)
        BY <1>1, <1>3, <1>10, EndFacts
      <4> QED BY <1>1, <1>10, <3>1, <4>1
    <3>3. Here <= l
      BY <1>1, <1>10, <3>2
    <3> QED BY <2>3, <3>1, <3>3 DEF HereLost, l
  <2> QED BY <2>2, <2>4, <2>5
<1>13. MarkOf("none") < Here
  BY <1>7, <1>8
<1> QED BY <1>9, <1>11, <1>12, <1>13

\* Before, it has no id, or begins the request.
LEMMA HereUnbegun ==
    ASSUME IInv, Deep, pc = "process", IsHeader(reader.head), Regular, ~request.begun
    PROVE  HereFirst /\ reader.error = "none" /\ ~reader.skip
           /\ script[Here].nth = served + 1
<1>1. /\ Here \in 1 .. Len(script) /\ Here - 1 \in 0 .. Len(script) /\ script[Here] \in Record
      /\ \A i \in 0 .. Len(script) : Boundary = End(i) => i = Here - 1
  BY HereIs
<1>2. /\ script \in Seq(Record) /\ WellFormed(script) /\ Len(script) \in Nat /\ served \in Nat
      /\ StateFacts
  BY HereFacts DEF StateFacts, Regular
<1>3. reader.error = "none"
  BY DEF Deep, Early
<1>4. PICK i \in 0 .. Len(script) : Placed(i)
  BY <1>3 DEF Deep, Aligned
<1>5. At(i) /\ InFlight(i) /\ Before(i)
  BY <1>4 DEF Placed
<1>6. i = Here - 1
  BY <1>1, <1>5 DEF At
<1>7. /\ reader.contentLen = 0 /\ nest = "none"
  BY DEF IInv, Phases, Heads
<1>8. ~reader.skip
  BY <1>5, <1>7, <1>2 DEF InFlight, StateFacts
<1>9. \A j \in 1 .. Len(script) : Here <= j => served + 1 <= script[j].nth
  <2>1. \A j \in 1 .. Len(script) : i < j => served + 1 <= script[j].nth
    BY <1>5 DEF Before
  <2>2. \A j \in 1 .. Len(script) : Here <= j => i < j
    BY <1>1, <1>6
  <2> QED BY <2>1, <2>2
<1>10. \A j \in 1 .. Len(script) : j < Here /\ script[j].nth = served + 1 => script[j].id = 0
  <2>1. \A j \in 1 .. i : script[j].nth = served + 1 => script[j].id = 0
    BY <1>5, <1>7 DEF Before
  <2>2. \A j \in 1 .. Len(script) : j < Here => j \in 1 .. i
    BY <1>1, <1>6
  <2> QED BY <2>1, <2>2
<1>11. script[Here].nth = served + 1
  <2>1. script[Here].nth \in Nat /\ script[Here].nth <= served + 1
    BY HereHasCome DEF Deep
  <2>2. served + 1 <= script[Here].nth
    BY <1>1, <1>9
  <2> QED BY <1>2, <2>1, <2>2
<1>12. ASSUME script[Here].id # 0
       PROVE  Mine(Here) /\ script[Here].type = "begin"
  <2> DEFINE b == OwnBegin(script, served + 1)
  <2>1. served + 1 \in Requests(script)
    BY <1>1, <1>2, <1>11, WellFormedProps
  <2>2. /\ b \in OwnRecords(script, served + 1) /\ Rank(script[b]) = 0 /\ script[b].id # 0
        /\ script[b].type = "begin"
    BY <1>2, <2>1, BeginProps
  <2>3. b \in 1 .. Len(script) /\ script[b].nth = served + 1
    BY <1>2, <2>1, <2>2, OwnProps
  <2>4. ~(b < Here)
    BY <1>10, <2>2, <2>3
  <2>5. script[Here].id = OwnId(script, served + 1)
    <3>1. script[Here].id # OwnId(script, served + 1) => b < Here
      BY <1>1, <1>2, <1>11, <1>12, WellFormedProps
    <3> QED BY <2>4, <3>1
  <2>6. Mine(Here)
    <3>1. Here \in DOMAIN script
      BY <1>1, <1>2 DEF StateFacts
    <3> QED BY <1>11, <2>5, <3>1 DEF Mine, OwnRecords
  <2> HIDE DEF b
  <2>7. ~(Here < b)
    <3>1. HasMark(script, served + 1, "none") /\ MarkRank("none") = 0
      BY DEF HasMark, MarkRank
    <3>2. b = Mark(script, served + 1, "none")
      BY <1>2, <2>1, <2>2, <3>1, OrderProps
    <3>3. Here < b => Rank(script[Here]) < 0
      BY <1>2, <2>1, <2>6, <3>1, <3>2, OrderProps DEF Mine
    <3>4. Rank(script[Here]) \in 0 .. 7
      BY <1>1, RankProps
    <3> QED BY <3>3, <3>4
  <2>8. b = Here
    BY <1>1, <2>3, <2>4, <2>7
  <2> QED BY <2>2, <2>6, <2>8
<1> QED BY <1>3, <1>8, <1>9, <1>10, <1>11, <1>12 DEF HereFirst

------------------------------
(* From a header on.                                                       *)

\* The reader goes on into the record, nested or not.
IntoRecord ==
    /\ Same /\ UNCHANGED <<buffStop, rdNext, call>>
    /\ reader'.type = reader.type /\ reader'.error = reader.error
    /\ reader'.avail = 0 /\ ~reader'.isClosed
    /\ reader'.contentLen = Header.len /\ reader'.paddingLen = Header.pad
    /\ Ahead' = 0 /\ pc' \in {"top", "nested"}

\* That is where the record's cells are.
LEMMA IntoAt ==
    ASSUME IInv, pc = "process", IsHeader(reader.head),
           UNCHANGED <<script, rdNext>>,
           reader'.avail = 0, reader'.contentLen = Header.len, reader'.paddingLen = Header.pad,
           Ahead' = 0, nest' # "none" => reader'.head = reader.head,
           NEW i \in 0 .. Len(script), i = Here
    PROVE  /\ Pos' = rdNext /\ Pos' \in Nat /\ Pos <= Pos' /\ rdNext \in Nat
           /\ Rest' = script[i].len /\ Boundary' = End(i)
           /\ At(i)'
<1>1. /\ i \in 1 .. Len(script) /\ Header = script[i] /\ script[i] \in Record
      /\ End(i) = rdNext + script[i].len + script[i].pad
      /\ Pos = End(i - 1) /\ End(i - 1) \in Nat /\ rdNext = End(i - 1) + 2
  BY HereIs
<1> DEFINE c == script[i].len
           d == script[i].pad
<1>2. c \in Nat /\ d \in Nat /\ rdNext \in Nat
  BY <1>1 DEF Record
<1>3. Pos' = rdNext
  <2>1. Pos' = rdNext - 0
    BY DEF Pos
  <2> QED BY <1>2, <2>1
<1>4. Rest' = c
  <2>1. Rest' = 0 + Header.len
    BY DEF Rest
  <2> HIDE DEF c
  <2>2. Header.len = c
    BY <1>1 DEF c
  <2> QED BY <1>2, <2>1, <2>2
<1>5. reader'.paddingLen = d
  BY <1>1
<1>6. Boundary' = End(i)
  <2>1. Boundary' = Pos' + Rest' + reader'.paddingLen
    BY DEF Boundary
  <2>2. Boundary' = rdNext + c + d
    BY <1>3, <1>4, <1>5, <2>1
  <2> QED BY <1>1, <2>2
<1>7. Pos' \in Nat /\ Pos <= Pos'
  BY <1>1, <1>2, <1>3
<1>8. At(i)'
  <2>1. nest' # "none" => reader'.head[1].rec = i
    BY DEF Here
  <2>2. i > 0
    BY <1>1
  <2>3. /\ reader'.paddingLen > 0 => i > 0 /\ reader'.paddingLen <= script'[i].pad
        /\ Rest' > 0 => i > 0 /\ reader'.paddingLen = script'[i].pad
                          /\ Rest' <= script'[i].len
    <3>1. d <= d /\ c <= c
      BY <1>2
    <3> QED BY <1>4, <1>5, <2>2, <3>1
  <2>4. Boundary' = End(i)'
    <3>1. End(i)' = End(i)
      BY DEF End
    <3> QED BY <1>6, <3>1
  <2> QED BY <2>1, <2>3, <2>4 DEF At
<1> QED BY <1>2, <1>3, <1>4, <1>6, <1>7, <1>8

\* The record is the request's to read, or to skip.
LEMMA IntoDeep ==
    ASSUME IInv, Deep, pc = "process", IsHeader(reader.head), IntoRecord,
           nest' # "none" => reader'.head = reader.head,
           NEW i \in 0 .. Len(script), i = Here,
           Regular => InFlight(i)',
           Regular /\ request.begun /\ reader.error = "none" => i # MarkOf(reader.type),
           Regular /\ request.begun /\ reader.error # "none" =>
              i # MarkOf(Prev(reader.type))
                     /\ (reader'.contentLen > 0 => nest' # "none" \/ reader'.skip),
           Regular /\ ~request.begun =>
              script[i].id = 0 /\ nest' # "body" /\ (nest' = "none" => Header.len = 0)
    PROVE  Deep'
<1>1. Same /\ UNCHANGED <<script, wire, served, request, params, delivered, buffStop, rdNext, call>>
  BY DEF IntoRecord, Same
<1>2. /\ reader'.type = reader.type /\ reader'.error = reader.error
      /\ reader'.avail = 0 /\ ~reader'.isClosed
      /\ reader'.contentLen = Header.len /\ reader'.paddingLen = Header.pad
      /\ Ahead' = 0 /\ pc' \in {"top", "nested"}
  BY DEF IntoRecord
<1>3. /\ Pos' = rdNext /\ Pos' \in Nat /\ Pos <= Pos' /\ rdNext \in Nat
      /\ Rest' = script[i].len /\ Boundary' = End(i) /\ At(i)'
  BY <1>1, <1>2, IntoAt
<1>4. i \in 1 .. Len(script) /\ Header = script[i]
  BY HereIs
<1>5. /\ ~Closed' /\ StateFacts /\ served \in Nat
  BY <1>2, HereFacts DEF Closed, StateFacts
<1>6. NothingEarly'
  BY <1>1, NotEarlySame DEF Deep
<1>7. Early'
  <2>1. ~request.begun => reader.error = "none"
    BY DEF Deep, Early
  <2> QED BY <1>1, <1>2, <2>1 DEF Early
<1>8. Begun'
  BY <1>1, <1>2, <1>3, BegunSame DEF Deep
<1>9. EnvComplete' /\ InputInOrder'
  BY <1>1, <1>2, EnvSame, InputSame DEF Deep
<1>10. ASSUME Regular', reader'.error = "none"
       PROVE  (\E k \in 0 .. Len(script) : Placed(k))'
  <2>1. Regular /\ reader.error = "none"
    BY <1>1, <1>2, <1>10, RegularSame
  <2>2. ASSUME request.begun
        PROVE  Within(i)'
    <3>1. HereInOrder
      BY <2>1, <2>2, HereBegun
    <3>2. /\ MarkOf(Prev(reader.type)) < i /\ i < MarkOf(reader.type)
          /\ reader.type \in Streams /\ Whole
      <4>1. i # MarkOf(reader.type)
        BY <2>1, <2>2
      <4>2. MarkOf(reader.type) \in 1 .. Len(script)
             /\ MarkOf(Prev(reader.type)) \in 1 .. Len(script)
        BY <1>5, <2>1, <2>2, <3>1, KnownRequest, MarkFacts DEF HereInOrder
      <4> QED BY <1>4, <3>1, <4>1, <4>2 DEF HereInOrder
    <3>3. Whole'
      <4>1. Unowned
        BY <1>1, UnownedNone
      <4>2. rdNext <= rdNext' /\ rdNext' <= Len(wire) /\ rdNext' \in Nat
        BY <1>1, <1>3, HereFacts
      <4> QED BY <1>1, <3>2, <4>1, <4>2, WholeStays
    <3>4. /\ MarkOf(Prev(reader.type))' = MarkOf(Prev(reader.type))
          /\ MarkOf(reader.type)' = MarkOf(reader.type)
      BY <1>1, <1>2, Zenon DEF MarkOf
    <3>5. MarkOf(Prev(reader.type)) <= i
      <4>1. MarkOf(Prev(reader.type)) \in 1 .. Len(script)
        BY <1>5, <2>1, <2>2, <3>1, KnownRequest, MarkFacts DEF HereInOrder
      <4> QED BY <1>4, <3>2, <4>1
    <3>6. reader'.type # "none" /\ ~Closed'
      BY <1>2, <1>5, <3>2 DEF Streams
    <3> QED BY <3>2, <3>3, <3>4, <3>5, <3>6 DEF Within
  <2>3. ASSUME ~request.begun
        PROVE  Before(i)'
    <3>1. /\ HereFirst /\ script[i].id = 0 /\ nest' # "body" /\ (nest' = "none" => Header.len = 0)
      BY <2>1, <2>3, HereUnbegun
    <3>2. nest' = "none" => Rest' = 0
      BY <1>3, <1>4, <3>1
    <3>3. \A j \in 1 .. Len(script') : i < j => served' + 1 <= script'[j].nth
      <4>1. \A j \in 1 .. Len(script) : i < j => i <= j
        BY <1>4
      <4> QED BY <1>1, <3>1, <4>1 DEF HereFirst
    <3>4. \A j \in 1 .. i : script'[j].nth = served' + 1 => script'[j].id = 0
      <4>1. \A j \in 1 .. i : j \in 1 .. Len(script) /\ (j = i \/ j < i)
        BY <1>4
      <4> QED BY <1>1, <3>1, <4>1 DEF HereFirst
    <3> QED BY <3>1, <3>2, <3>3, <3>4 DEF Before
  <2>4. InFlight(i)'
    BY <2>1
  <2>5. Placed(i)'
    BY <1>1, <1>3, <2>2, <2>3, <2>4 DEF Placed
  <2>6. i \in 0 .. Len(script')
    BY <1>1
  <2> QED BY <2>5, <2>6
<1>11. ASSUME Regular', request'.begun, reader'.error # "none"
       PROVE  Failing'
  <2>1. Regular /\ request.begun /\ reader.error # "none"
    BY <1>1, <1>2, <1>11, RegularSame
  <2>2. HereLost
    BY <2>1, HereBegun
  <2> DEFINE l == MarkOf(Prev(reader.type))
             m == MarkOf(reader.type)
  <2>3. /\ l \in 1 .. Len(script) /\ m \in 1 .. Len(script) /\ l <= m - 1
        /\ m - 1 \in 0 .. Len(script)
    <3>1. reader.type \in Streams
      BY <2>2 DEF HereLost, Streams
    <3> QED BY <1>5, <2>1, <3>1, KnownRequest, MarkFacts
  <2>4. l' = l /\ m' = m /\ End(m - 1)' = End(m - 1)
    BY <1>1, <1>2, Zenon DEF MarkOf, End
  <2>5. i < l /\ i <= m - 1
    <3>1. i <= l /\ i # l
      BY <2>1, <2>2 DEF HereLost
    <3> HIDE DEF l, m
    <3> QED BY <1>4, <2>3, <3>1
  <2>6. nest' # "none" => Boundary' <= End(m - 1)'
    <3> HIDE DEF l, m
    <3>1. End(i) <= End(m - 1)
      BY <1>5, <2>3, <2>5, EndFacts
    <3> QED BY <1>3, <2>4, <3>1
  <2>7. Skipping' \/ nest' # "none"
    <3>1. SUFFICES ASSUME nest' = "none" PROVE Skipping'
      OBVIOUS
    <3>2. reader'.contentLen > 0 => reader'.skip
      BY <2>1, <3>1
    <3>3. At(i)' /\ InFlight(i)' /\ i < MarkOf(Prev(reader.type))' /\ i \in 0 .. Len(script')
      BY <1>1, <1>2, <1>3, <2>1, <2>4, <2>5
    <3> QED BY <3>2, <3>3 DEF Skipping
  <2>8. reader'.type # "none" /\ reader'.type # "params"
    BY <1>2, <2>2 DEF HereLost
  <2>9. nest' # "none" => Boundary' <= End(MarkOf(reader.type) - 1)'
    BY <2>6
  <2> HIDE DEF l, m
  <2> QED BY <1>2, <1>5, <2>7, <2>8, <2>9 DEF Failing
<1> QED BY <1>6, <1>7, <1>8, <1>9, <1>10, <1>11 DEF Deep, Aligned, Failed

------------------------------
(* What FillBuffProc makes of a record.                                    *)

\* An error that the caller gets to see.
LEMMA SwitchFails ==
    ASSUME IInv, Deep, pc \in {"process", "nested"}, Same,
           UNCHANGED <<buffStop, rdNext, call>>, nest' = "none",
           reader'.head = <<>>, reader'.avail = 0, reader'.isClosed,
           reader'.type = reader.type, reader'.error # "none", pc' = call.client,
           Regular /\ request.begun /\ reader.type \in {"params", "stdin"} =>
              rdNext <= End(MarkOf(reader.type) - 1) + 1
    PROVE  Deep'
<1>1. /\ UNCHANGED <<script, served, request>>
  BY DEF Same
<1>2. /\ rdNext \in Nat /\ Pos \in Nat /\ Ahead \in Nat /\ rdNext = Pos + Ahead
  BY HereFacts DEF StateFacts
<1>3. Ahead' = 0
  <2>1. Len(<<>>) = 0
    OBVIOUS
  <2> QED BY <2>1 DEF Ahead
<1>4. Pos' = rdNext
  <2>1. Pos' = rdNext - 0
    BY <1>3 DEF Pos
  <2> QED BY <1>2, <2>1
<1>5. Pos' \in Nat /\ Pos <= Pos'
  BY <1>2, <1>4
<1>6. ~request.begun => pc' = "begin"
  <2>1. ~request.begun => call.client = "begin"
    BY DEF IInv, Callers, Types
  <2> QED BY <2>1
<1>7. ASSUME Regular, request.begun
      PROVE  Failing'
  <2>1. reader.type \in Streams
    <3>1. call.client # "begin"
      BY <1>7 DEF IInv, Callers
    <3> QED BY <3>1 DEF IInv, Types, Callers, Streams
  <2>2. reader.type \in {"params", "stdin"} =>
           rdNext' + reader'.avail <= End(MarkOf(reader.type) - 1) + 1
    <3>1. rdNext + 0 = rdNext
      BY <1>2
    <3> QED BY <1>7, <3>1
  <2> QED BY <1>1, <2>1, <2>2, FailingClosed
<1>8. Same /\ buffStop' = buffStop /\ call'.client = call.client
  OBVIOUS
<1> QED BY <1>5, <1>6, <1>7, <1>8, FailsDeep

\* At a record that is not the end of the stream.
LEMMA HereFails ==
    ASSUME IInv, Deep, pc = "process", IsHeader(reader.head), Regular, request.begun,
           Here # MarkOf(reader.type)
    PROVE  rdNext <= End(MarkOf(reader.type) - 1) + 1
<1>1. /\ Here \in 1 .. Len(script) /\ Here \in 0 .. Len(script)
      /\ rdNext <= End(Here) /\ End(Here) \in Nat
  BY HereIs
<1>2. StateFacts /\ rdNext \in Nat
  BY HereFacts DEF StateFacts
<1>3. HereInOrder \/ HereLost
  BY HereBegun
<1> DEFINE l == MarkOf(Prev(reader.type))
           m == MarkOf(reader.type)
<1>4. /\ l \in 1 .. Len(script) /\ m \in 1 .. Len(script) /\ l < m
      /\ m - 1 \in 0 .. Len(script) /\ End(m - 1) \in Nat
  <2>1. reader.type \in Streams
    BY <1>3 DEF HereInOrder, HereLost, Streams
  <2> QED BY <1>2, <2>1, KnownRequest, MarkFacts
<1>5. Here <= m /\ Here # m
  <2>1. Here <= l \/ Here <= m
    BY <1>3 DEF HereInOrder, HereLost
  <2> HIDE DEF l
  <2>2. Here <= m
    <3> HIDE DEF m
    <3> QED BY <1>1, <1>4, <2>1
  <2> QED BY <2>2
<1> HIDE DEF l, m
<1>6. End(Here) <= End(m - 1)
  <2>1. Here <= m - 1
    BY <1>1, <1>4, <1>5
  <2> QED BY <1>1, <1>2, <1>4, <2>1, EndFacts
<1>7. rdNext <= End(m - 1) + 1
  BY <1>1, <1>2, <1>4, <1>6
<1> QED BY <1>7 DEF m

\* The end of the stream.
LEMMA EndsDeep ==
    ASSUME IInv, Deep, pc = "process", IsHeader(reader.head), Same,
           UNCHANGED <<buffStop, rdNext, call, nest>>,
           reader'.type = reader.type, reader'.error = reader.error,
           reader'.head = <<>>, reader'.avail = 0, reader'.isClosed,
           reader'.contentLen = Header.len, reader'.paddingLen = Header.pad,
           reader'.skip = reader.skip, pc' = call.client, Header.len = 0,
           Regular => request.begun /\ reader.error = "none" /\ Here = MarkOf(reader.type)
    PROVE  Deep'
<1>1. UNCHANGED <<script, wire, served, request, params, delivered, buffStop, rdNext, call, nest>>
  BY DEF Same
<1>2. nest = "none"
  BY DEF IInv, Heads
<1>3. Ahead' = 0
  <2>1. Len(<<>>) = 0
    OBVIOUS
  <2> QED BY <1>2, <2>1 DEF Ahead
<1>4. PICK i \in 0 .. Len(script) : i = Here
  BY HereIs
<1>5. /\ Pos' = rdNext /\ Pos' \in Nat /\ Pos <= Pos' /\ rdNext \in Nat
      /\ Rest' = script[i].len /\ Boundary' = End(i) /\ At(i)'
  BY <1>1, <1>2, <1>3, <1>4, IntoAt
<1>6. /\ i \in 1 .. Len(script) /\ Header = script[i] /\ script[i] \in Record
      /\ End(i) = rdNext + script[i].len + script[i].pad
  BY <1>4, HereIs
<1>7. NothingEarly'
  BY <1>1, NotEarlySame DEF Deep
<1>8. Early'
  <2>1. ~request.begun => reader.error = "none"
    BY DEF Deep, Early
  <2> QED BY <1>1, <2>1 DEF Early
<1>9. Begun'
  BY <1>1, <1>5, BegunSame DEF Deep
<1>10. EnvComplete' /\ InputInOrder'
  BY <1>1, EnvSame, InputSame DEF Deep
<1>11. Failed'
  BY RegularSame DEF Failed
<1>12. ASSUME Regular'
       PROVE  (\E k \in 0 .. Len(script) : Placed(k))'
  <2>1. Regular /\ request.begun /\ reader.error = "none" /\ i = MarkOf(reader.type)
    BY <1>4, <1>12, RegularSame
  <2>2. HereInOrder /\ ~reader.skip
    BY <2>1, HereBegun
  <2>3. Rest' = 0
    BY <1>5, <1>6
  <2>4. InFlight(i)'
    BY <1>1, <1>2, <2>2, <2>3 DEF InFlight
  <2>5. Whole'
    <3>1. Unowned
      BY <1>1, UnownedNone
    <3>2. rdNext <= rdNext' /\ rdNext' <= Len(wire) /\ rdNext' \in Nat
      BY <1>1, <1>5, HereFacts
    <3> QED BY <1>1, <2>2, <3>1, <3>2, WholeStays DEF HereInOrder
  <2>6. script[i].pad = 0
    <3>1. Known /\ script \in Seq(Record) /\ HasMark(script, served + 1, reader.type)
      BY <2>1, KnownRequest
    <3>2. reader.type \in Streams
      BY <2>2 DEF HereInOrder
    <3>3. i \in OwnRecords(script, served + 1)
      BY <2>1, <3>1, MarkProps DEF Known, MarkOf
    <3> QED BY <2>1, <3>1, <3>2, <3>3, StreamPlace DEF Known, MarkOf
  <2>7. rdNext' = End(i)'
    <3>1. End(i) = rdNext
      BY <1>5, <1>6, <2>6
    <3>2. End(i)' = End(i)
      BY <1>1 DEF End
    <3> QED BY <1>1, <3>1, <3>2
  <2>8. i = MarkOf(reader.type)'
    <3>1. MarkOf(reader.type)' = MarkOf(reader.type)
      BY <1>1, Zenon DEF MarkOf
    <3> QED BY <2>1, <3>1
  <2>9. Closed'
    BY <1>1, <1>2 DEF Closed
  <2>10. Within(i)'
    BY <2>5, <2>7, <2>8, <2>9 DEF Within
  <2>11. Placed(i)' /\ i \in 0 .. Len(script')
    BY <1>1, <1>5, <2>1, <2>4, <2>10 DEF Placed
  <2> QED BY <2>11
<1> QED BY <1>7, <1>8, <1>9, <1>10, <1>11, <1>12 DEF Deep, Aligned

------------------------------
(* The records that FillBuffProc meets.                                    *)

\* Records without an id, and other requests', are not the request's own.
LEMMA NotMine ==
    ASSUME StateFacts, Known, NEW i \in 1 .. Len(script), script[i].nth = served + 1,
           script[i].id = 0 \/ script[i].id # OwnId(script, served + 1)
    PROVE  /\ ~Mine(i)
           /\ \A type \in Streams \cup {"none"} :
                 HasMark(script, served + 1, type) => i # MarkOf(type)
<1>1. script \in Seq(Record) /\ WellFormed(script) /\ served + 1 \in Requests(script)
  BY DEF StateFacts, Known
<1>2. OwnId(script, served + 1) # 0
  BY <1>1, BeginProps
<1>3. ~Mine(i)
  BY <1>2 DEF Mine, OwnRecords
<1>4. ASSUME NEW type, HasMark(script, served + 1, type)
      PROVE  i # MarkOf(type)
  BY <1>1, <1>3, <1>4, MarkProps DEF MarkOf, Mine
<1> QED BY <1>3, <1>4

\* What each status asks of the record.
Fits(status) ==
    /\ status \in {"protocol", "version", "os"} =>
          (request.begun => Here # MarkOf(reader.type))
    /\ status = "SKIP" =>
          request.begun /\ script[Here].id # OwnId(script, served + 1) /\ Header.len > 0
    /\ status = "MGMT" => Header.len = 0 /\ script[Here].id = 0
    /\ status = "STREAM" => request.begun /\ Mine(Here) /\ script[Here].type = reader.type

\* A record of the stream comes before its end, or is its end, without an error.
LEMMA StreamHere ==
    ASSUME IInv, Deep, pc = "process", IsHeader(reader.head), Regular, request.begun,
           Mine(Here), script[Here].type = reader.type
    PROVE  /\ reader.error = "none"
           /\ Here = MarkOf(reader.type) <=> Header.len = 0
<1>1. /\ Here \in 1 .. Len(script) /\ Header = script[Here]
  BY HereIs
<1>2. (HereInOrder /\ reader.error = "none") \/ HereLost
  BY HereBegun
<1>3. reader.type \in Streams
  BY <1>2 DEF HereInOrder, HereLost, Streams
<1>4. Known /\ script \in Seq(Record) /\ HasMark(script, served + 1, reader.type) /\ StateFacts
  BY KnownRequest, HereFacts
<1> DEFINE l == MarkOf(Prev(reader.type))
           m == MarkOf(reader.type)
<1>5. l < Here /\ (Here = m <=> script[Here].len = 0)
  BY <1>3, <1>4, StreamPlace DEF Known, Mine, MarkOf
<1>6. l \in 1 .. Len(script)
  BY <1>3, <1>4, MarkFacts
<1>7. ~(Here <= l)
  <2> HIDE DEF l
  <2> QED BY <1>1, <1>5, <1>6
<1>8. ~HereLost
  BY <1>7 DEF HereLost
<1> QED BY <1>1, <1>2, <1>5, <1>8

\* FillBuffProc's switch, if the status fits the record that the header is of.
LEMMA SwitchHere ==
    ASSUME IInv, Deep, pc = "process", IsHeader(reader.head), Same,
           UNCHANGED <<buffStop, rdNext, call, nest>>,
           NEW status \in {"STREAM", "SKIP", "MGMT", "protocol", "version", "os"},
           Switch(WithLengths, status), Regular => Fits(status)
    PROVE  Deep'
<1>1. UNCHANGED <<script, wire, served, request, params, delivered>>
  BY DEF Same
<1>2. nest = "none" /\ StateFacts
  BY HereFacts DEF IInv, Heads
<1>3. /\ WithLengths \in Readers(script) /\ WithLengths.avail = 0
      /\ WithLengths.contentLen = Header.len /\ WithLengths.paddingLen = Header.pad
      /\ WithLengths.type = reader.type /\ WithLengths.skip = reader.skip
      /\ WithLengths.error = reader.error
  BY WithLengthsProps
<1>4. /\ reader'.head = <<>> /\ reader'.avail = 0
      /\ reader'.type = reader.type
      /\ reader'.contentLen = Header.len /\ reader'.paddingLen = Header.pad
      /\ reader'.skip <=> reader.skip \/ status = "SKIP"
      /\ reader' \in Readers(script)
      /\ \/ /\ pc' = "top" /\ ~reader'.isClosed /\ reader'.error = reader.error
            /\ status \in {"STREAM", "SKIP", "MGMT"}
            /\ status = "STREAM" => Header.len > 0
         \/ /\ pc' = call.client /\ reader'.isClosed /\ reader'.error = reader.error
            /\ status = "STREAM" /\ Header.len = 0
         \/ /\ pc' = call.client /\ reader'.isClosed
            /\ reader'.error = IF reader.error = "none" THEN status ELSE reader.error
            /\ status \in {"protocol", "version", "os"}
  <2> DEFINE r == WithLengths
  <2>1. /\ r \in Readers(script) /\ r.avail = 0 /\ r.contentLen = Header.len
        /\ r.paddingLen = Header.pad /\ r.type = reader.type /\ r.skip = reader.skip
        /\ r.error = reader.error
    BY <1>3
  <2>2. Switch(r, status)
    OBVIOUS
  <2> HIDE DEF r
  <2>3. /\ reader' \in Readers(script)
        /\ reader'.head = <<>> /\ ~reader'.eorStop /\ reader'.avail = 0
        /\ reader'.type = r.type
        /\ reader'.contentLen = r.contentLen /\ reader'.paddingLen = r.paddingLen
        /\ reader'.skip <=> r.skip \/ status = "SKIP"
        /\ \/ /\ pc' = "top" /\ ~reader'.isClosed /\ reader'.error = r.error
              /\ status \in {"STREAM", "SKIP", "MGMT"}
              /\ status = "STREAM" => r.contentLen > 0
           \/ /\ pc' = call.client /\ reader'.isClosed /\ reader'.error = r.error
              /\ status = "STREAM" /\ r.contentLen = 0
           \/ /\ pc' = call.client /\ ~reader'.isClosed /\ reader'.error = r.error
              /\ status = "BEGIN"
           \/ /\ pc' = call.client /\ reader'.isClosed
              /\ reader'.error = IF r.error = "none" THEN status ELSE r.error
              /\ status \in {"protocol", "version", "os"}
    BY <2>1, <2>2, SwitchProps
  <2> QED BY <2>1, <2>3
<1>5. /\ Here \in 1 .. Len(script) /\ Here \in 0 .. Len(script) /\ Header = script[Here]
      /\ script[Here] \in Record
  BY HereIs
<1>6. Ahead' = 0
  <2>1. Len(<<>>) = 0
    OBVIOUS
  <2> QED BY <1>2, <1>4, <2>1 DEF Ahead
<1>7. CASE pc' = call.client /\ reader'.isClosed /\ status \in {"protocol", "version", "os"}
             /\ reader'.error = IF reader.error = "none" THEN status ELSE reader.error
  <2>1. reader'.error # "none"
    BY <1>7
  <2>2. Regular /\ request.begun /\ reader.type \in {"params", "stdin"} =>
           rdNext <= End(MarkOf(reader.type) - 1) + 1
    BY <1>7, HereFails DEF Fits
  <2>3. nest' = "none" /\ UNCHANGED <<buffStop, rdNext, call>>
    BY <1>2
  <2> QED BY <1>4, <1>7, <2>1, <2>2, <2>3, SwitchFails
<1>8. CASE /\ pc' = call.client /\ reader'.isClosed /\ reader'.error = reader.error
           /\ status = "STREAM" /\ Header.len = 0
  <2>1. Regular => request.begun /\ reader.error = "none" /\ Here = MarkOf(reader.type)
    BY <1>8, StreamHere DEF Fits
  <2>2. reader'.skip = reader.skip
    <3>1. reader.skip \in BOOLEAN /\ reader'.skip \in BOOLEAN
      BY <1>4 DEF IInv, Types, Readers
    <3> QED BY <1>4, <1>8, <3>1
  <2> QED BY <1>4, <1>8, <2>1, <2>2, EndsDeep
<1>9. CASE /\ pc' = "top" /\ ~reader'.isClosed /\ reader'.error = reader.error
           /\ status \in {"STREAM", "SKIP", "MGMT"}
           /\ status = "STREAM" => Header.len > 0
  <2>1. IntoRecord
    BY <1>4, <1>6, <1>9 DEF IntoRecord
  <2>2. PICK i \in 0 .. Len(script) : i = Here
    BY <1>5
  <2>3. ASSUME Regular
        PROVE  /\ script[i].nth = served + 1 /\ ~reader.skip
               /\ request.begun => Known /\ HasMark(script, served + 1, reader.type)
                                     /\ HasMark(script, served + 1, Prev(reader.type))
                                     /\ reader.type \in Streams
                                     /\ Prev(reader.type) \in Streams \cup {"none"}
               /\ Fits(status)
    <3>1. script[i].nth = served + 1 /\ ~reader.skip
      BY <2>2, <2>3, HereBegun, HereUnbegun
    <3>2. ASSUME request.begun
          PROVE  /\ Known /\ HasMark(script, served + 1, reader.type)
                 /\ reader.type \in Streams
      <4>1. HereInOrder \/ HereLost
        BY <2>3, <3>2, HereBegun
      <4> QED BY <2>3, <3>2, <4>1, KnownRequest DEF HereInOrder, HereLost, Streams
    <3>3. ASSUME request.begun
          PROVE  /\ HasMark(script, served + 1, Prev(reader.type))
                 /\ Prev(reader.type) \in Streams \cup {"none"}
      BY <3>2, <3>3 DEF HasMark, Prev, Streams
    <3> QED BY <2>3, <3>1, <3>2, <3>3
  <2>4. ASSUME Regular
        PROVE  InFlight(i)'
    <3>1. Rest' = script[i].len
      BY <1>1, <1>2, <1>4, <1>6, <2>2, IntoAt
    <3>2. Mine(i)' <=> Mine(i)
      BY <1>1 DEF Mine
    <3>3. CASE status = "SKIP"
      <4>1. ~Mine(i) /\ reader'.skip /\ Header.len > 0
        BY <1>2, <1>4, <1>5, <2>2, <2>3, <2>4, <3>3, NotMine DEF Fits
      <4> QED BY <1>2, <1>4, <3>2, <4>1 DEF InFlight
    <3>4. CASE status = "MGMT"
      <4>1. ~reader'.skip /\ Rest' = 0
        BY <1>4, <1>5, <2>2, <2>3, <2>4, <3>1, <3>4 DEF Fits
      <4> QED BY <1>2, <4>1 DEF InFlight
    <3>5. CASE status = "STREAM"
      <4>1. Mine(i) /\ ~reader'.skip /\ script[i].type = reader.type
        BY <1>4, <2>2, <2>3, <2>4, <3>5 DEF Fits
      <4> QED BY <1>1, <1>2, <1>4, <3>2, <4>1 DEF InFlight
    <3> QED BY <1>9, <3>3, <3>4, <3>5
  <2>5. Regular /\ request.begun /\ reader.error = "none" => i # MarkOf(reader.type)
    <3>1. SUFFICES ASSUME Regular, request.begun
          PROVE  i # MarkOf(reader.type)
      OBVIOUS
    <3>2. CASE status = "STREAM"
      BY <1>9, <2>2, <2>3, <3>1, <3>2, StreamHere DEF Fits
    <3>3. CASE status \in {"SKIP", "MGMT"}
      <4>1. script[i].id = 0 \/ script[i].id # OwnId(script, served + 1)
        BY <2>2, <2>3, <3>1, <3>3 DEF Fits
      <4> QED BY <1>2, <1>5, <2>2, <2>3, <3>1, <4>1, NotMine
    <3> QED BY <1>9, <3>2, <3>3
  <2>6. Regular /\ request.begun /\ reader.error # "none" =>
           i # MarkOf(Prev(reader.type)) /\ (reader'.contentLen > 0
                  => nest' # "none" \/ reader'.skip)
    <3>1. SUFFICES ASSUME Regular, request.begun, reader.error # "none"
          PROVE  i # MarkOf(Prev(reader.type)) /\ (reader'.contentLen > 0 => reader'.skip)
      OBVIOUS
    <3>2. status # "STREAM"
      BY <2>2, <2>3, <3>1, StreamHere DEF Fits
    <3>3. script[i].id = 0 \/ script[i].id # OwnId(script, served + 1)
      BY <1>9, <2>2, <2>3, <3>1, <3>2 DEF Fits
    <3>4. i # MarkOf(Prev(reader.type))
      BY <1>2, <1>5, <2>2, <2>3, <3>1, <3>3, NotMine
    <3>5. reader'.contentLen > 0 => reader'.skip
      BY <1>4, <1>9, <2>3, <3>1, <3>2 DEF Fits
    <3> QED BY <3>4, <3>5
  <2>7. Regular /\ ~request.begun =>
           script[i].id = 0 /\ nest' # "body" /\ (nest' = "none" => Header.len = 0)
    BY <1>2, <1>9, <2>2, <2>3 DEF Fits
  <2>8. nest' # "none" => reader'.head = reader.head
    BY <1>2
  <2> QED BY <2>1, <2>2, <2>4, <2>5, <2>6, <2>7, <2>8, IntoDeep
<1> QED BY <1>4, <1>7, <1>8, <1>9

\* What is not a header: the reader has lost its place, after an error only.
LEMMA DeepUnsupportedVersion ==
    ASSUME IInv, Deep, UnsupportedVersion
    PROVE  Deep'
<1>1. /\ pc = "process" /\ ~IsHeader(reader.head) /\ Switch(reader, "version")
      /\ UNCHANGED <<script, wire, served, buffStop, rdNext, request, call, nest, params,
                     delivered, excused>>
  BY DEF UnsupportedVersion, server, clients
<1>2. /\ nest = "none" /\ StateFacts /\ reader \in Readers(script) /\ reader.avail = 0
      /\ ~reader.isClosed
  BY <1>1, HereFacts DEF IInv, Types, Heads, Phases, Filling
<1>3. /\ reader'.head = <<>> /\ reader'.avail = 0 /\ reader'.type = reader.type
      /\ reader'.isClosed /\ pc' = call.client /\ reader'.error # "none"
  BY <1>1, <1>2, SwitchProps
<1>4. Same
  BY <1>1 DEF Same
<1>5. \A i \in 0 .. Len(script) : ~At(i)
  <2>1. ASSUME NEW i \in 0 .. Len(script), At(i) PROVE FALSE
    <3>1. /\ Boundary = Pos + Rest + reader.paddingLen /\ Rest = 0 /\ reader.paddingLen = 0
          /\ Pos \in Nat
      BY <1>1, HereFacts
    <3>2. Boundary = Pos
      BY <3>1
    <3>3. Pos = End(i)
      BY <2>1, <3>2 DEF At
    <3> QED BY <1>1, <2>1, <3>3, NextHeader
  <2> QED BY <2>1
<1>6. ASSUME Regular, request.begun
      PROVE  rdNext <= End(MarkOf(reader.type) - 1) + 1
  <2>1. reader.error # "none"
    BY <1>5, <1>6 DEF Deep, Aligned, Placed
  <2>2. Failing
    BY <1>6, <2>1 DEF Deep, Failed
  <2>3. Lost /\ reader.type # "none"
    BY <1>2, <1>5, <2>2 DEF Failing, Skipping
  <2>4. reader.type \in Streams
    BY <1>2, <2>3 DEF Readers, Streams
  <2> DEFINE l == MarkOf(Prev(reader.type))
             m == MarkOf(reader.type)
  <2>5. /\ End(l - 1) \in Nat /\ End(l) \in Nat /\ End(m - 1) \in Nat
        /\ End(l - 1) + 2 <= End(l) /\ End(l) <= End(m - 1)
    BY <1>2, <1>6, <2>4, KnownRequest, MarkFacts
  <2>6. Pos <= End(l - 1) + 1
    BY <2>3 DEF Lost
  <2>7. Pos \in Nat /\ rdNext = Pos + 2
    BY <1>1, HereFacts
  <2> HIDE DEF l, m
  <2>8. rdNext <= End(m - 1) + 1
    BY <2>5, <2>6, <2>7
  <2> QED BY <2>8 DEF m
<1>7. nest' = "none" /\ pc \in {"process", "nested"}
  BY <1>1, <1>2
<1> QED BY <1>1, <1>3, <1>4, <1>6, <1>7, SwitchFails

\* ProcessHeader: a record of a stream.
LEMMA DeepStreamRecord ==
    ASSUME IInv, Deep, StreamRecord
    PROVE  Deep'
<1> DEFINE status == IF ~SameRequest THEN "SKIP"
                     ELSE IF Header.type # reader.type THEN "protocol" ELSE "STREAM"
<1>1. /\ pc = "process" /\ IsHeader(reader.head)
      /\ Header.type \in {"params", "stdin", "data", "values", "unknown"} /\ Header.id # 0
      /\ Switch(WithLengths, status)
      /\ UNCHANGED <<script, wire, served, buffStop, rdNext, request, call, nest, params,
                     delivered, excused>>
  BY DEF StreamRecord, Processing, server, clients
<1>2. Same
  BY <1>1 DEF Same
<1>3. status \in {"STREAM", "SKIP", "MGMT", "protocol", "version", "os"}
  OBVIOUS
<1>4. Here \in 1 .. Len(script) /\ Header = script[Here]
  BY <1>1, HereIs
<1>5. ASSUME Regular
      PROVE  Fits(status)
  <2>1. request.begun
    <3>1. SUFFICES ASSUME ~request.begun PROVE FALSE
      OBVIOUS
    <3>2. script[Here].id = 0 \/ script[Here].type = "begin"
      BY <1>1, <1>5, <3>1, HereUnbegun DEF HereFirst
    <3> QED BY <1>1, <1>4, <3>2
  <2>2. script[Here].nth = served + 1
    BY <1>1, <1>5, <2>1, HereBegun
  <2>3. /\ Known /\ request.id = OwnId(script, served + 1) /\ script \in Seq(Record)
        /\ HasMark(script, served + 1, reader.type) /\ StateFacts
    BY <1>5, <2>1, KnownRequest, HereFacts
  <2>4. Here \in DOMAIN script
    BY <1>4, <2>3 DEF StateFacts
  <2>5. CASE ~SameRequest
    <3>1. script[Here].id # OwnId(script, served + 1)
      BY <1>4, <2>3, <2>5 DEF SameRequest
    <3>2. Header.len > 0
      <4>1. script[Here].len > 0
        BY <1>1, <1>4, <2>2, <2>3, <3>1, WellFormedProps DEF Known
      <4> QED BY <1>4, <4>1
    <3>3. status = "SKIP"
      BY <2>5
    <3> HIDE DEF status
    <3> QED BY <2>1, <3>1, <3>2, <3>3 DEF Fits
  <2>6. CASE SameRequest /\ Header.type # reader.type
    <3>1. Here # MarkOf(reader.type)
      <4>1. SUFFICES ASSUME Here = MarkOf(reader.type) PROVE FALSE
        OBVIOUS
      <4>2. reader.type \in Streams
        BY <1>1, <1>5, <2>1, HereBegun DEF HereInOrder, HereLost, Streams
      <4>3. Here \in OwnRecords(script, served + 1)
        BY <2>3, <4>1, MarkProps DEF Known, MarkOf
      <4>4. script[Here].type = reader.type
        BY <2>3, <4>1, <4>2, <4>3, StreamPlace DEF Known, MarkOf
      <4> QED BY <1>4, <2>6, <4>4
    <3>2. status = "protocol"
      BY <2>6
    <3> HIDE DEF status
    <3> QED BY <3>1, <3>2 DEF Fits
  <2>7. CASE SameRequest /\ Header.type = reader.type
    <3>1. Mine(Here) /\ script[Here].type = reader.type
      BY <1>4, <2>2, <2>3, <2>4, <2>7 DEF SameRequest, Mine, OwnRecords
    <3>2. status = "STREAM"
      BY <2>7
    <3> HIDE DEF status
    <3> QED BY <2>1, <3>1, <3>2 DEF Fits
  <2> QED BY <2>5, <2>6, <2>7
<1> HIDE DEF status
<1> QED BY <1>1, <1>2, <1>3, <1>5, SwitchHere

\* A record without an id that is not the request's end.
LEMMA Answers ==
    ASSUME IInv, Deep, pc = "process", IsHeader(reader.head), Same,
           UNCHANGED <<buffStop, rdNext, call, nest>>,
           NEW type, NEW status \in {"SKIP", "MGMT"}, Reply(type, WithLengths, status),
           Regular => Fits(status)
    PROVE  Deep'
<1>1. ASSUME Regular
      PROVE  Fits("os")
  <2>1. SUFFICES ASSUME request.begun PROVE Here # MarkOf(reader.type)
    BY DEF Fits
  <2>2. script[Here].nth = served + 1 /\ reader.type \in Streams
    BY <1>1, <2>1, HereBegun DEF HereInOrder, HereLost, Streams
  <2>3. /\ Known /\ HasMark(script, served + 1, reader.type) /\ StateFacts
        /\ Here \in 1 .. Len(script)
    BY <1>1, <2>1, KnownRequest, HereFacts, HereIs
  <2>4. script[Here].id = 0 \/ script[Here].id # OwnId(script, served + 1)
    BY <1>1 DEF Fits
  <2> QED BY <2>2, <2>3, <2>4, NotMine
<1>2. CASE Switch(WithLengths, status)
  <2>1. status \in {"STREAM", "SKIP", "MGMT", "protocol", "version", "os"}
    OBVIOUS
  <2> QED BY <1>2, <2>1, SwitchHere
<1>3. CASE Switch(WithLengths, "os")
  BY <1>1, <1>3, SwitchHere
<1> QED BY <1>2, <1>3 DEF Reply

\* While a request is read, a begin record is another's.
LEMMA BeginIsAnothers ==
    ASSUME IInv, Deep, pc = "process", IsHeader(reader.head), Regular, request.begun,
           script[Here].type = "begin"
    PROVE  script[Here].id # OwnId(script, served + 1)
<1>1. /\ script[Here].nth = served + 1 /\ MarkOf("none") < Here
  BY HereBegun
<1>2. Known /\ script \in Seq(Record) /\ DOMAIN script = 1 .. Len(script)
  BY KnownRequest, HereFacts DEF StateFacts
<1>3. Here \in 1 .. Len(script) /\ script[Here] \in Record
  BY HereIs
<1>4. SUFFICES ASSUME script[Here].id = OwnId(script, served + 1) PROVE FALSE
  OBVIOUS
<1>5. Here \in OwnRecords(script, served + 1)
  BY <1>1, <1>2, <1>3, <1>4 DEF OwnRecords
<1>6. Rank(script[Here]) = 0 /\ MarkRank("none") = 0
  BY <1>3, RankProps DEF MarkRank
<1>7. HasMark(script, served + 1, "none")
  BY DEF HasMark
<1>8. Here = MarkOf("none")
  BY <1>2, <1>5, <1>6, <1>7, OrderProps DEF Known, MarkOf
<1> QED BY <1>1, <1>3, <1>8

\* ProcessHeader: a second BEGIN_REQUEST.
LEMMA DeepBeginRefused ==
    ASSUME IInv, Deep, BeginRefused
    PROVE  Deep'
<1>1. /\ pc = "process" /\ IsHeader(reader.head) /\ Header.type = "begin"
      /\ UNCHANGED <<script, wire, served, buffStop, rdNext, request, call, nest, params,
                     delivered, excused>>
      /\ IF Header.id = 0 \/ Header.len # BodyLen
         THEN Switch(WithLengths, "protocol") /\ UNCHANGED replies
         ELSE request.begun /\ Reply("cantMpx", WithLengths, "SKIP")
  BY DEF BeginRefused, Processing, server, clients
<1>2. Same
  BY <1>1 DEF Same
<1>3. /\ Here \in 1 .. Len(script) /\ Header = script[Here] /\ script[Here] \in Record
  BY <1>1, HereIs
<1>4. StateFacts /\ script \in Seq(Record)
  BY HereFacts DEF StateFacts
<1>5. CASE Header.id = 0 \/ Header.len # BodyLen
  <2>1. ~Regular
    <3>1. Regular => /\ script[Here].id = 0 => script[Here].type # "begin"
                     /\ script[Here].len = BodyLen
      BY <1>1, <1>3, <1>4, WellFormedProps DEF Regular
    <3> QED BY <1>1, <1>3, <1>5, <3>1
  <2> QED BY <1>1, <1>2, <1>5, <2>1, SwitchHere
<1>6. CASE ~(Header.id = 0 \/ Header.len # BodyLen)
  <2>1. request.begun /\ Reply("cantMpx", WithLengths, "SKIP")
    BY <1>1, <1>6
  <2>2. ASSUME Regular
        PROVE  Fits("SKIP")
    <3>1. /\ script[Here].nth = served + 1 /\ MarkOf("none") < Here
      BY <1>1, <2>1, <2>2, HereBegun
    <3>2. Known
      BY <2>1, <2>2, KnownRequest
    <3>3. script[Here].id # OwnId(script, served + 1)
      BY <1>1, <1>3, <2>1, <2>2, BeginIsAnothers
    <3>4. Header.len > 0
      BY <1>6 DEF BodyLen
    <3> QED BY <2>1, <3>3, <3>4 DEF Fits
  <2> QED BY <1>1, <1>2, <2>1, <2>2, Answers
<1> QED BY <1>5, <1>6

\* ProcessManagementRecord: an unknown type.
LEMMA DeepUnknownManagement ==
    ASSUME IInv, Deep, UnknownManagement
    PROVE  Deep'
<1>1. /\ pc = "process" /\ IsHeader(reader.head) /\ Header.id = 0
      /\ Header.type \in {"params", "stdin", "data", "unknown"}
      /\ UNCHANGED <<script, wire, served, buffStop, rdNext, request, call, nest, params,
                     delivered, excused>>
      /\ Reply("unknownType", WithLengths, "MGMT")
  BY DEF UnknownManagement, Processing, server, clients
<1>2. Same
  BY <1>1 DEF Same
<1>3. /\ Here \in 1 .. Len(script) /\ Header = script[Here] /\ script[Here] \in Record
  BY <1>1, HereIs
<1>4. StateFacts /\ script \in Seq(Record)
  BY HereFacts DEF StateFacts
<1>5. Regular => Fits("MGMT")
  <2>1. Regular => (script[Here].id = 0 => script[Here].type = "values" \/ script[Here].len = 0)
    BY <1>3, <1>4, WellFormedProps DEF Regular
  <2> QED BY <1>1, <1>3, <2>1 DEF Fits
<1> QED BY <1>1, <1>2, <1>5, Answers

------------------------------
(* Nested calls.                                                           *)

\* Before the environment is read, nothing has been delivered.
Beginning == IInv /\ call.client = "begin"

\* EnvComplete and InputInOrder hold when FCGX_Accept_r begins ...
LEMMA BeginningHas == Beginning => EnvComplete /\ InputInOrder
<1>0. SUFFICES ASSUME Beginning PROVE EnvComplete /\ InputInOrder
  OBVIOUS
<1>1. EnvComplete
  BY <1>0 DEF EnvComplete, Beginning
<1>2. delivered = [type \in {"stdin", "data"} |-> <<>>]
  BY <1>0 DEF Beginning, IInv, Callers, Nothing
<1>3. script \in Seq(Record) /\ wire = Cells(script)
  BY <1>0, ReaderAssumption DEF Beginning, IInv, Types
<1>4. wire \in Seq(Cell(script))
  BY <1>3, CellsLayout DEF IsLayout
<1>5. ASSUME NEW type \in {"stdin", "data"}
      PROVE  IsPrefix(<<>>, Own(type))
  <2> DEFINE own == OwnCells(script, wire, request.id, served + 1, type)
  <2>1. Own(type) = own[Len(wire)]
    BY OwnUptoIs DEF Own
  <2>2. OwnFacts(script, wire, request.id, served + 1, type, own)
    BY <1>4, OwnSteps
  <2>3. Len(wire) \in 0 .. Len(wire)
    <3>1. Len(wire) \in Nat
      BY <1>4
    <3> QED BY <3>1
  <2> HIDE DEF own
  <2>4. own[Len(wire)] \in Seq(Cell(script))
    BY <2>2, <2>3 DEF OwnFacts
  <2>5. <<>> \o own[Len(wire)] = own[Len(wire)]
    BY <2>4
  <2>6. IsPrefix(<<>>, <<>> \o own[Len(wire)])
    <3>1. <<>> \in Seq(Cell(script))
      OBVIOUS
    <3> QED BY <2>4, <3>1, PrefixJoin
  <2> QED BY <2>1, <2>5, <2>6
<1>6. InputInOrder
  <2>1. \A type \in DOMAIN delivered :
           type \in {"stdin", "data"} /\ delivered[type] = <<>>
    BY <1>2
  <2> QED BY <1>5, <2>1 DEF InputInOrder
<1> QED BY <1>1, <1>6

\* ... and so after a step to there.
LEMMA BeginningNext == Beginning' => (EnvComplete /\ InputInOrder)'
BY BeginningHas, PTL

\* The same, with the definition expanded.
LEMMA BeginningDeep ==
    ASSUME IInv', call'.client = "begin"
    PROVE  EnvComplete' /\ InputInOrder'
BY BeginningNext DEF Beginning

\* What a nested call reads is of the request that comes, or of none.
LEMMA DeepNest ==
    ASSUME IInv, Deep, Nest
    PROVE  Deep'
<1>1. /\ pc = "process" /\ IsHeader(reader.head)
      /\ reader' = WithLengths /\ pc' = "nested"
      /\ UNCHANGED <<script, wire, served, buffStop, rdNext, call, params, delivered, excused>>
      /\ \/ /\ Header.type = "begin" /\ Header.id # 0 /\ ~request.begun
            /\ nest' = "body" /\ request' = [request EXCEPT !.id = Header.id]
         \/ /\ Header.type = "values" /\ Header.id = 0
            /\ nest' = "values" /\ request' = request
  BY DEF Nest, Processing, server, clients
<1>2. /\ WithLengths.avail = 0 /\ ~WithLengths.isClosed
      /\ WithLengths.contentLen = Header.len /\ WithLengths.paddingLen = Header.pad
      /\ WithLengths.type = reader.type /\ WithLengths.skip = reader.skip
      /\ WithLengths.error = reader.error /\ WithLengths.head = reader.head
  BY <1>1, WithLengthsProps
<1>3. /\ Here \in 1 .. Len(script) /\ Header = script[Here] /\ script[Here] \in Record
  BY <1>1, HereIs
<1>4. PICK i \in 0 .. Len(script) : i = Here
  BY <1>1, HereIs
<1>5. Ahead' = 0
  BY <1>1 DEF Ahead
<1>6. StateFacts
  BY HereFacts
<1>7. Regular => script[i].nth = served + 1 /\ ~reader.skip
  BY <1>1, <1>4, HereBegun, HereUnbegun
<1>8. CASE /\ Header.type = "values" /\ Header.id = 0
           /\ nest' = "values" /\ request' = request
  <2>1. Same /\ IntoRecord
    BY <1>1, <1>2, <1>5, <1>8 DEF Same, IntoRecord
  <2>2. ASSUME Regular
        PROVE  InFlight(i)'
    BY <1>1, <1>2, <1>3, <1>4, <1>7, <1>8, <2>2 DEF InFlight
  <2>3. ASSUME Regular, request.begun
        PROVE  /\ reader.error = "none" => i # MarkOf(reader.type)
               /\ reader.error # "none" => i # MarkOf(Prev(reader.type))
    <3>1. reader.type \in Streams
      BY <1>1, <2>3, HereBegun DEF HereInOrder, HereLost, Streams
    <3>2. Known /\ HasMark(script, served + 1, reader.type)
      BY <2>3, KnownRequest
    <3>3. /\ HasMark(script, served + 1, Prev(reader.type))
          /\ Prev(reader.type) \in Streams \cup {"none"}
      BY <3>1 DEF HasMark, Prev, Streams
    <3> QED BY <1>3, <1>4, <1>6, <1>7, <1>8, <2>3, <3>1, <3>2, <3>3, NotMine
  <2>4. nest' # "none" => reader'.head = reader.head
    BY <1>1, <1>2
  <2>5. Regular /\ ~request.begun =>
           script[i].id = 0 /\ nest' # "body" /\ (nest' = "none" => Header.len = 0)
    BY <1>3, <1>4, <1>8
  <2>6. nest' # "none"
    BY <1>8
  <2> QED BY <1>1, <1>4, <2>1, <2>2, <2>3, <2>4, <2>5, <2>6, IntoDeep
<1>9. CASE /\ Header.type = "begin" /\ Header.id # 0 /\ ~request.begun
           /\ nest' = "body" /\ request' = [request EXCEPT !.id = Header.id]
  <2>1. ~request'.begun /\ request'.id = Header.id
    BY <1>9 DEF IInv, Types
  <2>2. /\ Boundary' = End(i) /\ At(i)' /\ Rest' = script[i].len
    BY <1>1, <1>2, <1>4, <1>5, <1>9, IntoAt
  <2>3. reader.error = "none"
    BY <1>1, <1>9 DEF Deep, Early
  <2>4. NothingEarly'
    BY <1>1 DEF Deep, NothingEarly
  <2>5. Early' /\ Begun' /\ Failed'
    BY <1>1, <1>2, <2>1, <2>3 DEF Early, Begun, Failed
  <2>6. call'.client = "begin"
    BY <1>1, <1>9 DEF IInv, Callers, Types
  <2>7. EnvComplete' /\ InputInOrder'
    <3>1. IInv'
      BY TypesNest
    <3> QED BY <2>6, <3>1, BeginningDeep
  <2>8. ASSUME Regular'
        PROVE  Placed(i)'
    <3>1. Regular
      BY <1>1, <2>8 DEF Regular
    <3>2. HereFirst /\ script[i].nth = served + 1 /\ ~reader.skip
      BY <1>1, <1>4, <1>9, <3>1, HereUnbegun
    <3>3. Mine(i)
      BY <1>3, <1>4, <1>9, <3>2 DEF HereFirst
    <3>4. InFlight(i)'
      BY <1>1, <1>2, <1>3, <1>4, <1>9, <3>2 DEF InFlight
    <3>5. Mine(i)' /\ request'.id = script'[i].id
      <4>1. Mine(i)' <=> Mine(i)
        BY <1>1 DEF Mine
      <4> QED BY <1>1, <1>3, <1>4, <2>1, <3>3, <4>1
    <3>6. \A j \in 1 .. Len(script') : i < j => served' + 1 <= script'[j].nth
      <4>1. \A j \in 1 .. Len(script) : i < j => i <= j
        BY <1>3, <1>4
      <4> QED BY <1>1, <1>4, <3>2, <4>1 DEF HereFirst
    <3>7. \A j \in 1 .. i : script'[j].nth = served' + 1 => script'[j].id = 0 \/ i = j
      <4>1. \A j \in 1 .. i : j \in 1 .. Len(script) /\ (j = i \/ j < i)
        BY <1>3, <1>4
      <4> QED BY <1>1, <1>4, <3>2, <4>1 DEF HereFirst
    <3>8. Before(i)'
      BY <1>9, <3>5, <3>6, <3>7 DEF Before
    <3> QED BY <2>1, <2>2, <3>4, <3>8 DEF Placed
  <2>9. Aligned'
    <3>1. i \in 0 .. Len(script')
      BY <1>1
    <3> QED BY <2>8, <3>1 DEF Aligned
  <2> QED BY <2>4, <2>5, <2>7, <2>9 DEF Deep
<1> QED BY <1>1, <1>8, <1>9

\* Where a nested call is.
LEMMA NestedFacts ==
    ASSUME IInv, pc = "nested", reader.avail = 0
    PROVE  /\ StateFacts /\ nest \in {"body", "values"} /\ reader \in Readers(script)
           /\ Pos = rdNext /\ rdNext \in Nat /\ Rest = reader.contentLen
           /\ reader.contentLen \in Nat /\ reader.paddingLen \in Nat
           /\ Boundary = rdNext + reader.contentLen + reader.paddingLen
           /\ rdNext <= Boundary /\ Boundary \in Nat
           /\ \A i \in 0 .. Len(script) : At(i) => i = Here /\ Boundary = End(i)
<1>1. /\ StateFacts
      /\ nest # "none" => Ahead = 0
      /\ Pos \in Nat /\ rdNext = Pos + Ahead /\ Rest = reader.avail + reader.contentLen
      /\ Boundary = Pos + Rest + reader.paddingLen
  BY HereFacts
<1>2. nest \in {"body", "values"} /\ reader \in Readers(script)
  BY DEF IInv, Types, Heads
<1>3. /\ rdNext \in Nat /\ reader.contentLen \in Nat /\ reader.paddingLen \in Nat
  BY <1>1 DEF StateFacts
<1>4. Pos = rdNext /\ Rest = reader.contentLen
  BY <1>1, <1>2, <1>3
<1>5. Boundary = rdNext + reader.contentLen + reader.paddingLen
  BY <1>1, <1>4
<1>6. rdNext <= Boundary /\ Boundary \in Nat
  BY <1>3, <1>5
<1>7. \A i \in 0 .. Len(script) : At(i) => i = Here /\ Boundary = End(i)
  BY <1>2 DEF At, Here
<1> QED BY <1>1, <1>2, <1>3, <1>4, <1>5, <1>6, <1>7

\* A nested call has its record's header.
LEMMA NestedHere ==
    ASSUME IInv, nest # "none"
    PROVE  Here \in 1 .. Len(script) /\ Header = script[Here]
<1>1. StateFacts /\ reader.head \in Seq(Cell(script)) /\ DOMAIN script = 1 .. Len(script)
  BY HereFacts DEF StateFacts
<1>2. IsHeader(reader.head)
  BY DEF IInv, Heads
<1>3. 1 \in DOMAIN reader.head
  BY <1>2 DEF IsHeader, HeaderLen
<1>4. reader.head[1] \in Cell(script)
  <2>1. DOMAIN reader.head = 1 .. Len(reader.head)
    BY <1>1, LenProperties
  <2> QED BY <1>1, <1>3, <2>1, ElementOfSeq
<1> QED BY <1>1, <1>4 DEF Cell, Header, Here

\* An error in a nested call is behind no end of stream.
LEMMA NestedFails ==
    ASSUME IInv, Deep, pc = "nested", reader.avail = 0, Regular, request.begun
    PROVE  rdNext <= End(MarkOf(reader.type) - 1) + 1
<1>1. /\ StateFacts /\ nest # "none" /\ rdNext <= Boundary /\ Boundary \in Nat /\ rdNext \in Nat
      /\ \A i \in 0 .. Len(script) : At(i) => i = Here /\ Boundary = End(i)
  BY NestedFacts
<1>2. reader.type \in Streams
  <2>1. call.client # "begin"
    BY DEF IInv, Callers
  <2> QED BY <2>1 DEF IInv, Types, Callers, Streams
<1> DEFINE m == MarkOf(reader.type)
<1>3. m \in 1 .. Len(script) /\ m - 1 \in 0 .. Len(script) /\ End(m - 1) \in Nat
  BY <1>1, <1>2, KnownRequest, MarkFacts
<1>4. Boundary <= End(m - 1)
  <2>1. CASE reader.error # "none"
    BY <1>1, <2>1 DEF Deep, Failed, Failing
  <2>2. CASE reader.error = "none"
    <3>1. PICK i \in 0 .. Len(script) : Placed(i)
      BY <2>2 DEF Deep, Aligned
    <3>2. At(i) /\ Within(i)
      BY <3>1 DEF Placed
    <3>3. i < m
      BY <1>1, <1>2, <3>2 DEF Within, Closed, Streams
    <3> HIDE DEF m
    <3>4. i <= m - 1
      BY <1>3, <3>3
    <3>5. End(i) <= End(m - 1)
      BY <1>1, <1>3, <3>4, EndFacts
    <3> QED BY <1>1, <3>2, <3>5
  <2> QED BY <2>1, <2>2
<1> HIDE DEF m
<1>5. rdNext <= End(m - 1) + 1
  BY <1>1, <1>3, <1>4
<1> QED BY <1>5 DEF m

\* The environment and the streams are still empty at the begin record.
LEMMA NothingBefore ==
    ASSUME IInv, Known, request.id = OwnId(script, served + 1),
           rdNext = End(MarkOf("none")), NEW type \in Streams
    PROVE  OwnUpto(type, rdNext) = <<>>
<1> DEFINE b == MarkOf("none")
           own == OwnCells(script, wire, request.id, served + 1, type)
<1>1. /\ StateFacts /\ script \in Seq(Record) /\ wire \in Seq(Cell(script))
      /\ rdNext \in Nat /\ rdNext <= Len(wire) /\ Len(script) \in Nat
  BY HereFacts DEF StateFacts
<1>2. HasMark(script, served + 1, "none") /\ MarkRank("none") = 0
  BY DEF HasMark, MarkRank
<1>3. /\ b \in OwnRecords(script, served + 1) /\ Rank(script[b]) = 0
  BY <1>1, <1>2, MarkProps DEF Known, MarkOf
<1>4. b \in 1 .. Len(script) /\ script[b].type = "begin"
  <2>1. b \in 1 .. Len(script) /\ script[b] \in Record
    BY <1>1, <1>3, OwnProps DEF Known
  <2> QED BY <1>3, <2>1, RankProps
<1>5. ASSUME NEW p \in 1 .. rdNext
      PROVE  ~IsOwnCell(script, request.id, served + 1, type, wire[p])
  <2> DEFINE k == wire[p].rec
  <2>1. p \in 1 .. Len(wire) /\ p \in Nat
    BY <1>1
  <2>2. /\ k \in 1 .. Len(script) /\ End(k - 1) < p /\ p <= End(k)
    BY <1>1, <2>1, RecordOf
  <2> HIDE DEF b
  <2>3. k <= b
    <3> HIDE DEF k
    <3>1. SUFFICES ASSUME ~(k <= b) PROVE FALSE
      OBVIOUS
    <3>2. b \in 0 .. Len(script) /\ k - 1 \in 0 .. Len(script) /\ b <= k - 1
      BY <1>1, <1>4, <2>2, <3>1
    <3>3. End(b) <= End(k - 1) /\ End(b) \in Nat /\ End(k - 1) \in Nat
      BY <1>1, <3>2, EndFacts
    <3>4. rdNext = End(b)
      BY DEF b
    <3> QED BY <2>1, <2>2, <3>3, <3>4
  <2>4. IsOwnCell(script, request.id, served + 1, type, wire[p]) =>
           script[k].type = type /\ script[k].id = request.id /\ script[k].nth = served + 1
    BY DEF IsOwnCell, k
  <2> SUFFICES ASSUME script[k].type = type, script[k].id = request.id,
                      script[k].nth = served + 1
               PROVE  FALSE
    BY <2>4
  <2>5. k \in OwnRecords(script, served + 1)
    BY <1>1, <2>2 DEF OwnRecords, StateFacts
  <2>6. k < b => Rank(script[k]) < 0
    BY <1>1, <1>2, <2>5, OrderProps DEF Known, MarkOf, b
  <2>7. Rank(script[k]) \in 0 .. 7
    BY <1>1, <2>5, OwnProps DEF Known
  <2>8. k = b
    <3> HIDE DEF k
    <3> QED BY <1>4, <2>2, <2>3, <2>6, <2>7
  <2> QED BY <1>4, <2>8 DEF Streams
<1>6. own[rdNext] = own[0]
  <2>1. \A p \in 0 + 1 .. rdNext : ~IsOwnCell(script, request.id, served + 1, type, wire[p])
    BY <1>5
  <2>2. 0 \in Nat /\ 0 <= rdNext
    BY <1>1
  <2> QED BY <1>1, <2>1, <2>2, OwnSame
<1>7. own[0] = <<>>
  BY <1>1, OwnSteps DEF OwnFacts
<1>8. OwnUpto(type, rdNext) = own[rdNext]
  BY OwnUptoIs
<1> QED BY <1>6, <1>7, <1>8

------------------------------
(* The request begins; management records.                                 *)

\* ProcessBeginRecord has read its body: the request begins.
LEMMA DeepBeginReads ==
    ASSUME IInv, Deep, BeginReads
    PROVE  Deep'
<1>1. /\ pc = "nested" /\ nest = "body" /\ reader.avail = 0
      /\ BodyRead \/ reader.isClosed
      /\ nest' = "none"
      /\ UNCHANGED <<script, wire, served, buffStop, rdNext, call, params, delivered, excused>>
      /\ IF reader.isClosed
         THEN Switch(reader, "protocol") /\ UNCHANGED request
         ELSE /\ Switch(reader, "BEGIN")
              /\ request' = [request EXCEPT !.role = Header.role, !.begun = TRUE,
                                         !.keep = Header.keep]
  BY DEF BeginReads, server, clients
<1>2. /\ StateFacts /\ reader \in Readers(script) /\ rdNext \in Nat
      /\ reader.contentLen \in Nat /\ reader.paddingLen \in Nat
      /\ Boundary = rdNext + reader.contentLen + reader.paddingLen
      /\ \A i \in 0 .. Len(script) : At(i) => i = Here /\ Boundary = End(i)
      /\ Rest = reader.contentLen /\ served \in Nat
  BY <1>1, NestedFacts DEF StateFacts
<1>3. ~request.begun /\ call.client = "begin" /\ reader.type = "none"
      /\ params = <<>> /\ delivered = Nothing
  BY <1>1 DEF IInv, Callers, Types
<1>4. IInv'
  BY TypesBeginReads
<1>5. CASE reader.isClosed
  <2>1. /\ Switch(reader, "protocol") /\ UNCHANGED request
    BY <1>1, <1>5
  <2>2. /\ reader'.head = <<>> /\ reader'.avail = 0 /\ reader'.type = reader.type
        /\ reader'.isClosed /\ pc' = call.client /\ reader'.error # "none"
    BY <1>1, <1>2, <2>1, SwitchProps
  <2>3. Same
    BY <1>1, <2>1 DEF Same
  <2> QED BY <1>1, <1>3, <2>2, <2>3, SwitchFails
<1>6. CASE ~reader.isClosed
  <2>1. /\ Switch(reader, "BEGIN")
        /\ request' = [request EXCEPT !.role = Header.role, !.begun = TRUE,
                                   !.keep = Header.keep]
        /\ reader.contentLen = 0
    BY <1>1, <1>6 DEF BodyRead
  <2>2. /\ reader'.head = <<>> /\ reader'.avail = 0 /\ reader'.type = reader.type
        /\ reader'.contentLen = 0 /\ reader'.paddingLen = reader.paddingLen
        /\ reader'.skip <=> reader.skip
        /\ pc' = call.client /\ ~reader'.isClosed /\ reader'.error = reader.error
    BY <1>1, <1>2, <2>1, SwitchProps
  <2>3. /\ request'.begun /\ request'.id = request.id /\ request'.role = Header.role
    BY <2>1 DEF IInv, Types
  <2>4. reader.error = "none"
    BY <1>1, <1>3, <1>6 DEF Deep, Early
  <2>5. NothingEarly'
    BY <1>1 DEF Deep, NothingEarly
  <2>6. Early' /\ Failed'
    BY <2>2, <2>3, <2>4 DEF Early, Failed
  <2>7. EnvComplete' /\ InputInOrder'
    BY <1>1, <1>3, <1>4, BeginningDeep
  <2>8. Ahead' = 0
    <3>1. Len(<<>>) = 0
      OBVIOUS
    <3> QED BY <2>2, <3>1 DEF Ahead
  <2>9. Pos' = rdNext
    <3>1. Pos' = rdNext - 0
      BY <1>1, <2>8 DEF Pos
    <3> QED BY <1>2, <3>1
  <2>10. ASSUME Regular
         PROVE  Begun' /\ Aligned'
    <3>1. PICK i \in 0 .. Len(script) : Placed(i)
      BY <2>4, <2>10 DEF Deep, Aligned
    <3>2. At(i) /\ InFlight(i) /\ Before(i)
      BY <1>3, <3>1 DEF Placed
    <3>3. /\ i = Here /\ Boundary = End(i) /\ script[i].type = "begin" /\ Mine(i)
          /\ request.id = script[i].id /\ ~reader.skip /\ script[i].nth = served + 1
      BY <1>1, <1>2, <3>2 DEF InFlight, Before
    <3>4. i \in 1 .. Len(script) /\ script \in Seq(Record) /\ WellFormed(script)
          /\ Len(script) \in Nat /\ script[i] \in Record /\ i \in DOMAIN script
      <4>1. i \in DOMAIN script
        BY <3>3 DEF Mine, OwnRecords
      <4> QED BY <1>2, <2>10, <4>1, RecordProps DEF StateFacts, Regular
    <3>5. Known /\ script[i].id = OwnId(script, served + 1) /\ script[i].pad = 0
      <4>1. served + 1 \in Requests(script)
        BY <3>3, <3>4 DEF Requests
      <4>2. script[i].id = OwnId(script, served + 1)
        BY <3>3 DEF Mine, OwnRecords
      <4> QED BY <3>3, <3>4, <4>1, <4>2, WellFormedProps DEF Known
    <3>6. i = MarkOf("none")
      <4>1. Rank(script[i]) = 0 /\ MarkRank("none") = 0
        BY <3>3, <3>4, RankProps DEF MarkRank
      <4>2. HasMark(script, served + 1, "none")
        BY DEF HasMark
      <4> QED BY <3>3, <3>4, <3>5, <4>1, <4>2, OrderProps DEF Known, MarkOf, Mine
    <3>7. OwnBegin(script, served + 1) = i
      <4> DEFINE b == OwnBegin(script, served + 1)
      <4>1. b \in OwnRecords(script, served + 1) /\ Rank(script[b]) = 0
        BY <3>4, <3>5, BeginProps DEF Known
      <4>2. HasMark(script, served + 1, "none") /\ MarkRank("none") = 0
        BY DEF HasMark, MarkRank
      <4> HIDE DEF b
      <4>3. b = MarkOf("none")
        BY <3>4, <3>5, <4>1, <4>2, OrderProps DEF Known, MarkOf
      <4> QED BY <3>6, <4>3 DEF b
    <3>8. reader.paddingLen = 0 /\ rdNext = End(i) /\ End(i) \in Nat
      <4>1. reader.paddingLen = 0
        BY <1>2, <3>2, <3>4, <3>5 DEF At
      <4>2. End(i) \in Nat
        BY <1>2, <3>4, EndFacts
      <4> QED BY <1>2, <2>1, <3>3, <4>1, <4>2
    <3>9. Header = script[i]
      BY <3>3 DEF Header, Here
    <3>10. End(i)' = End(i) /\ MarkOf("none")' = MarkOf("none")
      BY <1>1 DEF End, MarkOf
    <3>11. Begun'
      <4>1. End(OwnBegin(script, served + 1))' <= Pos'
        <5>1. End(OwnBegin(script, served + 1))' = End(OwnBegin(script, served + 1))
          BY <1>1 DEF End
        <5> QED BY <2>9, <3>7, <3>8, <5>1
      <4>2. served' + 1 \in Requests(script') /\ request'.id = OwnId(script', served' + 1)
        BY <1>1, <2>3, <3>3, <3>5 DEF Known
      <4>3. request'.role = script'[OwnBegin(script', served' + 1)].role
        BY <1>1, <2>3, <3>7, <3>9
      <4> QED BY <1>3, <2>2, <4>1, <4>2, <4>3 DEF Begun
    <3>12. Rest' = 0
      <4>1. Rest' = 0 + 0
        BY <2>2 DEF Rest
      <4> QED BY <4>1
    <3>13. At(i)'
      <4>1. Boundary' = Pos' + Rest' + reader'.paddingLen
        BY DEF Boundary
      <4>2. Boundary' = End(i)'
        BY <1>2, <2>2, <2>9, <3>8, <3>10, <3>12, <4>1
      <4> QED BY <1>1, <2>2, <3>8, <3>12, <4>2 DEF At
    <3>14. InFlight(i)'
      BY <1>1, <2>2, <3>3, <3>12 DEF InFlight
    <3>15. Whole'
      <4>1. ASSUME NEW type \in Streams
            PROVE  Got(type)' = OwnUpto(type, rdNext)'
        <5>1. OwnUpto(type, rdNext) = <<>>
          BY <3>3, <3>5, <3>6, <3>8, NothingBefore
        <5>2. OwnUpto(type, rdNext)' = OwnUpto(type, rdNext)
          <6>1. OwnUpto(type, rdNext)'
                   = OwnCells(script', wire', request'.id, served' + 1, type)[rdNext']
            BY Zenon DEF OwnUpto, OwnCells, IsOwn, IsOwnCell
          <6>2. OwnCells(script', wire', request'.id, served' + 1, type)[rdNext']
                   = OwnCells(script, wire, request.id, served + 1, type)[rdNext]
            BY <1>1, <2>3
          <6> QED BY <6>1, <6>2, OwnUptoIs
        <5>3. Got(type)' = <<>>
          BY <1>1, <1>3 DEF Got, Nothing, Streams
        <5> QED BY <5>1, <5>2, <5>3
      <4> QED BY <4>1 DEF Whole
    <3>16. Within(i)'
      <4>1. reader'.type = "none" /\ i = MarkOf("none")' /\ rdNext' = End(i)'
        BY <1>1, <1>3, <2>2, <3>6, <3>8, <3>10
      <4> QED BY <3>15, <4>1 DEF Within
    <3>17. Placed(i)' /\ i \in 0 .. Len(script')
      BY <1>1, <2>3, <3>13, <3>14, <3>16 DEF Placed
    <3> QED BY <3>11, <3>17 DEF Aligned
  <2>11. Regular' => Regular
    BY <1>1 DEF Regular
  <2>12. Begun' /\ Aligned'
    BY <2>10, <2>11 DEF Begun, Aligned
  <2> QED BY <2>5, <2>6, <2>7, <2>12 DEF Deep
<1> QED BY <1>5, <1>6

\* ProcessManagementRecord has read its pairs.
LEMMA DeepValuesRead ==
    ASSUME IInv, Deep, ValuesRead
    PROVE  Deep'
<1>1. /\ pc = "nested" /\ nest = "values" /\ reader.avail = 0 /\ reader.isClosed
      /\ nest' = "none"
      /\ UNCHANGED <<script, wire, served, buffStop, rdNext, request, call, params, delivered,
                     excused>>
      /\ \/ Switch(reader, "protocol")
         \/ Switch(reader, "os")
         \/ reader.error = "none" /\ reader.contentLen = 0 /\ Switch(reader, "MGMT")
  BY DEF ValuesRead, Reply, server, clients
<1>2. /\ StateFacts /\ reader \in Readers(script) /\ rdNext \in Nat /\ Pos = rdNext
      /\ reader.contentLen \in Nat /\ reader.paddingLen \in Nat
      /\ Boundary = rdNext + reader.contentLen + reader.paddingLen
      /\ \A i \in 0 .. Len(script) : At(i) => i = Here /\ Boundary = End(i)
      /\ Rest = reader.contentLen
  BY <1>1, NestedFacts
<1>3. Same
  BY <1>1 DEF Same
<1>4. ASSUME NEW status \in {"protocol", "os"}, Switch(reader, status)
      PROVE  Deep'
  <2>1. /\ reader'.head = <<>> /\ reader'.avail = 0 /\ reader'.type = reader.type
        /\ reader'.isClosed /\ pc' = call.client /\ reader'.error # "none"
    BY <1>1, <1>2, <1>4, SwitchProps
  <2>2. Regular /\ request.begun => rdNext <= End(MarkOf(reader.type) - 1) + 1
    BY <1>1, NestedFails
  <2> QED BY <1>1, <1>3, <2>1, <2>2, SwitchFails
<1>5. CASE reader.error = "none" /\ reader.contentLen = 0 /\ Switch(reader, "MGMT")
  <2>1. /\ reader'.head = <<>> /\ reader'.avail = 0 /\ reader'.type = reader.type
        /\ reader'.contentLen = 0 /\ reader'.paddingLen = reader.paddingLen
        /\ reader'.skip <=> reader.skip
        /\ pc' = "top" /\ ~reader'.isClosed /\ reader'.error = "none"
    BY <1>1, <1>2, <1>5, SwitchProps
  <2>2. Ahead' = 0
    <3>1. Len(<<>>) = 0
      OBVIOUS
    <3> QED BY <2>1, <3>1 DEF Ahead
  <2>3. Pos' = rdNext
    <3>1. Pos' = rdNext - 0
      BY <1>1, <2>2 DEF Pos
    <3> QED BY <1>2, <3>1
  <2>4. Rest' = 0
    <3>1. Rest' = 0 + 0
      BY <2>1 DEF Rest
    <3> QED BY <3>1
  <2>5. Boundary' = Boundary
    <3>1. Boundary' = Pos' + Rest' + reader'.paddingLen
      BY DEF Boundary
    <3> QED BY <1>2, <1>5, <2>1, <2>3, <2>4, <3>1
  <2>6. NothingEarly'
    BY <1>1, <1>3, NotEarlySame DEF Deep
  <2>7. Early' /\ Failed'
    BY <2>1 DEF Early, Failed
  <2>8. Begun'
    <3>1. Pos' \in Nat /\ Pos <= Pos'
      BY <1>2, <2>3
    <3> QED BY <1>3, <2>1, <3>1, BegunSame DEF Deep
  <2>9. EnvComplete' /\ InputInOrder'
    BY <1>1, <1>3, <1>5, EnvSame, InputSame DEF Deep
  <2>10. ASSUME Regular'
         PROVE  Aligned'
    <3>1. Regular
      BY <1>3, <2>10, RegularSame
    <3>2. PICK i \in 0 .. Len(script) : Placed(i)
      BY <1>5, <3>1 DEF Deep, Aligned
    <3>3. At(i) /\ InFlight(i)
      BY <3>2 DEF Placed
    <3>4. End(i)' = End(i) /\ Mine(i)' = Mine(i)
      BY <1>1, Zenon DEF End, Mine
    <3>5. At(i)'
      BY <1>1, <2>1, <2>4, <2>5, <3>3, <3>4 DEF At
    <3>6. InFlight(i)'
      BY <1>1, <2>1, <2>4, <3>3 DEF InFlight
    <3>7. ASSUME request.begun
          PROVE  Within(i)'
      <4>1. Within(i)
        BY <3>2, <3>7 DEF Placed
      <4>2. /\ MarkOf(reader.type)' = MarkOf(reader.type)
            /\ MarkOf(Prev(reader.type))' = MarkOf(Prev(reader.type))
        BY <1>1, <2>1, Zenon DEF MarkOf
      <4>3. Whole'
        <5>1. Unowned
          BY <1>1, UnownedNone
        <5>2. rdNext <= rdNext' /\ rdNext' <= Len(wire) /\ rdNext' \in Nat
          BY <1>1, <1>2, HereFacts
        <5> QED BY <1>1, <4>1, <5>1, <5>2, WholeStays DEF Within
      <4>4. ~Closed /\ ~Closed'
        BY <1>1, <2>1 DEF Closed
      <4>5. reader.type # "none"
        BY <1>1, <3>7 DEF IInv, Callers, Types
      <4> QED BY <2>1, <4>1, <4>2, <4>3, <4>4, <4>5 DEF Within
    <3>8. ASSUME ~request.begun
          PROVE  Before(i)'
      <4>1. Before(i)
        BY <3>2, <3>8 DEF Placed
      <4> QED BY <1>1, <2>4, <4>1 DEF Before
    <3>9. Placed(i)' /\ i \in 0 .. Len(script')
      BY <1>1, <3>5, <3>6, <3>7, <3>8 DEF Placed
    <3> QED BY <3>9 DEF Aligned
  <2>11. Aligned'
    BY <2>10 DEF Aligned
  <2> QED BY <2>6, <2>7, <2>8, <2>9, <2>11 DEF Deep
<1> QED BY <1>1, <1>4, <1>5

------------------------------
(* From one stream to the next.                                            *)

\* Behind the end of a stream there is nothing of it.
LEMMA NothingBehind ==
    ASSUME IInv, Known, request.id = OwnId(script, served + 1),
           NEW type \in Streams, HasMark(script, served + 1, type),
           rdNext = End(MarkOf(type))
    PROVE  OwnUpto(type, rdNext) = Own(type)
<1> DEFINE m == MarkOf(type)
           own == OwnCells(script, wire, request.id, served + 1, type)
<1>1. /\ StateFacts /\ script \in Seq(Record) /\ wire \in Seq(Cell(script))
      /\ rdNext \in Nat /\ rdNext <= Len(wire) /\ Len(wire) \in Nat
  BY HereFacts DEF StateFacts
<1>2. m \in 1 .. Len(script) /\ m \in 0 .. Len(script) /\ End(m) \in Nat /\ rdNext = End(m)
  BY <1>1, MarkFacts
<1> HIDE DEF m
<1>3. ASSUME NEW p \in rdNext + 1 .. Len(wire)
      PROVE  ~IsOwnCell(script, request.id, served + 1, type, wire[p])
  <2> DEFINE k == wire[p].rec
  <2>1. p \in 1 .. Len(wire) /\ p \in Nat /\ rdNext < p
    BY <1>1
  <2>2. /\ k \in 1 .. Len(script) /\ End(k - 1) < p /\ p <= End(k)
    BY <1>1, <2>1, RecordOf
  <2>3. ~(k <= m)
    <3> HIDE DEF k
    <3>1. SUFFICES ASSUME k <= m PROVE FALSE
      OBVIOUS
    <3>2. k \in 0 .. Len(script)
      BY <2>2
    <3>3. End(k) <= End(m) /\ End(k) \in Nat
      BY <1>1, <1>2, <3>1, <3>2, EndFacts
    <3> QED BY <1>2, <2>1, <2>2, <3>3
  <2>4. IsOwnCell(script, request.id, served + 1, type, wire[p]) =>
           script[k].type = type /\ script[k].id = request.id /\ script[k].nth = served + 1
    BY DEF IsOwnCell, k
  <2> SUFFICES ASSUME script[k].type = type, script[k].id = request.id,
                      script[k].nth = served + 1
               PROVE  FALSE
    BY <2>4
  <2>5. k \in OwnRecords(script, served + 1)
    BY <1>1, <2>2 DEF OwnRecords, StateFacts
  <2>6. k <= m
    <3> HIDE DEF k
    <3>1. script \in Seq(Record) /\ WellFormed(script) /\ served + 1 \in Requests(script)
      BY <1>1 DEF Known
    <3> QED BY <2>5, <3>1, StreamPlace DEF MarkOf, m, k
  <2> QED BY <2>3, <2>6
<1>4. own[Len(wire)] = own[rdNext]
  BY <1>1, <1>3, OwnSame
<1>5. OwnUpto(type, rdNext) = own[rdNext] /\ Own(type) = own[Len(wire)]
  <2>1. Own(type) = OwnUpto(type, Len(wire))
    BY DEF Own
  <2> QED BY <2>1, OwnUptoIs
<1> QED BY <1>4, <1>5

\* At the end of a stream everything of it has been read.
LEMMA ClosedFacts ==
    ASSUME IInv, Deep, Regular, request.begun, reader.error = "none",
           reader.type = "none" \/ Closed
    PROVE  /\ Placed(MarkOf(reader.type)) /\ MarkOf(reader.type) \in 1 .. Len(script)
           /\ MarkOf(reader.type) \in 0 .. Len(script)
           /\ rdNext = End(MarkOf(reader.type)) /\ Pos = rdNext /\ Boundary = rdNext
           /\ reader.avail = 0 /\ Whole
           /\ \A type \in Streams : type = reader.type => Got(type) = Own(type)
<1>1. PICK i \in 0 .. Len(script) : Placed(i)
  BY DEF Deep, Aligned
<1>2. At(i) /\ Within(i)
  BY <1>1 DEF Placed
<1>3. i = MarkOf(reader.type) /\ rdNext = End(i) /\ Whole
  BY <1>2 DEF Within
<1>4. /\ Known /\ script \in Seq(Record) /\ request.id = OwnId(script, served + 1)
      /\ HasMark(script, served + 1, reader.type)
  BY KnownRequest
<1>5. i \in 1 .. Len(script)
  <2>1. i \in OwnRecords(script, served + 1)
    BY <1>3, <1>4, MarkProps DEF Known, MarkOf
  <2> QED BY <1>4, <2>1, OwnProps DEF Known
<1>6. reader.avail = 0 /\ Pos = rdNext /\ Boundary = rdNext
  <2>1. /\ Boundary = Pos + Rest + reader.paddingLen /\ Rest = reader.avail + reader.contentLen
        /\ rdNext = Pos + Ahead /\ Pos \in Nat /\ Rest \in Nat /\ Ahead \in Nat
        /\ reader.paddingLen \in Nat /\ reader.avail \in Nat /\ reader.contentLen \in Nat
        /\ Ahead > 0 => Rest = 0 /\ reader.paddingLen = 0
    BY HereFacts DEF StateFacts
  <2>2. Boundary = rdNext
    BY <1>2, <1>3 DEF At
  <2>3. Rest = 0 /\ reader.paddingLen = 0 /\ Ahead = 0
    <3> DEFINE p == Pos
               r == Rest
               h == Ahead
               d == reader.paddingLen
    <3>1. /\ p \in Nat /\ r \in Nat /\ h \in Nat /\ d \in Nat
          /\ p + r + d = p + h /\ (h > 0 => r = 0 /\ d = 0)
      BY <2>1, <2>2
    <3> HIDE DEF p, r, h, d
    <3>2. r = 0 /\ d = 0 /\ h = 0
      BY <3>1
    <3> QED BY <3>2 DEF r, d, h
  <2> QED BY <2>1, <2>2, <2>3
<1>7. ASSUME NEW type \in Streams, type = reader.type
      PROVE  Got(type) = Own(type)
  <2>1. Got(type) = OwnUpto(type, rdNext)
    BY <1>3 DEF Whole
  <2>2. OwnUpto(type, rdNext) = Own(type)
    BY <1>3, <1>4, <1>7, NothingBehind
  <2> QED BY <2>1, <2>2
<1> QED BY <1>1, <1>3, <1>5, <1>6, <1>7

------------------------------
(* The callers set the reader to the next stream.                          *)

\* At the end of a stream the reader can be set to the next.
LEMMA SetsType ==
    ASSUME IInv, Deep, pc \in {"begin", "params", "app"}, request.begun,
           NEW type \in Streams, Prev(type) = reader.type,
           reader' = SetReaderType(reader, type),
           UNCHANGED <<script, wire, served, buffStop, rdNext, request, nest, params,
                       delivered, excused>>,
           EnvComplete', type = "data" => request.role = "filter",
           reader.type = "none" \/ Closed,
           Regular /\ reader.error # "none" => reader.type # "none"
    PROVE  Deep'
<1>1. /\ StateFacts /\ nest = "none" /\ Ahead = 0 /\ Pos \in Nat /\ rdNext = Pos + Ahead
      /\ rdNext \in Nat /\ reader.avail \in Nat
  BY HereFacts DEF StateFacts
<1>2. /\ reader'.type = type /\ ~reader'.eorStop /\ ~reader'.skip /\ reader'.contentLen = 0
      /\ reader'.paddingLen = 0 /\ reader'.avail = 0 /\ ~reader'.isClosed
      /\ reader'.error = reader.error /\ reader'.head = reader.head
  BY DEF SetReaderType, IInv, Types, Readers
<1>3. Same /\ Ahead' = Ahead
  <2>1. nest' = nest
    OBVIOUS
  <2> QED BY <1>2, <2>1 DEF Same, Ahead
<1>4. Pos' = rdNext /\ Pos = rdNext /\ Rest' = 0 /\ Boundary' = rdNext
  <2>1. Pos' = rdNext - 0
    BY <1>1, <1>3 DEF Pos
  <2>2. Pos' = rdNext /\ Pos = rdNext
    BY <1>1, <2>1
  <2>3. Rest' = 0 + 0
    BY <1>2 DEF Rest
  <2>4. Boundary' = Pos' + Rest' + reader'.paddingLen
    BY DEF Boundary
  <2> QED BY <1>1, <1>2, <2>2, <2>3, <2>4
<1>5. (~Closed' /\ ~Closed) \/ (~Closed' /\ Closed)
  BY <1>2 DEF Closed
<1>6. NothingEarly'
  BY <1>3, NotEarlySame DEF Deep
<1>7. Early'
  BY DEF Early
<1>8. InputInOrder'
  BY <1>3, InputSame DEF Deep
<1>9. ASSUME Regular
      PROVE  /\ Known /\ HasMark(script, served + 1, type) /\ request.id = OwnId(script, served + 1)
             /\ request.role = script[OwnBegin(script, served + 1)].role
             /\ End(OwnBegin(script, served + 1)) <= Pos
  <2>1. /\ Known /\ request.id = OwnId(script, served + 1)
        /\ request.role = "filter" => HasMark(script, served + 1, "data")
    BY <1>9, KnownRequest
  <2>2. HasMark(script, served + 1, type)
    BY <2>1 DEF HasMark, Streams
  <2> QED BY <1>9, <2>1, <2>2 DEF Deep, Begun
<1>10. Begun'
  <2>1. End(OwnBegin(script, served + 1))' = End(OwnBegin(script, served + 1))
    BY DEF End
  <2>2. Pos' = Pos
    BY <1>4
  <2>3. Regular' => Regular
    BY <1>3, RegularSame
  <2> QED BY <1>2, <1>9, <2>1, <2>2, <2>3 DEF Begun, Known
<1>11. ASSUME Regular, reader.error = "none"
       PROVE  (\E i \in 0 .. Len(script) : Placed(i))'
  <2>1. PICK i \in 1 .. Len(script) :
           /\ i = MarkOf(reader.type) /\ Placed(i) /\ i \in 0 .. Len(script)
           /\ rdNext = End(i) /\ Whole
    BY <1>11, ClosedFacts
  <2>2. /\ i = MarkOf(Prev(type)) /\ i < MarkOf(type)
    BY <1>1, <1>9, <1>11, <2>1, MarkFacts
  <2>3. MarkOf(type)' = MarkOf(type) /\ MarkOf(Prev(type))' = MarkOf(Prev(type))
    BY DEF MarkOf
  <2>4. End(i)' = End(i)
    BY DEF End
  <2>5. At(i)'
    BY <1>1, <1>2, <1>4, <2>1, <2>4 DEF At
  <2>6. InFlight(i)'
    BY <1>1, <1>2, <1>4 DEF InFlight
  <2>7. Whole'
    <3>1. Unowned
      BY UnownedNone
    <3>2. rdNext <= rdNext' /\ rdNext' <= Len(wire) /\ rdNext' \in Nat
      BY <1>1, HereFacts
    <3> QED BY <2>1, <3>1, <3>2, WholeStays
  <2>8. Within(i)'
    <3>1. reader'.type # "none" /\ ~Closed'
      BY <1>2, <1>5 DEF Streams
    <3>2. MarkOf(Prev(reader.type))' = MarkOf(Prev(type)) /\ MarkOf(reader.type)' = MarkOf(type)
      BY <1>2, <2>3 DEF MarkOf
    <3>3. MarkOf(Prev(reader.type))' <= i /\ i < MarkOf(reader.type)'
      BY <2>1, <2>2, <3>2
    <3> QED BY <2>7, <3>1, <3>3 DEF Within
  <2>9. Placed(i)' /\ i \in 0 .. Len(script')
    BY <2>1, <2>5, <2>6, <2>8 DEF Placed
  <2> QED BY <2>9
<1>12. ASSUME Regular, reader.error # "none"
       PROVE  Failing'
  <2>1. Failing
    BY <1>12 DEF Deep, Failed
  <2>2. Closed /\ reader.type \in {"params", "stdin"}
    BY <1>12 DEF Prev, Streams
  <2>3. reader.type = "stdin" => request.role = "filter"
    BY DEF Prev, Streams
  <2>4. rdNext + reader.avail <= End(MarkOf(reader.type) - 1) + 1
    BY <2>1, <2>2, <2>3 DEF Failing
  <2>5. reader.type \in Streams /\ HasMark(script, served + 1, reader.type)
    BY <1>12, <2>2, KnownRequest DEF Streams
  <2>6. End(MarkOf(reader.type) - 1) \in Nat
    BY <1>1, <1>9, <1>12, <2>5, MarkFacts
  <2>7. Pos' <= End(MarkOf(reader.type) - 1) + 1
    BY <1>1, <1>4, <2>4, <2>6
  <2>8. End(MarkOf(Prev(reader.type)) - 1)' = End(MarkOf(Prev(type)) - 1)
    BY <1>2 DEF End, MarkOf
  <2>9. Lost'
    BY <1>2, <2>7, <2>8 DEF Lost
  <2>10. type # "none" /\ type # "params"
    BY <2>2 DEF Prev, Streams
  <2> QED BY <1>1, <1>2, <1>5, <2>9, <2>10 DEF Failing
<1>13. Regular' => Regular
  BY <1>3, RegularSame
<1> QED BY <1>2, <1>6, <1>7, <1>8, <1>10, <1>11, <1>12, <1>13 DEF Deep, Aligned, Failed

\* FCGX_Accept_r goes on to FCGI_PARAMS.
LEMMA DeepAcceptReadsParams ==
    ASSUME IInv, Deep, AcceptReadsParams
    PROVE  Deep'
<1>1. /\ pc = "begin" /\ request.begun /\ reader' = SetReaderType(reader, "params")
      /\ call'.client = "params"
      /\ UNCHANGED <<script, wire, served, buffStop, rdNext, request, nest, params,
                     delivered, excused>>
  BY DEF AcceptReadsParams, Client, server, clients
<1>2. reader.type = "none"
  BY <1>1 DEF IInv, Phases, Callers
<1>3. EnvComplete'
  BY <1>1 DEF EnvComplete
<1>4. "params" \in Streams /\ Prev("params") = reader.type
  BY <1>2 DEF Streams, Prev
<1>5. Regular => reader.error = "none"
  BY <1>1, <1>2 DEF Deep, Failed, Failing
<1> QED BY <1>1, <1>2, <1>3, <1>4, <1>5, SetsType

\* The environment is whole.
LEMMA DeepAcceptReturns ==
    ASSUME IInv, Deep, AcceptReturns
    PROVE  Deep'
<1>1. /\ pc = "params" /\ reader.isClosed /\ reader' = SetReaderType(reader, "stdin")
      /\ call'.client = "app"
      /\ UNCHANGED <<script, wire, served, buffStop, rdNext, request, nest, params,
                     delivered, excused>>
  BY DEF AcceptReturns, Client, server, clients
<1>2. reader.type = "params" /\ request.begun /\ nest = "none"
  BY <1>1 DEF IInv, Phases, Callers, Heads
<1>3. "stdin" \in Streams /\ Prev("stdin") = reader.type /\ Closed
  BY <1>1, <1>2 DEF Streams, Prev, Closed
<1>4. EnvComplete'
  <2>1. SUFFICES ASSUME Regular', reader'.error = "none"
        PROVE  params' = Own("params")'
    BY DEF EnvComplete
  <2>2. Regular
    BY <1>1, <2>1 DEF Regular
  <2>3. reader.error = "none"
    <3>1. reader'.error = reader.error
      BY <1>1 DEF SetReaderType, IInv, Types, Readers
    <3> QED BY <2>1, <3>1
  <2>4. params = Own("params")
    <3>1. "params" \in Streams /\ Got("params") = params
      BY DEF Streams, Got
    <3> QED BY <1>2, <1>3, <2>2, <2>3, <3>1, ClosedFacts
  <2>5. Own("params")' = Own("params")
    BY <1>1, ZenonT(30) DEF Own, OwnUpto, IsOwn
  <2> QED BY <1>1, <2>4, <2>5
<1> QED BY <1>1, <1>2, <1>3, <1>4, SetsType

------------------------------
(* FCGX_StartFilterData, and what the callers take.                        *)

\* FCGX_StartFilterData, at the end of FCGI_STDIN or before.
LEMMA DeepStartFilterData ==
    ASSUME IInv, Deep, StartFilterData
    PROVE  Deep'
<1>1. /\ pc = "app" /\ call.want = 0
      /\ reader' = IF request.role = "filter" /\ reader.isClosed /\ reader.type = "stdin"
                   THEN SetReaderType(reader, "data") ELSE SetError(reader, "callSeq")
      /\ UNCHANGED <<script, wire, served, buffStop, rdNext, request, pc, call, nest, params,
                     delivered, excused>>
  BY DEF StartFilterData, server, clients
<1>2. /\ reader.type \in {"stdin", "data"} /\ request.begun /\ nest = "none"
      /\ reader \in Readers(script)
  BY <1>1 DEF IInv, Types, Phases, Callers, Heads
<1>3. Same
  BY <1>1 DEF Same
<1>4. CASE request.role = "filter" /\ reader.isClosed /\ reader.type = "stdin"
  <2>1. "data" \in Streams /\ Prev("data") = reader.type /\ Closed
    BY <1>2, <1>4 DEF Streams, Prev, Closed
  <2>2. reader' = SetReaderType(reader, "data")
    BY <1>1, <1>4
  <2>3. reader'.error = reader.error
    BY <1>2, <2>2 DEF SetReaderType, Readers
  <2>4. EnvComplete'
    BY <1>1, <1>3, <2>3, EnvSame DEF Deep
  <2> QED BY <1>1, <1>2, <1>4, <2>1, <2>2, <2>4, SetsType
<1>5. CASE ~(request.role = "filter" /\ reader.isClosed /\ reader.type = "stdin")
  <2>1. reader' = SetError(reader, "callSeq")
    BY <1>1, <1>5
  <2>2. /\ reader'.type = reader.type /\ reader'.error # "none" /\ reader'.isClosed
        /\ reader'.avail = reader.avail /\ reader'.head = reader.head
    BY <1>2, <2>1 DEF SetError, Readers
  <2>3. /\ StateFacts /\ Ahead = 0 /\ Pos \in Nat /\ rdNext = Pos + Ahead
        /\ Boundary = Pos + Rest + reader.paddingLen /\ Rest = reader.avail + reader.contentLen
        /\ rdNext \in Nat /\ reader.avail \in Nat /\ reader.contentLen \in Nat
        /\ reader.paddingLen \in Nat
    BY <1>1, HereFacts DEF StateFacts
  <2>4. Pos' = Pos
    BY <1>1, <2>2, Zenon DEF Pos, Ahead
  <2>5. Pos' \in Nat /\ Pos <= Pos'
    BY <2>3, <2>4
  <2>6. ASSUME Regular, request.begun
        PROVE  Failing'
    <3> DEFINE l == MarkOf(Prev(reader.type))
               m == MarkOf(reader.type)
    <3>1. reader.type \in Streams
      BY <1>2 DEF Streams
    <3>2. /\ l \in 1 .. Len(script) /\ m \in 1 .. Len(script) /\ l < m /\ l <= m - 1
          /\ l - 1 \in 0 .. Len(script) /\ m - 1 \in 0 .. Len(script)
          /\ End(l - 1) \in Nat /\ End(l) \in Nat /\ End(m - 1) \in Nat
          /\ End(l - 1) + 2 <= End(l) /\ End(l) <= End(m - 1)
      BY <2>3, <2>6, <3>1, KnownRequest, MarkFacts
    <3>3. rdNext + reader.avail <= Boundary /\ rdNext = Pos
      <4> DEFINE p == Pos
                 a == reader.avail
                 c == reader.contentLen
                 d == reader.paddingLen
      <4>1. /\ p \in Nat /\ a \in Nat /\ c \in Nat /\ d \in Nat
            /\ Boundary = p + (a + c) + d /\ rdNext = p
        BY <2>3
      <4> HIDE DEF p, a, c, d
      <4>2. p + a <= p + (a + c) + d
        BY <4>1
      <4>3. rdNext + a <= Boundary
        BY <4>1, <4>2
      <4> QED BY <4>1, <4>3 DEF p, a
    <3> HIDE DEF l, m
    <3>4. ASSUME NEW i \in 0 .. Len(script), At(i), i < m
          PROVE  rdNext + reader.avail <= End(m - 1) + 1
      <4>1. Boundary = End(i) /\ i <= m - 1
        BY <3>2, <3>4 DEF At
      <4>2. End(i) <= End(m - 1) /\ End(i) \in Nat
        BY <2>3, <3>2, <4>1, EndFacts
      <4>3. rdNext + reader.avail \in Nat
        BY <2>3
      <4> QED BY <3>2, <3>3, <4>1, <4>2, <4>3
    <3>5. reader.type = "stdin" /\ request.role = "filter" =>
             rdNext + reader.avail <= End(m - 1) + 1
      <4>1. SUFFICES ASSUME ~reader.isClosed
            PROVE  rdNext + reader.avail <= End(m - 1) + 1
        BY <1>5
      <4>2. CASE reader.error = "none"
        <5>1. PICK i \in 0 .. Len(script) : Placed(i)
          BY <2>6, <4>2 DEF Deep, Aligned
        <5>2. At(i) /\ Within(i)
          BY <2>6, <5>1 DEF Placed
        <5>3. i < m
          BY <3>1, <4>1, <5>2 DEF Within, Closed, Streams, m
        <5> QED BY <3>4, <5>2, <5>3
      <4>3. CASE reader.error # "none"
        <5>1. reader.avail = 0 /\ (Skipping \/ Lost)
          BY <1>2, <2>6, <4>1, <4>3 DEF Deep, Failed, Failing
        <5>2. CASE Skipping
          <6>1. PICK i \in 0 .. Len(script) : At(i) /\ i < l
            BY <5>2 DEF Skipping, l
          <6> QED BY <3>2, <3>4, <6>1
        <5>3. CASE Lost
          <6>1. Pos <= End(l - 1) + 1
            BY <5>3 DEF Lost, l
          <6> QED BY <2>3, <3>2, <3>3, <5>1, <6>1
        <5> QED BY <5>1, <5>2, <5>3
      <4> QED BY <4>2, <4>3
    <3>6. rdNext' + reader'.avail = rdNext + reader.avail
      BY <1>1, <2>2
    <3>7. reader.type = "stdin" /\ request.role = "filter" =>
             rdNext' + reader'.avail <= End(MarkOf(reader.type) - 1) + 1
      BY <3>5, <3>6 DEF m
    <3> QED BY <1>1, <1>2, <2>2, <3>1, <3>7, FailingClosed
  <2> QED BY <1>1, <1>2, <1>3, <2>2, <2>5, <2>6, FailsDeep
<1> QED BY <1>4, <1>5

------------------------------
(* What the callers take is the stream's own content.                      *)

\* What is available, in a record of the stream.
LEMMA AvailableFacts ==
    ASSUME IInv, pc \in {"params", "app"}, reader.avail > 0, ~reader.isClosed,
           NEW i \in 0 .. Len(script), At(i), InFlight(i)
    PROVE  /\ i \in 1 .. Len(script) /\ ~reader.skip
           /\ Mine(i) /\ script[i].type = reader.type
           /\ End(i - 1) + 2 <= rdNext
           /\ rdNext + reader.avail <= End(i) - script[i].pad
           /\ End(i - 1) \in Nat /\ End(i) \in Nat /\ script[i].pad \in Nat
<1>1. /\ StateFacts /\ nest = "none" /\ Ahead = 0 /\ Pos \in Nat /\ rdNext = Pos + Ahead
      /\ Boundary = Pos + Rest + reader.paddingLen /\ Rest = reader.avail + reader.contentLen
      /\ rdNext \in Nat /\ reader.avail \in Nat /\ reader.contentLen \in Nat
      /\ Rest \in Nat
  BY HereFacts DEF StateFacts
<1>2. Rest > 0
  BY <1>1
<1>3. /\ i > 0 /\ reader.paddingLen = script[i].pad /\ Rest <= script[i].len
      /\ Boundary = End(i)
  BY <1>2 DEF At
<1>4. ~reader.skip /\ Mine(i) /\ script[i].type = reader.type
  BY <1>1, <1>2 DEF InFlight
<1>5. /\ i \in 1 .. Len(script) /\ Len(script) \in Nat
      /\ script[i].len \in Nat /\ script[i].pad \in Nat
      /\ End(i - 1) \in Nat /\ End(i) \in Nat
      /\ End(i) = End(i - 1) + 2 + script[i].len + script[i].pad
  <2>1. i \in 1 .. Len(script) /\ Len(script) \in Nat
    BY <1>1, <1>3 DEF StateFacts
  <2>2. i - 1 \in 0 .. Len(script)
    BY <2>1
  <2> QED BY <1>1, <2>1, <2>2, EndFacts
<1>6. /\ End(i - 1) + 2 <= rdNext /\ rdNext + reader.avail <= End(i) - script[i].pad
  <2> DEFINE e == End(i - 1)
             f == End(i)
             n == script[i].len
             d == script[i].pad
             a == reader.avail
             c == reader.contentLen
             r == Rest
  <2>1. /\ e \in Nat /\ f \in Nat /\ n \in Nat /\ d \in Nat /\ a \in Nat /\ c \in Nat /\ r \in Nat
        /\ f = e + 2 + n + d /\ r <= n /\ r = a + c
    BY <1>1, <1>3, <1>5
  <2>2. f = rdNext + r + d
    <3>1. Boundary = Pos + r + d /\ rdNext = Pos
      BY <1>1, <1>3
    <3> QED BY <1>3, <3>1
  <2>3. rdNext \in Nat
    BY <1>1
  <2> HIDE DEF e, f, n, d, a, c, r
  <2>4. e + 2 <= rdNext /\ rdNext + a <= f - d
    BY <2>1, <2>2, <2>3
  <2> QED BY <2>4 DEF e, f, d, a
<1> QED BY <1>4, <1>5, <1>6

\* Of the request's own streams, it continues the one that is read.
LEMMA TakesOwn ==
    ASSUME IInv, pc \in {"params", "app"}, reader.avail > 0, ~reader.isClosed,
           NEW i \in 0 .. Len(script), At(i), InFlight(i),
           request.id = OwnId(script, served + 1),
           NEW count \in Nat, count <= reader.avail, NEW type \in Streams
    PROVE  LET own == OwnCells(script, wire, request.id, served + 1, type)
           IN  own[rdNext + count] =
                   IF type = reader.type THEN own[rdNext]
                          \o SubSeq(wire, rdNext + 1, rdNext + count)
                   ELSE own[rdNext]
<1> DEFINE own == OwnCells(script, wire, request.id, served + 1, type)
<1>1. /\ i \in 1 .. Len(script) /\ Mine(i) /\ script[i].type = reader.type
      /\ End(i - 1) + 2 <= rdNext /\ rdNext + reader.avail <= End(i) - script[i].pad
      /\ End(i - 1) \in Nat /\ End(i) \in Nat /\ script[i].pad \in Nat
  BY AvailableFacts
<1>2. /\ StateFacts /\ wire \in Seq(Cell(script)) /\ rdNext \in Nat /\ reader.avail \in Nat
      /\ rdNext + reader.avail <= Len(wire) /\ Len(wire) \in Nat
  <2>1. StateFacts
    BY HereFacts
  <2>2. /\ wire \in Seq(Cell(script)) /\ rdNext \in Nat /\ reader.avail \in Nat
        /\ buffStop \in Nat /\ Len(wire) \in Nat
        /\ rdNext + reader.avail <= buffStop /\ buffStop <= Len(wire)
    BY <2>1 DEF StateFacts
  <2> QED BY <2>1, <2>2
<1>3. /\ rdNext + count \in Nat /\ rdNext <= rdNext + count /\ rdNext + count <= Len(wire)
  BY <1>2
<1>4. ASSUME NEW p \in rdNext + 1 .. rdNext + count
      PROVE  IsOwnCell(script, request.id, served + 1, type, wire[p]) <=> type = reader.type
  <2> DEFINE e == End(i - 1)
             f == End(i)
             d == script[i].pad
  <2>1. p \in Nat /\ e < p /\ p <= f /\ e + 2 < p /\ p <= f - d
    <3> HIDE DEF e, f, d
    <3>1. e \in Nat /\ f \in Nat /\ d \in Nat /\ e + 2 <= rdNext /\ rdNext + reader.avail <= f - d
      BY <1>1 DEF e, f, d
    <3> QED BY <1>2, <3>1
  <2>2. IsOwnCell(script, request.id, served + 1, type, wire[p]) <=>
           /\ script[i].type = type /\ script[i].id = request.id /\ script[i].nth = served + 1
           /\ e + 2 < p /\ p <= f - d
    <3>1. /\ i \in 1 .. Len(script) /\ StateFacts /\ p \in Nat
          /\ End(i - 1) < p /\ p <= End(i)
      BY <1>1, <1>2, <2>1
    <3> QED BY <3>1, OwnCellAt
  <2>3. script[i].id = request.id /\ script[i].nth = served + 1
    BY <1>1 DEF Mine, OwnRecords
  <2> HIDE DEF e, f, d
  <2> QED BY <1>1, <2>1, <2>2, <2>3
<1>5. CASE type = reader.type
  <2>1. \A p \in rdNext + 1 .. rdNext + count :
           IsOwnCell(script, request.id, served + 1, type, wire[p])
    BY <1>4, <1>5
  <2>2. own[rdNext + count] = own[rdNext] \o SubSeq(wire, rdNext + 1, rdNext + count)
    <3>1. /\ wire \in Seq(Cell(script)) /\ rdNext \in Nat /\ rdNext + count \in Nat
          /\ rdNext <= rdNext + count /\ rdNext + count <= Len(wire)
      BY <1>2, <1>3
    <3>2. OwnCells(script, wire, request.id, served + 1, type)[rdNext + count]
             = OwnCells(script, wire, request.id, served + 1, type)[rdNext]
                  \o SubSeq(wire, rdNext + 1, rdNext + count)
      <4> DEFINE m == rdNext
                 n == rdNext + count
      <4>1. /\ wire \in Seq(Cell(script)) /\ m \in Nat /\ n \in Nat /\ m <= n /\ n <= Len(wire)
            /\ \A p \in m + 1 .. n : IsOwnCell(script, request.id, served + 1, type, wire[p])
        BY <2>1, <3>1
      <4> HIDE DEF own, m, n
      <4>2. Appended(script, wire, request.id, served + 1, type, m, n)
        BY <4>1, OwnMore
      <4> QED BY <4>2 DEF Appended, m, n
    <3> QED BY <3>2
  <2> QED BY <1>5, <2>2
<1>6. CASE type # reader.type
  <2>1. \A p \in rdNext + 1 .. rdNext + count :
           ~IsOwnCell(script, request.id, served + 1, type, wire[p])
    BY <1>4, <1>6
  <2>2. own[rdNext + count] = own[rdNext]
    BY <1>2, <1>3, <2>1, OwnSame
  <2> QED BY <1>6, <2>2
<1> QED BY <1>5, <1>6

\* A caller takes count of the cells that are available.
Takes(count) ==
    /\ rdNext' = rdNext + count
    /\ reader' = [reader EXCEPT !.avail = reader.avail - count]
    /\ UNCHANGED <<script, wire, served, buffStop, request, pc, nest, excused>>
    /\ call'.client = call.client
    /\ \A type \in Streams :
          Got(type)' = IF type = reader.type
                       THEN Got(type) \o SubSeq(wire, rdNext + 1, rdNext + count)
                       ELSE Got(type)

\* Whoever takes what is available keeps the reader aligned and its stream whole.
LEMMA TakesDeep ==
    ASSUME IInv, IInv', Deep, pc \in {"params", "app"}, reader.avail > 0,
           pc = "app" => call.want > 0,
           NEW count \in Nat, count <= reader.avail, Takes(count)
    PROVE  Boundary' = Boundary /\ Deep'
<1>1. /\ rdNext' = rdNext + count
      /\ UNCHANGED <<script, wire, served, buffStop, request, pc, nest, excused>>
      /\ call'.client = call.client
  BY DEF Takes
<1>2. /\ StateFacts /\ nest = "none" /\ Ahead = 0 /\ Pos \in Nat /\ rdNext = Pos + Ahead
      /\ Boundary = Pos + Rest + reader.paddingLen /\ Rest = reader.avail + reader.contentLen
      /\ rdNext \in Nat /\ reader.avail \in Nat /\ reader.contentLen \in Nat
      /\ reader.paddingLen \in Nat /\ Rest \in Nat
      /\ rdNext + reader.avail <= Len(wire) /\ Len(wire) \in Nat
      /\ reader \in Readers(script) /\ wire \in Seq(Cell(script))
  <2>1. /\ StateFacts /\ nest = "none" /\ Ahead = 0 /\ Pos \in Nat /\ rdNext = Pos + Ahead
        /\ Boundary = Pos + Rest + reader.paddingLen
        /\ Rest = reader.avail + reader.contentLen /\ Rest \in Nat
    BY HereFacts
  <2>2. /\ wire \in Seq(Cell(script)) /\ rdNext \in Nat /\ reader.avail \in Nat
        /\ reader.contentLen \in Nat /\ reader.paddingLen \in Nat
        /\ buffStop \in Nat /\ Len(wire) \in Nat
        /\ rdNext + reader.avail <= buffStop /\ buffStop <= Len(wire)
    BY <2>1 DEF StateFacts
  <2>3. reader \in Readers(script)
    BY DEF IInv, Types
  <2> QED BY <2>1, <2>2, <2>3
<1>3. /\ reader'.avail = reader.avail - count /\ reader'.head = reader.head
      /\ reader'.contentLen = reader.contentLen /\ reader'.paddingLen = reader.paddingLen
      /\ reader'.type = reader.type /\ reader'.skip = reader.skip
      /\ reader'.isClosed = reader.isClosed /\ reader'.error = reader.error
  BY <1>2 DEF Takes, Readers
<1>4. request.begun /\ reader.type \in Streams
  BY DEF IInv, Phases, Callers, Types, Streams
<1>5. Ahead' = 0
  BY <1>1, <1>2, <1>3, Zenon DEF Ahead
<1>6. /\ Pos' \in Nat /\ Pos <= Pos' /\ Boundary' = Boundary
      /\ rdNext' \in Nat /\ rdNext <= rdNext' /\ Rest' <= Rest /\ Rest' \in Nat
  <2> DEFINE c == (reader.avail - count) + reader.contentLen
             d == reader.paddingLen
  <2>1. d \in Nat /\ c \in Nat /\ c <= Rest /\ count + c = Rest
    <3> DEFINE a == reader.avail
               l == reader.contentLen
    <3>1. a \in Nat /\ l \in Nat /\ Rest = a + l /\ count <= a /\ c = (a - count) + l
      BY <1>2
    <3>2. d \in Nat
      BY <1>2
    <3> HIDE DEF a, l, c, d
    <3> QED BY <3>1, <3>2
  <2>2. Rest' = c
    BY <1>3 DEF Rest
  <2>3. count + c + d = 0 + Rest + reader.paddingLen
    <3> HIDE DEF c
    <3>1. Rest \in Nat
      BY <2>1
    <3> QED BY <2>1, <3>1
  <2>4. 0 \in Nat /\ rdNext' = rdNext + count /\ Ahead' = Ahead + 0 /\ reader'.paddingLen = d
        /\ 0 <= count
    BY <1>1, <1>2, <1>3, <1>5
  <2> HIDE DEF c, d
  <2>5. /\ Pos' \in Nat /\ Pos <= Pos' /\ Boundary' = Boundary
        /\ rdNext' \in Nat /\ rdNext <= rdNext'
    BY <2>1, <2>2, <2>3, <2>4, BoundaryStays
  <2> QED BY <2>1, <2>2, <2>5
<1>7. NothingEarly'
  BY <1>1 DEF Deep, NothingEarly
<1>8. Early'
  BY <1>1, <1>4 DEF Early
<1>9. Regular' => Regular
  BY <1>1 DEF Regular
<1>10. Begun'
  <2>1. SUFFICES ASSUME Regular
        PROVE  /\ served' + 1 \in Requests(script')
               /\ request'.id = OwnId(script', served' + 1)
               /\ request'.role = script'[OwnBegin(script', served' + 1)].role
               /\ reader'.type = "data" => request'.role = "filter"
               /\ End(OwnBegin(script, served + 1))' <= Pos'
    BY <1>9 DEF Begun
  <2>2. /\ served + 1 \in Requests(script)
        /\ request.id = OwnId(script, served + 1)
        /\ request.role = script[OwnBegin(script, served + 1)].role
        /\ reader.type = "data" => request.role = "filter"
        /\ End(OwnBegin(script, served + 1)) <= Pos
    BY <1>4, <2>1 DEF Deep, Begun
  <2>3. End(OwnBegin(script, served + 1))' = End(OwnBegin(script, served + 1))
    BY <1>1 DEF End
  <2>4. End(OwnBegin(script, served + 1)) \in Nat
    <3>1. script \in Seq(Record) /\ WellFormed(script)
      BY <1>2, <2>1 DEF Regular, StateFacts
    <3>2. OwnBegin(script, served + 1) \in OwnRecords(script, served + 1)
      BY <2>2, <3>1, BeginProps
    <3>3. OwnBegin(script, served + 1) \in 0 .. Len(script)
      BY <2>2, <3>1, <3>2, OwnProps
    <3> QED BY <1>2, <3>3, EndFacts
  <2>5. End(OwnBegin(script, served + 1))' <= Pos'
    BY <1>2, <1>6, <2>2, <2>3, <2>4
  <2> QED BY <1>1, <1>3, <2>2, <2>5
<1>11. ASSUME Regular
       PROVE  reader.error = "none" /\ ~reader.isClosed
  <2>1. reader.error = "none"
    <3>1. SUFFICES ASSUME reader.error # "none" PROVE FALSE
      OBVIOUS
    <3>2. Failing
      BY <1>4, <1>11, <3>1 DEF Deep, Failed
    <3>3. Closed
      BY <1>2, <3>2, SMTT(30) DEF Failing, Closed
    <3> QED BY <3>2, <3>3 DEF Failing
  <2>2. ~Closed
    BY <1>4, <1>11, <2>1, ClosedFacts
  <2> QED BY <1>2, <2>1, <2>2 DEF Closed
<1>12. Failed'
  BY <1>3, <1>9, <1>11 DEF Failed
<1>13. EnvComplete'
  <2>1. SUFFICES ASSUME Regular', call'.client = "app", reader'.error = "none"
        PROVE  params' = Own("params")'
    BY DEF EnvComplete
  <2>2. reader.type # "params"
    BY <1>1, <2>1 DEF IInv, Callers
  <2>3. "params" \in Streams
    BY DEF Streams
  <2>4. params' = params
    <3>1. Got("params")' = Got("params")
      BY <2>2, <2>3 DEF Takes
    <3> QED BY <3>1 DEF Got
  <2>5. params = Own("params")
    BY <1>1, <1>3, <1>9, <2>1 DEF Deep, EnvComplete
  <2>6. Own("params")' = Own("params")
    BY <1>1, ZenonT(30) DEF Own, OwnUpto, IsOwn
  <2> QED BY <2>4, <2>5, <2>6
<1>14. ASSUME Regular
       PROVE  Aligned' /\ InputInOrder'
  <2>1. PICK i \in 0 .. Len(script) : Placed(i)
    BY <1>11, <1>14 DEF Deep, Aligned
  <2>2. At(i) /\ InFlight(i) /\ Within(i)
    BY <1>4, <2>1 DEF Placed
  <2>3. request.id = OwnId(script, served + 1)
    BY <1>4, <1>14, KnownRequest
  <2>4. ASSUME NEW type \in Streams
        PROVE  /\ Got(type)' = OwnUpto(type, rdNext)'
               /\ IsPrefix(Got(type)', Own(type)')
    <3> DEFINE own == OwnCells(script, wire, request.id, served + 1, type)
    <3>1. own[rdNext + count] =
             IF type = reader.type THEN own[rdNext] \o SubSeq(wire, rdNext + 1, rdNext + count)
             ELSE own[rdNext]
      BY <1>11, <1>14, <2>2, <2>3, TakesOwn
    <3>2. Got(type) = own[rdNext]
      <4>1. Got(type) = OwnUpto(type, rdNext)
        BY <2>2 DEF Within, Whole
      <4> QED BY <4>1, OwnUptoIs
    <3>3. Got(type)' = own[rdNext + count]
      <4>1. Got(type)' = IF type = reader.type
                         THEN Got(type) \o SubSeq(wire, rdNext + 1, rdNext + count)
                         ELSE Got(type)
        BY DEF Takes
      <4> HIDE DEF own
      <4> QED BY <3>1, <3>2, <4>1
    <3>4. /\ OwnUpto(type, rdNext)' = own[rdNext'] /\ Own(type)' = own[Len(wire)]
      <4>1. /\ OwnUpto(type, rdNext)'
                  = OwnCells(script', wire', request'.id, served' + 1, type)[rdNext']
            /\ Own(type)'
                  = OwnCells(script', wire', request'.id, served' + 1, type)[Len(wire')]
        BY Zenon DEF Own, OwnUpto, OwnCells, IsOwn, IsOwnCell
      <4>2. OwnCells(script', wire', request'.id, served' + 1, type) = own
        BY <1>1
      <4> HIDE DEF own
      <4> QED BY <1>1, <4>1, <4>2
    <3>5. IsPrefix(own[rdNext'], own[Len(wire)])
      <4>1. rdNext' <= Len(wire) /\ rdNext' \in Nat /\ Len(wire) <= Len(wire)
        BY <1>1, <1>2, <1>6
      <4> QED BY <1>2, <4>1, OwnGrows
    <3> HIDE DEF own
    <3> QED BY <1>1, <3>3, <3>4, <3>5
  <2>5. Whole'
    BY <2>4 DEF Whole
  <2>6. Placed(i)'
    <3>1. i \in 1 .. Len(script) /\ ~reader.skip /\ Mine(i) /\ script[i].type = reader.type
      BY <1>11, <1>14, <2>2, AvailableFacts
    <3>2. /\ End(i)' = End(i) /\ Mine(i)' = Mine(i)
          /\ MarkOf(reader.type)' = MarkOf(reader.type)
          /\ MarkOf(Prev(reader.type))' = MarkOf(Prev(reader.type))
      BY <1>1, <1>3, Zenon DEF End, Mine, MarkOf
    <3>3. At(i)'
      <4>1. Rest > 0
        BY <1>2
      <4>2. /\ i > 0 /\ reader.paddingLen = script[i].pad /\ Rest <= script[i].len
            /\ Boundary = End(i)
        BY <2>2, <4>1 DEF At
      <4>3. script[i].len \in Nat /\ script[i].pad \in Nat /\ Rest \in Nat
        <5>1. i \in 1 .. Len(script) /\ StateFacts
          BY <1>2, <3>1
        <5>2. script[i].len \in Nat /\ script[i].pad \in Nat
          BY <5>1, EndFacts
        <5> QED BY <1>2, <5>2
      <4>4. Rest' <= script[i].len
        BY <1>6, <4>2, <4>3
      <4>5. Boundary' = End(i)'
        BY <1>6, <3>2, <4>2
      <4>6. reader'.paddingLen <= script'[i].pad /\ nest' = "none"
        BY <1>1, <1>2, <1>3, <4>2, <4>3
      <4> QED BY <1>1, <1>3, <4>2, <4>4, <4>5, <4>6 DEF At
    <3>4. InFlight(i)'
      BY <1>1, <1>2, <1>3, <3>1, <3>2 DEF InFlight
    <3>5. Within(i)'
      <4>1. ~Closed /\ ~Closed' /\ reader.type # "none"
        BY <1>3, <1>4, <1>11, <1>14 DEF Closed, Streams
      <4> QED BY <1>3, <2>2, <2>5, <3>2, <4>1 DEF Within
    <3> QED BY <1>1, <1>4, <3>3, <3>4, <3>5 DEF Placed
  <2>7. Aligned'
    <3>1. i \in 0 .. Len(script')
      BY <1>1
    <3> QED BY <2>6, <3>1 DEF Aligned
  <2>8. InputInOrder'
    <3>1. DOMAIN delivered' = {"stdin", "data"}
      BY DEF IInv, Types
    <3>2. ASSUME NEW type \in {"stdin", "data"}
          PROVE  IsPrefix(delivered'[type], Own(type)')
      <4>1. type \in Streams /\ Got(type)' = delivered'[type]
        BY DEF Streams, Got
      <4> QED BY <2>4, <4>1
    <3> QED BY <3>1, <3>2 DEF InputInOrder
  <2> QED BY <2>7, <2>8
<1>15. Aligned' /\ InputInOrder'
  BY <1>9, <1>14 DEF Aligned, InputInOrder
<1> QED BY <1>6, <1>7, <1>8, <1>10, <1>12, <1>13, <1>15 DEF Deep

\* ReadParams takes what is in the buffer.
LEMMA DeepReadParamsTakes ==
    ASSUME IInv, Deep, ReadParamsTakes
    PROVE  Boundary' = Boundary /\ Deep'
<1>1. IInv'
  BY TypesReadParamsTakes
<1>2. /\ pc = "params" /\ reader.avail > 0
      /\ params' = params \o SubSeq(wire, rdNext + 1, rdNext + reader.avail)
      /\ rdNext' = rdNext + reader.avail /\ reader' = [reader EXCEPT !.avail = 0]
      /\ UNCHANGED <<script, wire, served, buffStop, request, pc, call, nest, delivered, excused>>
  BY DEF ReadParamsTakes, server
<1>3. StateFacts
  BY HereFacts
<1>4. PICK count \in Nat : count = reader.avail
  BY <1>3 DEF StateFacts
<1>5. reader.type = "params" /\ call'.client = call.client
  BY <1>2 DEF IInv, Phases, Callers
<1>6. Takes(count)
  <2>1. reader' = [reader EXCEPT !.avail = reader.avail - count]
    <3>1. reader.avail - count = 0
      BY <1>4
    <3> QED BY <1>2, <3>1
  <2>2. ASSUME NEW type \in Streams
        PROVE  Got(type)' = IF type = reader.type
                            THEN Got(type) \o SubSeq(wire, rdNext + 1, rdNext + count)
                            ELSE Got(type)
    <3>1. CASE type = "params"
      <4>1. Got(type)' = params' /\ Got(type) = params
        BY <3>1 DEF Got
      <4> QED BY <1>2, <1>4, <1>5, <3>1, <4>1
    <3>2. CASE type # "params"
      <4>1. Got(type)' = delivered'[type] /\ Got(type) = delivered[type]
        BY <3>2 DEF Got
      <4> QED BY <1>2, <1>5, <3>2, <4>1
    <3> QED BY <3>1, <3>2
  <2>3. rdNext' = rdNext + count
    BY <1>2, <1>4
  <2>4. UNCHANGED <<script, wire, served, buffStop, request, pc, nest, excused>>
    BY <1>2
  <2> QED BY <1>5, <2>1, <2>2, <2>3, <2>4 DEF Takes
<1>7. pc \in {"params", "app"} /\ (pc = "app" => call.want > 0) /\ count <= reader.avail
  BY <1>2, <1>4
<1> QED BY <1>1, <1>2, <1>6, <1>7, TakesDeep

\* FCGX_GetStr takes what is in the buffer, and what it is asked for.
LEMMA DeepGetStrTakes ==
    ASSUME IInv, Deep, GetStrTakes
    PROVE  Boundary' = Boundary /\ Deep'
<1> DEFINE m == Least(call.want, reader.avail)
           taken == delivered[reader.type] \o SubSeq(wire, rdNext + 1, rdNext + m)
<1>1. IInv'
  BY TypesGetStrTakes
<1>2. /\ pc = "app" /\ call.want > 0 /\ reader.avail > 0
      /\ delivered' = [delivered EXCEPT ![reader.type] = taken]
      /\ rdNext' = rdNext + m /\ reader' = [reader EXCEPT !.avail = reader.avail - m]
      /\ call' = [call EXCEPT !.want = call.want - m]
      /\ UNCHANGED <<script, wire, served, buffStop, request, pc, nest, params, excused>>
  BY DEF GetStrTakes, server
<1>3. StateFacts
  BY HereFacts
<1>4. call \in [client : {"begin", "params", "app"}, want : Nat] /\ call.client = pc
  BY <1>2 DEF IInv, Types, Phases
<1>5. PICK count \in Nat : count = m /\ count <= reader.avail
  <2>1. call.want \in Nat /\ reader.avail \in Nat
    BY <1>3, <1>4 DEF StateFacts
  <2>2. m \in Nat /\ m <= reader.avail
    BY <2>1 DEF Least
  <2> QED BY <2>2
<1> HIDE DEF m
<1>6. reader.type \in {"stdin", "data"} /\ call'.client = call.client
  <2>1. reader.type \in {"stdin", "data"}
    BY <1>2, <1>4 DEF IInv, Callers
  <2> QED BY <1>2, <1>4, <2>1
<1>7. delivered \in [{"stdin", "data"} -> Seq(Cell(script))]
  BY DEF IInv, Types
<1>8. Takes(count)
  <2>1. reader' = [reader EXCEPT !.avail = reader.avail - count]
    BY <1>2, <1>5
  <2>2. ASSUME NEW type \in Streams
        PROVE  Got(type)' = IF type = reader.type
                            THEN Got(type) \o SubSeq(wire, rdNext + 1, rdNext + count)
                            ELSE Got(type)
    <3>1. CASE type = "params"
      <4>1. Got(type)' = params' /\ Got(type) = params
        BY <3>1 DEF Got
      <4> QED BY <1>2, <1>6, <3>1, <4>1
    <3>2. CASE type # "params"
      <4>1. Got(type)' = delivered'[type] /\ Got(type) = delivered[type]
        BY <3>2 DEF Got
      <4>2. delivered'[type] = IF type = reader.type THEN taken ELSE delivered[type]
        <5>1. type \in {"stdin", "data"}
          BY <3>2 DEF Streams
        <5> HIDE DEF taken
        <5> QED BY <1>2, <1>7, <5>1
      <4> QED BY <1>5, <4>1, <4>2
    <3> QED BY <3>1, <3>2
  <2>3. rdNext' = rdNext + count
    BY <1>2, <1>5
  <2>4. UNCHANGED <<script, wire, served, buffStop, request, pc, nest, excused>>
    BY <1>2
  <2> QED BY <1>6, <2>1, <2>2, <2>3, <2>4 DEF Takes
<1>9. pc \in {"params", "app"} /\ (pc = "app" => call.want > 0) /\ count <= reader.avail
  BY <1>2, <1>5
<1> QED BY <1>1, <1>2, <1>8, <1>9, TakesDeep

------------------------------
(* A new request.                                                          *)

\* FCGX_Accept_r begins between the records of two requests.
Fresh ==
    /\ IInv /\ reader = NewReader /\ pc = "top" /\ nest = "none"
    /\ call.client = "begin" /\ ~request.begun
    /\ NothingEarly
    /\ Regular => \A p \in 1 .. Len(wire) :
                     script[wire[p].rec].nth <= served <=> p <= rdNext

\* It has nothing of the request before.
LEMMA FreshAt ==
    ASSUME StateFacts,
           \A p \in 1 .. Len(wire) : script[wire[p].rec].nth <= served <=> p <= rdNext
    PROVE  \E i \in 0 .. Len(script) :
              /\ rdNext = End(i)
              /\ \A j \in 1 .. Len(script) : i < j => served + 1 <= script[j].nth
              /\ \A j \in 1 .. i : script[j].nth <= served
<1>1. /\ Len(script) \in Nat /\ Len(wire) \in Nat /\ rdNext \in Nat /\ served \in Nat
      /\ rdNext <= Len(wire)
      /\ \A i \in 0 .. Len(script) : End(i) \in Nat
      /\ End(0) = 0
      /\ \A i, j \in 0 .. Len(script) : i <= j => End(i) <= End(j)
      /\ \A i, j \in 0 .. Len(script) : i < j => End(i) + 2 <= End(j)
  <2>1. /\ rdNext \in Nat /\ served \in Nat /\ buffStop \in Nat /\ reader.avail \in Nat
        /\ rdNext + reader.avail <= buffStop /\ buffStop <= Len(wire) /\ Len(wire) \in Nat
    BY DEF StateFacts
  <2>2. rdNext <= Len(wire)
    BY <2>1
  <2> QED BY <2>1, <2>2, EndFacts
\* The first cell of a record is the record's.
<1>2. ASSUME NEW j \in 1 .. Len(script)
      PROVE  /\ End(j - 1) + 1 \in 1 .. Len(wire)
             /\ wire[End(j - 1) + 1].rec = j
             /\ script[j].nth \in Nat
  <2>1. j - 1 \in 0 .. Len(script) /\ j \in 0 .. Len(script) /\ j - 1 < j
    BY <1>1
  <2>2. End(j - 1) \in Nat /\ End(j) \in Nat /\ End(j - 1) + 2 <= End(j)
    BY <1>1, <2>1
  <2>3. End(j - 1) + 1 \in Nat /\ End(j - 1) < End(j - 1) + 1 /\ End(j - 1) + 1 <= End(j)
    <3> DEFINE e == End(j - 1)
               f == End(j)
    <3>1. e \in Nat /\ f \in Nat /\ e + 2 <= f
      BY <2>2
    <3> HIDE DEF e, f
    <3>2. e + 1 \in Nat /\ e < e + 1 /\ e + 1 <= f
      BY <3>1
    <3> QED BY <3>2 DEF e, f
  <2>4. script[j].nth \in Nat
    BY EndFacts DEF Record
  <2> QED BY <2>3, <2>4, CellFacts
<1>3. PICK i \in 0 .. Len(script) : rdNext = End(i)
  <2>1. CASE rdNext = 0
    <3>1. 0 \in 0 .. Len(script)
      BY <1>1
    <3> QED BY <1>1, <2>1, <3>1
  <2>2. CASE rdNext > 0
    <3>1. rdNext \in 1 .. Len(wire)
      BY <1>1, <2>2
    <3>2. PICK i \in 1 .. Len(script) : i = wire[rdNext].rec /\ End(i - 1) < rdNext
           /\ rdNext <= End(i)
      BY <3>1, RecordOf
    <3>3. i \in 0 .. Len(script) /\ i - 1 \in 0 .. Len(script)
      BY <1>1
    <3>4. End(i) \in Nat /\ End(i - 1) \in Nat
      BY <1>1, <3>3
    <3>5. SUFFICES ASSUME rdNext < End(i) PROVE FALSE
      BY <1>1, <3>2, <3>3, <3>4
    <3>6. rdNext + 1 \in Nat /\ End(i - 1) < rdNext + 1 /\ rdNext + 1 <= End(i)
      BY <1>1, <3>2, <3>4, <3>5
    <3>7. rdNext + 1 \in 1 .. Len(wire) /\ wire[rdNext + 1].rec = i
      BY <3>6, CellFacts
    <3>8. script[i].nth <= served
      BY <1>1, <3>1, <3>2
    <3>9. rdNext + 1 <= rdNext
      BY <3>7, <3>8
    <3> QED BY <1>1, <3>9
  <2> QED BY <1>1, <2>1, <2>2
<1>4. ASSUME NEW j \in 1 .. Len(script)
      PROVE  script[j].nth <= served <=> j <= i
  <2> DEFINE p == End(j - 1) + 1
  <2>1. script[j].nth <= served <=> p <= rdNext
    <3>1. p \in 1 .. Len(wire) /\ wire[p].rec = j
      BY <1>2
    <3> HIDE DEF p
    <3> QED BY <3>1
  <2>2. CASE j <= i
    <3>1. j - 1 \in 0 .. Len(script) /\ j - 1 < i
      BY <1>1, <2>2
    <3>2. End(j - 1) + 2 <= End(i) /\ End(j - 1) \in Nat /\ End(i) \in Nat
      BY <1>1, <3>1
    <3>3. p <= rdNext
      BY <1>3, <3>2
    <3> QED BY <2>1, <2>2, <3>3
  <2>3. CASE i < j
    <3>1. j - 1 \in 0 .. Len(script) /\ i <= j - 1
      BY <1>1, <2>3
    <3>2. End(i) <= End(j - 1) /\ End(j - 1) \in Nat /\ End(i) \in Nat
      BY <1>1, <3>1
    <3>3. ~(p <= rdNext)
      BY <1>3, <3>2
    <3>4. ~(j <= i)
      BY <2>3
    <3> QED BY <2>1, <3>3, <3>4
  <2>4. j <= i \/ i < j
    BY <1>1
  <2> QED BY <2>2, <2>3, <2>4
<1>5. \A j \in 1 .. Len(script) : i < j => served + 1 <= script[j].nth
  <2>1. SUFFICES ASSUME NEW j \in 1 .. Len(script), i < j
        PROVE  served + 1 <= script[j].nth
    OBVIOUS
  <2>2. ~(script[j].nth <= served) /\ script[j].nth \in Nat
    <3>1. ~(j <= i)
      BY <1>1, <2>1
    <3> QED BY <1>2, <1>4, <3>1
  <2> QED BY <1>1, <2>2
<1>6. \A j \in 1 .. i : script[j].nth <= served
  <2>1. \A j \in 1 .. i : j \in 1 .. Len(script) /\ j <= i
    BY <1>1
  <2> QED BY <1>4, <2>1
<1> QED BY <1>3, <1>5, <1>6

\* A reader that begins there knows where it is ...
LEMMA FreshDeep == Fresh => Deep
<1>0. SUFFICES ASSUME Fresh PROVE Deep
  OBVIOUS
<1>1. /\ IInv /\ reader = NewReader /\ pc = "top" /\ nest = "none"
      /\ call.client = "begin" /\ ~request.begun /\ NothingEarly
  BY <1>0 DEF Fresh
<1>2. /\ reader.avail = 0 /\ reader.contentLen = 0 /\ reader.paddingLen = 0
      /\ reader.head = <<>> /\ reader.error = "none" /\ reader.skip = FALSE
  BY <1>1 DEF NewReader
<1>3. EnvComplete /\ InputInOrder
  BY <1>1, BeginningHas DEF Beginning
<1>4. Early /\ Begun /\ Failed
  BY <1>1, <1>2 DEF Early, Begun, Failed
<1>5. ASSUME Regular PROVE Aligned
  <2>1. StateFacts
    BY <1>1, HereFacts
  <2>2. PICK i \in 0 .. Len(script) :
           /\ rdNext = End(i)
           /\ \A j \in 1 .. Len(script) : i < j => served + 1 <= script[j].nth
           /\ \A j \in 1 .. i : script[j].nth <= served
    BY <1>0, <1>5, <2>1, FreshAt DEF Fresh
  <2>3. Rest = 0 /\ Ahead = 0
    BY <1>1, <1>2 DEF Rest, Ahead
  <2>4. Boundary = End(i)
    <3>1. rdNext \in Nat
      BY <2>1 DEF StateFacts
    <3>2. Pos = rdNext - 0 /\ Boundary = Pos + 0 + 0
      BY <1>2, <2>3 DEF Pos, Boundary
    <3>3. rdNext - 0 + 0 + 0 = rdNext
      BY <3>1
    <3> QED BY <2>2, <3>2, <3>3
  <2>5. At(i)
    BY <1>1, <1>2, <2>3, <2>4 DEF At
  <2>6. InFlight(i)
    BY <1>1, <1>2, <2>3 DEF InFlight
  <2>7. Before(i)
    <3>1. \A j \in 1 .. i : ~(script[j].nth = served + 1)
      <4>1. served \in Nat
        BY <2>1 DEF StateFacts
      <4> QED BY <2>2, <4>1
    <3> QED BY <1>1, <2>2, <2>3, <3>1 DEF Before
  <2> QED BY <1>1, <2>5, <2>6, <2>7 DEF Aligned, Placed
<1>6. Aligned
  BY <1>5 DEF Aligned
<1> QED BY <1>1, <1>3, <1>4, <1>6 DEF Deep

\* ... also after a step to there.
LEMMA FreshDeepNext == Fresh' => Deep'
BY FreshDeep, PTL

\* A record belongs to the first request or to a later one.
LEMMA NotBeforeFirst ==
    ASSUME NEW records \in Seq(Record), NEW cells, IsLayout(records, cells),
           NEW p \in 1 .. Len(cells)
    PROVE  ~(records[cells[p].rec].nth <= 0) /\ ~(p <= 0)
<1>1. cells \in Seq(Cell(records))
  BY DEF IsLayout
<1>2. cells[p] \in Cell(records)
  BY <1>1, ElementOfSeq
<1>3. records[cells[p].rec] \in Record
  <2>1. cells[p].rec \in DOMAIN records
    BY <1>2 DEF Cell
  <2>2. DOMAIN records = 1 .. Len(records)
    OBVIOUS
  <2> QED BY <2>1, <2>2, ElementOfSeq
<1>4. records[cells[p].rec].nth \in Nat \ {0}
  BY <1>3 DEF Record
<1> QED BY <1>4

\* A new connection begins with its first request.
LEMMA FreshConnection ==
    ASSUME IInv', NewRequest, NextConnection, nest' = "none", ~request'.begun
    PROVE  Deep'
<1>1. /\ reader' = NewReader /\ pc' = "top" /\ call'.client = "begin"
      /\ script' \in Scripts /\ wire' = Cells(script')
      /\ served' = 0 /\ buffStop' = 0 /\ rdNext' = 0
  BY DEF NewRequest, NextConnection
<1>2. NothingEarly'
  <2>1. 1 .. 0 = {}
    OBVIOUS
  <2> QED BY <1>1, <2>1 DEF NothingEarly
<1>3. \A p \in 1 .. Len(wire') : script'[wire'[p].rec].nth <= served' <=> p <= rdNext'
  <2>1. script' \in Seq(Record) /\ IsLayout(script', wire')
    <3>1. script' \in Seq(Record)
      BY <1>1, ReaderAssumption
    <3> QED BY <1>1, <3>1, CellsLayout
  <2> QED BY <1>1, <2>1, NotBeforeFirst
<1>4. Fresh'
  BY <1>1, <1>2, <1>3 DEF Fresh
<1> QED BY <1>4, FreshDeepNext

\* FCGX_Accept_r gives up a connection and takes the next.
LEMMA DeepAcceptRetries ==
    ASSUME IInv, Deep, AcceptRetries
    PROVE  Deep'
<1>1. IInv'
  BY TypesAcceptRetries
<1>2. NewRequest /\ NextConnection /\ nest' = nest
      /\ request' = [request EXCEPT !.begun = FALSE]
  BY DEF AcceptRetries
<1>3. ~request'.begun
  <2>1. request \in [id : Nat, role : {"none", "responder", "filter", "bad"},
                     keep : BOOLEAN, begun : BOOLEAN]
    BY DEF IInv, Types
  <2> QED BY <1>2, <2>1
<1>4. nest' = "none"
  <2>1. pc \in {"begin", "params"}
    BY DEF AcceptRetries, GivesUp
  <2> QED BY <1>2, <2>1 DEF IInv, Heads
<1> QED BY <1>1, <1>2, <1>3, <1>4, FreshConnection

\* FCGX_Finish_r: the next request begins where this one's input ends, if all of it
\* has been read, or on a new connection.
LEMMA DeepFinish ==
    ASSUME IInv, Deep, Finish
    PROVE  Deep'
<1>1. IInv'
  BY TypesFinish
<1>2. NewRequest /\ nest' = nest /\ request' = [request EXCEPT !.begun = FALSE] /\ pc = "app"
  BY DEF Finish
<1>3. ~request'.begun
  <2>1. request \in [id : Nat, role : {"none", "responder", "filter", "bad"},
                     keep : BOOLEAN, begun : BOOLEAN]
    BY DEF IInv, Types
  <2> QED BY <1>2, <2>1
<1>4. nest' = "none"
  BY <1>2 DEF IInv, Heads
<1>5. CASE NextConnection
  BY <1>1, <1>2, <1>3, <1>4, <1>5, FreshConnection
<1>6. CASE /\ served' = served + 1
           /\ rdNext' = buffStop
           /\ excused' = IF Unread THEN excused \cup {"unread"} ELSE excused
           /\ UNCHANGED <<server, replies, buffStop>>
  <2>1. /\ UNCHANGED <<script, wire, buffStop>>
        /\ served' = served + 1 /\ rdNext' = buffStop
    BY <1>6 DEF server
  <2>2. /\ StateFacts /\ served \in Nat /\ buffStop \in Nat /\ rdNext \in Nat
        /\ rdNext <= buffStop /\ buffStop <= Len(wire) /\ Len(wire) \in Nat
    <3>1. StateFacts
      BY HereFacts
    <3>2. /\ served \in Nat /\ buffStop \in Nat /\ rdNext \in Nat /\ reader.avail \in Nat
          /\ rdNext + reader.avail <= buffStop /\ buffStop <= Len(wire) /\ Len(wire) \in Nat
      BY <3>1 DEF StateFacts
    <3> QED BY <3>1, <3>2
  <2>3. ASSUME NEW p \in 1 .. Len(wire) PROVE script[wire[p].rec].nth \in Nat
    <3>1. script[wire[p].rec] \in Record
      BY <2>2, RecordOf, EndFacts
    <3> QED BY <3>1 DEF Record
  <2>4. \A p \in 1 .. buffStop : script[wire[p].rec].nth <= served + 1
    BY DEF Deep, NothingEarly
  <2>5. NothingEarly'
    <3>1. ASSUME NEW p \in 1 .. buffStop
          PROVE  script[wire[p].rec].nth <= (served + 1) + 1
      <4>1. p \in 1 .. Len(wire)
        BY <2>2
      <4> QED BY <2>2, <2>3, <2>4, <4>1
    <3> QED BY <2>1, <3>1 DEF NothingEarly
  <2>6. ASSUME Regular'
        PROVE  \A p \in 1 .. Len(wire) : script[wire[p].rec].nth <= served + 1 <=> p <= buffStop
    <3>1. ~Unread
      <4>1. "unread" \notin excused'
        BY <2>6 DEF Regular
      <4> QED BY <1>6, <4>1
    <3>2. SUFFICES ASSUME NEW p \in 1 .. Len(wire)
          PROVE  script[wire[p].rec].nth <= served + 1 <=> p <= buffStop
      OBVIOUS
    <3>3. CASE p <= buffStop
      <4>1. p \in 1 .. buffStop
        BY <2>2, <3>3
      <4> QED BY <2>4, <3>3, <4>1
    <3>4. CASE ~(p <= buffStop)
      <4>1. p \in (rdNext + 1) .. Len(wire)
        BY <2>2, <3>4
      <4> QED BY <3>1, <3>4, <4>1 DEF Unread
    <3> QED BY <3>3, <3>4
  <2>7. reader' = NewReader /\ pc' = "top" /\ call'.client = "begin"
    BY <1>2 DEF NewRequest
  <2>8. Regular' => \A p \in 1 .. Len(wire') :
                       script'[wire'[p].rec].nth <= served' <=> p <= rdNext'
    BY <2>1, <2>6
  <2>9. Fresh'
    BY <1>1, <1>3, <1>4, <2>5, <2>7, <2>8 DEF Fresh
  <2> QED BY <2>9, FreshDeepNext
<1>7. \/ NextConnection
      \/ /\ served' = served + 1
         /\ rdNext' = buffStop
         /\ excused' = IF Unread THEN excused \cup {"unread"} ELSE excused
         /\ UNCHANGED <<server, replies, buffStop>>
  BY DEF Finish
<1> QED BY <1>5, <1>6, <1>7

\* The initial states.
LEMMA DeepInit ==
    ASSUME Init
    PROVE  IInv /\ Deep
<1>1. IInv
  BY TypesInit
<1>2. /\ reader = NewReader /\ pc = "top" /\ call.client = "begin" /\ nest = "none"
      /\ ~request.begun
      /\ script \in Scripts /\ wire = Cells(script)
      /\ served = 0 /\ buffStop = 0 /\ rdNext = 0
  BY DEF Init, Connected, NoRequest
<1>3. NothingEarly
  <2>1. 1 .. 0 = {}
    OBVIOUS
  <2> QED BY <1>2, <2>1 DEF NothingEarly
<1>4. \A p \in 1 .. Len(wire) : script[wire[p].rec].nth <= served <=> p <= rdNext
  <2>1. script \in Seq(Record) /\ IsLayout(script, wire)
    <3>1. script \in Seq(Record)
      BY <1>2, ReaderAssumption
    <3> QED BY <1>2, <3>1, CellsLayout
  <2> QED BY <1>2, <2>1, NotBeforeFirst
<1>5. Fresh
  BY <1>1, <1>2, <1>3, <1>4 DEF Fresh
<1> QED BY <1>1, <1>5, FreshDeep

------------------------------
(* What the application reads.                                             *)

\* Every step keeps the reader's place in the records.
LEMMA DeepNext ==
    ASSUME IInv, Deep, [Next]_vars
    PROVE  Deep'
<1>1. CASE FillBuffProc
  <2>1. CASE Read BY <2>1, DeepRead
  <2>2. CASE ReadFails BY <2>2, DeepReadFails
  <2>3. CASE ReadNothing BY <2>3, DeepQuietly
  <2>4. CASE DeliverContent BY <2>4, DeepDeliverContent
  <2>5. CASE SkipContent BY <2>5, DeepSkipContent
  <2>6. CASE SkipPadding BY <2>6, DeepSkipPadding
  <2>7. CASE EndOfRecord BY <2>7, DeepEndOfRecord
  <2>8. CASE ReadHeader BY <2>8, DeepReadHeader
  <2>9. CASE UnsupportedVersion BY <2>9, DeepUnsupportedVersion
  <2>10. CASE StreamRecord BY <2>10, DeepStreamRecord
  <2>11. CASE BeginRefused BY <2>11, DeepBeginRefused
  <2>12. CASE UnknownManagement BY <2>12, DeepUnknownManagement
  <2>13. CASE Nest BY <2>13, DeepNest
  <2>14. CASE NestedTakes BY <2>14, DeepNestedTakes
  <2>15. CASE NestedFills BY <2>15, DeepQuietly
  <2>16. CASE BeginReads BY <2>16, DeepBeginReads
  <2>17. CASE ValuesRead BY <2>17, DeepValuesRead
  <2> QED BY <1>1, <2>1, <2>2, <2>3, <2>4, <2>5, <2>6, <2>7, <2>8, <2>9, <2>10, <2>11,
             <2>12, <2>13, <2>14, <2>15, <2>16, <2>17 DEF FillBuffProc
<1>2. CASE CallFillBuffProc BY <1>2, DeepQuietly
<1>3. CASE AcceptRetries BY <1>3, DeepAcceptRetries
<1>4. CASE AcceptReadsParams BY <1>4, DeepAcceptReadsParams
<1>5. CASE ReadParamsTakes BY <1>5, DeepReadParamsTakes
<1>6. CASE AcceptReturns BY <1>6, DeepAcceptReturns
<1>7. CASE GetStrTakes BY <1>7, DeepGetStrTakes
<1>8. CASE GetStrReturnsShort BY <1>8, DeepQuietly
<1>9. CASE HangUp BY <1>9, DeepHangUp
<1>10. CASE ReadInterrupted BY <1>10, DeepReadFails
<1>11. CASE \E n \in Chunks : GetStr(n) BY <1>11, DeepQuietly
<1>12. CASE StartFilterData BY <1>12, DeepStartFilterData
<1>13. CASE Finish BY <1>13, DeepFinish
<1>14. CASE UNCHANGED vars BY <1>14, DeepStutter
<1> QED BY <1>1, <1>2, <1>3, <1>4, <1>5, <1>6, <1>7, <1>8, <1>9, <1>10, <1>11, <1>12,
           <1>13, <1>14 DEF Next, Library

\* The reader always knows where it is in the records of a regular connection, or
\* why it does not.
THEOREM KnowsItsPlace == Spec => [](IInv /\ Deep)
<1>1. Init => IInv /\ Deep
  BY DeepInit
<1>2. (IInv /\ Deep) /\ [Next]_vars => (IInv /\ Deep)'
  BY TypesNext, DeepNext
<1> QED BY <1>1, <1>2, PTL DEF Spec

\* However the reads cut the records, what the application has read of a stream
\* is how the stream begins.
THEOREM InputAlwaysInOrder == Spec => []InputInOrder
<1>1. IInv /\ Deep => InputInOrder
  BY DEF Deep
<1> QED BY <1>1, KnowsItsPlace, PTL

\* At the end of a stream without an error, all of it has been read.
LEMMA StreamAtItsEnd ==
    ASSUME IInv, Deep
    PROVE  EofIsTheEnd
<1>1. SUFFICES ASSUME Regular, pc = "app", reader.isClosed, reader.error = "none"
      PROVE  delivered[reader.type] = Own(reader.type)
  BY DEF EofIsTheEnd
<1>2. request.begun /\ reader.type \in {"stdin", "data"}
  <2>1. call.client = "app"
    BY <1>1 DEF IInv, Phases
  <2> QED BY <2>1 DEF IInv, Callers
<1>3. Closed
  <2>1. nest = "none"
    BY <1>1 DEF IInv, Heads
  <2> QED BY <1>1, <2>1 DEF Closed
<1>4. Got(reader.type) = Own(reader.type)
  <2>1. \A type \in Streams : type = reader.type => Got(type) = Own(type)
    BY <1>1, <1>2, <1>3, ClosedFacts
  <2>2. reader.type \in Streams
    BY <1>2 DEF Streams
  <2> QED BY <2>1, <2>2
<1>5. Got(reader.type) = delivered[reader.type]
  BY <1>2 DEF Got
<1> QED BY <1>4, <1>5

\* The environment that FCGX_Accept_r returns is whole, and so is each stream that
\* ends without an error.
THEOREM StreamsAlwaysWhole == Spec => []StreamsAreWhole
<1>1. IInv /\ Deep => StreamsAreWhole
  BY StreamAtItsEnd DEF Deep, StreamsAreWhole
<1> QED BY <1>1, KnowsItsPlace, PTL

------------------------------
(* A good server.                                                          *)

\* It keeps to the protocol and stays, and nothing else has gone wrong.
Good == WellFormed(script) /\ ~HungUp /\ excused = {}

\* Until the application has its request, nothing has failed; a nested call takes the
\* begin record's body and stops there, and its record's content to the end.
InService ==
    /\ reader.error = "none"
    /\ pc = "begin" => request.begun
    /\ nest = "body" =>
          /\ pc \in {"top", "content", "nested"} /\ ~reader.isClosed
          /\ pc # "nested" => reader.contentLen > 0
    /\ nest = "values" /\ reader.isClosed => reader.contentLen = 0

Serving == Good /\ call.client # "app" => InService

\* A step of FillBuffProc for FCGX_Accept_r.
LEMMA ServingFrame ==
    ASSUME Serving, UNCHANGED <<script, wire, last, excused>>, call'.client = call.client,
           Good /\ call.client # "app" /\ InService => InService'
    PROVE  Serving'
BY DEF Serving, Good, HungUp

\* Where it is, without an error.
LEMMA ServingPlace ==
    ASSUME IInv, Deep, Good, InService
    PROVE  /\ Regular /\ StateFacts /\ reader \in Readers(script)
           /\ \E i \in 0 .. Len(script) : Placed(i)
<1>1. Regular
  BY DEF Good, Regular
<1>2. StateFacts /\ reader \in Readers(script)
  BY HereFacts DEF IInv, Types
<1>3. \E i \in 0 .. Len(script) : Placed(i)
  BY <1>1 DEF Deep, Aligned, InService
<1> QED BY <1>1, <1>2, <1>3

------------------------------
(* The steps in a record.                                                  *)

\* read(2) brings cells.
LEMMA ServingRead ==
    ASSUME Serving, Read \/ ReadNothing
    PROVE  Serving'
<1>1. /\ pc = "top" /\ pc' = "content"
      /\ UNCHANGED <<script, wire, last, excused, reader, request, call, nest>>
  BY DEF Read, ReadNothing, server, clients
<1>2. InService => InService'
  BY <1>1 DEF InService
<1> QED BY <1>1, <1>2, ServingFrame

\* No read fails while the server stays.
LEMMA ServingReadFails ==
    ASSUME IInv, Serving, ReadFails
    PROVE  Serving'
<1>1. buffStop = last /\ UNCHANGED <<script, wire, last, excused, call>>
  BY DEF ReadFails, server, clients
<1>2. buffStop \in Nat /\ buffStop <= Len(wire) /\ Len(wire) \in Nat
  BY HereFacts DEF StateFacts
<1>3. HungUp
  BY <1>1, <1>2 DEF HungUp
<1> QED BY <1>1, <1>3, ServingFrame DEF Good

\* FillBuffProc makes content available.
LEMMA ServingDeliverContent ==
    ASSUME IInv, Deep, Serving, DeliverContent
    PROVE  Serving'
<1>1. /\ pc = "content" /\ reader.contentLen > 0
      /\ pc' = IF nest # "none" THEN "nested" ELSE call.client
      /\ UNCHANGED <<script, wire, last, excused, request, call, nest>>
  BY DEF DeliverContent, Return, server, clients
<1>2. \E c, a : reader' = [reader EXCEPT !.contentLen = c, !.avail = a]
  BY DEF DeliverContent
<1>3. reader \in Readers(script) /\ ~reader.isClosed
  BY <1>1 DEF IInv, Types, Phases, Filling
<1>4. reader'.error = reader.error /\ reader'.isClosed = reader.isClosed
  BY <1>2, <1>3 DEF Readers
<1>5. ASSUME Good, InService, nest = "none", call.client = "begin"
      PROVE  FALSE
  <2>1. PICK i \in 0 .. Len(script) : Placed(i)
    BY <1>5, ServingPlace
  <2>2. ~request.begun
    BY <1>1, <1>5 DEF IInv, Callers
  <2>3. Rest = 0
    BY <1>5, <2>1, <2>2 DEF Placed, Before
  <2>4. /\ Rest = reader.avail + reader.contentLen
        /\ reader.avail \in Nat /\ reader.contentLen \in Nat
    BY HereFacts DEF StateFacts
  <2> QED BY <1>1, <2>3, <2>4
<1>6. nest \in {"none", "body", "values"} /\ call.client \in {"begin", "params", "app"}
  BY DEF IInv, Types
<1>7. Good /\ InService => InService'
  BY <1>1, <1>3, <1>4, <1>5, <1>6 DEF InService
<1> QED BY <1>1, <1>7, ServingFrame

\* FillBuffProc skips content: no nested call does.
LEMMA ServingSkipContent ==
    ASSUME IInv, Deep, Serving, SkipContent
    PROVE  Serving'
<1>1. /\ pc = "content" /\ (reader.contentLen > 0 => reader.skip)
      /\ pc' \in {"top", "padding"}
      /\ UNCHANGED <<script, wire, last, excused, request, call, nest>>
  BY DEF SkipContent, server, clients
<1>2. \E c, s : reader' = [reader EXCEPT !.contentLen = c, !.skip = s]
  BY DEF SkipContent
<1>3. reader \in Readers(script) /\ ~reader.isClosed
  BY <1>1 DEF IInv, Types, Phases, Filling
<1>4. reader'.error = reader.error /\ reader'.isClosed = reader.isClosed
  BY <1>2, <1>3 DEF Readers
<1>5. ASSUME Good, InService, nest = "body"
      PROVE  FALSE
  <2>1. PICK i \in 0 .. Len(script) : Placed(i)
    BY <1>5, ServingPlace
  <2>2. ~reader.skip
    BY <1>5, <2>1 DEF Placed, InFlight
  <2> QED BY <1>1, <1>5, <2>2 DEF InService
<1>6. Good /\ InService => InService'
  BY <1>1, <1>3, <1>4, <1>5 DEF InService
<1> QED BY <1>1, <1>6, ServingFrame

\* FillBuffProc skips padding.
LEMMA ServingSkipPadding ==
    ASSUME IInv, Serving, SkipPadding
    PROVE  Serving'
<1>1. /\ pc = "padding" /\ pc' \in {"top", "header"}
      /\ UNCHANGED <<script, wire, last, excused, request, call, nest>>
  BY DEF SkipPadding, server, clients
<1>2. \E d : reader' = [reader EXCEPT !.paddingLen = d]
  BY DEF SkipPadding
<1>3. reader \in Readers(script) /\ ~reader.isClosed
  BY <1>1 DEF IInv, Types, Phases, Filling
<1>4. reader'.error = reader.error /\ reader'.isClosed = reader.isClosed
  BY <1>2, <1>3 DEF Readers
<1>5. InService => InService'
  BY <1>1, <1>3, <1>4 DEF InService
<1> QED BY <1>1, <1>5, ServingFrame

\* The end of a management record.
LEMMA ServingEndOfRecord ==
    ASSUME IInv, Serving, EndOfRecord
    PROVE  Serving'
<1>1. /\ pc = "header" /\ reader.eorStop
      /\ reader' = [reader EXCEPT !.avail = 0, !.isClosed = TRUE]
      /\ pc' = IF nest # "none" THEN "nested" ELSE call.client
      /\ UNCHANGED <<script, wire, last, excused, request, call, nest>>
  BY DEF EndOfRecord, Return, server, clients
<1>2. /\ reader \in Readers(script) /\ reader.contentLen = 0
      /\ nest # "none"
  BY <1>1 DEF IInv, Types, Phases, Filling, Heads
<1>3. reader'.error = reader.error /\ reader'.contentLen = 0
  BY <1>1, <1>2 DEF Readers
<1>4. InService => InService'
  BY <1>1, <1>2, <1>3 DEF InService
<1> QED BY <1>1, <1>4, ServingFrame

\* FillBuffProc reads the header of the next record.
LEMMA ServingReadHeader ==
    ASSUME IInv, Serving, ReadHeader
    PROVE  Serving'
<1>1. /\ pc = "header" /\ ~reader.eorStop
      /\ pc' \in {"process", "top"}
      /\ UNCHANGED <<script, wire, last, excused, request, call, nest>>
  BY DEF ReadHeader, server, clients
<1>2. nest = "none" /\ reader \in Readers(script)
  BY <1>1 DEF IInv, Types, Heads
<1>3. \E h, a, e : reader' = [reader EXCEPT !.head = h, !.avail = a, !.eorStop = e]
  BY DEF ReadHeader
<1>4. reader'.error = reader.error
  BY <1>2, <1>3 DEF Readers
<1>5. InService => InService'
  BY <1>1, <1>2, <1>4 DEF InService
<1> QED BY <1>1, <1>5, ServingFrame

\* A nested call takes content, or asks for more.
LEMMA ServingNested ==
    ASSUME IInv, Serving, NestedTakes \/ NestedFills
    PROVE  Serving'
<1>1. /\ pc = "nested" /\ UNCHANGED <<script, wire, last, excused, request, call, nest>>
      /\ reader' = [reader EXCEPT !.avail = 0] \/ reader' = reader
      /\ \/ pc' = "nested"
         \/ pc' = "top" /\ ~BodyRead /\ reader' = reader
  BY DEF NestedTakes, NestedFills, server, clients
<1>2. reader \in Readers(script) /\ reader.contentLen \in Nat
  BY HereFacts DEF IInv, Types, StateFacts
<1>3. /\ reader'.error = reader.error /\ reader'.isClosed = reader.isClosed
      /\ reader'.contentLen = reader.contentLen
  BY <1>1, <1>2 DEF Readers
<1>4. InService => InService'
  BY <1>1, <1>2, <1>3 DEF InService, BodyRead
<1> QED BY <1>1, <1>4, ServingFrame

------------------------------
(* The records that a good server sends.                                   *)

\* What the switch leaves when the status is no error.
LEMMA SwitchServes ==
    ASSUME NEW r \in Readers(script), r.avail = 0, r.error = "none",
           NEW status \in {"STREAM", "SKIP", "MGMT", "BEGIN"}, Switch(r, status),
           nest' = "none", call.client \in {"begin", "params", "app"},
           status \in {"STREAM", "BEGIN"} => request'.begun
    PROVE  InService'
<1>1. /\ reader'.error = "none"
      /\ pc' = "top" \/ status \in {"STREAM", "BEGIN"}
  BY SwitchProps
<1> QED BY <1>1 DEF InService

\* Of a good server, a header is always where one is expected.
LEMMA ServingHeader ==
    ASSUME IInv, Deep, Good, InService, pc = "process"
    PROVE  /\ IsHeader(reader.head) /\ nest = "none" /\ Regular
           /\ Here \in 1 .. Len(script) /\ Header = script[Here] /\ script[Here] \in Record
           /\ script \in Seq(Record) /\ StateFacts
           /\ script[Here].nth = served + 1
           /\ WithLengths \in Readers(script) /\ WithLengths.avail = 0
           /\ WithLengths.error = "none" /\ ~WithLengths.isClosed
           /\ call.client \in {"begin", "params", "app"}
<1>1. Regular /\ StateFacts
  BY ServingPlace
<1>2. PICK i \in 0 .. Len(script) : Placed(i)
  BY ServingPlace
<1>3. Pos = End(i)
  <2>1. /\ Boundary = Pos + Rest + reader.paddingLen /\ Rest = 0 /\ reader.paddingLen = 0
        /\ Pos \in Nat
    BY HereFacts
  <2>2. Boundary = Pos
    BY <2>1
  <2> QED BY <1>2, <2>2 DEF Placed, At
<1>4. IsHeader(reader.head)
  BY <1>3, NextHeader
<1>5. Here \in 1 .. Len(script) /\ Header = script[Here] /\ script[Here] \in Record
  BY <1>4, HereIs
<1>6. script[Here].nth = served + 1
  BY <1>1, <1>4, HereBegun, HereUnbegun
<1>7. /\ nest = "none" /\ reader \in Readers(script) /\ reader.avail = 0 /\ ~reader.isClosed
      /\ call.client \in {"begin", "params", "app"}
  BY DEF IInv, Types, Heads, Phases, Filling
<1>8. Header.len \in Nat /\ Header.pad \in Nat
  BY <1>5 DEF Record
<1>9. /\ WithLengths \in Readers(script) /\ WithLengths.avail = 0
      /\ WithLengths.error = "none" /\ ~WithLengths.isClosed
  BY <1>7, <1>8 DEF WithLengths, Readers, InService
<1> QED BY <1>1, <1>4, <1>5, <1>6, <1>7, <1>9 DEF StateFacts

\* Every header has its version.
LEMMA ServingUnsupportedVersion ==
    ASSUME IInv, Deep, Serving, UnsupportedVersion
    PROVE  Serving'
<1>1. /\ pc = "process" /\ ~IsHeader(reader.head)
      /\ UNCHANGED <<script, wire, last, excused, call>>
  BY DEF UnsupportedVersion, server, clients
<1>2. ~(Good /\ InService)
  BY <1>1, ServingHeader
<1> QED BY <1>1, <1>2, ServingFrame

\* ProcessHeader: a record of a stream is one of the stream it reads.
LEMMA ServingStreamRecord ==
    ASSUME IInv, Deep, Serving, StreamRecord
    PROVE  Serving'
<1> DEFINE status == IF ~SameRequest THEN "SKIP"
                     ELSE IF Header.type # reader.type THEN "protocol" ELSE "STREAM"
<1>1. /\ pc = "process"
      /\ Header.type \in {"params", "stdin", "data", "values", "unknown"} /\ Header.id # 0
      /\ Switch(WithLengths, status)
      /\ UNCHANGED <<script, wire, last, served, excused, request, call, nest>>
  BY DEF StreamRecord, Processing, server, clients
<1>2. ASSUME Good, InService
      PROVE  InService'
  <2>1. /\ IsHeader(reader.head) /\ nest = "none" /\ Regular
        /\ Here \in 1 .. Len(script) /\ Header = script[Here] /\ script[Here] \in Record
        /\ script \in Seq(Record) /\ StateFacts
        /\ script[Here].nth = served + 1
        /\ WithLengths \in Readers(script) /\ WithLengths.avail = 0
        /\ WithLengths.error = "none"
        /\ call.client \in {"begin", "params", "app"}
    BY <1>1, <1>2, ServingHeader
  <2>2. request.begun
    <3>1. SUFFICES ASSUME ~request.begun PROVE FALSE
      OBVIOUS
    <3>2. script[Here].id = 0 \/ script[Here].type = "begin"
      BY <1>1, <2>1, <3>1, HereUnbegun DEF HereFirst
    <3> QED BY <1>1, <2>1, <3>2
  <2>3. SameRequest => Header.type = reader.type
    <3>1. SUFFICES ASSUME SameRequest PROVE script[Here].type = reader.type
      BY <2>1
    <3>2. /\ Known /\ request.id = OwnId(script, served + 1)
          /\ HasMark(script, served + 1, reader.type)
      BY <2>1, <2>2, KnownRequest
    <3>3. Here \in OwnRecords(script, served + 1)
      BY <2>1, <3>1, <3>2 DEF OwnRecords, SameRequest, StateFacts
    <3>4. /\ reader.type \in Streams
          /\ MarkOf(Prev(reader.type)) < Here /\ Here <= MarkOf(reader.type)
      BY <1>1, <1>2, <2>1, <2>2, HereBegun DEF HereInOrder, InService
    <3> QED BY <2>1, <3>2, <3>3, <3>4, StreamPlace DEF Known, MarkOf
  <2>4. status \in {"STREAM", "SKIP", "MGMT", "BEGIN"}
    BY <2>3
  <2>5. nest' = "none" /\ request'.begun
    BY <1>1, <2>1, <2>2
  <2> HIDE DEF status
  <2> QED BY <1>1, <2>1, <2>4, <2>5, SwitchServes
<1> QED BY <1>1, <1>2, ServingFrame

\* An answer gets through.
LEMMA ServingReply ==
    ASSUME Good, InService, nest' = "none", request' = request,
           NEW type, NEW r \in Readers(script), r.avail = 0, r.error = "none",
           NEW status \in {"SKIP", "MGMT"}, Reply(type, r, status),
           call.client \in {"begin", "params", "app"}
    PROVE  InService'
<1>1. Switch(r, status)
  BY DEF Reply, Good
<1>2. status \in {"STREAM", "SKIP", "MGMT", "BEGIN"} /\ status \notin {"STREAM", "BEGIN"}
  OBVIOUS
<1> QED BY <1>1, <1>2, SwitchServes

\* ProcessHeader: a second BEGIN_REQUEST is refused, and the request goes on.
LEMMA ServingBeginRefused ==
    ASSUME IInv, Deep, Serving, BeginRefused
    PROVE  Serving'
<1>1. /\ pc = "process" /\ Header.type = "begin"
      /\ UNCHANGED <<script, wire, last, excused, request, call, nest>>
      /\ IF Header.id = 0 \/ Header.len # BodyLen
         THEN Switch(WithLengths, "protocol") /\ UNCHANGED replies
         ELSE request.begun /\ Reply("cantMpx", WithLengths, "SKIP")
  BY DEF BeginRefused, Processing, server, clients
<1>2. ASSUME Good, InService
      PROVE  InService'
  <2>1. /\ nest = "none" /\ Regular
        /\ Here \in 1 .. Len(script) /\ Header = script[Here] /\ script \in Seq(Record)
        /\ WithLengths \in Readers(script) /\ WithLengths.avail = 0
        /\ WithLengths.error = "none"
        /\ call.client \in {"begin", "params", "app"}
    BY <1>1, <1>2, ServingHeader
  <2>2. Header.id # 0 /\ Header.len = BodyLen
    BY <1>1, <2>1, WellFormedProps DEF Regular
  <2>3. Reply("cantMpx", WithLengths, "SKIP") /\ nest' = "none" /\ request' = request
    BY <1>1, <2>1, <2>2
  <2> QED BY <1>2, <2>1, <2>3, ServingReply
<1> QED BY <1>1, <1>2, ServingFrame

\* ProcessManagementRecord: an unknown type is answered.
LEMMA ServingUnknownManagement ==
    ASSUME IInv, Deep, Serving, UnknownManagement
    PROVE  Serving'
<1>1. /\ pc = "process"
      /\ UNCHANGED <<script, wire, last, excused, request, call, nest>>
      /\ Reply("unknownType", WithLengths, "MGMT")
  BY DEF UnknownManagement, Processing, server, clients
<1>2. ASSUME Good, InService
      PROVE  InService'
  <2>1. /\ nest = "none"
        /\ WithLengths \in Readers(script) /\ WithLengths.avail = 0
        /\ WithLengths.error = "none"
        /\ call.client \in {"begin", "params", "app"}
    BY <1>1, <1>2, ServingHeader
  <2>2. nest' = "none" /\ request' = request
    BY <1>1, <2>1
  <2> QED BY <1>1, <1>2, <2>1, <2>2, ServingReply
<1> QED BY <1>1, <1>2, ServingFrame

\* ProcessHeader calls for a body or for pairs: the record has some content.
LEMMA ServingNest ==
    ASSUME IInv, Deep, Serving, Nest
    PROVE  Serving'
<1>1. /\ pc = "process" /\ reader' = WithLengths /\ pc' = "nested"
      /\ UNCHANGED <<script, wire, last, excused, call>>
  BY DEF Nest, Processing, server, clients
<1>2. Good /\ InService => InService'
  BY <1>1, ServingHeader DEF InService
<1> QED BY <1>1, <1>2, ServingFrame

------------------------------
(* The ends of nested calls.                                               *)

\* ProcessBeginRecord has read its body.
LEMMA ServingBeginReads ==
    ASSUME IInv, Deep, Serving, BeginReads
    PROVE  Serving'
<1>1. /\ pc = "nested" /\ nest = "body" /\ reader.avail = 0
      /\ nest' = "none"
      /\ UNCHANGED <<script, wire, last, excused, call>>
      /\ IF reader.isClosed
         THEN Switch(reader, "protocol") /\ UNCHANGED request
         ELSE /\ Switch(reader, "BEGIN")
              /\ request' = [request EXCEPT !.role = Header.role, !.begun = TRUE,
                                         !.keep = Header.keep]
  BY DEF BeginReads, server, clients
<1>2. /\ reader \in Readers(script)
      /\ request \in [id : Nat, role : {"none", "responder", "filter", "bad"},
                      keep : BOOLEAN, begun : BOOLEAN]
      /\ call.client \in {"begin", "params", "app"}
  BY DEF IInv, Types
<1>3. ASSUME Good, InService
      PROVE  InService'
  <2>1. ~reader.isClosed /\ reader.error = "none"
    BY <1>1, <1>3 DEF InService
  <2>2. Switch(reader, "BEGIN") /\ request'.begun
    BY <1>1, <1>2, <2>1
  <2> QED BY <1>1, <1>2, <2>1, <2>2, SwitchServes
<1> QED BY <1>1, <1>3, ServingFrame

\* ProcessManagementRecord has read its pairs, an even number of cells.
LEMMA ServingValuesRead ==
    ASSUME IInv, Deep, Serving, ValuesRead
    PROVE  Serving'
<1>1. /\ pc = "nested" /\ nest = "values" /\ reader.avail = 0 /\ reader.isClosed
      /\ nest' = "none"
      /\ UNCHANGED <<script, wire, last, excused, request, call>>
      /\ IF reader.error # "none" \/ reader.contentLen # 0 \/ Header.len % 2 # 0
         THEN Switch(reader, "protocol") /\ UNCHANGED replies
         ELSE Reply("result", reader, "MGMT")
  BY DEF ValuesRead, server, clients
<1>2. /\ reader \in Readers(script) /\ call.client \in {"begin", "params", "app"}
  BY DEF IInv, Types
<1>3. ASSUME Good, InService
      PROVE  InService'
  <2>1. reader.contentLen = 0 /\ reader.error = "none"
    BY <1>1, <1>3 DEF InService
  <2>2. Header.len % 2 = 0
    <3>1. PICK i \in 0 .. Len(script) : Placed(i)
      BY <1>3, ServingPlace
    <3>2. /\ reader.head[1].rec = i /\ script[i].type = "values" /\ script[i].id = 0
      BY <1>1, <3>1 DEF Placed, At, InFlight
    <3>3. i \in 1 .. Len(script) /\ Header = script[i]
      BY <1>1, <3>2, NestedHere DEF Here
    <3> QED BY <1>3, <3>2, <3>3, ServingPlace, WellFormedProps DEF StateFacts, Regular
  <2>3. Reply("result", reader, "MGMT")
    BY <1>1, <2>1, <2>2
  <2> QED BY <1>1, <1>2, <1>3, <2>1, <2>3, ServingReply
<1> QED BY <1>1, <1>3, ServingFrame

------------------------------
(* The length of the environment.                                          *)

\* What a record adds to a stream.
Part(records, n, type, i) ==
    IF i \in OwnRecords(records, n) /\ records[i].type = type THEN records[i].len ELSE 0

\* EnvLen adds up the lengths of the request's records of the environment.
LEMMA EnvLenSteps ==
    ASSUME NEW records \in Seq(Record), NEW n
    PROVE  \E total :
              /\ EnvLen(records, n) = total[Len(records)]
              /\ total \in [0 .. Len(records) -> Nat] /\ total[0] = 0
              /\ \A i \in 1 .. Len(records) :
                    total[i] = total[i - 1] + Part(records, n, "params", i)
<1> DEFINE l == Len(records)
           own == OwnRecords(records, n)
           part(i) == IF i \in own /\ records[i].type = "params" THEN records[i].len ELSE 0
           F(f) == [i \in 0 .. Len(records) |->
                       IF i = 0 THEN 0
                       ELSE f[i - 1] + (IF i \in own /\ records[i].type = "params"
                                        THEN records[i].len ELSE 0)]
           step == [x \in Nat \X (1 .. l) |-> x[1] + part(x[2])]
           total == CHOOSE f : f = F(f)
<1>1. l \in Nat /\ DOMAIN records = 1 .. l
  BY LenProperties
<1>2. \A i \in 1 .. l : part(i) \in Nat
  <2>1. ASSUME NEW i \in 1 .. l PROVE part(i) \in Nat
    <3>1. records[i].len \in Nat
      BY <1>1, RecordProps
    <3> HIDE DEF own
    <3> QED BY <3>1
  <2> HIDE DEF part
  <2> QED BY <2>1
<1>3. step \in [Nat \X (1 .. l) -> Nat]
  <2>1. ASSUME NEW x \in Nat \X (1 .. l) PROVE x[1] + part(x[2]) \in Nat
    <3>1. x[1] \in Nat /\ part(x[2]) \in Nat
      <4> HIDE DEF part, l
      <4> QED BY <1>2
    <3> HIDE DEF part
    <3> QED BY <3>1
  <2> HIDE DEF part, l
  <2> QED BY <2>1
<1>4. PICK g : g \in [0 .. l -> Nat] /\ g[0] = 0 /\ \A k \in 1 .. l : g[k] = step[<<g[k - 1], k>>]
  <2> HIDE DEF l, step
  <2>1. \E g : IsIteration(g, l, Nat, 0, step)
    BY <1>1, <1>3, StepsProps
  <2> QED BY <2>1 DEF IsIteration
<1>5. ASSUME NEW k \in 1 .. l PROVE g[k] = g[k - 1] + part(k)
  <2>1. k - 1 \in 0 .. l
    BY <1>1
  <2>2. g[k - 1] \in Nat
    <3> HIDE DEF l
    <3> QED BY <1>4, <2>1
  <2>3. step[<<g[k - 1], k>>] = g[k - 1] + part(k)
    <3> HIDE DEF part, l
    <3> QED BY <2>2
  <2> HIDE DEF step, part, l
  <2> QED BY <1>4, <2>3
<1>6. g = F(g)
  <2>1. \A p \in 0 .. l : g[p] = IF p = 0 THEN 0 ELSE g[p - 1] + part(p)
    <3>1. \A p \in 0 .. l : p # 0 => p \in 1 .. l
      BY <1>1
    <3> HIDE DEF part, l
    <3> QED BY <1>4, <1>5, <3>1
  <2>2. g = [p \in 0 .. l |-> IF p = 0 THEN 0 ELSE g[p - 1] + part(p)]
    <3> HIDE DEF part, l
    <3> QED BY <1>4, <2>1
  <2> QED BY <2>2
<1>7. total = F(total)
  <2> HIDE DEF F
  <2> QED BY <1>6
<1>8. EnvLen(records, n) = total[l]
  BY Zenon DEF EnvLen
<1>9. \A p \in 0 .. l : total[p] = IF p = 0 THEN 0 ELSE total[p - 1] + part(p)
  <2>1. ASSUME NEW p \in 0 .. l PROVE total[p] = IF p = 0 THEN 0 ELSE total[p - 1] + part(p)
    <3>1. F(total)[p] = IF p = 0 THEN 0 ELSE total[p - 1] + part(p)
      <4> HIDE DEF total, own
      <4> QED BY <2>1
    <3> HIDE DEF F, total, part, own
    <3> QED BY <1>7, <3>1
  <2> HIDE DEF total, part, l
  <2> QED BY <2>1
<1>10. DOMAIN total = 0 .. l
  <2>1. DOMAIN F(total) = 0 .. l
    <3> HIDE DEF total, own
    <3> QED OBVIOUS
  <2> HIDE DEF F, total
  <2> QED BY <1>7, <2>1
<1>11. \A p \in 0 .. l : total[p] \in Nat
  <2> DEFINE S == {p \in 0 .. l : total[p] \in Nat}
  <2>1. 0 \in S
    <3>1. 0 \in 0 .. l
      BY <1>1
    <3> HIDE DEF total, part, l
    <3> QED BY <1>9, <3>1
  <2>2. ASSUME NEW k \in 0 + 1 .. l, k - 1 \in S PROVE k \in S
    <3>1. k \in 0 .. l /\ k # 0 /\ k \in 1 .. l
      BY <1>1
    <3> HIDE DEF total, part, l
    <3> QED BY <1>2, <1>9, <2>2, <3>1
  <2>3. \A k \in 0 .. l : k \in S
    <3> HIDE DEF S, l
    <3> QED BY <1>1, <2>1, <2>2, Upward
  <2> HIDE DEF total, l
  <2> QED BY <2>3
<1>12. total = [p \in 0 .. l |-> total[p]]
  <2>1. F(total) = [p \in 0 .. l |-> F(total)[p]]
    <3> HIDE DEF total, own
    <3> QED OBVIOUS
  <2> HIDE DEF F, total
  <2> QED BY <1>7, <2>1
<1>13. /\ total \in [0 .. l -> Nat] /\ total[0] = 0
       /\ \A i \in 1 .. l : total[i] = total[i - 1] + part(i)
  <2>1. 0 \in 0 .. l /\ \A i \in 1 .. l : i \in 0 .. l /\ i # 0
    BY <1>1
  <2> HIDE DEF total, part, l
  <2> QED BY <1>9, <1>11, <1>12, <2>1
<1>14. \A i \in 1 .. l : part(i) = Part(records, n, "params", i)
  BY DEF Part
<1> HIDE DEF total, part
<1> QED BY <1>8, <1>13, <1>14

\* The cells of a stream are as many as its records add.
LEMMA StreamLen ==
    ASSUME StateFacts, NEW type, NEW nth, NEW id, id = OwnId(script, nth),
           NEW total \in [0 .. Len(script) -> Nat], total[0] = 0,
           \A i \in 1 .. Len(script) : total[i] = total[i - 1] + Part(script, nth, type, i)
    PROVE  Len(OwnCells(script, wire, id, nth, type)[Len(wire)]) = total[Len(script)]
<1> DEFINE l == Len(script)
           own == OwnCells(script, wire, id, nth, type)
<1>1. /\ script \in Seq(Record) /\ wire \in Seq(Cell(script)) /\ l \in Nat
      /\ End(0) = 0 /\ End(l) = Len(wire) /\ Len(wire) \in Nat
      /\ \A i \in 0 .. l : End(i) \in Nat /\ End(i) <= Len(wire)
      /\ DOMAIN script = 1 .. l
  <2>1. \A i \in 0 .. l : i <= l /\ l \in 0 .. l
    BY EndFacts
  <2>2. \A i \in 0 .. l : End(i) \in Nat /\ End(i) <= End(l)
    BY <2>1, EndFacts
  <2> QED BY <2>2, EndFacts DEF StateFacts
<1>2. /\ total \in [0 .. l -> Nat] /\ total[0] = 0
      /\ \A i \in 1 .. l : total[i] = total[i - 1] + Part(script, nth, type, i)
  OBVIOUS
<1>3. OwnFacts(script, wire, id, nth, type, own)
  BY <1>1, OwnSteps
<1> HIDE DEF own
<1> DEFINE S == {i \in 0 .. l : Len(own[End(i)]) = total[i]}
<1>4. 0 \in S
  <2>1. own[0] = <<>> /\ 0 \in 0 .. l /\ Len(<<>>) = 0
    BY <1>1, <1>3 DEF OwnFacts
  <2> QED BY <1>1, <1>2, <2>1
<1>5. ASSUME NEW i \in 0 + 1 .. l, i - 1 \in S PROVE i \in S
  <2>1. i \in 1 .. l /\ i \in 0 .. l /\ i - 1 \in 0 .. l
    BY <1>1
  <2> DEFINE a == End(i - 1)
             b == End(i)
             d == script[i].pad
             n == script[i].len
  <2>2. /\ a \in Nat /\ b \in Nat /\ d \in Nat /\ n \in Nat /\ b = a + 2 + n + d
        /\ b <= Len(wire)
    BY <1>1, <2>1, EndFacts
  <2>3. \A p \in Nat : a < p /\ p <= b =>
           (IsOwnCell(script, id, nth, type, wire[p]) <=>
              /\ script[i].type = type /\ script[i].id = id
              /\ script[i].nth = nth
              /\ a + 2 < p /\ p <= b - d)
    <3>1. ASSUME NEW p \in Nat, a < p, p <= b
          PROVE  IsOwnCell(script, id, nth, type, wire[p]) <=>
                    /\ script[i].type = type /\ script[i].id = id
                    /\ script[i].nth = nth
                    /\ a + 2 < p /\ p <= b - d
      <4>1. wire[p].rec = i /\ wire[p].at = p - a
        BY <2>1, <3>1, CellFacts
      <4> HIDE DEF a, b, d, n
      <4>2. 2 < p - a /\ p - a <= 2 + n <=> a + 2 < p /\ p <= b - d
        BY <2>2, <3>1
      <4>3. IsOwnCell(script, id, nth, type, wire[p]) <=>
               /\ script[i].type = type /\ script[i].id = id /\ script[i].nth = nth
               /\ 2 < p - a /\ p - a <= 2 + n
        BY <4>1 DEF IsOwnCell, HeaderLen, n
      <4> QED BY <4>2, <4>3
    <3> QED BY <3>1
  <2>4. /\ i \in OwnRecords(script, nth) <=>
              script[i].id = id /\ script[i].nth = nth
    BY <1>1, <2>1 DEF OwnRecords
  <2>5. total[i] = total[i - 1] + Part(script, nth, type, i) /\ total[i - 1] \in Nat
    BY <1>2, <2>1
  <2>6. Len(own[a]) = total[i - 1]
    BY <1>5
  <2> HIDE DEF a, b, d, n
  <2>7. CASE ~(i \in OwnRecords(script, nth) /\ script[i].type = type)
    <3>1. \A p \in a + 1 .. b : ~IsOwnCell(script, id, nth, type, wire[p])
      <4>1. \A p \in a + 1 .. b : p \in Nat /\ a < p /\ p <= b
        BY <2>2
      <4> QED BY <2>3, <2>4, <2>7, <4>1
    <3>2. own[b] = own[a]
      <4>1. a \in Nat /\ b \in Nat /\ a <= b /\ b <= Len(wire) /\ wire \in Seq(Cell(script))
        BY <1>1, <2>2
      <4>2. OwnCells(script, wire, id, nth, type)[b]
               = OwnCells(script, wire, id, nth, type)[a]
        BY <3>1, <4>1, OwnSame
      <4> QED BY <4>2 DEF own
    <3>3. total[i] = total[i - 1] + 0
      BY <2>5, <2>7 DEF Part
    <3>4. Len(own[b]) = total[i]
      BY <2>5, <2>6, <3>2, <3>3
    <3> QED BY <2>1, <3>4 DEF b
  <2>8. CASE i \in OwnRecords(script, nth) /\ script[i].type = type
    <3> DEFINE u == a + 2
               v == b - d
    <3>1. u \in Nat /\ v \in Nat /\ a <= u /\ u <= v /\ v <= b /\ v - u = n
          /\ u <= Len(wire) /\ v <= Len(wire)
      BY <2>2
    <3>2. \A p \in a + 1 .. u : ~IsOwnCell(script, id, nth, type, wire[p])
      <4>1. \A p \in a + 1 .. u : p \in Nat /\ a < p /\ p <= b /\ ~(a + 2 < p)
        BY <2>2
      <4> QED BY <2>3, <4>1
    <3>3. \A p \in u + 1 .. v : IsOwnCell(script, id, nth, type, wire[p])
      <4>1. \A p \in u + 1 .. v : p \in Nat /\ a < p /\ p <= b /\ a + 2 < p /\ p <= b - d
        BY <2>2
      <4> QED BY <2>3, <2>4, <2>8, <4>1
    <3>4. \A p \in v + 1 .. b : ~IsOwnCell(script, id, nth, type, wire[p])
      <4>1. \A p \in v + 1 .. b : p \in Nat /\ a < p /\ p <= b /\ ~(p <= b - d)
        BY <2>2
      <4> QED BY <2>3, <4>1
    <3> HIDE DEF u, v
    <3>11. a \in Nat /\ b \in Nat /\ wire \in Seq(Cell(script)) /\ b <= Len(wire)
           /\ u \in Nat /\ v \in Nat /\ a <= u /\ v <= b /\ u <= Len(wire)
      BY <1>1, <2>2, <3>1
    <3>5. own[u] = own[a]
      <4>1. OwnCells(script, wire, id, nth, type)[u]
               = OwnCells(script, wire, id, nth, type)[a]
        BY <3>2, <3>11, OwnSame
      <4> QED BY <4>1 DEF own
    <3>6. own[v] = own[u] \o SubSeq(wire, u + 1, v)
      <4>1. Appended(script, wire, id, nth, type, u, v)
        BY <1>1, <3>1, <3>3, OwnMore
      <4> QED BY <4>1 DEF Appended, own
    <3>7. own[b] = own[v]
      <4>1. OwnCells(script, wire, id, nth, type)[b]
               = OwnCells(script, wire, id, nth, type)[v]
        BY <3>4, <3>11, OwnSame
      <4> QED BY <4>1 DEF own
    <3>8. Len(own[v]) = Len(own[u]) + n
      <4>1. own[u] \in Seq(Cell(script))
        <5>1. u \in 0 .. Len(wire)
          BY <1>1, <3>1
        <5> QED BY <1>3, <5>1 DEF OwnFacts
      <4>2. SubSeq(wire, u + 1, v) \in Seq(Cell(script)) /\ Len(SubSeq(wire, u + 1, v)) = v - u
        BY <3>1, SegmentProps
      <4>3. Len(own[u] \o SubSeq(wire, u + 1, v)) = Len(own[u]) + Len(SubSeq(wire, u + 1, v))
        BY <4>1, <4>2, ConcatProperties
      <4> QED BY <3>1, <3>6, <4>2, <4>3
    <3>9. total[i] = total[i - 1] + n
      BY <2>5, <2>8 DEF Part, n
    <3>10. Len(own[b]) = total[i]
      BY <2>5, <2>6, <3>5, <3>7, <3>8, <3>9
    <3> QED BY <2>1, <3>10 DEF b
  <2> QED BY <2>7, <2>8
<1>6. \A i \in 0 .. l : i \in S
  <2> HIDE DEF S, l
  <2> QED BY <1>1, <1>4, <1>5, Upward
<1>7. Len(own[Len(wire)]) = total[l]
  <2>1. l \in 0 .. l
    BY <1>1
  <2> QED BY <1>1, <1>6, <2>1
<1> QED BY <1>7 DEF own

------------------------------
(* FCGX_Accept_r, and the application.                                     *)

\* A new request begins without an error.
LEMMA ServingNewRequest ==
    ASSUME NewRequest, nest' = "none"
    PROVE  Serving'
<1>1. reader' = NewReader /\ pc' = "top"
  BY DEF NewRequest
<1>2. reader'.error = "none"
  BY <1>1 DEF NewReader
<1> QED BY <1>1, <1>2 DEF Serving, InService

\* FCGX_Accept_r goes on to FCGI_PARAMS, and reads it.
LEMMA ServingAccepts ==
    ASSUME IInv, Serving, AcceptReadsParams \/ ReadParamsTakes \/ CallFillBuffProc
    PROVE  Serving'
<1>1. /\ pc \in {"begin", "params", "app"}
      /\ pc' \in {"params", "top"}
      /\ UNCHANGED <<script, wire, last, excused, nest>>
      /\ call'.client = "app" \/ call.client # "app"
      /\ \/ reader' = SetReaderType(reader, "params")
         \/ reader' = [reader EXCEPT !.avail = 0]
         \/ reader' = reader
  <2>1. /\ pc = "begin" => call.client = "begin"
        /\ pc = "params" => call.client = "params"
    BY DEF IInv, Phases
  <2>2. CASE AcceptReadsParams
    BY <2>1, <2>2 DEF AcceptReadsParams, Client, server, clients
  <2>3. CASE ReadParamsTakes
    BY <2>1, <2>3 DEF ReadParamsTakes, server
  <2>4. CASE CallFillBuffProc
    BY <2>1, <2>4 DEF CallFillBuffProc, server, clients
  <2> QED BY <2>2, <2>3, <2>4
<1>2. nest = "none" /\ reader \in Readers(script)
  BY <1>1 DEF IInv, Types, Heads
<1>3. reader'.error = reader.error
  BY <1>1, <1>2 DEF Readers, SetReaderType
<1>4. InService => InService'
  BY <1>1, <1>2, <1>3 DEF InService
<1> QED BY <1>1, <1>4 DEF Serving, Good, HungUp

\* Then the request is the application's.
LEMMA ServingApp ==
    ASSUME IInv, AcceptReturns \/ GetStrTakes \/ GetStrReturnsShort
                   \/ (\E n \in Chunks : GetStr(n)) \/ StartFilterData
    PROVE  Serving'
<1>1. call'.client = "app"
  <2>1. pc = "app" => call.client = "app"
    BY DEF IInv, Phases
  <2>2. call \in [client : {"begin", "params", "app"}, want : Nat]
    BY DEF IInv, Types
  <2>3. CASE AcceptReturns
    BY <2>3 DEF AcceptReturns, Client
  <2>4. CASE GetStrTakes \/ GetStrReturnsShort \/ \E n \in Chunks : GetStr(n)
    <3>1. pc = "app" /\ \E n : call' = [call EXCEPT !.want = n]
      BY <2>4 DEF GetStrTakes, GetStrReturnsShort, GetStr
    <3> QED BY <2>1, <2>2, <3>1
  <2>5. CASE StartFilterData
    BY <2>1, <2>5 DEF StartFilterData
  <2> QED BY <2>3, <2>4, <2>5
<1> QED BY <1>1 DEF Serving

\* What ends a good server's being one.
LEMMA ServingFails ==
    ASSUME IInv, HangUp \/ ReadInterrupted
    PROVE  Serving'
<1>1. CASE HangUp
  <2>1. last' \in buffStop .. Come /\ wire' = wire
    BY <1>1 DEF HangUp
  <2>2. Come \in Int /\ Come <= Len(wire) /\ Len(wire) \in Nat /\ buffStop \in Nat
    BY ComeProps, HereFacts DEF IInv, StateFacts
  <2>3. last' <= Len(wire)
    BY <2>1, <2>2
  <2> QED BY <2>1, <2>3 DEF Serving, Good, HungUp
<1>2. CASE ReadInterrupted
  BY <1>2 DEF ReadInterrupted, Serving, Good
<1> QED BY <1>1, <1>2

\* Every step keeps a good server serving.
LEMMA ServingNext ==
    ASSUME IInv, Deep, Serving, [Next]_vars
    PROVE  Serving'
<1>1. CASE FillBuffProc
  <2>1. CASE Read \/ ReadNothing BY <2>1, ServingRead
  <2>2. CASE ReadFails BY <2>2, ServingReadFails
  <2>3. CASE DeliverContent BY <2>3, ServingDeliverContent
  <2>4. CASE SkipContent BY <2>4, ServingSkipContent
  <2>5. CASE SkipPadding BY <2>5, ServingSkipPadding
  <2>6. CASE EndOfRecord BY <2>6, ServingEndOfRecord
  <2>7. CASE ReadHeader BY <2>7, ServingReadHeader
  <2>8. CASE UnsupportedVersion BY <2>8, ServingUnsupportedVersion
  <2>9. CASE StreamRecord BY <2>9, ServingStreamRecord
  <2>10. CASE BeginRefused BY <2>10, ServingBeginRefused
  <2>11. CASE UnknownManagement BY <2>11, ServingUnknownManagement
  <2>12. CASE Nest BY <2>12, ServingNest
  <2>13. CASE NestedTakes \/ NestedFills BY <2>13, ServingNested
  <2>14. CASE BeginReads BY <2>14, ServingBeginReads
  <2>15. CASE ValuesRead BY <2>15, ServingValuesRead
  <2> QED BY <1>1, <2>1, <2>2, <2>3, <2>4, <2>5, <2>6, <2>7, <2>8, <2>9, <2>10, <2>11,
             <2>12, <2>13, <2>14, <2>15 DEF FillBuffProc
<1>2. CASE AcceptRetries \/ Finish
  <2>1. NewRequest /\ nest' = nest /\ pc \in {"begin", "params", "app"}
    BY <1>2 DEF AcceptRetries, GivesUp, Finish
  <2>2. nest = "none"
    BY <2>1 DEF IInv, Heads
  <2> QED BY <2>1, <2>2, ServingNewRequest
<1>3. CASE AcceptReadsParams \/ ReadParamsTakes \/ CallFillBuffProc
  BY <1>3, ServingAccepts
<1>4. CASE AcceptReturns \/ GetStrTakes \/ GetStrReturnsShort
              \/ (\E n \in Chunks : GetStr(n)) \/ StartFilterData
  BY <1>4, ServingApp
<1>5. CASE HangUp \/ ReadInterrupted
  BY <1>5, ServingFails
<1>6. CASE UNCHANGED vars
  <2>1. UNCHANGED <<script, wire, last, excused, reader, request, pc, call, nest>>
    BY <1>6 DEF vars, server, clients
  <2> QED BY <2>1 DEF Serving, InService, Good, HungUp
<1> QED BY <1>1, <1>2, <1>3, <1>4, <1>5, <1>6 DEF Next, Library

\* The initial states.
LEMMA ServingInit ==
    ASSUME Init
    PROVE  Serving
<1>1. reader = NewReader /\ pc = "top" /\ nest = "none"
  BY DEF Init
<1>2. reader.error = "none"
  BY <1>1 DEF NewReader
<1> QED BY <1>1, <1>2 DEF Serving, InService

\* The environment of a good server has whole parameters, and its role is known.
LEMMA ServedIfGood ==
    ASSUME IInv, Deep, Serving
    PROVE  GoodServerIsServed
<1>1. SUFFICES ASSUME WellFormed(script), GivesUp, ~HungUp, excused = {}
      PROVE  FALSE
  BY DEF GoodServerIsServed
<1>2. (pc = "begin" /\ call.client = "begin") \/ (pc = "params" /\ call.client = "params")
  <2>1. pc \in {"begin", "params"}
    BY <1>1 DEF GivesUp
  <2>2. pc \in {"begin", "params"} => call.client = pc
    BY DEF IInv, Phases
  <2> QED BY <2>1, <2>2
<1>3. Good /\ InService /\ Regular
  BY <1>1, <1>2 DEF Serving, Good, Regular
<1>4. StateFacts /\ script \in Seq(Record)
  BY HereFacts DEF StateFacts
<1>5. CASE pc = "begin"
  <2>1. request.begun
    BY <1>3, <1>5 DEF InService
  <2>2. /\ request.role = script[OwnBegin(script, served + 1)].role
        /\ served + 1 \in Requests(script)
    BY <1>3, <2>1 DEF Deep, Begun
  <2>3. OwnBegin(script, served + 1) \in 1 .. Len(script)
    BY <1>1, <1>4, <2>2, BeginProps, OwnProps
  <2>4. request.role # "bad"
    BY <1>1, <1>4, <2>2, <2>3, WellFormedProps
  <2> QED BY <1>1, <1>5, <2>1, <2>4 DEF GivesUp
<1>6. CASE pc = "params"
  <2>1. /\ reader.isClosed /\ Len(params) % 2 # 0 /\ request.begun
        /\ reader.type = "params" /\ nest = "none"
    BY <1>1, <1>2, <1>6 DEF GivesUp, IInv, Callers, Heads
  <2>2. \A type \in Streams : type = reader.type => Got(type) = Own(type)
    BY <1>3, <2>1, ClosedFacts DEF Closed, InService
  <2>3. params = Own("params")
    BY <2>1, <2>2 DEF Streams, Got
  <2>4. /\ served + 1 \in Requests(script)
        /\ request.id = OwnId(script, served + 1)
    BY <1>3, <2>1 DEF Deep, Begun
  <2>5. PICK total :
           /\ EnvLen(script, served + 1) = total[Len(script)]
           /\ total \in [0 .. Len(script) -> Nat] /\ total[0] = 0
           /\ \A i \in 1 .. Len(script) :
                 total[i] = total[i - 1] + Part(script, served + 1, "params", i)
    BY <1>4, EnvLenSteps
  <2>6. Len(OwnCells(script, wire, request.id, served + 1, "params")[Len(wire)])
           = total[Len(script)]
    BY <1>4, <2>4, <2>5, StreamLen
  <2>7. Len(params) = EnvLen(script, served + 1)
    <3>1. Own("params") = OwnCells(script, wire, request.id, served + 1, "params")[Len(wire)]
      BY OwnUptoIs DEF Own
    <3> QED BY <2>3, <2>5, <2>6, <3>1
  <2>8. EnvLen(script, served + 1) % 2 = 0
    BY <1>1, <2>4 DEF WellFormed
  <2> QED BY <2>1, <2>7, <2>8
<1> QED BY <1>2, <1>5, <1>6

\* A good server's request is not given up.
THEOREM GoodServerAlwaysServed == Spec => []GoodServerIsServed
<1>1. Init => IInv /\ Deep /\ Serving
  BY DeepInit, ServingInit
<1>2. (IInv /\ Deep /\ Serving) /\ [Next]_vars => (IInv /\ Deep /\ Serving)'
  BY TypesNext, DeepNext, ServingNext
<1>3. IInv /\ Deep /\ Serving => GoodServerIsServed
  BY ServedIfGood
<1> QED BY <1>1, <1>2, <1>3, PTL DEF Spec

------------------------------
(* The answers.                                                            *)

Sent(records) == Seq([type : {"cantMpx", "unknownType", "result"}, rec : DOMAIN records])

\* AnswersUpto adds the answers one by one.
LEMMA AnswersSteps ==
    ASSUME NEW records \in Seq(Record)
    PROVE  /\ AnswersUpto(records, 0) = <<>>
           /\ \A i \in 1 .. Len(records) :
                 AnswersUpto(records, i) = WithAnswer(records, i, AnswersUpto(records, i - 1))
<1> DEFINE l == Len(records)
           F(f) == [i \in 0 .. Len(records) |->
                       IF i = 0 THEN <<>> ELSE WithAnswer(records, i, f[i - 1])]
           S == Sent(records)
           step == [x \in S \X (1 .. l) |-> WithAnswer(records, x[2], x[1])]
           sent == CHOOSE f : f = F(f)
<1>1. l \in Nat /\ DOMAIN records = 1 .. l
  BY LenProperties
<1>2. ASSUME NEW i \in 1 .. l, NEW s \in S
      PROVE  WithAnswer(records, i, s) \in S
  BY <1>1, AppendProperties DEF WithAnswer, Sent
<1>3. step \in [S \X (1 .. l) -> S]
  <2>1. \A x \in S \X (1 .. l) : WithAnswer(records, x[2], x[1]) \in S
    <3> HIDE DEF l, S
    <3> QED BY <1>2
  <2> HIDE DEF l, S
  <2> QED BY <2>1
<1>4. <<>> \in S
  BY EmptySeq DEF Sent
<1>5. PICK g : g \in [0 .. l -> S] /\ g[0] = <<>> /\ \A k \in 1 .. l : g[k] = step[<<g[k - 1], k>>]
  <2> HIDE DEF l, step, S
  <2>1. \E g : IsIteration(g, l, S, <<>>, step)
    BY <1>1, <1>3, <1>4, StepsProps
  <2> QED BY <2>1 DEF IsIteration
<1>6. \A k \in 1 .. l : g[k] = WithAnswer(records, k, g[k - 1])
  <2>1. ASSUME NEW k \in 1 .. l PROVE g[k] = WithAnswer(records, k, g[k - 1])
    <3>1. k - 1 \in 0 .. l
      BY <1>1
    <3>2. g[k - 1] \in S
      <4> HIDE DEF l, S
      <4> QED BY <1>5, <3>1
    <3>3. step[<<g[k - 1], k>>] = WithAnswer(records, k, g[k - 1])
      <4> HIDE DEF l, S
      <4> QED BY <3>2
    <3> HIDE DEF step, l, S
    <3> QED BY <1>5, <3>3
  <2> HIDE DEF step, l, S
  <2> QED BY <2>1
<1>7. g = F(g)
  <2>1. \A k \in 0 .. l : g[k] = IF k = 0 THEN <<>> ELSE WithAnswer(records, k, g[k - 1])
    BY <1>1, <1>5, <1>6
  <2>2. g = [k \in 0 .. l |-> g[k]]
    <3> HIDE DEF l, S
    <3> QED BY <1>5
  <2> HIDE DEF S
  <2> QED BY <2>1, <2>2
<1>8. sent = F(sent)
  <2> HIDE DEF F
  <2> QED BY <1>7
<1>9. \A n : AnswersUpto(records, n) = sent[n]
  BY DEF AnswersUpto
<1>10. 0 \in 0 .. l /\ \A i \in 1 .. l : i \in 0 .. l /\ i # 0
  BY <1>1
<1>11. \A i \in 0 .. l : sent[i] = IF i = 0 THEN <<>> ELSE WithAnswer(records, i, sent[i - 1])
  <2> HIDE DEF sent
  <2> QED BY <1>8
<1> HIDE DEF sent, l, F, S, step
<1>12. sent[0] = <<>> /\ \A i \in 1 .. l : sent[i] = WithAnswer(records, i, sent[i - 1])
  BY <1>10, <1>11
<1> QED BY <1>9, <1>12 DEF l

\* Of a record that is read by a nested call, the answer is still to come.
Answering ==
    Regular /\ reader.error = "none" =>
        \A i \in 0 .. Len(script) :
            Boundary = End(i) =>
                replies = AnswersUpto(script, IF nest = "none" THEN i ELSE i - 1)

\* Most steps do not go on to another record.
LEMMA AnsweringSame ==
    ASSUME Answering, UNCHANGED <<script, nest, replies>>, excused \subseteq excused',
           Boundary' = Boundary, reader'.error = "none" => reader.error = "none"
    PROVE  Answering'
<1>1. \A i : End(i)' = End(i)
  BY DEF End
<1>2. Regular' => Regular
  BY DEF Regular
<1> QED BY <1>1, <1>2 DEF Answering

\* Steps within the record.
LEMMA AnsweringStays ==
    ASSUME Answering, Stays, replies' = replies
    PROVE  Answering'
BY AnsweringSame DEF Stays

\* Steps of the callers, and read(2).
LEMMA AnsweringQuiet ==
    ASSUME Answering, UNCHANGED <<script, nest, replies, excused, reader, rdNext>>
    PROVE  Answering'
<1>1. Boundary' = Boundary
  BY Zenon DEF Boundary, Pos, Ahead, Rest
<1> QED BY <1>1, AnsweringSame

\* After an error the property says nothing.
LEMMA AnsweringFails ==
    ASSUME reader'.error # "none"
    PROVE  Answering'
BY DEF Answering

\* The records end at different cells.
EndsApart ==
    /\ StateFacts /\ End(0) = 0
    /\ \A i, j \in 0 .. Len(script) : End(i) = End(j) => i = j

\* That is so ...
LEMMA EndsDiffer == IInv => EndsApart
<1>1. SUFFICES ASSUME IInv PROVE EndsApart
  OBVIOUS
<1>2. StateFacts
  BY <1>1, HereFacts
<1>3. ASSUME NEW i \in 0 .. Len(script), NEW j \in 0 .. Len(script), End(i) = End(j)
      PROVE  i = j
  <2>1. /\ End(i) \in Nat
        /\ i < j => End(i) + 2 <= End(j)
        /\ j < i => End(j) + 2 <= End(i)
    BY <1>2, EndFacts
  <2>2. i < j \/ j < i \/ i = j
    BY <1>2 DEF StateFacts
  <2> QED BY <1>3, <2>1, <2>2
<1>4. End(0) = 0
  BY <1>2, EndFacts
<1> QED BY <1>2, <1>3, <1>4 DEF EndsApart

\* ... also after a step.
LEMMA EndsDifferNext == IInv' => EndsApart'
BY EndsDiffer, PTL

------------------------------
(* The answers, at a header and behind a nested call.                      *)

\* The record has its answer.
Answered1 == replies' = WithAnswer(script, Here, replies)

\* Behind the ith record, if it has its answer or a nested call reads it.
LEMMA AnsweringAt ==
    ASSUME IInv, UNCHANGED script, NEW i \in 1 .. Len(script), Boundary' = End(i),
           Regular' /\ reader'.error = "none" =>
               replies' = AnswersUpto(script, IF nest' = "none" THEN i ELSE i - 1)
    PROVE  Answering'
<1>1. SUFFICES ASSUME Regular', reader'.error = "none", NEW j \in 0 .. Len(script'),
                      Boundary' = End(j)'
               PROVE  replies' = AnswersUpto(script', IF nest' = "none" THEN j ELSE j - 1)
  BY DEF Answering
<1>2. j = i
  <2>1. End(j)' = End(j) /\ i \in 0 .. Len(script) /\ j \in 0 .. Len(script)
    BY <1>1 DEF End
  <2> QED BY <1>1, <2>1, EndsDiffer DEF EndsApart
<1> QED BY <1>1, <1>2

\* FillBuffProc goes on to the record of the header, or FCGX_GetStr of a nested call.
LEMMA AnsweringHere ==
    ASSUME IInv, Answering, pc = "process", IsHeader(reader.head),
           UNCHANGED <<script, rdNext, excused>>,
           reader'.avail = 0, reader'.contentLen = Header.len, reader'.paddingLen = Header.pad,
           Ahead' = 0, nest' # "none" => reader'.head = reader.head,
           reader'.error = "none" => reader.error = "none",
           Regular => IF nest' = "none" THEN Answered1 ELSE replies' = replies
    PROVE  Answering'
<1>1. /\ Here \in 1 .. Len(script) /\ Here \in 0 .. Len(script) /\ Here - 1 \in 0 .. Len(script)
      /\ Pos = End(Here - 1)
  BY HereIs
<1>2. Boundary' = End(Here)
  <2>1. PICK i \in 0 .. Len(script) : i = Here
    BY <1>1
  <2> QED BY <2>1, IntoAt
<1>3. nest = "none" /\ Boundary = End(Here - 1)
  <2>1. nest = "none"
    BY DEF IInv, Heads
  <2>2. Boundary = Pos
    <3>1. /\ Rest = 0 /\ reader.paddingLen = 0 /\ Pos \in Nat
          /\ Boundary = Pos + Rest + reader.paddingLen
      BY HereFacts
    <3> QED BY <3>1
  <2> QED BY <1>1, <2>1, <2>2
<1>4. ASSUME Regular', reader'.error = "none"
      PROVE  replies' = AnswersUpto(script, IF nest' = "none" THEN Here ELSE Here - 1)
  <2>1. Regular
    BY <1>4 DEF Regular
  <2>2. replies = AnswersUpto(script, Here - 1)
    BY <1>1, <1>3, <1>4, <2>1 DEF Answering
  <2>3. AnswersUpto(script, Here) = WithAnswer(script, Here, AnswersUpto(script, Here - 1))
    BY <1>1, HereFacts, AnswersSteps DEF StateFacts
  <2> QED BY <2>1, <2>2, <2>3 DEF Answered1
<1> QED BY <1>1, <1>2, <1>4, AnsweringAt

\* The switch goes on to it.
LEMMA AnsweringSwitch ==
    ASSUME IInv, Answering, pc = "process", IsHeader(reader.head),
           UNCHANGED <<script, rdNext, excused, nest>>,
           NEW status \in {"STREAM", "SKIP", "MGMT", "protocol", "version", "os"},
           Switch(WithLengths, status),
           Regular /\ status \in {"STREAM", "SKIP", "MGMT"} => Answered1
    PROVE  Answering'
<1>1. /\ WithLengths \in Readers(script) /\ WithLengths.avail = 0
      /\ WithLengths.contentLen = Header.len /\ WithLengths.paddingLen = Header.pad
      /\ WithLengths.error = reader.error
  BY WithLengthsProps
<1>2. /\ reader'.avail = 0 /\ reader'.contentLen = Header.len /\ reader'.paddingLen = Header.pad
      /\ reader'.head = <<>>
      /\ reader'.error = "none" => reader.error = "none" /\ status \in {"STREAM", "SKIP", "MGMT"}
  BY <1>1, SwitchProps
<1>3. nest' = "none" /\ Ahead' = 0
  <2>1. nest = "none" /\ Len(<<>>) = 0
    BY WithLengthsProps
  <2> QED BY <1>2, <2>1 DEF Ahead
<1>4. CASE status \in {"STREAM", "SKIP", "MGMT"}
  BY <1>2, <1>3, <1>4, AnsweringHere
<1>5. CASE ~(status \in {"STREAM", "SKIP", "MGMT"})
  BY <1>2, <1>5, AnsweringFails
<1> QED BY <1>4, <1>5

\* ProcessHeader: a record of a stream has no answer.
LEMMA AnsweringStreamRecord ==
    ASSUME IInv, Answering, StreamRecord
    PROVE  Answering'
<1>1. /\ pc = "process" /\ IsHeader(reader.head) /\ Header.id # 0 /\ Header.type # "begin"
      /\ UNCHANGED <<script, rdNext, excused, nest, replies>>
  BY DEF StreamRecord, Processing, server, clients
<1>2. PICK status \in {"SKIP", "protocol", "STREAM"} : Switch(WithLengths, status)
  BY DEF StreamRecord
<1>3. Answered1
  BY <1>1, HereIs DEF Answered1, WithAnswer
<1> QED BY <1>1, <1>2, <1>3, AnsweringSwitch

\* ProcessHeader: a second BEGIN_REQUEST has FCGI_CANT_MPX_CONN.
LEMMA AnsweringBeginRefused ==
    ASSUME IInv, Deep, Answering, BeginRefused
    PROVE  Answering'
<1>1. /\ pc = "process" /\ IsHeader(reader.head) /\ Header.type = "begin"
      /\ UNCHANGED <<script, rdNext, excused, nest>>
      /\ IF Header.id = 0 \/ Header.len # BodyLen
         THEN Switch(WithLengths, "protocol") /\ UNCHANGED replies
         ELSE request.begun /\ Reply("cantMpx", WithLengths, "SKIP")
  BY DEF BeginRefused, Processing, server, clients
<1>2. CASE Switch(WithLengths, "protocol")
  BY <1>1, <1>2, AnsweringSwitch
<1>3. CASE Switch(WithLengths, "os")
  BY <1>1, <1>3, AnsweringSwitch
<1>4. CASE /\ request.begun /\ Switch(WithLengths, "SKIP")
           /\ replies' = Append(replies, [type |-> "cantMpx", rec |-> WithLengths.head[1].rec])
  <2>1. WithLengths.head = reader.head /\ Header = script[Here]
    BY <1>1, WithLengthsProps, HereIs
  <2>2. ASSUME Regular
        PROVE  Answered1
    <3>1. script[Here].nth = served + 1
      BY <1>1, <1>4, <2>2, HereBegun
    <3>2. script[Here].id # OwnId(script, served + 1)
      BY <1>1, <1>4, <2>1, <2>2, BeginIsAnothers
    <3> QED BY <1>1, <1>4, <2>1, <3>1, <3>2 DEF Answered1, WithAnswer, Here
  <2> QED BY <1>1, <1>4, <2>2, AnsweringSwitch
<1> QED BY <1>1, <1>2, <1>3, <1>4 DEF Reply

\* ProcessManagementRecord: an unknown type has FCGI_UNKNOWN_TYPE.
LEMMA AnsweringUnknownManagement ==
    ASSUME IInv, Answering, UnknownManagement
    PROVE  Answering'
<1>1. /\ pc = "process" /\ IsHeader(reader.head) /\ Header.id = 0
      /\ Header.type \in {"params", "stdin", "data", "unknown"}
      /\ UNCHANGED <<script, rdNext, excused, nest>>
      /\ Reply("unknownType", WithLengths, "MGMT")
  BY DEF UnknownManagement, Processing, server, clients
<1>2. CASE Switch(WithLengths, "os")
  BY <1>1, <1>2, AnsweringSwitch
<1>3. CASE /\ Switch(WithLengths, "MGMT")
           /\ replies' = Append(replies, [type |-> "unknownType", rec |-> WithLengths.head[1].rec])
  <2>1. WithLengths.head = reader.head /\ Header = script[Here] /\ Here \in 1 .. Len(script)
    BY <1>1, WithLengthsProps, HereIs
  <2>2. ASSUME Regular
        PROVE  Answered1
    <3>1. script[Here].type = "unknown"
      BY <1>1, <2>1, <2>2, HereFacts, WellFormedProps DEF StateFacts, Regular
    <3> QED BY <1>1, <1>3, <2>1, <3>1 DEF Answered1, WithAnswer, Here
  <2> QED BY <1>1, <1>3, <2>2, AnsweringSwitch
<1> QED BY <1>1, <1>2, <1>3 DEF Reply

\* ProcessHeader calls for a body or for pairs.
LEMMA AnsweringNest ==
    ASSUME IInv, Answering, Nest
    PROVE  Answering'
<1>1. /\ pc = "process" /\ IsHeader(reader.head) /\ reader' = WithLengths
      /\ UNCHANGED <<script, rdNext, excused, replies>> /\ nest' # "none"
  BY DEF Nest, Processing, server, clients
<1>2. /\ WithLengths.avail = 0 /\ WithLengths.head = reader.head
      /\ WithLengths.contentLen = Header.len /\ WithLengths.paddingLen = Header.pad
      /\ WithLengths.error = reader.error
  BY <1>1, WithLengthsProps
<1>3. Ahead' = 0
  BY <1>1 DEF Ahead
<1> QED BY <1>1, <1>2, <1>3, AnsweringHere

\* A nested call has read its record.
LEMMA AnsweringNested ==
    ASSUME IInv, Deep, Answering, pc = "nested", reader.avail = 0,
           UNCHANGED <<script, rdNext, excused>>, nest' = "none",
           reader'.head = <<>>, reader'.avail = 0, reader'.contentLen = reader.contentLen,
           reader'.paddingLen = reader.paddingLen,
           reader'.error = "none" => reader.error = "none",
           ASSUME NEW i \in 1 .. Len(script), i = Here, Regular, Placed(i), Header = script[i]
           PROVE  Answered1
    PROVE  Answering'
<1>1. SUFFICES ASSUME Regular', reader'.error = "none" PROVE Answering'
  BY DEF Answering
<1>2. Regular /\ reader.error = "none"
  BY <1>1 DEF Regular
<1>3. PICK i \in 0 .. Len(script) : Placed(i)
  BY <1>2 DEF Deep, Aligned
<1>4. /\ StateFacts /\ nest # "none" /\ rdNext \in Nat /\ Rest = reader.contentLen
      /\ reader.contentLen \in Nat /\ reader.paddingLen \in Nat
      /\ Boundary = rdNext + reader.contentLen + reader.paddingLen
      /\ i = Here /\ Boundary = End(i)
  BY <1>3, NestedFacts DEF Placed
<1>5. Boundary' = Boundary
  <2>1. Ahead' = 0
    <3>1. Len(<<>>) = 0
      OBVIOUS
    <3> QED BY <3>1 DEF Ahead
  <2>2. /\ Boundary' = Pos' + Rest' + reader'.paddingLen
        /\ Pos' = rdNext' - Ahead' /\ Rest' = reader'.avail + reader'.contentLen
    BY DEF Boundary, Pos, Rest
  <2> QED BY <1>4, <2>1, <2>2
<1>6. i \in 1 .. Len(script) /\ Header = script[i]
  BY <1>4, NestedHere
<1>7. Answered1
  BY <1>2, <1>3, <1>4, <1>6
<1>8. replies' = AnswersUpto(script, i)
  <2>1. replies = AnswersUpto(script, i - 1)
    BY <1>2, <1>4 DEF Answering
  <2>2. AnswersUpto(script, i) = WithAnswer(script, i, AnswersUpto(script, i - 1))
    BY <1>4, <1>6, AnswersSteps DEF StateFacts
  <2> QED BY <1>4, <1>7, <2>1, <2>2 DEF Answered1
<1> QED BY <1>4, <1>5, <1>6, <1>8, AnsweringAt

\* ProcessBeginRecord has read its body: the request's begin record has no answer.
LEMMA AnsweringBeginReads ==
    ASSUME IInv, Deep, Answering, BeginReads
    PROVE  Answering'
<1>1. /\ pc = "nested" /\ nest = "body" /\ reader.avail = 0 /\ nest' = "none"
      /\ UNCHANGED <<script, rdNext, excused, replies>>
      /\ Switch(reader, "protocol") \/ (~reader.isClosed /\ Switch(reader, "BEGIN"))
  BY DEF BeginReads, server, clients
<1>2. reader \in Readers(script) /\ ~request.begun
  BY <1>1 DEF IInv, Types, Callers
<1>3. CASE Switch(reader, "protocol")
  BY <1>1, <1>2, <1>3, SwitchProps, AnsweringFails
<1>4. CASE ~reader.isClosed /\ Switch(reader, "BEGIN")
  <2>1. /\ reader'.head = <<>> /\ reader'.avail = 0 /\ reader'.contentLen = reader.contentLen
        /\ reader'.paddingLen = reader.paddingLen
        /\ reader'.error = "none" => reader.error = "none"
    BY <1>1, <1>2, <1>4, SwitchProps
  <2>2. ASSUME NEW i \in 1 .. Len(script), i = Here, Regular, Placed(i), Header = script[i]
        PROVE  Answered1
    <3>1. Mine(i) /\ script[i].type = "begin"
      BY <1>1, <1>2, <2>2 DEF Placed, Before, InFlight
    <3>2. script[i].nth = served + 1 /\ script[i].id = OwnId(script, served + 1)
      BY <3>1 DEF Mine, OwnRecords
    <3>3. script[i].id # 0
      <4>1. served + 1 \in Requests(script) /\ script \in Seq(Record)
        BY <3>2, HereFacts DEF Requests, StateFacts
      <4> QED BY <2>2, <3>2, <4>1, BeginProps DEF Regular
    <3> QED BY <1>1, <2>2, <3>1, <3>2, <3>3 DEF Answered1, WithAnswer
  <2> QED BY <1>1, <2>1, <2>2, AnsweringNested
<1> QED BY <1>1, <1>3, <1>4

\* ProcessManagementRecord has read its pairs, and sends FCGI_GET_VALUES_RESULT.
LEMMA AnsweringValuesRead ==
    ASSUME IInv, Deep, Answering, ValuesRead
    PROVE  Answering'
<1>1. /\ pc = "nested" /\ nest = "values" /\ reader.avail = 0 /\ nest' = "none"
      /\ UNCHANGED <<script, rdNext, excused>>
      /\ \/ Switch(reader, "protocol") \/ Switch(reader, "os")
         \/ /\ Switch(reader, "MGMT")
            /\ replies' = Append(replies, [type |-> "result", rec |-> reader.head[1].rec])
  BY DEF ValuesRead, Reply, server, clients
<1>2. reader \in Readers(script)
  BY DEF IInv, Types
<1>3. CASE Switch(reader, "protocol") \/ Switch(reader, "os")
  BY <1>1, <1>2, <1>3, SwitchProps, AnsweringFails
<1>4. CASE /\ Switch(reader, "MGMT")
           /\ replies' = Append(replies, [type |-> "result", rec |-> reader.head[1].rec])
  <2>1. /\ reader'.head = <<>> /\ reader'.avail = 0 /\ reader'.contentLen = reader.contentLen
        /\ reader'.paddingLen = reader.paddingLen
        /\ reader'.error = "none" => reader.error = "none"
    BY <1>1, <1>2, <1>4, SwitchProps
  <2>2. ASSUME NEW i \in 1 .. Len(script), i = Here, Regular, Placed(i), Header = script[i]
        PROVE  Answered1
    <3>1. script[i].type = "values" /\ script[i].id = 0
      BY <1>1, <2>2 DEF Placed, InFlight
    <3> QED BY <1>4, <2>2, <3>1 DEF Answered1, WithAnswer, Here
  <2> QED BY <1>1, <2>1, <2>2, AnsweringNested
<1> QED BY <1>1, <1>3, <1>4

\* The next stream of the request.
LEMMA AnsweringSets ==
    ASSUME IInv, Deep, Answering, request.begun, pc \in {"begin", "params", "app"},
           reader.type = "none" \/ Closed, NEW type,
           reader' = SetReaderType(reader, type),
           UNCHANGED <<script, rdNext, nest, replies, excused>>
    PROVE  Answering'
<1>1. SUFFICES ASSUME Regular', reader'.error = "none" PROVE Answering'
  BY DEF Answering
<1>2. /\ reader'.contentLen = 0 /\ reader'.paddingLen = 0 /\ reader'.avail = 0
      /\ reader'.error = reader.error /\ reader'.head = reader.head
  BY DEF SetReaderType, IInv, Types, Readers
<1>3. Regular
  BY <1>1 DEF Regular
<1>4. Boundary = rdNext /\ rdNext \in Nat /\ Ahead = 0
  BY <1>1, <1>2, <1>3, ClosedFacts, HereFacts DEF StateFacts
<1>5. Boundary' = Boundary
  <2>1. Ahead' = Ahead
    BY <1>2, Zenon DEF Ahead
  <2>2. /\ Boundary' = Pos' + Rest' + reader'.paddingLen
        /\ Pos' = rdNext' - Ahead' /\ Rest' = reader'.avail + reader'.contentLen
    BY DEF Boundary, Pos, Rest
  <2> QED BY <1>2, <1>4, <2>1, <2>2
<1> QED BY <1>2, <1>5, AnsweringSame

------------------------------
(* The answers on a connection.                                            *)

\* FCGX_Accept_r and FCGX_StartFilterData go on to the next stream.
LEMMA AnsweringAccepts ==
    ASSUME IInv, Deep, Answering, AcceptReadsParams \/ AcceptReturns \/ StartFilterData
    PROVE  Answering'
<1>1. /\ pc \in {"begin", "params", "app"} /\ nest = "none"
      /\ UNCHANGED <<script, rdNext, nest, replies, excused>>
      /\ pc = "begin" => request.begun /\ reader.type = "none"
      /\ pc # "begin" => request.begun
  <2>1. pc \in {"begin", "params", "app"} /\ (pc = "begin" => request.begun)
    BY DEF AcceptReadsParams, AcceptReturns, StartFilterData
  <2>2. UNCHANGED <<script, rdNext, nest, replies, excused>>
    BY DEF AcceptReadsParams, AcceptReturns, StartFilterData, server, clients
  <2> QED BY <2>1, <2>2 DEF IInv, Phases, Callers, Heads
<1>2. CASE reader' = SetError(reader, "callSeq")
  <2>1. reader \in Readers(script)
    BY DEF IInv, Types
  <2>2. reader'.error # "none"
    BY <1>2, <2>1 DEF SetError, Readers
  <2> QED BY <2>2, AnsweringFails
<1>3. ASSUME NEW type, reader' = SetReaderType(reader, type), pc = "begin" \/ reader.isClosed
      PROVE  Answering'
  BY <1>1, <1>3, AnsweringSets DEF Closed
<1>4. \/ reader' = SetError(reader, "callSeq")
      \/ \E type : reader' = SetReaderType(reader, type) /\ (pc = "begin" \/ reader.isClosed)
  BY DEF AcceptReadsParams, AcceptReturns, StartFilterData
<1> QED BY <1>2, <1>3, <1>4

\* A new request, where the next record begins.
LEMMA AnsweringNew ==
    ASSUME IInv', NewRequest, nest' = "none", NEW i \in 0 .. Len(script'),
           Regular' => rdNext' = End(i)' /\ replies' = AnswersUpto(script', i)
    PROVE  Answering'
<1>1. SUFFICES ASSUME Regular', NEW j \in 0 .. Len(script'), Boundary' = End(j)'
               PROVE  replies' = AnswersUpto(script', j)
  BY DEF Answering
<1>2. StateFacts' /\ EndsApart'
  BY EndsDifferNext DEF EndsApart
<1>3. Boundary' = rdNext'
  <2>1. /\ reader'.avail = 0 /\ reader'.contentLen = 0 /\ reader'.paddingLen = 0
        /\ Len(reader'.head) = 0
    BY DEF NewRequest, NewReader
  <2>2. /\ Boundary' = (rdNext' - Ahead') + (reader'.avail + reader'.contentLen)
                           + reader'.paddingLen
    BY DEF Boundary, Pos, Rest
  <2>3. Ahead' = 0 /\ rdNext' \in Nat
    BY <1>2, <2>1 DEF Ahead, StateFacts
  <2> DEFINE b == Boundary'
             n == rdNext'
  <2>4. n \in Nat /\ b = (n - 0) + (0 + 0) + 0
    BY <2>1, <2>2, <2>3
  <2> HIDE DEF b, n
  <2>5. b = n
    BY <2>4
  <2> QED BY <2>5 DEF b, n
<1>4. End(i)' = End(j)'
  BY <1>1, <1>3
<1>5. i = j
  BY <1>1, <1>2, <1>4 DEF EndsApart
<1> QED BY <1>1, <1>5

\* On a new connection nothing is answered.
LEMMA AnsweringConnects ==
    ASSUME IInv', NewRequest, NextConnection, nest' = "none"
    PROVE  Answering'
<1>1. script' \in Seq(Record) /\ rdNext' = 0 /\ replies' = <<>>
  BY ReaderAssumption DEF NextConnection
<1>2. 0 \in 0 .. Len(script') /\ End(0)' = 0
  BY EndsDifferNext DEF EndsApart, StateFacts
<1>3. AnswersUpto(script', 0) = <<>>
  BY <1>1, AnswersSteps
<1> QED BY <1>1, <1>2, <1>3, AnsweringNew

\* When nothing of the request is unread, the reader is behind a record.
LEMMA AllRead ==
    ASSUME IInv, Deep, pc = "app", request.begun, Regular, ~Unread,
           NEW i \in 0 .. Len(script), At(i), Within(i)
    PROVE  buffStop = End(i)
<1> DEFINE m == MarkOf(reader.type)
<1>1. /\ Known /\ script \in Seq(Record) /\ HasMark(script, served + 1, reader.type)
      /\ StateFacts
  BY KnownRequest, HereFacts
<1>2. m \in 1 .. Len(script) /\ script[m].nth = served + 1
  <2>1. m \in OwnRecords(script, served + 1)
    BY <1>1, MarkProps DEF Known, MarkOf
  <2> QED BY <1>1, <2>1, OwnProps DEF Known
<1>3. i <= m
  <2>1. i = m \/ i < m
    BY DEF Within
  <2> QED BY <1>2, <2>1
<1>4. ASSUME i \in 1 .. Len(script)
      PROVE  script[i].nth <= served + 1
  <2>1. i = m \/ i < m
    BY <1>2, <1>3
  <2>2. script[i].nth \in Nat
    BY <1>1, <1>4, RecordProps DEF Record
  <2> HIDE DEF m
  <2> QED BY <1>1, <1>2, <1>4, <2>1, <2>2, WellFormedProps DEF Known
<1>5. /\ End(i) \in Nat /\ End(0) = 0 /\ End(i) <= Len(wire) /\ Len(wire) \in Nat
      /\ rdNext \in Nat /\ buffStop \in Nat /\ rdNext <= buffStop /\ buffStop <= Len(wire)
  <2>1. /\ End(i) \in Nat /\ End(0) = 0 /\ End(i) <= Len(wire) /\ Len(wire) \in Nat
    BY <1>1, EndFacts DEF StateFacts
  <2>2. /\ rdNext \in Nat /\ buffStop \in Nat /\ reader.avail \in Nat
        /\ rdNext + reader.avail <= buffStop /\ buffStop <= Len(wire)
    BY <1>1 DEF StateFacts
  <2> QED BY <2>1, <2>2
<1>6. rdNext <= End(i)
  <2>1. /\ Boundary = Pos + Rest + reader.paddingLen /\ Rest \in Nat /\ rdNext = Pos + Ahead
        /\ Ahead = 0 /\ Pos \in Nat /\ reader.paddingLen \in Nat /\ Boundary = End(i)
    BY <1>1, HereFacts DEF At, StateFacts
  <2> QED BY <1>5, <2>1
<1>7. ASSUME rdNext < End(i)
      PROVE  FALSE
  <2>1. i \in 1 .. Len(script)
    BY <1>5, <1>7
  <2> DEFINE p == End(i)
  <2>2. p \in rdNext + 1 .. Len(wire)
    BY <1>5, <1>7
  <2>3. wire[p].rec = i
    <3>1. End(i - 1) < p /\ p \in Nat /\ p <= p
      <4> DEFINE e == End(i - 1)
      <4>1. i - 1 \in 0 .. Len(script) /\ i - 1 < i
        BY <1>1, <2>1 DEF StateFacts
      <4>2. e \in Nat /\ e + 2 <= p /\ p \in Nat
        BY <1>1, <4>1, EndFacts
      <4> HIDE DEF e, p
      <4>3. e < p /\ p <= p
        BY <4>2
      <4> QED BY <4>2, <4>3 DEF e
    <3> QED BY <1>1, <2>1, <3>1, CellFacts
  <2> HIDE DEF p
  <2>4. script[wire[p].rec].nth <= served + 1
    BY <1>4, <2>1, <2>3
  <2> QED BY <2>2, <2>4 DEF Unread
<1>8. ASSUME rdNext < buffStop
      PROVE  FALSE
  <2>1. buffStop \in rdNext + 1 .. Len(wire) /\ buffStop \in 1 .. buffStop
    BY <1>5, <1>8
  <2> QED BY <2>1 DEF Unread, Deep, NothingEarly
<1> QED BY <1>5, <1>6, <1>7, <1>8

\* When all of the request has been read, the reader is behind its last record.
LEMMA AnsweringFinish ==
    ASSUME IInv, Deep, Answering, Finish
    PROVE  Answering'
<1>1. IInv' /\ NewRequest /\ nest' = nest /\ nest = "none" /\ pc = "app" /\ request.begun
  BY TypesFinish DEF Finish, IInv, Heads, Phases, Callers
<1>2. CASE NextConnection
  BY <1>1, <1>2, AnsweringConnects
<1>3. CASE /\ reader.error = "none"
           /\ rdNext' = buffStop
           /\ excused' = IF Unread THEN excused \cup {"unread"} ELSE excused
           /\ UNCHANGED <<server, replies, buffStop>>
  <2>1. SUFFICES ASSUME Regular' PROVE Answering'
    BY DEF Answering
  <2>2. Regular /\ ~Unread /\ script' = script
    BY <1>3, <2>1 DEF Regular, server
  <2>3. PICK i \in 0 .. Len(script) : Placed(i)
    BY <1>3, <2>2 DEF Deep, Aligned
  <2>4. Boundary = End(i) /\ Within(i)
    BY <1>1, <2>3 DEF Placed, At
  <2>5. replies = AnswersUpto(script, i)
    BY <1>1, <1>3, <2>2, <2>4 DEF Answering
  <2>6. buffStop = End(i)
    BY <1>1, <2>2, <2>3, AllRead DEF Placed
  <2>7. rdNext' = End(i)' /\ i \in 0 .. Len(script')
    BY <1>3, <2>2, <2>6 DEF End
  <2> QED BY <1>1, <1>3, <2>2, <2>5, <2>7, AnsweringNew
<1> QED BY <1>2, <1>3 DEF Finish
\* A read fails, or what is read is no header.
LEMMA AnsweringInterrupted ==
    ASSUME IInv, ReadFails \/ ReadInterrupted \/ UnsupportedVersion
    PROVE  Answering'
<1>1. reader \in Readers(script) /\ (pc = "process" => reader.avail = 0)
  BY DEF IInv, Types, Phases, Filling
<1>2. CASE ReadFails \/ ReadInterrupted
  <2>1. Headless(reader) \in Readers(script)
    BY <1>1, EmptySeq DEF Headless, Readers
  <2>2. reader'.error # "none"
    BY <1>2, <2>1 DEF ReadFails, ReadInterrupted, SetError, Readers
  <2> QED BY <2>2, AnsweringFails
<1>3. CASE UnsupportedVersion
  <2>1. reader'.error # "none"
    BY <1>1, <1>3, SwitchProps DEF UnsupportedVersion
  <2> QED BY <2>1, AnsweringFails
<1> QED BY <1>2, <1>3

\* Every step answers what has to be, and only that.
LEMMA AnsweringNext ==
    ASSUME IInv, Deep, Answering, [Next]_vars
    PROVE  Answering'
<1>1. CASE FillBuffProc
  <2>1. CASE Read \/ ReadNothing \/ NestedFills
    BY <2>1, AnsweringQuiet DEF Read, ReadNothing, NestedFills, server, clients
  <2>2. CASE ReadFails
    BY <2>2, AnsweringInterrupted
  <2>3. CASE DeliverContent \/ SkipContent \/ SkipPadding \/ EndOfRecord \/ ReadHeader
              \/ NestedTakes
    <3>1. Stays
      BY <2>3, DeepDeliverContent, DeepSkipContent, DeepSkipPadding, DeepEndOfRecord,
         DeepReadHeader, DeepNestedTakes
    <3>2. replies' = replies
      BY <2>3 DEF DeliverContent, SkipContent, SkipPadding, EndOfRecord, ReadHeader, NestedTakes
    <3> QED BY <3>1, <3>2, AnsweringStays
  <2>4. CASE UnsupportedVersion
    BY <2>4, AnsweringInterrupted
  <2>5. CASE StreamRecord BY <2>5, AnsweringStreamRecord
  <2>6. CASE BeginRefused BY <2>6, AnsweringBeginRefused
  <2>7. CASE UnknownManagement BY <2>7, AnsweringUnknownManagement
  <2>8. CASE Nest BY <2>8, AnsweringNest
  <2>9. CASE BeginReads BY <2>9, AnsweringBeginReads
  <2>10. CASE ValuesRead BY <2>10, AnsweringValuesRead
  <2> QED BY <1>1, <2>1, <2>2, <2>3, <2>4, <2>5, <2>6, <2>7, <2>8, <2>9, <2>10 DEF FillBuffProc
<1>2. CASE CallFillBuffProc \/ GetStrReturnsShort \/ HangUp \/ \E n \in Chunks : GetStr(n)
  BY <1>2, AnsweringQuiet DEF CallFillBuffProc, GetStrReturnsShort, HangUp, GetStr, server, clients
<1>3. CASE AcceptReadsParams \/ AcceptReturns \/ StartFilterData
  BY <1>3, AnsweringAccepts
<1>4. CASE ReadParamsTakes \/ GetStrTakes
  <2>1. Boundary' = Boundary
    BY <1>4, DeepReadParamsTakes, DeepGetStrTakes
  <2>2. UNCHANGED <<script, nest, replies, excused>> /\ reader \in Readers(script)
    BY <1>4 DEF ReadParamsTakes, GetStrTakes, server, IInv, Types
  <2>3. reader'.error = reader.error
    BY <1>4, <2>2 DEF ReadParamsTakes, GetStrTakes, Readers
  <2> QED BY <2>1, <2>2, <2>3, AnsweringSame
<1>5. CASE AcceptRetries
  <2>1. NewRequest /\ NextConnection /\ nest' = nest /\ nest = "none"
    BY <1>5 DEF AcceptRetries, GivesUp, IInv, Heads
  <2> QED BY <1>5, <2>1, TypesAcceptRetries, AnsweringConnects
<1>6. CASE Finish
  BY <1>6, AnsweringFinish
<1>7. CASE ReadInterrupted
  BY <1>7, AnsweringInterrupted
<1>8. CASE UNCHANGED vars
  BY <1>8, AnsweringQuiet DEF vars, server, clients
<1> QED BY <1>1, <1>2, <1>3, <1>4, <1>5, <1>6, <1>7, <1>8 DEF Next, Library

\* The initial states.
LEMMA AnsweringInit ==
    ASSUME Init
    PROVE  Answering
<1>1. IInv /\ EndsApart
  BY DeepInit, EndsDiffer
<1>2. /\ rdNext = 0 /\ replies = <<>> /\ nest = "none" /\ reader = NewReader
      /\ script \in Seq(Record)
  BY ReaderAssumption DEF Init, Connected
<1>3. Boundary = 0
  <2>1. /\ reader.avail = 0 /\ reader.contentLen = 0 /\ reader.paddingLen = 0
        /\ Len(reader.head) = 0
    BY <1>2 DEF NewReader
  <2>2. Boundary = (rdNext - Ahead) + (reader.avail + reader.contentLen) + reader.paddingLen
    BY DEF Boundary, Pos, Rest
  <2> QED BY <1>2, <2>1, <2>2 DEF Ahead
<1>4. \A i \in 0 .. Len(script) : Boundary = End(i) => i = 0
  BY <1>1, <1>3 DEF EndsApart, StateFacts
<1> QED BY <1>2, <1>4, AnswersSteps DEF Answering

\* What has been read belongs to the record that the reader is in.
LEMMA AnswersFit ==
    ASSUME IInv, Deep, Answering
    PROVE  AnswersInOrder
<1>1. SUFFICES ASSUME Regular, reader.error = "none", pc \in {"params", "app"}
      PROVE  replies = AnswersUpto(script, wire[rdNext].rec)
  BY DEF AnswersInOrder
<1>2. /\ StateFacts /\ nest = "none" /\ request.begun /\ rdNext \in Nat /\ Rest \in Nat
      /\ Boundary = rdNext + Rest + reader.paddingLen /\ reader.paddingLen \in Nat
      /\ Pos = rdNext
  <2>1. /\ StateFacts /\ nest = "none" /\ Ahead = 0 /\ Rest \in Nat /\ Pos \in Nat
        /\ rdNext = Pos + Ahead /\ Boundary = Pos + Rest + reader.paddingLen
    BY <1>1, HereFacts
  <2>2. request.begun
    BY <1>1 DEF IInv, Phases, Callers
  <2>3. rdNext \in Nat /\ reader.paddingLen \in Nat
    BY <2>1 DEF StateFacts
  <2> QED BY <2>1, <2>2, <2>3
<1>3. PICK i \in 0 .. Len(script) : Placed(i)
  BY <1>1 DEF Deep, Aligned
<1>4. At(i) /\ Boundary = End(i)
  BY <1>3 DEF Placed, At
<1>5. replies = AnswersUpto(script, i)
  BY <1>1, <1>2, <1>4 DEF Answering
<1>6. i \in 1 .. Len(script)
  <2> DEFINE b == OwnBegin(script, served + 1)
  <2>1. End(b) <= rdNext
    BY <1>1, <1>2 DEF Deep, Begun
  <2>2. b \in 1 .. Len(script)
    BY <1>1, <1>2, KnownRequest, BeginProps, OwnProps DEF Known
  <2> HIDE DEF b
  <2>3. End(b) \in Nat /\ 2 <= End(b) /\ End(0) = 0
    <3>1. /\ End(0) = 0 /\ 0 \in 0 .. Len(script) /\ b \in 0 .. Len(script) /\ 0 < b
      BY <1>2, <2>2, EndFacts DEF StateFacts
    <3>2. End(0) + 2 <= End(b) /\ End(b) \in Nat
      BY <1>2, <3>1, EndFacts
    <3> QED BY <3>1, <3>2
  <2>4. i # 0
    BY <1>2, <1>4, <2>1, <2>3
  <2> QED BY <1>2, <2>4 DEF StateFacts
<1>7. End(i - 1) < rdNext /\ rdNext <= End(i)
  <2> DEFINE e == End(i - 1)
             f == End(i)
             l == script[i].len
             d == script[i].pad
             n == reader.paddingLen
             r == Rest
  <2>1. /\ l \in Nat /\ d \in Nat /\ f = e + 2 + l + d /\ e \in Nat
    <3>1. i - 1 \in 0 .. Len(script)
      BY <1>2, <1>6 DEF StateFacts
    <3> QED BY <1>2, <1>6, <3>1, EndFacts
  <2>2. /\ n > 0 => n <= d
        /\ r > 0 => n = d /\ r <= l
    BY <1>4 DEF At
  <2>3. f = rdNext + r + n /\ r \in Nat /\ n \in Nat /\ rdNext \in Nat
    BY <1>2, <1>4
  <2> HIDE DEF e, f, l, d, n, r
  <2>4. e < rdNext /\ rdNext <= f
    BY <2>1, <2>2, <2>3
  <2> QED BY <2>4 DEF e, f
<1>8. wire[rdNext].rec = i
  BY <1>2, <1>6, <1>7, CellFacts
<1> QED BY <1>5, <1>8

\* The reader has answered what it has to, once and in order.
THEOREM AnswersAlwaysInOrder == Spec => []AnswersInOrder
<1>1. Init => IInv /\ Deep /\ Answering
  BY DeepInit, AnsweringInit
<1>2. IInv /\ Deep /\ Answering /\ [Next]_vars => (IInv /\ Deep /\ Answering)'
  BY TypesNext, DeepNext, AnsweringNext
<1>3. IInv /\ Deep /\ Answering => AnswersInOrder
  BY AnswersFit
<1> QED BY <1>1, <1>2, <1>3, PTL DEF Spec

==============================================================================
