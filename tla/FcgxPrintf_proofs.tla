------------------------- MODULE FcgxPrintf_proofs -------------------------
(***************************************************************************)
(* TLAPS proofs about FcgxPrintf, for every set of formats.                *)
(***************************************************************************)
EXTENDS FcgxPrintf, WellFoundedInduction, TLAPS

-----------------------------------------------------------------------------
(* The inductive invariant.                                                *)

Conversion == [fmtLen : Int, buffLen : Int, buffCount : Int]

Types ==
    /\ format \in Formats
    /\ f \in 1 .. Len(format) + 1
    /\ at \in {"scan", "slow", "emit", "done", "aborted"}
    /\ streamCount \in Int /\ put \in Int /\ args \in Int /\ auxBuffLen \in Int
    /\ conv \in Conversion

\* Between the paths and the output the call stays at one directive.
AtOneDirective == at \in {"slow", "emit"} => f <= Len(format) /\ Item.op # "literal"

\* Until it returns, the call has put what comes before the item in hand.
PutBefore ==
    at \in {"scan", "slow", "emit"} =>
        /\ streamCount = put
        /\ AsInC(format, f - 1) => put = BytesOf(format)[f - 1]

\* The arguments of a directive are taken when its result is in a buffer.
TakenBefore ==
    /\ at \in {"scan", "slow"} => args = ArgsOf(format)[f - 1]
    /\ at = "emit" => args = ArgsOf(format)[f]

\* What is put next is the result of the directive in hand.
ResultInHand == at = "emit" => conv.buffCount \in Strlens(Item)

\* The call ends with an error, or at the end of the format.
EndsWithAll ==
    at = "done" =>
        /\ streamCount \in {-1, put}
        /\ AsInC(format, Len(format)) => streamCount \in {-1, BytesOf(format)[Len(format)]}

IInv ==
    /\ Types
    /\ AtOneDirective
    /\ PutBefore
    /\ TakenBefore
    /\ ResultInHand
    /\ EndsWithAll
    /\ BuffersSuffice

-----------------------------------------------------------------------------
(* Totals.                                                                 *)

\* A set of natural numbers that is not empty has a least element.
LEMMA LeastProps ==
    ASSUME NEW S \in SUBSET Nat, S # {}
    PROVE  \E n \in S : \A m \in S : ~(m < n)
<1>1. PICK n \in S : \A m \in S : ~(<<m, n>> \in OpToRel(<, Nat))
  BY NatLessThanWellFounded, WFMin
<1>2. ASSUME NEW m \in S, m < n
      PROVE  <<m, n>> \in OpToRel(<, Nat)
  BY <1>2 DEF OpToRel
<1> QED BY <1>1, <1>2

\* The total of a sequence of numbers is a function that adds one after another:
\* one for each length, since there is no least length without one.
LEMMA TotalsProps ==
    ASSUME NEW N \in Nat, NEW ns \in [1 .. N -> Int]
    PROVE  /\ Totals(ns) \in [0 .. N -> Int]
           /\ Totals(ns)[0] = 0
           /\ \A k \in 1 .. N : Totals(ns)[k] = Totals(ns)[k - 1] + ns[k]
<1> DEFINE IsTotal(g, n) ==
               /\ g \in [0 .. n -> Int]
               /\ g[0] = 0
               /\ \A k \in 1 .. n : g[k] = g[k - 1] + ns[k]
           bad == {n \in 0 .. N : ~ \E g : IsTotal(g, n)}
           F(t) == [n \in 0 .. Len(ns) |-> IF n = 0 THEN 0 ELSE t[n - 1] + ns[n]]
<1>1. bad = {}
  <2>1. SUFFICES ASSUME bad # {} PROVE FALSE
    OBVIOUS
  <2>3. PICK n \in bad : \A m \in bad : ~(m < n)
    <3>1. bad \in SUBSET Nat
      OBVIOUS
    <3> HIDE DEF bad
    <3> QED BY <2>1, <3>1, LeastProps
  <2>4. n # 0
    <3>1. IsTotal([k \in 0 .. 0 |-> 0], 0)
      OBVIOUS
    <3> QED BY <3>1
  <2>5. PICK g : IsTotal(g, n - 1)
    <3>1. n - 1 \in 0 .. N /\ n - 1 < n
      BY <2>4
    <3> QED BY <2>3, <3>1
  <2>6. IsTotal([k \in 0 .. n |-> IF k = n THEN g[n - 1] + ns[n] ELSE g[k]], n)
    <3> DEFINE h == [k \in 0 .. n |-> IF k = n THEN g[n - 1] + ns[n] ELSE g[k]]
    <3>1. h \in [0 .. n -> Int]
      BY <2>4, <2>5
    <3>2. h[0] = 0
      BY <2>4, <2>5
    <3>3. ASSUME NEW k \in 1 .. n PROVE h[k] = h[k - 1] + ns[k]
      <4>1. CASE k = n
        BY <2>5, <4>1
      <4>2. CASE k # n
        <5>1. k \in 1 .. n - 1
          BY <4>2
        <5> QED BY <2>5, <5>1
      <4> QED BY <4>1, <4>2
    <3> QED BY <3>1, <3>2, <3>3
  <2> QED BY <2>6
<1>2. PICK g : IsTotal(g, N)
  <2>1. N \in 0 .. N
    OBVIOUS
  <2>2. N \notin bad
    BY <1>1
  <2> HIDE DEF IsTotal
  <2> QED BY <2>1, <2>2
<1>3. Len(ns) = N
  <2>1. ns \in Seq(Int)
    OBVIOUS
  <2> QED BY <2>1
<1>4. g = F(g)
  <2>1. DOMAIN g = 0 .. N /\ g = [n \in 0 .. N |-> g[n]]
    BY <1>2
  <2>2. \A n \in 0 .. N : g[n] = F(g)[n]
    BY <1>2, <1>3
  <2>3. F(g) = [n \in 0 .. N |-> F(g)[n]]
    BY <1>3
  <2> QED BY <2>1, <2>2, <2>3
<1>5. Totals(ns) = CHOOSE t : t = F(t)
  BY DEF Totals
<1>6. Totals(ns) = F(Totals(ns))
  <2> HIDE DEF F
  <2> QED BY <1>4, <1>5
<1> DEFINE t == Totals(ns)
<1>7. t = [n \in 0 .. N |-> IF n = 0 THEN 0 ELSE t[n - 1] + ns[n]]
  BY <1>3, <1>6
<1> HIDE DEF t
<1>8. t[0] = 0 /\ \A k \in 1 .. N : t[k] = t[k - 1] + ns[k]
  BY <1>7
\* One that adds the same numbers has the same totals, which are numbers.
<1>9. \A n \in 0 .. N : t[n] = g[n]
  <2> DEFINE off == {n \in 0 .. N : t[n] # g[n]}
  <2>1. SUFFICES ASSUME off # {} PROVE FALSE
    OBVIOUS
  <2>3. PICK n \in off : \A m \in off : ~(m < n)
    <3>1. off \in SUBSET Nat
      OBVIOUS
    <3> HIDE DEF off
    <3> QED BY <2>1, <3>1, LeastProps
  <2>4. n # 0
    BY <1>2, <1>8
  <2>5. t[n - 1] = g[n - 1]
    BY <2>3, <2>4
  <2> QED BY <1>2, <1>8, <2>4, <2>5
<1>10. t \in [0 .. N -> Int]
  <2>1. \A n \in 0 .. N : t[n] \in Int
    BY <1>2, <1>9
  <2>2. DOMAIN t = 0 .. N
    BY <1>7
  <2>3. t = [n \in 0 .. N |-> t[n]]
    BY <1>7
  <2> QED BY <2>1, <2>2, <2>3
<1> QED BY <1>8, <1>10 DEF t

\* The arguments that the first directives take.
LEMMA ArgsProps ==
    ASSUME NEW items \in Seq(Directive)
    PROVE  /\ ArgsOf(items) \in [0 .. Len(items) -> Int]
           /\ ArgsOf(items)[0] = 0
           /\ \A k \in 1 .. Len(items) :
                 ArgsOf(items)[k] = ArgsOf(items)[k - 1] + Demand(items[k]) + Stars(items[k])
<1> DEFINE ns == [i \in 1 .. Len(items) |-> Demand(items[i]) + Stars(items[i])]
<1>1. ns \in [1 .. Len(items) -> Int]
  BY DEF Demand, Stars
<1>2. Len(items) \in Nat
  OBVIOUS
<1>3. \A k \in 1 .. Len(items) : /\ ns[k] = Demand(items[k]) + Stars(items[k])
                                  /\ Demand(items[k]) \in Int /\ Stars(items[k]) \in Int
  BY DEF Demand, Stars
<1>4. ArgsOf(items) = Totals(ns)
  BY DEF ArgsOf
<1> HIDE DEF ns
<1>5. /\ Totals(ns) \in [0 .. Len(items) -> Int]
      /\ Totals(ns)[0] = 0
      /\ \A k \in 1 .. Len(items) : Totals(ns)[k] = Totals(ns)[k - 1] + ns[k]
  BY <1>1, <1>2, TotalsProps
<1>6. ASSUME NEW k \in 1 .. Len(items)
      PROVE  Totals(ns)[k] = Totals(ns)[k - 1] + Demand(items[k]) + Stars(items[k])
  <2>1. k - 1 \in 0 .. Len(items)
    BY <1>2
  <2>2. Totals(ns)[k - 1] \in Int
    BY <1>5, <2>1
  <2> QED BY <1>3, <1>5, <2>2
<1> QED BY <1>4, <1>5, <1>6

-----------------------------------------------------------------------------
(* Directives.                                                             *)

\* What is known of a directive.
LEMMA DirectiveProps ==
    ASSUME NEW d \in Directive
    PROVE  /\ d.flags \in Nat /\ d.len \in Nat
           /\ d.width \in Sizes /\ d.width.v \in Int
           /\ d.prec \in Sizes \cup {Bare} /\ d.prec.v \in Int
           /\ d.op \in {"d", "p"} => d.len <= 46
           /\ d.op = "literal" => d.width = Absent /\ d.prec = Absent
<1>1. /\ d \in [flags : Nat, width : Sizes, prec : Sizes \cup {Bare},
                 mod : {" ", "l", "L", "h"}, op : STRING, len : Nat]
      /\ d.op \in {"d", "p"} => d.len <= 46
      /\ d.op = "literal" => d.width = Absent /\ d.prec = Absent
  BY DEF Directive
<1>2. \A w \in Sizes \cup {Bare} : w.v \in Int
  BY DEF Sizes, Absent, Bare
<1>3. d.width \in Sizes /\ d.prec \in Sizes \cup {Bare} /\ d.flags \in Nat /\ d.len \in Nat
  BY <1>1
<1> QED BY <1>1, <1>2, <1>3

\* A precision is at least that none was given.  The code's is C's, unless it is
\* negative.
LEMMA PrecisionProps ==
    ASSUME NEW d \in Directive
    PROVE  /\ Precision(d) \in Int /\ Precision(d) >= -1
           /\ CPrecision(d) \in Int /\ CPrecision(d) >= -1
           /\ Decimals(Precision(d)) \in Nat
           /\ ~(d.prec.v < 0) => Precision(d) = CPrecision(d)
<1>1. d.prec.v \in Int
  BY DirectiveProps
<1>2. Precision(d) \in Int /\ Precision(d) >= -1
  BY <1>1 DEF Precision, Larger
<1>3. CPrecision(d) \in Int /\ CPrecision(d) >= -1
  BY <1>1 DEF CPrecision
<1>4. ~(d.prec.v < 0) => Precision(d) = CPrecision(d)
  BY <1>1 DEF Precision, CPrecision, Larger
<1> QED BY <1>2, <1>3, <1>4 DEF Decimals

\* The length that C gives a directive is a number, for every precision.
LEMMA NaturalProps ==
    ASSUME NEW d \in Directive, NEW prec \in Int, prec >= -1
    PROVE  Natural(d, prec) \in Nat
<1>1. d.len \in Nat
  BY DirectiveProps
<1>2. Decimals(prec) \in Nat
  BY DEF Decimals
<1>3. CASE d.op = "d"
  BY <1>1, <1>3 DEF Natural, Larger
<1>4. CASE d.op = "s"
  BY <1>1, <1>4 DEF Natural, Smaller
<1>5. CASE d.op = "f"
  BY <1>1, <1>2, <1>5 DEF Natural
<1>6. CASE d.op = "e"
  BY <1>1, <1>2, <1>6 DEF Natural
<1>7. CASE d.op \notin {"d", "s", "f", "e"}
  BY <1>1, <1>7 DEF Natural
<1> QED BY <1>3, <1>4, <1>5, <1>6, <1>7

\* Lengths are numbers, those of the code and those of C; and they are the same
\* where the code does not leave C.
LEMMA LengthProps ==
    ASSUME NEW d \in Directive
    PROVE  /\ Natural(d, Precision(d)) \in Nat
           /\ Abs(d.width.v) \in Nat
           /\ Sprintf(d) \in Nat /\ CLength(d) \in Nat
           /\ Strlens(d) \subseteq Nat
           /\ ~Differs(d) => Strlens(d) = {CLength(d)}
<1>1. /\ Precision(d) \in Int /\ Precision(d) >= -1
      /\ CPrecision(d) \in Int /\ CPrecision(d) >= -1
      /\ ~(d.prec.v < 0) => Precision(d) = CPrecision(d)
  BY PrecisionProps
<1>2. Natural(d, Precision(d)) \in Nat /\ Natural(d, CPrecision(d)) \in Nat
  BY <1>1, NaturalProps
<1>3. Abs(d.width.v) \in Nat
  BY DirectiveProps DEF Abs
<1>4. \A a, b \in Nat : Larger(a, b) \in Nat
  BY DEF Larger
<1>5. Sprintf(d) \in Nat /\ CLength(d) \in Nat
  BY <1>2, <1>3, <1>4 DEF Sprintf, CLength, Padded
<1>6. Strlens(d) \subseteq Nat
  <2>1. Larger(Abs(d.width.v) - 1, 0) \in Nat
    BY <1>3 DEF Larger
  <2> QED BY <1>5, <2>1 DEF Strlens
<1>7. ASSUME ~Differs(d) PROVE Strlens(d) = {CLength(d)}
  <2>1. ~PrintsNul(d) /\ Precision(d) = CPrecision(d)
    BY <1>1, <1>7 DEF Differs
  <2> QED BY <2>1 DEF Strlens, Sprintf, CLength
<1> QED BY <1>2, <1>3, <1>5, <1>6, <1>7

\* The bytes that the first directives make in C.
LEMMA BytesProps ==
    ASSUME NEW items \in Seq(Directive)
    PROVE  /\ BytesOf(items) \in [0 .. Len(items) -> Int]
           /\ BytesOf(items)[0] = 0
           /\ \A k \in 1 .. Len(items) :
                 BytesOf(items)[k] = BytesOf(items)[k - 1] + CLength(items[k])
<1> DEFINE ns == [i \in 1 .. Len(items) |-> CLength(items[i])]
<1>0. \A k \in 1 .. Len(items) : CLength(items[k]) \in Int
  BY LengthProps
<1>1. ns \in [1 .. Len(items) -> Int]
  BY <1>0
<1>2. Len(items) \in Nat
  OBVIOUS
<1>3. \A k \in 1 .. Len(items) : ns[k] = CLength(items[k])
  OBVIOUS
<1>4. BytesOf(items) = Totals(ns)
  BY DEF BytesOf
<1> HIDE DEF ns
<1>5. /\ Totals(ns) \in [0 .. Len(items) -> Int]
      /\ Totals(ns)[0] = 0
      /\ \A k \in 1 .. Len(items) : Totals(ns)[k] = Totals(ns)[k - 1] + ns[k]
  BY <1>1, <1>2, TotalsProps
<1> QED BY <1>3, <1>4, <1>5

\* A number below a million has at most six digits.
LEMMA DigitsProps ==
    ASSUME NEW n \in Nat
    PROVE  /\ Digits(n) \in 1 .. 8
           /\ n <= 999999 => Digits(n) <= 6
<1> DEFINE Fits(k) == /\ n < 10^k \/ k = 8
                      /\ n >= 10^(k - 1) \/ k = 1
<1>1. /\ Fits(1) <=> n < 10
      /\ Fits(2) <=> n < 100 /\ n >= 10
      /\ Fits(3) <=> n < 1000 /\ n >= 100
      /\ Fits(4) <=> n < 10000 /\ n >= 1000
      /\ Fits(5) <=> n < 100000 /\ n >= 10000
      /\ Fits(6) <=> n < 1000000 /\ n >= 100000
      /\ Fits(7) <=> n < 10000000 /\ n >= 1000000
      /\ Fits(8) <=> n >= 10000000
  OBVIOUS
<1>2. Digits(n) = CHOOSE k \in 1 .. 8 : Fits(k)
  BY DEF Digits
<1> HIDE DEF Fits
<1>3. \E k \in 1 .. 8 : Fits(k)
  <2>1. Fits(1) \/ Fits(2) \/ Fits(3) \/ Fits(4) \/ Fits(5) \/ Fits(6) \/ Fits(7) \/ Fits(8)
    BY <1>1
  <2>2. {1, 2, 3, 4, 5, 6, 7, 8} \subseteq 1 .. 8
    OBVIOUS
  <2> QED BY <2>1, <2>2
<1>4. Digits(n) \in 1 .. 8 /\ Fits(Digits(n))
  BY <1>2, <1>3
<1>5. ~(n <= 999999 /\ Digits(n) \in {7, 8})
  BY <1>1, <1>4
<1> QED BY <1>4, <1>5

\* The directive that the slow path rebuilds, with at most five flags, six
\* characters and a sign of width and seven of precision, is shorter than fmtBuff.
LEMMA RebuiltFits ==
    ASSUME NEW d \in Directive, ScanAccepts(d)
    PROVE  FmtLength(d) \in Nat /\ FmtLength(d) < FMT_BUFFLEN
<1>1. /\ d.flags \in Nat /\ d.width \in Sizes /\ d.prec \in Sizes \cup {Bare}
      /\ d.width.v \in Int /\ d.prec.v \in Int
  BY DirectiveProps
<1>2. d.flags <= 5
  BY DEF ScanAccepts
<1>3. WidthChars(d.width) \in 0 .. 7
  <2>1. CASE d.width.kind = "digits"
    <3>1. d.width.v \in Nat
      BY <1>1, <2>1 DEF Sizes, Absent
    <3>2. Digits(d.width.v) \in 1 .. 8 /\ Digits(d.width.v) <= 6
      BY <2>1, <3>1, DigitsProps DEF ScanAccepts
    <3> QED BY <2>1, <3>2 DEF WidthChars
  <2>2. CASE d.width.kind = "star"
    <3>1. Abs(d.width.v) \in Nat /\ Abs(d.width.v) <= 999999
      BY <1>1, <2>2 DEF ScanAccepts, Abs
    <3>2. Digits(Abs(d.width.v)) \in 1 .. 8 /\ Digits(Abs(d.width.v)) <= 6
      BY <3>1, DigitsProps
    <3> QED BY <2>2, <3>2 DEF WidthChars
  <2>3. CASE d.width.kind \notin {"digits", "star"}
    BY <2>3 DEF WidthChars
  <2> QED BY <2>1, <2>2, <2>3
<1>4. PrecisionChars(d.prec) \in 0 .. 7
  <2>1. CASE d.prec.kind \in {"digits", "star"}
    <3>1. Larger(d.prec.v, 0) \in Nat
      BY <1>1 DEF Larger
    <3>2. /\ d.prec.kind = "digits" => Larger(d.prec.v, 0) = d.prec.v
          /\ d.prec.kind = "star" => Larger(d.prec.v, 0) <= 999999
      <4>1. d.prec.kind = "digits" => d.prec.v \in Nat
        BY <1>1 DEF Sizes, Absent, Bare
      <4> QED BY <1>1, <4>1 DEF Larger, ScanAccepts
    <3>3. Digits(Larger(d.prec.v, 0)) \in 1 .. 8 /\ Digits(Larger(d.prec.v, 0)) <= 6
      BY <2>1, <3>1, <3>2, DigitsProps DEF ScanAccepts
    <3> QED BY <2>1, <3>3 DEF PrecisionChars
  <2>2. CASE d.prec.kind \in {"none", "bare"}
    BY <2>2 DEF PrecisionChars
  <2>3. d.prec.kind \in {"none", "bare", "digits", "star"}
    BY <1>1 DEF Sizes, Absent, Bare
  <2> QED BY <2>1, <2>2, <2>3
<1> DEFINE modifier == IF d.mod = " " THEN 0 ELSE 1
<1>5. modifier \in 0 .. 1
  OBVIOUS
<1>6. FmtLength(d) \in 2 .. 22
  <2>1. \A a, b, c, m \in Nat : a <= 5 /\ b <= 7 /\ c <= 7 /\ m <= 1
                                => 1 + a + b + c + m + 1 \in 2 .. 22
    OBVIOUS
  <2>2. FmtLength(d) = 1 + d.flags + WidthChars(d.width) + PrecisionChars(d.prec) + modifier + 1
    BY DEF FmtLength
  <2> HIDE DEF modifier
  <2>3. /\ d.flags \in Nat /\ WidthChars(d.width) \in Nat /\ WidthChars(d.width) <= 7
        /\ PrecisionChars(d.prec) \in Nat /\ PrecisionChars(d.prec) <= 7
        /\ modifier \in Nat /\ modifier <= 1
    BY <1>1, <1>3, <1>4, <1>5
  <2> QED BY <1>2, <2>1, <2>2, <2>3
<1> QED BY <1>6 DEF FMT_BUFFLEN

\* The bound of the slow path is more than any result without its width, as long as
\* the exponent is that of the number.
LEMMA BoundSuffices ==
    ASSUME NEW d \in Directive, BoundAccepts(d), NEW exp \in Exponents(d)
    PROVE  /\ BufferFor(d, exp) \in Int
           /\ ~BeyondDouble(d) => Natural(d, Precision(d)) < BufferFor(d, exp)
<1> DEFINE prec == Precision(d)
<1>1. /\ d.len \in Nat /\ d.width.v \in Int /\ (d.op \in {"d", "p"} => d.len <= 46)
      /\ prec \in Int /\ prec >= -1 /\ Decimals(prec) \in Nat
  BY DirectiveProps, PrecisionProps
<1>2. /\ exp \in Int
      /\ ~BeyondDouble(d) => exp = Frexp(d.len)
  BY <1>1 DEF Exponents, Frexp
<1> HIDE DEF prec
<1>3. /\ BuffReqd(d, exp) \in Int
      /\ ~BeyondDouble(d) => Natural(d, prec) < BuffReqd(d, exp) + 10
  <2>1. CASE d.op \in {"d", "c", "p"}
    BY <1>1, <2>1 DEF BuffReqd, Natural, Larger, prec
  <2>2. CASE d.op = "s"
    BY <1>1, <2>2 DEF BuffReqd, Natural, Smaller, prec
  <2>3. CASE d.op = "f"
    <3>1. Larger(exp, 0) \in Nat /\ Larger(exp, 0) \div 3 \in Nat
      BY <1>2 DEF Larger
    <3>2. ~BeyondDouble(d) => Larger(exp, 0) \div 3 >= d.len - 2
      BY <1>1, <1>2 DEF Frexp, Larger
    <3>3. /\ BuffReqd(d, exp) = Decimals(prec) + 3 + Larger(exp, 0) \div 3
          /\ Natural(d, prec) = d.len + 2 + Decimals(prec)
      BY <2>3 DEF BuffReqd, Natural, prec
    <3> QED BY <1>1, <3>1, <3>2, <3>3
  <2>4. CASE d.op = "e"
    BY <1>1, <2>4 DEF BuffReqd, Natural, prec
  <2> QED BY <2>1, <2>2, <2>3, <2>4 DEF BoundAccepts
<1>4. Natural(d, prec) \in Nat
  BY <1>1, NaturalProps
<1> QED BY <1>1, <1>3, <1>4 DEF BufferFor, Larger, prec

\* A directive without flags, width and precision makes no more than the buffer of
\* the fast path has.
LEMMA PlainFits ==
    ASSUME NEW d \in Directive, Plain(d), PerformAccepts(d), d.op # "f"
    PROVE  Sprintf(d) < (IF d.op = "s" THEN d.len + 1 ELSE PRINTF_BUFFLEN)
<1>1. /\ d.len \in Nat /\ (d.op \in {"d", "p"} => d.len <= 46)
      /\ d.width.v = 0
  BY DirectiveProps DEF Plain, Absent
<1>2. Precision(d) = -1 /\ Decimals(-1) = 6
  BY DEF Plain, Absent, Precision, Decimals
<1>3. Abs(d.width.v) = 0
  BY <1>1 DEF Abs
<1>4. d.op \in {"d", "c", "s", "p", "n", "e", "%"}
  BY DEF PerformAccepts, Operations
<1>5. Natural(d, -1) \in Nat /\ Natural(d, -1) < (IF d.op = "s" THEN d.len + 1 ELSE PRINTF_BUFFLEN)
  <2>1. CASE d.op = "d"
    BY <1>1, <1>2, <2>1 DEF Natural, Larger, PRINTF_BUFFLEN
  <2>2. CASE d.op # "d"
    BY <1>1, <1>2, <1>4, <2>2 DEF Natural, PRINTF_BUFFLEN
  <2> QED BY <2>1, <2>2
<1> QED BY <1>2, <1>3, <1>5 DEF Sprintf, Padded, Larger

-----------------------------------------------------------------------------
(* The invariant holds initially.                                          *)

\* A format has as many items as its length, and each is a directive.
LEMMA FormatProps ==
    ASSUME NEW fmt \in Formats
    PROVE  /\ fmt \in Seq(Directive) /\ Len(fmt) \in Nat
           /\ \A i \in 1 .. Len(fmt) : fmt[i] \in Directive
<1>1. fmt \in Seq(Directive)
  BY FormatsAssumption
<1> QED BY <1>1

\* A call begins with nothing put and nothing taken.
LEMMA InitIInv == PrintfInit => IInv
<1> SUFFICES ASSUME PrintfInit PROVE IInv
  OBVIOUS
<1>1. PICK fmt \in Formats : Called(fmt)
  BY DEF PrintfInit
<1>2. format \in Formats /\ format \in Seq(Directive) /\ Len(format) \in Nat
  BY <1>1, FormatProps DEF Called
<1>3. Types
  BY <1>1, <1>2 DEF Called, Types, None, Conversion
<1>4. AtOneDirective
  BY <1>1 DEF Called, AtOneDirective
<1>5. PutBefore
  <2>1. BytesOf(format)[f - 1] = 0
    BY <1>1, <1>2, BytesProps DEF Called
  <2> QED BY <1>1, <2>1 DEF Called, PutBefore
<1>6. TakenBefore
  <2>1. ArgsOf(format)[f - 1] = 0
    BY <1>1, <1>2, ArgsProps DEF Called
  <2> QED BY <1>1, <2>1 DEF Called, TakenBefore
<1>7. ResultInHand /\ EndsWithAll /\ BuffersSuffice
  BY <1>1 DEF Called, ResultInHand, EndsWithAll, BuffersSuffice
<1> QED BY <1>3, <1>4, <1>5, <1>6, <1>7 DEF IInv

-----------------------------------------------------------------------------
(* ... and is preserved.                                                   *)

\* What the steps start from.
LEMMA StateProps ==
    ASSUME Types
    PROVE  /\ format \in Seq(Directive) /\ Len(format) \in Nat /\ f \in Int /\ f >= 1
           /\ f <= Len(format) =>
                /\ Item \in Directive
                /\ f - 1 \in 0 .. Len(format) /\ f \in 1 .. Len(format)
<1>1. format \in Formats /\ f \in 1 .. Len(format) + 1
  BY DEF Types
<1>2. format \in Seq(Directive) /\ Len(format) \in Nat
  BY <1>1, FormatProps
<1> QED BY <1>1, <1>2, FormatProps DEF Item

\* PutStr of n bytes, the result of the item in hand, goes on behind the item or
\* ends the call.
LEMMA PutStrPreserves ==
    ASSUME IInv, NEW n \in Nat, PutStr(n), at \in {"scan", "emit"}, f <= Len(format),
           n \in Strlens(Item), args = ArgsOf(format)[f],
           UNCHANGED <<format, args, auxBuffLen, conv>>
    PROVE  IInv'
<1>1. /\ Types /\ PutBefore
      /\ format' = format /\ args' = args /\ auxBuffLen' = auxBuffLen /\ conv' = conv
  BY DEF IInv
<1>2. /\ format \in Seq(Directive) /\ Len(format) \in Nat /\ f \in 1 .. Len(format)
  BY <1>1, StateProps
<1>3. streamCount = put /\ put \in Int
  BY <1>1 DEF PutBefore, Types
\* Where the code has not left C by the next item, it has not by this one.
<1>a. ASSUME AsInC(format, f)
      PROVE  put + n = BytesOf(format)[f]
  <2>1. AsInC(format, f - 1) /\ ~Differs(Item)
    BY <1>2, <1>a DEF AsInC, Item
  <2>2. put = BytesOf(format)[f - 1]
    BY <1>1, <2>1 DEF PutBefore
  <2>3. n = CLength(Item)
    BY <1>1, <1>2, <2>1, StateProps, LengthProps
  <2>4. BytesOf(format)[f] = BytesOf(format)[f - 1] + CLength(Item)
    BY <1>2, BytesProps DEF Item
  <2> QED BY <2>2, <2>3, <2>4
<1>4. CASE /\ put' = put + n
           /\ streamCount' = streamCount + n
           /\ f' = f + 1
           /\ at' = "scan"
  <2>1. Types'
    BY <1>1, <1>2, <1>4, SMTT(30) DEF Types
  <2>2. f' - 1 = f
    BY <1>2, <1>4
  <2>3. PutBefore'
    <3>1. streamCount' = put'
      BY <1>3, <1>4
    <3>2. ASSUME AsInC(format', f' - 1) PROVE put' = BytesOf(format')[f' - 1]
      <4>1. AsInC(format, f)
        BY <1>1, <2>2, <3>2
      <4> QED BY <1>1, <1>4, <1>a, <2>2, <4>1
    <3> QED BY <3>1, <3>2 DEF PutBefore
  <2>4. TakenBefore'
    BY <1>1, <1>4, <2>2 DEF TakenBefore
  <2>5. AtOneDirective' /\ ResultInHand' /\ EndsWithAll' /\ BuffersSuffice'
    BY <1>4 DEF AtOneDirective, ResultInHand, EndsWithAll, BuffersSuffice
  <2> QED BY <2>1, <2>3, <2>4, <2>5 DEF IInv
<1>5. CASE /\ put' \in {put, put + n - 1}
           /\ ErrorReturn
           /\ UNCHANGED f
  <2>1. Types'
    BY <1>1, <1>2, <1>5 DEF Types, ErrorReturn
  <2>2. /\ AtOneDirective' /\ PutBefore' /\ TakenBefore' /\ ResultInHand' /\ EndsWithAll'
        /\ BuffersSuffice'
    BY <1>5 DEF ErrorReturn, AtOneDirective, PutBefore, TakenBefore, ResultInHand,
                EndsWithAll, BuffersSuffice
  <2> QED BY <2>1, <2>2 DEF IInv
<1> QED BY <1>4, <1>5 DEF PutStr

\* A directive that is refused ends the call.
LEMMA ErrorPreserves ==
    ASSUME IInv, ErrorReturn, UNCHANGED <<format, f, put, args, auxBuffLen, conv>>
    PROVE  IInv'
<1>1. Types'
  BY DEF IInv, Types, ErrorReturn
<1>2. /\ AtOneDirective' /\ PutBefore' /\ TakenBefore' /\ ResultInHand' /\ EndsWithAll'
      /\ BuffersSuffice'
  BY DEF ErrorReturn, AtOneDirective, PutBefore, TakenBefore, ResultInHand, EndsWithAll,
         BuffersSuffice
<1> QED BY <1>1, <1>2 DEF IInv

\* The end of the format is reached with everything put.
LEMMA NormalReturnPreserves ==
    ASSUME IInv, NormalReturn
    PROVE  IInv'
<1>1. /\ Types /\ PutBefore /\ at = "scan" /\ f > Len(format) /\ at' = "done"
      /\ UNCHANGED <<format, f, streamCount, put, args, auxBuffLen, conv>>
  BY DEF IInv, NormalReturn
<1>2. f - 1 = Len(format)
  BY <1>1, StateProps DEF Types
<1>3. Types'
  BY <1>1 DEF Types
<1>4. EndsWithAll'
  BY <1>1, <1>2 DEF EndsWithAll, PutBefore
<1>5. AtOneDirective' /\ PutBefore' /\ TakenBefore' /\ ResultInHand' /\ BuffersSuffice'
  BY <1>1 DEF AtOneDirective, PutBefore, TakenBefore, ResultInHand, BuffersSuffice
<1> QED BY <1>3, <1>4, <1>5 DEF IInv

\* A literal run takes no argument, and its bytes are its length.
LEMMA LiteralPreserves ==
    ASSUME IInv, Literal
    PROVE  IInv'
<1>1. /\ Types /\ TakenBefore /\ at = "scan" /\ f <= Len(format) /\ Item.op = "literal"
      /\ PutStr(Item.len) /\ UNCHANGED <<format, args, auxBuffLen, conv>>
  BY DEF IInv, Literal
<1>2. /\ format \in Seq(Directive) /\ Item \in Directive
      /\ f - 1 \in 0 .. Len(format) /\ f \in 1 .. Len(format)
  BY <1>1, StateProps
<1>3. Item.len \in Nat /\ Item.len \in Strlens(Item)
  <2>1. /\ Item.width.v = 0 /\ Natural(Item, Precision(Item)) = Item.len
        /\ Item.len \in Nat /\ ~PrintsNul(Item)
    BY <1>1, <1>2, DirectiveProps DEF Natural, Absent, PrintsNul
  <2> QED BY <2>1 DEF Strlens, Sprintf, Padded, Abs, Larger
<1>4. args = ArgsOf(format)[f]
  <2>1. Demand(Item) = 0 /\ Stars(Item) = 0
    BY <1>1, <1>2, DirectiveProps DEF Demand, Stars, Absent
  <2>2. /\ ArgsOf(format)[f] = ArgsOf(format)[f - 1] + Demand(Item) + Stars(Item)
        /\ ArgsOf(format)[f - 1] \in Int
    BY <1>2, ArgsProps DEF Item
  <2> QED BY <1>1, <2>1, <2>2 DEF TakenBefore
<1> QED BY <1>1, <1>3, <1>4, PutStrPreserves

\* A directive that the fast path performs has one argument, or is a percent sign;
\* PRINTF_BUFFLEN is enough for it.
LEMMA FastPathPreserves ==
    ASSUME IInv, FastPath
    PROVE  IInv'
<1>1. /\ Types /\ TakenBefore /\ PutBefore
      /\ at = "scan" /\ f <= Len(format) /\ Item.op # "literal" /\ ~LeftToSlowPath
      /\ UNCHANGED <<format, f, put, auxBuffLen>>
  BY DEF IInv, FastPath, AtDirective
<1>2. /\ format \in Seq(Directive) /\ Item \in Directive /\ Item' = Item
      /\ f - 1 \in 0 .. Len(format) /\ f \in 1 .. Len(format)
  BY <1>1, StateProps DEF Item
<1>3. CASE PerformAccepts(Item)
  <2> DEFINE fmtLen == IF Item.mod = " " THEN 2 ELSE 3
             buffLen == IF Item.op = "s" THEN Item.len + 1 ELSE PRINTF_BUFFLEN
             taken == IF Item.op = "%" THEN 0 ELSE 1
  <2>0. PICK n \in Strlens(Item) :
            conv' = [fmtLen |-> fmtLen, buffLen |-> buffLen, buffCount |-> n]
    BY <1>3 DEF FastPath
  <2>1. /\ args' = args + taken
        /\ at' = "emit" /\ streamCount' = streamCount
    BY <1>3 DEF FastPath
  <2>2. Item.len \in Nat /\ n \in Nat
    BY <1>2, DirectiveProps, LengthProps
  <2>a. fmtLen \in Int /\ fmtLen < FMT_BUFFLEN /\ buffLen \in Int /\ taken \in Int
    BY <2>2 DEF FMT_BUFFLEN, PRINTF_BUFFLEN
  <2>b. Demand(Item) = taken /\ Stars(Item) = 0
    BY <1>1 DEF Demand, Stars, LeftToSlowPath, Plain, Absent
  <2>c. Sprintf(Item) < buffLen
    BY <1>1, <1>2, <1>3, PlainFits DEF LeftToSlowPath
  <2> HIDE DEF fmtLen, buffLen, taken
  <2>3. Types'
    <3>1. conv' \in Conversion
      BY <2>0, <2>2, <2>a DEF Conversion
    <3> QED BY <1>1, <2>1, <2>a, <3>1 DEF Types
  <2>4. AtOneDirective'
    BY <1>1, <1>2, <2>1 DEF AtOneDirective
  <2>5. PutBefore'
    BY <1>1, <2>1 DEF PutBefore
  <2>6. TakenBefore'
    <3>2. /\ ArgsOf(format)[f] = ArgsOf(format)[f - 1] + Demand(Item) + Stars(Item)
          /\ ArgsOf(format)[f - 1] \in Int
      BY <1>2, ArgsProps DEF Item
    <3>3. args' = ArgsOf(format)[f]
      BY <1>1, <2>1, <2>a, <2>b, <3>2 DEF TakenBefore
    <3> QED BY <1>1, <2>1, <3>3 DEF TakenBefore
  <2>7. ResultInHand'
    BY <1>2, <2>0 DEF ResultInHand
  <2>8. BuffersSuffice'
    <3>1. conv'.buffLen = buffLen /\ conv'.fmtLen = fmtLen
      BY <2>0
    <3> QED BY <1>2, <2>a, <2>c, <3>1 DEF BuffersSuffice
  <2>9. EndsWithAll'
    BY <2>1 DEF EndsWithAll
  <2> QED BY <2>3, <2>4, <2>5, <2>6, <2>7, <2>8, <2>9 DEF IInv
<1>4. CASE ~PerformAccepts(Item)
  <2>1. ErrorReturn /\ UNCHANGED <<args, conv>>
    BY <1>4 DEF FastPath
  <2> QED BY <1>1, <2>1, ErrorPreserves
<1> QED BY <1>3, <1>4

\* The slow path takes over at the same directive, with nothing taken for it.
LEMMA FastPathFailsPreserves ==
    ASSUME IInv, FastPathFails
    PROVE  IInv'
<1>1. /\ Types /\ TakenBefore /\ PutBefore
      /\ at = "scan" /\ f <= Len(format) /\ Item.op # "literal" /\ at' = "slow"
      /\ UNCHANGED <<format, f, streamCount, put, args, auxBuffLen, conv>>
  BY DEF IInv, FastPathFails, AtDirective
<1>2. Types'
  BY <1>1 DEF Types
<1>3. AtOneDirective'
  BY <1>1 DEF AtOneDirective, Item
<1>4. PutBefore'
  BY <1>1 DEF PutBefore
<1>5. TakenBefore'
  BY <1>1 DEF TakenBefore
<1>6. ResultInHand' /\ EndsWithAll' /\ BuffersSuffice'
  BY <1>1 DEF ResultInHand, EndsWithAll, BuffersSuffice
<1> QED BY <1>2, <1>3, <1>4, <1>5, <1>6 DEF IInv

\* The slow path takes the stars and one argument, and the buffer it finds is at
\* least what it bounds the result by.
LEMMA SlowPathPreserves ==
    ASSUME IInv, SlowPath
    PROVE  IInv'
<1>1. /\ Types /\ TakenBefore /\ PutBefore
      /\ at = "slow" /\ f <= Len(format) /\ Item.op # "literal"
      /\ UNCHANGED <<format, f, put>>
  BY DEF IInv, SlowPath, AtDirective
<1>2. /\ format \in Seq(Directive) /\ Item \in Directive /\ Item' = Item
      /\ f - 1 \in 0 .. Len(format) /\ f \in 1 .. Len(format)
  BY <1>1, StateProps DEF Item
<1>3. CASE ScanAccepts(Item) /\ BoundAccepts(Item) /\ PerformAccepts(Item)
  <2>0. PICK exp \in Exponents(Item), n \in Strlens(Item) :
            LET required == BufferFor(Item, exp)
            IN  /\ auxBuffLen' = Allocated(required)
                /\ conv' = [fmtLen |-> FmtLength(Item),
                            buffLen |-> IF required <= PRINTF_BUFFLEN
                                        THEN PRINTF_BUFFLEN ELSE Allocated(required),
                            buffCount |-> n]
    BY <1>3 DEF SlowPath
  <2> DEFINE required == BufferFor(Item, exp)
             buffLen == IF required <= PRINTF_BUFFLEN
                        THEN PRINTF_BUFFLEN ELSE Allocated(required)
             natural == Natural(Item, Precision(Item))
  <2>1. /\ auxBuffLen' = Allocated(required)
        /\ conv' = [fmtLen |-> FmtLength(Item), buffLen |-> buffLen, buffCount |-> n]
        /\ args' = args + ScanReads(Item) + PerformReads(Item)
        /\ at' = "emit" /\ streamCount' = streamCount
    BY <1>3, <2>0 DEF SlowPath
  <2>2. required \in Int /\ (~BeyondDouble(Item) => natural < required)
    BY <1>2, <1>3, BoundSuffices
  <2> HIDE DEF required
  <2>3. /\ auxBuffLen' \in Int /\ buffLen \in Int
        /\ required <= buffLen /\ PRINTF_BUFFLEN <= buffLen
    BY <1>1, <2>1, <2>2 DEF Types, Allocated, Larger, PRINTF_BUFFLEN
  <2>4. FmtLength(Item) \in Nat /\ FmtLength(Item) < FMT_BUFFLEN
    BY <1>2, <1>3, RebuiltFits
  <2>5. natural \in Nat /\ n \in Nat /\ Abs(Item.width.v) \in Nat
    BY <1>2, LengthProps
  <2>6. /\ ScanReads(Item) + PerformReads(Item) = Demand(Item) + Stars(Item)
        /\ Stars(Item) \in Int /\ Demand(Item) \in Int
        /\ ScanReads(Item) \in Int /\ PerformReads(Item) \in Int
    <3>1. Stars(Item) \in Int
      BY DEF Stars
    <3>2. Demand(Item) = 1
      BY <1>1, <1>3 DEF Demand, BoundAccepts
    <3>3. CASE Item.op \in {"s", "f"}
      <4>1. ScanReads(Item) = Stars(Item) + 1 /\ PerformReads(Item) = 0
        BY <3>3 DEF ScanReads, PerformReads
      <4> QED BY <3>1, <3>2, <4>1
    <3>4. CASE Item.op \notin {"s", "f"}
      <4>1. ScanReads(Item) = Stars(Item) + 0 /\ PerformReads(Item) = 1
        BY <3>4 DEF ScanReads, PerformReads
      <4> QED BY <3>1, <3>2, <4>1
    <3> QED BY <3>1, <3>3, <3>4
  <2> HIDE DEF buffLen
  <2>7. Types'
    <3>1. conv' \in Conversion
      BY <2>1, <2>3, <2>4, <2>5 DEF Conversion
    <3>2. args' \in Int
      <4>1. args \in Int
        BY <1>1 DEF Types
      <4> QED BY <2>1, <2>6, <4>1
    <3> QED BY <1>1, <2>1, <2>3, <3>1, <3>2 DEF Types
  <2>8. AtOneDirective'
    BY <1>1, <1>2, <2>1 DEF AtOneDirective
  <2>9. PutBefore'
    BY <1>1, <2>1 DEF PutBefore
  <2>10. TakenBefore'
    <3>1. /\ ArgsOf(format)[f] = ArgsOf(format)[f - 1] + Demand(Item) + Stars(Item)
          /\ ArgsOf(format)[f - 1] \in Int
      BY <1>2, ArgsProps DEF Item
    <3>2. args = ArgsOf(format)[f - 1]
      BY <1>1 DEF TakenBefore
    <3>3. args' = ArgsOf(format)[f]
      <4>1. \A a, r, p, dm, st \in Int : r + p = dm + st => a + r + p = a + dm + st
        OBVIOUS
      <4> QED BY <2>1, <2>6, <3>1, <3>2, <4>1
    <3> QED BY <1>1, <2>1, <3>3 DEF TakenBefore
  <2>11. ResultInHand'
    BY <1>2, <2>1 DEF ResultInHand
  <2>12. BuffersSuffice'
    <3>1. conv'.fmtLen < FMT_BUFFLEN
      BY <2>1, <2>4
    <3>2. ASSUME Abs(Item.width.v) < Larger(PRINTF_BUFFLEN, natural), ~BeyondDouble(Item)
          PROVE  Sprintf(Item) < buffLen
      <4>1. Sprintf(Item) = Larger(natural, Abs(Item.width.v))
        BY DEF Sprintf, Padded
      <4> HIDE DEF natural
      <4> QED BY <2>2, <2>3, <2>5, <3>2, <4>1 DEF Larger, PRINTF_BUFFLEN
    <3>3. conv'.buffLen = buffLen
      BY <2>1
    <3> QED BY <1>2, <3>1, <3>2, <3>3 DEF BuffersSuffice
  <2>13. EndsWithAll'
    BY <2>1 DEF EndsWithAll
  <2> QED BY <2>7, <2>8, <2>9, <2>10, <2>11, <2>12, <2>13 DEF IInv
<1>4. CASE ~(ScanAccepts(Item) /\ BoundAccepts(Item) /\ PerformAccepts(Item))
  <2>1. ErrorReturn /\ UNCHANGED <<auxBuffLen, conv, args>>
    BY <1>4 DEF SlowPath
  <2> QED BY <1>1, <2>1, ErrorPreserves
<1> QED BY <1>3, <1>4

\* The result in hand goes out.
LEMMA EmitPreserves ==
    ASSUME IInv, Emit
    PROVE  IInv'
<1>1. /\ Types /\ AtOneDirective /\ TakenBefore /\ ResultInHand /\ at = "emit"
      /\ PutStr(conv.buffCount) /\ UNCHANGED <<format, args, auxBuffLen, conv>>
  BY DEF IInv, Emit
<1>2. f <= Len(format) /\ conv.buffCount \in Strlens(Item) /\ args = ArgsOf(format)[f]
  BY <1>1 DEF AtOneDirective, TakenBefore, ResultInHand
<1>3. conv.buffCount \in Nat
  BY <1>1, <1>2, StateProps, LengthProps
<1> QED BY <1>1, <1>2, <1>3, PutStrPreserves

\* A failed assertion ends the process.
LEMMA AssertFailsPreserves ==
    ASSUME IInv, AssertFails
    PROVE  IInv'
<1>1. /\ Types /\ at' = "aborted"
      /\ UNCHANGED <<format, f, streamCount, put, args, auxBuffLen, conv>>
  BY DEF IInv, AssertFails
<1>2. Types'
  BY <1>1 DEF Types
<1>3. /\ AtOneDirective' /\ PutBefore' /\ TakenBefore' /\ ResultInHand' /\ EndsWithAll'
      /\ BuffersSuffice'
  BY <1>1 DEF AtOneDirective, PutBefore, TakenBefore, ResultInHand, EndsWithAll, BuffersSuffice
<1> QED BY <1>2, <1>3 DEF IInv

\* Every step of a call preserves the invariant.
LEMMA NextIInv == IInv /\ [PrintfNext]_printfVars => IInv'
<1> SUFFICES ASSUME IInv, [PrintfNext]_printfVars PROVE IInv'
  OBVIOUS
<1>1. CASE NormalReturn
  BY <1>1, NormalReturnPreserves
<1>2. CASE Literal
  BY <1>2, LiteralPreserves
<1>3. CASE FastPath
  BY <1>3, FastPathPreserves
<1>4. CASE FastPathFails
  BY <1>4, FastPathFailsPreserves
<1>5. CASE SlowPath
  BY <1>5, SlowPathPreserves
<1>6. CASE Emit
  BY <1>6, EmitPreserves
<1>7. CASE AssertFails
  BY <1>7, AssertFailsPreserves
<1>8. CASE UNCHANGED printfVars
  BY <1>8 DEF printfVars, IInv, Types, AtOneDirective, PutBefore, TakenBefore, ResultInHand,
              EndsWithAll, BuffersSuffice, Item
<1> QED BY <1>1, <1>2, <1>3, <1>4, <1>5, <1>6, <1>7, <1>8 DEF PrintfNext

-----------------------------------------------------------------------------
(* Theorems.                                                               *)

\* In every state of a call of FCGX_VFPrintF the result is the number of bytes put,
\* the arguments taken are those of the items before the one in hand, and so are the
\* bytes unless the code has left C.
THEOREM IInvariant == PrintfSpec => []IInv
<1> QED BY InitIInv, NextIInv, PTL DEF PrintfSpec

\* For every format, of any length: at each directive the arguments taken with
\* va_arg are those that the directives before it have in C; what the call returns is
\* what it put; and both are what C makes of the format, until a precision is
\* negative or a character is NUL.
THEOREM CallInStep == PrintfSpec => []InStep
<1>1. IInv => InStep
  BY DEF IInv, TakenBefore, PutBefore, EndsWithAll, InStep, ArgsInStep, ReturnsWhatItPut
<1> QED BY <1>1, IInvariant, PTL

\* For every format: a directive that is rebuilt fits fmtBuff, and a result its
\* buffer, unless a width of the buffer's length or more makes it or a long double
\* is beyond the range of double.
THEOREM BuffersAreEnough == PrintfSpec => []BuffersSuffice
<1>1. IInv => BuffersSuffice
  BY DEF IInv
<1> QED BY <1>1, IInvariant, PTL
=============================================================================
