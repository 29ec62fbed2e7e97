----------------------------- MODULE FcgxPrintf -----------------------------
(***************************************************************************)
(* FCGX_VFPrintF of fcgiapp.c.  A format is a sequence of literal runs and *)
(* directives; of a text only its length counts.  Each directive is tried  *)
(* on the fast path, which has no flags, widths or precisions, and if that *)
(* does not do it on the slow path, which bounds the length of the result, *)
(* finds a buffer and rebuilds the directive for sprintf(3).               *)
(***************************************************************************)
EXTENDS Integers, Sequences

CONSTANT Formats    \* the formats that the application prints

\* A width or a precision: none, digits in the format, or the int of a star; and
\* a precision may be a period alone.
Absent == [kind |-> "none", v |-> 0]
Sizes == {Absent} \cup [kind : {"digits"}, v : Nat] \cup [kind : {"star"}, v : Int]
Bare == [kind |-> "bare", v |-> 0]

\* A directive: its flags, its width and precision, its modifier and operation,
\* and the size of its argument: the bytes of a string or of an integer, the digits
\* that a number has before its point, 0 for the character NUL.  Without a precision
\* no pointer or integer of 64 bits takes more than the 46 bytes that the code has
\* for it, and no double has more than 309 digits.  A run of literals is an item as a
\* directive is.
Directive ==
    {d \in [flags : Nat, width : Sizes, prec : Sizes \cup {Bare},
            mod : {" ", "l", "L", "h"}, op : STRING, len : Nat] :
        /\ d.op \in {"d", "p"} => d.len <= 46
        /\ d.op = "f" /\ d.mod # "L" => d.len <= 309
        /\ d.op = "literal" => d.width = Absent /\ d.prec = Absent}

ASSUME FormatsAssumption == Formats \subseteq Seq(Directive)

PRINTF_BUFFLEN == 100
FMT_BUFFLEN == 25

VARIABLES
    format,         \* the call's format
    f,              \* the item it is at
    at,             \* "scan", "slow", "emit", "done"; "aborted" by ASSERT
    streamCount,    \* becomes the result
    put,            \* the bytes that the stream took
    args,           \* the arguments taken with va_arg
    auxBuffLen,     \* 0 for no buffer
    conv            \* the conversion in hand

printfVars == <<format, f, at, streamCount, put, args, auxBuffLen, conv>>

Larger(a, b) == IF a > b THEN a ELSE b
Smaller(a, b) == IF a < b THEN a ELSE b
Abs(n) == IF n < 0 THEN -n ELSE n

\* The digits of a number; eight stands for all that has more than seven.
Digits(n) ==
    CHOOSE k \in 1 .. 8 :
        (n < 10^k \/ k = 8) /\ (n >= 10^(k - 1) \/ k = 1)

Item == format[f]
Plain(d) == d.flags = 0 /\ d.width = Absent /\ d.prec = Absent
Stars(d) == (IF d.width.kind = "star" THEN 1 ELSE 0)
            + (IF d.prec.kind = "star" THEN 1 ELSE 0)
-----------------------------------------------------------------------------
(***************************************************************************)
(* What C makes of a directive.                                            *)
(***************************************************************************)

\* A negative precision counts as none.
CPrecision(d) ==
    CASE d.prec.kind = "none" -> -1
      [] d.prec.kind = "bare" -> 0
      [] OTHER -> IF d.prec.v < 0 THEN -1 ELSE d.prec.v

Decimals(prec) == IF prec = -1 THEN 6 ELSE prec

\* The length without a width; a number's is at most that, with a sign or 0x, and
\* the exponent of a long double has a digit more.
Natural(d, prec) ==
    CASE d.op = "d" -> Larger(d.len, prec + 2)
      [] d.op \in {"c", "%"} -> 1
      [] d.op \in {"p", "literal"} -> d.len
      [] d.op = "s" -> IF prec = -1 THEN d.len ELSE Smaller(d.len, prec)
      [] d.op = "f" -> d.len + 2 + Decimals(prec)
      [] d.op = "e" -> Decimals(prec) + (IF d.mod = "L" THEN 9 ELSE 8)
      [] OTHER -> 0

Padded(d, n) == Larger(n, Abs(d.width.v))

\* The bytes that printf(3) prints.
CLength(d) == Padded(d, Natural(d, CPrecision(d)))
-----------------------------------------------------------------------------
(***************************************************************************)
(* What the code makes of it, and the bound it computes.                   *)
(***************************************************************************)

\* A negative precision is made 0, and is 0 in the directive that is rebuilt.
Precision(d) ==
    CASE d.prec.kind = "none" -> -1
      [] d.prec.kind = "bare" -> 0
      [] OTHER -> Larger(d.prec.v, 0)

\* The bytes that sprintf(3) puts into the buffer, without the end of the string.
Sprintf(d) == Padded(d, Natural(d, Precision(d)))

PrintsNul(d) == d.op = "c" /\ d.len = 0

\* What strlen makes of them: a NUL is the end, behind its padding or before it.
Strlens(d) ==
    IF PrintsNul(d) THEN {0, Larger(Abs(d.width.v) - 1, 0)} ELSE {Sprintf(d)}

\* The binary exponent of the smallest number with len digits.
Frexp(len) == ((len - 1) * 3322) \div 1000 + 1

\* A long double that may be infinite when it is cast to double.
BeyondDouble(d) == d.op = "f" /\ d.mod = "L" /\ d.len >= 309

\* The exponent is taken of the cast; that of infinity is unspecified.
Exponents(d) == IF BeyondDouble(d) THEN {0, Frexp(d.len)} ELSE {Frexp(d.len)}

\* Fault: the exponent is taken for a number of binary digits to a decimal four.
ShortBound(d, exp) ==
    CASE d.op \in {"d", "c", "p"} -> Larger(Precision(d), 46)
      [] d.op = "s" -> IF Precision(d) = -1 THEN d.len ELSE Smaller(Precision(d), d.len)
      [] d.op = "f" -> Decimals(Precision(d)) + 3 + Larger(exp, 0) \div 4
      [] OTHER -> Decimals(Precision(d)) + 8

BuffReqd(d, exp) ==
    CASE d.op \in {"d", "c", "p"} -> Larger(Precision(d), 46)
      [] d.op = "s" -> IF Precision(d) = -1 THEN d.len ELSE Smaller(Precision(d), d.len)
      [] d.op = "f" -> Decimals(Precision(d)) + 3 + Larger(exp, 0) \div 3
      [] OTHER -> Decimals(Precision(d)) + 8

\* The width is not made absolute, and the end of the string has no room of its own.
BufferFor(d, exp) == Larger(BuffReqd(d, exp) + 10, d.width.v)
-----------------------------------------------------------------------------
(***************************************************************************)
(* Which directives are refused.                                           *)
(***************************************************************************)

WidthChars(w) ==
    CASE w.kind = "digits" -> Digits(w.v)
      [] w.kind = "star" -> Digits(Abs(w.v)) + (IF w.v < 0 THEN 1 ELSE 0)
      [] OTHER -> 0

PrecisionChars(p) ==
    CASE p.kind = "none" -> 0
      [] p.kind = "bare" -> 1
      [] OTHER -> 1 + Digits(Larger(p.v, 0))

FmtLength(d) ==
    1 + d.flags + WidthChars(d.width) + PrecisionChars(d.prec)
      + (IF d.mod = " " THEN 0 ELSE 1) + 1

ScanAccepts(d) ==
    /\ d.flags <= 5
    /\ d.width.kind = "digits" => Digits(d.width.v) <= 6
    /\ d.width.kind = "star" => Abs(d.width.v) <= 999999
    /\ d.prec.kind = "digits" => Digits(d.prec.v) <= 6
    /\ d.prec.kind = "star" => d.prec.v <= 999999

\* The operations that the bound knows.
BoundAccepts(d) ==
    /\ d.op \in {"d", "c", "p", "s", "f", "e"}
    /\ d.op = "f" => d.mod \in {" ", "L"}

\* The modifiers that an operation may have.
Modifiers(op) ==
    CASE op \in {"d", "n"} -> {" ", "l", "h"}
      [] op \in {"f", "e"} -> {" ", "L"}
      [] op \in {"c", "s", "p", "%"} -> {" "}
      [] OTHER -> {}

Operations == {"d", "c", "s", "p", "n", "f", "e", "%"}

\* The end of the format is no operation, and it is refused at once.
PerformAccepts(d) == d.op \in Operations /\ d.mod \in Modifiers(d.op)
-----------------------------------------------------------------------------
None == [fmtLen |-> 0, buffLen |-> 0, buffCount |-> 0]

\* A call with the format fmt.
Called(fmt) ==
    /\ format = fmt
    /\ f = 1 /\ at = "scan"
    /\ streamCount = 0 /\ put = 0 /\ args = 0
    /\ auxBuffLen = 0
    /\ conv = None

PrintfInit == \E fmt \in Formats : Called(fmt)

ErrorReturn ==
    /\ at' = "done"
    /\ streamCount' = -1

\* FCGX_PutStr of n bytes, all of them or, on a stream with an error, some.
PutStr(n) ==
    \/ /\ put' = put + n
       /\ streamCount' = streamCount + n
       /\ f' = f + 1
       /\ at' = "scan"
    \/ /\ n > 0
       /\ put' \in {put, put + n - 1}
       /\ ErrorReturn
       /\ UNCHANGED f

NormalReturn ==
    /\ at = "scan"
    /\ f > Len(format)
    /\ at' = "done"
    /\ UNCHANGED <<format, f, streamCount, put, args, auxBuffLen, conv>>

Literal ==
    /\ at = "scan"
    /\ f <= Len(format)
    /\ Item.op = "literal"
    /\ PutStr(Item.len)
    /\ UNCHANGED <<format, args, auxBuffLen, conv>>

AtDirective(path) == at = path /\ f <= Len(format) /\ Item.op # "literal"

\* Not performed: an operation that is none, as a flag or a digit is, and f.
LeftToSlowPath == ~Plain(Item) \/ Item.op \in {"f", "unknown"}

FastPath ==
    /\ AtDirective("scan")
    /\ ~LeftToSlowPath
    /\ IF PerformAccepts(Item)
       THEN /\ \E n \in Strlens(Item) :
                  conv' = [fmtLen |-> IF Item.mod = " " THEN 2 ELSE 3,
                           buffLen |-> IF Item.op = "s" THEN Item.len + 1
                                       ELSE PRINTF_BUFFLEN,
                           buffCount |-> n]
            /\ args' = args + (IF Item.op = "%" THEN 0 ELSE 1)
            /\ at' = "emit"
            /\ UNCHANGED streamCount
       ELSE ErrorReturn /\ UNCHANGED <<args, conv>>
    /\ UNCHANGED <<format, f, put, auxBuffLen>>

FastPathFails ==
    /\ AtDirective("scan")
    /\ LeftToSlowPath
    /\ at' = "slow"
    /\ UNCHANGED <<format, f, streamCount, put, args, auxBuffLen, conv>>

\* The scan takes the stars, the bound takes the argument of s and f.
ScanReads(d) == Stars(d) + (IF d.op \in {"s", "f"} THEN 1 ELSE 0)

\* Fault: performing takes an argument whatever the bound has taken.
ReadsAgain(d) == 1

PerformReads(d) == IF d.op \in {"s", "f"} THEN 0 ELSE 1

\* The buffer on the stack, or one that is kept until the call returns.
Allocated(required) ==
    IF required <= PRINTF_BUFFLEN THEN auxBuffLen ELSE Larger(auxBuffLen, required)

SlowPath ==
    /\ AtDirective("slow")
    /\ IF ScanAccepts(Item) /\ BoundAccepts(Item) /\ PerformAccepts(Item)
       THEN /\ \E exp \in Exponents(Item), n \in Strlens(Item) :
                  LET required == BufferFor(Item, exp)
                  IN  /\ auxBuffLen' = Allocated(required)
                      /\ conv' = [fmtLen |-> FmtLength(Item),
                                  buffLen |-> IF required <= PRINTF_BUFFLEN
                                              THEN PRINTF_BUFFLEN
                                              ELSE Allocated(required),
                                  buffCount |-> n]
            /\ args' = args + ScanReads(Item) + PerformReads(Item)
            /\ at' = "emit"
            /\ UNCHANGED streamCount
       ELSE ErrorReturn /\ UNCHANGED <<auxBuffLen, conv, args>>
    /\ UNCHANGED <<format, f, put>>

Emit ==
    /\ at = "emit"
    /\ conv.buffCount < conv.buffLen
    /\ PutStr(conv.buffCount)
    /\ UNCHANGED <<format, args, auxBuffLen, conv>>

\* What was written behind the end of the buffer before that is not modelled.
AssertFails ==
    /\ at = "emit"
    /\ conv.buffCount >= conv.buffLen
    /\ at' = "aborted"
    /\ UNCHANGED <<format, f, streamCount, put, args, auxBuffLen, conv>>

PrintfNext ==
    \/ NormalReturn \/ Literal
    \/ FastPath \/ FastPathFails \/ SlowPath \/ Emit \/ AssertFails

PrintfSpec == PrintfInit /\ [][PrintfNext]_printfVars
-----------------------------------------------------------------------------
\* What C asks of the items before the one in hand: how many arguments, and how
\* many bytes.
Demand(d) == IF d.op \in {"literal", "%"} THEN 0 ELSE 1

\* The totals of the first n of a sequence of numbers.
Totals(ns) ==
    LET total[n \in 0 .. Len(ns)] == IF n = 0 THEN 0 ELSE total[n - 1] + ns[n]
    IN  total

ArgsOf(items) == Totals([i \in 1 .. Len(items) |-> Demand(items[i]) + Stars(items[i])])
BytesOf(items) == Totals([i \in 1 .. Len(items) |-> CLength(items[i])])

\* Arguments are taken in step with the directives, on either path and wherever
\* the path takes them; one too many or too few misreads all that follow.
ArgsInStep == at = "scan" => args = ArgsOf(format)[f - 1]

\* Where the code leaves C: a negative precision, and the character NUL.
Differs(d) == d.prec.v < 0 \/ PrintsNul(d)
AsInC(items, n) == \A i \in 1 .. n : ~Differs(items[i])

\* The result, and what %n stores on the way, is the number of bytes that the
\* stream took or -1; and it is what C makes of the format up to the first item
\* where the code leaves C.
ReturnsWhatItPut ==
    /\ at = "scan" =>
          /\ streamCount = put
          /\ AsInC(format, f - 1) => put = BytesOf(format)[f - 1]
    /\ at = "done" =>
          /\ streamCount \in {-1, put}
          /\ AsInC(format, Len(format))
             => streamCount \in {-1, BytesOf(format)[Len(format)]}

\* At each directive the call is where C says: arguments, bytes and result.
InStep == ArgsInStep /\ ReturnsWhatItPut

\* A rebuilt directive fits fmtBuff, and what sprintf writes its buffer, as long as
\* no width of a buffer's length or more makes it and no long double is beyond the
\* range of double.
BuffersSuffice ==
    at = "emit" =>
        /\ conv.fmtLen < FMT_BUFFLEN
        /\ /\ Abs(Item.width.v) < Larger(PRINTF_BUFFLEN, Natural(Item, Precision(Item)))
           /\ ~BeyondDouble(Item)
           => Sprintf(Item) < conv.buffLen

\* ASSERT(buffCount < buffLen), whatever the width; but the bound of a long double
\* beyond the range of double is known to be too low.
ResultFitsBuffer ==
    at = "emit" /\ ~BeyondDouble(Item) => conv.buffCount < conv.buffLen
=============================================================================
