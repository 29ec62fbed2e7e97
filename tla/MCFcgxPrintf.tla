---------------------------- MODULE MCFcgxPrintf ----------------------------
(* Every directive alone, over sizes at which a limit of the code lies, and *)
(* pairs of directives that share a buffer or take arguments differently.   *)
EXTENDS FcgxPrintf

Numbers(kind, vs) == {[kind |-> kind, v |-> v] : v \in vs}
Widths == {Absent} \cup Numbers("digits", {1, 99, 100, 150, 999999, 1000000})
                   \cup Numbers("star", {-1000000, -999999, -150, 12})
Precisions == {Absent, [kind |-> "bare", v |-> 0]}
              \cup Numbers("digits", {2, 120, 999999, 1000000})
              \cup Numbers("star", {-3, 95, 1000000})

Directives ==
    [flags : {0, 5, 6}, width : Widths, prec : Precisions,
     mod : {" ", "l", "L"}, op : {"d", "e", "n", "%", "unknown"}, len : {20}]
    \cup
    [flags : {0, 1}, width : Widths, prec : Precisions,
     mod : {" ", "L", "h"}, op : {"s", "f"}, len : {1, 91, 309}]
    \cup
    [flags : {0}, width : Widths, prec : {Absent}, mod : {" ", "l"},
     op : {"p", "end"}, len : {1}]
    \cup
    [flags : {0, 1}, width : Widths, prec : {Absent}, mod : {" "},
     op : {"c"}, len : {0, 1}]

D(op, len, width, prec) ==
    [flags |-> 0, width |-> width, prec |-> prec, mod |-> " ", op |-> op, len |-> len]
Star(v) == [kind |-> "star", v |-> v]
Few ==
    {D("literal", 1, Absent, Absent), D("literal", 200, Absent, Absent),
     D("d", 5, Absent, Absent), D("s", 300, Absent, Absent), D("s", 300, Star(3), Absent),
     D("s", 200, Absent, Star(150)), D("f", 309, Absent, Absent),
     D("f", 1, Star(-12), Star(3)), D("e", 1, Star(40), Absent),
     D("n", 0, Absent, Absent), D("%", 1, Absent, Absent),
     D("c", 0, Star(12), Absent), D("s", 5, Absent, Star(-3))}

MCFormats == {<<d>> : d \in Directives} \cup {<<a, b, c>> : a, b, c \in Few}
=============================================================================
