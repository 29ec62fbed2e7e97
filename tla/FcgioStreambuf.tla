--------------------------- MODULE FcgioStreambuf ---------------------------
(***************************************************************************)
(* fcgio.cpp: an fcgi_streambuf between C++ iostreams and a stream of the  *)
(* request in hand, with a buffer of its own or without.  The members of   *)
(* std::streambuf that call it are those of libstdc++.                     *)
(*                                                                         *)
(* The program keeps to what fcgio.h asks of it: a streambuf that has a    *)
(* buffer and is written to is flushed, or destroyed, before the request   *)
(* is finished or the next accepted; and it is attached to the stream of   *)
(* the next request before it is used again.                               *)
(***************************************************************************)
EXTENDS FcgxRequest, Sequences, SequencesExt

CONSTANTS
    BufSize,    \* of the buffer that the program gives a streambuf
    StdinLen,   \* bytes of FCGI_STDIN of every request
    DataLen,    \* bytes of FCGI_DATA behind it
    MaxWritten  \* bytes that the program writes into a streambuf, a bound for TLC

ASSUME SizesAssumption ==
    /\ BufSize \in Nat \ {0}
    /\ StdinLen \in Nat /\ DataLen \in Nat /\ MaxWritten \in Nat

VARIABLES
    sb,         \* the streambuf
    in,         \* the input stream of the request in hand
    wrote,      \* bytes that iostreams have been told are written
    taken,      \* bytes the FCGX stream has taken, as long as no call has failed
    got,        \* bytes the program has read from it
    failed      \* a call for output has returned EOF

bufVars == <<sb, in, wrote, taken, got, failed>>
outVars == <<wrote, taken, failed>>

Upto(m, n) == [i \in 1 .. (n - m) |-> m + i]
Least(a, b) == IF a < b THEN a ELSE b

\* The bytes written to the stream of request k.
Written(k, m, n) == [i \in 1 .. (n - m) |-> <<k, m + i>>]

NoBuf == [exists |-> FALSE, fcgx |-> NoStream, way |-> "out", bufsize |-> 0,
          put |-> <<>>, get |-> <<>>, over |-> FALSE, from |-> 0, synced |-> TRUE]
NewInput == [pos |-> 0, type |-> "stdin", closed |-> FALSE, lost |-> FALSE]

BufInit ==
    /\ sb = NoBuf /\ in = NewInput
    /\ wrote = 0 /\ taken = <<>> /\ got = <<>> /\ failed = FALSE

\* The program writes and reads with the stream of the request in hand only.
Serving(way) == pc = "app" /\ sb.exists /\ sb.way = way /\ Live(sb.fcgx)
-----------------------------------------------------------------------------
(***************************************************************************)
(* The FCGX calls.                                                         *)
(***************************************************************************)

\* FCGX_PutStr and FCGX_PutChar: all of it, or with a lost connection a prefix.
FCGX_PutStr(s) ==
    {[took |-> s, ok |-> TRUE]}
    \cup {[took |-> SubSeq(s, 1, m), ok |-> FALSE] : m \in IF broken THEN 0 .. Len(s) - 1 ELSE {}}

End == IF in.type = "stdin" THEN StdinLen ELSE StdinLen + DataLen

\* FCGX_GetStr and FCGX_GetChar: n bytes, or fewer at the end of the input, when
\* the stream is closed.
FCGX_GetStr(n) ==
    LET m == IF in.closed \/ in.lost THEN 0 ELSE Least(n, End - in.pos) IN
    {[in EXCEPT !.pos = @ + m, !.closed = @ \/ m < n]}
    \cup {[in EXCEPT !.pos = @ + j, !.closed = TRUE, !.lost = TRUE] :
            j \in IF broken /\ m > 0 THEN 0 .. m - 1 ELSE {}}

Between(old, new) == Upto(old.pos, new.pos)

\* FCGX_UnGetChar of the byte that FCGX_GetChar has returned; not of EOF.
FCGX_UnGetChar(new) == IF new.pos > in.pos THEN [new EXCEPT !.pos = @ - 1] ELSE new
-----------------------------------------------------------------------------
(***************************************************************************)
(* Construction and attaching.                                             *)
(***************************************************************************)

\* reset(): both areas are empty.
Reset(s) == [s EXCEPT !.put = <<>>, !.get = <<>>, !.over = FALSE]

\* Fault: attach() keeps what the areas hold.
AttachedTo(s) == [s EXCEPT !.fcgx = request.streams]

Serve(s) ==
    /\ sb' = [s EXCEPT !.from = in.pos, !.synced = TRUE]
    /\ wrote' = 0 /\ taken' = <<>> /\ got' = <<>> /\ failed' = FALSE
    /\ UNCHANGED <<requestVars, in>>

Construct ==
    /\ pc = "app" /\ Live(request.streams)
    /\ ~sb.exists
    /\ \E way \in {"in", "out"}, size \in {0, BufSize} :
        Serve([NoBuf EXCEPT !.exists = TRUE, !.way = way, !.bufsize = size,
                            !.fcgx = request.streams])

AttachOf(s) ==
    IF s.bufsize = 0 THEN AttachedTo(s) ELSE Reset(AttachedTo(s))

Attach ==
    /\ pc = "app" /\ Live(request.streams)
    /\ sb.exists /\ sb.fcgx # request.streams
    /\ Serve(AttachOf(sb))

\* Refused when there is a buffer.
Setbuf ==
    /\ pc = "app" /\ sb.exists
    /\ sb' = IF sb.bufsize > 0 THEN sb ELSE Reset([sb EXCEPT !.bufsize = BufSize])
    /\ UNCHANGED <<requestVars, in, outVars, got>>
-----------------------------------------------------------------------------
(***************************************************************************)
(* Output.                                                                 *)
(***************************************************************************)

\* Fault: the put area is sent, and kept.
KeepsSent(area, c) ==
    {[put |-> area, took |-> o.took, ok |-> o.ok] : o \in FCGX_PutStr(area \o c)}

\* overflow(): the put area first, which stays unless it is sent whole, then c: a
\* byte, or none for EOF.
Overflow(area, c) ==
    UNION {IF ~o.ok THEN {[put |-> area, took |-> o.took, ok |-> FALSE]}
           ELSE {[put |-> <<>>, took |-> o.took \o p.took, ok |-> p.ok] :
                    p \in FCGX_PutStr(c)} :
           o \in FCGX_PutStr(area)}

\* sputn into a buffer: what there is room for, through overflow() with the next
\* byte, and the rest.  What was put into the area is told to be written.
Sputn(s) ==
    LET room == sb.bufsize - Len(sb.put)
        fits == SubSeq(s, 1, Least(Len(s), room))
        rest == SubSeq(s, room + 2, Len(s))
    IN
    IF Len(s) <= room
    THEN {[put |-> sb.put \o s, took |-> <<>>, ok |-> TRUE, told |-> Len(s)]}
    ELSE {[put |-> o.put \o (IF o.ok THEN rest ELSE <<>>), took |-> o.took,
           ok |-> o.ok, told |-> IF o.ok THEN Len(s) ELSE Len(fits)] :
            o \in Overflow(sb.put \o fits, <<s[room + 1]>>)}

\* xsputn() without a buffer hands everything on.
Unbuffered(s) ==
    {[put |-> <<>>, took |-> o.took, ok |-> o.ok, told |-> IF o.ok THEN Len(s) ELSE 0] :
        o \in FCGX_PutStr(s)}

Hands(took, ok) ==
    /\ failed' = (failed \/ ~ok)
    /\ taken' = IF failed' THEN <<>> ELSE taken \o took

Write ==
    /\ Serving("out")
    /\ \E n \in 1 .. BufSize + 1 :
        LET s == Written(sb.fcgx, wrote, wrote + n) IN
        /\ wrote + n <= MaxWritten
        /\ \E o \in IF sb.bufsize > 0 THEN Sputn(s) ELSE Unbuffered(s) :
            /\ sb' = [sb EXCEPT !.put = o.put, !.synced = FALSE]
            /\ wrote' = wrote + o.told
            /\ Hands(o.took, o.ok)
    /\ UNCHANGED <<requestVars, in, got>>

\* sync(): FCGX_FFlush may fail as well, but not of a stream that has failed before.
Sync ==
    /\ Serving("out")
    /\ \E o \in Overflow(sb.put, <<>>) :
        /\ sb' = [sb EXCEPT !.put = o.put, !.synced = TRUE]
        /\ \/ Hands(o.took, o.ok)
           \/ broken /\ ~failed /\ Hands(o.took, FALSE)
    /\ UNCHANGED <<requestVars, in, wrote, got>>

\* The destructor flushes into FCGX; what it reaches of a freed stream, after a
\* flush that failed, is not in the model.
Destroy ==
    /\ pc = "app" /\ sb.exists
    /\ \E o \in IF Live(sb.fcgx) THEN Overflow(sb.put, <<>>)
                ELSE {[put |-> sb.put, took |-> <<>>, ok |-> TRUE]} :
        /\ sb' = [sb EXCEPT !.exists = FALSE, !.put = o.put, !.synced = TRUE]
        /\ Hands(o.took, o.ok)
    /\ UNCHANGED <<requestVars, in, wrote, got>>
-----------------------------------------------------------------------------
(***************************************************************************)
(* Input.                                                                  *)
(***************************************************************************)

Reading == Serving("in") /\ ~sb.over

\* underflow(), by sgetc: fills an empty get area, or looks at a byte of the
\* stream and puts it back.
Underflow ==
    /\ Reading
    /\ sb.get = <<>>
    /\ \E new \in FCGX_GetStr(IF sb.bufsize > 0 THEN BufSize ELSE 1) :
        IF sb.bufsize > 0
        THEN in' = new /\ sb' = [sb EXCEPT !.get = Upto(in.pos, new.pos)]
        ELSE in' = FCGX_UnGetChar(new) /\ sb' = sb
    /\ UNCHANGED <<requestVars, outVars, got>>

\* Fault: the byte that was returned stays in the get area.
Looks(area) == [get |-> area, c |-> SubSeq(area, 1, Least(1, Len(area))), over |-> FALSE]

\* gbump(1), at the end of the input as well: then the get pointer is behind the
\* end of the area, in_avail() is not 0, and every read is of what lies there.
Bumps(area) ==
    IF area = <<>> THEN [get |-> <<>>, c |-> <<>>, over |-> TRUE]
    ELSE [get |-> Tail(area), c |-> <<Head(area)>>, over |-> FALSE]

\* uflow(), by sbumpc: through underflow() if the area is empty.
Uflow ==
    /\ Reading
    /\ IF sb.bufsize = 0
       THEN \E new \in FCGX_GetStr(1) :
            /\ in' = new /\ sb' = sb
            /\ got' = got \o Upto(in.pos, new.pos)
       ELSE \E new \in IF sb.get = <<>> THEN FCGX_GetStr(BufSize) ELSE {in} :
            LET b == Bumps(sb.get \o Upto(in.pos, new.pos)) IN
            /\ in' = new
            /\ sb' = [sb EXCEPT !.get = b.get, !.over = b.over]
            /\ got' = got \o b.c
    /\ UNCHANGED <<requestVars, outVars>>

\* xsgetn() without a buffer; with one it is uflow() again and again.
Xsgetn ==
    /\ Reading
    /\ sb.bufsize = 0
    /\ \E n \in 2 .. BufSize + 1 : \E new \in FCGX_GetStr(n) :
        /\ in' = new
        /\ got' = got \o Upto(in.pos, new.pos)
    /\ UNCHANGED <<requestVars, sb, outVars>>

\* FCGX_StartFilterData: at the end of FCGI_STDIN, or an error, after which the
\* reader may be in the middle of a record.
StartFilterData ==
    /\ pc = "app" /\ Live(request.streams)
    /\ \/ /\ in.closed /\ in.type = "stdin"
          /\ in' = [in EXCEPT !.type = "data", !.closed = FALSE]
          /\ UNCHANGED requestVars
       \/ /\ in' = [in EXCEPT !.closed = TRUE, !.lost = TRUE]
          /\ InputFails
    /\ UNCHANGED <<sb, outVars, got>>
-----------------------------------------------------------------------------
(***************************************************************************)
(* From request to request.                                                *)
(***************************************************************************)

\* What fcgio.h asks of a program.
MayFinish == sb.exists /\ sb.bufsize > 0 => sb.synced

Finishes ==
    /\ MayFinish
    /\ \/ AcceptBegins
       \/ pc = "app" /\ FCGX_Finish /\ UNCHANGED pc
    /\ UNCHANGED bufVars

Accepts ==
    /\ AcceptReads
    /\ in' = NewInput
    /\ UNCHANGED <<sb, outVars, got>>

Others ==
    /\ AcceptConnects \/ AcceptRetries \/ AcceptFails \/ FCGX_Attach \/ FCGX_Detach \/ HangUp
    /\ UNCHANGED bufVars

BufNext ==
    \/ Construct \/ Attach \/ Setbuf \/ Write \/ Sync \/ Destroy
    \/ Underflow \/ Uflow \/ Xsgetn \/ StartFilterData
    \/ Finishes \/ Accepts \/ Others

BufSpec == RequestInit /\ BufInit /\ [][BufNext]_<<requestVars, bufVars>>
-----------------------------------------------------------------------------
\* Unless a call has failed, the stream has taken and the put area holds, in
\* order and once, every byte that iostreams were told is written, and the area
\* holds nothing any more once the stream is freed or the streambuf destroyed.
OutputSurvives ==
    sb.way = "out" /\ ~failed =>
        /\ taken \o sb.put = Written(sb.fcgx, 0, wrote)
        /\ sb.put # <<>> => sb.exists /\ Live(sb.fcgx)

\* What the program has read and what waits in the get area is the input from
\* where the streambuf began, in order and without a gap, also from FCGI_STDIN to
\* FCGI_DATA; but a buffered read that has met the end of the input reads on.
InputSurvives ==
    sb.exists /\ sb.way = "in" /\ Live(sb.fcgx) /\ ~sb.over =>
        got \o sb.get = Upto(sb.from, in.pos)
=============================================================================
