----------------------------- MODULE FcgxWriter -----------------------------
(***************************************************************************)
(* The output side of one FastCGI request (CGIKit/fcgiapp.c): the streams  *)
(* FCGX_Request.out and FCGX_Request.err, their buffers, the encapsulation *)
(* of buffered bytes into records, FCGX_FClose with its closing records,   *)
(* and FCGX_Finish_r, which closes both streams and keeps or closes the    *)
(* connection.  The two streams share the connection and nWriters.         *)
(*                                                                         *)
(* Data abstraction.  The n-th byte that a stream takes from the           *)
(* application is the number n, and a padding byte is 0, so a run of       *)
(* content is right exactly when it counts.  A record on the wire is its   *)
(* header; what the server decodes from a stream's records is received.    *)
(* A buffer is the bytes behind the space of the record header (body), or, *)
(* in rawWrite mode, a framed record (body) and 8-byte units (raw).        *)
(***************************************************************************)
EXTENDS Integers, Sequences

CONSTANTS
    BuffLen,    \* [Stream -> Nat]: data->bufflen of each stream
    Status,     \* the exit statuses the application may set
    Prints,     \* the output calls: each is the byte counts of its PutStrs
    MaxBytes    \* bound, [Stream -> Nat]: no new output call from so many bytes on

Stream == {"out", "err"}

\* NewStream: bufflen is rounded up to 8 within 32..FCGI_MAX_LENGTH+1, and
\* loses 8 when malloc's block is not 8-aligned (fcgiapp.c:1769-1775).
FCGI_MAX_LENGTH == 65535

ASSUME BuffLenAssumption ==
    /\ BuffLen \in [Stream -> Nat]
    /\ \A s \in Stream : /\ 24 <= BuffLen[s] /\ BuffLen[s] <= FCGI_MAX_LENGTH + 1
                         /\ BuffLen[s] % 8 = 0

ASSUME CallsAssumption ==
    /\ Status \subseteq Int /\ 0 \in Status
    /\ Prints \subseteq Seq(Nat)
    /\ MaxBytes \in [Stream -> Nat]

VARIABLES
    stream,     \* the FCGX_Stream and FCGX_Stream_Data of each stream
    nWriters,   \* FCGX_Request.nWriters
    appStatus,  \* FCGX_Request.appStatus
    keepConnection,  \* FCGX_Request.keepConnection
    conn,       \* "open", then what FCGX_Finish_r made of it
    call,       \* the library call in progress
    finish,     \* how far FCGX_Finish_r is
    link,       \* "down" once the server has closed its end
    wire,       \* headers and units of this request, as write(2) took them
    received,   \* the content the server decodes for each stream
    accepted,   \* bytes each stream took from the application
    failed,     \* ghost: some write of this stream's buffer failed
    cleared,    \* ghost: FCGX_ClearError dropped an error
    statusSet   \* ghost: this request set an exit status, and not 0

request == <<nWriters, appStatus, keepConnection, conn>>
peer == <<link, wire, received>>
ghosts == <<cleared, statusSet>>
vars == <<stream, request, call, finish, peer, accepted, failed, ghosts>>

HeaderLen == 8    \* sizeof(FCGI_Header)

-----------------------------------------------------------------------------
(* Records, and the buffer of one stream as a record r.                    *)

Header(type, cLen, pad) ==
    [type |-> type, cLen |-> cLen, pad |-> pad, status |-> 0]
EndBody(status) ==
    [type |-> "endBody", cLen |-> 0, pad |-> 0, status |-> status]

Unit == [type : Stream \cup {"end", "endBody"},
         cLen : Nat, pad : Nat, status : Status \cup {0}]

EofRecord(s) == <<Header(s, 0, 0)>>
EndRecord(status) == <<Header("end", 8, 0), EndBody(status)>>

\* Fault: rounds down.
AlignInt8Down(n) == (n \div 8) * 8
AlignInt8(n) == ((n + 7) \div 8) * 8

Zeros(n) == [i \in 1..n |-> 0]
Run(from, n) == [i \in 1..n |-> from + i]    \* n bytes after the from-th
Upto(n) == Run(0, n)

NewWriter == [body |-> <<>>, cLen |-> 0, raw |-> <<>>, rawWrite |-> FALSE,
              isClosed |-> FALSE, wasFCloseCalled |-> FALSE, error |-> FALSE,
              isAnythingWritten |-> FALSE]

\* wrNext - buff: the header's space is reclaimed when there is no content.
Used(r) == IF r.rawWrite /\ r.body = <<>>
           THEN 8 * Len(r.raw)
           ELSE HeaderLen + Len(r.body) + 8 * Len(r.raw)

\* Fault: FCGX_FClose leaves stop where it was.
RoomKept(s) == BuffLen[s] - Used(stream[s])
\* stop - wrNext: FCGX_FClose leaves stop = wrNext.
Room(s) == IF stream[s].wasFCloseCalled THEN 0
           ELSE BuffLen[s] - Used(stream[s])

\* EmptyBuffProc encapsulates: pad the content, fill in the header.
Framed(r) ==
    [r EXCEPT !.cLen = Len(r.body),
              !.body = r.body \o Zeros(AlignInt8(Len(r.body)) - Len(r.body))]

\* Fault: wrNext is not set back to buff.
EmptiedNot(r) == [r EXCEPT !.isAnythingWritten = TRUE]
Emptied(r) == [r EXCEPT !.body = <<>>, !.cLen = 0, !.raw = <<>>,
                        !.isAnythingWritten = TRUE]
\* Fault: SetError saves the code and does not close the stream.
ErroredOpen(r) == [r EXCEPT !.error = TRUE, !.isAnythingWritten = TRUE]
Errored(r) == [r EXCEPT !.error = TRUE, !.isClosed = TRUE,
                        !.isAnythingWritten = TRUE]
Closed(r) == [r EXCEPT !.wasFCloseCalled = TRUE, !.isClosed = TRUE]

DataUnit(s, r) == IF r.body = <<>> THEN <<>>
                  ELSE <<Header(s, r.cLen, Len(r.body) - r.cLen)>>
Units(s, r) == DataUnit(s, r) \o r.raw
\* Fault: the header counts the padding as content.
ContentPadded(r) == r.body
Content(r) == SubSeq(r.body, 1, r.cLen)

Idle == [op |-> "idle", s |-> "out", pieces |-> <<>>, todo |-> <<>>]

Init ==
    /\ stream = [s \in Stream |-> NewWriter]
    /\ nWriters = 2
    /\ appStatus = 0
    /\ keepConnection \in BOOLEAN
    /\ conn = "open"
    /\ call = Idle
    /\ finish = "no"
    /\ link = "up"
    /\ wire = <<>>
    /\ received = [s \in Stream |-> <<>>]
    /\ accepted = [s \in Stream |-> 0]
    /\ failed = [s \in Stream |-> FALSE]
    /\ cleared = FALSE
    /\ statusSet = FALSE

-----------------------------------------------------------------------------
(* write_it_all of what buffer r of s holds.  The stream ends as ok or as  *)
(* err.  A failing write may have passed k whole units on, and part of the *)
(* next one, which the wire leaves out (a signal without SA_RESTART after  *)
(* a short write), and the server may have closed the connection, which no *)
(* later write survives.                                                   *)

WriteOk(s, r, ok) ==
    /\ link = "up"
    /\ wire' = wire \o Units(s, r)
    /\ received' = [received EXCEPT ![s] = @ \o Content(r)]
    /\ stream' = [stream EXCEPT ![s] = ok]
    /\ UNCHANGED <<link, failed>>

WriteFails(s, r, err) ==
    \E k \in 0..(Len(Units(s, r)) - 1), to \in {"up", "down"} :
        /\ link = "down" => k = 0 /\ to = "down"
        /\ wire' = wire \o SubSeq(Units(s, r), 1, k)
        /\ received' = IF k = 0 THEN received
                       ELSE [received EXCEPT ![s] = @ \o Content(r)]
        /\ stream' = [stream EXCEPT ![s] = err]
        /\ link' = to
        /\ failed' = [failed EXCEPT ![s] = TRUE]

WriteItAll(s, r, ok, err) == WriteOk(s, r, ok) \/ WriteFails(s, r, err)

\* EmptyBuffProc(stream, FALSE) with something to write.
EmptyBuff(s) ==
    LET r == IF stream[s].rawWrite THEN stream[s] ELSE Framed(stream[s])
    IN  WriteItAll(s, r, Emptied(r), Errored(r))

-----------------------------------------------------------------------------
(* FCGX_PutChar, FCGX_PutStr, FCGX_PutS, FCGX_FPrintF, FCGX_VFPrintF: a     *)
(* sequence of PutStrs that stops at the first one to fail.                *)

AppMayCall == conn = "open" /\ finish = "no" /\ call.op = "idle"

VFPrintF(s, counts) ==
    /\ AppMayCall
    /\ accepted[s] < MaxBytes[s]
    /\ call' = [op |-> "put", s |-> s, pieces |-> counts, todo |-> <<>>]
    /\ UNCHANGED <<stream, request, finish, peer, accepted, failed, ghosts>>

Putting(s) == call.op = "put" /\ call.s = s /\ call.pieces # <<>>

\* The m bytes that fit go into the buffer, open or not.
Move(s, m) ==
    /\ stream' = [stream EXCEPT ![s].body = @ \o Run(accepted[s], m)]
    /\ accepted' = [accepted EXCEPT ![s] = @ + m]
    /\ UNCHANGED <<request, finish, peer, failed, ghosts>>

PutFits(s) ==
    /\ Putting(s)
    /\ Head(call.pieces) <= Room(s)
    /\ Move(s, Head(call.pieces))
    /\ call' = [call EXCEPT !.pieces = Tail(@)]

PutFills(s) ==
    /\ Putting(s)
    /\ 0 < Room(s) /\ Room(s) < Head(call.pieces)
    /\ Move(s, Room(s))
    /\ call' = [call EXCEPT !.pieces = <<Head(@) - Room(s)>> \o Tail(@)]

PutEmpties(s) ==
    /\ Putting(s)
    /\ Room(s) = 0 /\ Head(call.pieces) > 0
    /\ ~stream[s].isClosed
    /\ EmptyBuff(s)
    /\ UNCHANGED <<request, call, finish, accepted, ghosts>>

\* -1: the stream is closed and full.
PutRefused(s) ==
    /\ Putting(s)
    /\ Room(s) = 0 /\ Head(call.pieces) > 0
    /\ stream[s].isClosed
    /\ call' = Idle
    /\ UNCHANGED <<stream, request, finish, peer, accepted, failed, ghosts>>

PutReturns ==
    /\ call.op = "put" /\ call.pieces = <<>>
    /\ call' = Idle
    /\ UNCHANGED <<stream, request, finish, peer, accepted, failed, ghosts>>

FFlush(s) ==
    /\ AppMayCall
    /\ ~stream[s].isClosed
    /\ stream[s].body # <<>>
    /\ EmptyBuff(s)
    /\ UNCHANGED <<request, call, finish, accepted, ghosts>>

ClearError(s) ==
    /\ AppMayCall
    /\ stream[s].error
    /\ stream' = [stream EXCEPT ![s].error = FALSE]
    /\ cleared' = TRUE
    /\ UNCHANGED <<request, call, finish, peer, accepted, failed, statusSet>>

SetExitStatus(status) ==
    /\ AppMayCall
    /\ appStatus' = status
    /\ statusSet' = (status # 0)
    /\ UNCHANGED <<stream, nWriters, keepConnection, conn, call, finish, peer,
                   accepted, failed, cleared>>

-----------------------------------------------------------------------------
(* FCGX_FClose, by the application or by FCGX_Finish_r.                    *)

\* Fault: END_REQUEST is put before the stream's EOF.
CloseRecordsSwapped(s, r) ==
    (IF nWriters = 1 THEN EndRecord(appStatus) ELSE <<>>) \o EofRecord(s)

\* No EOF for an error stream that was never used; END_REQUEST by the last.
CloseRecords(s, r) ==
    (IF s = "err" /\ r.body = <<>> /\ ~r.isAnythingWritten
     THEN <<>> ELSE EofRecord(s))
    \o (IF nWriters = 1 THEN EndRecord(appStatus) ELSE <<>>)

\* Fault: wasFCloseCalled is not looked at.
FCloseBeginsAgain(s) ==
    /\ conn = "open" /\ call.op = "idle"
    /\ finish \in {"no", s}
    /\ stream' = [stream EXCEPT ![s] = [Framed(@) EXCEPT !.rawWrite = TRUE]]
    /\ call' = [op |-> "close", s |-> s, pieces |-> <<>>,
                todo |-> CloseRecords(s, stream[s])]
    /\ UNCHANGED <<request, finish, peer, accepted, failed, ghosts>>

FCloseBegins(s) ==
    /\ conn = "open" /\ call.op = "idle"
    /\ finish \in {"no", s}
    /\ ~stream[s].wasFCloseCalled
    /\ stream' = [stream EXCEPT ![s] = [Framed(@) EXCEPT !.rawWrite = TRUE]]
    /\ call' = [op |-> "close", s |-> s, pieces |-> <<>>,
                todo |-> CloseRecords(s, stream[s])]
    /\ UNCHANGED <<request, finish, peer, accepted, failed, ghosts>>

Closing(s) == call.op = "close" /\ call.s = s

\* WriteCloseRecords' PutStrs, in 8-byte units: a unit that fits goes in, ...
ClosePuts(s) ==
    /\ Closing(s)
    /\ call.todo # <<>> /\ Room(s) >= 8
    /\ stream' = [stream EXCEPT ![s].raw = Append(@, Head(call.todo))]
    /\ call' = [call EXCEPT !.todo = Tail(@)]
    /\ UNCHANGED <<request, finish, peer, accepted, failed, ghosts>>

\* ... a full buffer is emptied first, ...
CloseEmpties(s) ==
    /\ Closing(s)
    /\ call.todo # <<>> /\ Room(s) < 8
    /\ ~stream[s].isClosed
    /\ EmptyBuff(s)
    /\ UNCHANGED <<request, call, finish, accepted, ghosts>>

\* ... and if the stream is closed and full, PutStr's -1 is ignored.
CloseDrops(s) ==
    /\ Closing(s)
    /\ call.todo # <<>> /\ Room(s) < 8
    /\ stream[s].isClosed
    /\ call' = [call EXCEPT !.todo = <<>>]
    /\ UNCHANGED <<stream, request, finish, peer, accepted, failed, ghosts>>

AfterClose(s) == IF finish = s THEN IF s = "err" THEN "out" ELSE "free"
                 ELSE finish

\* The rest of EmptyBuffProc, even on a closed stream, and of FCGX_FClose.
FCloseEnds(s) ==
    /\ Closing(s)
    /\ call.todo = <<>>
    /\ LET r == stream[s]
       IN  IF Used(r) = 0
           THEN /\ stream' = [stream EXCEPT ![s] = Closed(r)]
                /\ UNCHANGED <<peer, failed>>
           ELSE WriteItAll(s, r, Closed(Emptied(r)), Closed(Errored(r)))
    /\ nWriters' = nWriters - 1
    /\ call' = Idle
    /\ finish' = AfterClose(s)
    /\ UNCHANGED <<appStatus, keepConnection, conn, accepted, ghosts>>

-----------------------------------------------------------------------------
(* FCGX_Finish_r, and FCGX_Accept_r's new streams for the next request.    *)

FinishBegins ==
    /\ AppMayCall
    /\ finish' = "err"
    /\ UNCHANGED <<stream, request, call, peer, accepted, failed, ghosts>>

\* FCGX_FClose of a stream the application closed itself.
FinishSkips(s) ==
    /\ finish = s /\ call.op = "idle"
    /\ stream[s].wasFCloseCalled
    /\ finish' = AfterClose(s)
    /\ UNCHANGED <<stream, request, call, peer, accepted, failed, ghosts>>

\* Fault: only the input stream's error code counts.
FinishKeepsUnread(readError) == keepConnection /\ ~readError

FinishKeeps(readError) ==
    /\ keepConnection
    /\ \A s \in Stream : ~stream[s].error
    /\ ~readError

\* FCGX_Free; readError is FCGX_GetError of the input stream.
FinishFrees ==
    /\ finish = "free"
    /\ \E readError \in BOOLEAN :
          conn' = IF FinishKeeps(readError) THEN "kept" ELSE "closed"
    /\ finish' = "no"
    /\ UNCHANGED <<stream, nWriters, appStatus, keepConnection, call, peer,
                   accepted, failed, ghosts>>

\* appStatus stays.  FCGX_Accept_r returns only with a connection that works:
\* the kept one, or a new one.
Accept ==
    /\ conn # "open" /\ call.op = "idle"
    /\ stream' = [s \in Stream |-> NewWriter]
    /\ nWriters' = 2
    /\ keepConnection' \in BOOLEAN
    /\ conn' = "open"
    /\ link' = "up"
    /\ wire' = <<>>
    /\ received' = [s \in Stream |-> <<>>]
    /\ accepted' = [s \in Stream |-> 0]
    /\ failed' = [s \in Stream |-> FALSE]
    /\ cleared' = FALSE
    /\ statusSet' = FALSE
    /\ UNCHANGED <<appStatus, call, finish>>

App ==
    \/ \E s \in Stream :
          \/ \E counts \in Prints : VFPrintF(s, counts)
          \/ FFlush(s) \/ ClearError(s)
          \/ finish = "no" /\ FCloseBegins(s)
    \/ \E status \in Status : SetExitStatus(status)
    \/ FinishBegins
    \/ Accept

Library ==
    \/ \E s \in Stream :
          \/ PutFits(s) \/ PutFills(s) \/ PutEmpties(s) \/ PutRefused(s)
          \/ finish # "no" /\ FCloseBegins(s)
          \/ ClosePuts(s) \/ CloseEmpties(s) \/ CloseDrops(s) \/ FCloseEnds(s)
          \/ FinishSkips(s)
    \/ PutReturns
    \/ FinishFrees

Next == App \/ Library

Spec == Init /\ [][Next]_vars

\* A library call that was entered runs on; every write(2) returns.
FairSpec == Spec /\ WF_vars(Library)

-----------------------------------------------------------------------------
(* Properties.                                                             *)

\* A unit that a reader of 8-aligned records can step over.
Record == {u \in Unit : /\ u.cLen <= FCGI_MAX_LENGTH
                        /\ u.pad <= 7
                        /\ (u.cLen + u.pad) % 8 = 0}

StreamState ==
    [body : Seq(Nat), cLen : Nat, raw : Seq(Unit), rawWrite : BOOLEAN,
     isClosed : BOOLEAN, wasFCloseCalled : BOOLEAN, error : BOOLEAN,
     isAnythingWritten : BOOLEAN]

Call == [op : {"idle", "put", "close"}, s : Stream,
         pieces : Seq(Nat), todo : Seq(Unit)]

\* Every variable has its type.
TypeOK ==
    /\ stream \in [Stream -> StreamState]
    /\ nWriters \in 0..2
    /\ appStatus \in Status
    /\ keepConnection \in BOOLEAN
    /\ conn \in {"open", "kept", "closed"}
    /\ call \in Call
    /\ finish \in {"no", "err", "out", "free"}
    /\ link \in {"up", "down"}
    /\ wire \in Seq(Unit)
    /\ received \in [Stream -> Seq(Nat)]
    /\ accepted \in [Stream -> Nat]
    /\ failed \in [Stream -> BOOLEAN]
    /\ cleared \in BOOLEAN
    /\ statusSet \in BOOLEAN

Buffered(r) == IF r.rawWrite THEN Content(r) ELSE r.body

\* Until a write of the stream fails, what the server decoded followed by
\* what the buffer holds is what the application wrote: no byte is lost,
\* doubled or reordered, and no padding or closing record becomes content,
\* however the output calls, flushes and closes cut the bytes into records.
StreamIntegrity ==
    \A s \in Stream :
        ~failed[s] => received[s] \o Buffered(stream[s]) = Upto(accepted[s])

\* "Padding can't overflow the buffer" (fcgiapp.c:1393), the lengths obey the
\* ASSERTs of MakeHeader (1208-1209), and every record ends 8-aligned: in the
\* buffer, in rawWrite mode, and on the wire, after failed writes too.
RecordsFit ==
    /\ \A s \in Stream :
          LET r == stream[s]
          IN  /\ Used(r) <= BuffLen[s]
              /\ ~r.rawWrite => Used(Framed(r)) <= BuffLen[s]
              /\ r.rawWrite => Used(r) % 8 = 0
    /\ \A i \in 1..Len(wire) : wire[i] \in Record

\* What keeps the buffers in bounds, from one step to the next: framed content
\* is aligned and its padding is short of 8 bytes; queued units are aligned.
BufferOK(s, r) ==
    /\ r.raw \in Seq(Record)
    /\ Used(r) <= BuffLen[s]
    /\ IF r.rawWrite
       THEN /\ Len(r.body) % 8 = 0
            /\ r.cLen <= Len(r.body) /\ Len(r.body) - r.cLen <= 7
       ELSE r.raw = <<>>
    /\ r.wasFCloseCalled => r.rawWrite /\ r.isClosed

OpenCount(s) == IF stream[s].wasFCloseCalled THEN 0 ELSE 1

\* nWriters counts the streams that FCGX_FClose has not returned for, and the
\* one that is in rawWrite mode among them is the one being closed.
WritersOK ==
    /\ nWriters = OpenCount("out") + OpenCount("err")
    /\ \A s \in Stream :
          stream[s].rawWrite /\ ~stream[s].wasFCloseCalled
              <=> call.op = "close" /\ call.s = s

\* The inductive invariant behind the theorems of FcgxWriter_proofs.
IInv ==
    /\ TypeOK
    /\ \A s \in Stream : BufferOK(s, stream[s])
    /\ wire \in Seq(Record) /\ call.todo \in Seq(Record)
    /\ WritersOK
    /\ StreamIntegrity

OneEnd(x) == \A i, j \in DOMAIN x : x[i].type = "end" /\ x[j].type = "end" => i = j

\* END_REQUEST is sent at most once per request, whoever closes the streams,
\* in whatever order, and whatever writes fail and are tried again.
EndAtMostOnce == OneEnd(wire)

NoFailure == \A s \in Stream : ~failed[s]

IsEof(u) == u.type \in Stream /\ u.cLen = 0

InOrder(x) ==
    \A i, j \in DOMAIN x : i < j =>
        /\ x[i].type # "endBody"
        /\ x[i].type = "end" => x[j].type = "endBody"
        /\ IsEof(x[i]) => x[j].type # x[i].type

\* A stream's records end with its one EOF, and the END_REQUEST body is the last
\* thing sent for the request.
EndIsLast == InOrder(wire)

EofIn(x, s) == \E i \in DOMAIN x : IsEof(x[i]) /\ x[i].type = s

EndSent == wire # <<>> /\ wire[Len(wire)].type = "endBody"

\* FCGX_Finish_r always gets END_REQUEST sent, also when the application closed a
\* stream, or both, itself; and both streams are delivered whole and ended before
\* it.  An error stream that was never used needs no EOF.
EndMeansComplete ==
    /\ conn # "open" => EndSent
    /\ EndSent =>
          \A s \in Stream :
              /\ received[s] = Upto(accepted[s])
              /\ EofIn(wire, s) \/ (s = "err" /\ accepted[s] = 0)

\* The records of a response: on a connection that works they end in order and
\* are complete, and on any other they end once at most.
ResponseOrder == EndAtMostOnce /\ (NoFailure => EndIsLast /\ EndMeansComplete)

\* A connection on which a write failed is never kept for a next request,
\* unless the application itself dropped the error with FCGX_ClearError.
KeptConnectionIsClean == conn = "kept" /\ ~cleared => NoFailure

\* Where FCGX_Finish_r is: it runs no other call than its own closes, and every
\* stream it is past is closed, as both are between two requests.
Phases ==
    /\ conn # "open" => finish = "no"
    /\ conn # "open" \/ finish = "free" =>
          call.op = "idle" /\ \A s \in Stream : stream[s].wasFCloseCalled
    /\ finish = "out" => stream["err"].wasFCloseCalled
    /\ finish \in Stream => call.op = "idle" \/ (call.op = "close" /\ call.s = finish)

\* What a stream's flags say of its writes: a closed one that never failed is
\* empty, a failure shows as an error until FCGX_ClearError, nothing but a
\* failure or FCGX_FClose closes it, and it is unused until it is written.
FlagsOK(s, r) ==
    /\ r.wasFCloseCalled /\ ~failed[s] => r.body = <<>>
    /\ failed[s] /\ ~cleared => r.error
    /\ r.isClosed /\ ~failed[s] => r.wasFCloseCalled
    /\ ~r.isAnythingWritten => received[s] = <<>>

\* IInv with the phases and the flags, behind what FCGX_Finish_r promises.
FinishIInv ==
    /\ IInv
    /\ Phases
    /\ \A s \in Stream : FlagsOK(s, stream[s])
    /\ KeptConnectionIsClean

\* What the close in progress has still to send, ...
Pending ==
    IF call.op = "close" THEN Units(call.s, stream[call.s]) \o call.todo ELSE <<>>

\* ... after what is on the wire.
Response == wire \o Pending

\* The streams that FCGX_FClose has made the closing records of, or returned for;
\* that of the last one has made END_REQUEST.
Ended(s) == stream[s].wasFCloseCalled \/ Closing(s)
Ending == \A s \in Stream : Ended(s)

\* END_REQUEST's header is the one before the last of the units that a close has
\* still to write, as long as it has some to put into the buffer: a write that fails
\* before has not sent it, and one that fails after is not tried again.
EndIsHeldBack ==
    call.op = "close" /\ call.todo # <<>> =>
        LET q == stream[call.s].raw \o call.todo
        IN  \A i \in DOMAIN q : q[i].type = "end" => i = Len(q) - 1

StreamRecord == {u \in Record : u.type \in Stream}
NoEof(s) == {u \in Record : ~(IsEof(u) /\ u.type = s)}

EndsOnce ==
    /\ OneEnd(Response)
    /\ ~Ending => Response \in Seq(StreamRecord)
    /\ EndIsHeldBack

\* On a connection that works: the records are in order, an open stream has had no
\* EOF, one that is closed or being closed has, and a response that ends has its
\* END_REQUEST body last.
EndsInOrder ==
    NoFailure =>
        /\ InOrder(Response)
        /\ \A s \in Stream :
              IF Ended(s)
              THEN EofIn(Response, s) \/ (s = "err" /\ accepted[s] = 0)
              ELSE Response \in Seq(NoEof(s))
        /\ Ending => Response # <<>> /\ Response[Len(Response)].type = "endBody"

\* FinishIInv with the order of the records, behind ResponseOrder.
OrderIInv == FinishIInv /\ EndsOnce /\ EndsInOrder

\* Once FCGX_FClose returned, the stream takes nothing and sends nothing for
\* the rest of the request, FCGX_Finish_r's second FCGX_FClose included.
FCloseIsFinal ==
    [][\A s \in Stream :
          stream[s].wasFCloseCalled /\ conn = "open" =>
              /\ accepted'[s] = accepted[s]
              /\ received'[s] = received[s]
              /\ stream'[s].raw = stream[s].raw]_vars

\* Every output call, close and FCGX_Finish_r returns: no loop of FCGX_PutStr or
\* WriteCloseRecords spins on a full buffer, even if the link is lost.
CallsReturn ==
    call.op # "idle" \/ finish # "no" ~> call.op = "idle" /\ finish = "no"

-----------------------------------------------------------------------------
(* What the documentation says and the code does not do.                   *)

\* FCGX_SetExitStatus (fcgiapp.c:2297-2301): the status is the request's, as
\* if it had run as a CGI program.  A request that sets none exits with 0.
ExitStatusIsTheRequests ==
    \A i \in DOMAIN wire :
        wire[i].type = "endBody" /\ ~statusSet => wire[i].status = 0

-----------------------------------------------------------------------------
(* The abstract channel this implements.                                   *)

Channel == INSTANCE ResponseChannel WITH
    taken <- accepted,
    got <- [s \in Stream |-> IF failed[s] THEN <<>> ELSE received[s]],
    broken <- failed,
    ended <- conn # "open"

\* The two streams behave as the abstract channel says.
ImplementsChannel == Channel!Spec

=============================================================================
