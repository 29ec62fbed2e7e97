----------------------------- MODULE FcgxReader -----------------------------
(***************************************************************************)
(* The input side of the FastCGI library (CGIKit/fcgiapp.c): FCGX_Accept_r *)
(* reads a request's BEGIN_REQUEST and PARAMS from the connection, the     *)
(* application reads STDIN (and DATA, if it is a filter), FCGX_Finish_r    *)
(* keeps or closes the connection.  All of it goes through FillBuffProc,   *)
(* which reads what has come into the buffer, takes records apart, skips   *)
(* padding and the records of other requests, and answers management       *)
(* records and attempts to multiplex the connection.                       *)
(*                                                                         *)
(* Data abstraction.  The server sends a script of records.  On the wire a *)
(* record is a run of cells: HeaderLen cells of header, then content, then *)
(* padding; a cell is known by its record and its place in it.  read(2)    *)
(* may return any number of the cells that have come, so what is buffered  *)
(* ends anywhere in a record.  A parameter is two cells long.              *)
(***************************************************************************)
EXTENDS Integers, Sequences, FiniteSets, SequencesExt

CONSTANTS
    Scripts,    \* what a server may send over one connection: Seq(Record)
    BuffLen,    \* data->bufflen, in cells
    Chunks,     \* the lengths that the application asks FCGX_GetStr for
    HangsUp,    \* whether the server may close the connection early
    Signals     \* whether a signal may interrupt a read

HeaderLen == 2      \* sizeof(FCGI_Header), in cells
BodyLen == 2        \* sizeof(FCGI_BeginRequestBody)

\* nth: the record belongs to the server's nth request on the connection, or
\* comes with it; role and keep are the body of a begin record.
Record == [type : {"begin", "params", "stdin", "data", "values", "unknown"},
           id : Nat, len : Nat, pad : Nat, nth : Nat \ {0},
           role : {"none", "responder", "filter", "bad"}, keep : BOOLEAN]

ASSUME ReaderAssumption ==
    /\ Scripts \subseteq Seq(Record)
    /\ BuffLen \in Nat /\ BuffLen >= HeaderLen
    /\ Chunks \subseteq Nat \ {0}
    /\ HangsUp \in BOOLEAN /\ Signals \in BOOLEAN

VARIABLES
    script,     \* the records of the connection
    wire,       \* their cells
    last,       \* the cells that come at all: a server may hang up
    served,     \* the requests that this connection's server has back
    replies,    \* the records that the reader itself has sent
    buffStop,   \* the cells read into the buffer so far
    rdNext,     \* the cells consumed so far
    reader,     \* FCGX_Stream and FCGX_Stream_Data of the input stream
    request,    \* requestId, role, keepConnection, isBeginProcessed
    pc,         \* the next step of FillBuffProc, or of its caller
    call,       \* who called it: Accept_r ("begin"), ReadParams ("params") or
                \* the application's FCGX_GetStr ("app"), for how many cells ...
    nest,       \* ... or, inside ProcessHeader, "body" or "values"
    params,     \* the cells ReadParams has read
    delivered,  \* the cells of each stream that the application has read
    excused     \* ghost: "unread" if FCGX_Finish_r left input of the connection
                \* unread, "signal" if a signal interrupted a read

server == <<script, wire, last>>
clients == <<params, delivered, excused>>
vars == <<server, served, replies, buffStop, rdNext, reader, request, pc, call,
          nest, clients>>

Cells(records) ==
    FlattenSeq([i \in DOMAIN records |->
        [k \in 1..(HeaderLen + records[i].len + records[i].pad) |->
            [rec |-> i, at |-> k]]])

NewReader ==
    [type |-> "none", contentLen |-> 0, paddingLen |-> 0, skip |-> FALSE,
     eorStop |-> FALSE, avail |-> 0, isClosed |-> FALSE, error |-> "none",
     head |-> <<>>]

NoRequest == [id |-> 0, role |-> "none", keep |-> FALSE, begun |-> FALSE]
Nothing == [type \in {"stdin", "data"} |-> <<>>]

\* OS_Accept returned a connection to some server.
Connected(records) ==
    /\ script = records
    /\ wire = Cells(records)
    /\ last = Len(wire) + 1
    /\ served = 0 /\ replies = <<>>
    /\ buffStop = 0 /\ rdNext = 0

Init ==
    /\ \E records \in Scripts : Connected(records)
    /\ reader = NewReader
    /\ request = NoRequest
    /\ pc = "top"
    /\ call = [client |-> "begin", want |-> 0]
    /\ nest = "none"
    /\ params = <<>>
    /\ delivered = Nothing
    /\ excused = {}

-----------------------------------------------------------------------------
(* The server.  It sends a request when it has the answer to the one before *)
(* on the connection, and nothing behind a GET_VALUES without its result.   *)

Answered(type) == Len(SelectSeq(replies, LAMBDA reply : reply.type = type))

MaySend(i) ==
    /\ script[i].nth <= served + 1
    /\ Len(SelectSeq(SubSeq(script, 1, i - 1), LAMBDA r : r.type = "values"))
          <= Answered("result")

\* The cells that have come, or are on their way.
Come ==
    LET cells == {p \in DOMAIN wire : \A i \in 1..wire[p].rec : MaySend(i)}
    IN  IF Cardinality(cells) < last THEN Cardinality(cells) ELSE last

HangUp ==
    /\ HangsUp /\ last > Len(wire)
    /\ last' \in buffStop..Come
    /\ UNCHANGED <<script, wire, served, replies, buffStop, rdNext, reader,
                   request, pc, call, nest, clients>>

HungUp == last <= Len(wire)

-----------------------------------------------------------------------------
(* FillBuffProc, step by step.                                             *)

Least(m, n) == IF m < n THEN m ELSE n
Buffered == buffStop - rdNext
SetError(r, error) ==
    [r EXCEPT !.error = IF @ = "none" THEN error ELSE @, !.isClosed = TRUE]

\* What has come of a header is lost when FillBuffProc returns early.
Headless(r) == IF nest = "none" THEN [r EXCEPT !.head = <<>>] ELSE r

\* FillBuffProc returns to the loop of its caller.
Return == pc' = IF nest # "none" THEN "nested" ELSE call.client

Read ==
    /\ pc = "top" /\ Buffered = 0
    /\ \E n \in 1..Least(BuffLen, Come - buffStop) : buffStop' = buffStop + n
    /\ pc' = "content"
    /\ UNCHANGED <<server, served, replies, rdNext, reader, request, call,
                   nest, clients>>

ReadFails ==
    /\ pc = "top" /\ Buffered = 0
    /\ buffStop = last
    /\ reader' = SetError(Headless(reader), "protocol")
    /\ Return
    /\ UNCHANGED <<server, served, replies, buffStop, rdNext, request, call,
                   nest, clients>>

\* SIGUSR1, whose handler is installed without SA_RESTART.
ReadInterrupted ==
    /\ Signals
    /\ pc = "top" /\ Buffered = 0
    /\ reader' = SetError(Headless(reader), "os")
    /\ excused' = excused \cup {"signal"}
    /\ Return
    /\ UNCHANGED <<server, served, replies, buffStop, rdNext, request, call,
                   nest, params, delivered>>

ReadNothing ==
    /\ pc = "top" /\ Buffered > 0
    /\ pc' = "content"
    /\ UNCHANGED <<server, served, replies, buffStop, rdNext, reader, request,
                   call, nest, clients>>

\* The content that is in the buffer becomes available to the caller.
DeliverContent ==
    /\ pc = "content"
    /\ reader.contentLen > 0 /\ ~reader.skip
    /\ LET count == Least(reader.contentLen, Buffered)
       IN  reader' = [reader EXCEPT !.contentLen = @ - count, !.avail = count]
    /\ Return
    /\ UNCHANGED <<server, served, replies, buffStop, rdNext, request, call,
                   nest, clients>>

\* Fault: skip is never reset.
SkipContentOn ==
    /\ pc = "content"
    /\ reader.contentLen > 0 => reader.skip
    /\ LET count == Least(reader.contentLen, Buffered)
           left == reader.contentLen - count
       IN  /\ rdNext' = rdNext + count
           /\ reader' = [reader EXCEPT !.contentLen = left]
           /\ pc' = IF left > 0 THEN "top" ELSE "padding"
    /\ UNCHANGED <<server, served, replies, buffStop, request, call, nest,
                   clients>>

SkipContent ==
    /\ pc = "content"
    /\ reader.contentLen > 0 => reader.skip
    /\ LET count == Least(reader.contentLen, Buffered)
           left == reader.contentLen - count
       IN  /\ rdNext' = rdNext + count
           /\ reader' = [reader EXCEPT !.contentLen = left,
                             !.skip = @ /\ (reader.contentLen = 0 \/ left > 0)]
           /\ pc' = IF left > 0 THEN "top" ELSE "padding"
    /\ UNCHANGED <<server, served, replies, buffStop, request, call, nest,
                   clients>>

\* Fault: the padding is skipped without regard for what is in the buffer.
SkipPaddingPast ==
    /\ pc = "padding"
    /\ rdNext' = rdNext + reader.paddingLen
    /\ reader' = [reader EXCEPT !.paddingLen = 0]
    /\ pc' = "header"
    /\ UNCHANGED <<server, served, replies, buffStop, request, call, nest,
                   clients>>

SkipPadding ==
    /\ pc = "padding"
    /\ LET count == Least(reader.paddingLen, Buffered)
           left == reader.paddingLen - count
       IN  /\ rdNext' = rdNext + count
           /\ reader' = [reader EXCEPT !.paddingLen = left]
           /\ pc' = IF left > 0 THEN "top" ELSE "header"
    /\ UNCHANGED <<server, served, replies, buffStop, request, call, nest,
                   clients>>

\* eorStop: the end of the record is the end of file for a nested call.
EndOfRecord ==
    /\ pc = "header" /\ reader.eorStop
    /\ reader' = [reader EXCEPT !.avail = 0, !.isClosed = TRUE]
    /\ Return
    /\ UNCHANGED <<server, served, replies, buffStop, rdNext, request, call,
                   nest, clients>>

ReadHeader ==
    /\ pc = "header" /\ ~reader.eorStop
    /\ LET count == Least(HeaderLen - Len(reader.head), Buffered)
           head == reader.head \o SubSeq(wire, rdNext + 1, rdNext + count)
           full == Len(head) = HeaderLen
       IN  /\ rdNext' = rdNext + count
           /\ reader' = [reader EXCEPT !.head = head, !.avail = 0,
                                       !.eorStop = full]
           /\ pc' = IF full THEN "process" ELSE "top"
    /\ UNCHANGED <<server, served, replies, buffStop, request, call, nest,
                   clients>>

-----------------------------------------------------------------------------
(* ProcessHeader, and what FillBuffProc makes of its status.               *)

\* Fault: an empty record is taken for any other record.
EndOfStreamMissed(r) == reader' = r /\ pc' = "top"
EndOfStream(r) ==
    reader' = [r EXCEPT !.avail = 0, !.isClosed = TRUE] /\ pc' = call.client

\* FillBuffProc's switch; r has the lengths of the header.
Switch(r, status) ==
    LET done == [r EXCEPT !.eorStop = FALSE, !.isClosed = FALSE, !.head = <<>>]
    IN  CASE status = "STREAM" /\ r.contentLen = 0 ->
                EndOfStream(done)
          [] status = "STREAM" /\ r.contentLen > 0 ->
                reader' = done /\ pc' = "top"
          [] status = "SKIP" ->
                reader' = [done EXCEPT !.skip = TRUE] /\ pc' = "top"
          [] status = "MGMT" -> reader' = done /\ pc' = "top"
          [] status = "BEGIN" -> reader' = done /\ pc' = call.client
          [] OTHER -> reader' = SetError(done, status) /\ pc' = call.client

\* Fault: the reply is not written.
ReplyNot(type, r, status) == Switch(r, status) /\ UNCHANGED replies

\* write_it_all of a reply; it fails if there is no server to read it.
Reply(type, r, status) ==
    \/ /\ Switch(r, status)
       /\ replies' = Append(replies, [type |-> type, rec |-> r.head[1].rec])
    \/ HungUp /\ Switch(r, "os") /\ UNCHANGED replies

IsHeader(head) ==
    head = [k \in 1..HeaderLen |-> [rec |-> head[1].rec, at |-> k]]

Header == script[reader.head[1].rec]

\* What is not a header has another version than FCGI_VERSION_1: no content
\* that happens to look like a header is modelled.
UnsupportedVersion ==
    /\ pc = "process" /\ ~IsHeader(reader.head)
    /\ Switch(reader, "version")
    /\ UNCHANGED <<server, served, replies, buffStop, rdNext, request, call,
                   nest, clients>>

Processing(type) ==
    pc = "process" /\ IsHeader(reader.head) /\ Header.type \in type

\* Fault: the padding's length is not taken from the header.
WithLengthsUnpadded == [reader EXCEPT !.contentLen = Header.len]
WithLengths ==
    [reader EXCEPT !.contentLen = Header.len, !.paddingLen = Header.pad]

\* Fault: requests are told apart by nothing.
SameRequestAny == TRUE
SameRequest == Header.id = request.id

StreamRecord ==
    /\ Processing({"params", "stdin", "data", "values", "unknown"})
    /\ Header.id # 0
    /\ Switch(WithLengths,
              IF ~SameRequest THEN "SKIP"
              ELSE IF Header.type # reader.type THEN "protocol" ELSE "STREAM")
    /\ UNCHANGED <<server, served, replies, buffStop, rdNext, request, call,
                   nest, clients>>

\* ProcessBeginRecord without a new request: malformed, or multiplexing.
BeginRefused ==
    /\ Processing({"begin"})
    /\ IF Header.id = 0 \/ Header.len # BodyLen
       THEN Switch(WithLengths, "protocol") /\ UNCHANGED replies
       ELSE request.begun /\ Reply("cantMpx", WithLengths, "SKIP")
    /\ UNCHANGED <<server, served, buffStop, rdNext, request, call, nest,
                   clients>>

\* FCGI_UNKNOWN_TYPE is the answer; the record's content is not skipped.
UnknownManagement ==
    /\ Processing({"params", "stdin", "data", "unknown"})
    /\ Header.id = 0
    /\ Reply("unknownType", WithLengths, "MGMT")
    /\ UNCHANGED <<server, served, buffStop, rdNext, request, call, nest,
                   clients>>

\* These two read their record through nested calls of FillBuffProc.
Nest ==
    /\ \/ /\ Processing({"begin"})
          /\ Header.id # 0 /\ Header.len = BodyLen /\ ~request.begun
          /\ nest' = "body"
          /\ request' = [request EXCEPT !.id = Header.id]
       \/ /\ Processing({"values"})
          /\ Header.id = 0
          /\ nest' = "values"
          /\ UNCHANGED request
    /\ reader' = WithLengths
    /\ pc' = "nested"
    /\ UNCHANGED <<server, served, replies, buffStop, rdNext, call, clients>>

NestedTakes ==
    /\ pc = "nested"
    /\ reader.avail > 0
    /\ rdNext' = rdNext + reader.avail
    /\ reader' = [reader EXCEPT !.avail = 0]
    /\ UNCHANGED <<server, served, replies, buffStop, request, pc, call, nest,
                   clients>>

\* FCGX_GetStr has its BodyLen bytes; ReadParams goes on until end of file.
BodyRead == nest = "body" /\ reader.contentLen = 0

NestedFills ==
    /\ pc = "nested" /\ reader.avail = 0
    /\ ~reader.isClosed /\ ~BodyRead
    /\ pc' = "top"
    /\ UNCHANGED <<server, served, replies, buffStop, rdNext, reader, request,
                   call, nest, clients>>

BeginReads ==
    /\ pc = "nested" /\ nest = "body" /\ reader.avail = 0
    /\ BodyRead \/ reader.isClosed
    /\ nest' = "none"
    /\ IF reader.isClosed
       THEN Switch(reader, "protocol") /\ UNCHANGED request
       ELSE /\ Switch(reader, "BEGIN")
            /\ request' = [request EXCEPT !.role = Header.role, !.begun = TRUE,
                                       !.keep = Header.keep]
    /\ UNCHANGED <<server, served, replies, buffStop, rdNext, call, clients>>

ValuesRead ==
    /\ pc = "nested" /\ nest = "values" /\ reader.avail = 0
    /\ reader.isClosed
    /\ nest' = "none"
    /\ IF reader.error # "none" \/ reader.contentLen # 0 \/ Header.len % 2 # 0
       THEN Switch(reader, "protocol") /\ UNCHANGED replies
       ELSE Reply("result", reader, "MGMT")
    /\ UNCHANGED <<server, served, buffStop, rdNext, request, call, clients>>

FillBuffProc ==
    \/ Read \/ ReadFails \/ ReadNothing
    \/ DeliverContent \/ SkipContent \/ SkipPadding
    \/ EndOfRecord \/ ReadHeader
    \/ UnsupportedVersion \/ StreamRecord \/ BeginRefused \/ UnknownManagement
    \/ Nest \/ NestedTakes \/ NestedFills \/ BeginReads \/ ValuesRead

-----------------------------------------------------------------------------
(* The callers.                                                            *)

SetReaderType(r, type) ==
    [r EXCEPT !.type = type, !.eorStop = FALSE, !.skip = FALSE,
              !.contentLen = 0, !.paddingLen = 0, !.avail = 0,
              !.isClosed = FALSE]

Client(client) ==
    /\ pc' = client
    /\ call' = [client |-> client, want |-> 0]

\* FCGX_Accept_r calls FillBuffProc with a new reader.
NewRequest ==
    /\ reader' = NewReader
    /\ pc' = "top"
    /\ call' = [client |-> "begin", want |-> 0]
    /\ params' = <<>>
    /\ delivered' = Nothing

\* FCGX_Free closes the connection; OS_Accept returns the next.
NextConnection ==
    /\ \E records \in Scripts :
          script' = records /\ wire' = Cells(records) /\ last' = Len(wire') + 1
    /\ served' = 0 /\ replies' = <<>> /\ buffStop' = 0 /\ rdNext' = 0
    /\ excused' = {}

\* TryAgain.
GivesUp ==
    \/ pc = "begin" /\ (~request.begun \/ request.role = "bad")
    \/ pc = "params" /\ reader.isClosed /\ Len(params) % 2 # 0

AcceptRetries ==
    /\ GivesUp
    /\ request' = [request EXCEPT !.begun = FALSE]
    /\ NewRequest
    /\ NextConnection
    /\ UNCHANGED nest

AcceptReadsParams ==
    /\ pc = "begin" /\ request.begun /\ request.role # "bad"
    /\ reader' = SetReaderType(reader, "params")
    /\ Client("params")
    /\ UNCHANGED <<server, served, replies, buffStop, rdNext, request, nest,
                   clients>>

\* ReadParams: FCGX_GetChar and FCGX_GetStr take what the reader has.
ReadParamsTakes ==
    /\ pc = "params" /\ reader.avail > 0
    /\ params' = params \o SubSeq(wire, rdNext + 1, rdNext + reader.avail)
    /\ rdNext' = rdNext + reader.avail
    /\ reader' = [reader EXCEPT !.avail = 0]
    /\ UNCHANGED <<server, served, replies, buffStop, request, pc, call, nest,
                   delivered, excused>>

\* End of file between two parameters is the end of the environment.
AcceptReturns ==
    /\ pc = "params" /\ reader.isClosed /\ Len(params) % 2 = 0
    /\ reader' = SetReaderType(reader, "stdin")
    /\ Client("app")
    /\ UNCHANGED <<server, served, replies, buffStop, rdNext, request, nest,
                   clients>>

\* The application.
GetStr(n) ==
    /\ pc = "app" /\ call.want = 0 /\ ~reader.isClosed
    /\ call' = [call EXCEPT !.want = n]
    /\ UNCHANGED <<server, served, replies, buffStop, rdNext, reader, request,
                   pc, nest, clients>>

GetStrTakes ==
    /\ pc = "app" /\ call.want > 0 /\ reader.avail > 0
    /\ LET m == Least(call.want, reader.avail)
       IN  /\ delivered' = [delivered EXCEPT ![reader.type] =
                                @ \o SubSeq(wire, rdNext + 1, rdNext + m)]
           /\ rdNext' = rdNext + m
           /\ reader' = [reader EXCEPT !.avail = @ - m]
           /\ call' = [call EXCEPT !.want = @ - m]
    /\ UNCHANGED <<server, served, replies, buffStop, request, pc, nest,
                   params, excused>>

GetStrReturnsShort ==
    /\ pc = "app" /\ call.want > 0 /\ reader.avail = 0 /\ reader.isClosed
    /\ call' = [call EXCEPT !.want = 0]
    /\ UNCHANGED <<server, served, replies, buffStop, rdNext, reader, request,
                   pc, nest, clients>>

\* The loops of ReadParams and FCGX_GetStr: nothing left, more is to come.
CallFillBuffProc ==
    /\ pc = "params" \/ (pc = "app" /\ call.want > 0)
    /\ reader.avail = 0 /\ ~reader.isClosed
    /\ pc' = "top"
    /\ UNCHANGED <<server, served, replies, buffStop, rdNext, reader, request,
                   call, nest, clients>>

StartFilterData ==
    /\ pc = "app" /\ call.want = 0
    /\ reader' = IF request.role = "filter" /\ reader.isClosed
                       /\ reader.type = "stdin"
                 THEN SetReaderType(reader, "data")
                 ELSE SetError(reader, "callSeq")
    /\ UNCHANGED <<server, served, replies, buffStop, rdNext, request, pc,
                   call, nest, clients>>

\* The request's last record, or one sent beside it, is still to be read.
Unread == \E p \in (rdNext + 1)..Len(wire) : script[wire[p].rec].nth <= served + 1

\* FCGX_Finish_r, for the next FCGX_Accept_r: what is in the buffer goes with
\* the reader, what has not been read of the connection stays.  The output
\* streams have an error as well if there is no server to read them.
Finish ==
    /\ pc = "app" /\ call.want = 0
    /\ request' = [request EXCEPT !.begun = FALSE]
    /\ NewRequest
    /\ \/ /\ request.keep /\ reader.error = "none"
          /\ served' = served + 1
          /\ rdNext' = buffStop
          /\ excused' = IF Unread THEN excused \cup {"unread"} ELSE excused
          /\ UNCHANGED <<server, replies, buffStop>>
       \/ /\ ~request.keep \/ reader.error # "none" \/ HungUp
          /\ NextConnection
    /\ UNCHANGED nest

Library ==
    \/ FillBuffProc \/ CallFillBuffProc
    \/ AcceptRetries \/ AcceptReadsParams \/ ReadParamsTakes \/ AcceptReturns
    \/ GetStrTakes \/ GetStrReturnsShort

Next ==
    \/ Library
    \/ HangUp \/ ReadInterrupted
    \/ \E n \in Chunks : GetStr(n)
    \/ StartFilterData \/ Finish

Spec == Init /\ [][Next]_vars

\* The process runs inside the library.  The server sends what it has, which
\* is in Come; that it hangs up, or that a signal comes, nothing may rely on.
\* What the application calls next, and when, is its own affair.
FairSpec == Spec /\ WF_vars(Library)

-----------------------------------------------------------------------------
(* Properties.                                                             *)

\* Every variable has its type.
TypeOK ==
    /\ script \in Scripts /\ wire = Cells(script)
    /\ last \in 0..(Len(wire) + 1)
    /\ served \in Nat
    /\ \A i \in DOMAIN replies :
          replies[i].type \in {"cantMpx", "unknownType", "result"}
    /\ buffStop \in 0..Len(wire) /\ rdNext \in 0..buffStop
    /\ reader.type \in {"none", "params", "stdin", "data"}
    /\ reader.contentLen \in Nat /\ reader.paddingLen \in Nat
    /\ {reader.skip, reader.eorStop, reader.isClosed} \subseteq BOOLEAN
    /\ reader.avail \in 0..Buffered
    /\ reader.error \in {"none", "protocol", "version", "os", "callSeq"}
    /\ Len(reader.head) <= HeaderLen
    /\ pc \in {"top", "content", "padding", "header", "process", "nested",
               "begin", "params", "app"}
    /\ call.client \in {"begin", "params", "app"} /\ call.want \in Nat
    /\ nest \in {"none", "body", "values"}
    /\ excused \subseteq {"unread", "signal"}

\* The records that are the server's nth request, and their order.
OwnBegin(records, n) ==
    CHOOSE i \in DOMAIN records :
        /\ records[i].type = "begin" /\ records[i].nth = n
        /\ \A j \in 1..(i - 1) :
              ~(records[j].type = "begin" /\ records[j].nth = n)

OwnId(records, n) == records[OwnBegin(records, n)].id

Requests(records) == {records[i].nth : i \in DOMAIN records}

OwnRecords(records, n) ==
    {i \in DOMAIN records : records[i].nth = n /\ records[i].id = OwnId(records, n)}

Rank(r) == CASE r.type = "begin" -> 0
             [] r.type = "params" -> IF r.len > 0 THEN 1 ELSE 2
             [] r.type = "stdin" -> IF r.len > 0 THEN 3 ELSE 4
             [] r.type = "data" -> IF r.len > 0 THEN 5 ELSE 6
             [] OTHER -> 7

InProtocolOrder(records, own) ==
    LET rank(i) == Rank(records[i])
    IN  /\ \A i, j \in own :
              i < j => \/ rank(i) < rank(j)
                       \/ rank(i) = rank(j) /\ rank(i) \in {1, 3, 5}
        /\ {0, 2, 4} \subseteq {rank(i) : i \in own}
        /\ \A i, j \in own :
              rank(i) = 0 /\ (\A k \in own : k <= j) =>
                  rank(j) = IF records[i].role = "filter" THEN 6 ELSE 4

\* The length of the environment of the nth request.
EnvLen(records, n) ==
    LET own == OwnRecords(records, n)
        total[i \in 0..Len(records)] ==
            IF i = 0 THEN 0
            ELSE total[i - 1] + (IF i \in own /\ records[i].type = "params"
                                 THEN records[i].len ELSE 0)
    IN  total[Len(records)]

\* A connection the reader copes with: one request after the other, each in the
\* order of the protocol, with whole parameters, for roles it knows; begin
\* records and ends of stream without padding; records of other requests only
\* beside it, and not empty; management records that it knows, with some
\* padding, or that are empty.
WellFormed(records) ==
    /\ \A i, j \in DOMAIN records : i < j => records[i].nth <= records[j].nth
    /\ \A n \in Requests(records) :
          /\ InProtocolOrder(records, OwnRecords(records, n))
          /\ EnvLen(records, n) % 2 = 0
    /\ \A i \in DOMAIN records :
          LET r == records[i]
              own == r.id = OwnId(records, r.nth)
          IN  /\ r.role # "bad"
              /\ r.type = "begin" => r.len = BodyLen
              /\ own /\ (r.type = "begin" \/ r.len = 0) => r.pad = 0
              /\ ~own /\ r.id # 0 => OwnBegin(records, r.nth) < i /\ r.len > 0
              /\ r.id = 0 => \/ r.type = "values" /\ r.pad > 0 /\ r.len % 2 = 0
                             \/ r.type = "unknown" /\ r.len = 0

\* The content of the request's own records of one type, up to the nth cell.
IsOwn(c, type) ==
    LET r == script[c.rec]
    IN  /\ r.type = type /\ r.id = request.id /\ r.nth = served + 1
        /\ HeaderLen < c.at /\ c.at <= HeaderLen + r.len

OwnUpto(type, n) ==
    LET own[p \in 0..Len(wire)] ==
            IF p = 0 THEN <<>>
            ELSE own[p - 1] \o (IF IsOwn(wire[p], type) THEN <<wire[p]>> ELSE <<>>)
    IN  own[n]

Own(type) == OwnUpto(type, Len(wire))

\* A connection like this on which every request has been read to its end: of
\* what FCGX_Finish_r leaves unread, the next FCGX_Accept_r may take the end of
\* a multiplexed request for a new one.
Regular == WellFormed(script) /\ "unread" \notin excused

\* What the application has read of a stream is how the stream begins: no cell
\* is lost, doubled or taken from a header, from padding, from another request
\* or stream, however the reads have cut the records.
InputInOrder ==
    Regular =>
        \A type \in DOMAIN delivered : IsPrefix(delivered[type], Own(type))

\* When the application sees the end of a stream, without an error, it has
\* read the whole of it.
EofIsTheEnd ==
    Regular /\ pc = "app" /\ reader.isClosed
        /\ reader.error = "none"
        => delivered[reader.type] = Own(reader.type)

\* The application gets a request without an error with its whole environment.
EnvComplete ==
    Regular /\ call.client = "app" /\ reader.error = "none"
        => params = Own("params")

\* What ends for the application has been read whole: the environment that
\* FCGX_Accept_r returns, and each stream at its end of file.
StreamsAreWhole == EofIsTheEnd /\ EnvComplete

\* The replies with the one to the ith record: management records have an answer,
\* and the begin record of a second request.
WithAnswer(records, i, sent) ==
    LET r == records[i]
        type == CASE r.type = "values" -> "result"
                  [] r.type = "unknown" -> "unknownType"
                  [] OTHER -> "cantMpx"
    IN  IF r.id = 0 \/ (r.type = "begin" /\ r.id # OwnId(records, r.nth))
        THEN Append(sent, [type |-> type, rec |-> i])
        ELSE sent

AnswersUpto(records, n) ==
    LET sent[i \in 0..Len(records)] ==
            IF i = 0 THEN <<>> ELSE WithAnswer(records, i, sent[i - 1])
    IN  sent[n]

\* The server has exactly one answer, of the right kind and in order, to every
\* record that asks for one and that the reader is past.
AnswersInOrder ==
    Regular /\ reader.error = "none" /\ pc \in {"params", "app"} =>
        replies = AnswersUpto(script, wire[rdNext].rec)

\* FCGX_Accept_r gives a connection up for the server's fault only, or because
\* the application has left input of an earlier request unread, or for a signal.
GoodServerIsServed ==
    WellFormed(script) /\ GivesUp => HungUp \/ excused # {}

\* A request that is sent reaches the application, unless the server hangs up
\* or one of the excuses of GoodServerIsServed holds.
AcceptServes ==
    WellFormed(script) /\ call.client # "app"
            /\ served \in {n - 1 : n \in Requests(script)}
        ~> (call.client = "app" \/ HungUp \/ excused # {})

\* FCGX_GetStr returns, also when the server hangs up, or a signal has come, in
\* the middle of what it reads.
GetStrReturns == Regular /\ call.want > 0 ~> call.want = 0

\* The calls that read get to their end.
CallsReturn == AcceptServes /\ GetStrReturns

-----------------------------------------------------------------------------
(* What the documentation says and the code does not do.                   *)

\* "Finished reading the environment.  No errors occurred" (fcgiapp.c:2235).
EnvIsReadWithoutErrors ==
    [][AcceptReturns => reader.error = "none"]_vars

\* FCGX_GetStr "Reads up to n consecutive bytes from the input stream"
\* (fcgiapp.c:133), also beside an empty record of another request.
ReadsConsecutively ==
    [][GetStrTakes => IsPrefix(delivered.stdin', Own("stdin"))]_vars

=============================================================================
