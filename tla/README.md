# CGIKit in TLA+

CGIKit serves HTTP requests from Objective-C, as a FastCGI application or as a
CGI program. It consists of the kit itself (`src/CGIKit/*.m`), which accepts
requests on a main thread and handles each in an operation on a queue, and of a
copy of the FastCGI C library (`fcgiapp.c`, `os_unix.c`, `fcgi_stdio.c`,
`fcgio.cpp`), which it uses to talk to the web server. This directory models
both, checks the models with TLC and proves their safety properties with TLAPS,
for every value of the constants.

## Inventory

| Component | State | Operations | Hard about it |
|---|---|---|---|
| Output streams (`fcgiapp.c`) | two buffers per request with error and close flags, `nWriters`, `appStatus`, `keepConnection` | Put*, FPrintF, FFlush, FClose, ClearError, SetExitStatus, Finish_r | padding in place, closing records through the same buffer, partial writes, two streams on one connection |
| Input streams (`fcgiapp.c`) | position in the current record, `skip`, `eorStop`, request id and role | FillBuffProc and what it calls, GetStr, StartFilterData, Accept_r's reading | reads that cut records anywhere, nested calls through the same stream, foreign and management records, lost connections |
| Request lifecycle (`fcgiapp.c`) | `FCGX_Request`, `ipcFd` | Init, InitRequest, Accept, Finish, Free, Attach, Detach | kept connections, retries, pointers to freed streams |
| Accepting (`os_unix.c`) | `shutdownPending`, file lock, local `socket` and `sa` | OS_Accept, AcquireLock, ReleaseLock, signal handlers, OS_IpcClose | several processes on one socket, signals, descriptors shared with other threads |
| Formatted output (`fcgiapp.c`) | the format's position, the arguments taken, a buffer kept between conversions | VFPrintF | two paths that take arguments at different places, lengths bounded before they are known |
| Asynchronous I/O (`os_unix.c`) | table of callbacks, descriptor sets, counts of posted events | OS_AsyncRead/Write, OS_DoIo, OS_Close | callbacks that change the table they are called from |
| Sockets and processes (`os_unix.c`) | none of their own | OS_CreateLocalIpcFd, OS_FcgiConnect, OS_SpawnChild, OS_Read, OS_Write | system calls in a row |
| stdio wrappers (`fcgi_stdio.c`) | `acceptCalled`, `isCGI`, three FCGI_FILEs and those opened, `environ` | FCGI_Accept, FCGI_Finish, fopen, freopen, fclose and the other wrappers | falls back to CGI, files behind standard streams, state after a failing accept |
| C++ buffers (`fcgio.cpp`) | get and put areas | overflow, sync, underflow, uflow, attach, setbuf | failed flushes, the end of the input, one buffer for many requests |
| Application (`CGIApplication.m`) | the operation queue, the delegate | run, delegate calls | one thread accepts, many handle; exit |
| Contexts (`CGIHTTPContext.m`) | `_CGI_Bad`, `_CGI_Executed`, request, response | init, main | exceptions anywhere, flags without locks |
| Responses (`CGIHTTPResponse.m`) | headers, data | accessors, convenience methods, prepareForSend | callers in any order, replaced responses, types of headers |
| Requests (`CGIHTTPRequest.m`) | environment, data | accessors | missing and malformed entries |
| Server objects (`CGIServerObject.m`) | | parse, serialize | parsers live in absent submodules |

A request passes through them like this: the main thread makes a
`CGIHTTPContext`, whose `init` calls `FCGX_Accept_r`; that accepts a connection
(`OS_Accept`) or uses the kept one, and reads the environment through the input
stream. The context goes to the queue; one of its threads reads the body
(`FCGX_GetStr`), asks the delegates, makes the response, writes it to the output
stream and calls `FCGX_Finish_r`, which closes both output streams and keeps or
closes the connection. Contexts share `_CGI_Bad`, `_CGI_Executed` and the
process's descriptors; processes share the listening socket and its lock.

What makes each correct is stated in the sections below; the hazards, line by
line, are in `PROJECT.json`.

## Plan

The order was: the output streams and their proofs, the input streams, the
accept loop, the application, its responses; then the request from request to
request (`FcgxRequest`) with what is built on it (`FcgiStdio`,
`FcgioStreambuf`), `FCGX_VFPrintF`, and the asynchronous I/O. All of these are
done, and every safety invariant of the runs is a theorem. Left, in this order:

1. `FCGX_GetLine` and the lengths of `ReadParams` as pure algorithms, and the
   substitutions of a template.
2. `HttpRequest`: the environment's lookups and the short read of the body.

## Modules

Each module `X` has an `MCX` that gives TLC its instances; configurations are
named after the module. An operator whose comment starts with "Fault:" is a bug
that the code does not have; it takes the place of the operator after it to show
that a property can fail, and no specification uses it.

### FcgxWriter, ResponseChannel

The two output streams of a request. A variable `stream[s]` holds an
`FCGX_Stream` and its `FCGX_Stream_Data`: `body` is the content behind the
header's space, `raw` the closing records of `rawWrite` mode, and `Used`, `Room`
are `wrNext - buff` and `stop - wrNext`. The n-th byte that the application
writes is the number n and padding is 0, so a stream is right when it counts.
One action is one round of a loop of the code: `PutFits`, `PutFills`,
`PutEmpties`, `PutRefused` are the branches of `FCGX_PutStr`; `FCloseBegins`,
`ClosePuts`, `CloseEmpties`, `CloseDrops`, `FCloseEnds` are `FCGX_FClose` with
`WriteCloseRecords`; `Finish*` are `FCGX_Finish_r` and `FCGX_Free`. A write may
fail after any number of whole records.

`ResponseChannel` is the promise without buffers: a growing prefix per stream
until a failure breaks it, and an end only when unbroken streams are delivered.

- *FcgxWriter.cfg*: bytes arrive whole and in order until a write fails
  (`StreamIntegrity`), records fit buffers and the protocol (`RecordsFit`),
  END_REQUEST comes once at most, and on a working connection last and after
  everything (`ResponseOrder`), damaged connections are not kept
  (`KeptConnectionIsClean`), a closed stream stays silent (`FCloseIsFinal`),
  every call returns (`CallsReturn`), and the whole implements the channel
  (`ImplementsChannel`). The buffers are 32 and 24 bytes: the smallest that
  NewStream makes, and the one in which END_REQUEST does not fit at once. The
  outputs are one piece of 7 bytes, which leaves padding, and a pair of 17 and
  8: behind 7 bytes the 17 fill the larger buffer to its last byte, alone the
  pair is one byte too many for it, and 17 overflow the smaller one. Larger buffers
  add no branch; the proofs cover them. Fairness is weak, of the library's steps
  together: a thread inside a call runs on, and write(2) returns.
- *FcgxWriterStatus.cfg* is a violation: the exit status that one request set is
  sent for a later request that sets none.

Not asked of the runs, and visible in the actions: a stream with an error still
takes bytes that fit (`PutFits` does not look at `isClosed`), though SetError's
comment says that writes then have no effect.

### FcgxReader

The input side. A server sends a script of records; on the wire each is a run of
cells (two for a header), and a read returns any number of the cells that have
come. `pc` is the step of `FillBuffProc`: `top`, `content`, `padding`, `header`,
`process`; `call` says for whom it runs (Accept_r, ReadParams, the application),
and `nest` whether it runs inside ProcessHeader. The reader's fields have the
names of the code; `avail` is `stop - rdNext`. `Switch` is FillBuffProc's
switch over the status of `ProcessHeader`. Content never looks like a header: in
a misaligned stream it always has a wrong version.

The server waits for the answer to a request before the next, and for the answer
to GET_VALUES; it may hang up, and a signal may interrupt a read.
`WellFormed` says which connections the reader copes with. It spells out what the
properties need: no padding on begin records and ends of streams, no empty
foreign records, no content in unknown management records, padding behind
GET_VALUES. Scripts outside it are run as well, for the type invariant and to
see that nothing else depends on it. `Regular` excepts requests that follow one
which FCGX_Finish_r left unread on the same connection: then the rest of a
multiplexed request, refused before, can be taken for a new request, out of
order and without an end (script `LeftUnread`).

- *FcgxReader.cfg*: ten scripts (two requests, two that are multiplexed,
  management records, a filter, five bad ones), a buffer of three cells, so that
  every header is split in every way, and reads of 2 and 5. The application gets
  its own input in order (`InputInOrder`); the environment that FCGX_Accept_r
  returns, and each stream at its end of file, have been read whole
  (`StreamsAreWhole`); what has been answered between two calls is what the
  records up to the one that is read ask for, once and in order
  (`AnswersInOrder`, with `AnswersUpto` as the reference); a good server is not turned away (`GoodServerIsServed`); and, under weak
  fairness of the library, FCGX_Accept_r and FCGX_GetStr get to their ends
  (`CallsReturn`).
- *FcgxReaderTruncated.cfg*, *FcgxReaderEmpty.cfg* are violations: a truncated
  environment is accepted; an empty foreign record makes the reader skip its own
  input.

A GET_VALUES record without padding is outside `WellFormed` because the reader
blocks behind it before it answers, while the server waits for the answer.

### OsAccept

`OS_Accept` for several processes, one `pc` per process, with the descriptor
table of each, which other threads use. `socket` is the local variable, which
close(2) does not reset. The variable `setup` is how the processes are run: which
of them, on what kind of socket, with or without the lock, with or without other
threads.

- *OsAccept.cfg* has two setups: two processes on an INET socket with locking,
  and one on a UNIX socket whose other threads use the descriptor table.
  `LockCoversAccept`; `ConnectionsEndWell` (what is accepted is returned if it
  deserves it and closed otherwise, or when a signal ended the wait for it);
  `OneLateAccept`; and `AcceptGoesOn`: good clients are served, and after the
  shutdown signal OS_Accept returns. Two
  connections let one be turned away while another waits. `MaxFd` gives three
  descriptors, one for each role: the call's, one handed out, another thread's.
  They may all be taken, and then accept(2) fails. Each process calls again and
  closes what it got (weak fairness: `-[CGIApplication run]` loops, contexts
  finish); strong fairness of accepting says that accept(2), which fails for an
  aborted connection, does not do so forever.
- *OsAcceptStaleFd.cfg* is a violation: after it has turned a client away,
  OS_Accept returns a stale descriptor.

That a connection is accepted after the shutdown request, in the window that the
code's own comment admits, is what `OneLateAccept` allows once. `AcceptGoesOn`
excludes calls that have turned a client away: their `socket` is stale, and after
the signal the inner loop can go round forever. It also excludes the clients in
`interrupted`. is_af_unix_keeper waits in select(2) for a client's first bytes and
takes every failure of it, a signal's EINTR included, for a client that sends
nothing; OS_Accept then closes a client with which nothing is wrong
(`DropInterrupted`). These connections are lost, and the ghost variable keeps them
apart from the clients that are turned away for a reason.

### CgiApplication, RequestService

The main thread (`main`) and, per request, the phase of its context. Delegates
answer or raise in each callback. `link` is what the server does on a connection,
or on the stdio of a CGI process: it is good, it has stalled (nothing more comes,
nothing more is taken), or it is broken (calls may fail, and what is sent may get
nowhere). `output` is what a context wrote to its stream and `arrived` what the
server has of it: the results of the writes and of FCGX_Finish_r are ignored by the
code, so a broken connection shows in `arrived` and nowhere else. An exception
outside every `@try` (`Uncaught`: in a delegate on the main thread, while the
environment is copied, in the `@catch` that makes an exception's page) ends the
process, `main = "abort"`. `RequestService` is the promise to the server: what is
taken is answered once, and the service stops owing nothing.

- *CgiApplication.cfg*: three requests, and one thread or two (`threads`, which the
  system chooses for the queue), so that one context waits while two run, or while
  one is stalled; a server that stalls or vanishes on one connection and asks to
  keep another; both as FastCGI and as CGI. Nothing is in progress at exit
  (`DrainedAtExit`); no context is made that should not be, neither after an
  exception nor in a CGI process (`StopsAccepting`); what is finished has its
  answer, the whole of it unless the connection broke, and gave its connection back
  (`RequestsEndWell`); the abstract service is implemented (`ImplementsService`);
  every request gets through (`RequestsAreServed`); and the process ends when it
  should (`ProcessEnds`).

The model keeps the code's order at the end of a context: `didSendResponse:`
comes before FCGX_Finish_r has flushed the stream, though the header says it is
called when the sending is finished; on a broken connection the answer may then
never arrive.

Requests are taken in the order in which they come, as from a listen queue;
without that, no request could be promised its turn. Fairness is weak, and what it
assumes is this: the main thread and the queue's threads run, delegates return or
raise, and a call on a connection whose server is good, or gone, returns.
FCGX_GetStr, the writes, FCGX_Finish_r and the reads of FCGX_Accept_r have no
timeout, so on a stalled connection nothing is assumed: the fairness condition is
on `MainThread /\ ~MainStalls` and `QueueThread(r) /\ ~ContextStalls(r)`. The two
liveness properties say what that costs. `HeldUp` names the requests that a
stalled server may hold up: its own; those that wait while the main thread reads
from it; and those in the queue when it has all threads. `ProcessEnds` has the same
exceptions, and both count an uncaught exception among the ends.

The application stops at `exit`, and it may wait for a request for ever, so
this run does not check for deadlock. The same holds for the runs of OsAccept
(processes that failed), HttpResponse (one response), FcgxReader (a server that
sends nothing more), AsyncIo (a process that has exited) and FcgiClients.

### HttpResponse

One response between the delegates and the stream. A header is absent, a number
object or a text. Every method may be called in any order, four calls at most
(`MaxCalls`): a property here relates two headers and the data, and two calls
can disturb each.

- *HttpResponse.cfg*: the status that goes out is the documented one
  (`StatusAsDocumented`), and the body and its Content-Length are those of the
  response that was decided on, whatever was set before (`BodyAsDescribed`).

What these do not claim, because the code does not do it: cookies and a location
of a redacted response are sent, a redirection may have the Content-Length of a
body it lacks, and the accessors of numbers raise after prepareForSend.

### FcgxRequest, FcgiStdio, FcgioStreambuf

`FcgxRequest` is `the_request` from request to request: accepting with its
retries, finishing, freeing, and connections that are kept, closed or lost. The
streams of the k-th request are called k, so that a pointer to the streams of an
earlier request shows as one. Its users come on top:

`FcgiStdio` has the three standard FCGI_FILEs and those on the heap. A
FCGI_FILE is its two pointers; `files` is what stdio has open. `FCGI_Accept` has
three ways out (CGI, a request, a failure), and each keeps or sets the FILEs and
`environ` as the code does. Of the wrappers that only pass a call on, the model
says where it arrives: at an open FILE, at a stream, at one that was freed, or
nowhere.

`FcgioStreambuf` is one `fcgi_streambuf` with its put and get area, between
iostreams, whose calls are those that libstdc++ makes, and a stream of the
request, whose calls may fail once the server has gone. The program keeps to what
`fcgio.h` asks: flush before the next request, attach before using a stream
buffer again.

- *FcgiClients.cfg* (module `MCFcgiClients`): a variable `client` chooses who
  uses the library in a behaviour. For stdio: calls arrive where they should
  (`CallsArrive`), no FILE is lost or held twice (`FilesAreHeld`), and no request
  is left unfinished or mistaken for another (`RequestsEnd`). For the stream
  buffer: no byte is lost, doubled or reordered (`OutputSurvives`,
  `InputSurvives`). For `FcgxPrintf`: see below. Two requests, since every hazard
  here is one between a request and the next; one FCGI_FILE on the heap and two
  files, so that one can be open, closed and opened again beside another, and
  files are symmetric; a buffer of two bytes, four bytes written and three read,
  so that an area is filled, overflowed and left partly full.

What the properties except is what the code does not keep: a program that goes on
after a failed FCGI_Accept uses freed streams; FCGI_Accept forgets the file a
standard stream was reopened as; `uflow` at the end of the input moves the get
pointer behind the area (`over`); after a failed flush the put area stays, and
`attach` empties it unsent.

### FcgxPrintf

`FCGX_VFPrintF` on a sequence of literals and directives. A text or number is
its length, `args` counts what `va_arg` took. C's side and the code's are apart:
`CPrecision` and `CLength` are what printf(3) makes of a directive, `Precision`,
`Sprintf` and `Strlens` what the code has sprintf(3) write and then counts.
`BuffReqd`, `BufferFor` and `FmtLength` are the code's bounds; the bound of `f` is
taken from an exponent, and `Exponents` says which frexp(3) may give: for a long
double that the cast makes infinite, also 0.

- *FcgiClients.cfg*, with `client = "printf"`: at each directive the call has
  taken the arguments that C asks for, the result is what was put, and both are
  what C prints, up to the first directive with a negative precision or the
  character NUL (`InStep`). A rebuilt directive fits `fmtBuff`, and what sprintf
  writes fits its buffer unless a width of a buffer's length makes it or a long
  double is beyond the range of double (`BuffersSuffice`). The formats are every
  directive alone, with sizes on both sides of each limit (100, 999999, five flags,
  309 digits), and triples that share a buffer.
- *FcgxPrintfAssert.cfg* is a violation: "%100d" fails the code's own assertion.

What `InStep` and `BuffersSuffice` except is what the code does not keep. A width
of the buffer's length leaves no room for the end of the string. Of "%Lf" the
exponent is that of the cast to double, of which frexp(3) makes anything when it is
infinite (the code's comment warns of it): the bound is then 19 bytes and `buff`,
with 100, is used for more than 300. "%c" with NUL puts no byte, since the length
of a result is taken with strlen. And a negative precision taken with a star is made
0, where C takes it as omitted: "%.*s" with -3 prints nothing of its string.
`FcgxPrintfAssert` leaves the long doubles out, so that it is about the width.

### AsyncIo

The table of callbacks of `os_unix.c`. An index of the table is a descriptor and
a direction, so the read and write variables of the code are one variable each:
`fdSet`, `posted`, `numPosted`. `pc = "callback"` is the middle of OS_DoIo's
loop, from where everything but OS_DoIo may be called. `due`, `open`, `shut` and
`ready` are the environment: what callers still wait for, and the kernel's view.

- *AsyncIo.cfg*: no registration is lost or invented (`NothingIsLost`), a
  callback is due and its descriptor ready (`CallbackIsDue`), and what is ready
  is served (`ReadyIsServed`). Descriptors 0 and 2 and a table that starts with
  the entries of one, so that registering doubles it twice; three registrations,
  so that a descriptor can be closed, opened and registered again while another
  waits. Fairness is weak: OS_DoIo runs on, callbacks return, and the application
  calls OS_DoIo again.

`ReadyIsServed` excepts `Miscounted`: OS_Close takes a posted event and leaves
its count, and OS_DoIo then neither selects nor finds anything, for ever. A
signal in select(2) exits the process, as the code has it.

## Proofs

A module `X_proofs` proves theorems about `X`; `FcgiClients_proofs` is about
`FcgxRequest`, `FcgiStdio` and `FcgioStreambuf` together. Each safety invariant
and each action property that is proved follows from an inductive invariant,
`IInv` unless said otherwise, that is the type invariant and what is listed
below. TLC has checked each of them on an instance of its module.
Nothing is assumed but the named assumptions on the constants, which TLC
evaluates in the runs.

**FcgxWriter_proofs** (`BuffLenAssumption`: the sizes that NewStream makes;
`CallsAssumption`: a call is a sequence of lengths). Four layers:

- `IInv` gives `StreamIntegrity` and `RecordsFit`. That padding fits needs that a
  buffer outside `rawWrite` mode holds no closing records and that its fill is at
  most BuffLen, a multiple of 8; that a record has less than 8 bytes of padding
  needs that a framed buffer remembers its length; that the mode is left once
  needs to know which stream is being closed (`BufferOK`, `WritersOK`). Together
  with what a step does to a closed stream it also gives `FCloseIsFinal`.
- `FinishIInv` adds where FCGX_Finish_r is (`Phases`) and what a stream's flags
  say (`FlagsOK`: closed without a failure means empty; failed means error until
  FCGX_ClearError; closed means failed or FCGX_FClose). From it come
  `KeptConnectionIsClean` and the refinement of `ResponseChannel`: `StepRefines`
  maps each action to a step of the channel or to none.
- `OrderIInv` looks ahead: `Response` is the wire followed by what the close in
  progress has still to send, and the order of records is an invariant of it,
  not of the wire. The one way in which it could fail is a write that fails
  between END_REQUEST's header and body and is repeated; `EndIsHeldBack` excludes
  it: the header is written together with the body or not at all. `ResponseOrder`
  follows, as the wire is the front of `Response`, and all of it when the
  connection is given up.

**OsAccept_proofs** (`ConfigAssumption`, `NamesAssumption`: a connection is not
named as a free descriptor). `LockCoversAccept`, `ConnectionsEndWell`,
`OneLateAccept` for any number of processes, with signals that end any wait and a
ReleaseLock that fails on either of its paths. The invariant says whose descriptor
`socket` holds at each `pc` (`SocketIsFresh`, `SocketIsStale`), that descriptors
handed out are still open when accept(2) takes a number (`HandedAreOpen`), that
a client past the check is approved, and that after a late connection accept(2)
is not reached again (`LateIsLast`).

**CgiApplication_proofs** (`BoundsAssumption`). `DrainedAtExit`,
`StopsAccepting`, `RequestsEndWell`, and the refinement of `RequestService`, for
any number of requests and threads, whatever the server does and wherever an
exception is raised. The invariant adds the life of a CGI process
(`OneContext`), that no request is taken after a late one, what a context has by
the time it comes to a phase (`ContextSoFar`: how much was written, and how much
of that the server has unless the connection broke), and that each connection is
accounted for.

**HttpResponse_proofs** (`CodesAssumption`). `StatusAsDocumented` and
`BodyAsDescribed` for any codes, lengths and number of calls. `MadeAsDecided`
says that what the context makes of a response keeps status and page together.

**AsyncIo_proofs** (`AsyncAssumption`). `NothingIsLost` and the action property
`CallbackIsDue`, for any descriptors and any first size of the table. The invariant
says that entries in use hold different registrations, that what is posted is
waited for or was cancelled (`PostedOrCancelled`), and counts each registration
once (`CountedOnce`), which bounds `numPosted`.

**FcgxPrintf_proofs** (`FormatsAssumption`: without a precision the argument of
`d` or `p` takes at most 46 bytes, for which the code has no other bound, a double
has 309 digits at most, and a literal has no width). `InStep` and `BuffersSuffice`,
for formats of any length and either exponent of an infinite cast. That the bytes
are C's is a lemma about one directive (`LengthProps`: what strlen gives is
`CLength`, unless the directive is one of the two that differ) and an induction
over the items put. `BytesOf` and `ArgsOf` are recursive functions; that they exist and have the
right values is proved by taking a least counterexample, as the library's
induction theorems cannot be used.

**FcgiClients_proofs** (`RequestsAssumption`, `FilesAssumption`,
`SizesAssumption`). `RequestIInv` says that the streams in hand are those of the
last request. On it, `StdioIInv` gives `CallsArrive`, `RequestsEnd` and the
action property `FilesAreHeld`, for any number of FILEs and requests: a FILE that
is held is open and held once, and streams belong to standard FCGI_FILEs only.
`BufIInv` gives `OutputSurvives` and `InputSurvives`, for every size of the
buffer: both areas fit, and a flushed buffer has nothing to put.
The proof found an error in the model, which TLC had passed over: two arms of
the CASE in `Arrives` overlapped.

**FcgxReader_proofs** (`ReaderAssumption`: a buffer holds a header at least, and
the application does not ask for nothing). `TypeOK`, `InputInOrder`,
`StreamsAreWhole`, `GoodServerIsServed` and `AnswersInOrder`, for any scripts, any
sizes of the buffer and of the reads, and any loss of the connection. Four layers.
`IInv` is about one record, of any
script, well-formed or not; the types are inductive only together with where
FillBuffProc is:

- `Types` strengthens `TypeOK` by bounds: what is available lies in the buffer, the
  records in a header's cells are of the script;
- `Phases` says at each `pc` what the buffer holds and what of a record is left,
  `Callers` who waits for FillBuffProc, with what type of stream;
- `Heads` says how much of a header there is: all of it at `process`, with eorStop
  set, and inside a nested call, where it is one that ProcessHeader has accepted;
  `HeadIsRead`, that it is the cells read last, without a gap. Without them
  `Header` could be taken of an empty sequence.

`Deep` is about the connection, and says something of `Regular` ones only. The
properties compare what was delivered with a selection from the whole wire, so
the invariant has to know in which record of the request the reader is:

- `Aligned`: without an error there is a record i at whose header the reader is
  (`At`), whose header it has in part (`InFlight`), or in whose content or padding
  it is (`Within`), and what is left of the record is what `contentLen` and
  `paddingLen` say. Content that is skipped is a foreign record's, content that is
  not is of the stream that is read;
- `MarkOf` is the end of the stream that went before, and the reader is
  past it and not past the next (`Before`); so no end of stream is missed;
- `NothingEarly`: what of the next request is on the wire has not come, since the
  server sends it when the one before is answered; `Begun`: a request that has
  begun is the server's current one; `Early` is what holds before it has begun;
- `Failed`: an error stops a record in the middle, and FCGX_GetStr or
  FCGX_StartFilterData may go on after it, from a place that is no longer a
  header's. The reader then takes nothing for content that is not (`Failing`: what
  it still has of a header has lost cells, or it is skipping a foreign record), so
  what is delivered remains a prefix;
- `EnvComplete` and `InputInOrder` themselves, as what was read before a step.

`FreshDeep` shows that each new request, on the connection or on the next, starts
in such a state: FCGX_Finish_r drops what is buffered, and that is nothing of the
next request. TLC also checks `Deep`, and the two layers that follow, when they are
added to the invariants of *FcgxReader.cfg*.

`Serving` is about a good server that neither hangs up nor is interrupted, up to
the moment the application has the request. `InService` says that there is no
error, that FillBuffProc returns to FCGX_Accept_r only with a request that has begun,
and where a nested call is: one for a body ends with it, and one for GET_VALUES
whose stream is closed has nothing left to read. With `Deep` this excludes each of
FillBuffProc's errors in turn; that ReadParams does not meet one either needs that
the environment's content is whole (`EnvLen`, its length, is even, as a pair is).
`GoodServerIsServed` follows, as FCGX_Accept_r gives up for an error only.

`Answering` is about the replies: when the reader is to reach the end of record i
(`Boundary`, its place and what is left of the record), it has sent
`AnswersUpto(script, i)`, and inside a nested call, which reads the record that is
to be answered, those up to the record before. Most steps leave `Boundary` alone;
the ones that do not take a header or leave ProcessHeader, with or without an
answer, and there `WithAnswer` says what the code's branches do.

`CellsLayout` is the lemma on the wire: with `Ends`, a recursive function, it says
where record i of a flattened script begins and ends. `OwnSteps`, and the lemmas
after it, say what a stream's own content (`OwnUpto`, recursive over the wire)
gains from a run of cells. `AnswersUpto` is recursive too. As with FcgxPrintf,
recursive functions are taken apart by a least counterexample.

Only model-checked:

- liveness (`CallsReturn`, `AcceptGoesOn`, `RequestsAreServed`, `ProcessEnds`,
  `ReadyIsServed`), which is out of the prover's reach, as is ENABLED;
- the properties of the five runs that end in a violation.

## Not modelled

- Sockets and processes of the OS layer: system calls in a row, without a state
  that a step could find changed.
- Requests: each accessor looks up one entry of a dictionary that does not
  change. A short read of the body leaves the rest
  of the malloced block as it was (`CGIHTTPContext.m:91`).
- Server objects: they forward to parsers that are not in the repository.
- `FCGX_GetLine`, the lengths in `ReadParams`, the contents of the answer to
  GET_VALUES, the values the stdio wrappers return, the substitutions of a
  template: loops over text, left to the plan.
- Data races on `_CGI_Bad`, an aligned BOOL that only ever becomes YES, are taken
  as atomic reads and writes. Crashes by a bad pointer, as for a header that is not
  ASCII, whose C string is NULL.
- Memory behind an array: OS_Close looks behind the table for a descriptor that
  it does not reach, and `fcgi_streambuf` reads behind its get area at the end of
  the input, and sprintf writes behind a buffer that is too small for it. The models
  stop where that begins.
