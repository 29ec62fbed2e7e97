--------------------------- MODULE CgiApplication ---------------------------
(***************************************************************************)
(* The application object and its contexts (CGIKit/CGIApplication.m,       *)
(* CGIKit/CGIHTTPContext.m): the main thread accepts requests, each in a   *)
(* new CGIHTTPContext, and adds the contexts to an NSOperationQueue, whose *)
(* threads run -[CGIHTTPContext main].  An exception in one context sets   *)
(* the flag _CGI_Bad, which makes the main thread stop accepting.  An      *)
(* exception outside every @try ends the process.                          *)
(*                                                                         *)
(* The delegates, the server and the operation queue are the environment:  *)
(* a delegate answers or raises; the server sends requests at any time,    *)
(* and may stop answering on a connection, or be gone, at any time.        *)
(***************************************************************************)
EXTENDS Naturals, FiniteSets

CONSTANTS
    MaxRequests,  \* the requests the server may send, a bound for TLC
    MaxFaults,    \* on how many of them it may stall or be gone, a bound for TLC
    KeepConn,     \* the requests after which it asks to keep the connection
    MaxThreads    \* how many contexts the operation queue may run at once

ASSUME BoundsAssumption ==
    MaxThreads \in Nat \ {0} /\ MaxRequests \in Nat \ {0} /\ MaxFaults \in Nat

VARIABLES
    isCGI,      \* FCGX_IsCGI()
    threads,    \* how many contexts the queue runs at once, as the system decides
    main,       \* what the main thread is about to do
    current,    \* the request of the context that -[run] has just made
    executed,   \* _CGI_Executed
    bad,        \* _CGI_Bad
    phase,      \* what becomes of each request
    response,   \* how each context's response was made
    output,     \* how much of the response the context wrote to its stream
    arrived,    \* how much of it the server has
    conn,       \* the FastCGI connection of each request's context
    link,       \* what the server's end of it, or of a CGI's stdio, does
    late,       \* ghost: the requests accepted after an exception
    failed      \* ghost: FCGX_Accept_r has failed

\* Requests are numbered as they come, and accept(2) takes the first that waits.
Request == 1 .. MaxRequests
First(p) == {r \in Request : phase[r] = p /\ \A q \in Request : phase[q] = p => r <= q}

contexts == <<phase, response, output, arrived, conn, link>>
setup == <<isCGI, threads>>
vars == <<setup, main, current, executed, bad, contexts, late, failed>>

\* A context between addOperation: and the end of -[main] is in one of these.
Running == {"body", "shouldHandle", "handle", "shouldSend", "send", "didSend",
            "finish"}

\* In these a context calls on its connection, and may be blocked there.
Blocking == {"body", "send", "finish"}

Waiting == {r \in Request : phase[r] = "waiting"}
InProgress == {r \in Request : phase[r] \in {"accepted", "queued"} \cup Running}
Finished == {r \in Request : phase[r] = "finished"}

\* The process has ended, by exit(0) or by an exception that nothing caught.
Ended == {"exit", "abort"}

Init ==
    /\ isCGI \in BOOLEAN
    /\ threads \in 1 .. MaxThreads
    /\ current = 1
    /\ phase = [r \in Request |-> "away"]
    /\ main = "launch"
    /\ executed = FALSE
    /\ bad = FALSE
    /\ response = [r \in Request |-> "none"]
    /\ output = [r \in Request |-> "none"]
    /\ arrived = [r \in Request |-> "none"]
    /\ conn = [r \in Request |-> "none"]
    /\ link = [r \in Request |-> "good"]
    /\ late = {}
    /\ failed = FALSE

-----------------------------------------------------------------------------
(* The server.                                                             *)

\* The server sends a request.
Arrive(r) ==
    /\ main \notin Ended /\ ~isCGI
    /\ r \in First("away")
    /\ phase' = [phase EXCEPT ![r] = "waiting"]
    /\ UNCHANGED <<setup, main, current, executed, bad, response, output,
                   arrived, conn, link, late, failed>>

\* A fault shows where a call is made on the connection, and so it comes there: in
\* FCGX_Accept_r, in a context, or when the exit of a CGI process flushes stdout.
MayFail(r) ==
    /\ main \notin Ended
    /\ link[r] # "good" \/ Cardinality({q \in Request : link[q] # "good"}) < MaxFaults
    /\ \/ phase[r] \in {"reading"} \cup Blocking
       \/ isCGI /\ r \in Finished

\* From now on the server sends nothing more and takes nothing more.
Stalls(r) ==
    /\ MayFail(r) /\ link[r] = "good"
    /\ link' = [link EXCEPT ![r] = "stalled"]
    /\ UNCHANGED <<setup, main, current, executed, bad, phase, response, output,
                   arrived, conn, late, failed>>

\* From now on calls may fail, or send what nobody will read: the server has
\* closed its end, or a signal interrupts a call.
Breaks(r) ==
    /\ MayFail(r) /\ link[r] # "broken"
    /\ link' = [link EXCEPT ![r] = "broken"]
    /\ UNCHANGED <<setup, main, current, executed, bad, phase, response, output,
                   arrived, conn, late, failed>>

-----------------------------------------------------------------------------
(* The main thread: -[CGIApplication run].                                 *)

DidFinishLaunching ==
    /\ main = "launch"
    /\ main' = "init"
    /\ UNCHANGED <<setup, current, executed, bad, contexts, late, failed>>

\* Fault: -[CGIHTTPContext init] does not look at _CGI_Bad.
InitContextBlind ==
    /\ main = "init"
    /\ main' = IF isCGI /\ executed THEN "wait" ELSE "accept"
    /\ executed' = isCGI
    /\ UNCHANGED <<setup, current, bad, contexts, late, failed>>

\* Fault: _CGI_Executed also stops a FastCGI process.
InitContextOnce ==
    /\ main = "init"
    /\ main' = IF bad \/ executed THEN "wait" ELSE "accept"
    /\ executed' = TRUE
    /\ UNCHANGED <<setup, current, bad, contexts, late, failed>>

\* -[CGIHTTPContext init] up to FCGX_Accept_r: nil ends -[run]'s loop.
InitContext ==
    /\ main = "init"
    /\ main' = IF bad \/ (isCGI /\ executed) THEN "wait" ELSE "accept"
    /\ executed' = (executed \/ (isCGI /\ ~bad))
    /\ UNCHANGED <<setup, current, bad, contexts, late, failed>>

\* FCGX_Accept_r has a connection, and reads the request's parameters.
Accept(r) ==
    /\ main = "accept" /\ ~isCGI
    /\ r \in First("waiting")
    /\ main' = "read"
    /\ current' = r
    /\ phase' = [phase EXCEPT ![r] = "reading"]
    /\ conn' = [conn EXCEPT ![r] = "open"]
    /\ UNCHANGED <<setup, executed, bad, response, output, arrived, link, late,
                   failed>>

\* FCGX_Accept_r loses the connection while it reads, and accepts another.
ReadFails ==
    /\ main = "read" /\ link[current] = "broken"
    /\ main' = "accept"
    /\ phase' = [phase EXCEPT ![current] = "lost"]
    /\ conn' = [conn EXCEPT ![current] = "closed"]
    /\ UNCHANGED <<setup, current, executed, bad, response, output, arrived,
                   link, late, failed>>

\* FCGX_Accept_r returns with the request, which the main thread takes no matter
\* what has happened to _CGI_Bad while it was blocked.  In a CGI process there
\* is nothing to wait for: any context made has the request of the process.
Take(r) ==
    /\ IF isCGI THEN main = "accept" /\ r \in First("away")
                ELSE main = "read" /\ r = current
    /\ main' = "delegate"
    /\ current' = r
    /\ phase' = [phase EXCEPT ![r] = "accepted"]
    /\ late' = IF bad THEN late \cup {r} ELSE late
    /\ UNCHANGED <<setup, executed, bad, response, output, arrived, conn, link,
                   failed>>

\* FCGX_Accept_r fails: an error of accept(2), or FCGX_ShutdownPending.
AcceptFails ==
    /\ main = "accept" /\ ~isCGI
    /\ main' = "wait"
    /\ failed' = TRUE
    /\ UNCHANGED <<setup, current, executed, bad, contexts, late>>

\* Fault: the context is not given to the queue.
AddOperationNot ==
    /\ main = "delegate"
    /\ main' = "init"
    /\ UNCHANGED <<setup, current, executed, bad, contexts, late, failed>>

\* application:delegateForContext:, then addOperation:.
AddOperation ==
    /\ main = "delegate"
    /\ main' = "init"
    /\ phase' = [phase EXCEPT ![current] = "queued"]
    /\ UNCHANGED <<setup, current, executed, bad, response, output, arrived,
                   conn, link, late, failed>>

\* Fault: the main thread does not wait for the queue.
WaitUntilFinishedNot ==
    /\ main = "wait"
    /\ main' = "terminate"
    /\ UNCHANGED <<setup, current, executed, bad, contexts, late, failed>>

WaitUntilFinished ==
    /\ main = "wait"
    /\ InProgress = {}
    /\ main' = "terminate"
    /\ UNCHANGED <<setup, current, executed, bad, contexts, late, failed>>

\* applicationWillTerminate:, then exit(0), which flushes a CGI's stdout and
\* does not look at how that went.
WillTerminate ==
    /\ main = "terminate"
    /\ main' = "exit"
    /\ \/ isCGI /\ arrived' = output
       \/ (isCGI => \E r \in Finished : link[r] = "broken") /\ UNCHANGED arrived
    /\ UNCHANGED <<setup, current, executed, bad, phase, response, output,
                   conn, link, late, failed>>

-----------------------------------------------------------------------------
(* A thread of the operation queue: -[CGIHTTPContext main].                *)

To(r, next) == phase' = [phase EXCEPT ![r] = next]

Alive(r, p) == main \notin Ended /\ phase[r] = p

\* The queue gives the context a thread.
Start(r) ==
    /\ Alive(r, "queued")
    /\ Cardinality({q \in Request : phase[q] \in Running}) < threads
    /\ To(r, "body")
    /\ UNCHANGED <<setup, main, current, executed, bad, response, output,
                   arrived, conn, link, late, failed>>

\* The environment is copied and the body read, as much of it as comes.
ReadBody(r) ==
    /\ Alive(r, "body")
    /\ To(r, "shouldHandle")
    /\ UNCHANGED <<setup, main, current, executed, bad, response, output,
                   arrived, conn, link, late, failed>>

\* An exception that no @try catches ends the process: of the delegates called
\* on the main thread, for a value of the environment that is not UTF-8, or for
\* the page of an exception, which is made in the @catch.
Uncaught ==
    /\ \/ main \in {"launch", "delegate", "terminate"}
       \/ \E r \in Request :
             \/ Alive(r, "body") /\ ~isCGI
             \/ \E p \in {"shouldHandle", "handle", "shouldSend"} : Alive(r, p)
    /\ main' = "abort"
    /\ UNCHANGED <<setup, current, executed, bad, contexts, late, failed>>

\* Fault: the handler of the exception has the delegate try again.
RaisesAgain(r) ==
    /\ To(r, "shouldHandle")
    /\ response' = [response EXCEPT ![r] = "exception"]
    /\ bad' = TRUE

\* The first @catch: an exception's page is sent instead, and _CGI_Bad set.
Raises(r) ==
    /\ To(r, "send")
    /\ response' = [response EXCEPT ![r] = "exception"]
    /\ bad' = TRUE

Answers(r, next, made) ==
    /\ To(r, next)
    /\ response' = [response EXCEPT ![r] = made]
    /\ UNCHANGED bad

ShouldHandleRequest(r) ==
    /\ Alive(r, "shouldHandle")
    /\ \/ Answers(r, "handle", "none")
       \/ Answers(r, "send", "decided")
       \/ Raises(r)
    /\ UNCHANGED <<setup, main, current, executed, output, arrived, conn, link,
                   late, failed>>

HandleHTTPContext(r) ==
    /\ Alive(r, "handle")
    /\ Answers(r, "shouldSend", "none") \/ Raises(r)
    /\ UNCHANGED <<setup, main, current, executed, output, arrived, conn, link,
                   late, failed>>

ShouldSendResponse(r) ==
    /\ Alive(r, "shouldSend")
    /\ Answers(r, "send", "decided") \/ Raises(r)
    /\ UNCHANGED <<setup, main, current, executed, output, arrived, conn, link,
                   late, failed>>

\* The second @try: prepareForSend, the headers and the data go to the stream,
\* or an exception stops them anywhere.  The results of the calls are ignored.
\* The stream holds at least the last byte back (FCGX_PutStr empties a full
\* buffer only to put more), so before FCGX_Finish_r the server has a part of
\* the response at most, perhaps none; of a CGI process's stdout, before exit.
SendResponse(r) ==
    /\ Alive(r, "send")
    /\ To(r, "didSend")
    /\ \E o \in {"whole", "part"} :
          /\ output' = [output EXCEPT ![r] = o]
          /\ bad' = (bad \/ o = "part")
    /\ arrived' = [arrived EXCEPT ![r] = "part"]
    /\ UNCHANGED <<setup, main, current, executed, response, conn, link, late,
                   failed>>

DidSendResponse(r) ==
    /\ Alive(r, "didSend")
    /\ To(r, IF isCGI THEN "finished" ELSE "finish")
    /\ bad' \in {bad, TRUE}
    /\ UNCHANGED <<setup, main, current, executed, response, output, arrived,
                   conn, link, late, failed>>

\* What FCGX_Finish_r flushes gets there, unless the connection is broken.
Flushed(r) ==
    arrived' \in {[arrived EXCEPT ![r] = o] :
                    o \in {output[r]} \cup IF link[r] = "broken" THEN {arrived[r]}
                                                              ELSE {}}

\* Fault: the connection is left open.
FinishOpen(r) ==
    /\ Alive(r, "finish")
    /\ To(r, "finished")
    /\ Flushed(r)
    /\ UNCHANGED <<setup, main, current, executed, bad, response, output,
                   conn, link, late, failed>>

\* FCGX_Finish_r, whose failures show nowhere.  A connection that is kept, as the
\* server asked, the context, which is done, never reads again.
Finish(r) ==
    /\ Alive(r, "finish")
    /\ To(r, "finished")
    /\ Flushed(r)
    /\ \E c \in {"closed"} \cup IF r \in KeepConn THEN {"kept"} ELSE {} :
          conn' = [conn EXCEPT ![r] = c]
    /\ UNCHANGED <<setup, main, current, executed, bad, response, output, link,
                   late, failed>>

MainThread ==
    \/ DidFinishLaunching \/ InitContext
    \/ \E r \in Request : Accept(r) \/ Take(r)
    \/ ReadFails
    \/ AddOperation \/ WaitUntilFinished \/ WillTerminate

QueueThread(r) ==
    \/ Start(r) \/ ReadBody(r)
    \/ ShouldHandleRequest(r) \/ HandleHTTPContext(r) \/ ShouldSendResponse(r)
    \/ SendResponse(r) \/ DidSendResponse(r) \/ Finish(r)

Server == \E r \in Request : Arrive(r) \/ Stalls(r) \/ Breaks(r)

Next ==
    \/ MainThread \/ AcceptFails \/ Uncaught
    \/ Server \/ \E r \in Request : QueueThread(r)

Spec == Init /\ [][Next]_vars

\* Where the main thread waits for a server that has stalled: for parameters,
\* or for a reader of a CGI's stdout.
MainStalls ==
    \/ main = "read" /\ link[current] = "stalled"
    \/ main = "terminate" /\ isCGI /\ \E r \in Request : link[r] = "stalled"

\* Where the context of a request does.
ContextStalls(r) == phase[r] \in Blocking /\ link[r] = "stalled"

\* The main thread runs, and accepts what waits; the queue runs every
\* operation; delegates return or raise.  A call on a connection returns if the
\* server's end is good or broken, but on a stalled one it need not: reads and
\* writes have no timeout.
FairSpec == Spec /\ WF_vars(MainThread /\ ~MainStalls)
                 /\ \A r \in Request : WF_vars(QueueThread(r) /\ ~ContextStalls(r))

-----------------------------------------------------------------------------
(* Properties.                                                             *)

Extent == {"none", "part", "whole"}

\* The request that is read, and the context to be added, are the main thread's.
HandsOn ==
    main \notin Ended =>
        \A r \in Request :
           /\ phase[r] = "reading" <=> main = "read" /\ r = current
           /\ phase[r] = "accepted" <=> main = "delegate" /\ r = current

\* Every variable has its type, and the main thread hands each context on.
TypeOK ==
    /\ isCGI \in BOOLEAN
    /\ threads \in 1 .. MaxThreads
    /\ main \in {"launch", "init", "accept", "read", "delegate", "wait",
                 "terminate"} \cup Ended
    /\ current \in Request
    /\ executed \in BOOLEAN
    /\ bad \in BOOLEAN
    /\ phase \in [Request -> {"away", "waiting", "reading", "lost", "accepted",
                              "queued", "finished"} \cup Running]
    /\ HandsOn
    /\ response \in [Request -> {"none", "decided", "exception"}]
    /\ output \in [Request -> Extent]
    /\ arrived \in [Request -> Extent]
    /\ conn \in [Request -> {"none", "open", "kept", "closed"}]
    /\ link \in [Request -> {"good", "stalled", "broken"}]
    /\ late \subseteq Request
    /\ failed \in BOOLEAN

\* When applicationWillTerminate: is called, and when the process exits, every
\* context is done: no delegate runs behind it, no request is cut off.
DrainedAtExit == main \in {"terminate", "exit"} => InProgress = {}

\* At most one request is accepted after an exception: the one the main thread
\* was already blocked for when the thread of another context set _CGI_Bad.
OneLateRequest == Cardinality(late) <= 1

\* A CGI process serves the one request it was started for, once.
OneCGIRequest ==
    isCGI => /\ Cardinality(InProgress \cup Finished) <= 1
             /\ main = "exit" => \E r \in Finished :
                                   arrived[r] = output[r] \/ link[r] = "broken"

\* No context is made that should not be: of a CGI process the one, after an
\* exception none but the one under way.
StopsAccepting == OneLateRequest /\ OneCGIRequest

\* A response goes out as the delegates decided: a request not handled is
\* answered with the rejection or the exception, an exception is never sent as
\* anything else, and an exception anywhere leaves _CGI_Bad set.  The answer is
\* all of what was written, unless the connection is broken: failing writes set
\* nothing and are reported to nobody, _CGI_Bad included.
ExceptionsAreAnswered ==
    \A r \in Request :
        phase[r] = "finished" =>
            /\ response[r] # "none"
            /\ response[r] = "exception" \/ output[r] # "whole" => bad
            /\ ~bad => output[r] = "whole"
            /\ \/ isCGI /\ main # "exit"
               \/ link[r] = "broken"
               \/ arrived[r] = output[r]

\* A connection is open for the request that is read and for each context in
\* progress; a finished context's is closed, or kept at the server's request,
\* on a broken or stalled connection too.
ConnectionsAccounted ==
    ~isCGI => \A r \in Request :
                 conn[r] = "open" <=> (phase[r] = "reading" \/ r \in InProgress)

\* A request that is finished has its answer, unless the server was gone, and
\* gave its connection back.
RequestsEndWell == ExceptionsAreAnswered /\ ConnectionsAccounted

\* A context that is in progress on a stalled connection.
StalledContext == \E r \in InProgress : link[r] = "stalled"

\* A CGI process, and one with an exception, drains its queue and exits; but a
\* FastCGI process only if a request comes to wake the main thread from
\* FCGX_Accept_r, and neither if a server that has stalled holds it up: the main
\* thread, or the context that the main thread waits for.
ProcessEnds ==
    bad \/ isCGI
        ~> \/ main \in Ended
           \/ ~isCGI /\ main = "accept" /\ Waiting = {}
           \/ MainStalls
           \/ main = "wait" /\ StalledContext

\* A stalled server holds up its own request; in FCGX_Accept_r, those that wait
\* behind it; and if it has stalled all threads of the queue, what is queued.
HeldUp(r) ==
    \/ link[r] = "stalled"
    \/ phase[r] = "waiting" /\ MainStalls
    \/ /\ phase[r] = "queued"
       /\ Cardinality({q \in Request : ContextStalls(q)}) >= threads

\* Every request gets through: one that is accepted is finished, whatever the
\* delegates of this and of other requests raise, and whatever a server does on
\* fewer connections than the queue has threads; none is left waiting by an
\* application that is well, as long as the library accepts.
RequestsAreServed ==
    \A r \in Request :
        phase[r] # "away" ~>
            \/ phase[r] = "finished"
            \/ phase[r] = "lost" /\ link[r] = "broken"
            \/ phase[r] = "waiting" /\ (bad \/ failed)
            \/ HeldUp(r)
            \/ main = "abort"

-----------------------------------------------------------------------------
(* The abstract service this implements.                                   *)

Service == INSTANCE RequestService WITH
    taken <- InProgress \cup Finished,
    answered <- Finished,
    stopped <- main = "exit"

\* The application serves its requests as the abstract service does.
ImplementsService == Service!Spec

=============================================================================
