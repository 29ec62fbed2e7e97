---------------------------- MODULE FcgxRequest ----------------------------
(***************************************************************************)
(* the_request of fcgiapp.c from request to request: FCGX_Init,            *)
(* FCGX_Accept, FCGX_Finish, FCGX_Free, FCGX_Attach, FCGX_Detach.  How     *)
(* records are read and written is in FcgxReader and FcgxWriter, how       *)
(* connections are accepted in OsAccept; here a request is read or not.    *)
(* Its users are FcgiStdio and FcgioStreambuf.                             *)
(*                                                                         *)
(* The streams of the k-th request are called k: a pointer that somebody   *)
(* kept to the streams of an earlier request is seen to be one.            *)
(***************************************************************************)
EXTENDS Integers, FiniteSets

CONSTANT MaxRequests    \* requests of the server, a bound for TLC

ASSUME RequestsAssumption == MaxRequests \in Nat

VARIABLES
    request,        \* FCGX_Request
    pc,             \* "app", in "accept", or "exited"
    count,          \* requests accepted so far
    served,         \* the server's view of each request
    closed,         \* the writers that FCGX_FClose was called for
    broken,         \* the server has closed the connection
    inError         \* the input stream has an error code

requestVars == <<request, pc, count, served, closed, broken, inError>>

Requests == 1 .. MaxRequests
Writers == {"out", "err"}
NoStream == 0

\* FCGX_InitRequest, by FCGX_Init; NoStream is NULL, and connected that ipcFd is
\* not -1.
InitRequest ==
    [connected |-> FALSE, streams |-> NoStream, keepConnection |-> FALSE,
     detached |-> FALSE]

RequestInit ==
    /\ request = InitRequest
    /\ pc = "app"
    /\ count = 0
    /\ served = [k \in Requests |-> "none"]
    /\ closed = {}
    /\ broken = FALSE /\ inError = FALSE

Live(k) == k # NoStream /\ k = request.streams
-----------------------------------------------------------------------------
(***************************************************************************)
(* Finishing.                                                              *)
(***************************************************************************)

\* What a request is for the server when both of its writers have been closed.
Ended == IF broken THEN "broken" ELSE "ended"

\* FCGX_Free: the streams go, and with close the connection.
FCGX_Free(close) ==
    [request EXCEPT !.streams = NoStream,
                    !.connected = @ /\ ~close,
                    !.detached = @ /\ ~close]

\* Whether FCGX_Finish_r closes: a broken connection is noticed if a write fails.
Closes ==
    LET asked == ~request.keepConnection \/ (request.streams # NoStream /\ inError) IN
    {asked} \cup (IF request.streams # NoStream /\ broken THEN {TRUE} ELSE {})

\* Fault: the streams are freed, and not closed.
FreesOnly ==
    \E close \in Closes :
        /\ request' = FCGX_Free(close)
        /\ broken' = (broken /\ ~close)
        /\ closed' = {} /\ inError' = FALSE
        /\ UNCHANGED <<count, served>>

\* FCGX_Finish_r.
FCGX_Finish ==
    \E close \in Closes :
        /\ request' = FCGX_Free(close)
        /\ served' = [k \in Requests |->
                        IF k = request.streams /\ served[k] = "open" THEN Ended
                        ELSE served[k]]
        /\ broken' = (broken /\ ~close)
        /\ closed' = {} /\ inError' = FALSE
        /\ UNCHANGED count

\* FCGX_FClose of a writer; the second ends the request.
FCGX_FClose(writer) ==
    LET k == request.streams IN
    /\ closed' = closed \cup {writer}
    /\ served' = IF closed' = Writers /\ served[k] = "open"
                 THEN [served EXCEPT ![k] = Ended] ELSE served
    /\ UNCHANGED <<request, pc, count, broken, inError>>
-----------------------------------------------------------------------------
(***************************************************************************)
(* FCGX_Accept.                                                            *)
(***************************************************************************)

AcceptBegins ==
    /\ pc = "app"
    /\ FCGX_Finish
    /\ pc' = "accept"

AcceptConnects ==
    /\ pc = "accept"
    /\ ~request.connected
    /\ request' = [request EXCEPT !.connected = TRUE]
    /\ UNCHANGED <<pc, count, served, closed, broken, inError>>

\* OS_Accept fails, after SIGUSR1 or for an error.
AcceptFails ==
    /\ pc = "accept"
    /\ ~request.connected
    /\ pc' = "app"
    /\ UNCHANGED <<request, count, served, closed, broken, inError>>

\* On a kept connection this is the first step: nothing asks for a shutdown.
AcceptReads ==
    /\ pc = "accept"
    /\ request.connected /\ ~broken
    /\ count < MaxRequests
    /\ count' = count + 1
    /\ \E keep \in BOOLEAN :
        request' = [request EXCEPT !.streams = count', !.keepConnection = keep]
    /\ served' = [served EXCEPT ![count'] = "open"]
    /\ pc' = "app"
    /\ UNCHANGED <<closed, broken, inError>>

\* A lost connection or a bad request: TryAgain.  What a begin record said of
\* keeping stays.
AcceptRetries ==
    /\ pc = "accept"
    /\ request.connected
    /\ \E keep \in BOOLEAN :
        request' = [FCGX_Free(TRUE) EXCEPT !.keepConnection = keep]
    /\ broken' = FALSE
    /\ UNCHANGED <<pc, count, served, closed, inError>>
-----------------------------------------------------------------------------
(***************************************************************************)
(* Other calls, and the server.                                            *)
(***************************************************************************)

FCGX_Attach ==
    /\ pc = "app"
    /\ request' = [request EXCEPT !.detached = FALSE]
    /\ UNCHANGED <<pc, count, served, closed, broken, inError>>

\* Returns -1 without a connection.
FCGX_Detach ==
    /\ pc = "app"
    /\ request.connected
    /\ request' = [request EXCEPT !.detached = TRUE]
    /\ UNCHANGED <<pc, count, served, closed, broken, inError>>

\* A call out of sequence, or a read that fails.
InputFails ==
    /\ pc = "app"
    /\ Live(request.streams)
    /\ inError' = TRUE
    /\ UNCHANGED <<request, pc, count, served, closed, broken>>

HangUp ==
    /\ request.connected /\ pc # "exited"
    /\ broken' = TRUE
    /\ UNCHANGED <<request, pc, count, served, closed, inError>>
-----------------------------------------------------------------------------
\* Requests that wait for their end.
Unfinished == {k \in Requests : served[k] = "open"}

\* At most the request in hand is unfinished, whoever closes its streams and
\* however accepting goes on, and a flag set for a connection goes with it.
OneRequestInHand ==
    /\ Unfinished \subseteq {request.streams}
    /\ request.detached => request.connected
=============================================================================
