----------------------- MODULE CgiApplication_proofs -----------------------
(***************************************************************************)
(* TLAPS proofs about CgiApplication, for every number of requests and of  *)
(* threads: its invariants, and that it implements RequestService.         *)
(***************************************************************************)
EXTENDS CgiApplication, FiniteSetTheorems, TLAPS

USE DEF setup

-----------------------------------------------------------------------------
(* The inductive invariant.                                                *)

Taken == InProgress \cup Finished

\* After a late request the main thread never comes to FCGX_Accept_r again.
LateIsLast ==
    late # {} => /\ bad /\ main \notin {"launch", "accept", "read"}
                 /\ \E r \in Request : late = {r}

\* Where a CGI process is in its life: before its request, when nothing can
\* have raised an exception, about to take it, or after.
OneContext ==
    isCGI =>
        \/ main \in {"launch", "init", "abort"} /\ ~executed /\ ~bad /\ Taken = {}
        \/ main = "accept" /\ executed /\ Taken = {}
        \/ /\ main \notin {"launch", "accept", "read"} /\ executed
           /\ \E r \in Request : Taken = {r}

\* What is known of a context by the time it has come to a phase.
ContextSoFar ==
    \A r \in Request :
        /\ phase[r] \in {"send", "didSend", "finish", "finished"} =>
              response[r] # "none"
        /\ phase[r] \in {"didSend", "finish", "finished"} => output[r] # "none"
        /\ response[r] = "exception" \/ output[r] = "part" => bad
        /\ phase[r] = "finished" /\ (isCGI => main = "exit") =>
              arrived[r] = output[r] \/ link[r] = "broken"

IInv ==
    /\ TypeOK
    /\ DrainedAtExit /\ LateIsLast /\ OneContext
    /\ ContextSoFar /\ ConnectionsAccounted

-----------------------------------------------------------------------------
(* Helpers.                                                                *)

Phases == {"away", "waiting", "reading", "lost", "accepted", "queued", "finished"}
          \cup Running
Active == {"accepted", "queued"} \cup Running

\* What the change of one request's phase does to the sets of requests.
LEMMA ToProps ==
    ASSUME TypeOK, NEW r \in Request, NEW next \in Phases, To(r, next)
    PROVE  /\ phase' \in [Request -> Phases]
           /\ phase'[r] = next /\ \A q \in Request : q # r => phase'[q] = phase[q]
           /\ InProgress' = IF next \in Active THEN InProgress \cup {r}
                                               ELSE InProgress \ {r}
           /\ Finished' = IF next = "finished" THEN Finished \cup {r}
                                               ELSE Finished \ {r}
<1>1. /\ phase' \in [Request -> Phases]
      /\ phase'[r] = next /\ \A q \in Request : q # r => phase'[q] = phase[q]
  BY DEF TypeOK, To, Phases
<1>2. InProgress' = IF next \in Active THEN InProgress \cup {r}
                                       ELSE InProgress \ {r}
  BY <1>1 DEF InProgress, Active
<1>3. Finished' = IF next = "finished" THEN Finished \cup {r}
                                       ELSE Finished \ {r}
  BY <1>1 DEF Finished
<1> QED BY <1>1, <1>2, <1>3

\* A context's step from one phase to the next takes no request and leaves the
\* main thread where it is.
LEMMA ContextMoves ==
    ASSUME IInv, NEW r \in Request, NEW next \in Running \cup {"finished"},
           phase[r] \in {"queued"} \cup Running, main \notin Ended, To(r, next),
           UNCHANGED <<setup, main, current, executed, late, failed>>,
           bad' \in {bad, TRUE}
    PROVE  /\ phase' \in [Request -> Phases]
           /\ phase'[r] = next /\ \A q \in Request : q # r => phase'[q] = phase[q]
           /\ HandsOn'
           /\ InProgress' = IF next = "finished" THEN InProgress \ {r} ELSE InProgress
           /\ Finished' = IF next = "finished" THEN Finished \cup {r} ELSE Finished
           /\ r \in InProgress \ Finished /\ main \notin {"terminate", "exit"}
           /\ bad' \in BOOLEAN /\ (bad => bad')
           /\ DrainedAtExit' /\ LateIsLast' /\ OneContext'
<1>1. /\ next \in Phases /\ next \notin {"accepted", "reading"}
      /\ phase[r] \notin {"accepted", "reading"}
      /\ next \in Active <=> next # "finished"
  BY DEF Phases, Active, Running
<1>2. /\ phase' \in [Request -> Phases]
      /\ phase'[r] = next /\ \A q \in Request : q # r => phase'[q] = phase[q]
      /\ InProgress' = IF next # "finished" THEN InProgress \cup {r}
                                            ELSE InProgress \ {r}
      /\ Finished' = IF next = "finished" THEN Finished \cup {r}
                                          ELSE Finished \ {r}
  BY <1>1, ToProps DEF IInv
<1>3. /\ r \in InProgress \ Finished /\ main \notin {"terminate", "exit"}
  BY DEF IInv, InProgress, Finished, DrainedAtExit, Running
<1>4. /\ InProgress' = IF next = "finished" THEN InProgress \ {r} ELSE InProgress
      /\ Finished' = IF next = "finished" THEN Finished \cup {r} ELSE Finished
      /\ Taken' = Taken /\ r \in Taken
  BY <1>2, <1>3 DEF Taken
<1>5. HandsOn'
  BY <1>1, <1>2 DEF IInv, TypeOK, HandsOn
<1>6. DrainedAtExit' /\ LateIsLast'
  BY <1>3 DEF IInv, DrainedAtExit, LateIsLast
<1>7. OneContext'
  BY <1>4 DEF IInv, OneContext
<1>8. bad' \in BOOLEAN /\ (bad => bad')
  BY DEF IInv, TypeOK
<1> QED BY <1>2, <1>3, <1>4, <1>5, <1>6, <1>7, <1>8

-----------------------------------------------------------------------------
(* The server and the main thread.                                         *)

\* A request that waits is not taken yet, and a CGI process has none.
LEMMA ArriveStep ==
    ASSUME IInv, NEW r \in Request, Arrive(r)
    PROVE  IInv' /\ UNCHANGED <<InProgress, Finished, main>>
<1>1. phase[r] = "away" /\ To(r, "waiting") /\ "waiting" \in Phases
  BY DEF Arrive, First, To, Phases
<1>2. /\ phase' \in [Request -> Phases]
      /\ phase'[r] = "waiting" /\ \A q \in Request : q # r => phase'[q] = phase[q]
      /\ UNCHANGED <<InProgress, Finished>>
  BY <1>1, ToProps DEF IInv, InProgress, Finished, Active, Running
<1>3. TypeOK'
  BY <1>1, <1>2 DEF IInv, TypeOK, HandsOn, Arrive, Phases
<1>4. DrainedAtExit' /\ LateIsLast' /\ OneContext' /\ ConnectionsAccounted'
  BY <1>1, <1>2 DEF IInv, DrainedAtExit, LateIsLast, OneContext, Taken,
                    ConnectionsAccounted, Arrive
<1>5. ContextSoFar'
  BY <1>2 DEF IInv, ContextSoFar, Arrive
<1> QED BY <1>2, <1>3, <1>4, <1>5 DEF IInv, Arrive

\* What the server does to a connection takes nothing back that has arrived.
LEMMA LinkStep ==
    ASSUME IInv, NEW r \in Request, Stalls(r) \/ Breaks(r)
    PROVE  IInv' /\ UNCHANGED <<InProgress, Finished, main>>
<1>1. /\ UNCHANGED <<setup, main, current, executed, bad, phase, response, output,
                     arrived, conn, late, failed>>
      /\ link' \in [Request -> {"good", "stalled", "broken"}]
      /\ \A q \in Request : link[q] = "broken" => link'[q] = "broken"
  BY DEF IInv, TypeOK, Stalls, Breaks
<1>2. UNCHANGED <<InProgress, Finished>>
  BY <1>1 DEF InProgress, Finished
<1>3. TypeOK'
  BY <1>1 DEF IInv, TypeOK, HandsOn
<1>4. DrainedAtExit' /\ LateIsLast' /\ OneContext' /\ ConnectionsAccounted'
  BY <1>1, <1>2 DEF IInv, DrainedAtExit, LateIsLast, OneContext, Taken,
                    ConnectionsAccounted
<1>5. ContextSoFar'
  BY <1>1 DEF IInv, ContextSoFar
<1> QED BY <1>1, <1>2, <1>3, <1>4, <1>5 DEF IInv

\* An exception that nothing catches leaves everything as it is, for ever.
LEMMA UncaughtStep ==
    ASSUME IInv, Uncaught
    PROVE  /\ IInv' /\ UNCHANGED <<InProgress, Finished>>
           /\ main # "exit" /\ main' # "exit"
<1>1. /\ UNCHANGED <<setup, current, executed, bad, contexts, late, failed>>
      /\ main \notin Ended /\ main' = "abort"
  BY DEF Uncaught, Alive, Ended
<1>2. UNCHANGED <<InProgress, Finished>>
  BY <1>1 DEF contexts, InProgress, Finished
<1>3. TypeOK'
  BY <1>1 DEF IInv, TypeOK, HandsOn, Ended, contexts
<1>4. DrainedAtExit' /\ LateIsLast' /\ ConnectionsAccounted'
  BY <1>1, <1>2 DEF IInv, DrainedAtExit, LateIsLast, ConnectionsAccounted, contexts
<1>5. OneContext'
  <2>1. main \in {"launch", "delegate", "terminate"} \/ InProgress # {}
    BY DEF Uncaught, Alive, InProgress, Running
  <2> QED BY <1>1, <1>2, <2>1 DEF IInv, OneContext, Taken
<1>6. ContextSoFar'
  BY <1>1 DEF IInv, ContextSoFar, contexts
<1> QED BY <1>1, <1>2, <1>3, <1>4, <1>5, <1>6 DEF IInv, Ended

\* The main thread's steps between the requests.
LEMMA MainStep ==
    ASSUME IInv, DidFinishLaunching \/ InitContext \/ AcceptFails \/ WaitUntilFinished
    PROVE  IInv' /\ UNCHANGED <<InProgress, Finished>> /\ main' # "exit"
<1>1. /\ UNCHANGED <<setup, current, bad, contexts, late>>
      /\ main \in {"launch", "init", "accept", "wait"}
      /\ main' \in {"init", "accept", "wait", "terminate"}
      /\ main' = "terminate" => InProgress = {}
      /\ main' = "accept" => ~bad
      /\ executed' \in BOOLEAN /\ failed' \in BOOLEAN
  BY DEF IInv, TypeOK, DidFinishLaunching, InitContext, AcceptFails, WaitUntilFinished
<1>2. UNCHANGED <<InProgress, Finished>>
  BY <1>1 DEF contexts, InProgress, Finished
<1>3. TypeOK'
  BY <1>1 DEF IInv, TypeOK, HandsOn, Ended, contexts
<1>4. DrainedAtExit' /\ LateIsLast' /\ ConnectionsAccounted'
  BY <1>1, <1>2 DEF IInv, DrainedAtExit, LateIsLast, ConnectionsAccounted, contexts
<1>5. OneContext'
  BY <1>1, <1>2 DEF IInv, TypeOK, OneContext, Taken, DidFinishLaunching, InitContext,
                    AcceptFails, WaitUntilFinished
<1>6. ContextSoFar'
  BY <1>1 DEF IInv, ContextSoFar, contexts
<1> QED BY <1>1, <1>2, <1>3, <1>4, <1>5, <1>6 DEF IInv

\* The main thread has a connection.
LEMMA AcceptStep ==
    ASSUME IInv, NEW r \in Request, Accept(r)
    PROVE  /\ IInv' /\ UNCHANGED <<InProgress, Finished>>
           /\ main # "exit" /\ main' # "exit"
<1>1. /\ phase[r] = "waiting" /\ To(r, "reading") /\ "reading" \in Phases
      /\ main = "accept" /\ main' = "read" /\ ~isCGI /\ current' = r
  BY DEF Accept, First, To, Phases
<1>2. /\ phase' \in [Request -> Phases]
      /\ phase'[r] = "reading" /\ \A q \in Request : q # r => phase'[q] = phase[q]
      /\ UNCHANGED <<InProgress, Finished>>
  BY <1>1, ToProps DEF IInv, InProgress, Finished, Active, Running
<1>3. r \notin InProgress
  BY <1>1 DEF InProgress, Running
<1>4. TypeOK'
  BY <1>1, <1>2 DEF IInv, TypeOK, HandsOn, Ended, Accept, Phases
<1>5. DrainedAtExit' /\ OneContext' /\ LateIsLast'
  BY <1>1 DEF IInv, DrainedAtExit, LateIsLast, OneContext, Accept
<1>6. ConnectionsAccounted'
  BY <1>1, <1>2, <1>3 DEF IInv, TypeOK, ConnectionsAccounted, Accept
<1>7. ContextSoFar'
  BY <1>1, <1>2 DEF IInv, ContextSoFar, Accept
<1> QED BY <1>1, <1>2, <1>4, <1>5, <1>6, <1>7 DEF IInv

\* A connection that is lost before there is a context is closed.
LEMMA ReadFailsStep ==
    ASSUME IInv, ReadFails
    PROVE  /\ IInv' /\ UNCHANGED <<InProgress, Finished>>
           /\ main # "exit" /\ main' # "exit"
<1>1. /\ current \in Request /\ phase[current] = "reading"
      /\ To(current, "lost") /\ "lost" \in Phases
      /\ main = "read" /\ main' = "accept" /\ ~isCGI /\ UNCHANGED current
  BY DEF IInv, TypeOK, HandsOn, Ended, OneContext, ReadFails, To, Phases
<1>2. /\ phase' \in [Request -> Phases] /\ phase'[current] = "lost"
      /\ \A q \in Request : q # current => phase'[q] = phase[q]
      /\ UNCHANGED <<InProgress, Finished>>
  BY <1>1, ToProps DEF IInv, InProgress, Finished, Active, Running
<1>3. current \notin InProgress
  BY <1>1 DEF InProgress, Running
<1>4. TypeOK'
  BY <1>1, <1>2 DEF IInv, TypeOK, HandsOn, Ended, ReadFails, Phases
<1>5. DrainedAtExit' /\ OneContext' /\ LateIsLast'
  BY <1>1 DEF IInv, DrainedAtExit, LateIsLast, OneContext, ReadFails
<1>6. ConnectionsAccounted'
  BY <1>1, <1>2, <1>3 DEF IInv, TypeOK, ConnectionsAccounted, ReadFails
<1>7. ContextSoFar'
  BY <1>1, <1>2 DEF IInv, ContextSoFar, ReadFails
<1> QED BY <1>1, <1>2, <1>4, <1>5, <1>6, <1>7 DEF IInv

\* The main thread takes a request, the late one if there was an exception.
LEMMA TakeStep ==
    ASSUME IInv, NEW r \in Request, Take(r)
    PROVE  /\ IInv' /\ main # "exit" /\ main' # "exit"
           /\ r \notin Taken /\ Taken' = Taken \cup {r} /\ Finished' = Finished
<1>1. /\ phase[r] \in {"away", "reading"} /\ To(r, "accepted")
      /\ "accepted" \in Phases /\ "accepted" \in Active
      /\ main = IF isCGI THEN "accept" ELSE "read"
      /\ ~isCGI => r = current /\ phase[r] = "reading"
  BY DEF IInv, TypeOK, HandsOn, Ended, Take, First, To, Phases, Active
<1>2. /\ phase' \in [Request -> Phases]
      /\ phase'[r] = "accepted" /\ \A q \in Request : q # r => phase'[q] = phase[q]
      /\ InProgress' = InProgress \cup {r} /\ Finished' = Finished
      /\ r \notin Taken /\ Taken' = Taken \cup {r}
  <2>1. r \notin Finished /\ r \notin InProgress
    BY <1>1 DEF Finished, InProgress, Running
  <2> QED BY <1>1, <2>1, ToProps DEF IInv, Taken
<1>3. /\ \A q \in Request : phase[q] # "accepted"
      /\ \A q \in Request : phase[q] = "reading" => ~isCGI /\ q = r
  BY <1>1 DEF IInv, TypeOK, HandsOn, Ended, Take
<1>4. TypeOK'
  BY <1>2, <1>3 DEF IInv, TypeOK, HandsOn, Take, Phases
<1>5. DrainedAtExit'
  BY DEF DrainedAtExit, Take
<1>6. LateIsLast'
  <2>1. late = {} /\ late \cup {r} = {r}
    BY <1>1 DEF IInv, LateIsLast
  <2> QED BY <2>1 DEF LateIsLast, Take
<1>7. OneContext'
  <2>1. isCGI => executed /\ Taken = {}
    BY <1>1 DEF IInv, OneContext
  <2>2. isCGI => Taken' = {r}
    BY <1>2, <2>1
  <2> QED BY <2>1, <2>2 DEF OneContext, Take
<1>8. ConnectionsAccounted'
  BY <1>1, <1>2, <1>3 DEF IInv, TypeOK, ConnectionsAccounted, Take
<1>9. ContextSoFar'
  BY <1>2 DEF IInv, ContextSoFar, Take
<1> QED BY <1>1, <1>2, <1>4, <1>5, <1>6, <1>7, <1>8, <1>9 DEF IInv, Take

\* The context that the main thread has made goes to the queue.
LEMMA AddOperationStep ==
    ASSUME IInv, AddOperation
    PROVE  IInv' /\ UNCHANGED <<InProgress, Finished>> /\ main' # "exit"
<1>1. /\ current \in Request /\ phase[current] = "accepted"
      /\ To(current, "queued") /\ "queued" \in Phases /\ "queued" \in Active
  BY DEF IInv, TypeOK, HandsOn, Ended, AddOperation, To, Phases, Active
<1>2. /\ phase' \in [Request -> Phases] /\ phase'[current] = "queued"
      /\ \A q \in Request : q # current => phase'[q] = phase[q]
      /\ UNCHANGED <<InProgress, Finished>>
  <2>1. current \notin Finished /\ current \in InProgress
    BY <1>1 DEF Finished, InProgress
  <2> QED BY <1>1, <2>1, ToProps DEF IInv
<1>3. TypeOK'
  BY <1>1, <1>2 DEF IInv, TypeOK, HandsOn, Ended, AddOperation, Phases
<1>4. DrainedAtExit' /\ LateIsLast' /\ OneContext' /\ ConnectionsAccounted'
  BY <1>1, <1>2 DEF IInv, DrainedAtExit, LateIsLast, OneContext, Taken,
                    ConnectionsAccounted, AddOperation
<1>5. ContextSoFar'
  BY <1>1, <1>2 DEF IInv, ContextSoFar, AddOperation
<1> QED BY <1>2, <1>3, <1>4, <1>5 DEF IInv, AddOperation

\* exit(0) finds every context done, and flushes what a CGI process has written.
LEMMA WillTerminateStep ==
    ASSUME IInv, WillTerminate
    PROVE  /\ IInv' /\ UNCHANGED <<InProgress, Finished>>
           /\ main = "terminate" /\ main' = "exit" /\ InProgress = {}
<1>1. InProgress = {} /\ UNCHANGED <<InProgress, Finished>>
  BY DEF IInv, DrainedAtExit, WillTerminate, InProgress, Finished
<1>2. TypeOK'
  BY DEF IInv, TypeOK, HandsOn, Ended, WillTerminate
<1>3. DrainedAtExit' /\ LateIsLast' /\ OneContext' /\ ConnectionsAccounted'
  BY <1>1 DEF IInv, DrainedAtExit, LateIsLast, OneContext, Taken,
              ConnectionsAccounted, WillTerminate
<1>4. ContextSoFar'
  <2>1. /\ UNCHANGED <<setup, bad, phase, response, output, link>>
        /\ ~isCGI => UNCHANGED arrived
    BY DEF WillTerminate
  <2>2. ASSUME NEW r \in Request, isCGI, phase[r] = "finished"
        PROVE  arrived'[r] = output[r] \/ link[r] = "broken"
    <3>1. CASE arrived' = output
      BY <3>1
    <3>2. CASE \E q \in Finished : link[q] = "broken"
      <4>1. PICK q \in Request : Taken = {q}
        BY <2>2 DEF IInv, OneContext, WillTerminate
      <4>2. r \in Taken /\ Finished \subseteq Taken
        BY <2>2 DEF Taken, Finished
      <4> QED BY <3>2, <4>1, <4>2
    <3> QED BY <2>2, <3>1, <3>2 DEF WillTerminate
  <2> QED BY <2>1, <2>2 DEF IInv, ContextSoFar
<1> QED BY <1>1, <1>2, <1>3, <1>4 DEF IInv, WillTerminate

-----------------------------------------------------------------------------
(* The threads of the operation queue.                                     *)

\* The steps of a context before it is finished keep its request in progress.
LEMMA ServeStep ==
    ASSUME IInv, NEW r \in Request,
           \/ Start(r) \/ ReadBody(r) \/ ShouldHandleRequest(r)
           \/ HandleHTTPContext(r) \/ ShouldSendResponse(r)
    PROVE  IInv' /\ UNCHANGED <<InProgress, Finished, main>>
<1>1. PICK next \in Running :
         /\ To(r, next) /\ phase[r] \in {"queued"} \cup Running
         /\ next \notin {"didSend", "finish"}
         /\ main \notin Ended
         /\ UNCHANGED <<setup, main, current, executed, output, arrived, conn,
                        link, late, failed>>
         /\ \E made \in {"none", "decided", "exception"} :
               /\ response' = [response EXCEPT ![r] = made]
               /\ made = "exception" => bad'
               /\ next = "send" => made # "none"
         /\ bad' \in {bad, TRUE}
  <2>1. CASE Start(r) \/ ReadBody(r)
    <3>1. PICK next \in {"body", "shouldHandle"} : To(r, next)
      BY <2>1 DEF Start, ReadBody
    <3>2. next \in Running /\ phase[r] \in {"queued"} \cup Running /\ main \notin Ended
      BY <2>1, <3>1 DEF Start, ReadBody, Alive, Running
    <3>3. /\ response' = [response EXCEPT ![r] = response[r]]
          /\ response[r] \in {"none", "decided", "exception"}
          /\ response[r] = "exception" => bad
      BY <2>1 DEF Start, ReadBody, IInv, TypeOK, ContextSoFar
    <3>4. UNCHANGED <<setup, main, current, executed, bad, output, arrived, conn,
                      link, late, failed>>
      BY <2>1 DEF Start, ReadBody
    <3> QED BY <3>1, <3>2, <3>3, <3>4
  <2>2. CASE ShouldHandleRequest(r)
    BY <2>2 DEF ShouldHandleRequest, Alive, Answers, Raises, Running
  <2>3. CASE HandleHTTPContext(r)
    BY <2>3 DEF HandleHTTPContext, Alive, Answers, Raises, Running
  <2>4. CASE ShouldSendResponse(r)
    BY <2>4 DEF ShouldSendResponse, Alive, Answers, Raises, Running
  <2> QED BY <2>1, <2>2, <2>3, <2>4
<1>2. PICK made \in {"none", "decided", "exception"} :
         /\ response' = [response EXCEPT ![r] = made]
         /\ made = "exception" => bad'
         /\ next = "send" => made # "none"
  BY <1>1
<1>3. /\ phase' \in [Request -> Phases]
      /\ phase'[r] = next /\ \A q \in Request : q # r => phase'[q] = phase[q]
      /\ HandsOn'
      /\ UNCHANGED <<InProgress, Finished>>
      /\ bad' \in BOOLEAN /\ (bad => bad')
      /\ DrainedAtExit' /\ LateIsLast' /\ OneContext'
  <2>1. next \in Running \cup {"finished"} /\ next # "finished"
    BY DEF Running
  <2> QED BY <1>1, <2>1, ContextMoves
<1>4. TypeOK'
  BY <1>1, <1>2, <1>3 DEF IInv, TypeOK, Phases
<1>5. ConnectionsAccounted'
  BY <1>1, <1>3 DEF IInv, ConnectionsAccounted, Running
<1>6. ContextSoFar'
  <2>1. response'[r] = made /\ \A q \in Request : q # r => response'[q] = response[q]
    BY <1>2 DEF IInv, TypeOK
  <2>2. next \notin {"didSend", "finish", "finished"}
    BY <1>1 DEF Running
  <2> QED BY <1>1, <1>2, <1>3, <2>1, <2>2 DEF IInv, ContextSoFar
<1> QED BY <1>1, <1>3, <1>4, <1>5, <1>6 DEF IInv

\* An exception in the second @try leaves a part of a response, and _CGI_Bad.
LEMMA SendResponseStep ==
    ASSUME IInv, NEW r \in Request, SendResponse(r)
    PROVE  IInv' /\ UNCHANGED <<InProgress, Finished, main>>
<1>1. PICK o \in {"whole", "part"} :
         /\ output' = [output EXCEPT ![r] = o]
         /\ bad' = (bad \/ o = "part")
  BY DEF SendResponse
<1>2. /\ To(r, "didSend") /\ "didSend" \in Running \cup {"finished"}
      /\ phase[r] = "send" /\ phase[r] \in {"queued"} \cup Running
      /\ main \notin Ended
      /\ UNCHANGED <<setup, main, current, executed, late, failed>>
      /\ bad' \in {bad, TRUE}
  BY <1>1 DEF IInv, TypeOK, SendResponse, Alive, Running
<1>3. /\ phase' \in [Request -> Phases]
      /\ phase'[r] = "didSend" /\ \A q \in Request : q # r => phase'[q] = phase[q]
      /\ HandsOn'
      /\ UNCHANGED <<InProgress, Finished>>
      /\ main # "exit" /\ bad' \in BOOLEAN /\ (bad => bad')
      /\ DrainedAtExit' /\ LateIsLast' /\ OneContext'
  BY <1>2, ContextMoves
<1>4. TypeOK'
  BY <1>1, <1>3 DEF IInv, TypeOK, SendResponse, Phases, Extent
<1>5. ConnectionsAccounted'
  BY <1>2, <1>3 DEF IInv, ConnectionsAccounted, SendResponse
<1>6. ContextSoFar'
  <2>1. output'[r] = o /\ \A q \in Request : q # r => output'[q] = output[q]
    BY <1>1 DEF IInv, TypeOK
  <2>2. \A q \in Request : q # r => arrived'[q] = arrived[q]
    BY DEF IInv, TypeOK, SendResponse
  <2>3. /\ o = "part" => bad'
        /\ UNCHANGED <<setup, main, response, link>>
    BY <1>1 DEF IInv, TypeOK, SendResponse
  <2> QED BY <1>2, <1>3, <2>1, <2>2, <2>3 DEF IInv, ContextSoFar
<1> QED BY <1>2, <1>3, <1>4, <1>5, <1>6 DEF IInv

\* The context of a CGI process is done with didSendResponse:.
LEMMA DidSendResponseStep ==
    ASSUME IInv, NEW r \in Request, DidSendResponse(r)
    PROVE  /\ IInv' /\ main' = main /\ main # "exit" /\ Taken' = Taken
           /\ \/ Finished' = Finished
              \/ r \in Taken \ Finished /\ Finished' = Finished \cup {r}
<1> DEFINE next == IF isCGI THEN "finished" ELSE "finish"
<1>1. /\ To(r, next) /\ next \in Running \cup {"finished"}
      /\ phase[r] = "didSend" /\ phase[r] \in {"queued"} \cup Running
      /\ main \notin Ended
      /\ UNCHANGED <<setup, main, current, executed, late, failed>>
      /\ bad' \in {bad, TRUE}
  BY DEF DidSendResponse, Alive, Running
<1>2. /\ phase' \in [Request -> Phases]
      /\ phase'[r] = next /\ \A q \in Request : q # r => phase'[q] = phase[q]
      /\ HandsOn'
      /\ InProgress' = IF next = "finished" THEN InProgress \ {r} ELSE InProgress
      /\ Finished' = IF next = "finished" THEN Finished \cup {r} ELSE Finished
      /\ r \in InProgress \ Finished /\ main # "exit"
      /\ bad' \in BOOLEAN /\ (bad => bad')
      /\ DrainedAtExit' /\ LateIsLast' /\ OneContext'
  <2> HIDE DEF next
  <2> QED BY <1>1, ContextMoves
<1>3. TypeOK'
  BY <1>2 DEF IInv, TypeOK, DidSendResponse, Phases
<1>4. ConnectionsAccounted'
  BY <1>1, <1>2 DEF IInv, ConnectionsAccounted, DidSendResponse
<1>5. ContextSoFar'
  BY <1>1, <1>2 DEF IInv, ContextSoFar, DidSendResponse
<1>6. Taken' = Taken /\ r \in Taken \ Finished
  BY <1>2 DEF Taken
<1>7. main' = main /\ (Finished' = Finished \/ Finished' = Finished \cup {r})
  BY <1>1, <1>2
<1> QED BY <1>2, <1>3, <1>4, <1>5, <1>6, <1>7 DEF IInv

\* FCGX_Finish_r gives the server the response and the connection.
LEMMA FinishStep ==
    ASSUME IInv, NEW r \in Request, Finish(r)
    PROVE  /\ IInv' /\ main' = main /\ main # "exit" /\ Taken' = Taken
           /\ r \in Taken \ Finished /\ Finished' = Finished \cup {r}
<1>1. /\ To(r, "finished") /\ "finished" \in Running \cup {"finished"}
      /\ phase[r] = "finish" /\ phase[r] \in {"queued"} \cup Running
      /\ main \notin Ended
      /\ UNCHANGED <<setup, main, current, executed, late, failed>>
      /\ bad' \in {bad, TRUE}
  BY DEF Finish, Alive, Running
<1>2. /\ phase' \in [Request -> Phases]
      /\ phase'[r] = "finished" /\ \A q \in Request : q # r => phase'[q] = phase[q]
      /\ HandsOn'
      /\ InProgress' = InProgress \ {r} /\ Finished' = Finished \cup {r}
      /\ r \in InProgress \ Finished /\ main # "exit"
      /\ bad' \in BOOLEAN /\ (bad => bad')
      /\ DrainedAtExit' /\ LateIsLast' /\ OneContext'
  BY <1>1, ContextMoves
<1>3. PICK c \in {"closed", "kept"} : conn' = [conn EXCEPT ![r] = c]
  BY DEF Finish
<1>4. PICK o \in {output[r], arrived[r]} :
         /\ arrived' = [arrived EXCEPT ![r] = o]
         /\ o = output[r] \/ link[r] = "broken"
  BY DEF Finish, Flushed
<1>5. TypeOK'
  BY <1>2, <1>3, <1>4 DEF IInv, TypeOK, Finish, Phases
<1>6. ConnectionsAccounted' /\ ContextSoFar'
  <2>1. arrived'[r] = o /\ \A q \in Request : q # r => arrived'[q] = arrived[q]
    BY <1>4 DEF IInv, TypeOK
  <2>2. ContextSoFar'
    BY <1>1, <1>2, <1>4, <2>1 DEF IInv, ContextSoFar, Finish
  <2>3. ConnectionsAccounted'
    BY <1>1, <1>2, <1>3 DEF IInv, TypeOK, ConnectionsAccounted, Finish
  <2> QED BY <2>2, <2>3
<1>7. Taken' = Taken /\ r \in Taken \ Finished
  BY <1>2 DEF Taken
<1> QED BY <1>1, <1>2, <1>5, <1>6, <1>7 DEF IInv

-----------------------------------------------------------------------------
(* The specification.                                                      *)

\* Before it is launched the application has no contexts.
LEMMA InitIInv == Init => IInv
<1> SUFFICES ASSUME Init PROVE IInv
  OBVIOUS
<1>1. InProgress = {} /\ Finished = {}
  BY DEF Init, InProgress, Finished, Running
<1>2. 1 \in Request
  BY BoundsAssumption DEF Request
<1>3. TypeOK
  BY <1>2 DEF Init, TypeOK, HandsOn, Extent
<1>4. DrainedAtExit /\ LateIsLast /\ OneContext
  BY <1>1 DEF Init, DrainedAtExit, LateIsLast, OneContext, Taken
<1>5. ContextSoFar /\ ConnectionsAccounted
  BY <1>1 DEF Init, ContextSoFar, ConnectionsAccounted
<1> QED BY <1>3, <1>4, <1>5 DEF IInv

\* Neither the main thread nor the contexts break the invariant.
LEMMA NextIInv == IInv /\ [Next]_vars => IInv'
<1> SUFFICES ASSUME IInv, [Next]_vars PROVE IInv'
  OBVIOUS
<1>1. CASE MainThread \/ AcceptFails \/ Uncaught
  BY <1>1, MainStep, AcceptStep, TakeStep, ReadFailsStep, AddOperationStep,
     WillTerminateStep, UncaughtStep DEF MainThread
<1>2. ASSUME NEW r \in Request, Arrive(r) \/ Stalls(r) \/ Breaks(r) \/ QueueThread(r)
      PROVE  IInv'
  BY <1>2, ArriveStep, LinkStep, ServeStep, SendResponseStep, DidSendResponseStep,
     FinishStep DEF QueueThread
<1>3. CASE UNCHANGED vars
  BY <1>3 DEF vars, contexts, IInv, TypeOK, HandsOn, DrainedAtExit, LateIsLast,
              OneContext, ContextSoFar, ConnectionsAccounted, Taken, InProgress,
              Finished
<1> QED BY <1>1, <1>2, <1>3 DEF Next, Server

\* The inductive invariant of the application.
THEOREM IInvariant == Spec => []IInv
BY InitIInv, NextIInv, PTL DEF Spec

\* Every variable has its type, and a context that is accepted is the one that
\* the main thread is about to give to the queue (CGIApplication.m, run).
THEOREM TypeCorrect == Spec => []TypeOK
<1>1. IInv => TypeOK
  BY DEF IInv
<1> QED BY <1>1, IInvariant, PTL

\* The process ends with no context in progress, however many there are.
THEOREM Drained == Spec => []DrainedAtExit
<1>1. IInv => DrainedAtExit
  BY DEF IInv
<1> QED BY <1>1, IInvariant, PTL

\* Of a CGI process one context is made, and after an exception in any context
\* one request is taken at most (-[CGIHTTPContext init]).
THEOREM AcceptingStops == Spec => []StopsAccepting
<1>1. \A S : (S = {} \/ \E r : S = {r}) => Cardinality(S) <= 1
  BY FS_EmptySet, FS_Singleton
<1>2. IInv => OneLateRequest
  BY <1>1 DEF IInv, LateIsLast, OneLateRequest
<1>3. IInv => OneCGIRequest
  <2> SUFFICES ASSUME IInv, isCGI
               PROVE  /\ Cardinality(InProgress \cup Finished) <= 1
                      /\ main = "exit" => \E r \in Finished :
                            arrived[r] = output[r] \/ link[r] = "broken"
    BY DEF OneCGIRequest
  <2>1. Cardinality(Taken) <= 1
    BY <1>1 DEF IInv, OneContext
  <2>2. ASSUME main = "exit"
        PROVE  \E r \in Finished : arrived[r] = output[r] \/ link[r] = "broken"
    <3>1. PICK r \in Request : Taken = {r}
      BY <2>2 DEF IInv, OneContext
    <3>2. r \in Finished /\ phase[r] = "finished"
      BY <2>2, <3>1 DEF IInv, DrainedAtExit, Taken, Finished
    <3> QED BY <2>2, <3>2 DEF IInv, ContextSoFar
  <2> QED BY <2>1, <2>2 DEF Taken
<1> QED BY <1>2, <1>3, IInvariant, PTL DEF StopsAccepting

\* A request that is finished has its answer, unless its connection was broken,
\* and gave the connection back, whatever the delegates of this and of other
\* requests raise (-[CGIHTTPContext main]).
THEOREM EndWell == Spec => []RequestsEndWell
<1>1. IInv => ExceptionsAreAnswered
  <2> SUFFICES ASSUME IInv, NEW r \in Request, phase[r] = "finished"
               PROVE  /\ response[r] # "none"
                      /\ response[r] = "exception" \/ output[r] # "whole" => bad
                      /\ ~bad => output[r] = "whole"
                      /\ \/ isCGI /\ main # "exit"
                         \/ link[r] = "broken"
                         \/ arrived[r] = output[r]
    BY DEF ExceptionsAreAnswered
  <2>1. output[r] \in {"part", "whole"} /\ response[r] # "none"
    BY DEF IInv, TypeOK, ContextSoFar, Extent
  <2>2. response[r] = "exception" \/ output[r] = "part" => bad
    BY DEF IInv, ContextSoFar
  <2>3. (isCGI /\ main # "exit") \/ link[r] = "broken" \/ arrived[r] = output[r]
    BY DEF IInv, ContextSoFar
  <2> QED BY <2>1, <2>2, <2>3
<1>2. IInv => ConnectionsAccounted
  BY DEF IInv
<1> QED BY <1>1, <1>2, IInvariant, PTL DEF RequestsEndWell

-----------------------------------------------------------------------------
(* The refinement.                                                         *)

\* Every step of the application is a step of the service, or none.
LEMMA StepRefines ==
    IInv /\ [Next]_vars =>
        [Service!Next]_<<InProgress \cup Finished, Finished, main = "exit">>
<1> SUFFICES ASSUME IInv, [Next]_vars
             PROVE  \/ Service!Next
                    \/ UNCHANGED <<Taken, Finished, main = "exit">>
  BY DEF Taken
<1>1. CASE DidFinishLaunching \/ InitContext \/ AcceptFails \/ WaitUntilFinished
  BY <1>1, MainStep DEF Taken, DidFinishLaunching, InitContext, AcceptFails,
                        WaitUntilFinished
<1>2. CASE AddOperation \/ ReadFails \/ Uncaught
  BY <1>2, AddOperationStep, ReadFailsStep, UncaughtStep DEF Taken, AddOperation
<1>3. ASSUME NEW r \in Request, Take(r) PROVE Service!Next
  <2>1. Service!Take(r)
    BY <1>3, TakeStep DEF Service!Take, Taken
  <2> QED BY <2>1 DEF Service!Next
<1>4. CASE WillTerminate
  <2>1. Service!Stop
    BY <1>4, WillTerminateStep DEF Service!Stop
  <2> QED BY <2>1 DEF Service!Next
<1>5. ASSUME NEW r \in Request,
             \/ Arrive(r) \/ Stalls(r) \/ Breaks(r) \/ Accept(r)
             \/ Start(r) \/ ReadBody(r) \/ ShouldHandleRequest(r)
             \/ HandleHTTPContext(r) \/ ShouldSendResponse(r) \/ SendResponse(r)
      PROVE  UNCHANGED <<Taken, Finished, main = "exit">>
  BY <1>5, ArriveStep, LinkStep, AcceptStep, ServeStep, SendResponseStep DEF Taken
<1>6. ASSUME NEW r \in Request, DidSendResponse(r) \/ Finish(r)
      PROVE  Service!Next \/ UNCHANGED <<Taken, Finished, main = "exit">>
  <2>1. /\ main' = main /\ main # "exit" /\ Taken' = Taken
        /\ \/ Finished' = Finished
           \/ r \in Taken \ Finished /\ Finished' = Finished \cup {r}
    BY <1>6, DidSendResponseStep, FinishStep
  <2>2. CASE Finished' = Finished
    BY <2>1, <2>2
  <2>3. CASE r \in Taken \ Finished /\ Finished' = Finished \cup {r}
    <3>1. Service!Answer(r)
      BY <2>1, <2>3 DEF Service!Answer, Taken
    <3> QED BY <3>1 DEF Service!Next
  <2> QED BY <2>1, <2>2, <2>3
<1>7. CASE UNCHANGED vars
  BY <1>7 DEF vars, contexts, Taken, InProgress, Finished
<1> QED BY <1>1, <1>2, <1>3, <1>4, <1>5, <1>6, <1>7
        DEF Next, Server, MainThread, QueueThread

\* Threads, exceptions and the shared flags are no more than the abstract
\* service, whose requests are those that the application has taken.
THEOREM Refinement == Spec => ImplementsService
<1>1. Init => Service!Init
  BY DEF Init, Service!Init, InProgress, Finished, Running
<1>2. IInv /\ [Next]_vars => [Service!Next]_(Service!vars)
  BY StepRefines DEF Service!vars
<1> QED BY <1>1, <1>2, IInvariant, PTL DEF Spec, ImplementsService, Service!Spec
=============================================================================
