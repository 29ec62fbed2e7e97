------------------------- MODULE FcgiClients_proofs -------------------------
(***************************************************************************)
(* TLAPS proofs about FcgxRequest and what is built on it, FcgiStdio and   *)
(* FcgioStreambuf: for any number of requests, of files and of bytes.      *)
(***************************************************************************)
EXTENDS FcgiStdio, FcgioStreambuf, FiniteSetTheorems, SequenceTheorems, TLAPS

-----------------------------------------------------------------------------
(* The request from one to the next: its invariant.                        *)

RequestTypes ==
    /\ request \in [connected : BOOLEAN, streams : Nat, keepConnection : BOOLEAN,
                    detached : BOOLEAN]
    /\ pc \in {"app", "accept", "exited"}
    /\ count \in 0 .. MaxRequests
    /\ served \in [Requests -> {"none", "open", "ended", "broken"}]
    /\ closed \subseteq Writers
    /\ broken \in BOOLEAN /\ inError \in BOOLEAN

\* The streams in hand are those of the request accepted last, and none while the
\* next is accepted.
StreamsOfLast ==
    /\ request.streams \in {NoStream, count}
    /\ pc = "accept" => request.streams = NoStream

\* The server waits for nothing that was not accepted.
NoneBeforeItsTime == \A k \in Requests : k > count => served[k] = "none"

RequestIInv == RequestTypes /\ StreamsOfLast /\ NoneBeforeItsTime /\ OneRequestInHand

\* It holds when the process starts.
LEMMA RequestInitIInv == RequestInit => RequestIInv
<1> SUFFICES ASSUME RequestInit PROVE RequestIInv
  OBVIOUS
<1> USE DEF RequestInit, InitRequest, NoStream
<1>1. RequestTypes
  <2>1. request \in [connected : BOOLEAN, streams : Nat, keepConnection : BOOLEAN,
                     detached : BOOLEAN]
    OBVIOUS
  <2>2. count \in 0 .. MaxRequests
    BY RequestsAssumption
  <2>3. served \in [Requests -> {"none", "open", "ended", "broken"}]
    OBVIOUS
  <2> QED BY <2>1, <2>2, <2>3 DEF RequestTypes
<1>2. StreamsOfLast
  BY DEF StreamsOfLast
<1>3. NoneBeforeItsTime
  BY DEF NoneBeforeItsTime
<1>4. OneRequestInHand
  BY DEF OneRequestInHand, Unfinished
<1> QED BY <1>1, <1>2, <1>3, <1>4 DEF RequestIInv

\* What FCGX_Free leaves.
LEMMA FreeProps ==
    ASSUME RequestTypes, NEW close \in BOOLEAN
    PROVE  /\ FCGX_Free(close) \in [connected : BOOLEAN, streams : Nat,
                                    keepConnection : BOOLEAN, detached : BOOLEAN]
           /\ FCGX_Free(close).streams = NoStream
           /\ (request.detached => request.connected)
              => (FCGX_Free(close).detached => FCGX_Free(close).connected)
<1> QED BY DEF RequestTypes, FCGX_Free, NoStream

\* FCGX_Finish_r ends the request in hand, whoever closed which of its streams.
LEMMA FinishPreserves ==
    ASSUME RequestIInv, FCGX_Finish, pc' \in {"app", "accept", "exited"}
    PROVE  /\ RequestIInv'
           /\ request'.streams = NoStream /\ Unfinished' = {} /\ count' = count
<1>1. PICK close \in Closes :
        /\ request' = FCGX_Free(close)
        /\ served' = [k \in Requests |->
                        IF k = request.streams /\ served[k] = "open" THEN Ended
                        ELSE served[k]]
        /\ broken' = (broken /\ ~close)
        /\ closed' = {} /\ inError' = FALSE
        /\ count' = count
  BY DEF FCGX_Finish
<1>2. RequestTypes /\ close \in BOOLEAN
  BY <1>1 DEF RequestIInv, RequestTypes, Closes
<1>3. Ended \in {"broken", "ended"}
  BY DEF Ended
<1>4. served' \in [Requests -> {"none", "open", "ended", "broken"}]
  BY <1>1, <1>2, <1>3 DEF RequestTypes
<1>5. RequestTypes'
  <2>1. /\ request' \in [connected : BOOLEAN, streams : Nat, keepConnection : BOOLEAN,
                         detached : BOOLEAN]
        /\ broken' \in BOOLEAN
    BY <1>1, <1>2, FreeProps DEF RequestTypes
  <2> QED BY <1>1, <1>2, <1>4, <2>1 DEF RequestTypes
<1>6. request'.streams = NoStream
  BY <1>1, <1>2, FreeProps
<1>7. Unfinished' = {}
  <2>1. ASSUME NEW k \in Requests, served'[k] = "open" PROVE FALSE
    <3>1. served[k] = "open" /\ k # request.streams
      BY <1>1, <1>3, <2>1
    <3> QED BY <3>1 DEF RequestIInv, OneRequestInHand, Unfinished
  <2> QED BY <2>1 DEF Unfinished
<1>8. StreamsOfLast'
  BY <1>6 DEF StreamsOfLast
<1>9. NoneBeforeItsTime'
  <2>1. ASSUME NEW k \in Requests, k > count' PROVE served'[k] = "none"
    <3>1. served[k] = "none"
      BY <1>1, <2>1 DEF RequestIInv, NoneBeforeItsTime
    <3> QED BY <1>1, <3>1
  <2> QED BY <2>1 DEF NoneBeforeItsTime
<1>10. OneRequestInHand'
  <2>1. request'.detached => request'.connected
    <3>1. request.detached => request.connected
      BY DEF RequestIInv, OneRequestInHand
    <3>2. FCGX_Free(close).detached => FCGX_Free(close).connected
      BY <1>2, <3>1, FreeProps, Zenon
    <3> QED BY <1>1, <3>2, Zenon
  <2> QED BY <1>7, <2>1 DEF OneRequestInHand
<1> QED BY <1>1, <1>5, <1>6, <1>7, <1>8, <1>9, <1>10 DEF RequestIInv

\* FCGX_FClose of a writer may end the request in hand, and no other.
LEMMA FClosePreserves ==
    ASSUME RequestIInv, NEW writer \in Writers, FCGX_FClose(writer)
    PROVE  RequestIInv' /\ UNCHANGED <<request, pc, count>>
<1>1. /\ closed' = closed \cup {writer}
      /\ \/ served' = [served EXCEPT ![request.streams] = Ended]
         \/ served' = served
      /\ UNCHANGED <<request, pc, count, broken, inError>>
  BY DEF FCGX_FClose
<1>2. Ended \in {"broken", "ended"}
  BY DEF Ended
<1>3. /\ served' \in [Requests -> {"none", "open", "ended", "broken"}]
      /\ \A k \in Requests : /\ served'[k] = "open" => served[k] = "open"
                             /\ k # request.streams => served'[k] = served[k]
  BY <1>1, <1>2 DEF RequestIInv, RequestTypes
<1>4. RequestTypes'
  BY <1>1, <1>3 DEF RequestIInv, RequestTypes
<1>5. StreamsOfLast'
  BY <1>1 DEF RequestIInv, StreamsOfLast
<1>6. NoneBeforeItsTime'
  <2>1. ASSUME NEW k \in Requests, k > count PROVE k # request.streams
    BY <2>1 DEF RequestIInv, RequestTypes, StreamsOfLast, NoStream, Requests
  <2> QED BY <1>1, <1>3, <2>1 DEF RequestIInv, NoneBeforeItsTime
<1>7. OneRequestInHand'
  BY <1>1, <1>3 DEF RequestIInv, OneRequestInHand, Unfinished
<1> QED BY <1>1, <1>4, <1>5, <1>6, <1>7 DEF RequestIInv

\* A request that is read is the next, and the only one.
LEMMA ReadsPreserves ==
    ASSUME RequestIInv, AcceptReads
    PROVE  /\ RequestIInv'
           /\ request'.streams = count' /\ count' = count + 1 /\ count' > count /\ pc' = "app"
<1>1. /\ pc = "accept" /\ count < MaxRequests /\ count' = count + 1 /\ pc' = "app"
      /\ request.connected
      /\ served' = [served EXCEPT ![count'] = "open"]
      /\ UNCHANGED <<closed, broken, inError>>
  BY DEF AcceptReads
<1>2. PICK keep \in BOOLEAN :
        request' = [request EXCEPT !.streams = count', !.keepConnection = keep]
  BY DEF AcceptReads
<1>3. /\ RequestTypes /\ count \in Nat /\ count' \in Requests /\ count' \in Nat
      /\ count' \in 0 .. MaxRequests /\ count' > count
  BY <1>1, RequestsAssumption DEF RequestIInv, RequestTypes, Requests
<1>4. request'.streams = count' /\ request'.connected /\ request'.detached = request.detached
  BY <1>1, <1>2, <1>3 DEF RequestTypes
<1>5. RequestTypes'
  <2>1. request' \in [connected : BOOLEAN, streams : Nat, keepConnection : BOOLEAN,
                      detached : BOOLEAN]
    BY <1>2, <1>3 DEF RequestTypes
  <2> QED BY <1>1, <1>3, <2>1 DEF RequestTypes
<1>6. StreamsOfLast'
  BY <1>1, <1>4 DEF StreamsOfLast
<1>7. NoneBeforeItsTime'
  BY <1>1, <1>3 DEF RequestIInv, NoneBeforeItsTime, RequestTypes, Requests
<1>8. Unfinished' \subseteq {request'.streams}
  <2>1. ASSUME NEW k \in Requests, served'[k] = "open", k # count' PROVE FALSE
    <3>1. served[k] = "open"
      BY <1>1, <1>3, <2>1 DEF RequestTypes
    <3>2. k = NoStream
      BY <1>1, <3>1 DEF RequestIInv, OneRequestInHand, Unfinished, StreamsOfLast
    <3> QED BY <3>2 DEF Requests, NoStream
  <2> QED BY <1>4, <2>1 DEF Unfinished
<1> QED BY <1>1, <1>3, <1>4, <1>5, <1>6, <1>7, <1>8 DEF RequestIInv, OneRequestInHand

\* The other steps of accepting, a read that fails and the server's hanging up
\* leave the request and the requests before it as they are.
LEMMA OthersPreserve ==
    ASSUME RequestIInv,
           \/ AcceptConnects \/ AcceptFails \/ AcceptRetries
           \/ InputFails \/ FCGX_Attach \/ FCGX_Detach \/ HangUp \/ UNCHANGED requestVars
    PROVE  /\ RequestIInv' /\ request'.streams = request.streams
           /\ UNCHANGED <<count, served>>
<1>1. RequestTypes
  BY DEF RequestIInv
<1>2. /\ request' \in [connected : BOOLEAN, streams : Nat, keepConnection : BOOLEAN,
                       detached : BOOLEAN]
      /\ request'.streams = request.streams
      /\ request'.detached => request'.connected
  <2>1. CASE AcceptRetries
    <3>1. PICK keep \in BOOLEAN :
            request' = [FCGX_Free(TRUE) EXCEPT !.keepConnection = keep]
      BY <2>1 DEF AcceptRetries
    <3>2. request.streams = NoStream
      BY <2>1 DEF AcceptRetries, RequestIInv, StreamsOfLast
    <3>3. /\ FCGX_Free(TRUE) \in [connected : BOOLEAN, streams : Nat,
                                  keepConnection : BOOLEAN, detached : BOOLEAN]
          /\ FCGX_Free(TRUE).streams = NoStream
          /\ ~FCGX_Free(TRUE).detached
      BY <1>1 DEF RequestTypes, FCGX_Free, NoStream
    <3> QED BY <3>1, <3>2, <3>3
  <2>2. CASE AcceptConnects \/ FCGX_Attach \/ FCGX_Detach
    BY <1>1, <2>2 DEF AcceptConnects, FCGX_Attach, FCGX_Detach, RequestIInv, RequestTypes,
                      OneRequestInHand
  <2>3. CASE request' = request
    BY <1>1, <2>3 DEF RequestIInv, RequestTypes, OneRequestInHand
  <2> QED BY <2>1, <2>2, <2>3 DEF AcceptFails, InputFails, HangUp, requestVars
<1>3. /\ UNCHANGED <<count, served, closed>>
      /\ broken' \in BOOLEAN /\ inError' \in BOOLEAN
      /\ pc' = pc \/ (pc = "accept" /\ pc' = "app")
  BY <1>1 DEF AcceptConnects, AcceptFails, AcceptRetries, InputFails, FCGX_Attach, FCGX_Detach,
              HangUp, requestVars, RequestTypes
<1>4. RequestTypes'
  BY <1>1, <1>2, <1>3 DEF RequestTypes
<1>5. StreamsOfLast'
  BY <1>2, <1>3 DEF RequestIInv, StreamsOfLast
<1>6. NoneBeforeItsTime'
  BY <1>3 DEF RequestIInv, NoneBeforeItsTime
<1>7. OneRequestInHand'
  BY <1>2, <1>3 DEF RequestIInv, OneRequestInHand, Unfinished
<1> QED BY <1>2, <1>3, <1>4, <1>5, <1>6, <1>7 DEF RequestIInv

-----------------------------------------------------------------------------
(* stdio: the inductive invariant.                                         *)

Entry == [stdio : Std \cup Handles \cup {NULL, Lost}, fcgx : Nat]

StdioTypes ==
    /\ fastCGI \in BOOLEAN /\ acceptCalled \in BOOLEAN /\ isCGI \in BOOLEAN
    /\ file \in [DOMAIN file -> Entry]
    /\ Std \subseteq DOMAIN file /\ DOMAIN file \subseteq Std \cup Heap
    /\ files \subseteq Std \cup Handles
    /\ environ \in Nat
    /\ accepted \in {"none", "ok", "failed"}
    /\ last \in {NoCall, "nothing", "stream", "freed", "file"}

\* Only a server sends requests, and only to a process that has called FCGI_Accept.
ServerOrCGI ==
    /\ isCGI => ~fastCGI
    /\ count > 0 \/ pc = "accept" => fastCGI /\ acceptCalled

\* Until then the FCGI_FILEs of the standard streams have none.
BeforeAccept ==
    ~acceptCalled =>
        /\ \A fp \in Std : file[fp] = NoFile
        /\ pc # "exited" => Std \subseteq files
        /\ environ = NoStream

Held(fp) == file[fp].stdio \notin {NULL, Lost}

\* A FILE that somebody has is open, nobody else has it, and a standard one has
\* itself only.
HeldAreOpen == pc # "exited" => \A fp \in DOMAIN file : Held(fp) => file[fp].stdio \in files
HeldOnce ==
    \A fp, fq \in DOMAIN file : Held(fp) /\ file[fp].stdio = file[fq].stdio => fp = fq
StdIsItself == \A fp \in DOMAIN file : file[fp].stdio \in Std => file[fp].stdio = fp

\* The streams of a request are had by standard FCGI_FILEs, and are those in hand
\* until accepting has failed.
HeapIsStdio == \A fp \in DOMAIN file \ Std : file[fp].fcgx = NoStream
StreamsInHand ==
    pc = "app" /\ accepted # "failed" =>
        \A fp \in DOMAIN file : file[fp].fcgx \in {NoStream, request.streams}

\* While the next request is accepted no wrapper is called.
QuietInAccept == pc = "accept" => last = NoCall

StdioIInv ==
    /\ RequestIInv /\ StdioTypes
    /\ ServerOrCGI /\ BeforeAccept
    /\ HeldAreOpen /\ HeldOnce /\ StdIsItself
    /\ HeapIsStdio /\ StreamsInHand
    /\ QuietInAccept
    /\ CallsArrive /\ RequestsEnd

\* What FilesAreHeld says of a step.
FilesStep ==
    \A f \in Handles :
        f \in files' /\ Cardinality(Holders(f)') # 1 =>
            \/ f \in files /\ Cardinality(Holders(f)) = 0
            \/ count' > count /\ Cardinality(Holders(f)') = 0

-----------------------------------------------------------------------------
(* stdio: steps.                                                           *)

\* The names of the model differ.
LEMMA NameProps ==
    /\ NULL \notin Std \cup Handles /\ Lost \notin Std \cup Handles
    /\ Handles \cap Std = {} /\ Heap \cap Std = {}
    /\ NULL # Lost
<1> QED BY FilesAssumption DEF Std, NULL, Lost

\* A set of which any two are the same has none or one.
LEMMA AtMostOne ==
    ASSUME NEW H, \A x, y \in H : x = y
    PROVE  (H = {} /\ Cardinality(H) = 0) \/ Cardinality(H) = 1
<1>1. CASE H = {}
  BY <1>1, FS_EmptySet
<1>2. CASE H # {}
  <2>1. PICK x \in H : TRUE
    BY <1>2
  <2>2. H = {x}
    BY <2>1
  <2> QED BY <2>2, FS_Singleton
<1> QED BY <1>1, <1>2

\* As long as none is held twice, it is enough that the last holder of an open
\* FILE does not let it go.
LEMMA FilesStepProps ==
    ASSUME HeldOnce',
           \A f \in Handles : f \in files' /\ Holders(f)' = {} =>
                \/ f \in files /\ Holders(f) = {}
                \/ count' > count
    PROVE  FilesStep
<1> SUFFICES ASSUME NEW f \in Handles, f \in files', Cardinality(Holders(f)') # 1
             PROVE  \/ f \in files /\ Cardinality(Holders(f)) = 0
                    \/ count' > count /\ Cardinality(Holders(f)') = 0
  BY DEF FilesStep
<1>1. \A x, y \in Holders(f)' : x = y
  BY NameProps DEF Holders, HeldOnce, Held
<1>2. Holders(f)' = {} /\ Cardinality(Holders(f)') = 0
  <2> DEFINE H == Holders(f)'
  <2>1. \A x, y \in H : x = y
    BY <1>1
  <2> HIDE DEF H
  <2>2. (H = {} /\ Cardinality(H) = 0) \/ Cardinality(H) = 1
    BY <2>1, AtMostOne
  <2> QED BY <2>2 DEF H
<1>3. Holders(f) = {} => Cardinality(Holders(f)) = 0
  BY FS_EmptySet
<1> QED BY <1>2, <1>3

\* A process starts with its own streams, and nothing in the FCGI_FILEs.
LEMMA StdioInitIInv == RequestInit /\ StdioInit => StdioIInv
<1> SUFFICES ASSUME RequestInit, StdioInit PROVE StdioIInv
  OBVIOUS
<1>1. RequestIInv
  BY RequestInitIInv
<1>2. /\ fastCGI \in BOOLEAN
      /\ acceptCalled = FALSE /\ isCGI = FALSE
      /\ file = [fp \in Std |-> NoFile]
      /\ files = Std
      /\ environ = NoStream
      /\ accepted = "none"
      /\ last = NoCall
  BY DEF StdioInit
<1>3. NoFile = [stdio |-> NULL, fcgx |-> NoStream] /\ NoFile \in Entry
  BY DEF NoFile, Entry, NoStream
<1>4. StdioTypes
  BY <1>2, <1>3 DEF StdioTypes, NoStream
<1>5. ServerOrCGI
  BY <1>2 DEF ServerOrCGI, RequestInit
<1>6. BeforeAccept
  BY <1>2 DEF BeforeAccept
<1>7. HeldAreOpen /\ HeldOnce /\ StdIsItself
  BY <1>2, <1>3, NameProps DEF HeldAreOpen, HeldOnce, StdIsItself, Held
<1>8. HeapIsStdio /\ StreamsInHand
  BY <1>2, <1>3 DEF HeapIsStdio, StreamsInHand
<1>9. QuietInAccept /\ CallsArrive
  BY <1>2 DEF QuietInAccept, CallsArrive, NoCall
<1>10. RequestsEnd
  BY <1>1, <1>2 DEF RequestsEnd, RequestIInv, RequestInit
<1> QED BY <1>1, <1>4, <1>5, <1>6, <1>7, <1>8, <1>9, <1>10 DEF StdioIInv

\* A step that leaves the FCGI_FILEs and the request in hand, and knows where the
\* call arrived.
LEMMA CallPreserves ==
    ASSUME StdioIInv, RequestIInv', pc # "exited",
           UNCHANGED <<pc, count, fileVars, file, files>>,
           request'.streams = request.streams,
           \/ last' = last
           \/ /\ last' \in {NoCall, "nothing", "stream", "freed", "file"}
              /\ last' = "freed" => accepted = "failed"
              /\ pc = "app"
    PROVE  StdioIInv' /\ FilesStep
<1>1. UNCHANGED <<pc, count, fastCGI, acceptCalled, isCGI, environ, accepted, file, files>>
  BY DEF fileVars
<1>2. StdioTypes'
  BY <1>1 DEF StdioIInv, StdioTypes
<1>3. ServerOrCGI' /\ BeforeAccept'
  BY <1>1 DEF StdioIInv, ServerOrCGI, BeforeAccept
<1>4. HeldAreOpen' /\ HeldOnce' /\ StdIsItself'
  BY <1>1 DEF StdioIInv, HeldAreOpen, HeldOnce, StdIsItself, Held
<1>5. HeapIsStdio' /\ StreamsInHand'
  BY <1>1 DEF StdioIInv, HeapIsStdio, StreamsInHand
<1>6. QuietInAccept'
  BY <1>1 DEF StdioIInv, QuietInAccept
<1>7. CallsArrive'
  BY <1>1 DEF StdioIInv, CallsArrive, NoCall
<1>8. RequestsEnd'
  BY <1>1 DEF StdioIInv, RequestsEnd, RequestIInv
<1>9. FilesStep
  BY <1>1, <1>4, FilesStepProps DEF Holders
<1> QED BY <1>2, <1>3, <1>4, <1>5, <1>6, <1>7, <1>8, <1>9 DEF StdioIInv

\* A step that closes the FILE of one FCGI_FILE, which keeps none or goes.
LEMMA ClosesPreserves ==
    ASSUME StdioIInv, RequestIInv', pc = "app",
           UNCHANGED <<request, pc, count, fileVars>>, last' = NoCall,
           NEW g \in DOMAIN file, NEW D \in {DOMAIN file, DOMAIN file \ {g}},
           g \in Std => D = DOMAIN file,
           NEW entry \in [stdio : {NULL, Lost}, fcgx : {NoStream, file[g].fcgx}],
           file' = [fp \in D |-> IF fp = g THEN entry ELSE file[fp]],
           g \in Std /\ ~acceptCalled => entry = NoFile,
           files' = files \ {file[g].stdio}
    PROVE  StdioIInv' /\ FilesStep
<1>1. UNCHANGED <<request, pc, count, fastCGI, acceptCalled, isCGI, environ, accepted>>
  BY DEF fileVars
<1>2. /\ DOMAIN file' = D /\ D \subseteq DOMAIN file /\ Std \subseteq D
      /\ \A fp \in D : fp # g => file'[fp] = file[fp]
      /\ g \in D => /\ file'[g].stdio \in {NULL, Lost}
                    /\ file'[g].fcgx \in {NoStream, file[g].fcgx}
                    /\ file'[g] = entry
  BY DEF StdioIInv, StdioTypes
<1>3. StdioTypes'
  <2>1. file' \in [D -> Entry]
    <3>1. ASSUME NEW fp \in D PROVE file'[fp] \in Entry
      <4>1. entry \in Entry
        <5>1. file[g].fcgx \in Nat /\ NoStream \in Nat
          BY DEF StdioIInv, StdioTypes, Entry, NoStream
        <5> QED BY <5>1 DEF Entry
      <4> QED BY <1>2, <4>1 DEF StdioIInv, StdioTypes
    <3> QED BY <3>1
  <2> QED BY <1>1, <1>2, <2>1 DEF StdioIInv, StdioTypes
<1>4. ServerOrCGI'
  BY <1>1 DEF StdioIInv, ServerOrCGI
<1>5. BeforeAccept'
  <2>1. ASSUME ~acceptCalled
        PROVE  (\A fp \in Std : file'[fp] = NoFile) /\ Std \subseteq files'
    <3>1. ASSUME NEW fp \in Std PROVE file'[fp] = NoFile
      BY <1>2, <2>1, <3>1 DEF StdioIInv, BeforeAccept
    <3>2. file[g].stdio \notin Std
      BY <2>1, NameProps DEF StdioIInv, StdIsItself, BeforeAccept
    <3> QED BY <2>1, <3>1, <3>2 DEF StdioIInv, BeforeAccept
  <2> QED BY <1>1, <2>1 DEF StdioIInv, BeforeAccept
<1>6. HeldAreOpen'
  <2>1. ASSUME NEW fp \in D, file'[fp].stdio \notin {NULL, Lost}
        PROVE  file'[fp].stdio \in files'
    BY <1>2, <2>1 DEF StdioIInv, HeldAreOpen, HeldOnce, Held
  <2> QED BY <1>2, <2>1 DEF HeldAreOpen, Held
<1>7. HeldOnce' /\ StdIsItself'
  BY <1>2, NameProps DEF StdioIInv, HeldOnce, StdIsItself, Held
<1>8. HeapIsStdio' /\ StreamsInHand'
  BY <1>1, <1>2 DEF StdioIInv, HeapIsStdio, StreamsInHand
<1>9. QuietInAccept' /\ CallsArrive'
  BY <1>1 DEF QuietInAccept, CallsArrive, NoCall
<1>10. RequestsEnd'
  BY <1>1 DEF StdioIInv, RequestsEnd, RequestIInv
<1>11. FilesStep
  <2>1. ASSUME NEW f \in Handles, f \in files', Holders(f)' = {}
        PROVE  f \in files /\ Holders(f) = {}
    <3>1. ASSUME NEW fp \in DOMAIN file, file[fp].stdio = f PROVE FALSE
      BY <1>2, <2>1, <3>1 DEF Holders
    <3> QED BY <2>1, <3>1 DEF Holders
  <2> QED BY <1>7, <2>1, FilesStepProps
<1> QED BY <1>3, <1>4, <1>5, <1>6, <1>7, <1>8, <1>9, <1>10, <1>11 DEF StdioIInv

\* A step that opens a FILE for one FCGI_FILE, which had none.
LEMMA OpensPreserves ==
    ASSUME StdioIInv, RequestIInv', pc = "app",
           UNCHANGED <<request, pc, count, fileVars>>, last' = NoCall,
           NEW g \in Std \cup Heap, g \in DOMAIN file => file[g].stdio = NULL,
           NEW f \in Handles \ files,
           file' = [fp \in DOMAIN file \cup {g} |-> IF fp = g THEN Wrapped(f) ELSE file[fp]],
           g \in Std => acceptCalled,
           files' = files \cup {f}
    PROVE  StdioIInv' /\ FilesStep
<1>1. UNCHANGED <<request, pc, count, fastCGI, acceptCalled, isCGI, environ, accepted>>
  BY DEF fileVars
<1>2. /\ DOMAIN file' = DOMAIN file \cup {g}
      /\ \A fp \in DOMAIN file : fp # g => file'[fp] = file[fp]
      /\ file'[g] = Wrapped(f)
      /\ file'[g].stdio = f /\ file'[g].fcgx = NoStream
      /\ \A fp \in DOMAIN file : Held(fp) => file[fp].stdio # f
  BY DEF Wrapped, StdioIInv, HeldAreOpen
<1>3. StdioTypes'
  <2>1. file' \in [DOMAIN file \cup {g} -> Entry]
    <3>1. Wrapped(f) \in Entry
      BY DEF Wrapped, Entry, NoStream
    <3>2. ASSUME NEW fp \in DOMAIN file \cup {g} PROVE file'[fp] \in Entry
      BY <1>2, <3>1 DEF StdioIInv, StdioTypes
    <3> QED BY <3>2
  <2> QED BY <1>1, <1>2, <2>1 DEF StdioIInv, StdioTypes
<1>4. ServerOrCGI'
  BY <1>1 DEF StdioIInv, ServerOrCGI
<1>5. BeforeAccept'
  BY <1>1, <1>2 DEF StdioIInv, StdioTypes, BeforeAccept
<1>6. HeldAreOpen'
  BY <1>1, <1>2 DEF StdioIInv, HeldAreOpen, Held
<1>7. HeldOnce' /\ StdIsItself'
  BY <1>2, NameProps DEF StdioIInv, HeldOnce, StdIsItself, Held
<1>8. HeapIsStdio' /\ StreamsInHand'
  BY <1>1, <1>2 DEF StdioIInv, HeapIsStdio, StreamsInHand
<1>9. QuietInAccept' /\ CallsArrive'
  BY <1>1 DEF QuietInAccept, CallsArrive, NoCall
<1>10. RequestsEnd'
  BY <1>1 DEF StdioIInv, RequestsEnd, RequestIInv
<1>11. FilesStep
  <2>1. ASSUME NEW e \in Handles, e \in files', Holders(e)' = {}
        PROVE  e \in files /\ Holders(e) = {}
    <3>1. e # f
      BY <1>2, <2>1 DEF Holders
    <3>2. ASSUME NEW fp \in DOMAIN file, file[fp].stdio = e PROVE FALSE
      BY <1>2, <2>1, <3>2, NameProps DEF Holders
    <3> QED BY <2>1, <3>1, <3>2 DEF Holders
  <2> QED BY <1>7, <2>1, FilesStepProps
<1> QED BY <1>3, <1>4, <1>5, <1>6, <1>7, <1>8, <1>9, <1>10, <1>11 DEF StdioIInv

\* The first FCGI_Accept of a CGI process gives each standard FCGI_FILE its FILE.
LEMMA AcceptCGIPreserves ==
    ASSUME StdioIInv, FCGI_AcceptCGI
    PROVE  StdioIInv' /\ FilesStep
<1>1. /\ pc = "app" /\ ~fastCGI /\ last' = NoCall
      /\ UNCHANGED <<requestVars, fastCGI, files, environ>>
      /\ UNCHANGED <<request, pc, count, served>>
  BY DEF FCGI_AcceptCGI, requestVars
<1>2. RequestIInv'
  BY <1>1, OthersPreserve DEF StdioIInv
<1>3. count = 0 /\ request.streams = NoStream
  BY <1>1 DEF StdioIInv, ServerOrCGI, RequestIInv, RequestTypes, StreamsOfLast, NoStream
<1>4. CASE acceptCalled
  <2>1. accepted' = "failed" /\ UNCHANGED <<isCGI, acceptCalled, file>>
    BY <1>4 DEF FCGI_AcceptCGI
  <2>2. StdioTypes'
    BY <1>1, <2>1 DEF StdioIInv, StdioTypes
  <2>3. ServerOrCGI' /\ BeforeAccept'
    BY <1>1, <1>4, <2>1 DEF StdioIInv, ServerOrCGI, BeforeAccept
  <2>4. HeldAreOpen' /\ HeldOnce' /\ StdIsItself'
    BY <1>1, <2>1 DEF StdioIInv, HeldAreOpen, HeldOnce, StdIsItself, Held
  <2>5. HeapIsStdio' /\ StreamsInHand'
    BY <1>1, <2>1 DEF StdioIInv, HeapIsStdio, StreamsInHand
  <2>6. QuietInAccept' /\ CallsArrive'
    BY <1>1 DEF QuietInAccept, CallsArrive, NoCall
  <2>7. RequestsEnd'
    BY <1>1, <1>2, <2>1 DEF RequestsEnd, RequestIInv
  <2>8. FilesStep
    BY <1>1, <2>1, <2>4, FilesStepProps DEF Holders
  <2> QED BY <1>2, <2>2, <2>3, <2>4, <2>5, <2>6, <2>7, <2>8 DEF StdioIInv
<1>5. CASE ~acceptCalled
  <2>1. /\ isCGI' = TRUE /\ acceptCalled' = TRUE /\ accepted' = "ok"
        /\ file' = [fp \in DOMAIN file |->
                        IF fp \in Std THEN [stdio |-> fp, fcgx |-> NoStream] ELSE file[fp]]
    BY <1>5 DEF FCGI_AcceptCGI
  <2>2. /\ DOMAIN file' = DOMAIN file /\ Std \subseteq DOMAIN file
        /\ \A fp \in DOMAIN file \ Std : file'[fp] = file[fp]
        /\ \A fp \in Std : file'[fp].stdio = fp /\ file'[fp].fcgx = NoStream
    BY <2>1 DEF StdioIInv, StdioTypes
  <2>3. StdioTypes'
    <3>1. file' \in [DOMAIN file -> Entry]
      <4>1. ASSUME NEW fp \in DOMAIN file PROVE file'[fp] \in Entry
        BY <2>1 DEF StdioIInv, StdioTypes, Entry, NoStream
      <4> QED BY <2>1, <4>1
    <3> QED BY <1>1, <2>1, <2>2, <3>1 DEF StdioIInv, StdioTypes
  <2>4. ServerOrCGI' /\ BeforeAccept'
    BY <1>1, <1>3, <2>1 DEF ServerOrCGI, BeforeAccept
  <2>5. \A fp \in DOMAIN file \ Std : file[fp].stdio \notin Std
    BY DEF StdioIInv, StdIsItself
  <2>6. HeldAreOpen'
    BY <1>1, <1>5, <2>2 DEF StdioIInv, HeldAreOpen, Held, BeforeAccept
  <2>7. HeldOnce' /\ StdIsItself'
    BY <2>2, <2>5 DEF StdioIInv, HeldOnce, StdIsItself, Held
  <2>8. HeapIsStdio' /\ StreamsInHand'
    BY <1>1, <2>2 DEF StdioIInv, HeapIsStdio, StreamsInHand
  <2>9. QuietInAccept' /\ CallsArrive'
    BY <1>1 DEF QuietInAccept, CallsArrive, NoCall
  <2>10. RequestsEnd'
    BY <1>1, <1>2, <1>3, <1>5 DEF RequestsEnd, RequestIInv, StdioIInv, BeforeAccept
  <2>11. FilesStep
    <3>1. ASSUME NEW f \in Handles, f \in files', Holders(f)' = {}
          PROVE  f \in files /\ Holders(f) = {}
      <4>1. ASSUME NEW fp \in DOMAIN file, file[fp].stdio = f PROVE FALSE
        <5>1. fp \notin Std
          BY <1>5, <4>1, NameProps DEF StdioIInv, BeforeAccept, NoFile
        <5> QED BY <2>2, <3>1, <4>1, <5>1 DEF Holders
      <4> QED BY <1>1, <3>1, <4>1 DEF Holders
    <3> QED BY <2>7, <3>1, FilesStepProps
  <2> QED BY <1>2, <2>3, <2>4, <2>6, <2>7, <2>8, <2>9, <2>10, <2>11 DEF StdioIInv
<1> QED BY <1>4, <1>5

\* FCGI_Accept of a server's process begins: the request in hand is finished.
LEMMA AcceptBeginsPreserves ==
    ASSUME StdioIInv, FCGI_AcceptBegins
    PROVE  StdioIInv' /\ FilesStep
<1>1. /\ pc = "app" /\ fastCGI /\ FCGX_Finish /\ pc' = "accept"
      /\ acceptCalled' = TRUE /\ last' = NoCall
      /\ UNCHANGED <<fastCGI, isCGI, file, files, environ, accepted>>
  BY DEF FCGI_AcceptBegins, AcceptBegins
<1>2. RequestIInv' /\ count' = count
  BY <1>1, FinishPreserves DEF StdioIInv
<1>3. StdioTypes'
  BY <1>1 DEF StdioIInv, StdioTypes
<1>4. ServerOrCGI' /\ BeforeAccept'
  BY <1>1 DEF StdioIInv, ServerOrCGI, BeforeAccept
<1>5. HeldAreOpen' /\ HeldOnce' /\ StdIsItself'
  BY <1>1 DEF StdioIInv, HeldAreOpen, HeldOnce, StdIsItself, Held
<1>6. HeapIsStdio' /\ StreamsInHand'
  BY <1>1 DEF StdioIInv, HeapIsStdio, StreamsInHand
<1>7. QuietInAccept' /\ CallsArrive'
  BY <1>1 DEF QuietInAccept, CallsArrive, NoCall
<1>8. RequestsEnd'
  BY <1>1, <1>2 DEF RequestsEnd, RequestIInv
<1>9. FilesStep
  BY <1>1, <1>5, FilesStepProps DEF Holders
<1> QED BY <1>2, <1>3, <1>4, <1>5, <1>6, <1>7, <1>8, <1>9 DEF StdioIInv

\* ... and goes on with a connection or without: nothing of stdio's changes.
LEMMA AcceptRetriesPreserves ==
    ASSUME StdioIInv, FCGI_AcceptRetries
    PROVE  StdioIInv' /\ FilesStep
<1>1. /\ AcceptConnects \/ AcceptRetries
      /\ UNCHANGED stdioVars
  BY DEF FCGI_AcceptRetries
<1>2. pc = "accept" /\ pc' = pc
  BY <1>1 DEF AcceptConnects, AcceptRetries
<1>3. RequestIInv' /\ request'.streams = request.streams /\ count' = count
  BY <1>1, OthersPreserve DEF StdioIInv
<1>4. UNCHANGED <<fileVars, file, files>> /\ last' = last
  BY <1>1 DEF stdioVars, fileVars
<1> QED BY <1>2, <1>3, <1>4, CallPreserves

\* The standard FCGI_FILEs get the streams of the request that was read, and forget
\* what they had.
LEMMA AcceptSucceedsPreserves ==
    ASSUME StdioIInv, FCGI_AcceptSucceeds
    PROVE  StdioIInv' /\ FilesStep
<1>1. /\ AcceptReads /\ file' = Assigned(count') /\ environ' = count' /\ accepted' = "ok"
      /\ UNCHANGED <<fastCGI, acceptCalled, isCGI, files, last>>
  BY DEF FCGI_AcceptSucceeds
<1>2. /\ RequestIInv' /\ request'.streams = count' /\ count' > count /\ pc' = "app"
  BY <1>1, ReadsPreserves DEF StdioIInv
<1>3. /\ pc = "accept" /\ fastCGI /\ acceptCalled /\ last = NoCall /\ count' \in Nat
  <2>1. pc = "accept"
    BY <1>1 DEF AcceptReads
  <2> QED BY <1>2, <2>1 DEF StdioIInv, ServerOrCGI, QuietInAccept, RequestIInv, RequestTypes
<1>4. /\ DOMAIN file' = DOMAIN file /\ Std \subseteq DOMAIN file
      /\ \A fp \in DOMAIN file \ Std : file'[fp] = file[fp]
      /\ \A fp \in Std : file'[fp].stdio = NULL /\ file'[fp].fcgx = count'
  BY <1>1 DEF Assigned, StdioIInv, StdioTypes
<1>5. StdioTypes'
  <2>1. file' \in [DOMAIN file -> Entry]
    <3>1. ASSUME NEW fp \in DOMAIN file PROVE file'[fp] \in Entry
      BY <1>1, <1>3 DEF Assigned, StdioIInv, StdioTypes, Entry
    <3> QED BY <1>1, <3>1 DEF Assigned
  <2> QED BY <1>1, <1>3, <1>4, <2>1 DEF StdioIInv, StdioTypes
<1>6. ServerOrCGI' /\ BeforeAccept'
  BY <1>1, <1>3 DEF StdioIInv, ServerOrCGI, BeforeAccept
<1>7. HeldAreOpen'
  BY <1>1, <1>3, <1>4 DEF StdioIInv, HeldAreOpen, Held
<1>8. HeldOnce' /\ StdIsItself'
  BY <1>4, NameProps DEF StdioIInv, HeldOnce, StdIsItself, Held
<1>9. HeapIsStdio' /\ StreamsInHand'
  BY <1>2, <1>4 DEF StdioIInv, HeapIsStdio, StreamsInHand
<1>10. QuietInAccept' /\ CallsArrive'
  BY <1>1, <1>2, <1>3 DEF QuietInAccept, CallsArrive, NoCall
<1>11. RequestsEnd'
  BY <1>1, <1>2 DEF RequestsEnd, RequestIInv
<1>12. FilesStep
  BY <1>2, <1>8, FilesStepProps
<1> QED BY <1>2, <1>5, <1>6, <1>7, <1>8, <1>9, <1>10, <1>11, <1>12 DEF StdioIInv

\* What is left when accepting has failed.
LEMMA AcceptFailsPreserves ==
    ASSUME StdioIInv, FCGI_AcceptFails
    PROVE  StdioIInv' /\ FilesStep
<1>1. /\ AcceptFails /\ accepted' = "failed"
      /\ pc = "accept" /\ pc' = "app"
      /\ UNCHANGED <<fastCGI, acceptCalled, isCGI, file, files, environ, last>>
  BY DEF FCGI_AcceptFails, AcceptFails
<1>2. RequestIInv' /\ count' = count
  BY <1>1, OthersPreserve DEF StdioIInv
<1>3. StdioTypes'
  BY <1>1 DEF StdioIInv, StdioTypes
<1>4. ServerOrCGI' /\ BeforeAccept'
  BY <1>1, <1>2 DEF StdioIInv, ServerOrCGI, BeforeAccept
<1>5. HeldAreOpen' /\ HeldOnce' /\ StdIsItself'
  BY <1>1 DEF StdioIInv, HeldAreOpen, HeldOnce, StdIsItself, Held
<1>6. HeapIsStdio' /\ StreamsInHand'
  BY <1>1 DEF StdioIInv, HeapIsStdio, StreamsInHand
<1>7. QuietInAccept' /\ CallsArrive'
  BY <1>1 DEF StdioIInv, QuietInAccept, CallsArrive, NoCall
<1>8. RequestsEnd'
  BY <1>1, <1>2 DEF RequestsEnd, RequestIInv
<1>9. FilesStep
  BY <1>1, <1>5, FilesStepProps DEF Holders
<1> QED BY <1>2, <1>3, <1>4, <1>5, <1>6, <1>7, <1>8, <1>9 DEF StdioIInv

\* FCGI_Finish takes the streams from the standard FCGI_FILEs, when the program
\* calls it and when the process exits.
LEMMA FinishedProps ==
    ASSUME StdioIInv, FCGI_Finish, pc' \in {"app", "exited"}
    PROVE  /\ RequestIInv' /\ request'.streams = NoStream /\ Unfinished' = {}
           /\ count' = count /\ environ' = NoStream /\ accepted' = "none"
           /\ file' \in [DOMAIN file -> Entry]
           /\ \A fp \in DOMAIN file : file'[fp].stdio = file[fp].stdio
                                     /\ file'[fp].fcgx = NoStream
           /\ ~acceptCalled => \A fp \in Std : file'[fp] = NoFile
<1>1. /\ FCGX_Finish /\ environ' = NoStream /\ accepted' = "none"
      /\ file' = [fp \in DOMAIN file |->
                    IF fp \in Std THEN [file[fp] EXCEPT !.fcgx = NoStream] ELSE file[fp]]
  BY DEF FCGI_Finish
<1>2. RequestIInv' /\ request'.streams = NoStream /\ Unfinished' = {} /\ count' = count
  BY <1>1, FinishPreserves DEF StdioIInv
<1>3. ASSUME NEW fp \in DOMAIN file
      PROVE  /\ file'[fp] \in Entry /\ file'[fp].stdio = file[fp].stdio
             /\ file'[fp].fcgx = NoStream
  <2>1. file[fp] \in Entry
    BY DEF StdioIInv, StdioTypes
  <2>2. CASE fp \in Std
    BY <1>1, <2>1, <2>2 DEF Entry, NoStream
  <2>3. CASE fp \notin Std
    BY <1>1, <2>1, <2>3 DEF StdioIInv, HeapIsStdio
  <2> QED BY <2>2, <2>3
<1>4. ASSUME ~acceptCalled, NEW fp \in Std PROVE file'[fp] = NoFile
  <2>1. file[fp] = NoFile /\ fp \in DOMAIN file
    BY <1>4 DEF StdioIInv, BeforeAccept, StdioTypes
  <2> QED BY <1>1, <2>1 DEF NoFile
<1>5. file' = [fp \in DOMAIN file |-> file'[fp]]
  BY <1>1
<1> QED BY <1>1, <1>2, <1>3, <1>4, <1>5

\* FCGI_Finish called by the program.
LEMMA CallFinishPreserves ==
    ASSUME StdioIInv, CallFinish
    PROVE  StdioIInv' /\ FilesStep
<1>1. /\ pc = "app" /\ pc' = "app" /\ acceptCalled /\ FCGI_Finish /\ last' = NoCall
      /\ UNCHANGED <<fastCGI, acceptCalled, isCGI, files>>
  BY DEF CallFinish
<1>2. /\ RequestIInv' /\ request'.streams = NoStream
      /\ count' = count /\ environ' = NoStream /\ accepted' = "none"
      /\ file' \in [DOMAIN file -> Entry] /\ DOMAIN file' = DOMAIN file
      /\ \A fp \in DOMAIN file : file'[fp].stdio = file[fp].stdio
                                /\ file'[fp].fcgx = NoStream
  BY <1>1, FinishedProps
<1>3. StdioTypes'
  BY <1>1, <1>2 DEF StdioIInv, StdioTypes, NoStream
<1>4. ServerOrCGI' /\ BeforeAccept'
  BY <1>1, <1>2 DEF StdioIInv, ServerOrCGI, BeforeAccept
<1>5. HeldAreOpen' /\ HeldOnce' /\ StdIsItself'
  BY <1>1, <1>2 DEF StdioIInv, HeldAreOpen, HeldOnce, StdIsItself, Held
<1>6. HeapIsStdio' /\ StreamsInHand'
  BY <1>2 DEF HeapIsStdio, StreamsInHand
<1>7. QuietInAccept' /\ CallsArrive'
  BY <1>1 DEF QuietInAccept, CallsArrive, NoCall
<1>8. RequestsEnd'
  BY <1>1, <1>2 DEF RequestsEnd, RequestIInv
<1>9. FilesStep
  BY <1>1, <1>2, <1>5, FilesStepProps DEF Holders
<1> QED BY <1>2, <1>3, <1>4, <1>5, <1>6, <1>7, <1>8, <1>9 DEF StdioIInv

\* The process exits, with the request in hand ended.
LEMMA ExitPreserves ==
    ASSUME StdioIInv, Exit
    PROVE  StdioIInv' /\ FilesStep
<1>1. /\ pc = "app" /\ pc' = "exited" /\ files' = {} /\ last' = NoCall
      /\ UNCHANGED <<fastCGI, acceptCalled, isCGI>>
  BY DEF Exit
<1>2. /\ RequestIInv' /\ Unfinished' = {} /\ count' = count /\ environ' \in Nat
      /\ accepted' \in {"none", "ok", "failed"}
      /\ file' \in [DOMAIN file -> Entry] /\ DOMAIN file' = DOMAIN file
      /\ \A fp \in DOMAIN file : /\ file'[fp].stdio = file[fp].stdio
                                 /\ fp \notin Std => file'[fp].fcgx = NoStream
      /\ ~acceptCalled => environ' = NoStream /\ \A fp \in Std : file'[fp] = NoFile
  <2>1. CASE acceptCalled /\ ~isCGI
    <3>1. FCGI_Finish
      BY <2>1 DEF Exit
    <3> QED BY <1>1, <2>1, <3>1, FinishedProps DEF NoStream
  <2>2. CASE ~(acceptCalled /\ ~isCGI)
    <3>1. UNCHANGED <<request, served, broken, closed, inError, count, file, environ, accepted>>
      BY <2>2 DEF Exit
    <3>2. count = 0 /\ request.streams = NoStream
      BY <1>1, <2>2 DEF StdioIInv, ServerOrCGI, RequestIInv, RequestTypes, StreamsOfLast, NoStream
    <3>3. Unfinished = {}
      <4>1. Unfinished \subseteq {NoStream} /\ NoStream \notin Requests
        BY <3>2 DEF StdioIInv, RequestIInv, OneRequestInHand, Requests, NoStream
      <4> QED BY <4>1 DEF Unfinished
    <3>4. Unfinished' = {}
      BY <3>1, <3>3 DEF Unfinished
    <3>5. RequestIInv'
      BY <1>1, <3>1 DEF StdioIInv, RequestIInv, RequestTypes, StreamsOfLast, NoneBeforeItsTime,
                        OneRequestInHand, Unfinished
    <3>6. /\ file \in [DOMAIN file -> Entry]
          /\ \A fp \in DOMAIN file : fp \notin Std => file[fp].fcgx = NoStream
          /\ ~acceptCalled => environ = NoStream /\ \A fp \in Std : file[fp] = NoFile
          /\ environ \in Nat /\ accepted \in {"none", "ok", "failed"}
      BY DEF StdioIInv, StdioTypes, HeapIsStdio, BeforeAccept
    <3> QED BY <3>1, <3>4, <3>5, <3>6
  <2> QED BY <2>1, <2>2
<1>3. StdioTypes'
  BY <1>1, <1>2 DEF StdioIInv, StdioTypes
<1>4. ServerOrCGI' /\ BeforeAccept'
  BY <1>1, <1>2 DEF StdioIInv, ServerOrCGI, BeforeAccept
<1>5. HeldAreOpen' /\ HeldOnce' /\ StdIsItself'
  <2>1. DOMAIN file' = DOMAIN file /\ \A fp \in DOMAIN file : file'[fp].stdio = file[fp].stdio
    BY <1>2
  <2> QED BY <1>1, <2>1 DEF StdioIInv, HeldAreOpen, HeldOnce, StdIsItself, Held
<1>6. HeapIsStdio' /\ StreamsInHand'
  <2>1. \A fp \in DOMAIN file' : fp \notin Std => file'[fp].fcgx = NoStream
    BY <1>2
  <2> QED BY <1>1, <2>1 DEF HeapIsStdio, StreamsInHand
<1>7. QuietInAccept' /\ CallsArrive'
  BY <1>1 DEF QuietInAccept, CallsArrive, NoCall
<1>8. RequestsEnd'
  <2>1. OneRequestInHand'
    BY <1>2 DEF RequestIInv
  <2> QED BY <1>1, <1>2, <2>1 DEF RequestsEnd
<1>9. FilesStep
  BY <1>1, <1>5, FilesStepProps
<1> QED BY <1>2, <1>3, <1>4, <1>5, <1>6, <1>7, <1>8, <1>9 DEF StdioIInv

\* fopen and its like.
LEMMA OpenedPreserves ==
    ASSUME StdioIInv, Opened
    PROVE  StdioIInv' /\ FilesStep
<1>1. /\ pc = "app" /\ last' = NoCall /\ UNCHANGED <<requestVars, fileVars>>
      /\ UNCHANGED <<request, pc, count>>
  BY DEF Opened, requestVars
<1>2. PICK f \in Handles \ files, fp \in Heap \ DOMAIN file :
        /\ files' = files \cup {f}
        /\ file' = [g \in DOMAIN file \cup {fp} |-> IF g = fp THEN Wrapped(f) ELSE file[g]]
  BY DEF Opened, FCGI_OpenFromFILE
<1>3. RequestIInv'
  BY <1>1, OthersPreserve DEF StdioIInv
<1>4. fp \notin Std
  BY NameProps
<1> QED BY <1>1, <1>2, <1>3, <1>4, OpensPreserves

\* fclose, with or without a FILE.
LEMMA FclosePreserves ==
    ASSUME StdioIInv, NEW g \in Std \cup Heap, FCGI_fclose(g)
    PROVE  StdioIInv' /\ FilesStep
<1>1. /\ pc = "app" /\ g \in DOMAIN file /\ file[g].stdio # Lost /\ last' = NoCall
      /\ UNCHANGED fileVars
  BY DEF FCGI_fclose, Usable
<1> DEFINE D == DOMAIN file \ (IF g \in Std THEN {} ELSE {g})
<1>2. D \in {DOMAIN file, DOMAIN file \ {g}} /\ (g \in Std => D = DOMAIN file)
  OBVIOUS
<1>3. \A kept : Released(g, kept) = [fp \in D |-> IF fp = g THEN kept ELSE file[fp]]
  BY DEF Released
<1>4. file[g] \in Entry /\ files \subseteq Std \cup Handles
  BY <1>1 DEF StdioIInv, StdioTypes
<1> HIDE DEF D
<1>5. CASE file[g].stdio # NULL
  <2> DEFINE entry == [file[g] EXCEPT !.stdio = NULL]
  <2>1. /\ files' = files \ {file[g].stdio}
        /\ file' = Released(g, entry)
        /\ UNCHANGED requestVars
    BY <1>5 DEF FCGI_fclose
  <2>2. entry \in [stdio : {NULL, Lost}, fcgx : {NoStream, file[g].fcgx}]
    BY <1>4 DEF Entry
  <2>3. ~(g \in Std /\ ~acceptCalled)
    BY <1>5 DEF StdioIInv, BeforeAccept, NoFile
  <2>4. RequestIInv' /\ UNCHANGED <<request, pc, count>>
    BY <2>1, OthersPreserve DEF StdioIInv, requestVars
  <2>5. file' = [fp \in D |-> IF fp = g THEN entry ELSE file[fp]]
    BY <1>3, <2>1
  <2> HIDE DEF entry
  <2> QED BY <1>1, <1>2, <2>1, <2>2, <2>3, <2>4, <2>5, ClosesPreserves
<1>6. CASE file[g].stdio = NULL
  <2>1. /\ file' = Released(g, NoFile) /\ files' = files
        /\ \/ g # "stdin" /\ FCGX_FClose(WriterOf(g))
           \/ UNCHANGED requestVars
    BY <1>6 DEF FCGI_fclose
  <2>2. NoFile \in [stdio : {NULL, Lost}, fcgx : {NoStream, file[g].fcgx}]
    BY DEF NoFile
  <2>3. RequestIInv' /\ UNCHANGED <<request, pc, count>>
    <3>1. CASE FCGX_FClose(WriterOf(g))
      <4>1. WriterOf(g) \in Writers
        BY DEF WriterOf, Writers
      <4> QED BY <3>1, <4>1, FClosePreserves DEF StdioIInv
    <3>2. CASE UNCHANGED requestVars
      BY <3>2, OthersPreserve DEF StdioIInv, requestVars
    <3> QED BY <2>1, <3>1, <3>2
  <2>4. files' = files \ {file[g].stdio}
    BY <1>4, <1>6, <2>1, NameProps
  <2>5. file' = [fp \in D |-> IF fp = g THEN NoFile ELSE file[fp]]
    BY <1>3, <2>1
  <2> QED BY <1>1, <1>2, <2>2, <2>3, <2>4, <2>5, ClosesPreserves
<1> QED BY <1>5, <1>6

\* pclose of what popen returned.
LEMMA PclosePreserves ==
    ASSUME StdioIInv, NEW g \in Std \cup Heap, FCGI_pclose(g)
    PROVE  StdioIInv' /\ FilesStep
<1> DEFINE entry == [file[g] EXCEPT !.stdio = NULL]
           D == DOMAIN file \ (IF g \in Std THEN {} ELSE {g})
<1>1. /\ pc = "app" /\ g \in DOMAIN file /\ file[g].stdio # NULL /\ last' = NoCall
      /\ files' = files \ {file[g].stdio}
      /\ file' = Released(g, entry)
      /\ UNCHANGED <<requestVars, fileVars>>
  BY DEF FCGI_pclose, Usable
<1>2. D \in {DOMAIN file, DOMAIN file \ {g}} /\ (g \in Std => D = DOMAIN file)
  OBVIOUS
<1>3. file' = [fp \in D |-> IF fp = g THEN entry ELSE file[fp]]
  BY <1>1 DEF Released
<1>4. entry \in [stdio : {NULL, Lost}, fcgx : {NoStream, file[g].fcgx}]
  BY <1>1 DEF StdioIInv, StdioTypes, Entry
<1>5. ~(g \in Std /\ ~acceptCalled)
  BY <1>1 DEF StdioIInv, BeforeAccept, NoFile
<1>6. RequestIInv' /\ UNCHANGED <<request, pc, count>>
  BY <1>1, OthersPreserve DEF StdioIInv, requestVars
<1> HIDE DEF entry, D
<1> QED BY <1>1, <1>2, <1>3, <1>4, <1>5, <1>6, ClosesPreserves

\* freopen of a FILE that cannot be reopened.
LEMMA ReopenFilePreserves ==
    ASSUME StdioIInv, NEW g \in Std \cup Heap, ReopenFile(g)
    PROVE  StdioIInv' /\ FilesStep
<1> DEFINE entry == [file[g] EXCEPT !.stdio = Lost]
<1>1. /\ pc = "app" /\ g \in DOMAIN file /\ file[g].stdio # NULL /\ last' = NoCall
      /\ files' = files \ {file[g].stdio}
      /\ file' = [file EXCEPT ![g] = entry]
      /\ UNCHANGED <<requestVars, fileVars>>
  BY DEF ReopenFile, Usable
<1>2. DOMAIN file \in {DOMAIN file, DOMAIN file \ {g}}
  OBVIOUS
<1>3. file' = [fp \in DOMAIN file |-> IF fp = g THEN entry ELSE file[fp]]
  BY <1>1 DEF StdioIInv, StdioTypes
<1>4. entry \in [stdio : {NULL, Lost}, fcgx : {NoStream, file[g].fcgx}]
  BY <1>1 DEF StdioIInv, StdioTypes, Entry
<1>5. ~(g \in Std /\ ~acceptCalled)
  BY <1>1 DEF StdioIInv, BeforeAccept, NoFile
<1>6. RequestIInv' /\ UNCHANGED <<request, pc, count>>
  BY <1>1, OthersPreserve DEF StdioIInv, requestVars
<1>7. /\ pc = "app" /\ g \in DOMAIN file /\ last' = NoCall /\ UNCHANGED fileVars
      /\ files' = files \ {file[g].stdio}
  BY <1>1
<1> HIDE DEF entry
<1> QED BY <1>2, <1>3, <1>4, <1>5, <1>6, <1>7, ClosesPreserves

\* freopen of a stream of the request, with or without a FILE for it.
LEMMA ReopenStreamPreserves ==
    ASSUME StdioIInv, NEW g \in Std \cup Heap, ReopenStream(g)
    PROVE  StdioIInv' /\ FilesStep
<1>1. /\ pc = "app" /\ g \in DOMAIN file /\ file[g].stdio = NULL /\ file[g].fcgx # NoStream
      /\ last' = NoCall /\ UNCHANGED fileVars
      /\ FCGX_FClose(WriterOf(g)) \/ UNCHANGED requestVars
  BY DEF ReopenStream, Usable, Live
<1>2. RequestIInv' /\ UNCHANGED <<request, pc, count>>
  <2>1. CASE FCGX_FClose(WriterOf(g))
    <3>1. WriterOf(g) \in Writers
      BY DEF WriterOf, Writers
    <3> QED BY <2>1, <3>1, FClosePreserves DEF StdioIInv
  <2>2. CASE UNCHANGED requestVars
    BY <2>2, OthersPreserve DEF StdioIInv, requestVars
  <2> QED BY <1>1, <2>1, <2>2
<1>3. CASE UNCHANGED <<files, file>>
  BY <1>1, <1>2, <1>3, CallPreserves DEF NoCall
<1>4. ASSUME NEW f \in Handles \ files, files' = files \cup {f},
             file' = [file EXCEPT ![g] = Wrapped(f)]
      PROVE  StdioIInv' /\ FilesStep
  <2>1. g \in Std => acceptCalled
    BY <1>1 DEF StdioIInv, BeforeAccept, NoFile
  <2>2. file' = [fp \in DOMAIN file \cup {g} |-> IF fp = g THEN Wrapped(f) ELSE file[fp]]
    BY <1>1, <1>4 DEF StdioIInv, StdioTypes
  <2> QED BY <1>1, <1>2, <1>4, <2>1, <2>2, OpensPreserves
<1> QED BY <1>3, <1>4 DEF ReopenStream

\* Where a call arrives: at a FILE that is open, or a stream; and at one that was
\* freed after a failed FCGI_Accept only.
LEMMA ArrivesProps ==
    ASSUME StdioIInv, NEW fp, Usable(fp)
    PROVE  /\ Arrives(fp) \in {"file", "stream", "freed", "nothing"}
           /\ file[fp].fcgx # NoStream /\ ~Live(file[fp].fcgx) => accepted = "failed"
           /\ Arrives(fp) = "freed" => accepted = "failed"
<1>1. pc = "app" /\ fp \in DOMAIN file /\ file[fp].stdio # Lost
  BY DEF Usable
<1>2. file[fp].stdio # NULL => file[fp].stdio \in files
  BY <1>1 DEF StdioIInv, HeldAreOpen, Held
<1>3. file[fp].fcgx # NoStream /\ ~Live(file[fp].fcgx) => accepted = "failed"
  BY <1>1 DEF StdioIInv, StreamsInHand, Live
<1>4. CASE file[fp].stdio # NULL
  BY <1>2, <1>3, <1>4 DEF Arrives
<1>5. CASE file[fp].stdio = NULL /\ Live(file[fp].fcgx)
  BY <1>3, <1>5 DEF Arrives, Live
<1>6. CASE file[fp].stdio = NULL /\ ~Live(file[fp].fcgx)
  BY <1>3, <1>6 DEF Arrives
<1> QED BY <1>4, <1>5, <1>6

\* A wrapper's call changes nothing.
LEMMA WrappersPreserve ==
    ASSUME StdioIInv, NEW fp \in Std \cup Heap, Wrapper(fp) \/ FileWrapper(fp)
    PROVE  StdioIInv' /\ FilesStep
<1>1. /\ Usable(fp) /\ pc = "app"
      /\ last' \in {Arrives(fp), "nothing"}
      /\ UNCHANGED <<requestVars, fileVars, file, files>>
  BY DEF Wrapper, FileWrapper, Usable
<1>2. RequestIInv' /\ UNCHANGED <<request, pc, count>>
  BY <1>1, OthersPreserve DEF StdioIInv, requestVars
<1>3. /\ last' \in {NoCall, "nothing", "stream", "freed", "file"}
      /\ last' = "freed" => accepted = "failed"
  BY <1>1, ArrivesProps
<1> QED BY <1>1, <1>2, <1>3, CallPreserves

\* clearerr changes no more than the input stream's error.
LEMMA ClearerrPreserves ==
    ASSUME StdioIInv, NEW fp \in Std \cup Heap, FCGI_clearerr(fp)
    PROVE  StdioIInv' /\ FilesStep
<1>1. /\ Usable(fp) /\ pc = "app" /\ last' = Arrives(fp)
      /\ inError' \in BOOLEAN
      /\ UNCHANGED <<request, pc, count, served, closed, broken, fileVars, file, files>>
  BY DEF FCGI_clearerr, Usable
<1>2. RequestIInv'
  BY <1>1 DEF StdioIInv, RequestIInv, RequestTypes, StreamsOfLast, NoneBeforeItsTime,
              OneRequestInHand, Unfinished
<1>3. /\ last' \in {NoCall, "nothing", "stream", "freed", "file"}
      /\ last' = "freed" => accepted = "failed"
  BY <1>1, ArrivesProps
<1> QED BY <1>1, <1>2, <1>3, CallPreserves

\* The calls that are for the streams of a request, and the server's hanging up.
LEMMA StreamCallsPreserve ==
    ASSUME StdioIInv, \/ FCGI_StartFilterData \/ FCGI_SetExitStatus
                      \/ HangUp /\ UNCHANGED stdioVars
    PROVE  StdioIInv' /\ FilesStep
<1>1. CASE FCGI_StartFilterData
  <2>1. /\ pc = "app" /\ last' = "stream" /\ UNCHANGED <<fileVars, file, files>>
        /\ InputFails \/ UNCHANGED requestVars
    BY <1>1 DEF FCGI_StartFilterData, Usable
  <2>2. /\ RequestIInv' /\ request'.streams = request.streams /\ UNCHANGED <<pc, count>>
    BY <2>1, OthersPreserve DEF StdioIInv, InputFails, requestVars
  <2> QED BY <2>1, <2>2, CallPreserves
<1>2. CASE FCGI_SetExitStatus
  <2>1. /\ Usable("stdin") /\ pc = "app" /\ file["stdin"].fcgx # NoStream
        /\ last' = IF Live(file["stdin"].fcgx) THEN "stream" ELSE "freed"
        /\ UNCHANGED <<requestVars, fileVars, file, files>>
    BY <1>2 DEF FCGI_SetExitStatus, Usable
  <2>2. RequestIInv' /\ UNCHANGED <<request, pc, count>>
    BY <2>1, OthersPreserve DEF StdioIInv, requestVars
  <2>3. ~Live(file["stdin"].fcgx) => accepted = "failed"
    BY <2>1, ArrivesProps
  <2> QED BY <2>1, <2>2, <2>3, CallPreserves
<1>3. CASE HangUp /\ UNCHANGED stdioVars
  <2>1. pc # "exited" /\ UNCHANGED <<pc, count>>
    BY <1>3 DEF HangUp
  <2>2. UNCHANGED <<fileVars, file, files>> /\ last' = last
    BY <1>3 DEF stdioVars, fileVars
  <2>3. RequestIInv' /\ request'.streams = request.streams
    BY <1>3, OthersPreserve DEF StdioIInv
  <2> QED BY <2>1, <2>2, <2>3, CallPreserves
<1> QED BY <1>1, <1>2, <1>3

\* Every step of a stdio program preserves the invariant, and lets no FILE go.
LEMMA StdioNextIInv ==
    StdioIInv /\ [StdioNext]_<<requestVars, stdioVars>>
        => StdioIInv' /\ (FilesStep \/ UNCHANGED <<requestVars, stdioVars>>)
<1> SUFFICES ASSUME StdioIInv, [StdioNext]_<<requestVars, stdioVars>>
             PROVE  StdioIInv' /\ (FilesStep \/ UNCHANGED <<requestVars, stdioVars>>)
  OBVIOUS
<1>1. CASE FCGI_AcceptCGI
  BY <1>1, AcceptCGIPreserves
<1>2. CASE FCGI_AcceptBegins
  BY <1>2, AcceptBeginsPreserves
<1>3. CASE FCGI_AcceptRetries
  BY <1>3, AcceptRetriesPreserves
<1>4. CASE FCGI_AcceptSucceeds
  BY <1>4, AcceptSucceedsPreserves
<1>5. CASE FCGI_AcceptFails
  BY <1>5, AcceptFailsPreserves
<1>6. CASE CallFinish
  BY <1>6, CallFinishPreserves
<1>7. CASE Exit
  BY <1>7, ExitPreserves
<1>8. CASE FCGI_fopen \/ FCGI_fdopen \/ FCGI_popen \/ FCGI_tmpfile
  BY <1>8, OpenedPreserves DEF FCGI_fopen, FCGI_fdopen, FCGI_popen, FCGI_tmpfile
<1>9. ASSUME NEW fp \in Std \cup Heap,
             \/ FCGI_fclose(fp) \/ FCGI_pclose(fp) \/ FCGI_freopen(fp) \/ Wrappers(fp)
      PROVE  StdioIInv' /\ FilesStep
  <2>1. CASE FCGI_fclose(fp)
    BY <2>1, FclosePreserves
  <2>2. CASE FCGI_pclose(fp)
    BY <2>2, PclosePreserves
  <2>3. CASE FCGI_freopen(fp)
    BY <2>3, ReopenFilePreserves, ReopenStreamPreserves DEF FCGI_freopen
  <2>4. CASE Wrappers(fp)
    <3>1. CASE FCGI_clearerr(fp)
      BY <3>1, ClearerrPreserves
    <3>2. CASE ~FCGI_clearerr(fp)
      <4>1. Wrapper(fp) \/ FileWrapper(fp)
        BY <2>4, <3>2
           DEF Wrappers, FCGI_fflush, FCGI_setvbuf, FCGI_fseek, FCGI_fileno, FCGI_fgetc,
               FCGI_fgets, FCGI_fputc, FCGI_fputs, FCGI_fprintf, FCGI_vfprintf, FCGI_fread,
               FCGI_fwrite, FCGI_feof
      <4> QED BY <4>1, WrappersPreserve
    <3> QED BY <3>1, <3>2
  <2> QED BY <1>9, <2>1, <2>2, <2>3, <2>4
<1>10. CASE FCGI_perror
  <2>1. Wrapper("stderr") /\ "stderr" \in Std \cup Heap
    BY <1>10 DEF FCGI_perror, Std
  <2> QED BY <2>1, WrappersPreserve
<1>11. CASE FCGI_StartFilterData \/ FCGI_SetExitStatus \/ (HangUp /\ UNCHANGED stdioVars)
  BY <1>11, StreamCallsPreserve
<1>12. CASE UNCHANGED <<requestVars, stdioVars>>
  <2>1. RequestIInv'
    BY <1>12, OthersPreserve DEF StdioIInv
  <2>2. StdioIInv'
    BY <1>12, <2>1
       DEF requestVars, stdioVars, StdioIInv, StdioTypes, ServerOrCGI, BeforeAccept, HeldAreOpen,
           HeldOnce, StdIsItself, Held, HeapIsStdio, StreamsInHand, QuietInAccept, CallsArrive,
           RequestsEnd, OneRequestInHand, Unfinished
  <2> QED BY <1>12, <2>2
<1>13. CASE StdioNext
  <2> HIDE DEF StdioNext
  <2>1. CASE \E fp \in Std \cup Heap :
                \/ FCGI_fclose(fp) \/ FCGI_pclose(fp) \/ FCGI_freopen(fp) \/ Wrappers(fp)
    BY <1>9, <2>1
  <2>2. \/ FCGI_AcceptCGI \/ FCGI_AcceptBegins \/ FCGI_AcceptRetries
        \/ FCGI_AcceptSucceeds \/ FCGI_AcceptFails \/ CallFinish \/ Exit
        \/ FCGI_fopen \/ FCGI_fdopen \/ FCGI_popen \/ FCGI_tmpfile
        \/ \E fp \in Std \cup Heap :
               \/ FCGI_fclose(fp) \/ FCGI_pclose(fp) \/ FCGI_freopen(fp) \/ Wrappers(fp)
        \/ FCGI_perror \/ FCGI_StartFilterData \/ FCGI_SetExitStatus
        \/ HangUp /\ UNCHANGED stdioVars
    BY <1>13 DEF StdioNext
  <2> QED BY <1>1, <1>2, <1>3, <1>4, <1>5, <1>6, <1>7, <1>8, <1>10, <1>11, <2>1, <2>2
<1> QED BY <1>12, <1>13

-----------------------------------------------------------------------------
(* stdio: theorems.                                                        *)

\* The invariant of a program written for stdio.
THEOREM StdioIInvariant == StdioSpec => []StdioIInv
<1>1. StdioIInv /\ [StdioNext]_<<requestVars, stdioVars>> => StdioIInv'
  BY StdioNextIInv
<1> QED BY <1>1, StdioInitIInv, PTL DEF StdioSpec

\* A wrapper's call arrives at an open FILE, at the stream of the request in hand or
\* nowhere, unless the program goes on after a failed FCGI_Accept.
THEOREM CallsAlwaysArrive == StdioSpec => []CallsArrive
<1>1. StdioIInv => CallsArrive
  BY DEF StdioIInv
<1> QED BY <1>1, StdioIInvariant, PTL

\* At most the request in hand is unfinished, and none when the process exits; and
\* environ is that of the request in hand.
THEOREM RequestsAlwaysEnd == StdioSpec => []RequestsEnd
<1>1. StdioIInv => RequestsEnd
  BY DEF StdioIInv
<1> QED BY <1>1, StdioIInvariant, PTL

\* No FILE that a wrapper opened is lost or held twice, but for those that standard
\* streams were reopened as when FCGI_Accept succeeds.
THEOREM FilesAlwaysHeld == StdioSpec => FilesAreHeld
<1>1. StdioIInv /\ [StdioNext]_<<requestVars, stdioVars>>
        => [FilesStep]_<<requestVars, stdioVars>>
  BY StdioNextIInv
<1>2. StdioSpec => [][FilesStep]_<<requestVars, stdioVars>>
  BY <1>1, StdioIInvariant, PTL DEF StdioSpec
<1> QED BY <1>2 DEF FilesAreHeld, FilesStep

-----------------------------------------------------------------------------
(* iostreams: the inductive invariant.                                     *)

\* A byte that was written: of which request, and which of it.
Bytes == Nat \X Nat

Streambuf ==
    [exists : BOOLEAN, fcgx : Nat, way : {"in", "out"}, bufsize : {0, BufSize},
     put : Seq(Bytes), get : Seq(Nat), over : BOOLEAN, from : Nat, synced : BOOLEAN]
Input == [pos : Nat, type : {"stdin", "data"}, closed : BOOLEAN, lost : BOOLEAN]

BufTypes ==
    /\ sb \in Streambuf /\ in \in Input
    /\ wrote \in Nat /\ taken \in Seq(Bytes) /\ got \in Seq(Nat) /\ failed \in BOOLEAN

\* The areas are within the buffer, and without one there are none.
AreasFit ==
    /\ Len(sb.put) <= sb.bufsize
    /\ sb.bufsize = 0 => sb.get = <<>> /\ ~sb.over

\* A streambuf that was flushed, and not written to since, has nothing to put.
SyncedIsSent == sb.way = "out" /\ ~failed /\ sb.synced => sb.put = <<>>

\* The next request is not the one that the streambuf is attached to.
AttachedBefore == sb.fcgx <= count

\* The input is read up to its end, and from where the streambuf began.
ReadInRange ==
    /\ in.pos <= End
    /\ sb.exists /\ Live(sb.fcgx) => sb.from <= in.pos

BufIInv ==
    /\ RequestIInv /\ BufTypes
    /\ AreasFit /\ SyncedIsSent /\ AttachedBefore /\ ReadInRange
    /\ OutputSurvives /\ InputSurvives

-----------------------------------------------------------------------------
(* iostreams: sequences of bytes.                                          *)

\* The bytes of an input from one position to another.
LEMMA UptoProps ==
    ASSUME NEW m \in Nat, NEW n \in Nat
    PROVE  /\ Upto(m, n) \in Seq(Nat)
           /\ m <= n => Len(Upto(m, n)) = n - m
           /\ n <= m => Upto(m, n) = <<>>
           /\ \A i \in 1 .. (n - m) : Upto(m, n)[i] = m + i
<1>1. CASE m <= n
  <2>1. n - m \in Nat
    BY <1>1
  <2>2. \A i \in 1 .. (n - m) : m + i \in Nat
    OBVIOUS
  <2>3. Upto(m, n) \in [1 .. (n - m) -> Nat]
    BY <2>2 DEF Upto
  <2>4. Upto(m, n) \in Seq(Nat) /\ Len(Upto(m, n)) = n - m
    BY <2>1, <2>3
  <2>5. n = m => Upto(m, n) = <<>>
    BY <2>4, EmptySeq
  <2> QED BY <1>1, <2>4, <2>5 DEF Upto
<1>2. CASE n < m
  <2>1. 1 .. (n - m) = {}
    BY <1>2
  <2>2. Upto(m, n) = <<>>
    BY <2>1 DEF Upto
  <2> QED BY <1>2, <2>1, <2>2
<1> QED BY <1>1, <1>2

\* Two sequences make up a third that begins with the one and goes on with the other.
LEMMA ConcatIs ==
    ASSUME NEW S, NEW s \in Seq(S), NEW t \in Seq(S), NEW u \in Seq(S),
           Len(u) = Len(s) + Len(t),
           \A i \in 1 .. Len(s) : u[i] = s[i],
           \A i \in 1 .. Len(t) : u[Len(s) + i] = t[i]
    PROVE  s \o t = u
<1>1. /\ s \o t \in Seq(S) /\ Len(s \o t) = Len(s) + Len(t)
      /\ \A i \in 1 .. Len(s) + Len(t) :
            (s \o t)[i] = IF i <= Len(s) THEN s[i] ELSE t[i - Len(s)]
  BY ConcatProperties
<1>2. Len(s) \in Nat /\ Len(t) \in Nat
  BY LenProperties
<1> DEFINE v == s \o t
<1>3. /\ v \in Seq(S) /\ Len(v) = Len(s) + Len(t)
      /\ \A i \in 1 .. Len(s) + Len(t) : v[i] = IF i <= Len(s) THEN s[i] ELSE t[i - Len(s)]
  BY <1>1
<1> HIDE DEF v
<1>4. ASSUME NEW i \in 1 .. Len(v) PROVE v[i] = u[i]
  <2>1. CASE i <= Len(s)
    BY <1>2, <1>3, <2>1
  <2>2. CASE ~(i <= Len(s))
    <3>1. i - Len(s) \in 1 .. Len(t) /\ Len(s) + (i - Len(s)) = i
      BY <1>2, <1>3, <2>2
    <3> QED BY <1>2, <1>3, <2>2, <3>1
  <2> QED BY <2>1, <2>2
<1>5. v = u
  BY <1>3, <1>4, SeqEqual
<1> QED BY <1>5 DEF v

\* Bytes that follow each other make up the bytes from the first to the last.
LEMMA UptoConcat ==
    ASSUME NEW l \in Nat, NEW m \in Nat, NEW n \in Nat, l <= m, m <= n
    PROVE  Upto(l, m) \o Upto(m, n) = Upto(l, n)
<1> DEFINE s == Upto(l, m)
           t == Upto(m, n)
           u == Upto(l, n)
<1>1. s \in Seq(Nat) /\ Len(s) = m - l /\ \A i \in 1 .. (m - l) : s[i] = l + i
  BY UptoProps
<1>2. t \in Seq(Nat) /\ Len(t) = n - m /\ \A i \in 1 .. (n - m) : t[i] = m + i
  BY UptoProps
<1>3. l <= n
  OBVIOUS
<1>4. u \in Seq(Nat) /\ Len(u) = n - l /\ \A i \in 1 .. (n - l) : u[i] = l + i
  BY <1>3, UptoProps
<1> HIDE DEF s, t, u
<1>5. /\ Len(u) = Len(s) + Len(t)
      /\ \A i \in 1 .. Len(s) : u[i] = s[i]
      /\ \A i \in 1 .. Len(t) : u[Len(s) + i] = t[i]
  BY <1>1, <1>2, <1>4, SMTT(30)
<1>6. s \o t = u
  BY <1>1, <1>2, <1>4, <1>5, ConcatIs
<1> QED BY <1>6 DEF s, t, u

\* The same of the bytes that are written to the stream of a request.
LEMMA WrittenProps ==
    ASSUME NEW k \in Nat, NEW m \in Nat, NEW n \in Nat, m <= n
    PROVE  /\ Written(k, m, n) \in Seq(Bytes)
           /\ Len(Written(k, m, n)) = n - m
           /\ \A i \in 1 .. (n - m) : Written(k, m, n)[i] = <<k, m + i>>
<1>1. n - m \in Nat
  OBVIOUS
<1>2. \A i \in 1 .. (n - m) : <<k, m + i>> \in Bytes
  BY DEF Bytes
<1>3. Written(k, m, n) \in [1 .. (n - m) -> Bytes]
  BY <1>2 DEF Written
<1> QED BY <1>1, <1>3 DEF Written

\* Nothing is written from a byte to the same.
LEMMA NothingWritten ==
    ASSUME NEW k \in Nat, NEW m \in Nat, NEW n \in Nat, m = n
    PROVE  Written(k, m, n) = <<>>
<1>1. m <= n /\ n - m = 0
  OBVIOUS
<1>2. Written(k, m, n) \in Seq(Bytes) /\ Len(Written(k, m, n)) = n - m
  BY <1>1, WrittenProps
<1>3. Written(k, m, n) \in Seq(Bytes) /\ Len(Written(k, m, n)) = 0
  BY <1>1, <1>2
<1> QED BY <1>3, EmptySeq

\* ... one after another.
LEMMA WrittenConcat ==
    ASSUME NEW k \in Nat, NEW l \in Nat, NEW m \in Nat, NEW n \in Nat, l <= m, m <= n
    PROVE  Written(k, l, m) \o Written(k, m, n) = Written(k, l, n)
<1> DEFINE s == Written(k, l, m)
           t == Written(k, m, n)
           u == Written(k, l, n)
<1>1. s \in Seq(Bytes) /\ Len(s) = m - l /\ \A i \in 1 .. (m - l) : s[i] = <<k, l + i>>
  BY WrittenProps
<1>2. t \in Seq(Bytes) /\ Len(t) = n - m /\ \A i \in 1 .. (n - m) : t[i] = <<k, m + i>>
  BY WrittenProps
<1>3. l <= n
  OBVIOUS
<1>4. u \in Seq(Bytes) /\ Len(u) = n - l /\ \A i \in 1 .. (n - l) : u[i] = <<k, l + i>>
  BY <1>3, WrittenProps
<1> HIDE DEF s, t, u
<1>5. Len(u) = Len(s) + Len(t)
  BY <1>1, <1>2, <1>4
<1>6. ASSUME NEW i \in 1 .. Len(s) PROVE u[i] = s[i]
  <2>1. i \in 1 .. (m - l) /\ i \in 1 .. (n - l)
    BY <1>1
  <2> QED BY <1>1, <1>4, <2>1
<1>7. ASSUME NEW i \in 1 .. Len(t) PROVE u[Len(s) + i] = t[i]
  <2>1. i \in 1 .. (n - m) /\ Len(s) + i \in 1 .. (n - l) /\ l + (Len(s) + i) = m + i
    BY <1>1, <1>2
  <2>2. t[i] = <<k, m + i>> /\ u[Len(s) + i] = <<k, l + (Len(s) + i)>>
    BY <1>2, <1>4, <2>1
  <2> QED BY <2>1, <2>2
<1>8. s \o t = u
  BY <1>1, <1>2, <1>4, <1>5, <1>6, <1>7, ConcatIs
<1> QED BY <1>8 DEF s, t, u

\* A sequence is what fits, the byte behind it and the rest.
LEMMA SplitProps ==
    ASSUME NEW S, NEW s \in Seq(S), NEW room \in Nat, room < Len(s)
    PROVE  /\ SubSeq(s, 1, room) \in Seq(S) /\ Len(SubSeq(s, 1, room)) = room
           /\ SubSeq(s, room + 2, Len(s)) \in Seq(S)
           /\ Len(SubSeq(s, room + 2, Len(s))) = Len(s) - room - 1
           /\ <<s[room + 1]>> \in Seq(S)
           /\ (SubSeq(s, 1, room) \o <<s[room + 1]>>) \o SubSeq(s, room + 2, Len(s)) = s
<1> DEFINE fits == SubSeq(s, 1, room)
           c == <<s[room + 1]>>
           rest == SubSeq(s, room + 2, Len(s))
<1>1. Len(s) \in Nat /\ \A i \in 1 .. Len(s) : s[i] \in S
  BY LenProperties, ElementOfSeq
<1>2. fits \in Seq(S) /\ Len(fits) = room
  <2>1. \A i \in 1 .. room : s[i] \in S
    BY <1>1
  <2> QED BY <2>1, SubSeqProperties
<1>3. rest \in Seq(S) /\ Len(rest) = Len(s) - room - 1
  <2>1. \A i \in room + 2 .. Len(s) : s[i] \in S
    BY <1>1
  <2> QED BY <1>1, <2>1, SubSeqProperties
<1>4. c \in Seq(S)
  BY <1>1
<1>5. SubSeq(s, room + 1, Len(s)) = c \o rest
  <2>1. room + 1 \in 1 .. Len(s) /\ Len(s) \in room + 1 .. Len(s) /\ (room + 1) + 1 = room + 2
    BY <1>1
  <2>2. SubSeq(s, room + 1, Len(s)) = <<s[room + 1]>> \o SubSeq(s, (room + 1) + 1, Len(s))
    BY <2>1, SubSeqRecursiveFirst
  <2> QED BY <2>1, <2>2
<1>6. fits \o SubSeq(s, room + 1, Len(s)) = s
  <2>1. 1 \in 1 .. Len(s) + 1 /\ room \in 1 - 1 .. Len(s) /\ Len(s) \in room .. Len(s)
    BY <1>1
  <2>2. fits \o SubSeq(s, room + 1, Len(s)) = SubSeq(s, 1, Len(s))
    BY <2>1, ConcatAdjacentSubSeq
  <2> QED BY <2>2, SubSeqFull
<1>7. (fits \o c) \o rest = fits \o (c \o rest)
  <2> HIDE DEF fits, c, rest
  <2> QED BY <1>2, <1>3, <1>4, ConcatAssociative, SMTT(30)
<1> QED BY <1>2, <1>3, <1>4, <1>5, <1>6, <1>7

-----------------------------------------------------------------------------
(* iostreams: the FCGX calls.                                              *)

\* FCGX_PutStr takes all, or fails.
LEMMA PutStrProps ==
    ASSUME NEW s \in Seq(Bytes), NEW o \in FCGX_PutStr(s)
    PROVE  o.ok \in BOOLEAN /\ o.took \in Seq(Bytes) /\ (o.ok => o.took = s)
<1>1. CASE o = [took |-> s, ok |-> TRUE]
  BY <1>1
<1>2. ASSUME NEW m \in 0 .. Len(s) - 1, o = [took |-> SubSeq(s, 1, m), ok |-> FALSE]
      PROVE  o.ok \in BOOLEAN /\ o.took \in Seq(Bytes) /\ (o.ok => o.took = s)
  <2>1. Len(s) \in Nat
    BY LenProperties
  <2>2. \A i \in 1 .. m : s[i] \in Bytes
    BY <2>1, ElementOfSeq
  <2>3. SubSeq(s, 1, m) \in Seq(Bytes)
    BY <2>1, <2>2, SubSeqProperties
  <2> QED BY <1>2, <2>3
<1>3. \/ o = [took |-> s, ok |-> TRUE]
      \/ \E m \in IF broken THEN 0 .. Len(s) - 1 ELSE {} : o = [took |-> SubSeq(s, 1, m), ok |-> FALSE]
  BY DEF FCGX_PutStr
<1>4. \/ o = [took |-> s, ok |-> TRUE]
      \/ \E m \in 0 .. Len(s) - 1 : o = [took |-> SubSeq(s, 1, m), ok |-> FALSE]
  BY <1>3, Zenon
<1> QED BY <1>1, <1>2, <1>4

\* overflow() hands on the put area and then c, or the put area stays or is sent.
LEMMA OverflowProps ==
    ASSUME NEW area \in Seq(Bytes), NEW c \in Seq(Bytes), NEW o \in Overflow(area, c)
    PROVE  /\ o.ok \in BOOLEAN /\ o.took \in Seq(Bytes) /\ o.put \in {area, <<>>}
           /\ o.ok => o.put = <<>> /\ o.took = area \o c
<1>1. PICK q \in FCGX_PutStr(area) :
        o \in IF ~q.ok THEN {[put |-> area, took |-> q.took, ok |-> FALSE]}
              ELSE {[put |-> <<>>, took |-> q.took \o p.took, ok |-> p.ok] : p \in FCGX_PutStr(c)}
  BY DEF Overflow
<1>2. q.ok \in BOOLEAN /\ q.took \in Seq(Bytes) /\ (q.ok => q.took = area)
  BY PutStrProps
<1>3. CASE ~q.ok
  <2>1. o = [put |-> area, took |-> q.took, ok |-> FALSE]
    BY <1>1, <1>3, Zenon
  <2> QED BY <1>2, <2>1
<1>4. CASE q.ok
  <2>1. PICK p \in FCGX_PutStr(c) : o = [put |-> <<>>, took |-> q.took \o p.took, ok |-> p.ok]
    BY <1>1, <1>4
  <2>2. p.ok \in BOOLEAN /\ p.took \in Seq(Bytes) /\ (p.ok => p.took = c)
    BY PutStrProps
  <2>3. q.took \o p.took \in Seq(Bytes)
    BY <1>2, <2>2, ConcatProperties
  <2> QED BY <1>2, <1>4, <2>1, <2>2, <2>3
<1> QED BY <1>3, <1>4

\* FCGX_GetStr reads on, within the input.
LEMMA GetStrProps ==
    ASSUME BufIInv, NEW n \in Nat \ {0}, NEW new \in FCGX_GetStr(n)
    PROVE  /\ new \in Input /\ new.type = in.type
           /\ in.pos \in Nat /\ in.pos <= new.pos /\ new.pos <= in.pos + n /\ new.pos <= End
<1>1. in \in Input /\ in.pos \in Nat /\ in.pos <= End /\ End \in Nat
  BY SizesAssumption DEF BufIInv, BufTypes, ReadInRange, Input, End
<1> DEFINE m == IF in.closed \/ in.lost THEN 0 ELSE Least(n, End - in.pos)
<1>2. m \in Nat /\ m <= n /\ in.pos + m <= End
  BY <1>1 DEF Least
<1> HIDE DEF m
<1>3. \/ new = [in EXCEPT !.pos = @ + m, !.closed = @ \/ m < n]
      \/ \E j \in 0 .. m - 1 : new = [in EXCEPT !.pos = @ + j, !.closed = TRUE, !.lost = TRUE]
  BY DEF FCGX_GetStr, m
<1>4. CASE new = [in EXCEPT !.pos = @ + m, !.closed = @ \/ m < n]
  <2> DEFINE p == in.pos + m
             c == in.closed \/ m < n
  <2>1. p \in Nat /\ c \in BOOLEAN
    BY <1>1, <1>2
  <2>2. new = [in EXCEPT !.pos = p, !.closed = c]
    BY <1>4
  <2> HIDE DEF p, c
  <2>3. new.pos = p /\ new.type = in.type /\ new \in Input
    BY <1>1, <2>1, <2>2 DEF Input
  <2>4. new.pos = in.pos + m
    BY <2>3 DEF p
  <2> QED BY <1>1, <1>2, <2>3, <2>4
<1>5. ASSUME NEW j \in 0 .. m - 1,
             new = [in EXCEPT !.pos = @ + j, !.closed = TRUE, !.lost = TRUE]
      PROVE  /\ new \in Input /\ new.type = in.type
             /\ in.pos <= new.pos /\ new.pos <= in.pos + n /\ new.pos <= End
  <2> DEFINE p == in.pos + j
  <2>1. p \in Nat
    BY <1>1, <1>2
  <2>2. new = [in EXCEPT !.pos = p, !.closed = TRUE, !.lost = TRUE]
    BY <1>5
  <2> HIDE DEF p
  <2>3. new.pos = p /\ new.type = in.type /\ new \in Input
    BY <1>1, <2>1, <2>2 DEF Input
  <2>4. new.pos = in.pos + j
    BY <2>3 DEF p
  <2> QED BY <1>1, <1>2, <2>3, <2>4
<1> QED BY <1>1, <1>3, <1>4, <1>5

\* reset() empties the areas.
LEMMA ResetProps ==
    ASSUME NEW s \in Streambuf
    PROVE  /\ Reset(s) \in Streambuf /\ Reset(s).put = <<>> /\ Reset(s).get = <<>>
           /\ ~Reset(s).over
           /\ Reset(s).exists = s.exists /\ Reset(s).fcgx = s.fcgx /\ Reset(s).way = s.way
           /\ Reset(s).bufsize = s.bufsize /\ Reset(s).from = s.from
           /\ Reset(s).synced = s.synced
<1>1. <<>> \in Seq(Bytes) /\ <<>> \in Seq(Nat)
  BY EmptySeq
<1>2. Reset(s) = [s EXCEPT !.put = <<>>, !.get = <<>>, !.over = FALSE]
  BY DEF Reset
<1>3. Reset(s) \in Streambuf
  BY <1>1, <1>2 DEF Streambuf
<1>4. /\ Reset(s).put = <<>> /\ Reset(s).get = <<>> /\ Reset(s).over = FALSE
      /\ Reset(s).exists = s.exists /\ Reset(s).fcgx = s.fcgx /\ Reset(s).way = s.way
      /\ Reset(s).bufsize = s.bufsize /\ Reset(s).from = s.from
      /\ Reset(s).synced = s.synced
  BY <1>2 DEF Streambuf
<1> QED BY <1>3, <1>4

-----------------------------------------------------------------------------
(* iostreams: steps.                                                       *)

\* A program starts without a streambuf.
LEMMA BufInitIInv == RequestInit /\ BufInit => BufIInv
<1> SUFFICES ASSUME RequestInit, BufInit PROVE BufIInv
  OBVIOUS
<1>1. RequestIInv
  BY RequestInitIInv
<1>2. /\ sb = NoBuf /\ in = NewInput
      /\ wrote = 0 /\ taken = <<>> /\ got = <<>> /\ failed = FALSE
  BY DEF BufInit
<1>3. /\ sb.exists = FALSE /\ sb.fcgx = 0 /\ sb.way = "out" /\ sb.bufsize = 0 /\ sb.put = <<>>
      /\ sb.get = <<>> /\ sb.over = FALSE /\ in.pos = 0 /\ in.type = "stdin"
  BY <1>2 DEF NoBuf, NewInput, NoStream
<1>4. BufTypes
  <2>1. <<>> \in Seq(Bytes) /\ <<>> \in Seq(Nat)
    BY EmptySeq
  <2>2. sb \in Streambuf /\ in \in Input
    BY <1>2, <2>1 DEF NoBuf, NewInput, NoStream, Streambuf, Input
  <2> QED BY <1>2, <2>1, <2>2 DEF BufTypes
<1>5. AreasFit
  BY <1>3, EmptySeq DEF AreasFit
<1>6. SyncedIsSent /\ AttachedBefore
  BY <1>3 DEF SyncedIsSent, AttachedBefore, RequestInit
<1>7. ReadInRange
  BY <1>3, SizesAssumption DEF ReadInRange, End
<1>8. OutputSurvives
  <2>1. Written(sb.fcgx, 0, wrote) = <<>>
    <3>1. sb.fcgx \in Nat /\ wrote \in Nat /\ 0 \in Nat /\ 0 = wrote
      BY <1>2, <1>3
    <3> QED BY <3>1, NothingWritten
  <2>2. <<>> \o <<>> = <<>>
    BY EmptySeq, ConcatEmptySeq
  <2> QED BY <1>2, <1>3, <2>1, <2>2 DEF OutputSurvives
<1>9. InputSurvives
  BY <1>3 DEF InputSurvives
<1> QED BY <1>1, <1>4, <1>5, <1>6, <1>7, <1>8, <1>9 DEF BufIInv

\* A streambuf that is given the stream in hand starts with empty areas.
LEMMA ServePreserves ==
    ASSUME BufIInv, NEW s \in Streambuf, Serve(s),
           s.exists, s.fcgx = request.streams, s.put = <<>>, s.get = <<>>, ~s.over
    PROVE  BufIInv'
<1>1. /\ sb' = [s EXCEPT !.from = in.pos, !.synced = TRUE]
      /\ wrote' = 0 /\ taken' = <<>> /\ got' = <<>> /\ failed' = FALSE /\ in' = in
      /\ UNCHANGED requestVars
  BY DEF Serve
<1>2. RequestIInv' /\ request' = request /\ count' = count
  BY <1>1, OthersPreserve DEF BufIInv, requestVars
<1>3. in.pos \in Nat /\ in \in Input /\ in.pos <= End /\ End' = End
  BY <1>1 DEF BufIInv, BufTypes, ReadInRange, Input, End
<1>4. /\ sb' \in Streambuf /\ sb'.fcgx = s.fcgx /\ sb'.put = <<>> /\ sb'.get = <<>>
      /\ ~sb'.over /\ sb'.from = in.pos /\ sb'.bufsize = s.bufsize /\ s.bufsize \in Nat
      /\ s.fcgx \in Nat /\ sb'.exists
  <2> DEFINE t == [s EXCEPT !.from = in.pos, !.synced = TRUE]
  <2>1. t \in Streambuf
    BY <1>3 DEF Streambuf
  <2>2. /\ t.fcgx = s.fcgx /\ t.put = s.put /\ t.get = s.get /\ t.over = s.over
        /\ t.from = in.pos /\ t.bufsize = s.bufsize /\ t.exists = s.exists
    BY DEF Streambuf
  <2>3. sb' = t
    BY <1>1
  <2>4. s.bufsize \in Nat /\ s.fcgx \in Nat
    BY SizesAssumption DEF Streambuf
  <2> HIDE DEF t
  <2> QED BY <2>1, <2>2, <2>3, <2>4
<1>5. BufTypes'
  BY <1>1, <1>3, <1>4, EmptySeq DEF BufTypes
<1>6. AreasFit'
  BY <1>4, EmptySeq DEF AreasFit
<1>7. SyncedIsSent' /\ AttachedBefore'
  <2>1. request.streams <= count
    BY DEF BufIInv, RequestIInv, RequestTypes, StreamsOfLast, NoStream
  <2> QED BY <1>2, <1>4, <2>1 DEF SyncedIsSent, AttachedBefore
<1>8. ReadInRange'
  BY <1>1, <1>3, <1>4 DEF ReadInRange
<1>9. OutputSurvives'
  <2>1. sb'.fcgx \in Nat /\ wrote' \in Nat /\ 0 \in Nat /\ 0 = wrote'
    BY <1>1, <1>4
  <2>2. Written(sb'.fcgx, 0, wrote') = <<>>
    BY <2>1, NothingWritten
  <2>3. <<>> \o <<>> = <<>>
    BY EmptySeq, ConcatEmptySeq
  <2> QED BY <1>1, <1>4, <2>2, <2>3 DEF OutputSurvives
<1>10. InputSurvives'
  <2>1. Upto(in.pos, in.pos) = <<>>
    BY <1>3, UptoProps
  <2>2. <<>> \o <<>> = <<>>
    BY EmptySeq, ConcatEmptySeq
  <2> QED BY <1>1, <1>4, <2>1, <2>2 DEF InputSurvives
<1> QED BY <1>2, <1>5, <1>6, <1>7, <1>8, <1>9, <1>10 DEF BufIInv

\* Construction.
LEMMA ConstructPreserves ==
    ASSUME BufIInv, Construct
    PROVE  BufIInv'
<1>1. PICK way \in {"in", "out"}, size \in {0, BufSize} :
        Serve([NoBuf EXCEPT !.exists = TRUE, !.way = way, !.bufsize = size,
                            !.fcgx = request.streams])
  BY DEF Construct
<1> DEFINE s == [NoBuf EXCEPT !.exists = TRUE, !.way = way, !.bufsize = size,
                              !.fcgx = request.streams]
<1>2. request.streams \in Nat
  BY DEF BufIInv, RequestIInv, RequestTypes
<1>3. /\ s \in Streambuf /\ s.exists /\ s.fcgx = request.streams /\ s.put = <<>> /\ s.get = <<>>
      /\ ~s.over
  BY <1>2, EmptySeq DEF NoBuf, NoStream, Streambuf
<1> HIDE DEF s
<1>4. Serve(s)
  BY <1>1 DEF s
<1> QED BY <1>3, <1>4, ServePreserves

\* attach() of a streambuf with a buffer resets it; one without has empty areas.
LEMMA AttachPreserves ==
    ASSUME BufIInv, Attach
    PROVE  BufIInv'
<1>1. Serve(AttachOf(sb)) /\ sb.exists
  BY DEF Attach
<1>2. /\ sb \in Streambuf /\ Len(sb.put) <= sb.bufsize /\ sb.put \in Seq(Bytes)
      /\ sb.bufsize = 0 => sb.get = <<>> /\ ~sb.over
      /\ request.streams \in Nat
  BY DEF BufIInv, BufTypes, AreasFit, RequestIInv, RequestTypes, Streambuf
<1>3. /\ AttachOf(sb) \in Streambuf /\ AttachOf(sb).exists
      /\ AttachOf(sb).fcgx = request.streams /\ AttachOf(sb).put = <<>>
      /\ AttachOf(sb).get = <<>> /\ ~AttachOf(sb).over
  <2>1. CASE sb.bufsize = 0
    <3>1. sb.put = <<>>
      BY <1>2, <2>1, EmptySeq
    <3>2. AttachOf(sb) = [sb EXCEPT !.fcgx = request.streams]
      BY <2>1 DEF AttachOf, AttachedTo
    <3> QED BY <1>1, <1>2, <2>1, <3>1, <3>2 DEF Streambuf
  <2>2. CASE sb.bufsize # 0
    <3> DEFINE a == AttachedTo(sb)
    <3>1. a \in Streambuf /\ a.exists /\ a.fcgx = request.streams
      BY <1>1, <1>2 DEF AttachedTo, Streambuf
    <3>2. AttachOf(sb) = Reset(a)
      BY <2>2 DEF AttachOf
    <3> HIDE DEF a
    <3> QED BY <3>1, <3>2, ResetProps
  <2> QED BY <2>1, <2>2
<1> QED BY <1>1, <1>3, ServePreserves

\* setbuf() gives a buffer to a streambuf that has none, and so holds nothing.
LEMMA SetbufPreserves ==
    ASSUME BufIInv, Setbuf
    PROVE  BufIInv'
<1>1. /\ UNCHANGED <<in, wrote, taken, failed, got>> /\ UNCHANGED requestVars
      /\ sb' = IF sb.bufsize > 0 THEN sb ELSE Reset([sb EXCEPT !.bufsize = BufSize])
  BY DEF Setbuf, outVars
<1>2. RequestIInv' /\ request' = request /\ count' = count
  BY <1>1, OthersPreserve DEF BufIInv, requestVars
<1>3. /\ sb \in Streambuf /\ BufSize \in Nat /\ sb.bufsize \in {0, BufSize}
      /\ sb.put \in Seq(Bytes) /\ Len(sb.put) <= sb.bufsize
      /\ sb.bufsize = 0 => sb.get = <<>> /\ ~sb.over
  BY SizesAssumption DEF BufIInv, BufTypes, AreasFit, Streambuf
<1>4. /\ sb' \in Streambuf /\ sb'.put = sb.put /\ sb'.get = sb.get /\ (sb'.over <=> sb.over)
      /\ sb'.exists = sb.exists /\ sb'.fcgx = sb.fcgx /\ sb'.way = sb.way
      /\ sb'.from = sb.from /\ sb'.synced = sb.synced
      /\ sb'.bufsize = BufSize
  <2>1. CASE sb.bufsize > 0
    BY <1>1, <1>3, <2>1
  <2>2. CASE ~(sb.bufsize > 0)
    <3>1. sb.put = <<>> /\ sb.get = <<>> /\ ~sb.over
      <4>1. sb.bufsize = 0
        BY <1>3, <2>2
      <4>2. Len(sb.put) = 0
        BY <1>3, <4>1, LenProperties
      <4> QED BY <1>3, <4>1, <4>2, EmptySeq
    <3> DEFINE a == [sb EXCEPT !.bufsize = BufSize]
    <3>2. /\ a \in Streambuf /\ a.exists = sb.exists /\ a.fcgx = sb.fcgx /\ a.way = sb.way
          /\ a.from = sb.from /\ a.synced = sb.synced /\ a.bufsize = BufSize
      BY <1>3 DEF Streambuf
    <3>3. sb' = Reset(a)
      BY <1>1, <2>2
    <3> HIDE DEF a
    <3> QED BY <3>1, <3>2, <3>3, ResetProps
  <2> QED BY <2>1, <2>2
<1>5. BufTypes'
  BY <1>1, <1>4 DEF BufIInv, BufTypes
<1>6. AreasFit'
  <2>1. Len(sb.put) <= BufSize /\ BufSize # 0
    BY <1>3, SizesAssumption
  <2> QED BY <1>4, <2>1 DEF AreasFit
<1>7. SyncedIsSent' /\ AttachedBefore'
  BY <1>1, <1>2, <1>4 DEF BufIInv, SyncedIsSent, AttachedBefore
<1>8. ReadInRange'
  BY <1>1, <1>2, <1>4 DEF BufIInv, ReadInRange, End, Live
<1>9. OutputSurvives'
  BY <1>1, <1>2, <1>4 DEF BufIInv, OutputSurvives, Live
<1>10. InputSurvives'
  BY <1>1, <1>2, <1>4 DEF BufIInv, InputSurvives, Live
<1> QED BY <1>2, <1>5, <1>6, <1>7, <1>8, <1>9, <1>10 DEF BufIInv

-----------------------------------------------------------------------------
(* iostreams: output.                                                      *)

\* What a call for output has to keep.
LEMMA OutputPreserves ==
    ASSUME BufIInv, UNCHANGED <<request, pc, count, served, closed, broken, inError, in, got>>,
           sb' \in Streambuf,
           UNCHANGED <<sb.fcgx, sb.way, sb.bufsize, sb.get, sb.over, sb.from>>,
           sb'.exists => sb.exists,
           Len(sb'.put) <= sb.bufsize,
           wrote' \in Nat, taken' \in Seq(Bytes), failed' \in BOOLEAN,
           sb.way = "out" /\ ~failed' =>
                /\ taken' \o sb'.put = Written(sb.fcgx, 0, wrote')
                /\ sb'.put # <<>> => sb'.exists /\ Live(sb.fcgx) /\ ~sb'.synced
    PROVE  BufIInv'
<1>1. RequestIInv' /\ request' = request /\ count' = count
  BY OthersPreserve DEF BufIInv, requestVars
<1>2. BufTypes'
  BY DEF BufIInv, BufTypes
<1>3. AreasFit'
  BY DEF BufIInv, AreasFit
<1>4. SyncedIsSent' /\ AttachedBefore'
  BY <1>1 DEF BufIInv, SyncedIsSent, AttachedBefore
<1>5. ReadInRange'
  BY <1>1 DEF BufIInv, ReadInRange, End, Live
<1>6. OutputSurvives'
  BY <1>1 DEF OutputSurvives, Live
<1>7. InputSurvives'
  BY <1>1 DEF BufIInv, InputSurvives, Live
<1> QED BY <1>1, <1>2, <1>3, <1>4, <1>5, <1>6, <1>7 DEF BufIInv

\* What the stream has taken grows until a call fails.
LEMMA HandsProps ==
    ASSUME BufIInv, NEW took \in Seq(Bytes), NEW ok \in BOOLEAN, Hands(took, ok)
    PROVE  /\ failed' \in BOOLEAN /\ taken' \in Seq(Bytes)
           /\ ~failed' => ~failed /\ ok /\ taken' = taken \o took
<1>1. failed \in BOOLEAN /\ taken \in Seq(Bytes)
  BY DEF BufIInv, BufTypes
<1>2. (failed' <=> failed \/ ~ok) /\ failed' \in BOOLEAN
  BY <1>1 DEF Hands
<1>3. taken' = IF failed' THEN <<>> ELSE taken \o took
  BY DEF Hands
<1>4. taken \o took \in Seq(Bytes) /\ <<>> \in Seq(Bytes)
  BY <1>1, ConcatProperties, EmptySeq
<1>5. CASE failed'
  BY <1>2, <1>3, <1>4, <1>5
<1>6. CASE ~failed'
  BY <1>2, <1>3, <1>4, <1>6
<1> QED BY <1>5, <1>6

\* What is handed on after what was handed on follows it.
LEMMA BytesAssociate ==
    \A s, t, u \in Seq(Bytes) : (s \o t) \o u = s \o (t \o u)
<1> QED BY ConcatAssociative

\* Bytes that are handed on, from the put area and behind it, follow those before.
LEMMA SentOn ==
    ASSUME BufIInv, sb.way = "out", ~failed, NEW m \in Nat, wrote <= m,
           NEW took \in Seq(Bytes), NEW put \in Seq(Bytes),
           took \o put = sb.put \o Written(sb.fcgx, wrote, m)
    PROVE  (taken \o took) \o put = Written(sb.fcgx, 0, m)
<1> DEFINE s == Written(sb.fcgx, wrote, m)
           before == Written(sb.fcgx, 0, wrote)
           area == sb.put
<1>1. /\ sb.fcgx \in Nat /\ wrote \in Nat /\ 0 \in Nat /\ taken \in Seq(Bytes)
      /\ area \in Seq(Bytes)
  BY DEF BufIInv, BufTypes, Streambuf
<1>2. s \in Seq(Bytes)
  BY <1>1, WrittenProps
<1>3. taken \o area = before
  BY DEF BufIInv, OutputSurvives
<1>4. before \o s = Written(sb.fcgx, 0, m)
  <2>1. 0 <= wrote
    BY <1>1
  <2> QED BY <1>1, <2>1, WrittenConcat, ZenonT(40)
<1>5. took \o put = area \o s
  OBVIOUS
<1> HIDE DEF s, before, area
<1>6. (taken \o took) \o put = taken \o (took \o put)
  <2>1. taken \in Seq(Bytes)
    BY <1>1
  <2> QED BY <2>1, BytesAssociate
<1>7. (taken \o area) \o s = taken \o (area \o s)
  <2>1. taken \in Seq(Bytes) /\ area \in Seq(Bytes)
    BY <1>1
  <2> QED BY <1>2, <2>1, BytesAssociate
<1> QED BY <1>3, <1>4, <1>5, <1>6, <1>7

\* sputn() keeps what fits, in order, and hands on what does not.
LEMMA SputnProps ==
    ASSUME BufIInv, sb.bufsize > 0, NEW s \in Seq(Bytes), Len(s) <= BufSize + 1,
           NEW o \in Sputn(s)
    PROVE  /\ o.ok \in BOOLEAN /\ o.took \in Seq(Bytes) /\ o.put \in Seq(Bytes)
           /\ Len(o.put) <= sb.bufsize /\ o.told \in Nat
           /\ o.ok => o.told = Len(s) /\ o.took \o o.put = sb.put \o s
<1> DEFINE area == sb.put
           room == sb.bufsize - Len(area)
           fits == SubSeq(s, 1, Least(Len(s), room))
           c == <<s[room + 1]>>
           rest == SubSeq(s, room + 2, Len(s))
<1>1. /\ area \in Seq(Bytes) /\ Len(area) \in Nat /\ Len(area) <= sb.bufsize
      /\ sb.bufsize = BufSize /\ BufSize \in Nat /\ Len(s) \in Nat
  <2>1. sb.put \in Seq(Bytes) /\ Len(sb.put) <= sb.bufsize /\ sb.bufsize \in {0, BufSize}
    BY DEF BufIInv, BufTypes, AreasFit, Streambuf
  <2> QED BY <2>1, SizesAssumption, LenProperties
<1>2. room \in Nat /\ room + Len(area) = sb.bufsize
  BY <1>1
<1>3. CASE Len(s) <= room
  <2>1. o = [put |-> area \o s, took |-> <<>>, ok |-> TRUE, told |-> Len(s)]
    BY <1>3 DEF Sputn
  <2>2. area \o s \in Seq(Bytes) /\ Len(area \o s) = Len(area) + Len(s)
    BY <1>1, ConcatProperties
  <2>3. <<>> \in Seq(Bytes) /\ <<>> \o (area \o s) = area \o s
    BY <2>2, EmptySeq, ConcatEmptySeq
  <2>4. Len(area \o s) <= sb.bufsize
    <3> HIDE DEF area
    <3> QED BY <1>1, <1>2, <1>3, <2>2
  <2> HIDE DEF area
  <2> QED BY <1>1, <2>1, <2>2, <2>3, <2>4 DEF area
<1>4. CASE ~(Len(s) <= room)
  <2>1. PICK q \in Overflow(area \o fits, c) :
          o = [put |-> q.put \o (IF q.ok THEN rest ELSE <<>>), took |-> q.took, ok |-> q.ok,
               told |-> IF q.ok THEN Len(s) ELSE Len(fits)]
    BY <1>4 DEF Sputn
  <2>2. Least(Len(s), room) = room /\ room < Len(s)
    <3>1. room < Len(s)
      BY <1>1, <1>2, <1>4
    <3> HIDE DEF room
    <3> QED BY <1>1, <1>2, <3>1 DEF Least
  <2>3. fits = SubSeq(s, 1, room)
    BY <2>2
  <2> HIDE DEF fits
  <2>4. /\ fits \in Seq(Bytes) /\ Len(fits) = room
        /\ rest \in Seq(Bytes) /\ Len(rest) = Len(s) - room - 1
        /\ c \in Seq(Bytes) /\ (fits \o c) \o rest = s
    <3> HIDE DEF room
    <3> QED BY <1>2, <2>2, <2>3, SplitProps
  <2> HIDE DEF area, c, rest, room
  <2>5. area \o fits \in Seq(Bytes) /\ Len(area \o fits) = Len(area) + Len(fits)
    BY <1>1, <2>4, ConcatProperties
  <2>6. /\ q.ok \in BOOLEAN /\ q.took \in Seq(Bytes) /\ q.put \in {area \o fits, <<>>}
        /\ q.ok => q.put = <<>> /\ q.took = (area \o fits) \o c
    BY <2>1, <2>4, <2>5, OverflowProps
  <2>7. <<>> \in Seq(Bytes) /\ Len(<<>>) = 0
    BY EmptySeq
  <2>8. CASE q.ok
    <3>1. o = [put |-> <<>> \o rest, took |-> (area \o fits) \o c, ok |-> q.ok, told |-> Len(s)]
      BY <2>1, <2>6, <2>8
    <3>2. <<>> \o rest = rest
      BY <2>4, ConcatEmptySeq
    <3>3. Len(rest) <= sb.bufsize
      BY <1>1, <1>2, <2>4
    <3>4. (area \o fits) \o c \in Seq(Bytes)
      BY <2>4, <2>5, ConcatProperties
    <3>5. ((area \o fits) \o c) \o rest = area \o s
      <4>1. (area \o fits) \o c = area \o (fits \o c) /\ fits \o c \in Seq(Bytes)
        <5>1. area \in Seq(Bytes) /\ fits \in Seq(Bytes) /\ c \in Seq(Bytes)
          BY <1>1, <2>4
        <5> QED BY <5>1, BytesAssociate, ConcatProperties
      <4>2. (area \o (fits \o c)) \o rest = area \o ((fits \o c) \o rest)
        <5>1. area \in Seq(Bytes) /\ rest \in Seq(Bytes)
          BY <1>1, <2>4
        <5> QED BY <4>1, <5>1, BytesAssociate
      <4> QED BY <2>4, <4>1, <4>2
    <3> QED BY <1>1, <2>4, <2>6, <2>8, <3>1, <3>2, <3>3, <3>4, <3>5 DEF area
  <2>9. CASE ~q.ok
    <3>1. o = [put |-> q.put \o <<>>, took |-> q.took, ok |-> q.ok, told |-> Len(fits)]
      BY <2>1, <2>9
    <3>2. q.put \in Seq(Bytes) /\ Len(q.put) <= sb.bufsize
      <4>1. CASE q.put = <<>>
        BY <1>1, <2>7, <4>1
      <4>2. CASE q.put = area \o fits
        BY <1>2, <2>4, <2>5, <4>2
      <4> QED BY <2>6, <4>1, <4>2
    <3>3. q.put \o <<>> = q.put
      BY <3>2, ConcatEmptySeq
    <3> QED BY <1>2, <2>4, <2>6, <2>9, <3>1, <3>2, <3>3
  <2> QED BY <2>6, <2>8, <2>9
<1> QED BY <1>3, <1>4

\* Writing, into a buffer or without one.
LEMMA WritePreserves ==
    ASSUME BufIInv, Write
    PROVE  BufIInv'
<1>1. PICK n \in 1 .. BufSize + 1 :
        LET s == Written(sb.fcgx, wrote, wrote + n) IN
        \E o \in IF sb.bufsize > 0 THEN Sputn(s) ELSE Unbuffered(s) :
            /\ sb' = [sb EXCEPT !.put = o.put, !.synced = FALSE]
            /\ wrote' = wrote + o.told
            /\ Hands(o.took, o.ok)
  BY DEF Write
<1>2. /\ sb.exists /\ sb.way = "out" /\ Live(sb.fcgx)
      /\ UNCHANGED <<request, pc, count, served, closed, broken, inError, in, got>>
  BY DEF Write, Serving, requestVars
<1> DEFINE s == Written(sb.fcgx, wrote, wrote + n)
<1>3. /\ sb \in Streambuf /\ sb.fcgx \in Nat /\ wrote \in Nat /\ wrote + n \in Nat
      /\ n \in Nat /\ wrote <= wrote + n /\ sb.put \in Seq(Bytes)
      /\ Len(sb.put) <= sb.bufsize /\ sb.bufsize \in {0, BufSize} /\ BufSize \in Nat
  BY SizesAssumption DEF BufIInv, BufTypes, AreasFit, Streambuf
<1>4. s \in Seq(Bytes) /\ Len(s) = n
  <2>1. (wrote + n) - wrote = n
    BY <1>3
  <2>2. Len(s) = (wrote + n) - wrote /\ s \in Seq(Bytes)
    BY <1>3, WrittenProps
  <2> QED BY <2>1, <2>2
<1>5. PICK o \in IF sb.bufsize > 0 THEN Sputn(s) ELSE Unbuffered(s) :
            /\ sb' = [sb EXCEPT !.put = o.put, !.synced = FALSE]
            /\ wrote' = wrote + o.told
            /\ Hands(o.took, o.ok)
  BY <1>1
<1>6. /\ o.ok \in BOOLEAN /\ o.took \in Seq(Bytes) /\ o.put \in Seq(Bytes)
      /\ Len(o.put) <= sb.bufsize /\ o.told \in Nat
      /\ o.ok => o.told = n /\ o.took \o o.put = sb.put \o s
  <2>1. CASE sb.bufsize > 0
    <3>1. o \in Sputn(s)
      BY <1>5, <2>1
    <3>2. Len(s) <= BufSize + 1
      BY <1>4
    <3> HIDE DEF s
    <3> QED BY <1>4, <2>1, <3>1, <3>2, SputnProps
  <2>2. CASE ~(sb.bufsize > 0)
    <3>1. PICK q \in FCGX_PutStr(s) :
            o = [put |-> <<>>, took |-> q.took, ok |-> q.ok,
                 told |-> IF q.ok THEN Len(s) ELSE 0]
      BY <1>5, <2>2 DEF Unbuffered
    <3> HIDE DEF s
    <3>2. q.ok \in BOOLEAN /\ q.took \in Seq(Bytes) /\ (q.ok => q.took = s)
      BY <1>4, <3>1, PutStrProps
    <3>3. sb.put = <<>> /\ sb.bufsize = 0
      <4>1. sb.bufsize = 0
        BY <1>3, <2>2
      <4>2. Len(sb.put) = 0
        BY <1>3, <4>1, LenProperties
      <4> QED BY <1>3, <4>1, <4>2, EmptySeq
    <3>4. <<>> \in Seq(Bytes) /\ Len(<<>>) = 0 /\ s \o <<>> = s /\ <<>> \o s = s
      BY <1>4, EmptySeq, ConcatEmptySeq
    <3>5. CASE q.ok
      <4>1. o.put = <<>> /\ o.took = s /\ o.ok = q.ok /\ o.told = Len(s)
        BY <3>1, <3>2, <3>5
      <4> QED BY <1>3, <1>4, <3>2, <3>3, <3>4, <4>1
    <3>6. CASE ~q.ok
      <4>1. o.put = <<>> /\ o.took = q.took /\ o.ok = q.ok /\ o.told = 0
        BY <3>1, <3>6
      <4> QED BY <3>2, <3>3, <3>4, <3>6, <4>1
    <3> QED BY <3>2, <3>5, <3>6
  <2> QED BY <2>1, <2>2
<1>7. /\ failed' \in BOOLEAN /\ taken' \in Seq(Bytes)
      /\ ~failed' => ~failed /\ o.ok /\ taken' = taken \o o.took
  BY <1>5, <1>6, HandsProps
<1>8. wrote' \in Nat /\ (o.ok => wrote' = wrote + n)
  <2>1. wrote' = wrote + o.told
    BY <1>5
  <2>2. o.told \in Nat /\ (o.ok => o.told = n)
    BY <1>6
  <2>3. wrote' \in Nat
    BY <1>3, <2>1, <2>2
  <2> QED BY <2>1, <2>2, <2>3
<1>9. /\ sb' \in Streambuf /\ sb'.put = o.put /\ sb'.exists = sb.exists /\ sb'.synced = FALSE
      /\ UNCHANGED <<sb.fcgx, sb.way, sb.bufsize, sb.get, sb.over, sb.from>>
  <2>1. sb' = [sb EXCEPT !.put = o.put, !.synced = FALSE]
    BY <1>5
  <2> QED BY <1>3, <1>6, <2>1 DEF Streambuf
<1>10. ASSUME ~failed' PROVE taken' \o sb'.put = Written(sb.fcgx, 0, wrote')
  <2>1. o.took \o o.put = sb.put \o Written(sb.fcgx, wrote, wrote + n)
    BY <1>6, <1>7, <1>10
  <2>2. (taken \o o.took) \o o.put = Written(sb.fcgx, 0, wrote + n)
    BY <1>2, <1>3, <1>6, <1>7, <1>10, <2>1, SentOn
  <2> QED BY <1>7, <1>8, <1>9, <1>10, <2>2
<1> QED BY <1>2, <1>6, <1>7, <1>8, <1>9, <1>10, OutputPreserves

\* What overflow() leaves of the put area when it is called for no byte.
LEMMA FlushPreserves ==
    ASSUME BufIInv, NEW o \in Overflow(sb.put, <<>>), NEW ok \in BOOLEAN, Hands(o.took, ok),
           ok => o.ok,
           sb' \in Streambuf, sb'.put = o.put, sb'.exists => sb.exists,
           UNCHANGED <<sb.fcgx, sb.way, sb.bufsize, sb.get, sb.over, sb.from>>,
           UNCHANGED <<request, pc, count, served, closed, broken, inError, in, wrote, got>>
    PROVE  BufIInv'
<1>1. /\ sb.put \in Seq(Bytes) /\ <<>> \in Seq(Bytes) /\ Len(sb.put) <= sb.bufsize
      /\ sb.bufsize \in Nat /\ Len(<<>>) = 0 /\ wrote \in Nat /\ sb.fcgx \in Nat
  BY SizesAssumption, EmptySeq DEF BufIInv, BufTypes, AreasFit, Streambuf
<1>2. /\ o.ok \in BOOLEAN /\ o.took \in Seq(Bytes) /\ o.put \in {sb.put, <<>>}
      /\ o.ok => o.put = <<>> /\ o.took = sb.put \o <<>>
  BY <1>1, OverflowProps
<1>3. /\ failed' \in BOOLEAN /\ taken' \in Seq(Bytes)
      /\ ~failed' => ~failed /\ ok /\ taken' = taken \o o.took
  BY <1>2, HandsProps
<1>4. Len(sb'.put) <= sb.bufsize
  <2>1. CASE o.put = <<>>
    BY <1>1, <2>1
  <2>2. CASE o.put = sb.put
    BY <1>1, <2>2
  <2> QED BY <1>2, <2>1, <2>2
<1>5. wrote' \in Nat
  BY <1>1
<1>6. ASSUME sb.way = "out", ~failed'
      PROVE  taken' \o sb'.put = Written(sb.fcgx, 0, wrote') /\ sb'.put = <<>>
  <2>1. o.put = <<>> /\ o.took = sb.put \o <<>> /\ ~failed /\ taken' = taken \o o.took
    BY <1>2, <1>3, <1>6
  <2>2. Written(sb.fcgx, wrote, wrote) = <<>>
    BY <1>1, NothingWritten
  <2>3. o.took \o o.put = sb.put \o Written(sb.fcgx, wrote, wrote)
    <3>1. o.took \in Seq(Bytes) /\ o.took \o <<>> = o.took
      BY <1>2, ConcatEmptySeq
    <3> QED BY <2>1, <2>2, <3>1
  <2>4. wrote <= wrote /\ o.put \in Seq(Bytes)
    BY <1>1, <2>1
  <2>5. (taken \o o.took) \o o.put = Written(sb.fcgx, 0, wrote)
    BY <1>1, <1>2, <1>6, <2>1, <2>3, <2>4, SentOn
  <2> QED BY <2>1, <2>5
<1> QED BY <1>3, <1>4, <1>5, <1>6, OutputPreserves

\* sync().
LEMMA SyncPreserves ==
    ASSUME BufIInv, Sync
    PROVE  BufIInv'
<1>1. PICK o \in Overflow(sb.put, <<>>) :
        /\ sb' = [sb EXCEPT !.put = o.put, !.synced = TRUE]
        /\ \/ Hands(o.took, o.ok)
           \/ broken /\ ~failed /\ Hands(o.took, FALSE)
  BY DEF Sync
<1>2. UNCHANGED <<request, pc, count, served, closed, broken, inError, in, wrote, got>>
  BY DEF Sync, requestVars
<1>3. sb \in Streambuf /\ sb.put \in Seq(Bytes) /\ <<>> \in Seq(Bytes)
  BY EmptySeq DEF BufIInv, BufTypes, Streambuf
<1>4. o.ok \in BOOLEAN /\ o.put \in Seq(Bytes)
  BY <1>3, OverflowProps
<1>5. /\ sb' \in Streambuf /\ sb'.put = o.put /\ sb'.exists = sb.exists
      /\ UNCHANGED <<sb.fcgx, sb.way, sb.bufsize, sb.get, sb.over, sb.from>>
  <2>1. sb' = [sb EXCEPT !.put = o.put, !.synced = TRUE]
    BY <1>1
  <2> QED BY <1>3, <1>4, <2>1 DEF Streambuf
<1>6. CASE Hands(o.took, o.ok)
  BY <1>2, <1>4, <1>5, <1>6, FlushPreserves
<1>7. CASE Hands(o.took, FALSE)
  <2> DEFINE ok == FALSE
  <2>1. ok \in BOOLEAN /\ Hands(o.took, ok) /\ (ok => o.ok)
    BY <1>7
  <2> HIDE DEF ok
  <2> QED BY <1>2, <1>5, <2>1, FlushPreserves
<1> QED BY <1>1, <1>6, <1>7

\* The destructor: flushes, or has nothing to flush any more.
LEMMA DestroyPreserves ==
    ASSUME BufIInv, Destroy
    PROVE  BufIInv'
<1>1. PICK o \in IF Live(sb.fcgx) THEN Overflow(sb.put, <<>>)
                 ELSE {[put |-> sb.put, took |-> <<>>, ok |-> TRUE]} :
        /\ sb' = [sb EXCEPT !.exists = FALSE, !.put = o.put, !.synced = TRUE]
        /\ Hands(o.took, o.ok)
  BY DEF Destroy
<1>2. UNCHANGED <<request, pc, count, served, closed, broken, inError, in, wrote, got>>
  BY DEF Destroy, requestVars
<1>3. /\ sb \in Streambuf /\ sb.put \in Seq(Bytes) /\ <<>> \in Seq(Bytes)
      /\ Len(sb.put) <= sb.bufsize /\ wrote \in Nat /\ taken \in Seq(Bytes)
  BY EmptySeq DEF BufIInv, BufTypes, AreasFit, Streambuf
<1>4. ASSUME o.put \in Seq(Bytes)
      PROVE  /\ sb' \in Streambuf /\ sb'.put = o.put /\ ~sb'.exists
             /\ UNCHANGED <<sb.fcgx, sb.way, sb.bufsize, sb.get, sb.over, sb.from>>
  <2>1. sb' = [sb EXCEPT !.exists = FALSE, !.put = o.put, !.synced = TRUE]
    BY <1>1
  <2> QED BY <1>3, <1>4, <2>1 DEF Streambuf
<1>5. CASE Live(sb.fcgx)
  <2>1. o \in Overflow(sb.put, <<>>)
    BY <1>1, <1>5
  <2>2. o.ok \in BOOLEAN /\ o.put \in Seq(Bytes)
    BY <1>3, <2>1, OverflowProps
  <2> QED BY <1>1, <1>2, <1>4, <2>1, <2>2, FlushPreserves
<1>6. CASE ~Live(sb.fcgx)
  <2>1. o = [put |-> sb.put, took |-> <<>>, ok |-> TRUE]
    BY <1>1, <1>6
  <2>2. o.put = sb.put /\ o.took = <<>> /\ o.ok = TRUE
    BY <2>1
  <2>3. /\ sb' \in Streambuf /\ sb'.put = sb.put /\ ~sb'.exists
        /\ UNCHANGED <<sb.fcgx, sb.way, sb.bufsize, sb.get, sb.over, sb.from>>
    BY <1>3, <1>4, <2>2
  <2>4. /\ failed' \in BOOLEAN /\ taken' \in Seq(Bytes)
        /\ ~failed' => ~failed /\ taken' = taken \o <<>>
    <3>1. o.took \in Seq(Bytes) /\ o.ok \in BOOLEAN
      BY <1>3, <2>2
    <3> QED BY <1>1, <2>2, <3>1, HandsProps
  <2>5. taken \o <<>> = taken
    BY <1>3, ConcatEmptySeq
  <2>6. ASSUME sb.way = "out", ~failed'
        PROVE  taken' \o sb'.put = Written(sb.fcgx, 0, wrote') /\ sb'.put = <<>>
    <3>1. taken \o sb.put = Written(sb.fcgx, 0, wrote) /\ sb.put = <<>>
      BY <1>6, <2>4, <2>6 DEF BufIInv, OutputSurvives
    <3> QED BY <1>2, <2>3, <2>4, <2>5, <2>6, <3>1
  <2> QED BY <1>2, <1>3, <2>3, <2>4, <2>6, OutputPreserves
<1> QED BY <1>5, <1>6

-----------------------------------------------------------------------------
(* iostreams: input.                                                       *)

\* What a read has to keep.
LEMMA InputPreserves ==
    ASSUME BufIInv, UNCHANGED <<request, pc, count, served, closed, broken, inError>>,
           UNCHANGED <<wrote, taken, failed>>,
           sb' \in Streambuf, in' \in Input, got' \in Seq(Nat),
           UNCHANGED <<sb.exists, sb.fcgx, sb.way, sb.bufsize, sb.put, sb.from, sb.synced>>,
           sb.bufsize = 0 => sb'.get = <<>> /\ ~sb'.over,
           in.pos <= in'.pos, in'.pos <= End, in'.type = in.type,
           sb.exists /\ sb.way = "in" /\ Live(sb.fcgx) /\ ~sb'.over =>
                got' \o sb'.get = Upto(sb.from, in'.pos)
    PROVE  BufIInv'
<1>1. RequestIInv' /\ request' = request /\ count' = count
  BY OthersPreserve DEF BufIInv, requestVars
<1>2. BufTypes'
  BY DEF BufIInv, BufTypes
<1>3. AreasFit'
  BY DEF BufIInv, AreasFit
<1>4. SyncedIsSent' /\ AttachedBefore'
  BY <1>1 DEF BufIInv, SyncedIsSent, AttachedBefore
<1>5. ReadInRange'
  <2>1. End' = End
    BY DEF End
  <2>2. sb.from \in Nat /\ in.pos \in Nat /\ in'.pos \in Nat
    BY DEF BufIInv, BufTypes, Streambuf, Input
  <2>3. sb.exists /\ Live(sb.fcgx) => sb.from <= in.pos
    BY DEF BufIInv, ReadInRange
  <2>4. sb.exists /\ Live(sb.fcgx) => sb.from <= in'.pos
    BY <2>2, <2>3
  <2> QED BY <1>1, <2>1, <2>4 DEF ReadInRange, Live
<1>6. OutputSurvives'
  BY <1>1 DEF BufIInv, OutputSurvives, Live
<1>7. InputSurvives'
  BY <1>1 DEF InputSurvives, Live
<1> QED BY <1>1, <1>2, <1>3, <1>4, <1>5, <1>6, <1>7 DEF BufIInv

\* What was read, and what waits, go on with what is read now.
LEMMA ReadOn ==
    ASSUME BufIInv, Reading, NEW q \in Nat, in.pos <= q
    PROVE  /\ Upto(in.pos, q) \in Seq(Nat) /\ sb.get \o Upto(in.pos, q) \in Seq(Nat)
           /\ got \o (sb.get \o Upto(in.pos, q)) = Upto(sb.from, q)
<1>1. /\ sb.exists /\ sb.way = "in" /\ Live(sb.fcgx) /\ ~sb.over
  BY DEF Reading, Serving
<1>2. /\ sb.from \in Nat /\ in.pos \in Nat /\ sb.get \in Seq(Nat) /\ got \in Seq(Nat)
  BY DEF BufIInv, BufTypes, Streambuf, Input
<1>3. sb.from <= in.pos
  BY <1>1 DEF BufIInv, ReadInRange
<1>4. got \o sb.get = Upto(sb.from, in.pos)
  BY <1>1 DEF BufIInv, InputSurvives
<1> DEFINE t == Upto(in.pos, q)
           area == sb.get
<1>5. t \in Seq(Nat)
  BY <1>2, UptoProps
<1>6. Upto(sb.from, in.pos) \o t = Upto(sb.from, q)
  BY <1>2, <1>3, UptoConcat
<1>7. area \in Seq(Nat) /\ got \o area = Upto(sb.from, in.pos)
  BY <1>2, <1>4
<1> HIDE DEF t, area
<1>8. area \o t \in Seq(Nat)
  BY <1>5, <1>7, ConcatProperties
<1>9. (got \o area) \o t = got \o (area \o t)
  <2>1. got \in Seq(Nat) /\ area \in Seq(Nat)
    BY <1>2, <1>7
  <2> QED BY <1>5, <2>1, ConcatAssociative, SMTT(40)
<1>10. got \o (area \o t) = Upto(sb.from, q)
  BY <1>6, <1>7, <1>9
<1> QED BY <1>5, <1>8, <1>10 DEF t, area

\* underflow().
LEMMA UnderflowPreserves ==
    ASSUME BufIInv, Underflow
    PROVE  BufIInv'
<1>1. PICK new \in FCGX_GetStr(IF sb.bufsize > 0 THEN BufSize ELSE 1) :
        IF sb.bufsize > 0
        THEN in' = new /\ sb' = [sb EXCEPT !.get = Upto(in.pos, new.pos)]
        ELSE in' = FCGX_UnGetChar(new) /\ sb' = sb
  BY DEF Underflow
<1>2. /\ Reading /\ sb.get = <<>>
      /\ UNCHANGED <<request, pc, count, served, closed, broken, inError>>
      /\ UNCHANGED <<wrote, taken, failed>> /\ got' = got
  BY DEF Underflow, requestVars, outVars
<1>3. sb \in Streambuf /\ in \in Input /\ got \in Seq(Nat) /\ in.pos \in Nat /\ in.pos <= End
  BY DEF BufIInv, BufTypes, ReadInRange, Input
<1>4. CASE sb.bufsize > 0
  <2>1. in' = new /\ sb' = [sb EXCEPT !.get = Upto(in.pos, new.pos)] /\ new \in FCGX_GetStr(BufSize)
    BY <1>1, <1>4
  <2>2. /\ new \in Input /\ new.type = in.type /\ in.pos <= new.pos /\ new.pos <= End
        /\ new.pos \in Nat
    <3>1. BufSize \in Nat \ {0}
      BY SizesAssumption
    <3> QED BY <2>1, <3>1, GetStrProps DEF Input
  <2>3. /\ Upto(in.pos, new.pos) \in Seq(Nat)
        /\ sb.get \o Upto(in.pos, new.pos) = Upto(in.pos, new.pos)
        /\ got \o (sb.get \o Upto(in.pos, new.pos)) = Upto(sb.from, new.pos)
    <3>1. /\ Upto(in.pos, new.pos) \in Seq(Nat)
          /\ got \o (sb.get \o Upto(in.pos, new.pos)) = Upto(sb.from, new.pos)
      BY <1>2, <2>2, ReadOn
    <3>2. <<>> \o Upto(in.pos, new.pos) = Upto(in.pos, new.pos)
      BY <3>1, ConcatEmptySeq
    <3> QED BY <1>2, <3>1, <3>2
  <2>4. /\ sb' \in Streambuf /\ sb'.get = Upto(in.pos, new.pos)
        /\ UNCHANGED <<sb.exists, sb.fcgx, sb.way, sb.bufsize, sb.put, sb.from, sb.synced>>
    BY <1>3, <2>1, <2>3 DEF Streambuf
  <2>5. got' \o sb'.get = Upto(sb.from, in'.pos)
    BY <1>2, <2>1, <2>3, <2>4
  <2> QED BY <1>2, <1>3, <1>4, <2>1, <2>2, <2>4, <2>5, InputPreserves
<1>5. CASE ~(sb.bufsize > 0)
  <2> DEFINE n == 1
  <2>1. n \in Nat \ {0} /\ new \in FCGX_GetStr(n) /\ in' = FCGX_UnGetChar(new) /\ sb' = sb
    BY <1>1, <1>5
  <2> HIDE DEF n
  <2>2. new \in Input /\ new.type = in.type /\ in.pos <= new.pos /\ new.pos <= in.pos + n
    BY <2>1, GetStrProps
  <2>3. in' \in Input /\ in'.type = in.type /\ in'.pos = in.pos
    <3>1. new.pos \in Nat /\ new.pos <= in.pos + 1
      BY <2>2 DEF Input, n
    <3>2. CASE new.pos > in.pos
      <4>1. new.pos - 1 = in.pos
        BY <1>3, <3>1, <3>2, SMTT(30)
      <4>2. in' = [new EXCEPT !.pos = in.pos]
        BY <2>1, <3>2, <4>1 DEF FCGX_UnGetChar
      <4> QED BY <1>3, <2>2, <4>2 DEF Input
    <3>3. CASE ~(new.pos > in.pos)
      <4>1. new.pos = in.pos
        BY <1>3, <2>2, <3>1, <3>3
      <4>2. in' = new
        BY <2>1, <3>3 DEF FCGX_UnGetChar
      <4> QED BY <2>2, <4>1, <4>2
    <3> QED BY <3>2, <3>3
  <2>4. got \o sb.get = Upto(sb.from, in.pos) /\ ~sb.over
    BY <1>2 DEF Reading, Serving, BufIInv, InputSurvives
  <2>5. in.pos <= in'.pos /\ in'.pos <= End /\ in'.type = in.type
    BY <1>3, <2>3
  <2>6. got' \in Seq(Nat) /\ got' \o sb'.get = Upto(sb.from, in'.pos)
    BY <1>2, <1>3, <2>1, <2>3, <2>4
  <2>7. /\ sb' \in Streambuf /\ sb'.get = <<>> /\ ~sb'.over
        /\ UNCHANGED <<sb.exists, sb.fcgx, sb.way, sb.bufsize, sb.put, sb.from, sb.synced>>
    BY <1>2, <1>3, <2>1, <2>4
  <2> QED BY <1>2, <2>3, <2>5, <2>6, <2>7, InputPreserves
<1> QED BY <1>4, <1>5

\* uflow() takes the first byte of the get area, or runs past its end.
LEMMA BumpsProps ==
    ASSUME NEW area \in Seq(Nat)
    PROVE  /\ Bumps(area).get \in Seq(Nat) /\ Bumps(area).c \in Seq(Nat)
           /\ Bumps(area).over \in BOOLEAN
           /\ ~Bumps(area).over => Bumps(area).c \o Bumps(area).get = area
<1>1. CASE area = <<>>
  <2>1. Bumps(area) = [get |-> <<>>, c |-> <<>>, over |-> TRUE]
    BY <1>1 DEF Bumps
  <2> QED BY <2>1, EmptySeq
<1>2. CASE area # <<>>
  <2>1. Bumps(area) = [get |-> Tail(area), c |-> <<Head(area)>>, over |-> FALSE]
    BY <1>2 DEF Bumps
  <2>2. Tail(area) \in Seq(Nat) /\ Head(area) \in Nat /\ area = <<Head(area)>> \o Tail(area)
    BY <1>2, HeadTailProperties
  <2>3. <<Head(area)>> \in Seq(Nat)
    BY <2>2
  <2>4. /\ Bumps(area).get = Tail(area) /\ Bumps(area).c = <<Head(area)>>
        /\ Bumps(area).over = FALSE
    BY <2>1
  <2> QED BY <2>2, <2>3, <2>4
<1> QED BY <1>1, <1>2

\* A read without a buffer: bytes of the stream go to the program.
LEMMA ReadThrough ==
    ASSUME BufIInv, Reading, sb.bufsize = 0, NEW n \in Nat \ {0}, NEW new \in FCGX_GetStr(n),
           in' = new, sb' = sb, got' = got \o Upto(in.pos, new.pos),
           UNCHANGED <<request, pc, count, served, closed, broken, inError>>,
           UNCHANGED <<wrote, taken, failed>>
    PROVE  BufIInv'
<1>1. sb \in Streambuf /\ got \in Seq(Nat) /\ sb.get = <<>> /\ ~sb.over
  BY DEF BufIInv, BufTypes, AreasFit
<1>2. /\ new \in Input /\ new.type = in.type /\ in.pos <= new.pos /\ new.pos <= End
      /\ new.pos \in Nat
  BY GetStrProps DEF Input
<1> DEFINE t == Upto(in.pos, new.pos)
<1>3. t \in Seq(Nat) /\ got \o (sb.get \o t) = Upto(sb.from, new.pos)
  BY <1>2, ReadOn
<1>4. got' = got \o t
  OBVIOUS
<1> HIDE DEF t
<1>5. sb.get \o t = t
  <2>1. <<>> \o t = t
    BY <1>3, ConcatEmptySeq
  <2> QED BY <1>1, <2>1
<1>6. got' \in Seq(Nat)
  BY <1>1, <1>3, <1>4, ConcatProperties
<1>7. got' \o sb'.get = Upto(sb.from, in'.pos)
  <2>1. got' \o <<>> = got'
    BY <1>6, ConcatEmptySeq
  <2> QED BY <1>1, <1>3, <1>4, <1>5, <2>1
<1>8. sb' \in Streambuf /\ sb'.get = <<>> /\ ~sb'.over
  BY <1>1
<1> QED BY <1>2, <1>6, <1>7, <1>8, InputPreserves

\* uflow().
LEMMA UflowPreserves ==
    ASSUME BufIInv, Uflow
    PROVE  BufIInv'
<1>1. /\ Reading
      /\ UNCHANGED <<request, pc, count, served, closed, broken, inError>>
      /\ UNCHANGED <<wrote, taken, failed>>
  BY DEF Uflow, requestVars, outVars
<1>2. CASE sb.bufsize = 0
  <2> DEFINE n == 1
  <2>1. n \in Nat \ {0}
    OBVIOUS
  <2>2. PICK new \in FCGX_GetStr(n) :
          in' = new /\ sb' = sb /\ got' = got \o Upto(in.pos, new.pos)
    BY <1>2 DEF Uflow
  <2> HIDE DEF n
  <2> QED BY <1>1, <1>2, <2>1, <2>2, ReadThrough
<1>3. CASE sb.bufsize # 0
  <2>1. PICK new \in IF sb.get = <<>> THEN FCGX_GetStr(BufSize) ELSE {in} :
          /\ in' = new
          /\ sb' = [sb EXCEPT !.get = Bumps(sb.get \o Upto(in.pos, new.pos)).get,
                              !.over = Bumps(sb.get \o Upto(in.pos, new.pos)).over]
          /\ got' = got \o Bumps(sb.get \o Upto(in.pos, new.pos)).c
    BY <1>3 DEF Uflow
  <2>2. sb \in Streambuf /\ in \in Input /\ got \in Seq(Nat) /\ in.pos \in Nat /\ in.pos <= End
    BY DEF BufIInv, BufTypes, ReadInRange, Input
  <2>3. /\ new \in Input /\ new.type = in.type /\ in.pos <= new.pos /\ new.pos <= End
        /\ new.pos \in Nat
    <3>1. CASE sb.get = <<>>
      <4>1. BufSize \in Nat \ {0} /\ new \in FCGX_GetStr(BufSize)
        BY <2>1, <3>1, SizesAssumption
      <4> QED BY <4>1, GetStrProps DEF Input
    <3>2. CASE sb.get # <<>>
      <4>1. new = in
        BY <2>1, <3>2
      <4> QED BY <2>2, <4>1
    <3> QED BY <3>1, <3>2
  <2> DEFINE area == sb.get \o Upto(in.pos, new.pos)
  <2>4. area \in Seq(Nat) /\ got \o area = Upto(sb.from, new.pos)
    BY <1>1, <2>3, ReadOn
  <2>5. /\ sb' = [sb EXCEPT !.get = Bumps(area).get, !.over = Bumps(area).over]
        /\ got' = got \o Bumps(area).c
    BY <2>1
  <2> HIDE DEF area
  <2>6. /\ Bumps(area).get \in Seq(Nat) /\ Bumps(area).c \in Seq(Nat)
        /\ Bumps(area).over \in BOOLEAN
        /\ ~Bumps(area).over => Bumps(area).c \o Bumps(area).get = area
    BY <2>4, BumpsProps
  <2> DEFINE rest == Bumps(area).get
             c == Bumps(area).c
             over == Bumps(area).over
  <2>7. /\ rest \in Seq(Nat) /\ c \in Seq(Nat) /\ over \in BOOLEAN
        /\ ~over => c \o rest = area
        /\ sb' = [sb EXCEPT !.get = rest, !.over = over] /\ got' = got \o c
    BY <2>5, <2>6
  <2> HIDE DEF rest, c, over
  <2>8. /\ sb' \in Streambuf /\ sb'.get = rest /\ sb'.over = over
        /\ UNCHANGED <<sb.exists, sb.fcgx, sb.way, sb.bufsize, sb.put, sb.from, sb.synced>>
    BY <2>2, <2>7 DEF Streambuf
  <2>9. got' \in Seq(Nat)
    BY <2>2, <2>7, ConcatProperties
  <2>10. ~sb'.over => got' \o sb'.get = Upto(sb.from, in'.pos)
    <3>1. (got \o c) \o rest = got \o (c \o rest)
      <4>1. got \in Seq(Nat) /\ c \in Seq(Nat) /\ rest \in Seq(Nat)
        BY <2>2, <2>7
      <4> QED BY <4>1, ConcatAssociative, SMTT(40)
    <3> QED BY <2>1, <2>4, <2>7, <2>8, <3>1
  <2> QED BY <1>1, <1>3, <2>1, <2>3, <2>8, <2>9, <2>10, InputPreserves
<1> QED BY <1>2, <1>3

\* xsgetn() without a buffer.
LEMMA XsgetnPreserves ==
    ASSUME BufIInv, Xsgetn
    PROVE  BufIInv'
<1>1. /\ Reading /\ sb.bufsize = 0 /\ sb' = sb
      /\ UNCHANGED <<request, pc, count, served, closed, broken, inError>>
      /\ UNCHANGED <<wrote, taken, failed>>
  BY DEF Xsgetn, requestVars, outVars
<1>2. PICK n \in 2 .. BufSize + 1 : \E new \in FCGX_GetStr(n) :
        in' = new /\ got' = got \o Upto(in.pos, new.pos)
  BY DEF Xsgetn
<1>3. n \in Nat \ {0}
  BY SizesAssumption
<1> QED BY <1>1, <1>2, <1>3, ReadThrough

-----------------------------------------------------------------------------
(* iostreams: from request to request.                                     *)

\* Turning to FCGI_DATA, the input goes on where FCGI_STDIN ended.
LEMMA FilterDataPreserves ==
    ASSUME BufIInv, StartFilterData
    PROVE  BufIInv'
<1>1. UNCHANGED <<sb, wrote, taken, failed, got>>
  BY DEF StartFilterData, outVars
<1>2. /\ InputFails \/ UNCHANGED requestVars
      /\ \/ in.type = "stdin" /\ in' = [in EXCEPT !.type = "data", !.closed = FALSE]
         \/ in' = [in EXCEPT !.closed = TRUE, !.lost = TRUE]
  BY DEF StartFilterData
<1>3. RequestIInv' /\ request'.streams = request.streams /\ count' = count
  BY <1>2, OthersPreserve DEF BufIInv
<1>4. in' \in Input /\ in'.pos = in.pos /\ in.pos \in Nat /\ End \in Nat /\ End <= End'
  <2>1. in \in Input
    BY DEF BufIInv, BufTypes
  <2>2. CASE in.type = "stdin" /\ in' = [in EXCEPT !.type = "data", !.closed = FALSE]
    <3>1. in' \in Input /\ in'.pos = in.pos /\ in.pos \in Nat /\ in'.type = "data"
      BY <2>1, <2>2 DEF Input
    <3>2. End = StdinLen /\ End' = StdinLen + DataLen
      BY <2>2, <3>1 DEF End
    <3> QED BY <3>1, <3>2, SizesAssumption
  <2>3. CASE in' = [in EXCEPT !.closed = TRUE, !.lost = TRUE]
    <3>1. in' \in Input /\ in'.pos = in.pos /\ in.pos \in Nat /\ in'.type = in.type
      BY <2>1, <2>3 DEF Input
    <3>2. End' = End /\ End \in Nat
      BY <3>1, SizesAssumption DEF End
    <3> QED BY <3>1, <3>2
  <2> QED BY <1>2, <2>2, <2>3
<1>5. BufTypes'
  BY <1>1, <1>4 DEF BufIInv, BufTypes
<1>6. AreasFit' /\ SyncedIsSent' /\ AttachedBefore'
  BY <1>1, <1>3 DEF BufIInv, AreasFit, SyncedIsSent, AttachedBefore
<1>7. ReadInRange'
  <2>1. in.pos <= End /\ (sb.exists /\ Live(sb.fcgx) => sb.from <= in.pos)
    BY DEF BufIInv, ReadInRange
  <2>2. in'.pos <= End'
    <3>1. End' \in Nat
      BY SizesAssumption DEF End
    <3> QED BY <1>4, <2>1, <3>1
  <2> QED BY <1>1, <1>3, <1>4, <2>1, <2>2 DEF ReadInRange, Live
<1>8. OutputSurvives'
  BY <1>1, <1>3 DEF BufIInv, OutputSurvives, Live
<1>9. InputSurvives'
  BY <1>1, <1>3, <1>4 DEF BufIInv, InputSurvives, Live
<1> QED BY <1>3, <1>5, <1>6, <1>7, <1>8, <1>9 DEF BufIInv

\* As the streams of a request go, nothing may wait to be put into them; and the
\* next are not those that a streambuf is attached to.
LEMMA StreamsGo ==
    ASSUME BufIInv, RequestIInv', UNCHANGED <<sb, wrote, taken, failed, got>>,
           in' \in Input, in'.pos <= End', count <= count', count' \in Nat,
           ~Live(sb.fcgx)',
           sb.way = "out" /\ ~failed => sb.put = <<>>
    PROVE  BufIInv'
<1>1. BufTypes'
  BY DEF BufIInv, BufTypes
<1>2. AreasFit' /\ SyncedIsSent'
  BY DEF BufIInv, AreasFit, SyncedIsSent
<1>3. AttachedBefore'
  <2>1. sb.fcgx \in Nat /\ count \in Nat /\ sb.fcgx <= count
    BY DEF BufIInv, BufTypes, Streambuf, AttachedBefore, RequestIInv, RequestTypes
  <2>2. sb.fcgx <= count'
    BY <2>1
  <2> QED BY <2>2 DEF AttachedBefore
<1>4. ReadInRange'
  BY DEF ReadInRange
<1>5. OutputSurvives'
  BY DEF BufIInv, OutputSurvives
<1>6. InputSurvives'
  BY DEF InputSurvives
<1> QED BY <1>1, <1>2, <1>3, <1>4, <1>5, <1>6 DEF BufIInv

\* Finishing: what the program was asked to do was done.
LEMMA FinishesPreserves ==
    ASSUME BufIInv, Finishes
    PROVE  BufIInv'
<1>1. /\ MayFinish /\ FCGX_Finish /\ pc' \in {"app", "accept", "exited"}
      /\ UNCHANGED <<sb, in, wrote, taken, failed, got>>
  BY DEF Finishes, AcceptBegins, bufVars
<1>2. RequestIInv' /\ request'.streams = NoStream /\ count' = count
  BY <1>1, FinishPreserves DEF BufIInv
<1>3. in' \in Input /\ in'.pos <= End'
  BY <1>1 DEF BufIInv, BufTypes, ReadInRange, End
<1>4. ASSUME sb.way = "out", ~failed, sb.put # <<>> PROVE FALSE
  <2>1. sb.exists
    BY <1>4 DEF BufIInv, OutputSurvives
  <2>2. sb.bufsize > 0
    <3>1. /\ sb.put \in Seq(Bytes) /\ Len(sb.put) <= sb.bufsize /\ sb.bufsize \in Nat
          /\ Len(sb.put) \in Nat
      BY SizesAssumption, LenProperties DEF BufIInv, BufTypes, AreasFit, Streambuf
    <3>2. Len(sb.put) # 0
      BY <1>4, <3>1, EmptySeq
    <3> QED BY <3>1, <3>2
  <2>3. sb.synced
    BY <1>1, <2>1, <2>2 DEF MayFinish
  <2> QED BY <1>4, <2>3 DEF BufIInv, SyncedIsSent
<1>5. ~Live(sb.fcgx)'
  BY <1>1, <1>2 DEF Live
<1>6. count <= count' /\ count' \in Nat
  BY <1>2 DEF BufIInv, RequestIInv, RequestTypes
<1> QED BY <1>1, <1>2, <1>3, <1>4, <1>5, <1>6, StreamsGo

\* Accepting.
LEMMA AcceptsPreserves ==
    ASSUME BufIInv, Accepts
    PROVE  BufIInv'
<1>1. /\ AcceptReads /\ in' = NewInput /\ UNCHANGED <<sb, wrote, taken, failed, got>>
  BY DEF Accepts, outVars
<1>2. /\ RequestIInv' /\ request'.streams = count' /\ count' = count + 1
      /\ count \in Nat
  BY <1>1, ReadsPreserves DEF BufIInv, RequestIInv, RequestTypes
<1>3. in' \in Input /\ in'.pos <= End'
  <2>1. in' \in Input /\ in'.pos = 0 /\ in'.type = "stdin"
    BY <1>1 DEF NewInput, Input
  <2> QED BY <2>1, SizesAssumption DEF End
<1>4. request.streams = NoStream
  BY <1>1 DEF AcceptReads, BufIInv, RequestIInv, StreamsOfLast
<1>5. sb.way = "out" /\ ~failed => sb.put = <<>>
  BY <1>4 DEF BufIInv, OutputSurvives, Live
<1>6. ~Live(sb.fcgx)'
  <2>1. sb.fcgx \in Nat /\ sb.fcgx <= count
    BY DEF BufIInv, BufTypes, Streambuf, AttachedBefore
  <2>2. sb.fcgx # count'
    BY <1>2, <2>1
  <2> QED BY <1>1, <1>2, <2>2 DEF Live
<1>7. count <= count' /\ count' \in Nat
  BY <1>2
<1> QED BY <1>1, <1>2, <1>3, <1>5, <1>6, <1>7, StreamsGo

\* The other steps leave the streams as they are.
LEMMA BufOthersPreserve ==
    ASSUME BufIInv, Others \/ UNCHANGED <<requestVars, bufVars>>
    PROVE  BufIInv'
<1>1. UNCHANGED <<sb, in, wrote, taken, got, failed>>
  BY DEF Others, bufVars
<1>2. RequestIInv' /\ request'.streams = request.streams /\ count' = count
  BY OthersPreserve DEF Others, BufIInv
<1>3. BufTypes' /\ AreasFit' /\ SyncedIsSent' /\ AttachedBefore'
  BY <1>1, <1>2 DEF BufIInv, BufTypes, AreasFit, SyncedIsSent, AttachedBefore
<1>4. ReadInRange' /\ OutputSurvives' /\ InputSurvives'
  BY <1>1, <1>2 DEF BufIInv, ReadInRange, OutputSurvives, InputSurvives, End, Live
<1> QED BY <1>2, <1>3, <1>4 DEF BufIInv

\* Every step of a program with streambufs preserves the invariant.
LEMMA BufNextIInv == BufIInv /\ [BufNext]_<<requestVars, bufVars>> => BufIInv'
<1> SUFFICES ASSUME BufIInv, [BufNext]_<<requestVars, bufVars>> PROVE BufIInv'
  OBVIOUS
<1>1. \/ Construct \/ Attach \/ Setbuf \/ Write \/ Sync \/ Destroy
      \/ Underflow \/ Uflow \/ Xsgetn \/ StartFilterData
      \/ Finishes \/ Accepts \/ Others \/ UNCHANGED <<requestVars, bufVars>>
  BY DEF BufNext
<1> QED BY <1>1, ConstructPreserves, AttachPreserves, SetbufPreserves, WritePreserves,
           SyncPreserves, DestroyPreserves, UnderflowPreserves, UflowPreserves,
           XsgetnPreserves, FilterDataPreserves, FinishesPreserves, AcceptsPreserves,
           BufOthersPreserve

-----------------------------------------------------------------------------
(* iostreams: theorems.                                                    *)

\* The invariant of a program with streambufs.
THEOREM BufIInvariant == BufSpec => []BufIInv
<1> QED BY BufInitIInv, BufNextIInv, PTL DEF BufSpec

\* Every byte that iostreams were told is written has been taken by the stream of the
\* request it was written for, or waits in the put area, once and in order.
THEOREM OutputAlwaysSurvives == BufSpec => []OutputSurvives
<1>1. BufIInv => OutputSurvives
  BY DEF BufIInv
<1> QED BY <1>1, BufIInvariant, PTL

\* What the program has read, and what waits, is the input without a gap.
THEOREM InputAlwaysSurvives == BufSpec => []InputSurvives
<1>1. BufIInv => InputSurvives
  BY DEF BufIInv
<1> QED BY <1>1, BufIInvariant, PTL
=============================================================================
