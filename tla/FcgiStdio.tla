----------------------------- MODULE FcgiStdio -----------------------------
(***************************************************************************)
(* fcgi_stdio.c: a C program written for stdio serves FastCGI requests, or *)
(* runs as CGI.  An FCGI_FILE has a stdio stream or a stream of the        *)
(* request in hand; every wrapper asks for the first, then for the second. *)
(* The content of what is read and written is not modelled; where a call   *)
(* arrives is.                                                             *)
(***************************************************************************)
EXTENDS FcgxRequest

CONSTANTS
    Handles,    \* FILEs that fopen(3) and its like may return
    Heap        \* FCGI_FILEs that the wrappers allocate

VARIABLES
    fastCGI,        \* how the server started the process
    acceptCalled,
    isCGI,
    file,           \* FCGI_FILEs: _fcgi_sF and those on the heap
    files,          \* open FILEs of the process
    environ,
    accepted,       \* what the last FCGI_Accept returned
    last            \* where the last call of a wrapper arrived

stdioVars == <<fastCGI, acceptCalled, isCGI, file, files, environ, accepted, last>>
fileVars == <<fastCGI, acceptCalled, isCGI, environ, accepted>>

Std == {"stdin", "stdout", "stderr"}
NULL == "NULL"
Lost == "lost"      \* a FILE that freopen(3) has closed
NoFile == [stdio |-> NULL, fcgx |-> NoStream]
NoCall == "none"

\* A FILE is none of the names that the model uses for others.
ASSUME FilesAssumption ==
    /\ Handles \cap (Std \cup {NULL, Lost}) = {}
    /\ Heap \cap Std = {}

StdioInit ==
    /\ fastCGI \in BOOLEAN
    /\ acceptCalled = FALSE /\ isCGI = FALSE
    /\ file = [fp \in Std |-> NoFile]
    /\ files = Std
    /\ environ = NoStream
    /\ accepted = "none"
    /\ last = NoCall
-----------------------------------------------------------------------------
(***************************************************************************)
(* FCGI_Accept, FCGI_Finish and exit(3).                                   *)
(***************************************************************************)

\* As CGI the first call hands over the process's own streams.
FCGI_AcceptCGI ==
    /\ pc = "app"
    /\ ~fastCGI
    /\ IF acceptCalled
       THEN accepted' = "failed" /\ UNCHANGED <<isCGI, acceptCalled, file>>
       ELSE /\ isCGI' = TRUE /\ acceptCalled' = TRUE
            /\ file' = [fp \in DOMAIN file |->
                            IF fp \in Std THEN [stdio |-> fp, fcgx |-> NoStream]
                            ELSE file[fp]]
            /\ accepted' = "ok"
    /\ last' = NoCall
    /\ UNCHANGED <<requestVars, fastCGI, files, environ>>

FCGI_AcceptBegins ==
    /\ fastCGI
    /\ AcceptBegins
    /\ acceptCalled' = TRUE
    /\ last' = NoCall
    /\ UNCHANGED <<fastCGI, isCGI, file, files, environ, accepted>>

FCGI_AcceptRetries ==
    /\ AcceptConnects \/ AcceptRetries
    /\ UNCHANGED stdioVars

\* Whatever stdio stream an FCGI_FILE had is forgotten.
Assigned(k) ==
    [fp \in DOMAIN file |->
        IF fp \in Std THEN [stdio |-> NULL, fcgx |-> k] ELSE file[fp]]

FCGI_AcceptSucceeds ==
    /\ AcceptReads
    /\ file' = Assigned(count')
    /\ environ' = count'
    /\ accepted' = "ok"
    /\ UNCHANGED <<fastCGI, acceptCalled, isCGI, files, last>>

\* The FCGI_FILEs and environ stay as they were, and the streams are freed.
FCGI_AcceptFails ==
    /\ AcceptFails
    /\ accepted' = "failed"
    /\ UNCHANGED <<fastCGI, acceptCalled, isCGI, file, files, environ, last>>

\* Fault: the request is finished, and the FCGI_FILEs keep its streams.
FinishesOnly ==
    /\ FCGX_Finish
    /\ environ' = NoStream
    /\ accepted' = "none"
    /\ UNCHANGED file

\* FCGI_Finish of a FastCGI process that has called FCGI_Accept.
FCGI_Finish ==
    /\ FCGX_Finish
    /\ file' = [fp \in DOMAIN file |->
                    IF fp \in Std THEN [file[fp] EXCEPT !.fcgx = NoStream]
                    ELSE file[fp]]
    /\ environ' = NoStream
    /\ accepted' = "none"

CallFinish ==
    /\ pc = "app"
    /\ acceptCalled /\ ~isCGI
    /\ FCGI_Finish
    /\ last' = NoCall
    /\ UNCHANGED <<pc, fastCGI, acceptCalled, isCGI, files>>

\* atexit(&FCGI_Finish), then stdio closes its files.
Exit ==
    /\ pc = "app"
    /\ pc' = "exited"
    /\ IF acceptCalled /\ ~isCGI THEN FCGI_Finish
       ELSE UNCHANGED <<request, served, broken, closed, inError, count,
                        file, environ, accepted>>
    /\ files' = {}
    /\ last' = NoCall
    /\ UNCHANGED <<fastCGI, acceptCalled, isCGI>>
-----------------------------------------------------------------------------
(***************************************************************************)
(* Opening and closing.                                                    *)
(***************************************************************************)

\* The program does not use what freopen failed for.
Usable(fp) == pc = "app" /\ fp \in DOMAIN file /\ file[fp].stdio # Lost

Wrapped(f) == [stdio |-> f, fcgx |-> NoStream]

\* FCGI_OpenFromFILE: an FCGI_FILE for an open FILE, if malloc has one.
FCGI_OpenFromFILE(f) ==
    \E fp \in Heap \ DOMAIN file :
        file' = [g \in DOMAIN file \cup {fp} |->
                    IF g = fp THEN Wrapped(f) ELSE file[g]]

\* Without an FCGI_FILE the FILE is closed again: nothing has changed.
Opened ==
    /\ pc = "app"
    /\ \E f \in Handles \ files :
        /\ files' = files \cup {f}
        /\ FCGI_OpenFromFILE(f)
    /\ last' = NoCall
    /\ UNCHANGED <<requestVars, fileVars>>

FCGI_fopen == Opened
FCGI_fdopen == Opened
FCGI_popen == Opened
FCGI_tmpfile == Opened

\* The FCGI_FILEs without fp, if it is on the heap.
Released(fp, kept) ==
    [g \in DOMAIN file \ (IF fp \in Std THEN {} ELSE {fp}) |->
        IF g = fp THEN kept ELSE file[g]]

WriterOf(fp) == IF fp = "stdout" THEN "out" ELSE "err"

\* fclose of the stdio stream, or FCGX_FClose of the request's; a stream that was
\* freed is not looked at in the model.
FCGI_fclose(fp) ==
    /\ Usable(fp)
    /\ IF file[fp].stdio # NULL
       THEN /\ files' = files \ {file[fp].stdio}
            /\ file' = Released(fp, [file[fp] EXCEPT !.stdio = NULL])
            /\ UNCHANGED requestVars
       ELSE /\ file' = Released(fp, NoFile)
            /\ IF Live(file[fp].fcgx) /\ fp # "stdin"
               THEN FCGX_FClose(WriterOf(fp)) ELSE UNCHANGED requestVars
            /\ UNCHANGED files
    /\ last' = NoCall
    /\ UNCHANGED fileVars

\* "The caller is deeply confused" with a stream of the request.
FCGI_pclose(fp) ==
    /\ Usable(fp)
    /\ file[fp].stdio \notin {NULL} \cup Std
    /\ files' = files \ {file[fp].stdio}
    /\ file' = Released(fp, [file[fp] EXCEPT !.stdio = NULL])
    /\ last' = NoCall
    /\ UNCHANGED <<requestVars, fileVars>>

\* Fault: a request's stream is left for a file and not closed.
ReopensOver(fp) ==
    /\ Usable(fp)
    /\ \E f \in Handles \ files :
        /\ files' = files \cup {f}
        /\ file' = [file EXCEPT ![fp] = [stdio |-> f, fcgx |-> NoStream]]
    /\ last' = NoCall
    /\ UNCHANGED <<requestVars, fileVars>>

\* A FILE is reopened as itself; freopen(3) closes it when it fails.
ReopenFile(fp) ==
    /\ Usable(fp)
    /\ file[fp].stdio # NULL
    /\ file' = [file EXCEPT ![fp].stdio = Lost]
    /\ files' = files \ {file[fp].stdio}
    /\ last' = NoCall
    /\ UNCHANGED <<requestVars, fileVars>>

\* A request's stream is closed, and left if the file opens.
ReopenStream(fp) ==
    /\ Usable(fp)
    /\ file[fp].stdio = NULL /\ Live(file[fp].fcgx)
    /\ \/ UNCHANGED <<files, file>>
       \/ \E f \in Handles \ files :
            /\ files' = files \cup {f}
            /\ file' = [file EXCEPT ![fp] = Wrapped(f)]
    /\ IF fp # "stdin" THEN FCGX_FClose(WriterOf(fp)) ELSE UNCHANGED requestVars
    /\ last' = NoCall
    /\ UNCHANGED fileVars

FCGI_freopen(fp) == ReopenFile(fp) \/ ReopenStream(fp)
-----------------------------------------------------------------------------
(***************************************************************************)
(* Wrappers: stdio, then the request's stream, then an error.              *)
(***************************************************************************)

Arrives(fp) ==
    LET f == file[fp].stdio
        k == file[fp].fcgx
    IN
    CASE f # NULL -> IF f \in files THEN "file" ELSE "closed"
      [] f = NULL /\ Live(k) -> "stream"
      [] f = NULL /\ k # NoStream /\ ~Live(k) -> "freed"
      [] OTHER -> "nothing"

\* A call of a wrapper for fp.
Wrapper(fp) ==
    /\ Usable(fp)
    /\ last' = Arrives(fp)
    /\ UNCHANGED <<requestVars, fileVars, file, files>>

\* ... and of one for stdio alone, which the streams of a request refuse.
FileWrapper(fp) ==
    /\ Usable(fp)
    /\ last' = IF file[fp].stdio = NULL THEN "nothing" ELSE Arrives(fp)
    /\ UNCHANGED <<requestVars, fileVars, file, files>>

FCGI_fflush(fp) == Wrapper(fp)
FCGI_setvbuf(fp) == FileWrapper(fp)
FCGI_fseek(fp) == FileWrapper(fp)
FCGI_fileno(fp) == FileWrapper(fp)
FCGI_fgetc(fp) == Wrapper(fp)
FCGI_fgets(fp) == Wrapper(fp)
FCGI_fputc(fp) == Wrapper(fp)
FCGI_fputs(fp) == Wrapper(fp)
FCGI_fprintf(fp) == Wrapper(fp)
FCGI_vfprintf(fp) == Wrapper(fp)
FCGI_fread(fp) == Wrapper(fp)
FCGI_fwrite(fp) == Wrapper(fp)
FCGI_feof(fp) == Wrapper(fp)
FCGI_perror == Wrapper("stderr")

\* FCGX_ClearError of the input stream: FCGX_Finish_r does not see its error.
FCGI_clearerr(fp) ==
    /\ Usable(fp)
    /\ last' = Arrives(fp)
    /\ inError' = (inError /\ ~(fp = "stdin" /\ last' = "stream"))
    /\ UNCHANGED <<request, pc, count, served, closed, broken, fileVars, file, files>>

\* An FCGX call that fails gives the input stream an error code.
FCGI_StartFilterData ==
    /\ Usable("stdin")
    /\ file["stdin"].stdio = NULL /\ Live(file["stdin"].fcgx)
    /\ InputFails \/ UNCHANGED requestVars
    /\ last' = "stream"
    /\ UNCHANGED <<fileVars, file, files>>

FCGI_SetExitStatus ==
    /\ Usable("stdin")
    /\ file["stdin"].fcgx # NoStream
    /\ last' = IF Live(file["stdin"].fcgx) THEN "stream" ELSE "freed"
    /\ UNCHANGED <<requestVars, fileVars, file, files>>

Wrappers(fp) ==
    \/ FCGI_fflush(fp) \/ FCGI_setvbuf(fp) \/ FCGI_fseek(fp) \/ FCGI_fileno(fp)
    \/ FCGI_fgetc(fp) \/ FCGI_fgets(fp) \/ FCGI_fputc(fp) \/ FCGI_fputs(fp)
    \/ FCGI_fprintf(fp) \/ FCGI_vfprintf(fp) \/ FCGI_fread(fp) \/ FCGI_fwrite(fp)
    \/ FCGI_feof(fp) \/ FCGI_clearerr(fp)

StdioNext ==
    \/ FCGI_AcceptCGI \/ FCGI_AcceptBegins \/ FCGI_AcceptRetries
    \/ FCGI_AcceptSucceeds \/ FCGI_AcceptFails \/ CallFinish \/ Exit
    \/ FCGI_fopen \/ FCGI_fdopen \/ FCGI_popen \/ FCGI_tmpfile
    \/ \E fp \in Std \cup Heap :
        FCGI_fclose(fp) \/ FCGI_pclose(fp) \/ FCGI_freopen(fp) \/ Wrappers(fp)
    \/ FCGI_perror \/ FCGI_StartFilterData \/ FCGI_SetExitStatus
    \/ HangUp /\ UNCHANGED stdioVars

StdioSpec == RequestInit /\ StdioInit /\ [][StdioNext]_<<requestVars, stdioVars>>
-----------------------------------------------------------------------------
\* A wrapper's call arrives at an open FILE, at the stream of the request in
\* hand, or nowhere; only a program that goes on after a failed FCGI_Accept
\* reaches a stream that was freed, and none a FILE that was closed.
CallsArrive ==
    /\ last # "closed"
    /\ last = "freed" => accepted = "failed"

Holders(f) == {fp \in DOMAIN file : file[fp].stdio = f}

\* No FILE that a wrapper opened is lost or held twice; but FCGI_Accept forgets
\* the files that standard streams were reopened as.
FilesAreHeld ==
    [][\A f \in Handles :
        f \in files' /\ Cardinality(Holders(f)') # 1 =>
            \/ f \in files /\ Cardinality(Holders(f)) = 0
            \/ count' > count /\ Cardinality(Holders(f)') = 0]_<<requestVars, stdioVars>>

\* At most the request in hand is unfinished for the server, and none when the
\* process exits; and environ is that of the request in hand, unless accepting
\* the next has failed or is under way.
RequestsEnd ==
    /\ OneRequestInHand
    /\ pc = "exited" => Unfinished = {}
    /\ acceptCalled /\ pc = "app" /\ accepted # "failed" => environ = request.streams
=============================================================================
