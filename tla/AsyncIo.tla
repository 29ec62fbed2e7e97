------------------------------ MODULE AsyncIo ------------------------------
(***************************************************************************)
(* The asynchronous I/O of os_unix.c: a table of callbacks with a read and *)
(* a write entry per descriptor, and OS_DoIo, which selects, posts what is *)
(* ready and calls back.  One thread calls all of it; a callback may       *)
(* register, close and cancel while OS_DoIo is in the middle of its loop.  *)
(*                                                                         *)
(* An event is an index of the table, which tells its descriptor and its   *)
(* direction, so the two fd_sets of each kind are one set of events.       *)
(***************************************************************************)
EXTENDS Integers, FiniteSets, FiniteSetsExt

CONSTANTS
    Fds,              \* the descriptors of the process that it does I/O on
    InitialTableSize, \* asyncIoTableSize as the library starts; 16 there
    MaxProcs          \* registrations, a bound for TLC

ASSUME AsyncAssumption ==
    /\ Fds \subseteq Nat /\ 0 \in Fds /\ IsFiniteSet(Fds)
    /\ InitialTableSize \in Nat \ {0, 1}
    /\ MaxProcs \in Nat

VARIABLES
    table,        \* asyncIoTable; its domain has asyncIoTableSize entries
    fdSet,        \* readFdSet and writeFdSet
    posted,       \* readFdSetPost and writeFdSetPost
    numPosted,    \* numRdPosted and numWrPosted
    maxFd,
    asyncIoInUse,
    pc,           \* who runs: the application, OS_DoIo, or a callback of it
    at,           \* how far OS_DoIo's loop has come
    nextProc,     \* callbacks are numbered as they are registered
    due,          \* callbacks registered, neither called nor cancelled
    open,         \* the kernel: open descriptors
    shut,         \* the kernel: those that OS_CloseRead was called for
    ready         \* the kernel: events that would not block

state == <<table, fdSet, posted, numPosted, maxFd, asyncIoInUse>>
vars == <<state, pc, at, nextProc, due, open, shut, ready>>

Rd == 0
Wr == 1
Fd(ix) == ix \div 2
Direction(ix) == ix % 2
ReadIx(fd) == 2 * fd
WriteIx(fd) == 2 * fd + 1
Events == {ReadIx(fd) : fd \in Fds} \cup {WriteIx(fd) : fd \in Fds}

Free == [procPtr |-> 0, inUse |-> FALSE]
InUse(ix) == ix \in DOMAIN table /\ table[ix].inUse

\* What a call may not be made from: OS_DoIo runs outside its callbacks.
AppRuns == pc \in {"app", "callback"}

Init ==
    /\ table = [ix \in 0 .. InitialTableSize - 1 |-> Free]
    /\ fdSet = {} /\ posted = {}
    /\ numPosted = [d \in {Rd, Wr} |-> 0]
    /\ maxFd = -1
    /\ asyncIoInUse = FALSE
    /\ pc = "app" /\ at = 0
    /\ nextProc = 1 /\ due = {}
    /\ open = Fds /\ shut = {}
    /\ ready = {}
-----------------------------------------------------------------------------
(***************************************************************************)
(* Registering.                                                            *)
(***************************************************************************)

\* Fault: the table grows once, whatever the descriptor.
GrowsOnce(ix) ==
    LET size == Cardinality(DOMAIN table) * (IF ix \in DOMAIN table THEN 1 ELSE 2)
    IN [i \in 0 .. size - 1 |-> IF i \in DOMAIN table THEN table[i] ELSE Free]

\* The smallest doubling of the table that has the entry.
Doublings(ix) == {Cardinality(DOMAIN table) * 2^k : k \in 0 .. ix + 1}
GrowAsyncTable(ix) ==
    LET size == Min({s \in Doublings(ix) : s > ix})
    IN [i \in 0 .. size - 1 |-> IF i \in DOMAIN table THEN table[i] ELSE Free]

\* What OS_AsyncRead and OS_AsyncWrite do for their entry.  The caller keeps to
\* the assertion: it registers nothing where it still waits.
Register(ix) ==
    /\ AppRuns
    /\ Fd(ix) \in open
    /\ ~InUse(ix)
    /\ nextProc <= MaxProcs
    /\ asyncIoInUse' = TRUE
    /\ maxFd' = IF Fd(ix) > maxFd THEN Fd(ix) ELSE maxFd
    /\ table' = [GrowAsyncTable(ix) EXCEPT
                    ![ix] = [procPtr |-> nextProc, inUse |-> TRUE]]
    /\ fdSet' = fdSet \cup {ix}
    /\ due' = due \cup {nextProc}
    /\ nextProc' = nextProc + 1
    /\ UNCHANGED <<posted, numPosted, pc, at, open, shut, ready>>

OS_AsyncRead == \E fd \in Fds : Register(ReadIx(fd))
OS_AsyncWrite == \E fd \in Fds : Register(WriteIx(fd))

\* It does not look at the size of the table, which always has descriptor 0.
OS_AsyncReadStdin == Register(ReadIx(0))
-----------------------------------------------------------------------------
(***************************************************************************)
(* Closing.                                                                *)
(***************************************************************************)

Cancel(ixs) == due \ {table[ix].procPtr : ix \in {i \in ixs : InUse(i)}}

Released(ixs) ==
    [ix \in DOMAIN table |->
        IF ix \in ixs THEN [table[ix] EXCEPT !.inUse = FALSE] ELSE table[ix]]

\* Fault: closing any descriptor lowers it.
Lowers(fd) == maxFd - 1

LowerMaxFd(fd) == IF maxFd = fd THEN maxFd - 1 ELSE maxFd

\* The counts of posted events stay.  For a descriptor that the table does not
\* reach, the code looks behind it; nothing modelled is there.
OS_Close(fd) ==
    LET ixs == {ReadIx(fd), WriteIx(fd)} IN
    /\ AppRuns
    /\ fd \in open
    /\ IF asyncIoInUse
       THEN /\ fdSet' = fdSet \ ixs
            /\ posted' = posted \ ixs
            /\ table' = Released(ixs)
            /\ maxFd' = LowerMaxFd(fd)
       ELSE UNCHANGED <<fdSet, posted, table, maxFd>>
    /\ due' = Cancel(ixs)
    /\ open' = open \ {fd}
    /\ shut' = shut \ {fd}
    /\ ready' = ready \ ixs
    /\ UNCHANGED <<numPosted, asyncIoInUse, pc, at, nextProc>>

\* shutdown(2) makes the end of the input readable, if fd is a socket.
OS_CloseRead(fd) ==
    LET ix == ReadIx(fd) IN
    /\ AppRuns
    /\ fd \in open
    /\ table' = Released({ix})
    /\ fdSet' = IF InUse(ix) THEN fdSet \ {ix} ELSE fdSet
    /\ due' = Cancel({ix})
    /\ shut' = shut \cup {fd}
    /\ ready' \in {ready, ready \cup {ix}}
    /\ UNCHANGED <<posted, numPosted, maxFd, asyncIoInUse, pc, at, nextProc, open>>

Open(fd) ==
    /\ AppRuns
    /\ fd \notin open
    /\ open' = open \cup {fd}
    /\ UNCHANGED <<state, pc, at, nextProc, due, shut, ready>>

BecomesReady(ix) ==
    /\ Fd(ix) \in open
    /\ ix \notin ready /\ pc # "exited"
    /\ ready' = ready \cup {ix}
    /\ UNCHANGED <<state, pc, at, nextProc, due, open, shut>>
-----------------------------------------------------------------------------
(***************************************************************************)
(* OS_DoIo.                                                                *)
(***************************************************************************)

NonePosted == numPosted = [d \in {Rd, Wr} |-> 0]

\* With counts left over from an earlier call there is no select(2).
DoIoBegins ==
    /\ pc = "app"
    /\ asyncIoInUse' = TRUE
    /\ pc' = IF NonePosted THEN "select" ELSE "scan"
    /\ at' = 0
    /\ UNCHANGED <<table, fdSet, posted, numPosted, maxFd, nextProc, due, open, shut, ready>>

Selected == {ix \in fdSet : Fd(ix) <= maxFd} \cap ready

Select ==
    /\ pc = "select"
    /\ Selected # {}
    /\ posted' = posted \cup Selected
    /\ fdSet' = fdSet \ Selected
    /\ numPosted' = [d \in {Rd, Wr} |->
            numPosted[d] + Cardinality({ix \in Selected : Direction(ix) = d})]
    /\ pc' = "scan"
    /\ UNCHANGED <<table, maxFd, asyncIoInUse, at, nextProc, due, open, shut, ready>>

\* The timeout of the caller, if it gave one.
SelectTimesOut ==
    /\ pc = "select"
    /\ Selected = {}
    /\ pc' = "app"
    /\ UNCHANGED <<state, at, nextProc, due, open, shut, ready>>

\* A signal: SIGUSR1 is to announce a shutdown, and it ends the process here.
SelectInterrupted ==
    /\ pc = "select"
    /\ Selected = {}
    /\ pc' = "exited"
    /\ UNCHANGED <<state, at, nextProc, due, open, shut, ready>>

\* Fault: the loop does not look at inUse.
AheadOfAnyUse == {ix \in posted : ix >= at /\ Fd(ix) <= maxFd}

\* Fault: the loop starts behind descriptor 0's read.
AheadOfTheFirst == {ix \in posted : ix > at /\ Fd(ix) <= maxFd /\ InUse(ix)}

\* What the rest of the loop will find: a callback may add to it and take away.
Ahead == {ix \in posted : ix >= at /\ Fd(ix) <= maxFd /\ InUse(ix)}

\* Reads or writes, then calls back.  The entry is free before the call, so that
\* the callback may register again.  A read takes what was ready.
Dispatch ==
    /\ pc = "scan"
    /\ Ahead # {}
    /\ LET ix == Min(Ahead) IN
        /\ at' = ix + 1
        /\ numPosted' = [numPosted EXCEPT ![Direction(ix)] = @ - 1]
        /\ posted' = posted \ {ix}
        /\ table' = [table EXCEPT ![ix] = Free]
        /\ due' = due \ {table[ix].procPtr}
        /\ ready' = ready \ {ix}
    /\ pc' = "callback"
    /\ UNCHANGED <<fdSet, maxFd, asyncIoInUse, nextProc, open, shut>>

ScanEnds ==
    /\ pc = "scan"
    /\ Ahead = {}
    /\ pc' = "app"
    /\ UNCHANGED <<state, at, nextProc, due, open, shut, ready>>

CallbackReturns ==
    /\ pc = "callback"
    /\ pc' = "scan"
    /\ UNCHANGED <<state, at, nextProc, due, open, shut, ready>>
-----------------------------------------------------------------------------
App == OS_AsyncRead \/ OS_AsyncWrite \/ OS_AsyncReadStdin
       \/ \E fd \in Fds : OS_Close(fd) \/ OS_CloseRead(fd) \/ Open(fd)

OS_DoIo == Select \/ SelectTimesOut \/ Dispatch \/ ScanEnds

Next == \/ App \/ DoIoBegins \/ OS_DoIo \/ SelectInterrupted \/ CallbackReturns
        \/ \E ix \in Events : BecomesReady(ix)

\* OS_DoIo runs on; callbacks return; the application calls OS_DoIo again.
Spec == Init /\ [][Next]_vars
        /\ WF_vars(OS_DoIo) /\ WF_vars(CallbackReturns) /\ WF_vars(DoIoBegins)
-----------------------------------------------------------------------------
\* Types of the library's state.
TypeOK ==
    /\ DOMAIN table = 0 .. Cardinality(DOMAIN table) - 1
    /\ \A ix \in DOMAIN table : table[ix] \in [procPtr : 0 .. MaxProcs, inUse : BOOLEAN]
    /\ fdSet \subseteq Events /\ posted \subseteq Events
    /\ numPosted \in [{Rd, Wr} -> 0 .. Cardinality(Events) + MaxProcs]
    /\ maxFd \in -1 .. Max(Fds)
    /\ pc \in {"app", "select", "scan", "callback", "exited"}

Counted(d) == {ix \in posted : Direction(ix) = d}

\* OS_DoIo loses no registration and invents none, whatever its callbacks close
\* and register: who waits has an entry, is selected or posted, and within maxFd;
\* every selected descriptor is waited for, and every posted event is counted.  A
\* read registered after OS_CloseRead may be called for what was posted before,
\* and leave its descriptor selected.
NothingIsLost ==
    /\ {table[ix].procPtr : ix \in {i \in DOMAIN table : InUse(i)}} = due
    /\ \A ix \in Events : InUse(ix) => ix \in fdSet \cup posted /\ Fd(ix) <= maxFd
    /\ \A ix \in fdSet : InUse(ix) \/ (Direction(ix) = Rd /\ Fd(ix) \in shut)
    /\ \A d \in {Rd, Wr} : numPosted[d] >= Cardinality(Counted(d))

\* A callback is called for a registration that is due, once, and the read or
\* write before it does not block: its event was ready and nobody took it since.
\* Closing a descriptor and opening its number again must not confuse this.
CallbackIsDue ==
    [][pc = "scan" /\ pc' = "callback" =>
        \E ix \in Events : /\ table[ix].procPtr \in due
                           /\ due' = due \ {table[ix].procPtr}
                           /\ ix \in ready /\ Fd(ix) \in open]_vars

\* More events are counted than posted: OS_Close took one, or OS_CloseRead left
\* one that nobody waits for.
Miscounted ==
    \E d \in {Rd, Wr} :
        numPosted[d] > Cardinality({ix \in Counted(d) : InUse(ix)})

\* An event that is waited for and ready is called back, or cancelled, unless
\* the counts went wrong or a signal ended the process.
ReadyIsServed ==
    \A ix \in Events :
        InUse(ix) /\ ix \in ready ~> ~InUse(ix) \/ Miscounted \/ pc = "exited"
=============================================================================
