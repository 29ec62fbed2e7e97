------------------------------ MODULE OsAccept ------------------------------
(***************************************************************************)
(* OS_Accept (CGIKit/os_unix.c): worker processes that share one listening *)
(* socket, the lock around accept(2) where the build has USE_LOCKING, the  *)
(* clients that are turned away, signals, and the shutdown flag.           *)
(*                                                                         *)
(* A descriptor is a number: what it refers to is in the process's table,  *)
(* which other threads of the process use too, and close(2) frees the      *)
(* number whoever it belongs to.  The listening socket has one family.     *)
(***************************************************************************)
EXTENDS Integers, FiniteSets

CONSTANTS
    Proc, Conn,
    Setups,         \* the builds and environments to look at
    MaxFd           \* bound: the size of a descriptor table

ASSUME ConfigAssumption ==
    /\ Setups \subseteq [workers : SUBSET Proc, family : {"inet", "unix"},
                         useLocking : BOOLEAN, failOnIntr : BOOLEAN,
                         otherThreads : BOOLEAN]
    /\ MaxFd \in Nat \ {0}

Fd == 1..MaxFd
Nobody == "nobody"
Free == "free"
Other == "other"    \* a descriptor of another thread

\* A descriptor that is free or another thread's is no connection, and nobody
\* is no process.
ASSUME NamesAssumption == {Free, Other} \cap Conn = {} /\ Nobody \notin Proc

VARIABLES
    setup,      \* one of Setups
    good,       \* connections of approved clients (inet), or of clients that
                \* send something within two seconds (unix)
    coming,     \* connections not made yet
    backlog,    \* the listen queue
    table,      \* the descriptor table of each process
    pc,         \* where each process is in OS_Accept
    socket,     \* its variable socket
    sa,         \* the connection that its variable sa is the address of
    errno,      \* what the last accept(2) left
    shutdownPending,
    lock,       \* the process that holds the lock
    handed,     \* the descriptors that OS_Accept returned and that are in use
    late,       \* ghost: connections accepted with shutdownPending set
    rejected,   \* ghost: this call has closed a connection
    interrupted, \* ghost: good clients that a signal in select(2) had closed
    lockError   \* ghost: fcntl failed to release the lock

Workers == setup.workers            \* the processes that run
Family == setup.family              \* of the listening socket
UseLocking == setup.useLocking      \* #ifdef USE_LOCKING
FailOnIntr == setup.failOnIntr      \* FCGI_FAIL_ACCEPT_ON_INTR
OtherThreads == setup.otherThreads  \* whether they use descriptors too

clients == <<setup, good, coming, backlog>>
local == <<pc, socket, sa, errno>>
ghosts == <<late, rejected, interrupted, lockError>>
vars == <<clients, table, local, shutdownPending, lock, handed, ghosts>>

Init ==
    /\ setup \in Setups
    /\ good \in SUBSET Conn
    /\ coming = Conn
    /\ backlog = {}
    /\ table = [p \in Proc |-> [fd \in Fd |-> Free]]
    /\ pc = [p \in Proc |-> IF p \in Workers THEN "out" ELSE "absent"]
    /\ socket = [p \in Proc |-> -1]
    /\ sa = [p \in Proc |-> Nobody]
    /\ errno = [p \in Proc |-> "none"]
    /\ shutdownPending = [p \in Proc |-> FALSE]
    /\ lock = Nobody
    /\ handed = [p \in Proc |-> {}]
    /\ late = [p \in Proc |-> {}]
    /\ rejected = [p \in Proc |-> FALSE]
    /\ interrupted = {}
    /\ lockError = FALSE

-----------------------------------------------------------------------------
(* The clients, and the rest of each process.                              *)

Connect(c) ==
    /\ c \in coming
    /\ coming' = coming \ {c}
    /\ backlog' = backlog \cup {c}
    /\ UNCHANGED <<setup, good, table, local, shutdownPending, lock, handed, ghosts>>

FreeFds(p) == {fd \in Fd : table[p][fd] = Free}
Lowest(fds) == CHOOSE fd \in fds : \A g \in fds : fd <= g
Put(p, fd, what) == table' = [table EXCEPT ![p][fd] = what]

\* OS_IpcClose of a request that is done.
IpcClose(p) ==
    /\ \E fd \in handed[p] : /\ Put(p, fd, Free)
                             /\ handed' = [handed EXCEPT ![p] = @ \ {fd}]
    /\ UNCHANGED <<clients, local, shutdownPending, lock, ghosts>>

OpenOther(p) ==
    /\ OtherThreads /\ FreeFds(p) # {}
    /\ Put(p, Lowest(FreeFds(p)), Other)
    /\ UNCHANGED <<clients, local, shutdownPending, lock, handed, ghosts>>

CloseOther(p) ==
    /\ \E fd \in Fd : table[p][fd] = Other /\ Put(p, fd, Free)
    /\ UNCHANGED <<clients, local, shutdownPending, lock, handed, ghosts>>

-----------------------------------------------------------------------------
(* OS_Accept, step by step.                                                *)

Goto(p, there) == pc' = [pc EXCEPT ![p] = there]

\* Fault: the variable socket starts as 0.
CallFromZero(p) ==
    /\ pc[p] = "out"
    /\ Goto(p, "lock")
    /\ socket' = [socket EXCEPT ![p] = 0]
    /\ rejected' = [rejected EXCEPT ![p] = FALSE]
    /\ UNCHANGED <<clients, table, sa, errno, shutdownPending, lock, handed,
                   late, interrupted, lockError>>

Call(p) ==
    /\ pc[p] = "out"
    /\ Goto(p, "lock")
    /\ socket' = [socket EXCEPT ![p] = -1]
    /\ rejected' = [rejected EXCEPT ![p] = FALSE]
    /\ UNCHANGED <<clients, table, sa, errno, shutdownPending, lock, handed,
                   late, interrupted, lockError>>

\* Whoever gets -1 should exit (fcgiapp.c:2191-2194).
ReturnError(p) == Goto(p, "failed")

ReturnSocket(p) ==
    /\ Goto(p, "out")
    /\ handed' = [handed EXCEPT ![p] = @ \cup {socket[p]}]

AcquireLock(p) ==
    /\ pc[p] = "lock"
    /\ IF UseLocking THEN lock \in {Nobody, p} /\ lock' = p ELSE UNCHANGED lock
    /\ Goto(p, "check")
    /\ UNCHANGED <<clients, table, socket, sa, errno, shutdownPending, handed,
                   ghosts>>

\* A signal interrupts fcntl(F_SETLKW), or the system refuses the lock.
AcquireLockFails(p) ==
    /\ pc[p] = "lock" /\ UseLocking
    /\ \/ ReturnError(p)
       \/ ~FailOnIntr /\ ~shutdownPending[p] /\ UNCHANGED pc
    /\ UNCHANGED <<clients, table, socket, sa, errno, shutdownPending, lock,
                   handed, ghosts>>

\* Fault: the flag is not looked at before accept(2).
CheckShutdownNot(p) ==
    /\ pc[p] = "check"
    /\ Goto(p, "accept")
    /\ UNCHANGED <<clients, table, socket, sa, errno, shutdownPending, lock,
                   handed, ghosts>>

\* "There's a window here": the flag may be set before accept(2) is entered.
CheckShutdown(p) ==
    /\ pc[p] = "check"
    /\ Goto(p, IF shutdownPending[p] THEN "accepted" ELSE "accept")
    /\ UNCHANGED <<clients, table, socket, sa, errno, shutdownPending, lock,
                   handed, ghosts>>

AcceptConn(p) ==
    /\ pc[p] = "accept"
    /\ FreeFds(p) # {}
    /\ \E c \in backlog :
          /\ backlog' = backlog \ {c}
          /\ Put(p, Lowest(FreeFds(p)), c)
          /\ sa' = [sa EXCEPT ![p] = c]
          /\ late' = IF shutdownPending[p]
                     THEN [late EXCEPT ![p] = @ \cup {c}] ELSE late
    /\ socket' = [socket EXCEPT ![p] = Lowest(FreeFds(p))]
    /\ Goto(p, "accepted")
    /\ UNCHANGED <<setup, good, coming, errno, shutdownPending, lock,
                   handed, rejected, interrupted, lockError>>

\* accept(2) fails: a signal ("intr"), a client that went away ("aborted"), or
\* what is_reasonable_accept_errno does not know ("fatal": no descriptor...).
AcceptFails(p, error) ==
    /\ pc[p] = "accept"
    /\ FreeFds(p) = {} => error = "fatal"
    /\ socket' = [socket EXCEPT ![p] = -1]
    /\ errno' = [errno EXCEPT ![p] = error]
    /\ Goto(p, IF error = "intr" /\ ~FailOnIntr /\ ~shutdownPending[p]
               THEN "check" ELSE "accepted")
    /\ UNCHANGED <<clients, table, sa, shutdownPending, lock, handed, ghosts>>

\* Without a descriptor accept(2) fails at once.
NoDescriptor(p) == FreeFds(p) = {} /\ AcceptFails(p, "fatal")

Reasonable(error) == error = "aborted"

\* Fault: the error path forgets the lock.
UnlockNot(p) == UNCHANGED lock
Unlock(p) == lock' = IF UseLocking THEN Nobody ELSE lock

\* Fault: only an error that accept(2) left counts, not the shutdown flag.
GiveUpOnError(p) == errno[p] \notin {"none", "aborted"}
GiveUp(p) == shutdownPending[p] \/ ~Reasonable(errno[p])

AfterError(p) ==
    /\ pc[p] = "accepted" /\ socket[p] < 0
    /\ IF GiveUp(p)
       THEN ReturnError(p) /\ Unlock(p) /\ UNCHANGED errno
       ELSE /\ Goto(p, "check")
            /\ errno' = [errno EXCEPT ![p] = "none"]
            /\ UNCHANGED lock
    /\ UNCHANGED <<clients, table, socket, sa, shutdownPending, handed, ghosts>>

\* Fault: a connection that is turned away is not closed.
CloseNot(p) == UNCHANGED table /\ rejected' = [rejected EXCEPT ![p] = TRUE]

\* close(socket), which leaves the variable socket as it is.
Close(p) ==
    /\ Put(p, socket[p], Free)
    /\ rejected' = [rejected EXCEPT ![p] = TRUE]

\* The address is the one that the last accept(2) stored.
ClientAddrOK(p) == sa[p] \in good

AfterAccept(p) ==
    /\ pc[p] = "accepted" /\ socket[p] >= 0
    /\ IF Family # "inet" \/ ClientAddrOK(p)
       THEN Goto(p, "release") /\ UNCHANGED <<table, rejected>>
       ELSE Close(p) /\ Goto(p, "check")
    /\ UNCHANGED <<clients, socket, sa, errno, shutdownPending, lock, handed,
                   late, interrupted, lockError>>

ReleaseLock(p) ==
    /\ pc[p] = "release"
    /\ Unlock(p)
    /\ Goto(p, "keeper")
    /\ UNCHANGED <<clients, table, socket, sa, errno, shutdownPending, handed,
                   ghosts>>

\* Either return gives -1, behind a failed accept(2) or with a connection.
ReleaseLockFails(p) ==
    /\ UseLocking
    /\ \/ pc[p] = "release"
       \/ pc[p] = "accepted" /\ socket[p] < 0 /\ GiveUp(p)
    /\ ReturnError(p)
    /\ lockError' = TRUE
    /\ UNCHANGED <<clients, table, socket, sa, errno, shutdownPending, lock,
                   handed, late, rejected, interrupted>>

\* select(2), unless a signal interrupts it: a closed descriptor fails, another
\* thread's may be readable.
IsAfUnixKeeper(p) ==
    \/ table[p][socket[p]] \in good
    \/ table[p][socket[p]] = Other

Keep(p) ==
    /\ pc[p] = "keeper"
    /\ Family = "unix" => IsAfUnixKeeper(p)
    /\ ReturnSocket(p)
    /\ UNCHANGED <<clients, table, socket, sa, errno, shutdownPending, lock,
                   ghosts>>

Drop(p) ==
    /\ pc[p] = "keeper" /\ Family = "unix"
    /\ table[p][socket[p]] \notin good
    /\ Close(p)
    /\ Goto(p, "lock")
    /\ UNCHANGED <<clients, socket, sa, errno, shutdownPending, lock, handed,
                   late, interrupted, lockError>>

\* select(2) is interrupted by a signal, which is_af_unix_keeper takes for a
\* client that sends nothing: a good one is closed.
DropInterrupted(p) ==
    /\ pc[p] = "keeper" /\ Family = "unix"
    /\ table[p][socket[p]] \in good
    /\ Close(p)
    /\ Goto(p, "lock")
    /\ interrupted' = interrupted \cup {table[p][socket[p]]}
    /\ UNCHANGED <<clients, socket, sa, errno, shutdownPending, lock, handed,
                   late, lockError>>

-----------------------------------------------------------------------------
(* OS_Sigusr1Handler.  The system call that it interrupts, if any, fails in *)
(* AcquireLockFails, AcceptFails or DropInterrupted.                       *)

OS_ShutdownPending(p) ==
    /\ ~shutdownPending[p]
    /\ shutdownPending' = [shutdownPending EXCEPT ![p] = TRUE]
    /\ UNCHANGED <<clients, table, local, lock, handed, ghosts>>

\* What runs on by itself.
Step(p) ==
    \/ AcquireLock(p) \/ CheckShutdown(p) \/ AcceptConn(p) \/ NoDescriptor(p)
    \/ AfterError(p) \/ AfterAccept(p) \/ ReleaseLock(p) \/ Keep(p) \/ Drop(p)

Error(p) ==
    \/ AcquireLockFails(p) \/ ReleaseLockFails(p) \/ DropInterrupted(p)
    \/ \E error \in {"intr", "aborted", "fatal"} : AcceptFails(p, error)

Next ==
    \/ \E c \in Conn : Connect(c)
    \/ \E p \in Workers :
          \/ Call(p) \/ Step(p) \/ Error(p)
          \/ IpcClose(p) \/ OpenOther(p) \/ CloseOther(p)
          \/ OS_ShutdownPending(p)

Spec == Init /\ [][Next]_vars

\* Each process runs, its threads finish their requests, and it accepts again
\* (-[CGIApplication run]); accept(2), with clients waiting, is not interrupted
\* or failed by aborted connections forever.
FairSpec ==
    /\ Spec
    /\ \A p \in Proc : /\ WF_vars(Call(p)) /\ WF_vars(IpcClose(p))
                       /\ WF_vars(Step(p)) /\ SF_vars(AcceptConn(p))

-----------------------------------------------------------------------------
(* Properties.                                                             *)

\* Every variable has its type.
TypeOK ==
    /\ setup \in Setups
    /\ good \subseteq Conn /\ coming \subseteq Conn /\ backlog \subseteq Conn
    /\ table \in [Proc -> [Fd -> Conn \cup {Free, Other}]]
    /\ pc \in [Proc -> {"absent", "out", "lock", "check", "accept",
                        "accepted", "release", "keeper", "failed"}]
    /\ socket \in [Proc -> {-1} \cup Fd]
    /\ sa \in [Proc -> Conn \cup {Nobody}]
    /\ errno \in [Proc -> {"none", "intr", "aborted", "fatal"}]
    /\ shutdownPending \in [Proc -> BOOLEAN]
    /\ lock \in Proc \cup {Nobody}
    /\ handed \in [Proc -> SUBSET Fd]
    /\ late \in [Proc -> SUBSET Conn]
    /\ rejected \in [Proc -> BOOLEAN]
    /\ interrupted \subseteq good
    /\ lockError \in BOOLEAN

Inside == {"check", "accept", "accepted", "release"}

\* The lock is held exactly around accept(2): no two processes are in it, and
\* no way out of OS_Accept, retry, error or shutdown, leaves the lock behind.
LockCoversAccept ==
    UseLocking /\ ~lockError => \A p \in Proc : lock = p <=> pc[p] \in Inside

\* Every connection that a process holds is the one that OS_Accept is busy
\* with or one that it returned: what is turned away is closed.
NoConnLeaks ==
    ~lockError =>
        \A p \in Proc, fd \in Fd :
            table[p][fd] \in Conn =>
                \/ fd \in handed[p]
                \/ fd = socket[p] /\ pc[p] \in {"accepted", "release", "keeper"}

\* OS_Accept returns no connection of a client that is not approved, and none
\* that could block its first reader for good.
OnlyGoodReturned ==
    \A p \in Proc : \A fd \in handed[p] :
        table[p][fd] \in Conn => table[p][fd] \in good

\* Each connection that is accepted is returned or closed, as it deserves.
ConnectionsEndWell == NoConnLeaks /\ OnlyGoodReturned

\* Once shutdownPending is set, one more connection is accepted at most, in
\* the window before accept(2), however often OS_Accept is called.
OneLateAccept == \A p \in Proc : Cardinality(late[p]) <= 1

\* A connection that should be returned is returned by some process, unless a
\* process is shut down or fails, as it does when it has no descriptor left, or
\* a signal interrupts the wait for the client's first bytes, which loses it.
GoodIsServed ==
    \A c \in Conn :
        c \in backlog /\ c \in good ~>
            \/ \E p \in Proc : \E fd \in handed[p] : table[p][fd] = c
            \/ \E p \in Proc : shutdownPending[p] \/ pc[p] = "failed"
            \/ c \in interrupted

\* After the shutdown signal, a call that has turned no client away returns,
\* unless it waits for the lock or in the window for a connection.
ShutdownReturns ==
    \A p \in Proc :
        shutdownPending[p] /\ ~rejected[p] ~>
            \/ pc[p] = "failed" \/ rejected[p]
            \/ pc[p] = "accept" /\ backlog = {}
            \/ UseLocking /\ pc[p] = "lock" /\ lock # Nobody

\* What OS_Accept is called for comes about: a connection, or the shutdown.
AcceptGoesOn == GoodIsServed /\ ShutdownReturns

-----------------------------------------------------------------------------
(* What the documentation says and the code does not do.                   *)

\* "-1 if the operation fails, otherwise this is a valid IPC fd"
\* (os_unix.c:1140): the number of a connection that is closed already is not.
ReturnsValidFd ==
    \A p \in Proc : \A fd \in handed[p] : table[p][fd] # Other

=============================================================================
