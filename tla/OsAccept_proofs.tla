-------------------------- MODULE OsAccept_proofs --------------------------
(***************************************************************************)
(* TLAPS proofs about OsAccept, for every number of processes, connections *)
(* and descriptors and every build.                                        *)
(***************************************************************************)
EXTENDS OsAccept, FiniteSetTheorems, WellFoundedInduction, TLAPS

-----------------------------------------------------------------------------
(* The inductive invariant.                                                *)

\* Until the shutdown, and whenever accept(2) is entered, the descriptors in
\* use are open connections: no number of them can be handed out again.
HandedAreOpen ==
    \A p \in Proc : ~shutdownPending[p] \/ pc[p] = "accept" =>
        \A fd \in handed[p] : table[p][fd] \in Conn

\* The variable socket between accept(2) and the return is the connection that
\* the address is of, which no one else has; only after the shutdown it may be
\* what a call that turned a client away has left in it.
SocketIsFresh ==
    \A p \in Proc : pc[p] \in {"accepted", "release", "keeper"} /\ socket[p] \in Fd =>
        \/ /\ table[p][socket[p]] = sa[p] /\ sa[p] \in Conn
           /\ socket[p] \notin handed[p]
        \/ shutdownPending[p] /\ table[p][socket[p]] \notin Conn

\* What is left in the variable socket before accept(2) is no connection.
SocketIsStale ==
    \A p \in Proc : pc[p] \in {"lock", "check"} /\ socket[p] \in Fd =>
        table[p][socket[p]] \notin Conn

\* Past the check of its address a client is approved, and has a descriptor.
ClientIsChecked ==
    \A p \in Proc : pc[p] \in {"release", "keeper"} =>
        socket[p] \in Fd /\ (Family = "inet" => sa[p] \in good)

\* After a late connection the process never comes to accept(2) again.
LateIsLast ==
    \A p \in Proc : late[p] # {} =>
        /\ shutdownPending[p] /\ pc[p] # "accept"
        /\ \E c \in Conn : late[p] = {c}

IInv ==
    /\ TypeOK
    /\ LockCoversAccept /\ NoConnLeaks /\ OnlyGoodReturned
    /\ HandedAreOpen /\ SocketIsFresh /\ SocketIsStale /\ ClientIsChecked
    /\ LateIsLast

-----------------------------------------------------------------------------
(* Helpers.                                                                *)

\* accept(2) and open(2) find the lowest free descriptor when there is one.
LEMMA LowestProps ==
    ASSUME NEW p \in Proc, FreeFds(p) # {}
    PROVE  Lowest(FreeFds(p)) \in Fd /\ table[p][Lowest(FreeFds(p))] = Free
<1> DEFINE fds == FreeFds(p)
<1>1. fds \subseteq Nat /\ fds \subseteq Fd
  BY ConfigAssumption DEF FreeFds, Fd
<1>2. PICK x \in fds : \A y \in fds : ~(<<y, x>> \in OpToRel(<, Nat))
  BY <1>1, NatLessThanWellFounded, WFMin
<1>3. \A y \in fds : x <= y
  <2>1. ASSUME NEW y \in Nat, NEW z \in Nat, y < z
        PROVE  <<y, z>> \in OpToRel(<, Nat)
    BY <2>1 DEF OpToRel
  <2>2. ASSUME NEW y \in fds, ~(x <= y)
        PROVE  FALSE
    <3>1. y \in Nat /\ x \in Nat /\ y < x
      BY <1>1, <2>2
    <3> HIDE DEF fds
    <3> QED BY <1>2, <2>1, <3>1
  <2> QED BY <2>2
<1>4. Lowest(fds) \in fds
  BY <1>2, <1>3 DEF Lowest
<1> QED BY <1>4 DEF FreeFds

\* What a store in a descriptor table changes.
LEMMA PutProps ==
    ASSUME TypeOK, NEW p \in Proc, NEW fd \in Fd,
           NEW what \in Conn \cup {Free, Other}, Put(p, fd, what)
    PROVE  /\ table' \in [Proc -> [Fd -> Conn \cup {Free, Other}]]
           /\ \A q \in Proc, f \in Fd :
                 table'[q][f] = IF q = p /\ f = fd THEN what ELSE table[q][f]
BY DEF TypeOK, Put

\* The variable socket is a descriptor or -1.
LEMMA FdProps ==
    /\ -1 \notin Fd
    /\ \A fd \in {-1} \cup Fd : (fd \in Fd <=> fd >= 0) /\ (fd < 0 <=> fd = -1)
BY ConfigAssumption DEF Fd

\* The processes that run are processes.
LEMMA SetupProps ==
    ASSUME TypeOK
    PROVE  /\ Workers \subseteq Proc
           /\ Family \in {"inet", "unix"}
           /\ UseLocking \in BOOLEAN
BY ConfigAssumption DEF TypeOK, Workers, Family, UseLocking

-----------------------------------------------------------------------------
(* Each step preserves the inductive invariant.                            *)

\* A client that connects disturbs no process.
LEMMA ConnectStep ==
    ASSUME IInv, NEW c \in Conn, Connect(c)
    PROVE  IInv'
BY DEF IInv, TypeOK, LockCoversAccept, Inside, NoConnLeaks, OnlyGoodReturned,
       HandedAreOpen, SocketIsFresh, SocketIsStale, ClientIsChecked, LateIsLast,
       Connect, local, ghosts, Family, UseLocking

\* Nobody is inside when the lock is granted.
LEMMA AcquireLockStep ==
    ASSUME IInv, NEW p \in Workers, AcquireLock(p)
    PROVE  IInv'
BY SetupProps, NamesAssumption
   DEF IInv, TypeOK, LockCoversAccept, Inside, NoConnLeaks, OnlyGoodReturned,
       HandedAreOpen, SocketIsFresh, SocketIsStale, ClientIsChecked, LateIsLast,
       AcquireLock, Goto, clients, ghosts, Family, UseLocking

\* accept(2) takes a descriptor that is nobody's, and a late connection is the
\* process's first.
LEMMA AcceptConnStep ==
    ASSUME IInv, NEW p \in Workers, AcceptConn(p)
    PROVE  IInv'
<1> DEFINE fd == Lowest(FreeFds(p))
<1>1. p \in Proc /\ fd \in Fd /\ table[p][fd] = Free /\ Free \notin Conn
  BY SetupProps, LowestProps, NamesAssumption DEF IInv, AcceptConn
<1>2. PICK c \in backlog :
          /\ backlog' = backlog \ {c}
          /\ Put(p, fd, c)
          /\ sa' = [sa EXCEPT ![p] = c]
          /\ late' = IF shutdownPending[p]
                     THEN [late EXCEPT ![p] = @ \cup {c}] ELSE late
  BY DEF AcceptConn
<1>3. /\ table' \in [Proc -> [Fd -> Conn \cup {Free, Other}]]
      /\ \A q \in Proc, f \in Fd :
            table'[q][f] = IF q = p /\ f = fd THEN c ELSE table[q][f]
  <2>1. c \in Conn \cup {Free, Other}
    BY <1>2 DEF IInv, TypeOK
  <2> QED BY <1>1, <1>2, <2>1, PutProps DEF IInv
<1>a. socket' = [socket EXCEPT ![p] = fd]
  BY DEF AcceptConn
<1> HIDE DEF fd
<1>4. TypeOK'
  <2>1. late' \in [Proc -> SUBSET Conn] /\ sa' \in [Proc -> Conn \cup {Nobody}]
    BY <1>2 DEF IInv, TypeOK
  <2>2. backlog' \subseteq Conn /\ socket' \in [Proc -> {-1} \cup Fd]
    BY <1>1, <1>2, <1>a DEF IInv, TypeOK
  <2> QED BY <1>3, <2>1, <2>2 DEF IInv, TypeOK, AcceptConn, Goto
<1>5. LockCoversAccept'
  BY <1>1, <1>2
     DEF IInv, TypeOK, LockCoversAccept, Inside, AcceptConn, Goto, UseLocking
<1>6. NoConnLeaks'
  BY <1>1, <1>2, <1>3, <1>a DEF IInv, TypeOK, NoConnLeaks, AcceptConn, Goto
<1>7. OnlyGoodReturned'
  <2>1. fd \notin handed[p] /\ UNCHANGED <<handed, good>>
    BY <1>1 DEF IInv, HandedAreOpen, AcceptConn
  <2>2. \A q \in Proc : handed[q] \subseteq Fd
    BY DEF IInv, TypeOK
  <2> QED BY <1>1, <1>3, <2>1, <2>2 DEF IInv, OnlyGoodReturned
<1>8. HandedAreOpen'
  BY <1>1, <1>2, <1>3 DEF IInv, TypeOK, HandedAreOpen, AcceptConn, Goto
<1>9. SocketIsFresh' /\ SocketIsStale'
  BY <1>1, <1>2, <1>3, <1>a
     DEF IInv, TypeOK, HandedAreOpen, SocketIsFresh, SocketIsStale, AcceptConn,
         Goto
<1>10. ClientIsChecked'
  BY <1>1, <1>2 DEF IInv, TypeOK, ClientIsChecked, AcceptConn, Goto, Family
<1>11. LateIsLast'
  <2>1. late[p] = {} /\ late[p] \cup {c} = {c} /\ c \in Conn
    BY <1>1, <1>2 DEF IInv, TypeOK, LateIsLast, AcceptConn
  <2>2. \A q \in Proc : late'[q] = late[q] \/ (q = p /\ late'[q] = {c} /\ shutdownPending[p])
    BY <1>1, <1>2, <2>1 DEF IInv, TypeOK
  <2>3. shutdownPending' = shutdownPending /\ pc' = [pc EXCEPT ![p] = "accepted"]
    BY DEF AcceptConn, Goto
  <2>4. pc \in [Proc -> {"absent", "out", "lock", "check", "accept",
                        "accepted", "release", "keeper", "failed"}]
    BY DEF IInv, TypeOK
  <2>5. LateIsLast
    BY DEF IInv
  <2> QED BY <1>1, <2>1, <2>2, <2>3, <2>4, <2>5 DEF LateIsLast
<1> QED BY <1>4, <1>5, <1>6, <1>7, <1>8, <1>9, <1>10, <1>11 DEF IInv

\* A new call forgets the variable socket.
LEMMA CallStep ==
    ASSUME IInv, NEW p \in Workers, Call(p)
    PROVE  IInv'
<1>1. p \in Proc
  BY SetupProps DEF IInv
<1>2. TypeOK'
  BY <1>1, FdProps, NamesAssumption DEF IInv, TypeOK, Call, Goto, clients
<1>3. LockCoversAccept'
  BY <1>1, FdProps, NamesAssumption
     DEF IInv, TypeOK, LockCoversAccept, Inside, UseLocking, Call, Goto,
         clients
<1>4. NoConnLeaks'
  BY <1>1, FdProps, NamesAssumption
     DEF IInv, TypeOK, NoConnLeaks, Call, Goto, clients
<1>5. OnlyGoodReturned'
  BY <1>1, FdProps, NamesAssumption
     DEF IInv, TypeOK, OnlyGoodReturned, HandedAreOpen, Call, Goto, clients
<1>6. HandedAreOpen'
  BY <1>1, FdProps, NamesAssumption
     DEF IInv, TypeOK, HandedAreOpen, Call, Goto, clients
<1>7. SocketIsFresh'
  BY <1>1, FdProps, NamesAssumption
     DEF IInv, TypeOK, SocketIsFresh, SocketIsStale, HandedAreOpen, Call, Goto,
         clients
<1>8. SocketIsStale'
  BY <1>1, FdProps, NamesAssumption
     DEF IInv, TypeOK, SocketIsStale, SocketIsFresh, Call, Goto, clients
<1>9. ClientIsChecked'
  BY <1>1, FdProps, NamesAssumption
     DEF IInv, TypeOK, ClientIsChecked, Family, Call, Goto, clients
<1>10. LateIsLast'
  BY <1>1, FdProps, NamesAssumption
     DEF IInv, TypeOK, LateIsLast, Call, Goto, clients
<1> QED BY <1>2, <1>3, <1>4, <1>5, <1>6, <1>7, <1>8, <1>9, <1>10 DEF IInv

\* A process that gives up on the lock does not have it.
LEMMA AcquireLockFailsStep ==
    ASSUME IInv, NEW p \in Workers, AcquireLockFails(p)
    PROVE  IInv'
<1>1. p \in Proc
  BY SetupProps DEF IInv
<1>2. TypeOK'
  BY <1>1, FdProps, NamesAssumption
     DEF IInv, TypeOK, AcquireLockFails, ReturnError, Goto, clients, ghosts
<1>3. LockCoversAccept'
  BY <1>1, FdProps, NamesAssumption
     DEF IInv, TypeOK, LockCoversAccept, Inside, UseLocking, AcquireLockFails,
         ReturnError, Goto, clients, ghosts
<1>4. NoConnLeaks'
  BY <1>1, FdProps, NamesAssumption
     DEF IInv, TypeOK, NoConnLeaks, AcquireLockFails, ReturnError, Goto,
         clients, ghosts
<1>5. OnlyGoodReturned'
  BY <1>1, FdProps, NamesAssumption
     DEF IInv, TypeOK, OnlyGoodReturned, HandedAreOpen, AcquireLockFails,
         ReturnError, Goto, clients, ghosts
<1>6. HandedAreOpen'
  BY <1>1, FdProps, NamesAssumption
     DEF IInv, TypeOK, HandedAreOpen, AcquireLockFails, ReturnError, Goto,
         clients, ghosts
<1>7. SocketIsFresh'
  BY <1>1, FdProps, NamesAssumption
     DEF IInv, TypeOK, SocketIsFresh, SocketIsStale, HandedAreOpen,
         AcquireLockFails, ReturnError, Goto, clients, ghosts
<1>8. SocketIsStale'
  BY <1>1, FdProps, NamesAssumption
     DEF IInv, TypeOK, SocketIsStale, SocketIsFresh, AcquireLockFails,
         ReturnError, Goto, clients, ghosts
<1>9. ClientIsChecked'
  BY <1>1, FdProps, NamesAssumption
     DEF IInv, TypeOK, ClientIsChecked, Family, AcquireLockFails, ReturnError,
         Goto, clients, ghosts
<1>10. LateIsLast'
  BY <1>1, FdProps, NamesAssumption
     DEF IInv, TypeOK, LateIsLast, AcquireLockFails, ReturnError, Goto,
         clients, ghosts
<1> QED BY <1>2, <1>3, <1>4, <1>5, <1>6, <1>7, <1>8, <1>9, <1>10 DEF IInv

\* A process that sees the shutdown takes the stale socket along.
LEMMA CheckShutdownStep ==
    ASSUME IInv, NEW p \in Workers, CheckShutdown(p)
    PROVE  IInv'
BY SetupProps, NamesAssumption
   DEF IInv, TypeOK, LockCoversAccept, Inside, NoConnLeaks, OnlyGoodReturned,
       HandedAreOpen, SocketIsFresh, SocketIsStale, ClientIsChecked, LateIsLast,
       CheckShutdown, Goto, clients, ghosts, UseLocking, Family

\* An accept(2) that fails leaves no socket.
LEMMA AcceptFailsStep ==
    ASSUME IInv, NEW p \in Workers, NEW error \in {"intr", "aborted", "fatal"},
           AcceptFails(p, error)
    PROVE  IInv'
<1>1. p \in Proc
  BY SetupProps DEF IInv
<1>2. TypeOK'
  BY <1>1, FdProps, NamesAssumption
     DEF IInv, TypeOK, AcceptFails, Goto, clients, ghosts
<1>3. LockCoversAccept'
  BY <1>1, FdProps, NamesAssumption
     DEF IInv, TypeOK, LockCoversAccept, Inside, UseLocking, AcceptFails, Goto,
         clients, ghosts
<1>4. NoConnLeaks'
  BY <1>1, FdProps, NamesAssumption
     DEF IInv, TypeOK, NoConnLeaks, AcceptFails, Goto, clients, ghosts
<1>5. OnlyGoodReturned'
  BY <1>1, FdProps, NamesAssumption
     DEF IInv, TypeOK, OnlyGoodReturned, HandedAreOpen, AcceptFails, Goto,
         clients, ghosts
<1>6. HandedAreOpen'
  BY <1>1, FdProps, NamesAssumption
     DEF IInv, TypeOK, HandedAreOpen, AcceptFails, Goto, clients, ghosts
<1>7. SocketIsFresh'
  BY <1>1, FdProps, NamesAssumption
     DEF IInv, TypeOK, SocketIsFresh, SocketIsStale, HandedAreOpen,
         AcceptFails, Goto, clients, ghosts
<1>8. SocketIsStale'
  BY <1>1, FdProps, NamesAssumption
     DEF IInv, TypeOK, SocketIsStale, SocketIsFresh, AcceptFails, Goto,
         clients, ghosts
<1>9. ClientIsChecked'
  BY <1>1, FdProps, NamesAssumption
     DEF IInv, TypeOK, ClientIsChecked, Family, AcceptFails, Goto, clients,
         ghosts
<1>10. LateIsLast'
  BY <1>1, FdProps, NamesAssumption
     DEF IInv, TypeOK, LateIsLast, AcceptFails, Goto, clients, ghosts
<1> QED BY <1>2, <1>3, <1>4, <1>5, <1>6, <1>7, <1>8, <1>9, <1>10 DEF IInv

\* The ways out of a failed accept(2) hold the lock or give it back.
LEMMA AfterErrorStep ==
    ASSUME IInv, NEW p \in Workers, AfterError(p)
    PROVE  IInv'
<1>1. p \in Proc
  BY SetupProps DEF IInv
<1>a. socket[p] \notin Fd
  BY <1>1, FdProps DEF IInv, TypeOK, AfterError
<1>2. TypeOK'
  BY <1>1, FdProps, NamesAssumption
     DEF IInv, TypeOK, AfterError, ReturnError, Unlock, Goto, clients, ghosts
<1>3. LockCoversAccept'
  BY <1>1, FdProps, NamesAssumption
     DEF IInv, TypeOK, LockCoversAccept, Inside, UseLocking, AfterError,
         ReturnError, Unlock, Goto, clients, ghosts
<1>4. NoConnLeaks'
  <2>1. /\ UNCHANGED <<table, socket, handed, lockError>>
        /\ \A q \in Proc : q # p => pc'[q] = pc[q]
    BY <1>1 DEF IInv, TypeOK, AfterError, ReturnError, Goto, ghosts
  <2> QED BY <1>1, <1>a, <2>1 DEF IInv, NoConnLeaks
<1>5. OnlyGoodReturned'
  BY <1>1, FdProps, NamesAssumption
     DEF IInv, TypeOK, OnlyGoodReturned, HandedAreOpen, AfterError,
         ReturnError, Unlock, Goto, clients, ghosts
<1>6. HandedAreOpen'
  BY <1>1, FdProps, NamesAssumption
     DEF IInv, TypeOK, HandedAreOpen, AfterError, ReturnError, Unlock, Goto,
         clients, ghosts
<1>7. SocketIsFresh'
  BY <1>1, FdProps, NamesAssumption
     DEF IInv, TypeOK, SocketIsFresh, SocketIsStale, HandedAreOpen, AfterError,
         ReturnError, Unlock, Goto, clients, ghosts
<1>8. SocketIsStale'
  BY <1>1, <1>a
     DEF IInv, TypeOK, SocketIsStale, AfterError, ReturnError, Unlock, Goto,
         clients, ghosts
<1>9. ClientIsChecked'
  BY <1>1, FdProps, NamesAssumption
     DEF IInv, TypeOK, ClientIsChecked, Family, AfterError, ReturnError,
         Unlock, Goto, clients, ghosts
<1>10. LateIsLast'
  BY <1>1, FdProps, NamesAssumption
     DEF IInv, TypeOK, LateIsLast, AfterError, ReturnError, Unlock, Goto,
         clients, ghosts
<1> QED BY <1>2, <1>3, <1>4, <1>5, <1>6, <1>7, <1>8, <1>9, <1>10 DEF IInv

\* The lock is given back on the way out.
LEMMA ReleaseLockStep ==
    ASSUME IInv, NEW p \in Workers, ReleaseLock(p)
    PROVE  IInv'
BY SetupProps, NamesAssumption
   DEF IInv, TypeOK, LockCoversAccept, Inside, NoConnLeaks, OnlyGoodReturned,
       HandedAreOpen, SocketIsFresh, SocketIsStale, ClientIsChecked, LateIsLast,
       ReleaseLock, Unlock, Goto, clients, ghosts, UseLocking, Family

\* A lock that cannot be given back is a lock error.
LEMMA ReleaseLockFailsStep ==
    ASSUME IInv, NEW p \in Workers, ReleaseLockFails(p)
    PROVE  IInv'
BY SetupProps, NamesAssumption
   DEF IInv, TypeOK, LockCoversAccept, Inside, NoConnLeaks, OnlyGoodReturned,
       HandedAreOpen, SocketIsFresh, SocketIsStale, ClientIsChecked, LateIsLast,
       ReleaseLockFails, ReturnError, Goto, clients, UseLocking, Family

\* What is returned is the approved connection, or no connection at all.
LEMMA KeepStep ==
    ASSUME IInv, NEW p \in Workers, Keep(p)
    PROVE  IInv'
BY SetupProps, NamesAssumption
   DEF IInv, TypeOK, LockCoversAccept, Inside, NoConnLeaks, OnlyGoodReturned,
       HandedAreOpen, SocketIsFresh, SocketIsStale, ClientIsChecked, LateIsLast,
       Keep, IsAfUnixKeeper, ReturnSocket, Goto, clients, ghosts, UseLocking, Family

\* The signal only weakens what is known.
LEMMA ShutdownPendingStep ==
    ASSUME IInv, NEW p \in Workers, OS_ShutdownPending(p)
    PROVE  IInv'
BY SetupProps, NamesAssumption
   DEF IInv, TypeOK, LockCoversAccept, Inside, NoConnLeaks, OnlyGoodReturned,
       HandedAreOpen, SocketIsFresh, SocketIsStale, ClientIsChecked, LateIsLast,
       OS_ShutdownPending, clients, local, ghosts, UseLocking, Family

\* A connection that is closed is in use no more.
LEMMA IpcCloseStep ==
    ASSUME IInv, NEW p \in Workers, IpcClose(p)
    PROVE  IInv'
<1>1. p \in Proc
  BY SetupProps DEF IInv
<1>2. PICK fd \in handed[p] : /\ Put(p, fd, Free) /\ fd \in Fd
                             /\ handed' = [handed EXCEPT ![p] = @ \ {fd}]
  BY <1>1 DEF IInv, TypeOK, IpcClose
<1>3. /\ table' \in [Proc -> [Fd -> Conn \cup {Free, Other}]]
      /\ \A q \in Proc, f \in Fd :
            table'[q][f] = IF q = p /\ f = fd THEN Free ELSE table[q][f]
  BY <1>1, <1>2, PutProps DEF IInv
<1>4. TypeOK'
  BY <1>1, <1>2, <1>3, FdProps, NamesAssumption
     DEF IInv, TypeOK, IpcClose, clients, local, ghosts
<1>5. LockCoversAccept'
  BY <1>1, <1>2, <1>3, FdProps, NamesAssumption
     DEF IInv, TypeOK, LockCoversAccept, Inside, UseLocking, IpcClose, clients,
         local, ghosts
<1>6. NoConnLeaks'
  BY <1>1, <1>2, <1>3, FdProps, NamesAssumption
     DEF IInv, TypeOK, NoConnLeaks, IpcClose, clients, local, ghosts
<1>7. OnlyGoodReturned'
  BY <1>1, <1>2, <1>3, FdProps, NamesAssumption
     DEF IInv, TypeOK, OnlyGoodReturned, HandedAreOpen, IpcClose, clients,
         local, ghosts
<1>8. HandedAreOpen'
  BY <1>1, <1>2, <1>3, FdProps, NamesAssumption
     DEF IInv, TypeOK, HandedAreOpen, IpcClose, clients, local, ghosts
<1>9. SocketIsFresh'
  BY <1>1, <1>2, <1>3, FdProps, NamesAssumption
     DEF IInv, TypeOK, SocketIsFresh, SocketIsStale, HandedAreOpen, IpcClose,
         clients, local, ghosts
<1>10. SocketIsStale'
  BY <1>1, <1>2, <1>3, FdProps, NamesAssumption
     DEF IInv, TypeOK, SocketIsStale, SocketIsFresh, IpcClose, clients, local,
         ghosts
<1>11. ClientIsChecked'
  BY <1>1, <1>2, <1>3, FdProps, NamesAssumption
     DEF IInv, TypeOK, ClientIsChecked, Family, IpcClose, clients, local,
         ghosts
<1>12. LateIsLast'
  BY <1>1, <1>2, <1>3, FdProps, NamesAssumption
     DEF IInv, TypeOK, LateIsLast, IpcClose, clients, local, ghosts
<1> QED BY <1>4, <1>5, <1>6, <1>7, <1>8, <1>9, <1>10, <1>11, <1>12 DEF IInv

\* Another thread takes a descriptor that is free.
LEMMA OpenOtherStep ==
    ASSUME IInv, NEW p \in Workers, OpenOther(p)
    PROVE  IInv'
<1>1. p \in Proc
  BY SetupProps DEF IInv
<1> DEFINE fd == Lowest(FreeFds(p))
<1>2. Put(p, fd, Other) /\ fd \in Fd /\ table[p][fd] = Free
  BY <1>1, LowestProps DEF OpenOther
<1>3. /\ table' \in [Proc -> [Fd -> Conn \cup {Free, Other}]]
      /\ \A q \in Proc, f \in Fd :
            table'[q][f] = IF q = p /\ f = fd THEN Other ELSE table[q][f]
  BY <1>1, <1>2, PutProps DEF IInv
<1>4. UNCHANGED <<setup, good, coming, backlog, pc, socket, sa, errno,
                  shutdownPending, lock, handed, late, rejected, interrupted,
                  lockError>>
  BY DEF OpenOther, clients, local, ghosts
<1> HIDE DEF fd
<1>5. TypeOK' /\ LockCoversAccept' /\ ClientIsChecked' /\ LateIsLast'
  BY <1>3, <1>4 DEF IInv, TypeOK, LockCoversAccept, Inside, UseLocking, Family,
                    ClientIsChecked, LateIsLast
<1>6. NoConnLeaks' /\ OnlyGoodReturned'
  BY <1>1, <1>2, <1>3, <1>4, NamesAssumption
     DEF IInv, TypeOK, NoConnLeaks, OnlyGoodReturned
<1>7. HandedAreOpen'
  BY <1>1, <1>2, <1>3, <1>4, NamesAssumption DEF IInv, TypeOK, HandedAreOpen
<1>8. SocketIsFresh'
  BY <1>1, <1>2, <1>3, <1>4, NamesAssumption DEF IInv, TypeOK, SocketIsFresh
<1>9. SocketIsStale'
  BY <1>1, <1>2, <1>3, <1>4, NamesAssumption DEF IInv, TypeOK, SocketIsStale
<1> QED BY <1>5, <1>6, <1>7, <1>8, <1>9 DEF IInv

\* Another thread closes no connection.
LEMMA CloseOtherStep ==
    ASSUME IInv, NEW p \in Workers, CloseOther(p)
    PROVE  IInv'
<1>1. p \in Proc
  BY SetupProps DEF IInv
<1>2. PICK fd \in Fd : table[p][fd] = Other /\ Put(p, fd, Free)
  BY DEF CloseOther
<1>3. /\ table' \in [Proc -> [Fd -> Conn \cup {Free, Other}]]
      /\ \A q \in Proc, f \in Fd :
            table'[q][f] = IF q = p /\ f = fd THEN Free ELSE table[q][f]
  BY <1>1, <1>2, PutProps DEF IInv
<1>4. UNCHANGED <<setup, good, coming, backlog, pc, socket, sa, errno,
                  shutdownPending, lock, handed, late, rejected, interrupted,
                  lockError>>
  BY DEF CloseOther, clients, local, ghosts
<1>5. TypeOK' /\ LockCoversAccept' /\ ClientIsChecked' /\ LateIsLast'
  BY <1>3, <1>4 DEF IInv, TypeOK, LockCoversAccept, Inside, UseLocking, Family,
                    ClientIsChecked, LateIsLast
<1>6. NoConnLeaks' /\ OnlyGoodReturned'
  BY <1>1, <1>2, <1>3, <1>4, NamesAssumption
     DEF IInv, TypeOK, NoConnLeaks, OnlyGoodReturned
<1>7. HandedAreOpen'
  BY <1>1, <1>2, <1>3, <1>4, NamesAssumption DEF IInv, TypeOK, HandedAreOpen
<1>8. SocketIsFresh'
  BY <1>1, <1>2, <1>3, <1>4, NamesAssumption DEF IInv, TypeOK, SocketIsFresh
<1>9. SocketIsStale'
  BY <1>1, <1>2, <1>3, <1>4, NamesAssumption DEF IInv, TypeOK, SocketIsStale
<1> QED BY <1>5, <1>6, <1>7, <1>8, <1>9 DEF IInv

\* A client that is not approved is closed, and the number is stale.
LEMMA TurnAwayStep ==
    ASSUME IInv, NEW p \in Workers, AfterAccept(p),
           Family = "inet", ~ClientAddrOK(p)
    PROVE  IInv'
<1>1. p \in Proc
  BY SetupProps DEF IInv
<1> DEFINE fd == socket[p]
<1>2. Put(p, fd, Free) /\ fd \in Fd
  BY <1>1 DEF IInv, TypeOK, AfterAccept, Close
<1>3. /\ table' \in [Proc -> [Fd -> Conn \cup {Free, Other}]]
      /\ \A q \in Proc, f \in Fd :
            table'[q][f] = IF q = p /\ f = fd THEN Free ELSE table[q][f]
  BY <1>1, <1>2, PutProps DEF IInv
<1>4. TypeOK'
  BY <1>1, <1>2, <1>3, FdProps, NamesAssumption
     DEF IInv, TypeOK, AfterAccept, Close, Goto, clients
<1>5. LockCoversAccept'
  BY <1>1, <1>2, <1>3, FdProps, NamesAssumption
     DEF IInv, TypeOK, LockCoversAccept, Inside, UseLocking, AfterAccept,
         Close, Goto, clients
<1>6. NoConnLeaks'
  <2>1. /\ UNCHANGED <<socket, handed, lockError>> /\ fd = socket[p]
        /\ \A q \in Proc : q # p => pc'[q] = pc[q]
    BY <1>1 DEF IInv, TypeOK, AfterAccept, Goto
  <2> HIDE DEF fd
  <2> QED BY <1>1, <1>2, <1>3, <2>1, NamesAssumption DEF IInv, NoConnLeaks
<1>7. OnlyGoodReturned'
  BY <1>1, <1>2, <1>3, FdProps, NamesAssumption
     DEF IInv, TypeOK, OnlyGoodReturned, HandedAreOpen, AfterAccept, Close,
         Goto, clients
<1>8. HandedAreOpen'
  <2>1. ~shutdownPending[p] => fd \notin handed[p]
    BY <1>1, <1>2 DEF IInv, SocketIsFresh, AfterAccept
  <2> HIDE DEF fd
  <2>2. /\ UNCHANGED <<shutdownPending, handed>>
        /\ pc' = [pc EXCEPT ![p] = "check"]
    BY DEF AfterAccept, Goto
  <2> QED BY <1>1, <1>2, <1>3, <2>1, <2>2 DEF IInv, TypeOK, HandedAreOpen
<1>9. SocketIsFresh'
  BY <1>1, <1>2, <1>3, FdProps, NamesAssumption
     DEF IInv, TypeOK, SocketIsFresh, SocketIsStale, HandedAreOpen,
         AfterAccept, Close, Goto, clients
<1>10. SocketIsStale'
  BY <1>1, <1>2, <1>3, FdProps, NamesAssumption
     DEF IInv, TypeOK, SocketIsStale, SocketIsFresh, AfterAccept, Close, Goto,
         clients
<1>11. ClientIsChecked'
  BY <1>1, <1>2, <1>3, FdProps, NamesAssumption
     DEF IInv, TypeOK, ClientIsChecked, Family, AfterAccept, Close, Goto,
         clients
<1>12. LateIsLast'
  BY <1>1, <1>2, <1>3, FdProps, NamesAssumption
     DEF IInv, TypeOK, LateIsLast, AfterAccept, Close, Goto, clients
<1> QED BY <1>4, <1>5, <1>6, <1>7, <1>8, <1>9, <1>10, <1>11, <1>12 DEF IInv

\* A client that is approved has been checked.
LEMMA LetInStep ==
    ASSUME IInv, NEW p \in Workers, AfterAccept(p),
           Family # "inet" \/ ClientAddrOK(p)
    PROVE  IInv'
<1>1. p \in Proc /\ pc[p] = "accepted" /\ socket[p] \in Fd
  BY SetupProps, FdProps DEF IInv, TypeOK, AfterAccept
<1>2. /\ pc' = [pc EXCEPT ![p] = "release"]
      /\ UNCHANGED <<table, rejected, interrupted, clients, socket, sa, errno,
                     shutdownPending, lock, handed, late, lockError>>
  BY DEF AfterAccept, Goto
<1>3. Family = "inet" => sa[p] \in good
  BY DEF ClientAddrOK
<1>4. TypeOK' /\ LockCoversAccept'
  BY <1>1, <1>2 DEF IInv, TypeOK, LockCoversAccept, Inside, UseLocking, clients
<1>5. NoConnLeaks' /\ OnlyGoodReturned' /\ HandedAreOpen'
  BY <1>1, <1>2 DEF IInv, TypeOK, NoConnLeaks, OnlyGoodReturned, HandedAreOpen, clients
<1>6. SocketIsFresh' /\ SocketIsStale'
  BY <1>1, <1>2 DEF IInv, TypeOK, SocketIsFresh, SocketIsStale
<1>7. ClientIsChecked'
  BY <1>1, <1>2, <1>3 DEF IInv, TypeOK, ClientIsChecked, Family, clients
<1>8. LateIsLast'
  BY <1>1, <1>2 DEF IInv, TypeOK, LateIsLast
<1> QED BY <1>4, <1>5, <1>6, <1>7, <1>8 DEF IInv

\* A Unix client that sends nothing, or whose select(2) is interrupted, is closed,
\* and the number is stale.
LEMMA DropStep ==
    ASSUME IInv, NEW p \in Workers, Drop(p) \/ DropInterrupted(p)
    PROVE  IInv'
<1>1. p \in Proc
  BY SetupProps DEF IInv
<1> DEFINE fd == socket[p]
<1>2. Put(p, fd, Free) /\ fd \in Fd
  BY <1>1 DEF IInv, ClientIsChecked, Drop, DropInterrupted, Close
<1>3. /\ table' \in [Proc -> [Fd -> Conn \cup {Free, Other}]]
      /\ \A q \in Proc, f \in Fd :
            table'[q][f] = IF q = p /\ f = fd THEN Free ELSE table[q][f]
  BY <1>1, <1>2, PutProps DEF IInv
<1>4. /\ pc[p] = "keeper" /\ pc' = [pc EXCEPT ![p] = "lock"]
      /\ rejected' = [rejected EXCEPT ![p] = TRUE]
      /\ UNCHANGED <<setup, good, coming, backlog, socket, sa, errno,
                     shutdownPending, lock, handed, late, lockError>>
  BY DEF Drop, DropInterrupted, Close, Goto, clients
<1>5. interrupted' \subseteq good
  BY DEF IInv, TypeOK, Drop, DropInterrupted
<1> HIDE DEF fd
<1>6. TypeOK'
  BY <1>1, <1>3, <1>4, <1>5 DEF IInv, TypeOK
<1>7. LockCoversAccept'
  BY <1>1, <1>4 DEF IInv, TypeOK, LockCoversAccept, Inside, UseLocking
<1>8. NoConnLeaks' /\ OnlyGoodReturned'
  <2>1. fd = socket[p]
    BY DEF fd
  <2>2. NoConnLeaks'
    BY <1>1, <1>2, <1>3, <1>4, <2>1, NamesAssumption DEF IInv, TypeOK, NoConnLeaks
  <2>3. OnlyGoodReturned'
    BY <1>1, <1>2, <1>3, <1>4, NamesAssumption DEF IInv, TypeOK, OnlyGoodReturned
  <2> QED BY <2>2, <2>3
<1>9. HandedAreOpen'
  <2>1. ~shutdownPending[p] => fd \notin handed[p]
    BY <1>1, <1>2, <1>4 DEF IInv, SocketIsFresh, fd
  <2> QED BY <1>1, <1>2, <1>3, <1>4, <2>1 DEF IInv, TypeOK, HandedAreOpen
<1>10. SocketIsFresh' /\ SocketIsStale'
  <2>1. fd = socket[p]
    BY DEF fd
  <2>2. \A q \in Proc : q # p => pc'[q] = pc[q] /\ table'[q] = table[q]
    BY <1>1, <1>3, <1>4 DEF IInv, TypeOK
  <2>3. pc'[p] = "lock" /\ table'[p][socket[p]] \notin Conn
    BY <1>1, <1>2, <1>3, <1>4, <2>1, NamesAssumption DEF IInv, TypeOK
  <2>4. SocketIsFresh'
    BY <1>1, <1>4, <2>2, <2>3 DEF IInv, SocketIsFresh
  <2>5. SocketIsStale'
    BY <1>1, <1>4, <2>2, <2>3 DEF IInv, SocketIsStale
  <2> QED BY <2>4, <2>5
<1>11. ClientIsChecked'
  BY <1>1, <1>4 DEF IInv, TypeOK, ClientIsChecked, Family
<1>12. LateIsLast'
  BY <1>1, <1>4 DEF IInv, TypeOK, LateIsLast
<1> QED BY <1>6, <1>7, <1>8, <1>9, <1>10, <1>11, <1>12 DEF IInv

-----------------------------------------------------------------------------
(* The specification.                                                      *)

\* OS_Accept starts with no descriptor in use, no lock and no late connection.
LEMMA InitIInv == Init => IInv
<1> SUFFICES ASSUME Init PROVE IInv
  OBVIOUS
<1>1. TypeOK
  BY ConfigAssumption DEF Init, TypeOK
<1>2. LockCoversAccept
  BY NamesAssumption DEF Init, LockCoversAccept, Inside
<1>3. NoConnLeaks /\ OnlyGoodReturned /\ HandedAreOpen
  BY NamesAssumption DEF Init, NoConnLeaks, OnlyGoodReturned, HandedAreOpen
<1>4. SocketIsFresh /\ SocketIsStale /\ ClientIsChecked
  BY DEF Init, SocketIsFresh, SocketIsStale, ClientIsChecked
<1>5. LateIsLast
  BY DEF Init, LateIsLast
<1> QED BY <1>1, <1>2, <1>3, <1>4, <1>5 DEF IInv

\* No step of a client, a process or another thread breaks the invariant.
LEMMA NextIInv == IInv /\ [Next]_vars => IInv'
<1> SUFFICES ASSUME IInv, [Next]_vars PROVE IInv'
  OBVIOUS
<1>1. ASSUME NEW c \in Conn, Connect(c) PROVE IInv'
  BY <1>1, ConnectStep
<1>2. ASSUME NEW p \in Workers, Call(p) PROVE IInv'
  BY <1>2, CallStep
<1>3. ASSUME NEW p \in Workers, Step(p) PROVE IInv'
  <2>1. ASSUME AfterAccept(p) PROVE IInv'
    BY <1>3, <2>1, TurnAwayStep, LetInStep
  <2>2. ASSUME NoDescriptor(p) PROVE IInv'
    BY <1>3, <2>2, AcceptFailsStep DEF NoDescriptor
  <2> QED BY <1>3, <2>1, <2>2, AcquireLockStep, CheckShutdownStep, AcceptConnStep,
             AfterErrorStep, ReleaseLockStep, KeepStep, DropStep DEF Step
<1>4. ASSUME NEW p \in Workers, Error(p) PROVE IInv'
  BY <1>4, AcquireLockFailsStep, ReleaseLockFailsStep, AcceptFailsStep, DropStep
     DEF Error
<1>5. ASSUME NEW p \in Workers, IpcClose(p) \/ OpenOther(p) \/ CloseOther(p)
      PROVE  IInv'
  BY <1>5, IpcCloseStep, OpenOtherStep, CloseOtherStep
<1>6. ASSUME NEW p \in Workers, OS_ShutdownPending(p) PROVE IInv'
  BY <1>6, ShutdownPendingStep
<1>7. CASE UNCHANGED vars
  BY <1>7 DEF IInv, TypeOK, LockCoversAccept, Inside, NoConnLeaks, OnlyGoodReturned,
              HandedAreOpen, SocketIsFresh, SocketIsStale, ClientIsChecked, LateIsLast,
              Family, UseLocking, vars, clients, local, ghosts
<1> QED BY <1>1, <1>2, <1>3, <1>4, <1>5, <1>6, <1>7 DEF Next

\* The inductive invariant of the processes that share a listening socket.
THEOREM IInvariant == Spec => []IInv
BY InitIInv, NextIInv, PTL DEF Spec

\* Every variable has its type: in particular a socket is a number of the
\* process's table (os_unix.c:1150).
THEOREM TypeCorrect == Spec => []TypeOK
<1>1. IInv => TypeOK
  BY DEF IInv
<1> QED BY <1>1, IInvariant, PTL

\* Mutual exclusion around accept(2), and every way out of it gives the lock
\* back (AcquireLock and ReleaseLock, os_unix.c:992-1051).
THEOREM MutualExclusion == Spec => []LockCoversAccept
<1>1. IInv => LockCoversAccept
  BY DEF IInv
<1> QED BY <1>1, IInvariant, PTL

\* Whatever the other threads do with descriptors and whenever the shutdown
\* comes, no connection leaks and only approved clients are returned
\* (os_unix.c:1160-1215).
THEOREM EndWell == Spec => []ConnectionsEndWell
<1>1. IInv => ConnectionsEndWell
  BY DEF IInv, ConnectionsEndWell
<1> QED BY <1>1, IInvariant, PTL

\* The window between the look at shutdownPending and accept(2) lets one
\* connection through at most (os_unix.c:1166-1169).
THEOREM OneLate == Spec => []OneLateAccept
<1>1. IInv => OneLateAccept
  <2> SUFFICES ASSUME IInv, NEW p \in Proc
               PROVE  Cardinality(late[p]) <= 1
    BY DEF OneLateAccept
  <2>1. CASE late[p] = {}
    BY <2>1, FS_EmptySet
  <2>2. CASE late[p] # {}
    <3>1. PICK c \in Conn : late[p] = {c}
      BY <2>2 DEF IInv, LateIsLast
    <3> QED BY <3>1, FS_Singleton
  <2> QED BY <2>1, <2>2
<1> QED BY <1>1, IInvariant, PTL
=============================================================================
