--------------------------- MODULE AsyncIo_proofs ---------------------------
(***************************************************************************)
(* TLAPS proofs about AsyncIo, for every set of descriptors, every initial *)
(* size of the table and every number of registrations.                    *)
(***************************************************************************)
EXTENDS AsyncIo, FiniteSetTheorems, WellFoundedInduction, TLAPS

-----------------------------------------------------------------------------
(* The inductive invariant.                                                *)

Used == {ix \in DOMAIN table : table[ix].inUse}

\* What TypeOK leaves open.
MoreTypes ==
    /\ IsFiniteSet(DOMAIN table)
    /\ asyncIoInUse \in BOOLEAN
    /\ nextProc \in 1 .. MaxProcs + 1 /\ due \subseteq 1 .. nextProc - 1
    /\ open \subseteq Fds /\ shut \subseteq Fds

\* The table never loses the entry that OS_AsyncReadStdin does not grow it for.
TableStarts == 0 \in DOMAIN table

\* OS_Close may leave the table alone as long as it has never been used.
IdleIsEmpty == ~asyncIoInUse => Used = {} /\ fdSet = {} /\ posted = {}

\* An entry in use is an event's, and no two hold the same registration.
EntriesDiffer ==
    /\ Used \subseteq Events
    /\ \A ix, jx \in Used : table[ix].procPtr = table[jx].procPtr => ix = jx

\* What is posted is waited for, unless OS_CloseRead cancelled it; only then
\* may it be selected too.
PostedOrCancelled ==
    \A ix \in posted :
        \/ ix \in Used /\ ix \notin fdSet
        \/ Direction(ix) = Rd /\ Fd(ix) \in shut

\* What is posted would still not block, and its descriptor is open.
PostedIsReady ==
    /\ posted \subseteq ready
    /\ \A ix \in ready : ix \in Events /\ Fd(ix) \in open

\* Each registration is selected once and counted once.
CountedOnce ==
    \A d \in {Rd, Wr} :
        numPosted[d] + Cardinality({ix \in fdSet : Direction(ix) = d}) <= nextProc - 1

IInv ==
    /\ TypeOK /\ MoreTypes /\ NothingIsLost
    /\ TableStarts /\ IdleIsEmpty /\ EntriesDiffer /\ PostedOrCancelled /\ PostedIsReady
    /\ CountedOnce

-----------------------------------------------------------------------------
(* Numbers and finite sets.                                                *)

\* A set of natural numbers that is not empty has a smallest element.
LEMMA MinProps ==
    ASSUME NEW S \in SUBSET Nat, S # {}
    PROVE  Min(S) \in S /\ \A x \in S : Min(S) <= x
<1>1. PICK x \in S : \A y \in S : ~(<<y, x>> \in OpToRel(<, Nat))
  BY NatLessThanWellFounded, WFMin
<1>2. ASSUME NEW y \in Nat, NEW z \in Nat, y < z
      PROVE  <<y, z>> \in OpToRel(<, Nat)
  BY <1>2 DEF OpToRel
<1>3. \A y \in S : x <= y
  <2>1. ASSUME NEW y \in S, ~(x <= y) PROVE FALSE
    <3>1. y \in Nat /\ x \in Nat /\ y < x
      BY <2>1
    <3> QED BY <1>1, <1>2, <3>1
  <2> QED BY <2>1
<1> QED BY <1>3 DEF Min

\* A finite one has a largest: of those that had none, one with the fewest
\* elements would have none either with any element left out.
LEMMA MaxProps ==
    ASSUME NEW S \in SUBSET Nat, S # {}, IsFiniteSet(S)
    PROVE  Max(S) \in S /\ \A x \in S : x <= Max(S)
<1> DEFINE Bounded(T) == \E m \in T : \A x \in T : x <= m
           B == {n \in Nat : \E T \in SUBSET S :
                                T # {} /\ Cardinality(T) = n /\ ~Bounded(T)}
<1>1. B = {}
  <2> SUFFICES ASSUME B # {} PROVE FALSE
    OBVIOUS
  <2>1. Min(B) \in B /\ \A n \in B : Min(B) <= n
    <3>1. B \in SUBSET Nat
      OBVIOUS
    <3> HIDE DEF B
    <3> QED BY <3>1, MinProps
  <2>2. PICK T \in SUBSET S : T # {} /\ Cardinality(T) = Min(B) /\ ~Bounded(T)
    BY <2>1
  <2>3. PICK x \in T : TRUE
    BY <2>2
  <2> DEFINE U == T \ {x}
  <2>4. IsFiniteSet(T) /\ Cardinality(T) \in Nat
    BY <2>2, FS_Subset, FS_CardinalityType
  <2>5. IsFiniteSet(U) /\ Cardinality(U) = Cardinality(T) - 1 /\ Cardinality(U) \in Nat
    <3>1. IsFiniteSet(U) /\ Cardinality(U) = Cardinality(T) - 1
      BY <2>3, <2>4, FS_RemoveElement
    <3>2. Cardinality(U) \in Nat
      BY <3>1, FS_CardinalityType
    <3> QED BY <3>1, <3>2
  <2>6. Cardinality(U) \notin B
    <3>1. Cardinality(T) = Min(B) /\ ~(Cardinality(T) <= Cardinality(U))
      BY <2>2, <2>4, <2>5
    <3> HIDE DEF B, U
    <3> QED BY <2>1, <3>1
  <2>7. U # {}
    BY <2>2, <2>3
  <2>8. Bounded(U)
    <3>1. U \in SUBSET S
      OBVIOUS
    <3> QED BY <2>5, <2>6, <2>7, <3>1
  <2>9. PICK m \in U : \A y \in U : y <= m
    BY <2>8
  <2>10. \A y \in T : y <= IF x <= m THEN m ELSE x
    BY <2>9, <2>3
  <2>11. (IF x <= m THEN m ELSE x) \in T
    BY <2>9, <2>3
  <2> QED BY <2>2, <2>10, <2>11
<1>2. Bounded(S)
  <2>1. Cardinality(S) \in Nat
    BY FS_CardinalityType
  <2> QED BY <1>1, <2>1
<1>3. PICK m \in S : \A x \in S : x <= m
  BY <1>2
<1>4. m >= m /\ \A x \in S : m >= x
  BY <1>3
<1>5. Max(S) \in S /\ \A x \in S : Max(S) >= x
  BY <1>4 DEF Max
<1> QED BY <1>5

\* A power of two is more than its exponent: a set of k elements has more than
\* k subsets.
LEMMA PowerProps ==
    ASSUME NEW k \in Nat
    PROVE  2^k \in Nat /\ k + 1 <= 2^k
<1> DEFINE S == 1 .. k
           f == [i \in 0 .. k |-> IF i = 0 THEN {} ELSE {i}]
<1>1. IsFiniteSet(S) /\ Cardinality(S) = k
  BY FS_Interval
<1>2. IsFiniteSet(SUBSET S) /\ Cardinality(SUBSET S) = 2^k
  BY <1>1, FS_SUBSET
<1>3. 2^k \in Nat
  BY <1>2, FS_CardinalityType
<1>4. f \in Injection(0 .. k, SUBSET S)
  <2>1. f \in [0 .. k -> SUBSET S]
    OBVIOUS
  <2>2. \A i, j \in 0 .. k : f[i] = f[j] => i = j
    OBVIOUS
  <2> QED BY <2>1, <2>2 DEF Injection, IsInjective
<1>5. Cardinality(0 .. k) <= 2^k
  <2> HIDE DEF f
  <2> QED BY <1>2, <1>4, FS_Injection
<1>6. Cardinality(0 .. k) = k + 1
  BY FS_Interval
<1> QED BY <1>3, <1>5, <1>6

-----------------------------------------------------------------------------
(* Events and the table.                                                   *)

\* An event tells its descriptor and its direction, and they tell the event.
LEMMA EventProps ==
    /\ Events \subseteq Nat /\ IsFiniteSet(Events)
    /\ \A ix \in Events :
          /\ Fd(ix) \in Fds /\ Fd(ix) \in Nat /\ Direction(ix) \in {Rd, Wr}
          /\ \A fd \in Fds : Fd(ix) = fd <=> ix \in {ReadIx(fd), WriteIx(fd)}
    /\ \A fd \in Fds : /\ ReadIx(fd) \in Events /\ WriteIx(fd) \in Events
                       /\ Fd(ReadIx(fd)) = fd /\ Fd(WriteIx(fd)) = fd
                       /\ Direction(ReadIx(fd)) = Rd
<1> USE DEF ReadIx, WriteIx, Fd, Direction, Rd, Wr
<1>1. Events \subseteq Nat
  BY AsyncAssumption DEF Events
<1>a. \A n \in Nat : /\ (2 * n) \div 2 = n /\ (2 * n) % 2 = 0
                     /\ (2 * n + 1) \div 2 = n /\ (2 * n + 1) % 2 = 1
  OBVIOUS
<1>2. ASSUME NEW ix \in Events
      PROVE  /\ Fd(ix) \in Fds /\ Fd(ix) \in Nat /\ Direction(ix) \in {Rd, Wr}
             /\ \A fd \in Fds : Fd(ix) = fd <=> ix \in {ReadIx(fd), WriteIx(fd)}
  <2>1. PICK n \in Fds : ix = 2 * n \/ ix = 2 * n + 1
    BY DEF Events
  <2>2. n \in Nat /\ ix \div 2 = n /\ ix % 2 \in {0, 1}
    BY <1>a, <2>1, AsyncAssumption
  <2>3. \A fd \in Fds : ix = 2 * fd \/ ix = 2 * fd + 1 <=> n = fd
    BY <2>1, <2>2, <1>a, AsyncAssumption
  <2> QED BY <2>2, <2>3
<1>3. \A fd \in Fds : /\ ReadIx(fd) \in Events /\ WriteIx(fd) \in Events
                     /\ Fd(ReadIx(fd)) = fd /\ Fd(WriteIx(fd)) = fd
                     /\ Direction(ReadIx(fd)) = Rd
  BY AsyncAssumption DEF Events
<1>4. IsFiniteSet(Events)
  <2>1. Max(Fds) \in Nat /\ \A fd \in Fds : fd \in Nat /\ fd <= Max(Fds)
    BY AsyncAssumption, MaxProps
  <2>2. 2 * Max(Fds) + 1 \in Nat /\ \A ix \in Events : ix <= 2 * Max(Fds) + 1
    BY <2>1 DEF Events
  <2> QED BY <1>1, <2>2, FS_BoundedSetOfNaturals
<1> QED BY <1>1, <1>2, <1>3, <1>4

\* The table is an array, and the entries in use are among its indices.
LEMMA TableProps ==
    ASSUME TypeOK, MoreTypes
    PROVE  /\ DOMAIN table \subseteq Nat
           /\ \A ix \in Nat : ix \in DOMAIN table <=> ix < Cardinality(DOMAIN table)
           /\ Cardinality(DOMAIN table) \in Nat
           /\ \A ix \in Events : InUse(ix) <=> ix \in Used
<1>1. Cardinality(DOMAIN table) \in Nat
  BY FS_CardinalityType DEF MoreTypes
<1> QED BY <1>1 DEF TypeOK, InUse, Used

\* GrowAsyncTable doubles the table until it has the entry, and keeps what it
\* has.
LEMMA GrowProps ==
    ASSUME IInv, NEW ix \in Nat
    PROVE  \E n \in Nat :
              /\ ix < n /\ DOMAIN table \subseteq 0 .. n - 1
              /\ GrowAsyncTable(ix) =
                    [i \in 0 .. n - 1 |-> IF i \in DOMAIN table THEN table[i] ELSE Free]
<1> DEFINE c == Cardinality(DOMAIN table)
           S == {s \in Doublings(ix) : s > ix}
<1>1. c \in Nat /\ DOMAIN table = 0 .. c - 1
  BY TableProps DEF IInv, TypeOK
<1>2. 1 <= c
  <2>1. 0 \in DOMAIN table
    BY DEF IInv, TableStarts
  <2> QED BY <1>1, <2>1
<1> HIDE DEF c
<1>3. ASSUME NEW m \in Nat, NEW p \in Nat, 1 <= m, 1 <= p
      PROVE  c * p \in Nat /\ c <= c * p /\ p <= c * p
  BY <1>1, <1>2, <1>3
<1>4. \A k \in 0 .. ix + 1 : c * 2^k \in Nat /\ c <= c * 2^k /\ k + 1 <= c * 2^k
  <2> TAKE k \in 0 .. ix + 1
  <2>1. 2^k \in Nat /\ k + 1 <= 2^k /\ k \in Nat
    BY PowerProps
  <2> DEFINE p == 2^k
  <2>2. p \in Nat /\ 1 <= p /\ k + 1 <= p
    BY <2>1
  <2> HIDE DEF p
  <2>3. c * p \in Nat /\ c <= c * p /\ p <= c * p
    BY <1>1, <1>2, <1>3, <2>2
  <2>4. c * p \in Nat /\ c <= c * p /\ k + 1 <= c * p
    BY <1>1, <2>1, <2>2, <2>3
  <2> QED BY <2>4 DEF p
<1>5. Doublings(ix) = {c * 2^k : k \in 0 .. ix + 1}
  BY DEF Doublings, c
<1>6. S \in SUBSET Nat /\ \A s \in S : c <= s /\ ix < s
  BY <1>4, <1>5
<1>7. S # {}
  <2>1. ix + 1 \in 0 .. ix + 1
    OBVIOUS
  <2>2. c * 2^(ix + 1) \in Doublings(ix) /\ c * 2^(ix + 1) > ix
    BY <1>4, <1>5, <2>1
  <2> QED BY <2>2
<1>8. Min(S) \in Nat /\ c <= Min(S) /\ ix < Min(S)
  <2> HIDE DEF S
  <2> QED BY <1>6, <1>7, MinProps
<1>9. GrowAsyncTable(ix) =
         [i \in 0 .. Min(S) - 1 |-> IF i \in DOMAIN table THEN table[i] ELSE Free]
  BY DEF GrowAsyncTable
<1>10. DOMAIN table \subseteq 0 .. Min(S) - 1
  <2> HIDE DEF S
  <2> QED BY <1>1, <1>8
<1> HIDE DEF S
<1> QED BY <1>8, <1>9, <1>10

\* The table after a registration.
LEMMA RegisterTable ==
    ASSUME IInv, NEW ix \in Events, Register(ix)
    PROVE  /\ IsFiniteSet(DOMAIN table')
           /\ DOMAIN table' = 0 .. Cardinality(DOMAIN table') - 1
           /\ 0 \in DOMAIN table'
           /\ \A i \in DOMAIN table' :
                 table'[i] \in [procPtr : 0 .. MaxProcs, inUse : BOOLEAN]
           /\ Used' = Used \cup {ix}
           /\ \A i \in Used' : table'[i].procPtr = IF i = ix THEN nextProc
                                                             ELSE table[i].procPtr
<1>1. ix \in Nat /\ nextProc \in 0 .. MaxProcs
  BY EventProps DEF IInv, MoreTypes, Register
<1>2. PICK n \in Nat :
         /\ ix < n /\ DOMAIN table \subseteq 0 .. n - 1
         /\ GrowAsyncTable(ix) =
               [i \in 0 .. n - 1 |-> IF i \in DOMAIN table THEN table[i] ELSE Free]
  BY <1>1, GrowProps
<1>3. /\ DOMAIN table' = 0 .. n - 1 /\ ix \in DOMAIN table'
      /\ table'[ix] = [procPtr |-> nextProc, inUse |-> TRUE]
      /\ \A i \in DOMAIN table' :
            i # ix => table'[i] = IF i \in DOMAIN table THEN table[i] ELSE Free
  BY <1>1, <1>2 DEF Register
<1>4. IsFiniteSet(DOMAIN table') /\ Cardinality(DOMAIN table') = n
  BY <1>1, <1>2, <1>3, FS_Interval
<1>5. 0 \in DOMAIN table'
  BY <1>1, <1>2, <1>3
<1>6. \A i \in DOMAIN table' : table'[i] \in [procPtr : 0 .. MaxProcs, inUse : BOOLEAN]
  <2>1. Free \in [procPtr : 0 .. MaxProcs, inUse : BOOLEAN]
    BY AsyncAssumption DEF Free
  <2>2. table'[ix] \in [procPtr : 0 .. MaxProcs, inUse : BOOLEAN]
    BY <1>1, <1>3
  <2> QED BY <1>3, <2>1, <2>2 DEF IInv, TypeOK
<1>7. Used' = Used \cup {ix}
  BY <1>2, <1>3 DEF Used, Free
<1>8. \A i \in Used' : table'[i].procPtr = IF i = ix THEN nextProc ELSE table[i].procPtr
  BY <1>2, <1>3 DEF Used, Free
<1> QED BY <1>3, <1>4, <1>5, <1>6, <1>7, <1>8

\* The table after some of its events were cancelled: what is left is due.
LEMMA ReleasedTable ==
    ASSUME IInv, NEW ixs \in SUBSET Events, table' = Released(ixs), due' = Cancel(ixs)
    PROVE  /\ DOMAIN table' = DOMAIN table
           /\ \A i \in DOMAIN table' :
                 table'[i] \in [procPtr : 0 .. MaxProcs, inUse : BOOLEAN]
           /\ Used' = Used \ ixs
           /\ \A i \in Used' : table'[i].procPtr = table[i].procPtr
           /\ {table'[i].procPtr : i \in Used'} = due'
<1>1. /\ DOMAIN table' = DOMAIN table
      /\ \A i \in DOMAIN table : table'[i] = IF i \in ixs THEN [table[i] EXCEPT !.inUse = FALSE]
                                                       ELSE table[i]
  BY DEF Released
<1>2. \A i \in DOMAIN table :
         /\ table[i] \in [procPtr : 0 .. MaxProcs, inUse : BOOLEAN]
         /\ [table[i] EXCEPT !.inUse = FALSE] \in [procPtr : 0 .. MaxProcs, inUse : BOOLEAN]
         /\ ~[table[i] EXCEPT !.inUse = FALSE].inUse
  BY DEF IInv, TypeOK
<1>3. Used' = Used \ ixs
  BY <1>1, <1>2 DEF Used
<1>4. \A i \in Used' : table'[i].procPtr = table[i].procPtr
  BY <1>1, <1>3 DEF Used
<1>5. due = {table[i].procPtr : i \in Used}
  BY DEF IInv, NothingIsLost, Used, InUse
<1>6. due' = due \ {table[i].procPtr : i \in ixs \cap Used}
  BY DEF Cancel, InUse, Used
<1>7. {table'[i].procPtr : i \in Used'} = {table[i].procPtr : i \in Used'}
  BY <1>4
<1>8. {table[i].procPtr : i \in Used'} = due'
  BY <1>3, <1>5, <1>6 DEF IInv, EntriesDiffer
<1> QED BY <1>1, <1>2, <1>3, <1>4, <1>7, <1>8

\* The clauses of NothingIsLost, said of the entries in use.
LEMMA NothingIsLostProps ==
    NothingIsLost <=>
       /\ {table[ix].procPtr : ix \in Used} = due
       /\ \A ix \in Events \cap Used : ix \in fdSet \cup posted /\ Fd(ix) <= maxFd
       /\ \A ix \in fdSet : ix \in Used \/ (Direction(ix) = Rd /\ Fd(ix) \in shut)
       /\ \A d \in {Rd, Wr} : numPosted[d] >= Cardinality(Counted(d))
<1>1. {ix \in DOMAIN table : InUse(ix)} = Used /\ \A ix : InUse(ix) <=> ix \in Used
  BY DEF InUse, Used
<1> HIDE DEF Used
<1> QED BY <1>1 DEF NothingIsLost

\* And of those that a step leaves in use.
LEMMA NothingIsLostNext ==
    ASSUME {table'[ix].procPtr : ix \in Used'} = due',
           \A ix \in Events \cap Used' : ix \in fdSet' \cup posted' /\ Fd(ix) <= maxFd',
           \A ix \in fdSet' : ix \in Used' \/ (Direction(ix) = Rd /\ Fd(ix) \in shut'),
           \A d \in {Rd, Wr} : numPosted'[d] >= Cardinality(Counted(d)')
    PROVE  NothingIsLost'
<1>1. {ix \in DOMAIN table' : InUse(ix)'} = Used' /\ \A ix : InUse(ix)' <=> ix \in Used'
  BY DEF InUse, Used
<1> HIDE DEF Used
<1> QED BY <1>1 DEF NothingIsLost

\* Numbers of events: of the selected and of the posted in one direction.
LEMMA CountProps ==
    ASSUME NEW E \in SUBSET Events, NEW d, NEW ix
    PROVE  LET Of(F) == {jx \in F : Direction(jx) = d} IN
           /\ IsFiniteSet(Of(E)) /\ Cardinality(Of(E)) \in Nat
           /\ \A F \in SUBSET E : Cardinality(Of(F)) <= Cardinality(Of(E))
           /\ \A F \in SUBSET E : Cardinality(Of(E \ F)) = Cardinality(Of(E)) - Cardinality(Of(F))
           /\ \A F \in SUBSET Events :
                 Cardinality(Of(E \cup F)) <= Cardinality(Of(E)) + Cardinality(Of(F))
           /\ Cardinality(Of(E \cup {ix})) <= Cardinality(Of(E)) + 1
<1> DEFINE Of(F) == {jx \in F : Direction(jx) = d}
<1>1. \A F \in SUBSET Events : IsFiniteSet(Of(F)) /\ Cardinality(Of(F)) \in Nat
  <2> TAKE F \in SUBSET Events
  <2>1. Of(F) \in SUBSET Events
    OBVIOUS
  <2> HIDE DEF Of
  <2>2. IsFiniteSet(Of(F))
    BY <2>1, EventProps, FS_Subset
  <2> QED BY <2>2, FS_CardinalityType
<1>2. \A F \in SUBSET E : Cardinality(Of(F)) <= Cardinality(Of(E))
  <2> TAKE F \in SUBSET E
  <2>1. Of(F) \in SUBSET Of(E) /\ IsFiniteSet(Of(E))
    BY <1>1
  <2> HIDE DEF Of
  <2> QED BY <2>1, FS_Subset
<1>3. \A F \in SUBSET E : Cardinality(Of(E \ F)) = Cardinality(Of(E)) - Cardinality(Of(F))
  <2> TAKE F \in SUBSET E
  <2>1. Of(E \ F) = Of(E) \ Of(F) /\ Of(E) \cap Of(F) = Of(F) /\ IsFiniteSet(Of(E))
    BY <1>1
  <2> HIDE DEF Of
  <2>2. Cardinality(Of(E) \ Of(F)) = Cardinality(Of(E)) - Cardinality(Of(E) \cap Of(F))
    BY <2>1, FS_Difference
  <2> QED BY <2>1, <2>2, Zenon
<1>4. \A F \in SUBSET Events :
         Cardinality(Of(E \cup F)) <= Cardinality(Of(E)) + Cardinality(Of(F))
  <2> TAKE F \in SUBSET Events
  <2>1. Of(E \cup F) = Of(E) \cup Of(F)
    OBVIOUS
  <2>2. /\ IsFiniteSet(Of(E)) /\ Cardinality(Of(E)) \in Nat
        /\ IsFiniteSet(Of(F)) /\ Cardinality(Of(F)) \in Nat
    BY <1>1
  <2> HIDE DEF Of
  <2>3. Cardinality(Of(E) \cap Of(F)) \in Nat
    BY <2>2, FS_Intersection, FS_CardinalityType
  <2>4. Cardinality(Of(E) \cup Of(F)) =
           Cardinality(Of(E)) + Cardinality(Of(F)) - Cardinality(Of(E) \cap Of(F))
    BY <2>2, FS_Union
  <2>5. Cardinality(Of(E \cup F)) = Cardinality(Of(E) \cup Of(F))
    BY <2>1, Zenon
  <2> QED BY <2>2, <2>3, <2>4, <2>5
<1>5. Cardinality(Of(E \cup {ix})) <= Cardinality(Of(E)) + 1
  <2>1. Of(E \cup {ix}) = Of(E) \cup {ix} \/ Of(E \cup {ix}) = Of(E)
    OBVIOUS
  <2>2. IsFiniteSet(Of(E)) /\ Cardinality(Of(E)) \in Nat
    BY <1>1
  <2> HIDE DEF Of
  <2>3. \/ Cardinality(Of(E) \cup {ix}) = Cardinality(Of(E))
        \/ Cardinality(Of(E) \cup {ix}) = Cardinality(Of(E)) + 1
    BY <2>2, FS_AddElement
  <2>4. \/ Cardinality(Of(E \cup {ix})) = Cardinality(Of(E) \cup {ix})
        \/ Cardinality(Of(E \cup {ix})) = Cardinality(Of(E))
    BY <2>1, Zenon
  <2> QED BY <2>2, <2>3, <2>4
<1> QED BY <1>1, <1>2, <1>3, <1>4, <1>5

\* The bounds of the types.
LEMMA BoundProps ==
    /\ Max(Fds) \in Nat /\ \A fd \in Fds : fd \in Nat /\ fd <= Max(Fds)
    /\ \A n \in Nat : n <= MaxProcs => n \in 0 .. Cardinality(Events) + MaxProcs
<1>1. Max(Fds) \in Nat /\ \A fd \in Fds : fd \in Nat /\ fd <= Max(Fds)
  BY AsyncAssumption, MaxProps
<1>2. Cardinality(Events) \in Nat
  BY EventProps, FS_CardinalityType
<1> QED BY <1>1, <1>2, AsyncAssumption

\* The counts stay in their type as long as each registration counts once.
LEMMA CountType ==
    ASSUME TypeOK, MoreTypes, CountedOnce, NEW d \in {Rd, Wr}
    PROVE  numPosted[d] \in 0 .. MaxProcs
<1> DEFINE c == Cardinality({ix \in fdSet : Direction(ix) = d})
<1>1. c \in Nat
  <2>1. fdSet \in SUBSET Events
    BY DEF TypeOK
  <2> QED BY <2>1, CountProps
<1>2. numPosted[d] \in Nat
  <2>1. Cardinality(Events) + MaxProcs \in Nat
    BY EventProps, FS_CardinalityType, AsyncAssumption
  <2> QED BY <2>1 DEF TypeOK
<1>3. numPosted[d] + c <= nextProc - 1 /\ nextProc \in 1 .. MaxProcs + 1
  BY DEF MoreTypes, CountedOnce
<1> HIDE DEF c
<1> QED BY <1>1, <1>2, <1>3, AsyncAssumption

\* Whoever takes events out of the selected ones counts none twice.
LEMMA FewerSelected ==
    ASSUME IInv, fdSet' \in SUBSET fdSet, UNCHANGED <<numPosted, nextProc>>
    PROVE  CountedOnce'
<1> SUFFICES ASSUME NEW d \in {Rd, Wr}
             PROVE  numPosted'[d] + Cardinality({i \in fdSet' : Direction(i) = d})
                       <= nextProc' - 1
  BY DEF CountedOnce
<1> DEFINE a == Cardinality({i \in fdSet : Direction(i) = d})
           b == Cardinality({i \in fdSet' : Direction(i) = d})
<1>1. a \in Nat /\ b \in Nat /\ b <= a
  <2>1. fdSet \in SUBSET Events /\ fdSet' \in SUBSET Events
    BY DEF IInv, TypeOK
  <2> QED BY <2>1, CountProps
<1>2. /\ numPosted[d] + a <= nextProc - 1 /\ numPosted[d] \in 0 .. MaxProcs
      /\ nextProc \in 1 .. MaxProcs + 1
  BY CountType DEF IInv, CountedOnce, MoreTypes
<1> HIDE DEF a, b
<1>3. numPosted[d] + b <= nextProc - 1
  BY <1>1, <1>2, AsyncAssumption
<1> QED BY <1>3 DEF b

-----------------------------------------------------------------------------
(* Each step preserves the inductive invariant.                            *)

\* A registration takes an entry that is free, and a number that is new.
LEMMA RegisterStep ==
    ASSUME IInv, NEW ix \in Events, Register(ix)
    PROVE  IInv'
<1>1. /\ ix \notin Used /\ Fd(ix) \in Fds /\ Fd(ix) \in Nat
      /\ nextProc \in Nat /\ nextProc \notin due
  BY EventProps, TableProps DEF IInv, MoreTypes, Register
<1>2. /\ fdSet' = fdSet \cup {ix} /\ posted' = posted
      /\ due' = due \cup {nextProc} /\ nextProc' = nextProc + 1
      /\ maxFd' = IF Fd(ix) > maxFd THEN Fd(ix) ELSE maxFd
      /\ asyncIoInUse' = TRUE
      /\ UNCHANGED <<numPosted, pc, at, open, shut, ready>>
  BY DEF Register
<1>3. /\ IsFiniteSet(DOMAIN table')
      /\ DOMAIN table' = 0 .. Cardinality(DOMAIN table') - 1
      /\ 0 \in DOMAIN table'
      /\ \A i \in DOMAIN table' :
            table'[i] \in [procPtr : 0 .. MaxProcs, inUse : BOOLEAN]
      /\ Used' = Used \cup {ix}
      /\ \A i \in Used' : table'[i].procPtr = IF i = ix THEN nextProc
                                                        ELSE table[i].procPtr
  BY RegisterTable
<1>4. maxFd' \in -1 .. Max(Fds) /\ maxFd <= maxFd' /\ Fd(ix) <= maxFd'
  BY <1>1, <1>2, BoundProps DEF IInv, TypeOK
<1>5. TypeOK'
  BY <1>2, <1>3, <1>4 DEF IInv, TypeOK
<1>6. MoreTypes'
  <2>1. nextProc \in 1 .. MaxProcs /\ due \subseteq 1 .. nextProc - 1
    BY AsyncAssumption DEF IInv, MoreTypes, Register
  <2>2. nextProc' \in 1 .. MaxProcs + 1 /\ due' \subseteq 1 .. nextProc' - 1
    BY <1>2, <2>1, AsyncAssumption
  <2> QED BY <1>2, <1>3, <2>2 DEF IInv, MoreTypes
<1>7. NothingIsLost'
  <2>1. {table[i].procPtr : i \in Used} = due
    BY NothingIsLostProps DEF IInv
  <2>2. {table'[i].procPtr : i \in Used'} = due'
    BY <1>1, <1>2, <1>3, <2>1
  <2>3. \A i \in Events \cap Used' : i \in fdSet' \cup posted' /\ Fd(i) <= maxFd'
    <3> TAKE i \in Events \cap Used'
    <3>1. CASE i = ix
      BY <1>2, <1>4, <3>1
    <3>2. CASE i # ix
      <4>1. i \in fdSet \cup posted /\ Fd(i) <= maxFd
        BY <1>3, <3>2, NothingIsLostProps DEF IInv
      <4>2. Fd(i) \in Nat /\ maxFd \in Int /\ maxFd' \in Int
        BY <1>4, EventProps DEF IInv, TypeOK
      <4> QED BY <1>2, <1>4, <4>1, <4>2
    <3> QED BY <3>1, <3>2
  <2>4. \A i \in fdSet' : i \in Used' \/ (Direction(i) = Rd /\ Fd(i) \in shut')
    BY <1>2, <1>3, NothingIsLostProps DEF IInv
  <2>5. \A d \in {Rd, Wr} : numPosted'[d] >= Cardinality(Counted(d)')
    BY <1>2, NothingIsLostProps DEF IInv, Counted
  <2> QED BY <2>2, <2>3, <2>4, <2>5, NothingIsLostNext
<1>8. TableStarts' /\ IdleIsEmpty'
  BY <1>2, <1>3 DEF TableStarts, IdleIsEmpty
<1>9. EntriesDiffer'
  <2>1. \A i \in Used : table[i].procPtr # nextProc
    BY <1>1, NothingIsLostProps DEF IInv
  <2> QED BY <1>3, <2>1 DEF IInv, EntriesDiffer
<1>10. PostedOrCancelled'
  BY <1>1, <1>2, <1>3 DEF IInv, PostedOrCancelled
<1>11. PostedIsReady'
  BY <1>2 DEF IInv, PostedIsReady
<1>12. CountedOnce'
  <2> SUFFICES ASSUME NEW d \in {Rd, Wr}
               PROVE  numPosted'[d] + Cardinality({i \in fdSet' : Direction(i) = d})
                         <= nextProc' - 1
    BY DEF CountedOnce
  <2> DEFINE a == Cardinality({i \in fdSet : Direction(i) = d})
             b == Cardinality({i \in fdSet \cup {ix} : Direction(i) = d})
  <2>1. a \in Nat /\ b \in Nat /\ b <= a + 1
    <3>1. fdSet \in SUBSET Events /\ fdSet \cup {ix} \in SUBSET Events
      BY DEF IInv, TypeOK
    <3> QED BY <3>1, CountProps
  <2>2. numPosted[d] + a <= nextProc - 1 /\ numPosted[d] \in 0 .. MaxProcs
    BY CountType DEF IInv, CountedOnce
  <2> HIDE DEF a, b
  <2>3. numPosted[d] + b <= nextProc'  - 1
    BY <1>1, <1>2, <2>1, <2>2, AsyncAssumption
  <2> QED BY <1>2, <2>3 DEF b
<1> QED BY <1>5, <1>6, <1>7, <1>8, <1>9, <1>10, <1>11, <1>12 DEF IInv

\* OS_Close takes both events of the descriptor out of everything.
LEMMA CloseStep ==
    ASSUME IInv, NEW fd \in Fds, OS_Close(fd)
    PROVE  IInv'
<1> DEFINE ixs == {ReadIx(fd), WriteIx(fd)}
<1>1. /\ ixs \in SUBSET Events /\ fd \in Nat
      /\ \A ix \in Events : Fd(ix) = fd <=> ix \in ixs
  BY EventProps, BoundProps
<1>2. /\ due' = Cancel(ixs) /\ open' = open \ {fd} /\ shut' = shut \ {fd}
      /\ ready' = ready \ ixs
      /\ UNCHANGED <<numPosted, asyncIoInUse, pc, at, nextProc>>
  BY DEF OS_Close
<1>3. /\ fdSet' = fdSet \ ixs /\ posted' = posted \ ixs /\ Used' = Used \ ixs
      /\ DOMAIN table' = DOMAIN table
      /\ \A i \in DOMAIN table' :
            table'[i] \in [procPtr : 0 .. MaxProcs, inUse : BOOLEAN]
      /\ \A i \in Used' : table'[i].procPtr = table[i].procPtr
      /\ {table'[i].procPtr : i \in Used'} = due'
      /\ maxFd' = maxFd \/ (maxFd = fd /\ maxFd' = maxFd - 1)
  <2>1. CASE asyncIoInUse
    <3>1. /\ table' = Released(ixs) /\ fdSet' = fdSet \ ixs /\ posted' = posted \ ixs
          /\ maxFd' = LowerMaxFd(fd)
      BY <2>1 DEF OS_Close
    <3> HIDE DEF ixs
    <3> QED BY <1>1, <1>2, <3>1, ReleasedTable DEF LowerMaxFd
  <2>2. CASE ~asyncIoInUse
    <3>1. Used = {} /\ fdSet = {} /\ posted = {}
      BY <2>2 DEF IInv, IdleIsEmpty
    <3>2. table' = table /\ fdSet' = fdSet /\ posted' = posted /\ maxFd' = maxFd
      BY <2>2 DEF OS_Close
    <3>3. due = {} /\ Used' = {}
      BY <3>1, <3>2, NothingIsLostProps DEF IInv, Used
    <3>4. due' = {}
      BY <1>2, <3>3 DEF Cancel
    <3> HIDE DEF ixs
    <3> QED BY <3>1, <3>2, <3>3, <3>4 DEF IInv, TypeOK
  <2> QED BY <2>1, <2>2 DEF IInv, MoreTypes
<1> HIDE DEF ixs
<1>4. maxFd' \in -1 .. Max(Fds)
  BY <1>1, <1>3, BoundProps DEF IInv, TypeOK
<1>5. TypeOK' /\ MoreTypes'
  <2>1. due' \subseteq due
    BY <1>2 DEF Cancel
  <2> QED BY <1>2, <1>3, <1>4, <2>1 DEF IInv, TypeOK, MoreTypes
<1>6. NothingIsLost'
  <2>1. \A i \in Events \cap Used' : i \in fdSet' \cup posted' /\ Fd(i) <= maxFd'
    <3> TAKE i \in Events \cap Used'
    <3>1. i \in fdSet \cup posted /\ Fd(i) <= maxFd /\ i \notin ixs
      BY <1>3, NothingIsLostProps DEF IInv
    <3>2. Fd(i) # fd /\ Fd(i) \in Nat /\ maxFd \in Int
      BY <1>1, <3>1, EventProps DEF IInv, TypeOK
    <3> QED BY <1>1, <1>3, <3>1, <3>2
  <2>2. \A i \in fdSet' : i \in Used' \/ (Direction(i) = Rd /\ Fd(i) \in shut')
    <3> TAKE i \in fdSet'
    <3>1. i \in fdSet /\ i \notin ixs /\ i \in Events
      BY <1>3 DEF IInv, TypeOK
    <3>2. i \in Used \/ (Direction(i) = Rd /\ Fd(i) \in shut)
      BY <3>1, NothingIsLostProps DEF IInv
    <3> QED BY <1>1, <1>2, <1>3, <3>1, <3>2
  <2>3. \A d \in {Rd, Wr} : numPosted'[d] >= Cardinality(Counted(d)')
    <3> TAKE d \in {Rd, Wr}
    <3> DEFINE Of(F) == {jx \in F : Direction(jx) = d}
    <3>1. posted \in SUBSET Events /\ posted' \in SUBSET posted /\ posted' \in SUBSET Events
      BY <1>3 DEF IInv, TypeOK
    <3>2. /\ Cardinality(Of(posted')) <= Cardinality(Of(posted))
          /\ Cardinality(Of(posted)) \in Nat /\ Cardinality(Of(posted')) \in Nat
      BY <3>1, CountProps
    <3>3. numPosted[d] >= Cardinality(Of(posted)) /\ numPosted[d] \in 0 .. MaxProcs
      BY NothingIsLostProps, CountType DEF IInv, Counted
    <3>4. Counted(d)' = Of(posted')
      BY DEF Counted
    <3> HIDE DEF Of
    <3>5. numPosted[d] >= Cardinality(Of(posted'))
      BY <3>2, <3>3, AsyncAssumption
    <3> QED BY <1>2, <3>4, <3>5, Zenon
  <2> QED BY <1>3, <2>1, <2>2, <2>3, NothingIsLostNext
<1>7. TableStarts' /\ IdleIsEmpty' /\ EntriesDiffer'
  BY <1>2, <1>3 DEF IInv, TableStarts, IdleIsEmpty, EntriesDiffer
<1>8. PostedOrCancelled'
  <2> SUFFICES ASSUME NEW i \in posted'
               PROVE  \/ i \in Used' /\ i \notin fdSet'
                      \/ Direction(i) = Rd /\ Fd(i) \in shut'
    BY DEF PostedOrCancelled
  <2>1. i \in posted /\ i \notin ixs /\ i \in Events
    BY <1>3 DEF IInv, TypeOK
  <2>2. (i \in Used /\ i \notin fdSet) \/ (Direction(i) = Rd /\ Fd(i) \in shut)
    BY <2>1 DEF IInv, PostedOrCancelled
  <2> QED BY <1>1, <1>2, <1>3, <2>1, <2>2
<1>9. PostedIsReady'
  <2>1. posted' \subseteq ready'
    BY <1>2, <1>3 DEF IInv, PostedIsReady
  <2>2. ASSUME NEW i \in ready' PROVE i \in Events /\ Fd(i) \in open'
    <3>1. i \in Events /\ Fd(i) \in open /\ i \notin ixs
      BY <1>2, <2>2 DEF IInv, PostedIsReady
    <3> QED BY <1>1, <1>2, <3>1
  <2> QED BY <2>1, <2>2 DEF PostedIsReady
<1>10. CountedOnce'
  <2>1. fdSet' \in SUBSET fdSet
    BY <1>3
  <2> QED BY <1>2, <2>1, FewerSelected
<1> QED BY <1>5, <1>6, <1>7, <1>8, <1>9, <1>10 DEF IInv

\* OS_CloseRead leaves what is posted, and what it cancels is shut.
LEMMA CloseReadStep ==
    ASSUME IInv, NEW fd \in Fds, OS_CloseRead(fd)
    PROVE  IInv'
<1> DEFINE ix == ReadIx(fd)
<1>1. /\ {ix} \in SUBSET Events /\ ix \in Events /\ Fd(ix) = fd /\ Direction(ix) = Rd
      /\ fd \in open
  BY EventProps DEF OS_CloseRead
<1>2. /\ table' = Released({ix}) /\ due' = Cancel({ix}) /\ shut' = shut \cup {fd}
      /\ fdSet' = IF ix \in Used THEN fdSet \ {ix} ELSE fdSet
      /\ ready' \in {ready, ready \cup {ix}}
      /\ UNCHANGED <<posted, numPosted, maxFd, asyncIoInUse, pc, at, nextProc, open>>
  BY DEF OS_CloseRead, InUse, Used
<1> HIDE DEF ix
<1>3. /\ DOMAIN table' = DOMAIN table
      /\ \A i \in DOMAIN table' :
            table'[i] \in [procPtr : 0 .. MaxProcs, inUse : BOOLEAN]
      /\ Used' = Used \ {ix}
      /\ \A i \in Used' : table'[i].procPtr = table[i].procPtr
      /\ {table'[i].procPtr : i \in Used'} = due'
  BY <1>1, <1>2, ReleasedTable
<1>4. TypeOK' /\ MoreTypes'
  <2>1. due' \subseteq due
    BY <1>2 DEF Cancel
  <2> QED BY <1>2, <1>3, <2>1 DEF IInv, TypeOK, MoreTypes
<1>5. NothingIsLost'
  <2>1. \A i \in Events \cap Used' : i \in fdSet' \cup posted' /\ Fd(i) <= maxFd'
    BY <1>2, <1>3, NothingIsLostProps DEF IInv
  <2>2. \A i \in fdSet' : i \in Used' \/ (Direction(i) = Rd /\ Fd(i) \in shut')
    BY <1>1, <1>2, <1>3, NothingIsLostProps DEF IInv
  <2>3. \A d \in {Rd, Wr} : numPosted'[d] >= Cardinality(Counted(d)')
    BY <1>2, NothingIsLostProps DEF IInv, Counted
  <2> QED BY <1>3, <2>1, <2>2, <2>3, NothingIsLostNext
<1>6. TableStarts' /\ IdleIsEmpty' /\ EntriesDiffer'
  <2>1. TableStarts' /\ EntriesDiffer'
    BY <1>3 DEF IInv, TableStarts, EntriesDiffer
  <2>2. Used' \subseteq Used /\ fdSet' \subseteq fdSet
    BY <1>2, <1>3
  <2> QED BY <1>2, <2>1, <2>2 DEF IInv, IdleIsEmpty
<1>7. PostedOrCancelled'
  BY <1>1, <1>2, <1>3 DEF IInv, PostedOrCancelled
<1>8. PostedIsReady'
  BY <1>1, <1>2 DEF IInv, PostedIsReady
<1>9. CountedOnce'
  <2>1. fdSet' \in SUBSET fdSet
    BY <1>2
  <2> QED BY <1>2, <2>1, FewerSelected
<1> QED BY <1>4, <1>5, <1>6, <1>7, <1>8, <1>9 DEF IInv

\* select(2) moves what is ready from the selected events to the posted ones.
LEMMA SelectStep ==
    ASSUME IInv, Select
    PROVE  IInv'
<1> DEFINE S == Selected
           Of(F, d) == {i \in F : Direction(i) = d}
<1>1. /\ posted' = posted \cup S /\ fdSet' = fdSet \ S
      /\ numPosted' = [d \in {Rd, Wr} |-> numPosted[d] + Cardinality(Of(S, d))]
      /\ pc' = "scan"
      /\ UNCHANGED <<table, maxFd, asyncIoInUse, at, nextProc, due, open, shut, ready>>
  BY DEF Select
<1>2. /\ S \in SUBSET fdSet /\ S \in SUBSET ready /\ S \in SUBSET Events
      /\ fdSet \in SUBSET Events /\ posted \in SUBSET Events
      /\ \A i \in S : Fd(i) <= maxFd
  BY DEF Selected, IInv, TypeOK
<1> HIDE DEF S
<1>3. ASSUME NEW d \in {Rd, Wr}
      PROVE  /\ numPosted'[d] \in 0 .. MaxProcs
             /\ numPosted'[d] + Cardinality(Of(fdSet', d)) <= nextProc - 1
             /\ numPosted'[d] >= Cardinality(Of(posted', d))
  <2>1. /\ numPosted[d] \in 0 .. MaxProcs /\ nextProc \in 1 .. MaxProcs + 1
        /\ numPosted[d] + Cardinality(Of(fdSet, d)) <= nextProc - 1
        /\ numPosted[d] >= Cardinality(Of(posted, d))
    BY CountType, NothingIsLostProps DEF IInv, MoreTypes, CountedOnce, Counted
  <2>2. /\ Cardinality(Of(fdSet, d)) \in Nat /\ Cardinality(Of(S, d)) \in Nat
        /\ Cardinality(Of(fdSet \ S, d)) \in Nat
        /\ Cardinality(Of(posted, d)) \in Nat /\ Cardinality(Of(posted \cup S, d)) \in Nat
        /\ Cardinality(Of(fdSet \ S, d)) =
              Cardinality(Of(fdSet, d)) - Cardinality(Of(S, d))
        /\ Cardinality(Of(posted \cup S, d)) <=
              Cardinality(Of(posted, d)) + Cardinality(Of(S, d))
    <3>1. fdSet \ S \in SUBSET Events /\ posted \cup S \in SUBSET Events
      BY <1>2
    <3>2. \A E \in SUBSET Events : Cardinality(Of(E, d)) \in Nat
      BY CountProps
    <3>3. Cardinality(Of(fdSet \ S, d)) =
             Cardinality(Of(fdSet, d)) - Cardinality(Of(S, d))
      <4>1. \A E \in SUBSET Events : \A F \in SUBSET E :
               Cardinality(Of(E \ F, d)) = Cardinality(Of(E, d)) - Cardinality(Of(F, d))
        BY CountProps
      <4> HIDE DEF Of
      <4> QED BY <1>2, <4>1
    <3>4. Cardinality(Of(posted \cup S, d)) <=
             Cardinality(Of(posted, d)) + Cardinality(Of(S, d))
      BY <1>2, CountProps
    <3> HIDE DEF Of
    <3> QED BY <1>2, <3>1, <3>2, <3>3, <3>4
  <2>3. numPosted'[d] = numPosted[d] + Cardinality(Of(S, d))
    BY <1>1
  <2> HIDE DEF Of
  <2> QED BY <1>1, <2>1, <2>2, <2>3, AsyncAssumption
<1>4. TypeOK' /\ MoreTypes'
  <2>1. numPosted' \in [{Rd, Wr} -> 0 .. Cardinality(Events) + MaxProcs]
    <3>1. \A d \in {Rd, Wr} : numPosted'[d] \in 0 .. Cardinality(Events) + MaxProcs
      BY <1>3, BoundProps, AsyncAssumption
    <3> QED BY <1>1, <3>1
  <2> QED BY <1>1, <1>2, <2>1 DEF IInv, TypeOK, MoreTypes
<1>5. Used' = Used
  BY <1>1 DEF Used
<1>6. NothingIsLost'
  <2>1. \A i \in Events \cap Used' : i \in fdSet' \cup posted' /\ Fd(i) <= maxFd'
    BY <1>1, <1>5, NothingIsLostProps DEF IInv
  <2>2. \A i \in fdSet' : i \in Used' \/ (Direction(i) = Rd /\ Fd(i) \in shut')
    BY <1>1, <1>5, NothingIsLostProps DEF IInv
  <2>3. \A d \in {Rd, Wr} : numPosted'[d] >= Cardinality(Counted(d)')
    BY <1>3 DEF Counted
  <2>4. {table'[i].procPtr : i \in Used'} = due'
    BY <1>1, <1>5, NothingIsLostProps DEF IInv
  <2> QED BY <2>1, <2>2, <2>3, <2>4, NothingIsLostNext
<1>7. TableStarts' /\ IdleIsEmpty' /\ EntriesDiffer'
  BY <1>1, <1>2, <1>5 DEF IInv, TableStarts, IdleIsEmpty, EntriesDiffer
<1>8. PostedOrCancelled'
  BY <1>1, <1>2, <1>5, NothingIsLostProps DEF IInv, PostedOrCancelled
<1>9. PostedIsReady'
  BY <1>1, <1>2 DEF IInv, PostedIsReady
<1>10. CountedOnce'
  BY <1>1, <1>3 DEF CountedOnce
<1> QED BY <1>4, <1>6, <1>7, <1>8, <1>9, <1>10 DEF IInv

\* OS_DoIo calls back for an event that is due, and takes it out of everything.
LEMMA DispatchStep ==
    ASSUME IInv, Dispatch
    PROVE  /\ IInv'
           /\ \E ix \in Events : /\ table[ix].procPtr \in due
                                 /\ due' = due \ {table[ix].procPtr}
                                 /\ ix \in ready /\ Fd(ix) \in open
<1> DEFINE ix == Min(Ahead)
           d == Direction(ix)
<1>1. ix \in Ahead
  <2>1. Ahead \in SUBSET Nat /\ Ahead # {}
    BY EventProps DEF IInv, TypeOK, Ahead, Dispatch
  <2> QED BY <2>1, MinProps
<1>2. /\ at' = ix + 1 /\ posted' = posted \ {ix}
      /\ numPosted' = [numPosted EXCEPT ![d] = @ - 1]
      /\ table' = [table EXCEPT ![ix] = Free]
      /\ due' = due \ {table[ix].procPtr} /\ ready' = ready \ {ix}
      /\ pc' = "callback"
      /\ UNCHANGED <<fdSet, maxFd, asyncIoInUse, nextProc, open, shut>>
  BY DEF Dispatch
<1> HIDE DEF ix, d
<1>3. ix \in posted /\ ix \in Events /\ ix \in Used /\ d \in {Rd, Wr}
  BY <1>1, EventProps DEF IInv, TypeOK, Ahead, InUse, Used, d
<1>4. /\ DOMAIN table' = DOMAIN table /\ Used' = Used \ {ix}
      /\ \A i \in DOMAIN table' :
            table'[i] \in [procPtr : 0 .. MaxProcs, inUse : BOOLEAN]
      /\ \A i \in Used' : table'[i].procPtr = table[i].procPtr
  <2>1. Free \in [procPtr : 0 .. MaxProcs, inUse : BOOLEAN] /\ ~Free.inUse
    BY AsyncAssumption DEF Free
  <2> QED BY <1>2, <1>3, <2>1 DEF IInv, TypeOK, Used
<1>5. table[ix].procPtr \in due /\ {table'[i].procPtr : i \in Used'} = due'
  <2>1. due = {table[i].procPtr : i \in Used}
    BY NothingIsLostProps DEF IInv
  <2> QED BY <1>2, <1>3, <1>4, <2>1 DEF IInv, EntriesDiffer
<1>6. ix \in ready /\ Fd(ix) \in open
  BY <1>3 DEF IInv, PostedIsReady
<1>7. ASSUME NEW e \in {Rd, Wr}
      PROVE  /\ numPosted'[e] \in 0 .. MaxProcs /\ numPosted'[e] <= numPosted[e]
             /\ numPosted'[e] >= Cardinality({i \in posted' : Direction(i) = e})
  <2> DEFINE Of(F) == {i \in F : Direction(i) = e}
  <2>1. numPosted[e] \in 0 .. MaxProcs /\ numPosted[e] >= Cardinality(Of(posted))
    BY CountType, NothingIsLostProps DEF IInv, Counted
  <2>2. posted \in SUBSET Events /\ {ix} \in SUBSET posted
    BY <1>3 DEF IInv, TypeOK
  <2>3. /\ Cardinality(Of(posted \ {ix})) = Cardinality(Of(posted)) - Cardinality(Of({ix}))
        /\ Cardinality(Of(posted)) \in Nat /\ Cardinality(Of(posted \ {ix})) \in Nat
    <3>1. posted \ {ix} \in SUBSET Events
      BY <2>2
    <3>2. \A E \in SUBSET Events : Cardinality(Of(E)) \in Nat
      BY CountProps
    <3>3. Cardinality(Of(posted \ {ix})) = Cardinality(Of(posted)) - Cardinality(Of({ix}))
      BY <2>2, CountProps
    <3> HIDE DEF Of
    <3> QED BY <2>2, <3>1, <3>2, <3>3
  <2>4. Cardinality(Of({ix})) = IF e = d THEN 1 ELSE 0
    <3>1. Of({ix}) = IF e = d THEN {ix} ELSE {}
      BY DEF d
    <3> HIDE DEF Of
    <3> QED BY <3>1, FS_EmptySet, FS_Singleton
  <2>5. numPosted'[e] = IF e = d THEN numPosted[e] - 1 ELSE numPosted[e]
    BY <1>2, <1>3 DEF IInv, TypeOK
  <2>6. /\ numPosted'[e] \in 0 .. MaxProcs /\ numPosted'[e] <= numPosted[e]
        /\ numPosted'[e] >= Cardinality(Of(posted \ {ix}))
    <3> HIDE DEF Of
    <3> QED BY <2>1, <2>3, <2>4, <2>5, AsyncAssumption
  <2> QED BY <1>2, <2>6
<1>8. TypeOK' /\ MoreTypes'
  <2>1. numPosted' \in [{Rd, Wr} -> 0 .. Cardinality(Events) + MaxProcs]
    <3>1. \A e \in {Rd, Wr} : numPosted'[e] \in 0 .. Cardinality(Events) + MaxProcs
      BY <1>7, BoundProps, AsyncAssumption
    <3>2. DOMAIN numPosted' = {Rd, Wr} /\ numPosted' = [e \in {Rd, Wr} |-> numPosted'[e]]
      BY <1>2 DEF IInv, TypeOK
    <3> QED BY <3>1, <3>2
  <2> QED BY <1>2, <1>4, <2>1 DEF IInv, TypeOK, MoreTypes
<1>9. NothingIsLost'
  <2>1. \A i \in Events \cap Used' : i \in fdSet' \cup posted' /\ Fd(i) <= maxFd'
    BY <1>2, <1>4, NothingIsLostProps DEF IInv
  <2>2. \A i \in fdSet' : i \in Used' \/ (Direction(i) = Rd /\ Fd(i) \in shut')
    BY <1>2, <1>3, <1>4, NothingIsLostProps DEF IInv, PostedOrCancelled
  <2>3. \A e \in {Rd, Wr} : numPosted'[e] >= Cardinality(Counted(e)')
    BY <1>7 DEF Counted
  <2> QED BY <1>5, <2>1, <2>2, <2>3, NothingIsLostNext
<1>10. TableStarts' /\ IdleIsEmpty' /\ EntriesDiffer' /\ PostedOrCancelled'
  BY <1>2, <1>4 DEF IInv, TableStarts, IdleIsEmpty, EntriesDiffer, PostedOrCancelled
<1>11. PostedIsReady'
  BY <1>2 DEF IInv, PostedIsReady
<1>12. CountedOnce'
  <2> SUFFICES ASSUME NEW e \in {Rd, Wr}
               PROVE  numPosted'[e] + Cardinality({i \in fdSet' : Direction(i) = e})
                         <= nextProc' - 1
    BY DEF CountedOnce
  <2> DEFINE a == Cardinality({i \in fdSet : Direction(i) = e})
  <2>1. fdSet \in SUBSET Events /\ numPosted[e] + a <= nextProc - 1
        /\ nextProc \in 1 .. MaxProcs + 1 /\ numPosted[e] \in 0 .. MaxProcs
    BY CountType DEF IInv, TypeOK, CountedOnce, MoreTypes
  <2>2. a \in Nat
    BY <2>1, CountProps
  <2>3. /\ numPosted'[e] \in 0 .. MaxProcs /\ numPosted'[e] <= numPosted[e]
    BY <1>7
  <2> HIDE DEF a
  <2>4. numPosted'[e] + a <= nextProc - 1
    BY <2>1, <2>2, <2>3, AsyncAssumption
  <2> QED BY <1>2, <2>4 DEF a
<1> QED BY <1>2, <1>3, <1>5, <1>6, <1>8, <1>9, <1>10, <1>11, <1>12 DEF IInv

\* The steps that leave the table and the sets of events alone.
LEMMA OtherStep ==
    ASSUME IInv,
           \/ \E fd \in Fds : Open(fd)
           \/ \E ix \in Events : BecomesReady(ix)
           \/ DoIoBegins \/ SelectTimesOut \/ SelectInterrupted
           \/ ScanEnds \/ CallbackReturns \/ UNCHANGED vars
    PROVE  IInv' /\ ~(pc = "scan" /\ pc' = "callback")
<1>1. /\ UNCHANGED <<table, fdSet, posted, numPosted, maxFd, nextProc, due, shut>>
      /\ asyncIoInUse' \in {asyncIoInUse, TRUE}
      /\ pc' \in {"app", "select", "scan", "callback", "exited"}
      /\ ~(pc = "scan" /\ pc' = "callback")
      /\ open' \in SUBSET Fds /\ open \subseteq open'
      /\ \A ix \in ready' : ix \in ready \/ (ix \in Events /\ Fd(ix) \in open)
      /\ ready \subseteq ready'
  BY DEF IInv, TypeOK, MoreTypes, Open, BecomesReady, DoIoBegins, SelectTimesOut,
     SelectInterrupted, ScanEnds, CallbackReturns, state, vars
<1>2. Used' = Used
  BY <1>1 DEF Used
<1>3. TypeOK' /\ MoreTypes'
  BY <1>1 DEF IInv, TypeOK, MoreTypes
<1>4. NothingIsLost'
  BY <1>1 DEF IInv, NothingIsLost, InUse, Counted
<1>5. TableStarts' /\ EntriesDiffer' /\ PostedOrCancelled'
  BY <1>1, <1>2 DEF IInv, TableStarts, EntriesDiffer, PostedOrCancelled
<1>7. IdleIsEmpty'
  <2>1. ~asyncIoInUse' => ~asyncIoInUse
    BY <1>1 DEF IInv, MoreTypes
  <2> QED BY <1>1, <1>2, <2>1 DEF IInv, IdleIsEmpty
<1>6. PostedIsReady' /\ CountedOnce'
  BY <1>1 DEF IInv, PostedIsReady, CountedOnce
<1> QED BY <1>1, <1>3, <1>4, <1>5, <1>6, <1>7 DEF IInv

-----------------------------------------------------------------------------
(* The specification.                                                      *)

\* The library starts with an empty table.
LEMMA InitIInv == Init => IInv
<1> SUFFICES ASSUME Init PROVE IInv
  OBVIOUS
<1>1. /\ DOMAIN table = 0 .. InitialTableSize - 1 /\ 0 \in DOMAIN table
      /\ \A ix \in DOMAIN table : table[ix] = Free
      /\ IsFiniteSet(DOMAIN table) /\ Cardinality(DOMAIN table) = InitialTableSize
  BY AsyncAssumption, FS_Interval DEF Init
<1>2. Free \in [procPtr : 0 .. MaxProcs, inUse : BOOLEAN] /\ ~Free.inUse
  BY AsyncAssumption DEF Free
<1>3. Used = {}
  BY <1>1, <1>2 DEF Used
<1>4. TypeOK
  BY <1>1, <1>2, BoundProps, AsyncAssumption DEF Init, TypeOK
<1>5. MoreTypes
  <2>1. 1 \in 1 .. MaxProcs + 1 /\ {} \subseteq 1 .. 0
    BY AsyncAssumption
  <2> QED BY <1>1, <2>1 DEF Init, MoreTypes
<1>6. \A d \in {Rd, Wr} : /\ Cardinality(Counted(d)) = 0
                         /\ Cardinality({ix \in fdSet : Direction(ix) = d}) = 0
                         /\ numPosted[d] = 0
  <2> TAKE d \in {Rd, Wr}
  <2>1. Counted(d) = {} /\ {ix \in fdSet : Direction(ix) = d} = {} /\ numPosted[d] = 0
    BY DEF Init, Counted
  <2> QED BY <2>1, FS_EmptySet, Zenon
<1>7. NothingIsLost
  BY <1>3, <1>6, NothingIsLostProps DEF Init
<1>8. CountedOnce
  BY <1>6 DEF Init, CountedOnce
<1>9. TableStarts /\ IdleIsEmpty /\ EntriesDiffer /\ PostedOrCancelled /\ PostedIsReady
  BY <1>1, <1>3 DEF Init, TableStarts, IdleIsEmpty, EntriesDiffer,
                    PostedOrCancelled, PostedIsReady
<1> QED BY <1>4, <1>5, <1>7, <1>8, <1>9 DEF IInv

\* Whatever runs, the library's calls, a callback or the kernel, keeps the
\* invariant, and OS_DoIo only calls back what is due.
LEMMA NextIInv ==
    IInv /\ [Next]_vars =>
        /\ IInv'
        /\ pc = "scan" /\ pc' = "callback" =>
              \E ix \in Events : /\ table[ix].procPtr \in due
                                 /\ due' = due \ {table[ix].procPtr}
                                 /\ ix \in ready /\ Fd(ix) \in open
<1> SUFFICES ASSUME IInv, [Next]_vars
             PROVE  \/ IInv' /\ ~(pc = "scan" /\ pc' = "callback")
                    \/ IInv' /\ \E ix \in Events :
                          /\ table[ix].procPtr \in due
                          /\ due' = due \ {table[ix].procPtr}
                          /\ ix \in ready /\ Fd(ix) \in open
  OBVIOUS
<1>1. ASSUME NEW ix \in Events, Register(ix)
      PROVE  IInv' /\ ~(pc = "scan" /\ pc' = "callback")
  BY <1>1, RegisterStep DEF Register, AppRuns
<1>2. CASE OS_AsyncRead \/ OS_AsyncWrite \/ OS_AsyncReadStdin
  BY <1>1, <1>2, EventProps, AsyncAssumption
     DEF OS_AsyncRead, OS_AsyncWrite, OS_AsyncReadStdin
<1>3. ASSUME NEW fd \in Fds, OS_Close(fd) \/ OS_CloseRead(fd)
      PROVE  IInv' /\ ~(pc = "scan" /\ pc' = "callback")
  BY <1>3, CloseStep, CloseReadStep DEF OS_Close, OS_CloseRead, AppRuns
<1>4. CASE Select
  BY <1>4, SelectStep DEF Select
<1>5. CASE Dispatch
  BY <1>5, DispatchStep
<1>6. CASE \/ \E fd \in Fds : Open(fd)
           \/ \E ix \in Events : BecomesReady(ix)
           \/ DoIoBegins \/ SelectTimesOut \/ SelectInterrupted
           \/ ScanEnds \/ CallbackReturns \/ UNCHANGED vars
  BY <1>6, OtherStep
<1> QED BY <1>2, <1>3, <1>4, <1>5, <1>6 DEF Next, App, OS_DoIo

\* The inductive invariant of the asynchronous I/O table.
THEOREM IInvariant == Spec => []IInv
BY InitIInv, NextIInv, PTL DEF Spec

\* Every variable of the library has its type: the counts of posted events stay
\* within bounds though OS_Close does not lower them (os_unix.c:707-770).
THEOREM TypeCorrect == Spec => []TypeOK
<1>1. IInv => TypeOK
  BY DEF IInv
<1> QED BY <1>1, IInvariant, PTL

\* No registration is lost and none is invented, for all descriptors, sizes of
\* the table and orders of closing, registering and calling back (OS_DoIo).
THEOREM NoneLost == Spec => []NothingIsLost
<1>1. IInv => NothingIsLost
  BY DEF IInv
<1> QED BY <1>1, IInvariant, PTL

\* A callback is called for what is due and ready, however descriptors are
\* closed and opened again (OS_DoIo).
THEOREM CalledWhenDue == Spec => CallbackIsDue
BY IInvariant, NextIInv, PTL DEF Spec, CallbackIsDue
=============================================================================
