--------------------------- MODULE RequestService ---------------------------
(***************************************************************************)
(* What a CGIKit application promises its FastCGI server, without threads, *)
(* contexts or delegates: each request it takes gets one answer, no answer *)
(* is ever revised, and the application stops only when it owes none.      *)
(***************************************************************************)
CONSTANT Request

VARIABLES
    taken,      \* the requests it has accepted
    answered,   \* those whose connection the server has back
    stopped

vars == <<taken, answered, stopped>>

Init == taken = {} /\ answered = {} /\ stopped = FALSE

Take(r) ==
    /\ ~stopped /\ r \notin taken
    /\ taken' = taken \cup {r}
    /\ UNCHANGED <<answered, stopped>>

Answer(r) ==
    /\ ~stopped /\ r \in taken \ answered
    /\ answered' = answered \cup {r}
    /\ UNCHANGED <<taken, stopped>>

Stop ==
    /\ ~stopped /\ answered = taken
    /\ stopped' = TRUE
    /\ UNCHANGED <<taken, answered>>

Next == (\E r \in Request : Take(r) \/ Answer(r)) \/ Stop

Spec == Init /\ [][Next]_vars

=============================================================================
