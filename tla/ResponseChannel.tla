-------------------------- MODULE ResponseChannel --------------------------
(***************************************************************************)
(* What a FastCGI request's output promises, without buffers or records:   *)
(* the server gets a growing prefix of the bytes each stream took, until a *)
(* failure breaks the stream; the request ends only when every unbroken    *)
(* stream is delivered whole.  The n-th byte of a stream is the number n.  *)
(***************************************************************************)
EXTENDS Integers, Sequences

CONSTANT Stream

VARIABLES taken, got, broken, ended

vars == <<taken, got, broken, ended>>

Upto(n) == [i \in 1..n |-> i]

Init ==
    /\ taken = [s \in Stream |-> 0]
    /\ got = [s \in Stream |-> <<>>]
    /\ broken = [s \in Stream |-> FALSE]
    /\ ended = FALSE

\* The application writes; a broken stream may still take bytes.
Take(s) ==
    /\ ~ended
    /\ taken'[s] \in Nat /\ taken'[s] >= taken[s]
    /\ taken' = [taken EXCEPT ![s] = taken'[s]]
    /\ UNCHANGED <<got, broken, ended>>

Deliver(s) ==
    /\ ~ended /\ ~broken[s]
    /\ \E n \in Len(got[s])..taken[s] : got' = [got EXCEPT ![s] = Upto(n)]
    /\ UNCHANGED <<taken, broken, ended>>

Break(s) ==
    /\ ~ended
    /\ broken' = [broken EXCEPT ![s] = TRUE]
    /\ got' = [got EXCEPT ![s] = <<>>]
    /\ UNCHANGED <<taken, ended>>

End ==
    /\ ~ended
    /\ \A s \in Stream : ~broken[s] => got[s] = Upto(taken[s])
    /\ ended' = TRUE
    /\ UNCHANGED <<taken, got, broken>>

\* The next request.
Begin ==
    /\ ended
    /\ taken' = [s \in Stream |-> 0]
    /\ got' = [s \in Stream |-> <<>>]
    /\ broken' = [s \in Stream |-> FALSE]
    /\ ended' = FALSE

Next == (\E s \in Stream : Take(s) \/ Deliver(s) \/ Break(s)) \/ End \/ Begin

Spec == Init /\ [][Next]_vars

=============================================================================
