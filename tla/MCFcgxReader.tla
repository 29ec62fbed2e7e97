---------------------------- MODULE MCFcgxReader ----------------------------
(* Small instances of FcgxReader for TLC: what servers send.               *)
EXTENDS FcgxReader

Rec(type, id, len, pad, n) ==
    [type |-> type, id |-> id, len |-> len, pad |-> pad, nth |-> n,
     role |-> "none", keep |-> FALSE]

Begin(id, n, role, keep) ==
    [Rec("begin", id, BodyLen, 0, n) EXCEPT !.role = role, !.keep = keep]

\* Two requests; padding; a parameter, and the content, in two records.
TwoRequests ==
    <<Begin(1, 1, "responder", TRUE),
      Rec("params", 1, 1, 1, 1), Rec("params", 1, 3, 0, 1),
      Rec("params", 1, 0, 0, 1),
      Rec("stdin", 1, 2, 1, 1), Rec("stdin", 1, 1, 0, 1),
      Rec("stdin", 1, 0, 0, 1),
      Begin(2, 2, "responder", FALSE), Rec("params", 2, 0, 0, 2),
      Rec("stdin", 2, 1, 2, 2), Rec("stdin", 2, 0, 0, 2)>>

\* A second request, multiplexed, which the reader refuses.
Multiplexed ==
    <<Begin(1, 1, "responder", FALSE), Rec("params", 1, 2, 0, 1),
      Begin(2, 1, "responder", FALSE), Rec("params", 2, 2, 1, 1),
      Rec("params", 1, 0, 0, 1), Rec("stdin", 1, 1, 0, 1),
      Rec("stdin", 2, 2, 0, 1), Rec("stdin", 1, 2, 1, 1),
      Rec("stdin", 1, 0, 0, 1)>>

\* Management records, before the request, in it and between two requests.
Managed ==
    <<Rec("values", 0, 2, 1, 1), Begin(1, 1, "responder", TRUE),
      Rec("params", 1, 2, 0, 1), Rec("unknown", 0, 0, 0, 1),
      Rec("params", 1, 0, 0, 1), Rec("stdin", 1, 0, 0, 1),
      Rec("values", 0, 0, 2, 2), Begin(1, 2, "responder", FALSE),
      Rec("params", 1, 0, 0, 2), Rec("stdin", 1, 0, 0, 2)>>

Filter ==
    <<Begin(1, 1, "filter", TRUE), Rec("params", 1, 0, 0, 1),
      Rec("stdin", 1, 2, 0, 1), Rec("stdin", 1, 0, 0, 1),
      Rec("data", 1, 2, 1, 1), Rec("data", 1, 0, 0, 1)>>

\* What the reader takes for errors, or does not cope with.
BadRole == <<Begin(1, 1, "bad", TRUE), Rec("params", 1, 0, 0, 1)>>
OutOfOrder == <<Begin(1, 1, "responder", TRUE), Rec("stdin", 1, 2, 0, 1)>>
ShortBegin == <<[Begin(1, 1, "responder", TRUE) EXCEPT !.len = 1]>>
PaddedBegin == <<[Begin(1, 1, "responder", TRUE) EXCEPT !.pad = 2],
                 Rec("params", 1, 0, 0, 1), Rec("stdin", 1, 0, 0, 1)>>
UnknownContent ==
    <<Begin(1, 1, "responder", TRUE), Rec("params", 1, 0, 0, 1),
      Rec("unknown", 0, 2, 0, 1), Rec("stdin", 1, 1, 0, 1),
      Rec("stdin", 1, 0, 0, 1)>>
EmptyForeign ==
    <<Begin(1, 1, "responder", TRUE), Rec("params", 1, 0, 0, 1),
      Rec("stdin", 1, 1, 0, 1), Rec("stdin", 2, 0, 0, 1),
      Rec("stdin", 1, 2, 0, 1), Rec("stdin", 1, 1, 0, 1),
      Rec("stdin", 1, 0, 0, 1)>>

\* A request multiplexed with one that the application may finish early.
LeftUnread ==
    <<Begin(1, 1, "responder", TRUE), Rec("params", 1, 0, 0, 1),
      Begin(2, 1, "responder", TRUE), Rec("params", 2, 2, 0, 1),
      Rec("stdin", 2, 1, 0, 1), Rec("stdin", 1, 0, 0, 1)>>

GoodScripts == {TwoRequests, Multiplexed, Managed, Filter, LeftUnread}
BadScripts == {BadRole, OutOfOrder, ShortBegin, PaddedBegin, UnknownContent}
MCAllScripts == GoodScripts \cup BadScripts
MCTruncated == {TwoRequests}
MCEmptyForeign == {EmptyForeign}

ASSUME \A s \in GoodScripts : WellFormed(s)
ASSUME \A s \in BadScripts : ~WellFormed(s)
=============================================================================
