---------------------------- MODULE MCFcgxWriter ----------------------------
(* Small instances of FcgxWriter for TLC.                                  *)
EXTENDS FcgxWriter

\* The smallest buffer NewStream can make (32 bytes, misaligned), for which a
\* close splits nothing, and 32, where END_REQUEST may not fit as a whole.
MCBuffLen == [s \in Stream |-> IF s = "out" THEN 32 ELSE 24]
MCStatus == {0}
MCTwoStatus == {0, 1}
\* Out has room for 24 bytes: 7 and 17 fill it exactly, 17 and 8 are one too
\* many, in two pieces.  Err has room for 16: 7 leave padding, 17 overflow it,
\* 25 overflow it, and the second piece fills it partly.
MCPrints == {<<7>>, <<17, 8>>}
MCMaxBytes == [s \in Stream |-> IF s = "out" THEN 8 ELSE 1]
MCOneCall == [s \in Stream |-> 1]
=============================================================================
