--------------------------- MODULE MCFcgiClients ---------------------------
(* What is built on the FCGX streams: a program written for stdio, or one   *)
(* for iostreams, from request to request; or one call of FCGX_VFPrintF,    *)
(* which both may make.                                                     *)
EXTENDS FcgiStdio, FcgioStreambuf, MCFcgxPrintf

VARIABLE client
vars == <<requestVars, stdioVars, bufVars, printfVars, client>>

Init ==
    /\ client \in {"stdio", "streambuf", "printf"}
    /\ RequestInit /\ StdioInit /\ BufInit
    /\ client # "stdio" => fastCGI
    /\ IF client = "printf" THEN PrintfInit ELSE Called(<<>>)

Next ==
    /\ UNCHANGED client
    /\ \/ /\ client = "stdio" /\ StdioNext
          /\ UNCHANGED <<bufVars, printfVars>>
       \/ /\ client = "streambuf" /\ BufNext
          /\ UNCHANGED <<stdioVars, printfVars>>
       \/ /\ client = "printf" /\ PrintfNext
          /\ UNCHANGED <<requestVars, stdioVars, bufVars>>

Spec == Init /\ [][Next]_vars

Symmetry == Permutations(Handles)
=============================================================================
