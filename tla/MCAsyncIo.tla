----------------------------- MODULE MCAsyncIo -----------------------------
(* Descriptors 0 and 2 and a table that starts with the entries of one, so *)
(* that registering descriptor 2 doubles it twice.                         *)
EXTENDS AsyncIo

MCFds == {0, 2}
=============================================================================
