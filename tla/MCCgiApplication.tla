-------------------------- MODULE MCCgiApplication --------------------------
(* Small instances of CgiApplication for TLC.                              *)
EXTENDS CgiApplication

=============================================================================
