----------------------------- MODULE MCOsAccept -----------------------------
(* Small instances of OsAccept for TLC.                                    *)
EXTENDS OsAccept

\* Several processes behind an Internet socket, with the lock; one with threads
\* behind a Unix socket, without.
MCOne == {CHOOSE p \in Proc : TRUE}
MCInet == [workers |-> Proc, family |-> "inet", useLocking |-> TRUE,
           failOnIntr |-> TRUE, otherThreads |-> FALSE]
MCUnix == [workers |-> MCOne, family |-> "unix", useLocking |-> FALSE,
           failOnIntr |-> FALSE, otherThreads |-> TRUE]

MCSetups == {MCInet, MCUnix}
MCThreads == {MCUnix}
=============================================================================
