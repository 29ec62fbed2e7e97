SPECIFICATION FairSpec
CONSTANTS
    Proc = {p1, p2}
    Conn = {c1, c2}
    Setups <- MCSetups
    MaxFd = 2
CHECK_DEADLOCK FALSE
INVARIANTS
    TypeOK
    LockCoversAccept
    ConnectionsEndWell
    OneLateAccept
PROPERTIES
    AcceptGoesOn
