SPECIFICATION Spec
CONSTANTS
    Proc = {p1}
    Conn = {c1, c2}
    Setups <- MCThreads
    MaxFd = 2
CHECK_DEADLOCK FALSE
INVARIANTS
    ReturnsValidFd
