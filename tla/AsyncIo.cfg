SPECIFICATION Spec
CHECK_DEADLOCK FALSE
CONSTANTS
    Fds <- MCFds
    InitialTableSize = 2
    MaxProcs = 3
INVARIANT TypeOK
INVARIANT NothingIsLost
PROPERTY CallbackIsDue
PROPERTY ReadyIsServed
