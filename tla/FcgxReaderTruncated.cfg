SPECIFICATION Spec
CONSTANTS
    Scripts <- MCTruncated
    BuffLen = 3
    Chunks = {2, 5}
    HangsUp = TRUE
    Signals = FALSE
CHECK_DEADLOCK FALSE
PROPERTY EnvIsReadWithoutErrors
