SPECIFICATION Spec
CONSTANTS
    Scripts <- MCEmptyForeign
    BuffLen = 3
    Chunks = {2, 5}
    HangsUp = FALSE
    Signals = FALSE
CHECK_DEADLOCK FALSE
PROPERTY ReadsConsecutively
