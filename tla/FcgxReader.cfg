SPECIFICATION FairSpec
CONSTANTS
    Scripts <- MCAllScripts
    BuffLen = 3
    Chunks = {2, 5}
    HangsUp = TRUE
    Signals = TRUE
CHECK_DEADLOCK FALSE
INVARIANTS
    TypeOK
    InputInOrder
    StreamsAreWhole
    AnswersInOrder
    GoodServerIsServed
PROPERTIES
    CallsReturn
