SPECIFICATION FairSpec
CONSTANTS
    BuffLen <- MCBuffLen
    Status <- MCStatus
    Prints <- MCPrints
    MaxBytes <- MCMaxBytes
INVARIANTS
    TypeOK
    StreamIntegrity
    RecordsFit
    ResponseOrder
    KeptConnectionIsClean
PROPERTIES
    FCloseIsFinal
    ImplementsChannel
    CallsReturn
