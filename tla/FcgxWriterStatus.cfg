SPECIFICATION Spec
CONSTANTS
    BuffLen <- MCBuffLen
    Status <- MCTwoStatus
    Prints <- MCPrints
    MaxBytes <- MCOneCall
INVARIANTS
    ExitStatusIsTheRequests
