SPECIFICATION Spec
CONSTANTS
    Codes <- MCCodes
    Lengths <- MCLengths
    MaxCalls = 4
CHECK_DEADLOCK FALSE
INVARIANTS
    TypeOK
    StatusAsDocumented
    BodyAsDescribed
