SPECIFICATION Spec
CHECK_DEADLOCK FALSE
SYMMETRY Symmetry
CONSTANTS
    MaxRequests = 2
    Handles = {f1, f2}
    Heap = {h}
    BufSize = 2
    StdinLen = 3
    DataLen = 1
    MaxWritten = 4
    Formats <- MCFormats
INVARIANT CallsArrive
INVARIANT RequestsEnd
INVARIANT OutputSurvives
INVARIANT InputSurvives
INVARIANT InStep
INVARIANT BuffersSuffice
PROPERTY FilesAreHeld
