CONSTANTS
    InputSize = 1
    OutputSize = 1
    MemorySize = 1
    BitsPerByte = 2
    Period = 20
    Sources <- MCDocuments
    MaxScans = 5

SPECIFICATION ScansSpec

INVARIANTS
    OnDelay
    RungOrder

CHECK_DEADLOCK FALSE
