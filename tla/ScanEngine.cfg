CONSTANTS
    InputSize = 1
    OutputSize = 1
    MemorySize = 0
    BitsPerByte = 2
    Period = 20
    Documents <- MCDocuments
    NoProgram = NoProgram

SPECIFICATION FairSpec

INVARIANTS
    ReferencesInRange
    OneScanThread

PROPERTIES
    InputsFrozen
    ImplementsAtomicScan
    StopReturns
    DeployedProgramRuns
