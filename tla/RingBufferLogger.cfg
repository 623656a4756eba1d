CONSTANTS
    Capacity = 3
    MaxFileEntries = 2
    MaxBackups = 2
    MaxLogged = 7

SPECIFICATION FairSpec

INVARIANTS
    Accounting
    OrderPreserved
    RotationKeepsNewest
    StopFlushes

PROPERTIES
    ImplementsDropOldestLog
    EntryFlushed
    StopReturns
