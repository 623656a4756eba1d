CONSTANTS
    I = I
    Q = Q
    c1 = c1
    c2 = c2
    Scanner = Scanner
    Clients = {c1, c2}
    Threads <- MCThreads
    Areas <- MCAreas
    Size <- MCSize
    Width = 10
    Blocks <- MCBlocks
    MaxOffset = 2
    MaxBit = 9
    None = None
    Rules = 3
    Coil <- MCCoil
    MaxScans = 3
    MaxFrames = 1
SYMMETRY Symmetry
SPECIFICATION FramesSpec

    
PROPERTY ImplementsAtomicMemory
CHECK_DEADLOCK FALSE
