CONSTANTS
    Half = 8
    Text = 1
    Close = 2
    Ping = 3
    Pong = 4
    ByteXor <- MCByteXor
    SendTakes <- MCSendTakes
    Segmented = FALSE
    Junk = {0}
    TextLengths = {0, 5, 6, 255, 256}
    ClientFrames <- MCFrames
    LongestKey = 72
    MaxSaid = 3
    MaxTexts = 2
SPECIFICATION ConnectionSpec
INVARIANTS
    BrowserReadsWhatIsMeant
    PingsAnswered
    DigestsAsSpecified
CHECK_DEADLOCK FALSE
