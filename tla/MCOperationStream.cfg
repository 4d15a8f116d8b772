SPECIFICATION FairSpec
CONSTANTS
    h1 = h1
    h2 = h2
    Streams <- TwoStreams
    NumServices = 3
    WithScript <- FirstAndLast
    MaxLines = 2
    MaxChunk = 2
    Capacity = 2
INVARIANTS OutputIsHonest NoSendOnClosed
PROPERTY CloseEndsStream
CHECK_DEADLOCK FALSE
