SPECIFICATION DumpSpec
CONSTANTS
    Rows = 1
    Cells = 1
    NameWords = 1
    ABase = 8
    AAAABase = 9
    CNameBase = 10
    QHostBase = 11
    BlockWords = 13
    Quarters = 1
    Bytes = 2
    Half = 4
    AMax = 1
    AAAAMax = 1
    OffloadAfter = 0
    Packets <- MCPackets
    FifoDepth = 2
    UpdateWord = 1
INVARIANT BytesInOrder
PROPERTIES
    EveryByteArrives
    TesterReadsTheCell
