SPECIFICATION RamSpec
CONSTANTS
    Rows = 1
    Cells = 8
    NameWords = 2
    ABase = 10
    AAAABase = 14
    CNameBase = 18
    QHostBase = 22
    BlockWords = 28
    Quarters = 2
    Bytes = 2
    Half = 4
    AMax = 3
    AAAAMax = 2
    OffloadAfter = 2
    Packets <- MixedPackets
    PowerUpMems <- GarbledMems
    Latency = 1
    UartReady = {TRUE}
    QnameBytes = 4
    HashBits = 6
    Shift1 = 1
    Shift2 = 3
    ByteValues = 4
    RowBits = 3
    Domains <- MCDomains
    ShowIn = {"IDLE"}
PROPERTIES
    EveryOffloadEnds
