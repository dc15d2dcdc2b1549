SPECIFICATION RamSpec
CONSTANTS
    Rows = 1
    Cells = 2
    NameWords = 2
    ABase = 10
    AAAABase = 14
    CNameBase = 18
    QHostBase = 22
    BlockWords = 30
    Quarters = 2
    Bytes = 2
    Half = 4
    AMax = 3
    AAAAMax = 2
    OffloadAfter = 2
    Packets <- MCPackets
    PowerUpMems <- MCMems
    Latency = 1
    UartReady = {TRUE}
    QnameBytes = 4
    HashBits = 6
    Shift1 = 1
    Shift2 = 3
    ByteValues = 4
    RowBits = 3
    Domains <- MCDomains
    ShowIn = {"IDLE"}
INVARIANTS
    CellTakenIsFree
    StatisticsOfTheName
    OffloadReadsInOrder
PROPERTIES
    HashIsOfTheName
    CountsLikeATable
    AAAARecordsKept
    OffloadDropsNoByte
    PacketIsWorkedOff
    PlannedOffloadEnds
