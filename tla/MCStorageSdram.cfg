SPECIFICATION SdSpec
CONSTANTS
    Rows = 1
    Cells = 2
    NameWords = 2
    ABase = 10
    AAAABase = 12
    CNameBase = 14
    QHostBase = 16
    BlockWords = 32
    Quarters = 2
    Bytes = 2
    Half = 4
    AMax = 2
    AAAAMax = 1
    OffloadAfter = 2
    Packets <- MCPackets
    UartReady = {TRUE}
    TRC_CNTR_C = 2
    TRP_CNTR_C = 1
    TRCD_CNTR_C = 1
    RFSH_CNTR_C = 17
    WAIT_200_CNTR_C = 3
    InitRefreshes = 2
    NoRow = NoRow
    QnameBytes = 16
    HashBits = 6
    Shift1 = 1
    Shift2 = 3
    ByteValues = 4
    RowBits = 3
    Domains = {}
    ShowIn = {"IDLE"}
INVARIANTS
    AnswerIsItsOwn
PROPERTIES
    CountsLikeATable
    AAAARecordsKept
