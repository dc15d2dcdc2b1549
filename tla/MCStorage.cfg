SPECIFICATION Spec
CONSTANTS
    Rows = 2
    Cells = 2
    NameWords = 2
    ABase = 9
    AAAABase = 11
    CNameBase = 15
    QHostBase = 19
    BlockWords = 22
    Quarters = 2
    Bytes = 2
    Half = 2
    AMax = 3
    AAAAMax = 3
    OffloadAfter = 1
    Packets <- MCPackets
ACTION_CONSTRAINT Bounded
INVARIANTS
    TypeOK
    WritesInRegion
    WaitsForItsRequest
    NameWordsInOrder
    StatisticsInTheirSlots
    RecordsRemain
    AAAAQuartersAligned
    CNameSlotsAligned
    IInv
