SPECIFICATION IngressSpec
CONSTANTS
    Token <- MCToken
    Nul = "0"
    MaxTokens = 20
    HeadersQ = {"query", "response"}
    HeadersA = {"response", "bare"}
    ASlots = 3
    AAAASlots = 4
    CNAMESlots = 2
    ACounter = 4
    AAAACounter = 4
    CNAMECounter = 4
    Frames <- PlainFrames
    NoFrame = NoFrame
    NextAfter = "anytime"
    LastLate = FALSE
    OffloadAfter = 2
    QnameBytes = 5
    HashBits = 1
    Shift1 = 1
    Shift2 = 1
PROPERTIES
    PacketLeaves
