SPECIFICATION Spec
CONSTANTS
    S_COUNT = 2
    S_ID_WIDTH = 1
    ARB_TYPE_ROUND_ROBIN = TRUE
    ARB_LSB_HIGH_PRIORITY = TRUE
    C_COUNT = 2
    B_COUNT = 2
    M_COUNT = 3
    M_DEST_WIDTH = 1
    O_COUNT = 3
    O_DEST_WIDTH = 1
    I_ID_WIDTH = 1
    Streams <- MCStreams
PROPERTIES IsASwitch NoStarvation
