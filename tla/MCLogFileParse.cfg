SPECIFICATION LogSpec
CONSTANTS
    Packets <- MCPackets
    MaxPackets = 3
    MaxCaptures = 2
    MaxOthers = 1
INVARIANT SumsTheLog
\* the script ends, or stops with an error
CHECK_DEADLOCK FALSE
