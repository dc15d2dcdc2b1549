SPECIFICATION Spec
CONSTANTS
    Urls = {"a", "b", "c", "other"}
    Names = {"a", "b", "c"}
    Other = "other"
    Counts <- MCCounts
    Digits = {"1", "2"}
    top_n_width = 2
    BufferTokens = 5
    MaxLines = 3
    MaxRuns = 2
    FirstFile <- MCFirstFile
INVARIANTS
    DatabaseInv
    TheTop
PROPERTIES
    PlotIsAnExport
    
CHECK_DEADLOCK FALSE
