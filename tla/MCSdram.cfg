SPECIFICATION BusSpec
CONSTANTS
    Banks = {0}
    BankRows = {0, 1}
    Columns = {0}
    Data = {0, 1}
    TRC_CNTR_C = 2
    TRP_CNTR_C = 1
    TRCD_CNTR_C = 1
    RFSH_CNTR_C = 20
    WAIT_200_CNTR_C = 3
    InitRefreshes = 2
    NoRow = NoRow
    MinRest = 16
    PowerUpCells <- MCCells
INVARIANTS
    BusTypeOK
    ColumnInItsRow
    RefreshInTime
PROPERTIES
    ActsAsMemory
    RequestAnswered
