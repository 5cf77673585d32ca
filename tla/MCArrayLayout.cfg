SPECIFICATION Spec
CONSTANTS
    MAX_OBJ_NUM = 4
    MAX_BIT = 7
    Columns = 2
    Vals = {0, 1}
    Values <- MCValues
    MaxUpdates = 1
CHECK_DEADLOCK FALSE
INVARIANTS
    SlotsAccounted
    RowsStayPut
    FindsAll
    FoundByMatches
PROPERTY UpdateOneValue
