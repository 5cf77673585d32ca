SPECIFICATION Spec
CONSTANTS
    MaxRows = 4
    MaxRowLen = 3
    MAX_TRX_BUFFER_SZ = 2
    DefaultType = "RESULT"
INVARIANTS
    RowsInOrder
    CompleteMeansAll
    BulksAreFull
    SingleBulkIsShown
PROPERTIES
    ServerReleases
    ReplyPromised
