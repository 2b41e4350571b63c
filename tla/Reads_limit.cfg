SPECIFICATION Spec
CONSTANTS
    IDs = {1, 2, 3}
    Fields = {"f"}
    Times = {1, 2}
    Tables <- MCTables
    Queries <- MCQueries
    pageSizeDefault = 1
    pageSizeMax = 2
    verifierLimit = 1
    importMaxRows = 3
    MaxWrites = 3
INVARIANT ImportLimitIsItsOwn
