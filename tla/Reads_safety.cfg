SPECIFICATION FairSpec
CONSTANTS
    IDs = {1, 2, 3}
    Fields = {"f"}
    Tables <- MCTables
    Queries <- MCQueries
    pageSizeDefault = 1
    pageSizeMax = 2
    verifierLimit = 3
    importMaxRows = 3
    Times = {1, 2}
    MaxWrites = 3
INVARIANT TypeOK
INVARIANT NothingMissed
INVARIANT ListedOnce
PROPERTY ExportRestores
PROPERTY TraversalEnds
