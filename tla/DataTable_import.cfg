SPECIFICATION FairSpec
CONSTANTS
    p1 = p1
    p2 = p2
    k = k
    n = n
    a = a
    b = b
    Null = Null
    Procs <- MCPairs
    Fields = {k, n}
    Values = {a, b}
    Schemas <- OneSchema
    Bodies <- SomeBodies
    AskedIDs = {1, 2}
    AskedVersions = {1}
    Files <- MixedFiles
    BatchRows = 1
    InitialRows <- Twins
    Ops = {"Insert", "Update", "Import"}
    Faults = {}
    MaxRequests = 3
INVARIANT TypeOK
INVARIANT SequenceAhead
INVARIANT OnlyImportsDeadlock
PROPERTY ImportReplacesAll
PROPERTY EveryRequestAnswered
