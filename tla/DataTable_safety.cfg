SPECIFICATION Spec
CONSTANTS
    p1 = p1
    p2 = p2
    k = k
    n = n
    a = a
    b = b
    Null = Null
    Procs <- MCPairs
    Fields = {k, n}
    Values = {a, b}
    Schemas <- OneSchema
    Bodies <- SomeBodies
    AskedIDs = {1, 2}
    AskedVersions = {1, 2, 3}
    Files <- GoodFiles
    BatchRows = 1
    InitialRows <- Twins
    Ops = {"Insert", "Update", "SoftDelete", "Restore", "Import"}
    Faults = {"lost", "commitFailed"}
    MaxRequests = 3
SYMMETRY Symmetry2
INVARIANT LockDiscipline
INVARIANT VersionIdentifiesContent
PROPERTY VersionedStep
PROPERTY NoLostUpdate
PROPERTY ImportReplacesAll
PROPERTY ImplementsStore
