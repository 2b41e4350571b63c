SPECIFICATION Spec
CONSTANTS
    p1 = p1
    p2 = p2
    k = k
    n = n
    a = a
    b = b
    Null = Null
    Procs <- MCPairs
    Fields = {k, n}
    Values = {a, b}
    Schemas <- OneSchema
    Bodies <- SomeBodies
    AskedIDs = {1}
    AskedVersions = {1}
    Files <- OneFile
    BatchRows = 1
    InitialRows <- Single
    Ops = {"Update", "Import"}
    Faults = {}
    MaxRequests = 3
PROPERTY WriteWaitsOrConflicts
