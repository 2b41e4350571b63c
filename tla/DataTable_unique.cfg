SPECIFICATION Spec
CONSTANTS
    p1 = p1
    p2 = p2
    k = k
    n = n
    a = a
    b = b
    Null = Null
    Procs <- MCPairs
    Fields = {k, n}
    Values = {a, b}
    Schemas <- TwoSchemas
    Bodies <- NullBodies
    AskedIDs = {1, 2}
    AskedVersions = {0, 1}
    Files <- OneFile
    BatchRows = 1
    InitialRows <- Dormant
    Ops = {"Insert", "Update", "SoftDelete", "Restore", "Import", "Evolve", "Deprecate"}
    Faults = {}
    MaxRequests = 3
SYMMETRY Symmetry2
PROPERTY DuplicateOnlyInWindow
PROPERTY DeprecatedFrozen
