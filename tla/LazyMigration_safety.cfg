SPECIFICATION Spec
CONSTANTS
    Keys = {"a", "b", "c", "id"}
    BadNames = {}
    reservedFields = {"id"}
    stringMaxCharsDefault = 2
    stringMaxCharsMax = 3
    listMaxItemsDefault = 1
    listMaxItemsMax = 2
    Admins = {"admin"}
    Names = {"t"}
    Schemas <- MCSchemas
    NoSchema = NoSchema
    Versions = {1, 2}
    Faults = {"readFailed"}
    MaxRequests = 3
    TypeName = "t"
    Writers <- MCWriters
    IDs = {1}
    Bodies <- MCBodies
    Files <- MCFiles
    MaxWrites = 3
    w1 = w1
    w2 = w2
SYMMETRY Symmetry2
INVARIANT TypeOK
INVARIANT RowsFitSomeSchema
INVARIANT OnlyRemovedFieldsBlock
PROPERTY LeftoverIsExplained
PROPERTY LeftoverStays
