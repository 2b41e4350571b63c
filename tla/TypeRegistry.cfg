SPECIFICATION FairSpec
CONSTANTS
    p1 = p1
    p2 = p2
    NoSchema = NoSchema
    Procs <- MCPairs
    Names = {"t"}
    Schemas = {"s1", "s2"}
    Versions = {1, 2}
    Faults = {"lost", "commitFailed", "readFailed"}
    MaxRequests = 5
INVARIANT TypeOK
INVARIANT HistoryMatchesType
INVARIANT HistoryIDsInOrder
PROPERTY NoLostEvolution
PROPERTY EveryRequestAnswered
PROPERTY AnswerShowsChange
PROPERTY ImplementsTypes
