SPECIFICATION FairSpec
CONSTANTS
    r1 = r1
    r2 = r2
    r3 = r3
    c1 = c1
    c2 = c2
    Nobody = Nobody
    Clients = {r1, r2, r3}
    Conns = {c1, c2}
    DataLocks = {"d1"}
    TypeLocks = {"t1"}
    Ops = {"update", "register"}
    Keys = {"zhuzhao"}
    BoundKey = "zhuzhao"
    Secrets = {"secret", ""}
    NoSecret = ""
    Unset = Unset
    Sources <- MCSources
    MaxPort = 2
    MaxNested = 1
CHECK_DEADLOCK FALSE
INVARIANT TypeOK
INVARIANT NothingUnverifiedRuns
INVARIANT PoolNeverStuck
INVARIANT NobodyWaitsForAll
PROPERTY EveryRequestEnds
PROPERTY SignalStops
