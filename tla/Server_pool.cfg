SPECIFICATION Spec
CONSTANTS
    r1 = r1
    r2 = r2
    r3 = r3
    c1 = c1
    c2 = c2
    Nobody = Nobody
    Clients = {r1, r2, r3}
    Conns = {c1, c2}
    DataLocks = {"d1", "d2"}
    TypeLocks = {"t1"}
    Ops = {"readyz", "update"}
    Keys = {"zhuzhao"}
    BoundKey = "zhuzhao"
    Secrets = {"secret", ""}
    NoSecret = ""
    Unset = Unset
    Sources <- MCSources
    MaxPort = 2
    MaxNested = 2
CHECK_DEADLOCK FALSE
INVARIANT PoolNeverStuck
