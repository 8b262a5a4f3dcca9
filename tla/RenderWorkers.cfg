SPECIFICATION Spec

CONSTANTS
    Clients = {c1}
    PoolSize = 2
    Capacity = 1
    MaxPending = 1
    MaxRespawns = 1
    MaxTasks = 4
    Faulty = {1, 3}

CHECK_DEADLOCK FALSE

INVARIANTS
    TypeOK
    OnePlace

PROPERTIES
    OutputsKept
    Delivered
    SubmitWaits
    StopsClean
