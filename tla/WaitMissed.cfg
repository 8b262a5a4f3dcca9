SPECIFICATION Spec

CONSTANTS
    Clients = {c1, c2}
    PoolSize = 1
    Capacity = 1
    MaxPending = 1
    MaxRespawns = 1
    MaxTasks = 2
    Faulty = {}

CHECK_DEADLOCK FALSE

INVARIANTS
    WaitNotMissed
