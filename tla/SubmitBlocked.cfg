SPECIFICATION Spec

CONSTANTS
    Clients = {c1}
    PoolSize = 1
    Capacity = 1
    MaxPending = 1
    MaxRespawns = 1
    MaxTasks = 4
    Faulty = {}

CHECK_DEADLOCK FALSE

PROPERTIES
    SubmitReturns
