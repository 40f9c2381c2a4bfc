SPECIFICATION Spec
CONSTANTS
    None = None
    r1 = r1
    r2 = r2
    Jobs = {1}
    Relayers = {r1}
    Populations <- Unconfirmed
    Prices = {0}
    MaxQueuedPerTick = 1
    CountBound = 2
    MaxFaults = 1
INVARIANT OneRequestPerExecution
CHECK_DEADLOCK FALSE
