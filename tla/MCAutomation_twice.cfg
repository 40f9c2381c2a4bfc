SPECIFICATION Spec
CONSTANTS
    None = None
    r1 = r1
    r2 = r2
    Jobs = {1}
    Relayers = {r1, r2}
    Populations <- PricePair
    Prices = {1}
    MaxQueuedPerTick = 1
    CountBound = 2
    MaxFaults = 0
INVARIANT OneRequestPerExecution
CHECK_DEADLOCK FALSE
