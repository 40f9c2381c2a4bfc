SPECIFICATION UpkeepSpec
CONSTANTS
    None = None
    r1 = r1
    r2 = r2
    Jobs = {1, 2}
    Relayers = {r1, r2}
    Populations <- OneOrTwo
    Prices = {0, 1}
    MaxQueuedPerTick = 1
    CountBound = 2
    MaxFaults = 2
INVARIANT BoundedByMax
INVARIANT DuplicatesNeedLoss
PROPERTY CancelStops
PROPERTY ScheduleServed
CHECK_DEADLOCK FALSE
