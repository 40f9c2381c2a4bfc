SPECIFICATION Spec
CONSTANTS
    None = None
    r1 = r1
    r2 = r2
    Jobs = {1}
    Relayers = {r1}
    Populations <- PriceJob
    Prices = {1}
    MaxQueuedPerTick = 1
    CountBound = 2
    MaxFaults = 0
PROPERTY PriceTriggerFires
CHECK_DEADLOCK FALSE
