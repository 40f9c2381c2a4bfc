SPECIFICATION Spec
CONSTANTS
  r1 = r1
  r2 = r2
  none = none
  Instances = {r1}
  Null = none
  MainLane = "cursor"
  MaxRequests = 1
  MaxBlocksPerTick = 2
  MaxFresh = 1
  MaxRetryEvents = 2
  MaxRetries = 1
  Ceiling = 2
  RetryQueueLimit = 0
  LocalClaimers = {}
  Throttled = FALSE
  SlowWork = FALSE
  Answers = {"ok"}
  Errors = {}
  MaxFaults = 1
  MaxCrashes = 0
  CountsTries = FALSE
INVARIANTS
  CheckpointCovered
