SPECIFICATION Spec
CONSTANTS
  r1 = r1
  r2 = r2
  none = none
  Instances = {r1, r2}
  Null = none
  MainLane = "cursor"
  MaxRequests = 1
  MaxBlocksPerTick = 2
  MaxFresh = 1
  MaxRetryEvents = 2
  MaxRetries = 0
  Ceiling = 1
  RetryQueueLimit = 0
  LocalClaimers = {r1}
  Throttled = FALSE
  SlowWork = TRUE
  Answers = {"ok"}
  Errors = {"transient"}
  MaxFaults = 1
  MaxCrashes = 0
  CountsTries = FALSE
INVARIANTS
  RecordsTrue
  AttemptsBounded
  CoveredUntilFault
