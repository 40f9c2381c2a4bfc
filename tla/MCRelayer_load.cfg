SPECIFICATION FairSpec
CONSTANTS
  r1 = r1
  r2 = r2
  none = none
  Instances = {r1}
  Null = none
  MainLane = "cursor"
  MaxRequests = 2
  MaxBlocksPerTick = 2
  MaxFresh = 1
  MaxRetryEvents = 1
  MaxRetries = 1
  Ceiling = 1
  RetryQueueLimit = 1
  LocalClaimers = {}
  Throttled = FALSE
  SlowWork = TRUE
  Answers = {"ok", "bad"}
  Errors = {"transient", "permanent", "config"}
  MaxFaults = 0
  MaxCrashes = 0
  CountsTries = FALSE
PROPERTIES
  EventuallyHandled
