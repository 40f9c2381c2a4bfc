SPECIFICATION FairSpec
CONSTANTS
  r1 = r1
  r2 = r2
  none = none
  Instances = {r1}
  Null = none
  MainLane = "block"
  MaxRequests = 1
  MaxBlocksPerTick = 2
  MaxFresh = 1
  MaxRetryEvents = 2
  MaxRetries = 0
  Ceiling = 1
  RetryQueueLimit = 0
  LocalClaimers = {}
  Throttled = TRUE
  SlowWork = FALSE
  Answers = {"ok"}
  Errors = {"transient"}
  MaxFaults = 0
  MaxCrashes = 1
  CountsTries = TRUE
INVARIANTS
  CheckpointCovered
  TriesBounded
PROPERTIES
  EventuallyHandled
