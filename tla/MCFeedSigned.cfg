SPECIFICATION CountingSpec
CONSTANTS
  none = none
  root = root
  worker = worker
  neo = neo
  gas = gas
  k1 = k1
  Null = none
  Pairs = {neo, gas}
  Deployments <- MCDeployments
  FeedAccounts = {root, worker}
  FeedDeployer = root
  FeedKeys = {k1}
  Notes <- MCNotes
  Ticks = {1}
  Worker = worker
  FirstRounds = {1}
CHECK_DEADLOCK FALSE
INVARIANT EveryPairGetsItsTurn
