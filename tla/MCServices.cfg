SPECIFICATION MCSpec
CONSTANTS
  none = none
  root = root
  worker = worker
  owner = owner
  neo = neo
  gas = gas
  k1 = k1
  k2 = k2
  dice = dice
  ann = ann
  Null = none
  Pairs = {neo, gas}
  Deployments <- MCDeployments
  FeedAccounts = {root, worker}
  FeedDeployer = root
  FeedKeys = {k1}
  Notes <- MCNotes
  Ticks = {1, 2}
  Worker = worker
  FirstRounds = {1}
  DidAccounts = {root, owner}
  Providers = {"github"}
  Uids = {1, 2}
  ClaimTypes = {"human"}
  Actions = {"vote"}
  DidKeys = {k1, k2}
  Networks = {"mainnet", "testnet"}
  HomeNetwork = "mainnet"
  Unset = none
  DidDeployer = root
  MaxTickets = 3
  EvmAccounts = {root, dice, ann}
  EvmNone = none
  EvmDeployer = root
  EvmApps = {"dice"}
  EvmModules = {"random"}
  FirstCallback <- MCFirstCallback
  EvmResults = {1, 2}
  EvmFees = {0, 1}
  DefaultRequestTTL = 1
  EvmTtls = {1, 2}
  Values = {0, 2}
  Scenes <- MCScenes
  MaxEvmRequests = 2
  MaxEvmTime = 2
  Dice = dice
  RandomModule = "random"
  Players = {ann}
  Faces = {1}
  Stakes = {1, 2}
  DefaultStakes <- MCDefaultStakes
  StakeLimits <- MCStakeLimits
  Funds = {10}
  MaxDiceBalance = 16
  Fulfiller = root
  Lookback = 5
  ChunkBlocks = 1
  MaxMishaps = 1
CHECK_DEADLOCK FALSE
INVARIANTS
  IndexExact
  OneBindingPerIdentity
  OneUsePerAction
  EventsTellBindings
  EvmFeesExact
  DiceBooksExact
  CoveredUnlessRefused
  CursorCovers
PROPERTIES
  ReplacesItsBaseline
  FeedsCatchUp
  RequestsAnswered
