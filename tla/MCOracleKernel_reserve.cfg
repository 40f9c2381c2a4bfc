SPECIFICATION Spec
CONSTANTS
  root = root
  dev = dev
  user = user
  hook = hook
  kernel = kernel
  zero = zero
  none = none
  app1 = app1
  Accounts = {root, dev, user, hook, kernel, zero}
  Zero = zero
  Null = none
  Self = kernel
  Apps = {app1}
  Modules = {"oracle.fetch"}
  BuiltIn = {"oracle.fetch"}
  ManagedModules = {}
  Deployer = root
  Operators = {root}
  AppAdmins = {}
  FeePayers = {}
  Callbacks = {}
  Requesters = {user}
  Witnesses = {{root}, {user}, {hook}}
  Keys = {k1}
  Caps = {}
  StateKeys = {}
  StateValues = {}
  LegacyApps <- MCSponsoredApp
  LegacyGrants <- MCGrants
  MaxKeyVersion = 0
  Operations = {"oracle"}
  Outcomes <- MCOneOutcome
  ExpiryError = "expired"
  Fees = {}
  DefaultFee = 1
  Ttls = {}
  DefaultTtl = 1
  Deposits = {2}
  Depositors = {user}
  Recipients = {hook}
  Reentrant = {hook}
  MaxGas = 4
  MaxRequests = 2
  MaxTime = 3
INVARIANTS
  AccruedCoversReserved
