SPECIFICATION Spec
CONSTANTS
  root = root
  dev = dev
  user = user
  hook = hook
  kernel = kernel
  zero = zero
  none = none
  app1 = app1
  Accounts = {root, dev, user, hook, kernel, zero}
  Zero = zero
  Null = none
  Self = kernel
  Apps = {app1}
  Modules = {"oracle.fetch"}
  BuiltIn = {"oracle.fetch"}
  ManagedModules = {}
  Deployer = root
  Operators = {root}
  AppAdmins = {}
  FeePayers = {}
  Callbacks = {}
  Requesters = {user}
  Witnesses = {{root}, {dev}, {user}}
  Keys = {k1}
  Caps = {}
  StateKeys = {}
  StateValues = {}
  LegacyApps <- MCSponsoredApp
  LegacyGrants <- MCGrants
  MaxKeyVersion = 0
  Operations = {"oracle"}
  Outcomes <- MCOneOutcome
  ExpiryError = "expired"
  Fees = {2}
  DefaultFee = 1
  Ttls = {}
  DefaultTtl = 1
  Deposits = {2}
  Depositors = {dev, user}
  Recipients = {root, kernel, hook}
  Reentrant = {hook}
  MaxGas = 4
  MaxRequests = 2
  MaxTime = 4
INVARIANTS
  ReservedExact
  Solvent
  SpendLedgerExact
PROPERTIES
  ImplementsEscrow
