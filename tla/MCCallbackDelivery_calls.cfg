SPECIFICATION MCSpec
CONSTANTS
  root = root
  dev = dev
  user = user
  hook = hook
  kernel = kernel
  kernel2 = kernel2
  zero = zero
  none = none
  app1 = app1
  Accounts = {root, dev, user, hook, kernel, kernel2, zero}
  Zero = zero
  Null = none
  Self = kernel
  Apps = {app1}
  Modules = {"oracle.fetch"}
  BuiltIn = {"oracle.fetch"}
  ManagedModules = {}
  Deployer = root
  Operators = {root}
  AppAdmins = {}
  FeePayers = {}
  Callbacks = {hook}
  Requesters = {user}
  Witnesses = {{root}, {dev}, {user, hook}, {hook}}
  Keys = {k1}
  Caps = {0, 1}
  StateKeys = {}
  StateValues = {}
  LegacyApps <- MCSponsoredApp
  LegacyGrants <- MCGrants
  MaxKeyVersion = 0
  Operations = {"oracle"}
  Outcomes <- MCOutcomes
  ExpiryError = "expired"
  Fees = {}
  DefaultFee = 1
  Ttls = {}
  DefaultTtl = 1
  Deposits = {2}
  Depositors = {dev, user}
  Recipients = {hook}
  Reentrant = {hook}
  MaxGas = 4
  MaxRequests = 2
  MaxTime = 3
  Consumer = hook
  ConsumerDeployer = root
  OtherKernels = {kernel2}
INVARIANTS
  InboxMirrorsRequests
  OutcomeAttested
  RecordsMirrorInbox
PROPERTIES
  OutcomeFinal
  OnlyReentryUncovers
  CapRespected
  RecordFinal
