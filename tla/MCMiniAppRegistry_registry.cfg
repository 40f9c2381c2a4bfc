SPECIFICATION RegistrySpec
CONSTANTS
  root = root
  dev = dev
  hook1 = hook1
  hook2 = hook2
  zero = zero
  none = none
  app1 = app1
  app2 = app2
  Accounts <- MCAccounts
  Zero = zero
  Null = none
  Apps = {app1, app2}
  Modules = {"custom"}
  BuiltIn = {}
  ManagedModules = {"custom"}
  Deployer = root
  Operators = {dev}
  AppAdmins = {dev, root}
  FeePayers = {zero}
  Callbacks <- MCCallbacks
  Requesters = {}
  Witnesses = {{root}, {dev}}
  Keys = {}
  Caps = {}
  StateKeys = {k1}
  StateValues = {v1}
  LegacyApps <- MCNoLegacy
  LegacyGrants = {}
  MaxKeyVersion = 1
INVARIANTS
  IndexSound
  CallbackUnique
