SPECIFICATION RegistrySpec
CONSTANTS
  root = root
  dev = dev
  hook1 = hook1
  hook2 = hook2
  zero = zero
  none = none
  app1 = app1
  app2 = app2
  Accounts <- MCAccounts
  Zero = zero
  Null = none
  Apps = {app1, app2}
  Modules = {"oracle.fetch"}
  BuiltIn = {"oracle.fetch"}
  ManagedModules = {"oracle.fetch"}
  Deployer = root
  Operators = {}
  AppAdmins = {}
  FeePayers = {}
  Callbacks <- MCCallbacks
  Requesters = {}
  Witnesses = {{root}, {dev}}
  Keys = {}
  Caps = {}
  StateKeys = {}
  StateValues = {}
  LegacyApps <- MCLegacy
  LegacyGrants = {}
  MaxKeyVersion = 0
INVARIANT
  EarliestKeepsMapping
