-------------------------- MODULE MiniAppRegistry ---------------------------
(***************************************************************************)
(* The registry half of the MorpheusOracle kernel contract: who governs    *)
(* it, which miniapps and system modules exist, which modules an app may   *)
(* use, which requesters its fee payer sponsors, and the reverse indexes   *)
(* (callback contract -> app, accounts that may receive directed credit).  *)
(*                                                                         *)
(* A Neo transaction runs alone, so every contract method is one action.   *)
(* ws is the set of accounts whose witness the transaction carries         *)
(* (Runtime.CheckWitness).  A failed ExecutionEngine.Assert reverts the    *)
(* transaction, so it is a guard that does not hold.                       *)
(***************************************************************************)
EXTENDS Integers, Sequences, FiniteSets

CONSTANTS
  Accounts,       \* UInt160 values that occur: users, contracts, the zero hash
  Zero,           \* UInt160.Zero, a well-formed account nobody can sign for
  Null,           \* the null reference / an absent storage value
  Apps,           \* miniapp ids
  Modules,        \* system module ids
  BuiltIn,        \* the modules _deploy seeds
  ManagedModules, \* the modules governance and app admins act on
  Deployer,       \* the sender of the deploying transaction
  Operators,      \* accounts governance may name as admin or updater
  AppAdmins,      \* accounts named as miniapp admins
  FeePayers,      \* accounts named as fee payers, Zero for none
  Callbacks,      \* callback contracts named by miniapps, Null for none
  Requesters,     \* accounts that submit requests
  Witnesses,      \* the signer sets of the transactions that occur
  Keys,           \* runtime verification keys
  Caps,           \* spend caps an app admin may set, 0 clears one
  StateKeys,      \* miniapp state keys
  StateValues,    \* miniapp state values
  LegacyApps,     \* miniapps stored by a version without the reverse indexes,
                  \* in registration order; <<>> for a fresh deployment
  LegacyGrants,   \* the module grants stored with them
  MaxKeyVersion   \* bound on encryption key rotations

MiniAppRecord ==
  [admin : Accounts, feePayer : Accounts,
   callback : Accounts \cup {Null}, active : BOOLEAN]

ASSUME NullDistinct ==
  /\ Null \notin Accounts \cup Apps \cup Keys \cup StateValues
  /\ Null \notin MiniAppRecord

ASSUME DeployTyped ==
  /\ Zero \in Accounts
  /\ Deployer \in Accounts \ {Zero}
  /\ BuiltIn \subseteq Modules

ASSUME InputsTyped ==
  /\ ManagedModules \subseteq Modules
  /\ Operators \subseteq Accounts
  /\ AppAdmins \subseteq Accounts
  /\ FeePayers \subseteq Accounts
  /\ Callbacks \subseteq Accounts \cup {Null}
  /\ Requesters \subseteq Accounts
  /\ Witnesses \subseteq SUBSET (Accounts \ {Zero})
  /\ Caps \subseteq Nat
  /\ MaxKeyVersion \in Nat

LegacyEntry ==
  [app : Apps, admin : Accounts, feePayer : Accounts, callback : Accounts \cup {Null}]

ASSUME LegacyTyped ==
  /\ LegacyApps \in Seq(LegacyEntry)
  /\ \A i, j \in 1 .. Len(LegacyApps) :
        LegacyApps[i].app = LegacyApps[j].app => i = j
  /\ LegacyGrants \subseteq Apps \X Modules

VARIABLES
  admin,              \* PREFIX_ADMIN
  updater,            \* PREFIX_UPDATER, Null until SetUpdater
  verifier,           \* PREFIX_RUNTIME_VERIFIER, Null until it is set
  keyVersion,         \* PREFIX_RUNTIME_KEY_VERSION
  apps,               \* PREFIX_APP: app -> record, Null when CreatedAt = 0
  appIndex,           \* PREFIX_APP_INDEX and PREFIX_APP_COUNT
  callbackIndex,      \* PREFIX_CALLBACK_INDEX: contract -> app or Null
  accountRegistered,  \* PREFIX_ACCOUNT_REGISTERED
  modules,            \* PREFIX_MODULE: "absent", "active" or "inactive"
  granted,            \* PREFIX_APP_MODULE_GRANT
  gated,              \* PREFIX_SPONSOR_GATED
  allowed,            \* PREFIX_SPONSOR_ALLOWED
  cap,                \* PREFIX_SPONSOR_CAP, 0 when absent
  appState            \* PREFIX_APP_STATE

roleVars     == <<admin, updater, verifier, keyVersion>>
appVars      == <<apps, appIndex, callbackIndex, accountRegistered>>
moduleVars   == <<modules, granted>>
sponsorVars  == <<gated, allowed, cap>>
registryVars == <<roleVars, appVars, moduleVars, sponsorVars, appState>>

RegistryTypeOK ==
  /\ admin \in Accounts
  /\ updater \in Accounts \cup {Null}
  /\ verifier \in Keys \cup {Null}
  /\ keyVersion \in Nat
  /\ apps \in [Apps -> MiniAppRecord \cup {Null}]
  /\ appIndex \in Seq(Apps)
  /\ callbackIndex \in [Accounts -> Apps \cup {Null}]
  /\ accountRegistered \subseteq Accounts
  /\ modules \in [Modules -> {"absent", "active", "inactive"}]
  /\ granted \subseteq Apps \X Modules
  /\ gated \subseteq Apps
  /\ allowed \subseteq Apps \X Accounts
  /\ cap \in [Apps \X Accounts -> Nat]
  /\ appState \in [Apps -> [StateKeys -> StateValues \cup {Null}]]

(***************************************************************************)
(* _deploy on a fresh contract.  With LegacyApps the storage is the one a  *)
(* ContractManagement.Update from a version without reverse indexes        *)
(* leaves: the records are there and the indexes are empty.                *)
(***************************************************************************)
LegacyRecord(a) ==
  LET old == {i \in 1 .. Len(LegacyApps) : LegacyApps[i].app = a}
      l   == LegacyApps[CHOOSE i \in old : TRUE]
  IN  IF old = {} THEN Null
      ELSE [admin |-> l.admin, feePayer |-> l.feePayer,
            callback |-> l.callback, active |-> TRUE]

RegistryInit ==
  /\ admin = Deployer
  /\ updater = Null /\ verifier = Null /\ keyVersion = 0
  /\ apps = [a \in Apps |-> LegacyRecord(a)]
  /\ appIndex = [i \in 1 .. Len(LegacyApps) |-> LegacyApps[i].app]
  /\ callbackIndex = [c \in Accounts |-> Null]
  /\ accountRegistered = {}
  /\ modules = [m \in Modules |-> IF m \in BuiltIn THEN "active" ELSE "absent"]
  /\ granted = LegacyGrants
  /\ gated = {} /\ allowed = {}
  /\ cap = [k \in Apps \X Accounts |-> 0]
  /\ appState = [a \in Apps |-> [k \in StateKeys |-> Null]]
-----------------------------------------------------------------------------
(***************************************************************************)
(* Validation helpers.                                                     *)
(***************************************************************************)
ValidateAdmin(ws) == admin \in ws

ValidateUpdater(ws) == updater # Null /\ updater \in ws

ValidateMiniAppAdmin(ws, a) == admin \in ws \/ apps[a].admin \in ws

ValidateMiniAppAdminOrUpdater(ws, a) ==
  ValidateMiniAppAdmin(ws, a) \/ ValidateUpdater(ws)

\* A fee payer must witness being named.  The two self-payment alternatives
\* of the source (the fee payer is the admin, or the app admin, and signs)
\* are instances of the second disjunct.
ValidateFeePayerAuthorization(ws, feePayer) == feePayer = Zero \/ feePayer \in ws

RequireMiniApp(a) == apps[a] # Null

RequireActiveMiniApp(a) == RequireMiniApp(a) /\ apps[a].active

RequireActiveModule(m) == modules[m] = "active"

\* The app a callback contract routes to; the record is checked again.
FindMiniAppByCallback(c) ==
  LET a == callbackIndex[c]
  IN  IF a # Null /\ RequireMiniApp(a) /\ apps[a].callback = c THEN a ELSE Null
-----------------------------------------------------------------------------
(***************************************************************************)
(* Governance.                                                             *)
(***************************************************************************)
SetAdmin(ws, newAdmin) ==
  /\ ValidateAdmin(ws)
  /\ admin' = newAdmin
  /\ UNCHANGED <<updater, verifier, keyVersion, appVars, moduleVars, sponsorVars, appState>>

SetUpdater(ws, newUpdater) ==
  /\ ValidateAdmin(ws)
  /\ updater' = newUpdater
  /\ UNCHANGED <<admin, verifier, keyVersion, appVars, moduleVars, sponsorVars, appState>>

SetRuntimeEncryptionKey(ws) ==
  /\ ValidateAdmin(ws)
  /\ keyVersion < MaxKeyVersion
  /\ keyVersion' = keyVersion + 1
  /\ UNCHANGED <<admin, updater, verifier, appVars, moduleVars, sponsorVars, appState>>

SetRuntimeVerificationPublicKey(ws, key) ==
  /\ ValidateAdmin(ws)
  /\ verifier' = key
  /\ UNCHANGED <<admin, updater, keyVersion, appVars, moduleVars, sponsorVars, appState>>

RegisterSystemModule(ws, m) ==
  /\ ValidateAdmin(ws)
  /\ modules[m] = "absent"
  /\ modules' = [modules EXCEPT ![m] = "active"]
  /\ UNCHANGED <<roleVars, appVars, granted, sponsorVars, appState>>

ConfigureSystemModule(ws, m, active) ==
  /\ ValidateAdmin(ws)
  /\ modules[m] # "absent"
  /\ modules' = [modules EXCEPT ![m] = IF active THEN "active" ELSE "inactive"]
  /\ UNCHANGED <<roleVars, appVars, granted, sponsorVars, appState>>
-----------------------------------------------------------------------------
(***************************************************************************)
(* Miniapp records and the callback index.                                 *)
(***************************************************************************)
PriorCallback(a) == IF RequireMiniApp(a) THEN apps[a].callback ELSE Null

\* Mutant of DropStaleMapping: the stale entry stays.
KeepStaleMapping(a, cb) == callbackIndex

\* The index once a's mapping is dropped because its callback changes to cb:
\* only an entry that points at a itself may go.
DropStaleMapping(a, cb) ==
  [c \in Accounts |->
     IF c = PriorCallback(a) /\ c # cb /\ callbackIndex[c] = a
     THEN Null ELSE callbackIndex[c]]

\* Mutant of CallbackAvailable: the uniqueness assertion is missing.
AnyCallback(a, cb) == TRUE

\* A callback contract may route to at most one miniapp.
CallbackAvailable(a, cb) == cb # Null => DropStaleMapping(a, cb)[cb] \in {Null, a}

IndexMiniAppIfNeeded(a) ==
  appIndex' = IF RequireMiniApp(a) THEN appIndex ELSE Append(appIndex, a)

PutMiniApp(a, appAdmin, feePayer, cb, active) ==
  LET kept == DropStaleMapping(a, cb)
  IN  /\ CallbackAvailable(a, cb)
      /\ callbackIndex' = IF cb = Null THEN kept ELSE [kept EXCEPT ![cb] = a]
      /\ accountRegistered' = accountRegistered \cup ({appAdmin, feePayer} \ {Zero})
      /\ IndexMiniAppIfNeeded(a)
      /\ apps' = [apps EXCEPT ![a] =
                    [admin |-> appAdmin, feePayer |-> feePayer,
                     callback |-> cb, active |-> active]]

RegisterMiniApp(ws, a, appAdmin, feePayer, cb) ==
  /\ appAdmin \in ws \/ admin \in ws
  /\ ValidateFeePayerAuthorization(ws, feePayer)
  /\ ~RequireMiniApp(a)
  /\ PutMiniApp(a, appAdmin, feePayer, cb, TRUE)
  /\ UNCHANGED <<roleVars, moduleVars, sponsorVars, appState>>

ConfigureMiniApp(ws, a, feePayer, cb, active) ==
  /\ RequireMiniApp(a)
  /\ ValidateMiniAppAdmin(ws, a)
  /\ ValidateFeePayerAuthorization(ws, feePayer)
  /\ PutMiniApp(a, apps[a].admin, feePayer, cb, active)
  /\ UNCHANGED <<roleVars, moduleVars, sponsorVars, appState>>

\* The backfill walks the slice in registration order and never replaces a
\* mapping, so a free callback goes to the first app of the slice naming it.
RebuildIndexes(ws, start, count) ==
  LET slice == {i \in 1 .. Len(appIndex) :
                  start < i /\ i <= start + count /\ RequireMiniApp(appIndex[i])}
      Naming(c) == {i \in slice : apps[appIndex[i]].callback = c}
      First(c) == CHOOSE i \in Naming(c) : \A j \in Naming(c) : i <= j
  IN  /\ ValidateAdmin(ws)
      /\ callbackIndex' =
           [c \in Accounts |->
              IF callbackIndex[c] = Null /\ Naming(c) # {}
              THEN appIndex[First(c)] ELSE callbackIndex[c]]
      /\ accountRegistered' =
           accountRegistered \cup
             ((UNION {{apps[appIndex[i]].admin, apps[appIndex[i]].feePayer} : i \in slice})
                \ {Zero})
      /\ UNCHANGED <<roleVars, apps, appIndex, moduleVars, sponsorVars, appState>>
-----------------------------------------------------------------------------
(***************************************************************************)
(* Sponsorship controls, module grants and miniapp state.                  *)
(***************************************************************************)
\* Setting a control gates the app; clearing one never ungates it.
EnableSponsorshipGating(a, on) == gated' = IF on THEN gated \cup {a} ELSE gated

SetSponsoredRequesterAllowed(ws, a, u, allow) ==
  /\ RequireMiniApp(a)
  /\ ValidateMiniAppAdmin(ws, a)
  /\ allowed' = IF allow THEN allowed \cup {<<a, u>>} ELSE allowed \ {<<a, u>>}
  /\ EnableSponsorshipGating(a, allow)
  /\ UNCHANGED <<roleVars, appVars, moduleVars, cap, appState>>

SetSponsoredRequesterCap(ws, a, u, c) ==
  /\ RequireMiniApp(a)
  /\ ValidateMiniAppAdmin(ws, a)
  /\ cap' = [cap EXCEPT ![<<a, u>>] = c]
  /\ EnableSponsorshipGating(a, c > 0)
  /\ UNCHANGED <<roleVars, appVars, moduleVars, allowed, appState>>

GrantModuleToMiniApp(ws, a, m) ==
  /\ RequireMiniApp(a)
  /\ RequireActiveModule(m)
  /\ ValidateMiniAppAdmin(ws, a)
  /\ granted' = granted \cup {<<a, m>>}
  /\ UNCHANGED <<roleVars, appVars, modules, sponsorVars, appState>>

RevokeModuleFromMiniApp(ws, a, m) ==
  /\ RequireMiniApp(a)
  /\ ValidateMiniAppAdmin(ws, a)
  /\ granted' = granted \ {<<a, m>>}
  /\ UNCHANGED <<roleVars, appVars, modules, sponsorVars, appState>>

\* PutMiniAppState is the batch with a single key.
PutMiniAppStateBatch(ws, a, values) ==
  /\ RequireMiniApp(a)
  /\ ValidateMiniAppAdminOrUpdater(ws, a)
  /\ DOMAIN values # {}
  /\ appState' = [appState EXCEPT ![a] =
                    [k \in StateKeys |->
                       IF k \in DOMAIN values THEN values[k] ELSE @[k]]]
  /\ UNCHANGED <<roleVars, appVars, moduleVars, sponsorVars>>

DeleteMiniAppState(ws, a, k) ==
  /\ RequireMiniApp(a)
  /\ ValidateMiniAppAdminOrUpdater(ws, a)
  /\ appState' = [appState EXCEPT ![a][k] = Null]
  /\ UNCHANGED <<roleVars, appVars, moduleVars, sponsorVars>>

RegistryNext(ws) ==
  \/ \E x \in Operators : SetAdmin(ws, x) \/ SetUpdater(ws, x)
  \/ SetRuntimeEncryptionKey(ws)
  \/ \E key \in Keys : SetRuntimeVerificationPublicKey(ws, key)
  \/ \E m \in ManagedModules : RegisterSystemModule(ws, m)
  \/ \E m \in ManagedModules, active \in BOOLEAN : ConfigureSystemModule(ws, m, active)
  \/ \E a \in Apps, adm \in AppAdmins, fp \in FeePayers, cb \in Callbacks :
        RegisterMiniApp(ws, a, adm, fp, cb)
  \/ \E a \in Apps, fp \in FeePayers, cb \in Callbacks, active \in BOOLEAN :
        ConfigureMiniApp(ws, a, fp, cb, active)
  \/ \E start \in 0 .. Len(appIndex), count \in 1 .. Cardinality(Apps) :
        RebuildIndexes(ws, start, count)
  \/ \E a \in Apps, u \in Requesters, allow \in BOOLEAN :
        SetSponsoredRequesterAllowed(ws, a, u, allow)
  \/ \E a \in Apps, u \in Requesters, c \in Caps : SetSponsoredRequesterCap(ws, a, u, c)
  \/ \E a \in Apps, m \in ManagedModules :
        GrantModuleToMiniApp(ws, a, m) \/ RevokeModuleFromMiniApp(ws, a, m)
  \/ \E a \in Apps, ks \in SUBSET StateKeys : \E values \in [ks -> StateValues] :
        PutMiniAppStateBatch(ws, a, values)
  \/ \E a \in Apps, k \in StateKeys : DeleteMiniAppState(ws, a, k)

RegistrySpec ==
  RegistryInit /\ [][\E ws \in Witnesses : RegistryNext(ws)]_registryVars
-----------------------------------------------------------------------------
(***************************************************************************)
(* Properties.                                                             *)
(***************************************************************************)

\* The enumeration the backfill walks (PREFIX_APP_INDEX) lists every
\* registered miniapp once: an app missing from it, or listed twice, would be
\* lost or visited twice by RebuildIndexes.
AppIndexExact ==
  /\ \A a \in Apps : RequireMiniApp(a) <=> \E i \in 1 .. Len(appIndex) : appIndex[i] = a
  /\ \A i, j \in 1 .. Len(appIndex) : appIndex[i] = appIndex[j] => i = j

\* An entry of the callback index is never stale: the app it names exists and
\* still names that callback, whatever registrations, reconfigurations and
\* backfills came before (FindMiniAppByCallback re-checks it all the same).
IndexSound ==
  \A c \in Accounts :
     callbackIndex[c] # Null =>
        /\ RequireMiniApp(callbackIndex[c])
        /\ apps[callbackIndex[c]].callback = c

\* In a registry that never held records older than the reverse index, a
\* callback contract belongs to at most one miniapp and resolves to it
\* (the uniqueness PutMiniApp asserts, for records and not only for index
\* entries).
CallbackUnique ==
  LegacyApps = <<>> =>
    \A a \in Apps : RequireMiniApp(a) /\ apps[a].callback # Null =>
       FindMiniAppByCallback(apps[a].callback) = a

\* A requester with an allowlist entry or a spend cap implies that its app is
\* gated: no order of setting and clearing controls brings an app that limits
\* its sponsorship back to sponsoring everyone.
ControlsImplyGated ==
  \A a \in Apps, u \in Requesters : <<a, u>> \in allowed \/ cap[<<a, u>>] > 0 => a \in gated

\* The comment on RebuildIndexes: when legacy records share a callback, the
\* earliest registered app keeps the mapping.
EarliestKeepsMapping ==
  \A i, j \in 1 .. Len(appIndex) :
     i < j /\ apps[appIndex[i]].callback = apps[appIndex[j]].callback
       /\ apps[appIndex[i]].callback # Null
     => callbackIndex[apps[appIndex[j]].callback] # appIndex[j]
=============================================================================
