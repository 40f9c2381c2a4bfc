----------------------- MODULE MiniAppRegistryProofs ------------------------
(***************************************************************************)
(* Type correctness of the registry, soundness of its reverse index, and   *)
(* uniqueness of callbacks in a registry that was always indexed.          *)
(***************************************************************************)
EXTENDS MiniAppRegistry, SequenceTheorems, WellFoundedInduction, TLAPS

(***************************************************************************)
(* A non-empty set of numbers has a least element.                         *)
(***************************************************************************)
LEMMA LeastElement ==
  ASSUME NEW T \in SUBSET Nat, T # {}
  PROVE  \E x \in T : \A y \in T : x <= y
  <1> DEFINE R == OpToRel(<, Nat)
  <1>1. \E x \in T : \A y \in T : <<y, x>> \notin R
    <2> HIDE DEF R
    <2>1. IsWellFoundedOn(R, Nat)
      BY NatLessThanWellFounded DEF R
    <2> QED
      BY <2>1, WFMin
  <1>2. R = {p \in Nat \X Nat : p[1] < p[2]}
    BY DEF OpToRel
  <1>3. PICK x \in T : \A y \in T : <<y, x>> \notin R
    BY <1>1
  <1>4. ASSUME NEW y \in T PROVE x <= y
    <2>1. <<y, x>> \in Nat \X Nat
      OBVIOUS
    <2>2. ~(y < x)
      BY <2>1, <1>2, <1>3
    <2> QED
      BY <2>2
  <1> QED
    BY <1>4

(***************************************************************************)
(* Every entry of LegacyApps is a legacy entry.                            *)
(***************************************************************************)
LEMMA LegacyEntries ==
  /\ Len(LegacyApps) \in Nat
  /\ \A i \in 1 .. Len(LegacyApps) : LegacyApps[i] \in LegacyEntry
  BY LegacyTyped, ElementOfSeq

(***************************************************************************)
(* A stored legacy record is a record.                                     *)
(***************************************************************************)
LEMMA LegacyRecordType ==
  ASSUME NEW a \in Apps
  PROVE  LegacyRecord(a) \in MiniAppRecord \cup {Null}
  <1> DEFINE old == {i \in 1 .. Len(LegacyApps) : LegacyApps[i].app = a}
             j   == CHOOSE i \in old : TRUE
  <1>1. CASE old = {}
    BY <1>1 DEF LegacyRecord
  <1>2. CASE old # {}
    <2>1. j \in old
      BY <1>2
    <2>2. LegacyApps[j] \in LegacyEntry
      BY <2>1, LegacyEntries
    <2> QED
      BY <1>2, <2>2 DEF LegacyRecord, LegacyEntry, MiniAppRecord
  <1> QED
    BY <1>1, <1>2

(***************************************************************************)
(* The registry starts well typed.                                         *)
(***************************************************************************)
LEMMA RegistryTypeInit == RegistryInit => RegistryTypeOK
  <1> SUFFICES ASSUME RegistryInit PROVE RegistryTypeOK
    OBVIOUS
  <1>1. apps \in [Apps -> MiniAppRecord \cup {Null}]
    BY LegacyRecordType DEF RegistryInit
  <1>2. appIndex \in Seq(Apps)
    <2>1. \A i \in 1 .. Len(LegacyApps) : LegacyApps[i].app \in Apps
      BY LegacyEntries DEF LegacyEntry
    <2>2. Len(LegacyApps) \in Nat
      BY LegacyEntries
    <2> QED
      BY <2>1, <2>2, IsASeq DEF RegistryInit
  <1> QED
    BY <1>1, <1>2, DeployTyped, LegacyTyped DEF RegistryInit, RegistryTypeOK

(***************************************************************************)
(* Writing a miniapp record keeps the registry well typed.                 *)
(***************************************************************************)
LEMMA PutMiniAppType ==
  ASSUME RegistryTypeOK, NEW a \in Apps, NEW adm \in Accounts, NEW fp \in Accounts,
         NEW cb \in Accounts \cup {Null}, NEW act \in BOOLEAN,
         PutMiniApp(a, adm, fp, cb, act)
  PROVE  /\ apps' \in [Apps -> MiniAppRecord \cup {Null}]
         /\ appIndex' \in Seq(Apps)
         /\ callbackIndex' \in [Accounts -> Apps \cup {Null}]
         /\ accountRegistered' \subseteq Accounts
  <1>1. DropStaleMapping(a, cb) \in [Accounts -> Apps \cup {Null}]
    BY DEF DropStaleMapping, RegistryTypeOK
  <1>2. callbackIndex' \in [Accounts -> Apps \cup {Null}]
    BY <1>1 DEF PutMiniApp
  <1>3. [admin |-> adm, feePayer |-> fp, callback |-> cb, active |-> act] \in MiniAppRecord
    BY DEF MiniAppRecord
  <1>4. apps' \in [Apps -> MiniAppRecord \cup {Null}]
    BY <1>3 DEF PutMiniApp, RegistryTypeOK
  <1>5. appIndex' \in Seq(Apps)
    BY DEF PutMiniApp, IndexMiniAppIfNeeded, RegistryTypeOK
  <1>6. accountRegistered' \subseteq Accounts
    BY DEF PutMiniApp, RegistryTypeOK
  <1> QED
    BY <1>2, <1>4, <1>5, <1>6

(***************************************************************************)
(* Every registry operation keeps the registry well typed.                 *)
(***************************************************************************)
LEMMA RegistryTypeStep ==
  ASSUME RegistryTypeOK, NEW ws, RegistryNext(ws)
  PROVE  RegistryTypeOK'
  <1> USE DEF roleVars, appVars, moduleVars, sponsorVars
  <1>1. ASSUME NEW x \in Operators, SetAdmin(ws, x) \/ SetUpdater(ws, x)
        PROVE  RegistryTypeOK'
    BY <1>1, InputsTyped DEF RegistryTypeOK, SetAdmin, SetUpdater
  <1>2. ASSUME SetRuntimeEncryptionKey(ws)
        PROVE  RegistryTypeOK'
    BY <1>2 DEF RegistryTypeOK, SetRuntimeEncryptionKey
  <1>3. ASSUME NEW key \in Keys, SetRuntimeVerificationPublicKey(ws, key)
        PROVE  RegistryTypeOK'
    BY <1>3 DEF RegistryTypeOK, SetRuntimeVerificationPublicKey
  <1>4. ASSUME NEW m \in ManagedModules, RegisterSystemModule(ws, m)
        PROVE  RegistryTypeOK'
    BY <1>4, InputsTyped DEF RegistryTypeOK, RegisterSystemModule
  <1>5. ASSUME NEW m \in ManagedModules, NEW act \in BOOLEAN, ConfigureSystemModule(ws, m, act)
        PROVE  RegistryTypeOK'
    BY <1>5, InputsTyped DEF RegistryTypeOK, ConfigureSystemModule
  <1>6. ASSUME NEW a \in Apps, NEW adm \in AppAdmins, NEW fp \in FeePayers,
               NEW cb \in Callbacks, RegisterMiniApp(ws, a, adm, fp, cb)
        PROVE  RegistryTypeOK'
    <2>1. PutMiniApp(a, adm, fp, cb, TRUE)
      BY <1>6 DEF RegisterMiniApp
    <2>2. /\ apps' \in [Apps -> MiniAppRecord \cup {Null}]
          /\ appIndex' \in Seq(Apps)
          /\ callbackIndex' \in [Accounts -> Apps \cup {Null}]
          /\ accountRegistered' \subseteq Accounts
      BY <2>1, InputsTyped, PutMiniAppType
    <2> QED
      BY <1>6, <2>2 DEF RegisterMiniApp, RegistryTypeOK
  <1>7. ASSUME NEW a \in Apps, NEW fp \in FeePayers, NEW cb \in Callbacks,
               NEW act \in BOOLEAN, ConfigureMiniApp(ws, a, fp, cb, act)
        PROVE  RegistryTypeOK'
    <2>1. PutMiniApp(a, apps[a].admin, fp, cb, act)
      BY <1>7 DEF ConfigureMiniApp
    <2>2. apps[a].admin \in Accounts
      BY <1>7 DEF ConfigureMiniApp, RequireMiniApp, RegistryTypeOK, MiniAppRecord
    <2>a. fp \in Accounts /\ cb \in Accounts \cup {Null} /\ act \in BOOLEAN
      BY InputsTyped
    <2>3. /\ apps' \in [Apps -> MiniAppRecord \cup {Null}]
          /\ appIndex' \in Seq(Apps)
          /\ callbackIndex' \in [Accounts -> Apps \cup {Null}]
          /\ accountRegistered' \subseteq Accounts
      BY <2>1, <2>2, <2>a, PutMiniAppType
    <2> QED
      BY <1>7, <2>3 DEF ConfigureMiniApp, RegistryTypeOK
  <1>8. ASSUME NEW start \in 0 .. Len(appIndex), NEW count \in 1 .. Cardinality(Apps),
               RebuildIndexes(ws, start, count)
        PROVE  RegistryTypeOK'
    <2> DEFINE slice     == {i \in 1 .. Len(appIndex) :
                               start < i /\ i <= start + count /\ RequireMiniApp(appIndex[i])}
               Naming(c) == {i \in slice : apps[appIndex[i]].callback = c}
               First(c)  == CHOOSE i \in Naming(c) : \A j \in Naming(c) : i <= j
    <2>1. \A i \in slice : appIndex[i] \in Apps
      BY ElementOfSeq DEF RegistryTypeOK
    <2>2. ASSUME NEW c \in Accounts, Naming(c) # {}
          PROVE  First(c) \in Naming(c)
      <3>1. Naming(c) \in SUBSET Nat
        BY DEF RegistryTypeOK
      <3>2. \E i \in Naming(c) : \A j \in Naming(c) : i <= j
        <4> HIDE DEF Naming
        <4> QED BY <2>2, <3>1, LeastElement
      <3> QED
        BY <3>2
    <2>3. callbackIndex' \in [Accounts -> Apps \cup {Null}]
      <3> DEFINE after == [c \in Accounts |->
                             IF callbackIndex[c] = Null /\ Naming(c) # {}
                             THEN appIndex[First(c)] ELSE callbackIndex[c]]
      <3>1. callbackIndex' = after
        BY <1>8 DEF RebuildIndexes
      <3>2. ASSUME NEW c \in Accounts
            PROVE  after[c] \in Apps \cup {Null}
        <4>1. CASE callbackIndex[c] = Null /\ Naming(c) # {}
          BY <4>1, <2>1, <2>2
        <4>2. CASE ~(callbackIndex[c] = Null /\ Naming(c) # {})
          BY <4>2 DEF RegistryTypeOK
        <4> QED
          BY <4>1, <4>2
      <3> QED
        BY <3>1, <3>2
    <2>4. accountRegistered' \subseteq Accounts
      <3>1. \A i \in slice : apps[appIndex[i]] \in MiniAppRecord
        BY <2>1 DEF RegistryTypeOK, RequireMiniApp
      <3>2. \A i \in slice : {apps[appIndex[i]].admin, apps[appIndex[i]].feePayer} \subseteq Accounts
        BY <3>1 DEF MiniAppRecord
      <3> DEFINE found == UNION {{apps[appIndex[i]].admin, apps[appIndex[i]].feePayer} : i \in slice}
      <3>3. accountRegistered' = accountRegistered \cup (found \ {Zero})
        BY <1>8 DEF RebuildIndexes
      <3>4. found \subseteq Accounts
        BY <3>2
      <3> HIDE DEF found
      <3> QED
        BY <3>3, <3>4 DEF RegistryTypeOK
    <2> QED
      BY <1>8, <2>3, <2>4 DEF RebuildIndexes, RegistryTypeOK
  <1>9. ASSUME NEW a \in Apps, NEW u \in Requesters, NEW allow \in BOOLEAN,
               SetSponsoredRequesterAllowed(ws, a, u, allow)
        PROVE  RegistryTypeOK'
    BY <1>9, InputsTyped DEF SetSponsoredRequesterAllowed, EnableSponsorshipGating, RegistryTypeOK
  <1>10. ASSUME NEW a \in Apps, NEW u \in Requesters, NEW c \in Caps,
                SetSponsoredRequesterCap(ws, a, u, c)
         PROVE  RegistryTypeOK'
    BY <1>10, InputsTyped DEF SetSponsoredRequesterCap, EnableSponsorshipGating, RegistryTypeOK
  <1>11. ASSUME NEW a \in Apps, NEW m \in ManagedModules,
                GrantModuleToMiniApp(ws, a, m) \/ RevokeModuleFromMiniApp(ws, a, m)
         PROVE  RegistryTypeOK'
    BY <1>11, InputsTyped
       DEF GrantModuleToMiniApp, RevokeModuleFromMiniApp, RegistryTypeOK
  <1>12. ASSUME NEW a \in Apps, NEW ks \in SUBSET StateKeys, NEW values \in [ks -> StateValues],
                PutMiniAppStateBatch(ws, a, values)
         PROVE  RegistryTypeOK'
    BY <1>12 DEF PutMiniAppStateBatch, RegistryTypeOK
  <1>13. ASSUME NEW a \in Apps, NEW k \in StateKeys, DeleteMiniAppState(ws, a, k)
         PROVE  RegistryTypeOK'
    BY <1>13 DEF DeleteMiniAppState, RegistryTypeOK
  <1> QED
    BY <1>1, <1>2, <1>3, <1>4, <1>5, <1>6, <1>7, <1>8, <1>9, <1>10, <1>11, <1>12, <1>13
       DEF RegistryNext
(***************************************************************************)
(* The registry of the kernel is well typed in every reachable state.      *)
(***************************************************************************)
THEOREM RegistryTypeCorrect == RegistrySpec => []RegistryTypeOK
  <1>1. RegistryInit => RegistryTypeOK
    BY RegistryTypeInit
  <1>2. RegistryTypeOK /\ [\E ws \in Witnesses : RegistryNext(ws)]_registryVars
          => RegistryTypeOK'
    <2> SUFFICES ASSUME RegistryTypeOK,
                        [\E ws \in Witnesses : RegistryNext(ws)]_registryVars
                 PROVE  RegistryTypeOK'
      OBVIOUS
    <2>1. CASE \E ws \in Witnesses : RegistryNext(ws)
      BY <2>1, RegistryTypeStep
    <2>2. CASE UNCHANGED registryVars
      BY <2>2 DEF RegistryTypeOK, registryVars, roleVars, appVars, moduleVars, sponsorVars
    <2> QED
      BY <2>1, <2>2
  <1> QED
    BY <1>1, <1>2, PTL DEF RegistrySpec

(***************************************************************************)
(* What a registry step does to the miniapp records and the callback       *)
(* index: nothing, one record write, or one backfill.                      *)
(***************************************************************************)
LEMMA RegistryStepCases ==
  ASSUME RegistryTypeOK, NEW ws, RegistryNext(ws)
  PROVE  \/ UNCHANGED appVars
         \/ \E a \in Apps, adm \in Accounts, fp \in Accounts,
               cb \in Accounts \cup {Null}, act \in BOOLEAN :
               PutMiniApp(a, adm, fp, cb, act)
         \/ \E start \in 0 .. Len(appIndex), count \in 1 .. Cardinality(Apps) :
               RebuildIndexes(ws, start, count)
  <1>1. ASSUME NEW a \in Apps, NEW adm \in AppAdmins, NEW fp \in FeePayers,
               NEW cb \in Callbacks, RegisterMiniApp(ws, a, adm, fp, cb)
        PROVE  /\ adm \in Accounts /\ fp \in Accounts /\ cb \in Accounts \cup {Null}
               /\ PutMiniApp(a, adm, fp, cb, TRUE)
    BY <1>1, InputsTyped DEF RegisterMiniApp
  <1>2. ASSUME NEW a \in Apps, NEW fp \in FeePayers, NEW cb \in Callbacks,
               NEW act \in BOOLEAN, ConfigureMiniApp(ws, a, fp, cb, act)
        PROVE  /\ apps[a].admin \in Accounts /\ fp \in Accounts
               /\ cb \in Accounts \cup {Null}
               /\ PutMiniApp(a, apps[a].admin, fp, cb, act)
    BY <1>2, InputsTyped
       DEF ConfigureMiniApp, RequireMiniApp, RegistryTypeOK, MiniAppRecord
  <1>3. CASE \E a \in Apps, adm \in AppAdmins, fp \in FeePayers, cb \in Callbacks :
               RegisterMiniApp(ws, a, adm, fp, cb)
    BY <1>1, <1>3
  <1>4. CASE \E a \in Apps, fp \in FeePayers, cb \in Callbacks, act \in BOOLEAN :
               ConfigureMiniApp(ws, a, fp, cb, act)
    BY <1>2, <1>4
  <1>5. CASE \E start \in 0 .. Len(appIndex), count \in 1 .. Cardinality(Apps) :
               RebuildIndexes(ws, start, count)
    BY <1>5
  <1>6. CASE \/ \E x \in Operators : SetAdmin(ws, x) \/ SetUpdater(ws, x)
             \/ SetRuntimeEncryptionKey(ws)
             \/ \E key \in Keys : SetRuntimeVerificationPublicKey(ws, key)
             \/ \E m \in ManagedModules : RegisterSystemModule(ws, m)
             \/ \E m \in ManagedModules, active \in BOOLEAN : ConfigureSystemModule(ws, m, active)
    BY <1>6 DEF SetAdmin, SetUpdater, SetRuntimeEncryptionKey,
                SetRuntimeVerificationPublicKey, RegisterSystemModule,
                ConfigureSystemModule
  <1>7. CASE \/ \E a \in Apps, u \in Requesters, allow \in BOOLEAN :
                  SetSponsoredRequesterAllowed(ws, a, u, allow)
             \/ \E a \in Apps, u \in Requesters, c \in Caps : SetSponsoredRequesterCap(ws, a, u, c)
             \/ \E a \in Apps, m \in ManagedModules :
                  GrantModuleToMiniApp(ws, a, m) \/ RevokeModuleFromMiniApp(ws, a, m)
             \/ \E a \in Apps, ks \in SUBSET StateKeys : \E values \in [ks -> StateValues] :
                  PutMiniAppStateBatch(ws, a, values)
             \/ \E a \in Apps, k \in StateKeys : DeleteMiniAppState(ws, a, k)
    BY <1>7 DEF SetSponsoredRequesterAllowed, SetSponsoredRequesterCap,
                GrantModuleToMiniApp, RevokeModuleFromMiniApp,
                PutMiniAppStateBatch, DeleteMiniAppState
  <1> QED
    BY <1>3, <1>4, <1>5, <1>6, <1>7 DEF RegistryNext

(***************************************************************************)
(* A record write keeps every index entry true.                            *)
(***************************************************************************)
LEMMA PutKeepsIndexSound ==
  ASSUME RegistryTypeOK, IndexSound, NEW a \in Apps, NEW adm \in Accounts,
         NEW fp \in Accounts, NEW cb \in Accounts \cup {Null}, NEW act \in BOOLEAN,
         PutMiniApp(a, adm, fp, cb, act)
  PROVE  IndexSound'
  <1> DEFINE kept == DropStaleMapping(a, cb)
             rec  == [admin |-> adm, feePayer |-> fp, callback |-> cb, active |-> act]
  <1>1. /\ callbackIndex' = IF cb = Null THEN kept ELSE [kept EXCEPT ![cb] = a]
        /\ apps' = [apps EXCEPT ![a] = rec]
    BY DEF PutMiniApp
  <1>2. apps'[a] # Null /\ apps'[a].callback = cb
    <2>1. rec \in MiniAppRecord /\ rec.callback = cb
      BY DEF MiniAppRecord
    <2> HIDE DEF rec
    <2> QED
      BY <1>1, <2>1, NullDistinct DEF RegistryTypeOK
  <1>3. \A b \in Apps : b # a => apps'[b] = apps[b]
    BY <1>1 DEF RegistryTypeOK
  <1> SUFFICES ASSUME NEW c \in Accounts, callbackIndex'[c] # Null
               PROVE  apps'[callbackIndex'[c]] # Null /\ apps'[callbackIndex'[c]].callback = c
    BY DEF IndexSound, RequireMiniApp
  <1>4. CASE c = cb
    <2>1. callbackIndex'[c] = a
      BY <1>1, <1>4, NullDistinct DEF DropStaleMapping
    <2> QED
      BY <2>1, <1>2, <1>4
  <1>5. CASE c # cb
    <2>1. callbackIndex'[c] = kept[c]
      BY <1>1, <1>5 DEF DropStaleMapping
    <2>2. callbackIndex'[c] = callbackIndex[c] /\ callbackIndex[c] \in Apps
      BY <2>1 DEF DropStaleMapping, RegistryTypeOK
    <2>3. apps[callbackIndex[c]] # Null /\ apps[callbackIndex[c]].callback = c
      BY <2>2 DEF IndexSound, RequireMiniApp
    <2>4. callbackIndex[c] # a
      <3>1. SUFFICES ASSUME callbackIndex[c] = a PROVE FALSE
        OBVIOUS
      <3>2. c = PriorCallback(a)
        BY <2>3, <3>1 DEF PriorCallback, RequireMiniApp
      <3>3. kept[c] = Null
        BY <3>1, <3>2, <1>5 DEF DropStaleMapping
      <3> QED
        BY <3>3, <2>1
    <2> QED
      BY <2>2, <2>3, <2>4, <1>3
  <1> QED
    BY <1>4, <1>5

(***************************************************************************)
(* The backfill only adds entries for records that name the callback.      *)
(***************************************************************************)
LEMMA RebuildKeepsIndexSound ==
  ASSUME RegistryTypeOK, IndexSound, NEW ws, NEW start \in 0 .. Len(appIndex),
         NEW count \in 1 .. Cardinality(Apps), RebuildIndexes(ws, start, count)
  PROVE  IndexSound'
  <1> DEFINE slice     == {i \in 1 .. Len(appIndex) :
                             start < i /\ i <= start + count /\ RequireMiniApp(appIndex[i])}
             Naming(c) == {i \in slice : apps[appIndex[i]].callback = c}
             First(c)  == CHOOSE i \in Naming(c) : \A j \in Naming(c) : i <= j
  <1>1. apps' = apps
    BY DEF RebuildIndexes
  <1> SUFFICES ASSUME NEW c \in Accounts, callbackIndex'[c] # Null
               PROVE  apps[callbackIndex'[c]] # Null /\ apps[callbackIndex'[c]].callback = c
    BY <1>1 DEF IndexSound, RequireMiniApp
  <1>2. callbackIndex'[c] = IF callbackIndex[c] = Null /\ Naming(c) # {}
                            THEN appIndex[First(c)] ELSE callbackIndex[c]
    BY DEF RebuildIndexes
  <1>3. CASE callbackIndex[c] = Null /\ Naming(c) # {}
    <2>1. Naming(c) \in SUBSET Nat
      BY DEF RegistryTypeOK
    <2>2. \E i \in Naming(c) : \A j \in Naming(c) : i <= j
      <3> HIDE DEF Naming
      <3> QED BY <1>3, <2>1, LeastElement
    <2>3. First(c) \in Naming(c)
      BY <2>2
    <2>4. RequireMiniApp(appIndex[First(c)]) /\ apps[appIndex[First(c)]].callback = c
      BY <2>3
    <2> QED
      BY <1>2, <1>3, <2>4 DEF RequireMiniApp
  <1>4. CASE ~(callbackIndex[c] = Null /\ Naming(c) # {})
    BY <1>2, <1>4 DEF IndexSound, RequireMiniApp
  <1> QED
    BY <1>3, <1>4

(***************************************************************************)
(* Every callback named by a record resolves to it, in a registry without  *)
(* legacy records: the strengthening that makes CallbackUnique inductive.  *)
(***************************************************************************)
IndexComplete ==
  LegacyApps = <<>> =>
    \A a \in Apps : RequireMiniApp(a) /\ apps[a].callback # Null =>
       callbackIndex[apps[a].callback] = a

(***************************************************************************)
(* A record write keeps the index complete: the uniqueness assertion of    *)
(* PutMiniApp keeps it from taking a mapping that is in use, and only a's  *)
(* own stale mapping is dropped.                                           *)
(***************************************************************************)
LEMMA PutKeepsIndexComplete ==
  ASSUME RegistryTypeOK, IndexComplete, NEW a \in Apps, NEW adm \in Accounts,
         NEW fp \in Accounts, NEW cb \in Accounts \cup {Null}, NEW act \in BOOLEAN,
         PutMiniApp(a, adm, fp, cb, act)
  PROVE  IndexComplete'
  <1> DEFINE kept == DropStaleMapping(a, cb)
             rec  == [admin |-> adm, feePayer |-> fp, callback |-> cb, active |-> act]
  <1>1. /\ callbackIndex' = IF cb = Null THEN kept ELSE [kept EXCEPT ![cb] = a]
        /\ apps' = [apps EXCEPT ![a] = rec]
        /\ cb # Null => kept[cb] \in {Null, a}
    BY DEF PutMiniApp, CallbackAvailable
  <1>2. apps'[a] = rec /\ rec.callback = cb
    BY <1>1 DEF RegistryTypeOK
  <1> SUFFICES ASSUME LegacyApps = <<>>, NEW b \in Apps,
                      apps'[b] # Null, apps'[b].callback # Null
               PROVE  callbackIndex'[apps'[b].callback] = b
    BY DEF IndexComplete, RequireMiniApp
  <1>3. CASE b = a
    <2>1. cb \in Accounts
      BY <1>2, <1>3
    <2> QED
      BY <1>1, <1>2, <1>3, <2>1 DEF DropStaleMapping
  <1>4. CASE b # a
    <2> DEFINE c == apps[b].callback
    <2>1. apps'[b] = apps[b] /\ c # Null
      BY <1>1, <1>4 DEF RegistryTypeOK
    <2>2. c \in Accounts
      BY <2>1 DEF RegistryTypeOK, MiniAppRecord
    <2>3. callbackIndex[c] = b
      BY <2>1 DEF IndexComplete, RequireMiniApp
    <2>4. kept[c] = b
      BY <2>2, <2>3, <1>4 DEF DropStaleMapping
    <2>5. c # cb
      BY <2>4, <1>1, <1>4, <2>1, <2>2, NullDistinct
    <2> QED
      BY <2>1, <2>2, <2>4, <2>5, <1>1 DEF DropStaleMapping
  <1> QED
    BY <1>3, <1>4

(***************************************************************************)
(* The backfill never replaces a mapping, so it keeps the index complete.  *)
(***************************************************************************)
LEMMA RebuildKeepsIndexComplete ==
  ASSUME RegistryTypeOK, IndexComplete, NEW ws, NEW start \in 0 .. Len(appIndex),
         NEW count \in 1 .. Cardinality(Apps), RebuildIndexes(ws, start, count)
  PROVE  IndexComplete'
  <1>1. apps' = apps /\ \A c \in Accounts : callbackIndex[c] # Null =>
                            callbackIndex'[c] = callbackIndex[c]
    BY DEF RebuildIndexes
  <1> SUFFICES ASSUME LegacyApps = <<>>, NEW a \in Apps,
                      apps[a] # Null, apps[a].callback # Null
               PROVE  callbackIndex'[apps[a].callback] = a
    BY <1>1 DEF IndexComplete, RequireMiniApp
  <1>2. apps[a].callback \in Accounts
    BY DEF RegistryTypeOK, MiniAppRecord
  <1>3. callbackIndex[apps[a].callback] = a
    BY DEF IndexComplete, RequireMiniApp
  <1> QED
    BY <1>1, <1>2, <1>3, NullDistinct

(***************************************************************************)
(* The enumeration of the miniapps stays exact when a record is written.   *)
(***************************************************************************)
LEMMA PutKeepsAppIndexExact ==
  ASSUME RegistryTypeOK, AppIndexExact, NEW a \in Apps, NEW adm \in Accounts,
         NEW fp \in Accounts, NEW cb \in Accounts \cup {Null}, NEW act \in BOOLEAN,
         PutMiniApp(a, adm, fp, cb, act)
  PROVE  AppIndexExact'
  <1> DEFINE rec == [admin |-> adm, feePayer |-> fp, callback |-> cb, active |-> act]
  <1>1. /\ apps' = [apps EXCEPT ![a] = rec]
        /\ appIndex' = IF RequireMiniApp(a) THEN appIndex ELSE Append(appIndex, a)
    BY DEF PutMiniApp, IndexMiniAppIfNeeded
  <1>2. apps'[a] # Null
    <2>1. rec \in MiniAppRecord
      BY DEF MiniAppRecord
    <2> HIDE DEF rec
    <2> QED
      BY <1>1, <2>1, NullDistinct DEF RegistryTypeOK
  <1>3. \A b \in Apps : b # a => apps'[b] = apps[b]
    BY <1>1 DEF RegistryTypeOK
  <1>4. CASE RequireMiniApp(a)
    BY <1>1, <1>2, <1>3, <1>4 DEF AppIndexExact, RequireMiniApp
  <1>5. CASE ~RequireMiniApp(a)
    <2>1. appIndex' = Append(appIndex, a)
      BY <1>1, <1>5
    <2>2. /\ Len(appIndex) \in Nat
          /\ Len(appIndex') = Len(appIndex) + 1
          /\ \A i \in 1 .. Len(appIndex) : appIndex'[i] = appIndex[i]
          /\ appIndex'[Len(appIndex) + 1] = a
      BY <2>1, AppendProperties DEF RegistryTypeOK
    <2>3. \A i \in 1 .. Len(appIndex) : appIndex[i] # a
      BY <1>5 DEF AppIndexExact
    <2>4. \A i, j \in 1 .. Len(appIndex') : appIndex'[i] = appIndex'[j] => i = j
      BY <2>2, <2>3 DEF AppIndexExact
    <2>5. ASSUME NEW b \in Apps
          PROVE  apps'[b] # Null <=> \E i \in 1 .. Len(appIndex') : appIndex'[i] = b
      <3>1. CASE b = a
        BY <3>1, <1>2, <2>2
      <3>2. CASE b # a
        BY <3>2, <1>3, <2>2 DEF AppIndexExact, RequireMiniApp
      <3> QED
        BY <3>1, <3>2
    <2> QED
      BY <2>4, <2>5 DEF AppIndexExact, RequireMiniApp
  <1> QED
    BY <1>4, <1>5

(***************************************************************************)
(* The registry invariants hold initially, with legacy records or without. *)
(***************************************************************************)
RegistryInv == RegistryTypeOK /\ IndexSound /\ IndexComplete /\ AppIndexExact

LEMMA RegistryInvInit == RegistryInit => RegistryInv
  <1> SUFFICES ASSUME RegistryInit PROVE RegistryInv
    OBVIOUS
  <1>1. RegistryTypeOK
    BY RegistryTypeInit
  <1>2. IndexSound
    BY DEF RegistryInit, IndexSound
  <1>3. IndexComplete
    <2> SUFFICES ASSUME LegacyApps = <<>> PROVE \A a \in Apps : apps[a] = Null
      BY DEF IndexComplete, RequireMiniApp
    <2>1. Len(LegacyApps) = 0
      OBVIOUS
    <2>2. \A a \in Apps : LegacyRecord(a) = Null
      BY <2>1 DEF LegacyRecord
    <2> QED
      BY <2>2 DEF RegistryInit
  <1>4. AppIndexExact
    <2>1. /\ Len(appIndex) = Len(LegacyApps)
          /\ \A i \in 1 .. Len(LegacyApps) : appIndex[i] = LegacyApps[i].app
      BY LegacyEntries DEF RegistryInit
    <2>2. ASSUME NEW a \in Apps
          PROVE  LegacyRecord(a) # Null <=> \E i \in 1 .. Len(LegacyApps) : LegacyApps[i].app = a
      <3> DEFINE old == {i \in 1 .. Len(LegacyApps) : LegacyApps[i].app = a}
                 l   == LegacyApps[CHOOSE i \in old : TRUE]
                 rec == [admin |-> l.admin, feePayer |-> l.feePayer,
                         callback |-> l.callback, active |-> TRUE]
      <3>1. LegacyRecord(a) = IF old = {} THEN Null ELSE rec
        BY DEF LegacyRecord
      <3>2. old # {} => rec \in MiniAppRecord
        <4> SUFFICES ASSUME old # {} PROVE rec \in MiniAppRecord
          OBVIOUS
        <4>1. l \in LegacyEntry
          BY LegacyEntries
        <4> HIDE DEF l
        <4> QED
          BY <4>1 DEF LegacyEntry, MiniAppRecord
      <3> HIDE DEF rec
      <3> QED
        BY <3>1, <3>2, NullDistinct
    <2> QED
      BY <2>1, <2>2, LegacyTyped DEF AppIndexExact, RequireMiniApp, RegistryInit
  <1> QED
    BY <1>1, <1>2, <1>3, <1>4 DEF RegistryInv

(***************************************************************************)
(* Every registry operation preserves the registry invariants.             *)
(***************************************************************************)
LEMMA RegistryInvStep ==
  ASSUME RegistryInv, NEW ws, RegistryNext(ws)
  PROVE  RegistryInv'
  <1> USE DEF RegistryInv
  <1>1. RegistryTypeOK'
    BY RegistryTypeStep
  <1>2. CASE UNCHANGED appVars
    BY <1>1, <1>2 DEF appVars, IndexSound, IndexComplete, AppIndexExact, RequireMiniApp
  <1>3. ASSUME NEW a \in Apps, NEW adm \in Accounts, NEW fp \in Accounts,
               NEW cb \in Accounts \cup {Null}, NEW act \in BOOLEAN,
               PutMiniApp(a, adm, fp, cb, act)
        PROVE  RegistryInv'
    BY <1>1, <1>3, PutKeepsIndexSound, PutKeepsIndexComplete, PutKeepsAppIndexExact
  <1>4. ASSUME NEW start \in 0 .. Len(appIndex), NEW count \in 1 .. Cardinality(Apps),
               RebuildIndexes(ws, start, count)
        PROVE  RegistryInv'
    <2>1. AppIndexExact'
      BY <1>4 DEF RebuildIndexes, AppIndexExact, RequireMiniApp
    <2> QED
      BY <1>1, <1>4, <2>1, RebuildKeepsIndexSound, RebuildKeepsIndexComplete
  <1> QED
    BY <1>2, <1>3, <1>4, RegistryStepCases

(***************************************************************************)
(* In every reachable state of the registry, for any number of apps and    *)
(* accounts: index entries are true, the enumeration is exact, and without *)
(* legacy records a callback contract belongs to one miniapp.              *)
(***************************************************************************)
THEOREM RegistryIndexes == RegistrySpec => [](IndexSound /\ AppIndexExact /\ CallbackUnique)
  <1>1. RegistryInit => RegistryInv
    BY RegistryInvInit
  <1>2. RegistryInv /\ [\E ws \in Witnesses : RegistryNext(ws)]_registryVars => RegistryInv'
    <2> SUFFICES ASSUME RegistryInv,
                        [\E ws \in Witnesses : RegistryNext(ws)]_registryVars
                 PROVE  RegistryInv'
      OBVIOUS
    <2>1. CASE \E ws \in Witnesses : RegistryNext(ws)
      BY <2>1, RegistryInvStep
    <2>2. CASE UNCHANGED registryVars
      BY <2>2 DEF RegistryInv, RegistryTypeOK, IndexSound, IndexComplete, AppIndexExact,
                  RequireMiniApp, registryVars, roleVars, appVars, moduleVars, sponsorVars
    <2> QED
      BY <2>1, <2>2
  <1>3. RegistryInv => IndexSound /\ AppIndexExact /\ CallbackUnique
    BY NullDistinct DEF RegistryInv, IndexComplete, CallbackUnique, FindMiniAppByCallback
  <1> QED
    BY <1>1, <1>2, <1>3, PTL DEF RegistrySpec

\* GetAllMiniAppIds and RebuildIndexes walk every registered app exactly once.
COROLLARY AppsEnumerated == RegistrySpec => []AppIndexExact
  BY RegistryIndexes, PTL

\* PREFIX_CALLBACK_INDEX holds no stale entry, after any registrations,
\* reconfigurations and backfills.
COROLLARY CallbackIndexTrue == RegistrySpec => []IndexSound
  BY RegistryIndexes, PTL

(***************************************************************************)
(* What a registry step does to the sponsorship controls.                  *)
(***************************************************************************)
LEMMA ControlCases ==
  ASSUME NEW ws, RegistryNext(ws)
  PROVE  \/ UNCHANGED sponsorVars
         \/ \E a \in Apps, u \in Requesters, allow \in BOOLEAN :
               SetSponsoredRequesterAllowed(ws, a, u, allow)
         \/ \E a \in Apps, u \in Requesters, c \in Caps : SetSponsoredRequesterCap(ws, a, u, c)
  BY DEF RegistryNext, SetAdmin, SetUpdater, SetRuntimeEncryptionKey,
         SetRuntimeVerificationPublicKey, RegisterSystemModule, ConfigureSystemModule,
         RegisterMiniApp, ConfigureMiniApp, PutMiniApp, RebuildIndexes,
         GrantModuleToMiniApp, RevokeModuleFromMiniApp, PutMiniAppStateBatch,
         DeleteMiniAppState, sponsorVars

LEMMA ControlsStep ==
  ASSUME RegistryTypeOK, ControlsImplyGated, NEW ws, RegistryNext(ws)
  PROVE  ControlsImplyGated'
  <1>1. CASE UNCHANGED sponsorVars
    BY <1>1 DEF sponsorVars, ControlsImplyGated
  <1>2. ASSUME NEW a \in Apps, NEW u \in Requesters, NEW allow \in BOOLEAN,
               SetSponsoredRequesterAllowed(ws, a, u, allow)
        PROVE  ControlsImplyGated'
    BY <1>2 DEF SetSponsoredRequesterAllowed, EnableSponsorshipGating, ControlsImplyGated
  <1>3. ASSUME NEW a \in Apps, NEW u \in Requesters, NEW c \in Caps,
               SetSponsoredRequesterCap(ws, a, u, c)
        PROVE  ControlsImplyGated'
    BY <1>3, InputsTyped
       DEF SetSponsoredRequesterCap, EnableSponsorshipGating, ControlsImplyGated, RegistryTypeOK
  <1> QED
    BY <1>1, <1>2, <1>3, ControlCases

\* An app with an allowlist entry or a cap stays gated: clearing one control
\* never brings it back to sponsoring everyone.
THEOREM ControlsGate == RegistrySpec => []ControlsImplyGated
  <1>1. RegistryInit => ControlsImplyGated
    BY InputsTyped DEF RegistryInit, ControlsImplyGated
  <1>2. RegistryTypeOK /\ ControlsImplyGated /\ [\E ws \in Witnesses : RegistryNext(ws)]_registryVars
          => ControlsImplyGated'
    <2>1. ControlsImplyGated /\ UNCHANGED registryVars => ControlsImplyGated'
      BY DEF ControlsImplyGated, registryVars, sponsorVars
    <2> QED
      BY <2>1, ControlsStep
  <1> QED
    BY <1>1, <1>2, RegistryTypeCorrect, PTL DEF RegistrySpec
=============================================================================
