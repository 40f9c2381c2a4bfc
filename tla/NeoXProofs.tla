----------------------------- MODULE NeoXProofs -----------------------------
(***************************************************************************)
(* Proofs about the Neo X contracts and the fulfiller, for any accounts,   *)
(* apps, amounts and bounds: the kernel's types and fee pools; that the    *)
(* composition with the dice game and the fulfiller is the kernel and      *)
(* nothing more; the fulfiller's cursor; the books and cover of the game.  *)
(***************************************************************************)
EXTENDS NeoXFulfiller, UnitSumsProofs

EvmInv == EvmTypeOK /\ EvmFeesExact

(***************************************************************************)
(* The ledger of pending fees is a finite ledger of naturals.              *)
(***************************************************************************)
LEMMA EvmLedger ==
  ASSUME EvmTypeOK
  PROVE  /\ IsFiniteSet(EvmIds)
         /\ \A id \in EvmIds : EvmPendingFee[id] \in Nat /\ evmRequests[id] \in EvmRequest
  <1>1. evmRequests \in Seq(EvmRequest)
    BY DEF EvmTypeOK
  <1>2. EvmIds = 1 .. Len(evmRequests) /\ Len(evmRequests) \in Nat
    BY <1>1 DEF EvmIds
  <1>3. IsFiniteSet(EvmIds)
    BY <1>2, FS_Interval
  <1>4. ASSUME NEW id \in EvmIds PROVE evmRequests[id] \in EvmRequest
    BY <1>1, <1>2, <1>4
  <1>5. ASSUME NEW id \in EvmIds PROVE EvmPendingFee[id] \in Nat
    BY <1>4, <1>5 DEF EvmPendingFee, EvmRequest
  <1> QED
    BY <1>3, <1>4, <1>5

(***************************************************************************)
(* A submission adds one pending fee to the ledger and to both pools, and  *)
(* the contract keeps no more than the fee.                                *)
(***************************************************************************)
LEMMA SubmitKeeps ==
  ASSUME EvmInv, NEW s \in EvmAccounts, NEW value \in Nat, NEW app \in EvmApps,
         NEW module \in EvmModules, SubmitEvm(s, value, app, module)
  PROVE  EvmInv'
  <1> DEFINE r == [app |-> app, module |-> module, callback |-> miniApps[app].callback,
                   status |-> "pending", result |-> EvmNone, createdAt |-> evmNow,
                   feePaid |-> requestFee, feePayer |-> s]
             n == Len(evmRequests) + 1
             S == EvmIds
             f == EvmPendingFee
             g == EvmPendingFee'
  <1>1. /\ evmRequests \in Seq(EvmRequest) /\ requestFee \in Nat /\ evmNow \in Nat
        /\ miniApps \in [EvmApps -> [admin : EvmAccounts, callback : Callbacks] \cup {EvmNone}]
    BY DEF EvmInv, EvmTypeOK
  <1>2. evmRequests' = Append(evmRequests, r) /\ miniApps[app] # EvmNone /\ value >= requestFee
    BY DEF SubmitEvm
  <1>3. miniApps[app].callback \in Callbacks
    BY <1>1, <1>2
  <1>4. r \in EvmRequest
    BY <1>1, <1>3 DEF EvmRequest
  <1>5. r.status = "pending" /\ r.feePaid = requestFee
    OBVIOUS
  <1> HIDE DEF r
  <1>6. /\ evmRequests' \in Seq(EvmRequest) /\ Len(evmRequests') = n
        /\ \A id \in S : evmRequests'[id] = evmRequests[id]
        /\ evmRequests'[n] = r
        /\ n \notin S /\ EvmIds' = S \cup {n}
    BY <1>1, <1>2, <1>4 DEF EvmIds
  <1>7. \A id \in S : g[id] = f[id]
    BY <1>6 DEF EvmPendingFee, EvmPending
  <1>8. g[n] = requestFee
    BY <1>5, <1>6 DEF EvmPendingFee, EvmPending
  <1>9. IsFiniteSet(S) /\ \A id \in S : f[id] \in Nat
    BY EvmLedger DEF EvmInv
  <1>10. reservedFees = Total(S, f)
    BY DEF EvmInv, EvmFeesExact
  <1> HIDE DEF S, f, g, n
  <1>11. Total(S \cup {n}, g) = Total(S, f) + requestFee
    BY <1>1, <1>6, <1>7, <1>8, <1>9, TotalGrowBy
  <1>12. /\ reservedFees' = Total(S \cup {n}, g)
         /\ accruedFees' = accruedFees + requestFee
         /\ reservedFees' = reservedFees + requestFee
         /\ evmBalance' = evmBalance + requestFee
    <2>1. /\ reservedFees' = reservedFees + requestFee
          /\ accruedFees' = accruedFees + requestFee
          /\ evmBalance' = evmBalance + value - (value - requestFee)
      BY DEF SubmitEvm, Overage
    <2>2. evmBalance \in Nat
      BY DEF EvmInv, EvmTypeOK
    <2> QED
      BY <1>1, <1>10, <1>11, <2>1, <2>2
  <1>13. EvmFeesExact'
    <2>1. /\ accruedFees \in Nat /\ reservedFees \in Nat /\ accruedFees >= reservedFees
          /\ evmBalance = accruedFees
      BY DEF EvmInv, EvmTypeOK, EvmFeesExact
    <2>2. reservedFees' = Total(EvmIds', g)
      BY <1>6, <1>12
    <2> QED
      BY <1>1, <1>12, <2>1, <2>2 DEF EvmFeesExact, g
  <1>14. EvmTypeOK'
    BY <1>1, <1>6, <1>12 DEF EvmInv, EvmTypeOK, SubmitEvm, evmRoles, evmTerms, evmRegistry
  <1> QED
    BY <1>13, <1>14 DEF EvmInv

(***************************************************************************)
(* Settling a pending request takes exactly its fee out of the reserved    *)
(* pool: the clamp of _releaseReserved never bites.                        *)
(***************************************************************************)
LEMMA SettleReleasesEvm ==
  ASSUME EvmInv, NEW id \in EvmIds, EvmPending(id), NEW r \in EvmRequest,
         r.status # "pending", evmRequests' = [evmRequests EXCEPT ![id] = r],
         reservedFees' = Released(evmRequests[id].feePaid)
  PROVE  /\ evmRequests' \in Seq(EvmRequest)
         /\ evmRequests[id].feePaid \in Nat
         /\ reservedFees' \in Nat
         /\ reservedFees' + evmRequests[id].feePaid = reservedFees
         /\ reservedFees' = Total(EvmIds, EvmPendingFee)'
  <1> DEFINE S == EvmIds
             f == EvmPendingFee
             g == EvmPendingFee'
             fee == evmRequests[id].feePaid
  <1>1. evmRequests \in Seq(EvmRequest)
    BY DEF EvmInv, EvmTypeOK
  <1>2. /\ evmRequests' \in Seq(EvmRequest) /\ EvmIds' = S
        /\ evmRequests'[id] = r
        /\ \A j \in S \ {id} : evmRequests'[j] = evmRequests[j]
    BY <1>1 DEF EvmIds
  <1>3. \A j \in S \ {id} : g[j] = f[j]
    BY <1>2 DEF EvmPendingFee, EvmPending
  <1>4. g[id] = 0 /\ f[id] = fee
    BY <1>2 DEF EvmPendingFee, EvmPending
  <1>5. IsFiniteSet(S) /\ \A j \in S : f[j] \in Nat
    BY EvmLedger DEF EvmInv
  <1>6. fee \in Nat
    BY <1>4, <1>5
  <1>7. reservedFees = Total(S, f) /\ reservedFees \in Nat
    BY DEF EvmInv, EvmFeesExact, EvmTypeOK
  <1>8. reservedFees' = IF reservedFees > fee THEN reservedFees - fee ELSE 0
    BY DEF Released
  <1>9. Total(EvmIds, EvmPendingFee)' = Total(S, g)
    BY <1>2
  <1> HIDE DEF S, f, g, fee
  <1>10. id \in S /\ g[id] \in Nat
    BY <1>4 DEF S
  <1>11. /\ Total(S, g) \in Nat /\ Total(S, f) >= f[id]
         /\ Total(S, g) + f[id] = Total(S, f) + g[id]
    BY <1>3, <1>5, <1>10, TotalChange
  <1>12. reservedFees' + fee = reservedFees /\ reservedFees' = Total(S, g) /\ reservedFees' \in Nat
    BY <1>4, <1>6, <1>7, <1>8, <1>11
  <1> QED
    BY <1>2, <1>6, <1>9, <1>12 DEF fee

(***************************************************************************)
(* Calls that leave requests and the reserved pool alone, and take as much *)
(* from the accrued fees as from the balance.                              *)
(***************************************************************************)
LEMMA AdminKeeps ==
  ASSUME EvmInv, EvmAdmin
  PROVE  EvmInv'
  <1>1. EvmTypeOK /\ EvmFeesExact /\ reservedFees \in Nat /\ accruedFees \in Nat
    BY DEF EvmInv, EvmTypeOK
  <1>2. UNCHANGED <<evmRequests, reservedFees>>
    BY DEF EvmAdmin, SetRoles, setModuleActive, registerMiniApp, grantModule, setRequestFee,
           setRequestTTL, withdrawFees, EvmTime, evmPools
  <1>3. Total(EvmIds, EvmPendingFee)' = Total(EvmIds, EvmPendingFee)
    BY <1>2 DEF EvmIds, EvmPendingFee, EvmPending
  <1>4. CASE UNCHANGED <<accruedFees, evmBalance>>
    <2>1. EvmFeesExact'
      BY <1>1, <1>2, <1>3, <1>4 DEF EvmFeesExact
    <2>2. EvmTypeOK'
      <3>1. CASE \E s, next \in EvmAccounts : SetRoles(s, next)
        BY <1>1, <3>1 DEF EvmTypeOK, SetRoles, evmTerms, evmPools, evmRegistry
      <3>2. CASE \E s \in EvmAccounts, module \in EvmModules, active \in BOOLEAN :
                    setModuleActive(s, module, active)
        BY <1>1, <3>2 DEF EvmTypeOK, setModuleActive, evmRoles, evmTerms, evmPools
      <3>3. CASE \E s \in EvmAccounts, app \in EvmApps, admin \in EvmAccounts,
                    callback \in Callbacks : registerMiniApp(s, app, admin, callback)
        BY <1>1, <3>3 DEF EvmTypeOK, registerMiniApp, evmRoles, evmTerms, evmPools
      <3>4. CASE \E s \in EvmAccounts, app \in EvmApps, module \in EvmModules :
                    grantModule(s, app, module)
        BY <1>1, <3>4 DEF EvmTypeOK, grantModule, evmRoles, evmTerms, evmPools
      <3>5. CASE \E s \in EvmAccounts : \/ \E amount \in EvmFees : setRequestFee(s, amount)
                                        \/ \E ttl \in EvmTtls : setRequestTTL(s, ttl)
        BY <1>1, <3>5, EvmConstants
           DEF EvmTypeOK, setRequestFee, setRequestTTL, evmRoles, evmPools, evmRegistry
      <3>6. CASE EvmTime
        BY <1>1, <3>6 DEF EvmTypeOK, EvmTime, evmRoles, evmTerms, evmPools, evmRegistry
      <3>7. CASE \E s \in EvmAccounts, amount \in 1 .. accruedFees : withdrawFees(s, amount)
        BY <1>1, <1>4, <3>7 DEF EvmTypeOK, withdrawFees, evmRoles, evmTerms, evmRegistry
      <3> QED
        BY <3>1, <3>2, <3>3, <3>4, <3>5, <3>6, <3>7 DEF EvmAdmin
    <2> QED
      BY <2>1, <2>2 DEF EvmInv
  <1>5. CASE ~UNCHANGED <<accruedFees, evmBalance>>
    <2>1. PICK s \in EvmAccounts, amount \in 1 .. accruedFees : withdrawFees(s, amount)
      BY <1>5 DEF EvmAdmin, SetRoles, setModuleActive, registerMiniApp, grantModule,
                  setRequestFee, setRequestTTL, EvmTime, evmPools
    <2>2. /\ amount \in Nat /\ amount <= accruedFees - reservedFees
          /\ accruedFees' = accruedFees - amount /\ evmBalance' = evmBalance - amount
      BY <1>1, <2>1 DEF withdrawFees, withdrawableFees, EvmFeesExact
    <2>3. EvmFeesExact'
      BY <1>1, <1>2, <1>3, <2>2 DEF EvmFeesExact
    <2>4. EvmTypeOK'
      BY <1>1, <2>1, <2>2
         DEF EvmTypeOK, EvmFeesExact, withdrawFees, evmRoles, evmTerms, evmRegistry
    <2> QED
      BY <2>3, <2>4 DEF EvmInv
  <1> QED
    BY <1>4, <1>5

(***************************************************************************)
(* An answer earns the fee: it leaves the reserve and stays accrued.       *)
(***************************************************************************)
LEMMA FulfillKeeps ==
  ASSUME EvmInv, NEW s, NEW id \in EvmIds, NEW success \in BOOLEAN,
         NEW result \in EvmResults \cup {EvmNone}, NEW signer,
         Fulfill(s, id, success, result, signer)
  PROVE  EvmInv'
  <1> DEFINE r == [evmRequests[id] EXCEPT
                     !.status = IF success THEN "succeeded" ELSE "failed", !.result = result]
  <1>1. evmRequests[id] \in EvmRequest
    BY EvmLedger DEF EvmInv
  <1>2. r \in EvmRequest /\ r.status # "pending"
    BY <1>1 DEF EvmRequest
  <1>3. EvmPending(id) /\ evmRequests' = [evmRequests EXCEPT ![id] = r]
        /\ reservedFees' = Released(evmRequests[id].feePaid)
    BY DEF Fulfill
  <1> HIDE DEF r
  <1>4. /\ evmRequests' \in Seq(EvmRequest) /\ evmRequests[id].feePaid \in Nat
        /\ reservedFees' \in Nat /\ reservedFees' + evmRequests[id].feePaid = reservedFees
        /\ reservedFees' = Total(EvmIds, EvmPendingFee)'
    BY <1>2, <1>3, SettleReleasesEvm
  <1>5. /\ EvmTypeOK /\ reservedFees \in Nat /\ accruedFees \in Nat
        /\ accruedFees >= reservedFees /\ evmBalance = accruedFees
        /\ accruedFees' = accruedFees /\ evmBalance' = evmBalance
    BY DEF EvmInv, EvmTypeOK, EvmFeesExact, Fulfill
  <1>6. EvmFeesExact'
    BY <1>4, <1>5 DEF EvmFeesExact
  <1>7. EvmTypeOK'
    BY <1>4, <1>5 DEF EvmTypeOK, Fulfill, evmRoles, evmTerms, evmRegistry
  <1> QED
    BY <1>6, <1>7 DEF EvmInv

(***************************************************************************)
(* An expiry gives the fee back whole: the pool covers it, so the clamp of *)
(* the refund never bites.                                                 *)
(***************************************************************************)
LEMMA ExpiryKeeps ==
  ASSUME EvmInv, NEW s, NEW id \in EvmIds, expireStaleRequest(s, id)
  PROVE  EvmInv' /\ accruedFees' + evmRequests[id].feePaid = accruedFees
  <1> DEFINE r == [evmRequests[id] EXCEPT !.status = "failed"]
             fee == evmRequests[id].feePaid
  <1>1. evmRequests[id] \in EvmRequest
    BY EvmLedger DEF EvmInv
  <1>2. r \in EvmRequest /\ r.status # "pending"
    BY <1>1 DEF EvmRequest
  <1>3. EvmPending(id) /\ evmRequests' = [evmRequests EXCEPT ![id] = r]
        /\ reservedFees' = Released(evmRequests[id].feePaid)
    BY DEF expireStaleRequest
  <1> HIDE DEF r
  <1>4. /\ evmRequests' \in Seq(EvmRequest) /\ fee \in Nat
        /\ reservedFees' \in Nat /\ reservedFees' + fee = reservedFees
        /\ reservedFees' = Total(EvmIds, EvmPendingFee)'
    BY <1>2, <1>3, SettleReleasesEvm
  <1>5. /\ EvmTypeOK /\ reservedFees \in Nat /\ accruedFees \in Nat
        /\ accruedFees >= reservedFees /\ evmBalance = accruedFees
    BY DEF EvmInv, EvmTypeOK, EvmFeesExact
  <1>6. Refund(id) = fee
    BY <1>4, <1>5 DEF Refund
  <1>7. accruedFees' = accruedFees - fee /\ evmBalance' = evmBalance - fee
    BY <1>6 DEF expireStaleRequest
  <1>8. EvmFeesExact'
    BY <1>4, <1>5, <1>7 DEF EvmFeesExact
  <1>9. EvmTypeOK'
    BY <1>4, <1>5, <1>7 DEF EvmTypeOK, expireStaleRequest, evmRoles, evmTerms, evmRegistry
  <1> QED
    BY <1>4, <1>5, <1>7, <1>8, <1>9 DEF EvmInv

LEMMA EvmInitially == EvmInit => EvmInv
  <1> SUFFICES ASSUME EvmInit PROVE EvmInv
    OBVIOUS
  <1>1. EvmIds = {} /\ evmRequests \in Seq(EvmRequest)
    BY DEF EvmInit, EvmIds
  <1>2. Total(EvmIds, EvmPendingFee) = 0
    BY <1>1, TotalEmpty
  <1>3. EvmFeesExact
    BY <1>2 DEF EvmInit, EvmFeesExact
  <1>4. miniApps \in [EvmApps -> [admin : EvmAccounts, callback : Callbacks] \cup {EvmNone}]
    BY EvmConstants DEF EvmInit, Callbacks
  <1>5. appByCallback \in [EvmAccounts -> EvmApps \cup {EvmNone}]
    BY DEF EvmInit
  <1>6. activeModules \subseteq EvmModules /\ moduleGrants \subseteq EvmApps \X EvmModules
    BY DEF EvmInit
  <1>7. EvmTypeOK
    BY <1>1, <1>4, <1>5, <1>6, EvmConstants DEF EvmInit, EvmTypeOK
  <1> QED
    BY <1>3, <1>7 DEF EvmInv

LEMMA EvmStep == EvmInv /\ [EvmNext]_evmVars => EvmInv'
  <1> SUFFICES ASSUME EvmInv, [EvmNext]_evmVars PROVE EvmInv'
    OBVIOUS
  <1>1. CASE EvmAdmin
    BY <1>1, AdminKeeps
  <1>2. CASE EvmExpire
    BY <1>2, ExpiryKeeps DEF EvmExpire
  <1>3. CASE EvmSubmit
    <2>1. PICK s \in EvmAccounts, value \in Values, module \in EvmModules :
             \/ \E app \in EvmApps : submitRequest(s, value, app, module)
             \/ requestFromCallback(s, value, module)
      BY <1>3 DEF EvmSubmit
    <2>2. value \in Nat /\ appByCallback[s] \in EvmApps \cup {EvmNone}
      BY EvmConstants DEF EvmInv, EvmTypeOK
    <2>3. \E app \in EvmApps : SubmitEvm(s, value, app, module)
      BY <2>1, <2>2 DEF submitRequest, requestFromCallback
    <2> QED
      BY <2>2, <2>3, SubmitKeeps
  <1>4. CASE EvmFulfill
    BY <1>4, FulfillKeeps DEF EvmFulfill
  <1>5. CASE UNCHANGED evmVars
    BY <1>5 DEF EvmInv, EvmTypeOK, EvmFeesExact, EvmPendingFee, EvmPending, EvmIds, evmVars,
                evmRoles, evmTerms, evmPools, evmRegistry
  <1> QED
    BY <1>1, <1>2, <1>3, <1>4, <1>5 DEF EvmNext

(***************************************************************************)
(* Type correctness of MorpheusOracleEVM: the pools and the balance stay   *)
(* naturals, so no subtraction of the contract underflows.                 *)
(***************************************************************************)
THEOREM EvmTypes == EvmSpec => []EvmTypeOK
  <1>1. EvmInv => EvmTypeOK
    BY DEF EvmInv
  <1> QED
    BY <1>1, EvmInitially, EvmStep, PTL DEF EvmSpec

(***************************************************************************)
(* The fee pools of MorpheusOracleEVM are exact: the reserve is what the   *)
(* pending requests paid, the accrued pool covers it, and the contract     *)
(* holds the accrued fees.                                                 *)
(***************************************************************************)
THEOREM EvmFeePools == EvmSpec => []EvmFeesExact
  <1>1. EvmInv => EvmFeesExact
    BY DEF EvmInv
  <1> QED
    BY <1>1, EvmInitially, EvmStep, PTL DEF EvmSpec

-----------------------------------------------------------------------------
(***************************************************************************)
(* What a kernel step does to requests: their ids stay, and a settled      *)
(* request never changes.                                                  *)
(***************************************************************************)
LEMMA SubmitAppends ==
  ASSUME EvmTypeOK, NEW s, NEW value, NEW app, NEW module, SubmitEvm(s, value, app, module)
  PROVE  /\ EvmIds' = EvmIds \cup {Len(evmRequests) + 1}
         /\ Len(evmRequests) + 1 \notin EvmIds
         /\ \A id \in EvmIds : evmRequests'[id] = evmRequests[id]
         /\ evmRequests'[Len(evmRequests) + 1].status = "pending"
         /\ Len(evmRequests) \in Nat /\ Len(evmRequests') = Len(evmRequests) + 1
         /\ UNCHANGED scene
  <1>1. evmRequests \in Seq(EvmRequest)
    BY DEF EvmTypeOK
  <1>2. PICK r : evmRequests' = Append(evmRequests, r) /\ r.status = "pending"
    BY DEF SubmitEvm
  <1> QED
    BY <1>1, <1>2 DEF EvmIds, SubmitEvm

LEMMA SettleWritesEvm ==
  ASSUME EvmTypeOK, NEW s, NEW id \in EvmIds, NEW success, NEW result, NEW signer,
         Fulfill(s, id, success, result, signer)
  PROVE  /\ EvmIds' = EvmIds /\ Len(evmRequests') = Len(evmRequests)
         /\ \A j \in EvmIds \ {id} : evmRequests'[j] = evmRequests[j]
         /\ evmRequests'[id].status = IF success THEN "succeeded" ELSE "failed"
         /\ evmRequests'[id].result = result
         /\ EvmPending(id) /\ UNCHANGED scene
  <1>1. evmRequests \in Seq(EvmRequest) /\ evmRequests[id] \in EvmRequest
    BY EvmLedger DEF EvmTypeOK
  <1> DEFINE r == [evmRequests[id] EXCEPT
                     !.status = IF success THEN "succeeded" ELSE "failed", !.result = result]
  <1>2. evmRequests' = [evmRequests EXCEPT ![id] = r] /\ EvmPending(id) /\ UNCHANGED scene
    BY DEF Fulfill
  <1>3. r.status = (IF success THEN "succeeded" ELSE "failed") /\ r.result = result
    BY <1>1 DEF EvmRequest
  <1> HIDE DEF r
  <1>4. /\ EvmIds' = EvmIds /\ Len(evmRequests') = Len(evmRequests)
        /\ evmRequests'[id] = r
        /\ \A j \in EvmIds \ {id} : evmRequests'[j] = evmRequests[j]
    BY <1>1, <1>2 DEF EvmIds
  <1> QED
    BY <1>2, <1>3, <1>4

LEMMA RequestsStay ==
  ASSUME EvmTypeOK, [EvmNext]_evmVars
  PROVE  /\ EvmIds \subseteq EvmIds'
         /\ Len(evmRequests) \in Nat /\ Len(evmRequests') \in Nat
         /\ Len(evmRequests) <= Len(evmRequests')
         /\ \A id \in EvmIds : ~EvmPending(id) => evmRequests'[id] = evmRequests[id]
         /\ UNCHANGED scene
  <1>1. evmRequests \in Seq(EvmRequest) /\ Len(evmRequests) \in Nat
    BY DEF EvmTypeOK
  <1>2. CASE EvmAdmin \/ UNCHANGED evmVars
    <2>1. UNCHANGED <<evmRequests, scene>>
      BY <1>2 DEF EvmAdmin, SetRoles, setModuleActive, registerMiniApp, grantModule,
                  setRequestFee, setRequestTTL, withdrawFees, EvmTime, evmVars
    <2> QED
      BY <1>1, <2>1 DEF EvmIds
  <1>3. CASE EvmExpire
    <2>1. PICK s \in EvmAccounts, id \in EvmIds : expireStaleRequest(s, id)
      BY <1>3 DEF EvmExpire
    <2>2. /\ EvmPending(id) /\ UNCHANGED scene
          /\ evmRequests' = [evmRequests EXCEPT ![id] = [@ EXCEPT !.status = "failed"]]
      BY <2>1 DEF expireStaleRequest
    <2> QED
      BY <1>1, <2>2 DEF EvmIds
  <1>4. CASE EvmSubmit
    <2>1. PICK s, value, app, module : SubmitEvm(s, value, app, module)
      BY <1>4 DEF EvmSubmit, submitRequest, requestFromCallback
    <2> QED
      BY <1>1, <2>1, SubmitAppends
  <1>5. CASE EvmFulfill
    <2>1. PICK s \in EvmAccounts, id \in EvmIds, signer \in EvmAccounts :
             \/ \E result \in EvmResults : Fulfill(s, id, TRUE, result, signer)
             \/ Fulfill(s, id, FALSE, EvmNone, signer)
      BY <1>5 DEF EvmFulfill
    <2>2. PICK success \in BOOLEAN : \E result : Fulfill(s, id, success, result, signer)
      BY <2>1, Zenon
    <2>3. /\ EvmIds' = EvmIds /\ Len(evmRequests') = Len(evmRequests)
          /\ \A j \in EvmIds \ {id} : evmRequests'[j] = evmRequests[j]
          /\ EvmPending(id) /\ UNCHANGED scene
      BY <2>2, SettleWritesEvm
    <2> QED
      BY <1>1, <2>3
  <1> QED
    BY <1>2, <1>3, <1>4, <1>5 DEF EvmNext

LEMMA IdsStep ==
  ASSUME EvmTypeOK, [EvmNext]_evmVars
  PROVE  EvmIds' = EvmIds \/ EvmIds' = EvmIds \cup {Len(evmRequests) + 1}
  <1>1. CASE EvmAdmin \/ UNCHANGED evmVars
    BY <1>1 DEF EvmAdmin, SetRoles, setModuleActive, registerMiniApp, grantModule,
                setRequestFee, setRequestTTL, withdrawFees, EvmTime, evmVars, EvmIds
  <1>2. CASE EvmExpire
    <2>1. \E id \in EvmIds : \E r : evmRequests' = [evmRequests EXCEPT ![id] = r]
      BY <1>2 DEF EvmExpire, expireStaleRequest
    <2> QED
      BY <2>1 DEF EvmIds
  <1>3. CASE EvmSubmit
    <2>1. PICK s, value, app, module : SubmitEvm(s, value, app, module)
      BY <1>3 DEF EvmSubmit, submitRequest, requestFromCallback
    <2> QED
      BY <2>1, SubmitAppends
  <1>4. CASE EvmFulfill
    <2>1. \E id \in EvmIds : \E r : evmRequests' = [evmRequests EXCEPT ![id] = r]
      BY <1>4 DEF EvmFulfill, Fulfill
    <2> QED
      BY <2>1 DEF EvmIds
  <1> QED
    BY <1>1, <1>2, <1>3, <1>4 DEF EvmNext

(***************************************************************************)
(* The game and the relayer take only kernel steps.                        *)
(***************************************************************************)
LEMMA PlayIsKernel == NeoXNext => [EvmNext]_evmVars
  <1>1. (EvmAdmin \/ EvmExpire \/ EvmSubmit) => EvmNext
    BY DEF EvmNext
  <1>2. Answer => EvmNext
    BY DEF Answer, fulfillRequest, EvmNext, EvmFulfill
  <1>3. Play => EvmNext \/ UNCHANGED evmVars
    <2>1. ASSUME NEW player, NEW face, NEW stake, placeBet(player, face, stake)
          PROVE  EvmNext
      <3>1. requestFromCallback(Dice, 0, RandomModule)
        BY <2>1 DEF placeBet
      <3> QED
        BY <3>1, DiceConstants DEF EvmNext, EvmSubmit
    <2> QED
      BY <2>1 DEF Play, fundBankroll, settleFromKernel, claim, withdrawBankroll,
                  setStakeLimits, SetDiceOwner
  <1> QED
    BY <1>1, <1>2, <1>3 DEF NeoXNext

(***************************************************************************)
(* What the fulfiller sends is about a request that exists.                *)
(***************************************************************************)
SentInv ==
  /\ FulTypeOK
  /\ fulPc = "work" => atBlock \in EvmIds
  /\ \A tx \in mempool : tx.id \in EvmIds

LEMMA AnswerParts ==
  ASSUME NEW answer \in Answers
  PROVE  \/ answer.success = TRUE /\ answer.result \in EvmResults
         \/ answer.success = FALSE /\ answer.result = EvmNone
  BY Zenon DEF Answers

LEMMA FulIsKernel ==
  ASSUME SentInv, [FulNext]_neoxVars
  PROVE  [EvmNext]_evmVars
  <1>1. CASE NeoXNext
    BY <1>1, PlayIsKernel
  <1>2. CASE UNCHANGED evmVars
    BY <1>2
  <1>3. ASSUME NEW tx \in mempool, Mine(tx)
        PROVE  EvmNext \/ UNCHANGED evmVars
    <2>1. tx.id \in EvmIds /\ tx.answer \in Answers
      BY DEF SentInv, FulTypeOK
    <2>2. \/ Fulfill(Fulfiller, tx.id, tx.answer.success, tx.answer.result, Fulfiller)
          \/ UNCHANGED evmVars
      BY <1>3 DEF Mine, fulfillRequest
    <2>3. \/ tx.answer.success = TRUE /\ tx.answer.result \in EvmResults
          \/ tx.answer.success = FALSE /\ tx.answer.result = EvmNone
      BY <2>1, AnswerParts
    <2> QED
      BY <2>1, <2>2, <2>3, FulfillerConstants, Zenon DEF EvmNext, EvmFulfill
  <1> QED
    BY <1>1, <1>2, <1>3 DEF FulNext, neoxVars

LEMMA SentKept ==
  ASSUME EvmTypeOK, SentInv, [FulNext]_neoxVars
  PROVE  SentInv'
  <1>1. EvmIds \subseteq EvmIds' /\ Len(evmRequests) \in Nat
    BY FulIsKernel, RequestsStay
  <1>2. CASE UNCHANGED fulVars
    BY <1>1, <1>2 DEF SentInv, FulTypeOK, fulVars, chunkVars
  <1>3. CASE Cycle
    <2>1. From(Len(evmRequests)) \in Nat
      BY <1>1, FulfillerConstants DEF From, SentInv, FulTypeOK
    <2> QED
      BY <1>1, <1>3, <2>1, FulfillerConstants DEF SentInv, FulTypeOK, Cycle, Chunk
  <1>4. CASE GetLogs \/ WaitFails \/ CrashAndRestart
    BY <1>1, <1>4 DEF SentInv, FulTypeOK, GetLogs, WaitFails, CrashAndRestart, GiveUp, Reload, Rest,
                      Mishap, chunkVars
  <1>5. CASE EndChunk
    BY <1>1, <1>5, FulfillerConstants DEF SentInv, FulTypeOK, EndChunk, Rest, Chunk, Mishap
  <1>6. CASE ReadRequest
    BY <1>1, <1>6 DEF SentInv, FulTypeOK, ReadRequest, Unanswered, Mishap
  <1>7. CASE Work
    <2>1. atBlock \in EvmIds /\ atBlock \in Nat /\ mishaps \in Nat
      BY <1>7 DEF Work, SentInv, FulTypeOK
    <2>2. ASSUME NEW tx \in mempool', tx \notin mempool
          PROVE  tx.id \in EvmIds /\ tx \in [id : Nat, answer : Answers, nonce : Nat]
      <3>1. PICK answer \in Answers :
               mempool' = mempool \cup {[id |-> atBlock, answer |-> answer, nonce |-> mishaps]}
        BY <1>7, <2>2 DEF Work, SendAnswer
      <3>2. tx = [id |-> atBlock, answer |-> answer, nonce |-> mishaps]
        BY <2>2, <3>1
      <3> QED
        BY <2>1, <3>2
    <2>3. \A tx \in mempool' : tx.id \in EvmIds
      BY <2>2 DEF SentInv
    <2>4. mempool' \subseteq [id : Nat, answer : Answers, nonce : Nat]
      BY <2>2 DEF SentInv, FulTypeOK
    <2>5. fulPc' \in {"wait", "idle"} /\ cursor' = cursor /\ saved' = saved
          /\ mishaps' \in Nat /\ headBlock' \in Nat /\ endBlock' \in Nat /\ atBlock' \in Nat
      BY <1>7 DEF SentInv, FulTypeOK, Work, GiveUp, Rest, Mishap, chunkVars
    <2> QED
      BY <1>1, <2>3, <2>4, <2>5 DEF SentInv, FulTypeOK
  <1>8. ASSUME NEW tx \in mempool, Mine(tx) PROVE SentInv'
    BY <1>1, <1>8 DEF SentInv, FulTypeOK, Mine, GiveUp, Rest, chunkVars
  <1> QED
    BY <1>2, <1>3, <1>4, <1>5, <1>6, <1>7, <1>8 DEF FulNext, FulStep, neoxVars

(***************************************************************************)
(* The kernel of the composition is MorpheusOracleEVM and nothing more, so *)
(* whatever holds of the kernel holds of it under the game, the relayer    *)
(* and the fulfiller.                                                      *)
(***************************************************************************)
THEOREM NeoXIsKernel == FulSafety => EvmSpec
  <1>1. FulInit => SentInv
    BY DEF FulInit, SentInv, FulTypeOK
  <1>2. EvmInv => EvmTypeOK
    BY DEF EvmInv
  <1>3. EvmInv /\ SentInv /\ [FulNext]_neoxVars => [EvmNext]_evmVars
    BY FulIsKernel
  <1>4. EvmInv /\ SentInv /\ [FulNext]_neoxVars => EvmInv' /\ SentInv'
    BY <1>2, <1>3, EvmStep, SentKept
  <1> QED
    BY <1>1, <1>3, <1>4, EvmInitially, PTL DEF FulSafety, EvmSpec

-----------------------------------------------------------------------------
(***************************************************************************)
(* CursorCovers says nothing of the chunk under way.  What is inductive is *)
(* that everything before the next log was passed, and that neither cursor *)
(* nor chunk is ahead of the chain, where new requests will come.          *)
(***************************************************************************)
Passed(id) == ~EvmPending(id) \/ id \in missed

CursorInv ==
  /\ cursor <= Len(evmRequests) /\ saved <= Len(evmRequests)
  /\ \A id \in EvmIds : id <= cursor \/ id <= saved => Passed(id)
  /\ fulPc # "idle" =>
       /\ headBlock <= Len(evmRequests) /\ endBlock <= headBlock /\ atBlock <= endBlock + 1
       /\ \A id \in EvmIds : id < atBlock => Passed(id)
  /\ fulPc \in {"work", "wait"} => atBlock <= endBlock

LEMMA PassedStays ==
  ASSUME EvmTypeOK, [EvmNext]_evmVars, missed \subseteq missed'
  PROVE  /\ \A id \in EvmIds : Passed(id) => Passed(id)'
         /\ \A id \in EvmIds' : id \in EvmIds \/ id > Len(evmRequests)
         /\ EvmIds' \subseteq Nat /\ EvmIds \subseteq Nat
         /\ Len(evmRequests) \in Nat /\ Len(evmRequests') \in Nat
         /\ Len(evmRequests) <= Len(evmRequests')
  <1>1. /\ \A id \in EvmIds : ~EvmPending(id) => evmRequests'[id] = evmRequests[id]
        /\ EvmIds \subseteq EvmIds'
        /\ Len(evmRequests) \in Nat /\ Len(evmRequests') \in Nat
        /\ Len(evmRequests) <= Len(evmRequests')
    BY RequestsStay
  <1>2. \A id \in EvmIds : Passed(id) => Passed(id)'
    BY <1>1 DEF Passed, EvmPending
  <1>3. EvmIds = 1 .. Len(evmRequests)
    BY DEF EvmIds, EvmTypeOK
  <1>4. EvmIds' \subseteq Nat /\ \A id \in EvmIds' : id \in EvmIds \/ id > Len(evmRequests)
    <2>1. EvmIds' = EvmIds \/ EvmIds' = EvmIds \cup {Len(evmRequests) + 1}
      BY IdsStep
    <2> QED
      BY <1>1, <1>3, <2>1
  <1> QED
    BY <1>1, <1>2, <1>3, <1>4

LEMMA CursorKept ==
  ASSUME EvmTypeOK, SentInv, CursorInv, [FulNext]_neoxVars
  PROVE  CursorInv'
  <1> USE DEF CursorInv
  <1>0. [EvmNext]_evmVars /\ FulTypeOK
    BY FulIsKernel DEF SentInv
  <1>1. ASSUME missed \subseteq missed'
        PROVE  /\ \A id \in EvmIds : Passed(id) => Passed(id)'
               /\ \A id \in EvmIds' : id \in EvmIds \/ id > Len(evmRequests)
               /\ EvmIds' \subseteq Nat /\ EvmIds \subseteq Nat
               /\ Len(evmRequests) \in Nat /\ Len(evmRequests') \in Nat
               /\ Len(evmRequests) <= Len(evmRequests')
    BY <1>0, <1>1, PassedStays
  <1>2. CASE UNCHANGED fulVars
    <2>1. missed' = missed /\ UNCHANGED <<fulPc, cursor, headBlock, endBlock, atBlock, saved>>
      BY <1>2 DEF fulVars, chunkVars
    <2> QED
      BY <1>0, <1>1, <2>1 DEF FulTypeOK
  <1>3. CASE FulStep \/ WaitFails \/ CrashAndRestart
    <2>1. CASE Cycle
      <3>1. missed \subseteq missed'
        BY <2>1 DEF Cycle
      <3>2. From(Len(evmRequests)) \in Nat /\ From(Len(evmRequests)) <= Len(evmRequests)
        BY <1>0, <1>1, <2>1, <3>1, FulfillerConstants DEF Cycle, From, FulTypeOK
      <3>3. \A id \in EvmIds : id < From(Len(evmRequests)) => id \in missed' \/ id <= cursor
        BY <1>0, <1>1, <2>1, <3>1, <3>2, FulfillerConstants DEF Cycle, From, FulTypeOK, EvmIds, EvmTypeOK
      <3> QED
        BY <1>0, <1>1, <2>1, <3>1, <3>2, <3>3, FulfillerConstants
           DEF Cycle, Chunk, FulTypeOK, Passed
    <2>2. CASE GetLogs
      <3>1. missed \subseteq missed'
        BY <2>2 DEF GetLogs
      <3> QED
        BY <1>0, <1>1, <2>2, <3>1 DEF GetLogs, GiveUp, Rest, FulTypeOK, chunkVars
    <2>3. CASE ReadRequest
      <3>1. missed \subseteq missed' /\ UNCHANGED <<cursor, headBlock, endBlock, saved>>
        BY <2>3 DEF ReadRequest
      <3>2. /\ fulPc = "walk" /\ atBlock <= endBlock
            /\ \/ fulPc' = "work" /\ atBlock' = atBlock
               \/ /\ fulPc' = "walk" /\ atBlock' = atBlock + 1
                  /\ atBlock \in EvmIds => Passed(atBlock) \/ atBlock \in missed'
        BY <2>3 DEF ReadRequest, Unanswered, Passed
      <3>3. \A id \in EvmIds : id < atBlock' => Passed(id)'
        BY <1>0, <1>1, <3>1, <3>2 DEF FulTypeOK, Passed
      <3> QED
        BY <1>0, <1>1, <3>1, <3>2, <3>3 DEF FulTypeOK
    <2>4. CASE Work
      <3>1. missed \subseteq missed'
        BY <2>4 DEF Work
      <3> QED
        BY <1>0, <1>1, <2>4, <3>1 DEF Work, GiveUp, Rest, FulTypeOK, chunkVars
    <2>5. CASE EndChunk
      <3>1. /\ missed \subseteq missed' /\ fulPc = "walk" /\ atBlock > endBlock
            /\ cursor' = endBlock /\ saved' \in {saved, endBlock}
        BY <2>5 DEF EndChunk, Rest
      <3>2. \A id \in EvmIds : id <= endBlock => Passed(id)
        BY <1>0, <1>1, <3>1 DEF FulTypeOK
      <3>3. CASE endBlock < headBlock
        BY <1>0, <1>1, <2>5, <3>1, <3>2, <3>3, FulfillerConstants
           DEF EndChunk, Chunk, FulTypeOK
      <3>4. CASE ~(endBlock < headBlock)
        BY <1>0, <1>1, <2>5, <3>1, <3>2, <3>4 DEF EndChunk, Rest, FulTypeOK
      <3> QED
        BY <3>3, <3>4
    <2>6. CASE CrashAndRestart
      <3>1. missed \subseteq missed'
        BY <2>6 DEF CrashAndRestart
      <3> QED
        BY <1>0, <1>1, <2>6, <3>1 DEF CrashAndRestart, Reload, Rest, FulTypeOK
    <2>7. CASE WaitFails
      <3>1. missed \subseteq missed'
        BY <2>7 DEF WaitFails
      <3> QED
        BY <1>0, <1>1, <2>7, <3>1 DEF WaitFails, GiveUp, Rest, FulTypeOK
    <2> QED
      BY <1>3, <2>1, <2>2, <2>3, <2>4, <2>5, <2>6, <2>7 DEF FulStep
  <1>4. ASSUME NEW tx \in mempool, Mine(tx) PROVE CursorInv'
    <2>1. missed \subseteq missed' /\ UNCHANGED saved /\ tx.id \in EvmIds
      BY <1>4 DEF Mine, SentInv
    <2>2. CASE Sendable(tx.id) /\ AwaitedBy(tx)
      <3>1. Fulfill(Fulfiller, tx.id, tx.answer.success, tx.answer.result, Fulfiller)
        BY <1>4, <2>2 DEF Mine, fulfillRequest
      <3>2. atBlock = tx.id /\ fulPc = "wait"
        BY <2>2 DEF AwaitedBy
      <3>3. Passed(tx.id)'
        BY <2>1, <3>1, <3>2, SettleWritesEvm DEF Passed, EvmPending
      <3>4. /\ fulPc' = "walk" /\ atBlock' = atBlock + 1
            /\ UNCHANGED <<cursor, headBlock, endBlock>>
        BY <1>4, <2>2 DEF Mine
      <3>5. \A id \in EvmIds : id < atBlock' => Passed(id)'
        BY <1>0, <1>1, <2>1, <3>2, <3>3, <3>4 DEF FulTypeOK
      <3> QED
        BY <1>0, <1>1, <2>1, <3>2, <3>4, <3>5 DEF FulTypeOK
    <2>3. CASE ~Sendable(tx.id) /\ AwaitedBy(tx)
      BY <1>0, <1>1, <1>4, <2>1, <2>3 DEF Mine, GiveUp, Rest, FulTypeOK
    <2>4. CASE ~AwaitedBy(tx)
      <3>1. UNCHANGED <<fulPc, cursor, headBlock, endBlock, atBlock>>
        BY <1>4, <2>4 DEF Mine, chunkVars
      <3> QED
        BY <1>0, <1>1, <2>1, <3>1 DEF FulTypeOK
    <2> QED
      BY <2>2, <2>3, <2>4
  <1> QED
    BY <1>2, <1>3, <1>4 DEF FulNext, neoxVars

(***************************************************************************)
(* Below the fulfiller's cursor, in memory or in the file, every request   *)
(* is answered, expired, or one that could not be read, whatever calls     *)
(* fail and whenever the process crashes.                                  *)
(***************************************************************************)
THEOREM CursorSound == FulSafety => []CursorCovers
  <1>1. EvmInit /\ FulInit => SentInv /\ CursorInv
    <2> SUFFICES ASSUME EvmInit, FulInit PROVE SentInv /\ CursorInv
      OBVIOUS
    <2>1. EvmIds = {} /\ Len(evmRequests) = 0
      BY DEF EvmInit, EvmIds
    <2> QED
      BY <2>1 DEF FulInit, SentInv, FulTypeOK, CursorInv
  <1>2. EvmInv => EvmTypeOK
    BY DEF EvmInv
  <1>3. EvmInv /\ SentInv /\ [FulNext]_neoxVars => EvmInv' /\ SentInv'
    BY <1>2, FulIsKernel, EvmStep, SentKept
  <1>4. EvmInv /\ SentInv /\ CursorInv /\ [FulNext]_neoxVars => CursorInv'
    BY <1>2, CursorKept
  <1>5. CursorInv => CursorCovers
    BY DEF CursorInv, CursorCovers, Passed
  <1> QED
    BY <1>1, <1>3, <1>4, <1>5, EvmInitially, PTL DEF FulSafety

-----------------------------------------------------------------------------
(***************************************************************************)
(* The books of the game.  The kernel's outcomes appear in what is due, so *)
(* they are inductive only together with the fact that the request of a    *)
(* settled bet is settled, and therefore never changes again.              *)
(***************************************************************************)
DiceInv ==
  /\ DiceTypeOK
  /\ DiceBooksExact
  /\ \A id \in BetIds : bets[id].status # "pending" => ~EvmPending(id)

LEMMA PayoutCovers ==
  ASSUME NEW stake \in Nat
  PROVE  Payout(stake) \in Nat /\ Payout(stake) >= stake
  BY DEF Payout

LEMMA DiceLedger ==
  ASSUME DiceTypeOK
  PROVE  /\ IsFiniteSet(BetIds) /\ EvmTypeOK
         /\ \A id \in BetIds : /\ bets[id] \in Bet /\ bets[id].stake \in Nat
                               /\ bets[id].player \in Players
                               /\ PendingPayout[id] \in Nat
  <1>1. EvmTypeOK /\ BetIds \subseteq EvmIds /\ bets \in [BetIds -> Bet]
    BY DEF DiceTypeOK
  <1>2. IsFiniteSet(BetIds)
    BY <1>1, EvmLedger, FS_Subset
  <1>3. ASSUME NEW id \in BetIds
        PROVE  /\ bets[id] \in Bet /\ bets[id].stake \in Nat
               /\ bets[id].player \in Players
               /\ PendingPayout[id] \in Nat
    <2>1. bets[id] \in Bet
      BY <1>1
    <2>2. bets[id].stake \in Nat /\ bets[id].player \in Players
      BY <2>1 DEF Bet
    <2> QED
      BY <2>1, <2>2, PayoutCovers DEF PendingPayout
  <1> QED
    BY <1>1, <1>2, <1>3

LEMMA DueLedger ==
  ASSUME DiceTypeOK, NEW p
  PROVE  \A id \in BetIds : Due(p)[id] \in Nat
  BY DiceLedger, PayoutCovers DEF Due, DueOn

(***************************************************************************)
(* A step that leaves the game's ledgers alone.                            *)
(***************************************************************************)
LEMMA BooksSame ==
  ASSUME DiceInv, [EvmNext]_evmVars, UNCHANGED <<bets, diceReserved>>
  PROVE  /\ \A id \in BetIds' : bets'[id].status # "pending" => ~EvmPending(id)'
         /\ diceReserved' = Total(BetIds, PendingPayout)'
         /\ \A p \in Players : Total(BetIds, Due(p))' = Total(BetIds, Due(p))
         /\ BetIds' = BetIds /\ BetIds \subseteq EvmIds'
  <1>1. EvmTypeOK /\ BetIds \subseteq EvmIds
    BY DEF DiceInv, DiceTypeOK
  <1>2. /\ EvmIds \subseteq EvmIds'
        /\ \A id \in EvmIds : ~EvmPending(id) => evmRequests'[id] = evmRequests[id]
    BY <1>1, RequestsStay
  <1>3. BetIds' = BetIds /\ PendingPayout' = PendingPayout
    BY DEF BetIds, PendingPayout
  <1>4. \A id \in BetIds : bets[id].status # "pending" => ~EvmPending(id)
    BY DEF DiceInv
  <1>5. ASSUME NEW p \in Players PROVE Total(BetIds, Due(p))' = Total(BetIds, Due(p))
    <2>1. \A id \in BetIds : Due(p)'[id] = Due(p)[id]
      BY <1>1, <1>2, <1>3, <1>4 DEF Due, DueOn, EvmPending
    <2> QED
      BY <1>3, <2>1, TotalSame
  <1>6. \A id \in BetIds' : bets'[id].status # "pending" => ~EvmPending(id)'
    BY <1>1, <1>2, <1>3, <1>4 DEF EvmPending
  <1>7. diceReserved' = Total(BetIds, PendingPayout)'
    BY <1>3 DEF DiceInv, DiceBooksExact
  <1> QED
    BY <1>1, <1>2, <1>3, <1>5, <1>6, <1>7

(***************************************************************************)
(* A payment is sent or owed, once.                                        *)
(***************************************************************************)
LEMMA PayMoves ==
  ASSUME DiceTypeOK, totalPending = Total(Players, owed),
         NEW to \in Players, NEW amount \in Nat, Pay(to, amount)
  PROVE  /\ diceBalance' \in Nat /\ totalPending' \in Nat
         /\ owed' \in [Players -> Nat] /\ paid' \in [Players -> Nat]
         /\ totalPending' = Total(Players, owed')
         /\ paid'[to] + owed'[to] = paid[to] + owed[to] + amount
         /\ \A p \in Players \ {to} : paid'[p] + owed'[p] = paid[p] + owed[p]
  <1>1. /\ owed \in [Players -> Nat] /\ paid \in [Players -> Nat]
        /\ diceBalance \in Nat /\ totalPending \in Nat
    BY DEF DiceTypeOK
  <1>2. CASE UNCHANGED <<diceBalance, owed, totalPending, paid>> /\ amount = 0
    BY <1>1, <1>2
  <1>3. CASE /\ diceBalance >= amount /\ diceBalance' = diceBalance - amount
             /\ paid' = [paid EXCEPT ![to] = @ + amount]
             /\ UNCHANGED <<owed, totalPending>>
    BY <1>1, <1>3
  <1>4. CASE /\ owed' = [owed EXCEPT ![to] = @ + amount]
             /\ totalPending' = totalPending + amount
             /\ UNCHANGED <<diceBalance, paid>>
    <2>1. /\ owed' \in [Players -> Nat] /\ owed'[to] = owed[to] + amount
          /\ \A p \in Players \ {to} : owed'[p] = owed[p]
      BY <1>1, <1>4
    <2>2. IsFiniteSet(Players) /\ owed'[to] \in Nat /\ \A p \in Players : owed[p] \in Nat
      BY <1>1, <2>1, DiceConstants
    <2>3. /\ Total(Players, owed) \in Nat /\ Total(Players, owed') \in Nat
          /\ Total(Players, owed') + owed[to] = Total(Players, owed) + owed'[to]
      BY <2>1, <2>2, TotalChange
    <2>4. totalPending' = Total(Players, owed')
      BY <1>1, <1>4, <2>1, <2>2, <2>3
    <2> QED
      BY <1>1, <1>4, <2>1, <2>4
  <1> QED
    BY <1>2, <1>3, <1>4 DEF Pay

(***************************************************************************)
(* Settling a bet pays what the outcome stored in the kernel makes due.    *)
(***************************************************************************)
LEMMA SettleBooks ==
  ASSUME DiceInv, [EvmNext]_evmVars, EvmTypeOK', NEW id \in EvmIds, NEW success \in BOOLEAN,
         NEW result, Settle(id, success, result),
         evmRequests'[id].status = (IF success THEN "succeeded" ELSE "failed"),
         success => evmRequests'[id].result = result
  PROVE  DiceInv'
  <1> DEFINE b == bets[id]
             status == BetStatus(b, success, result)
             prize == Prize(b, status)
             payout == Payout(b.stake)
  <1>0. DiceTypeOK /\ DiceBooksExact /\ EvmTypeOK /\ BetIds \subseteq EvmIds
        /\ bets \in [BetIds -> Bet]
    BY DEF DiceInv, DiceTypeOK
  <1>1. /\ id \in BetIds /\ b.status = "pending" /\ diceReserved >= payout
        /\ diceReserved' = diceReserved - payout
        /\ bets' = [bets EXCEPT ![id].status = status]
        /\ Pay(b.player, prize)
        /\ UNCHANGED <<diceOwner, stakeLimits>>
    BY DEF Settle, BetOpen
  <1>2. b \in Bet /\ b.stake \in Nat /\ b.player \in Players /\ payout \in Nat
    BY <1>0, <1>1, DiceLedger, PayoutCovers
  <1>3. status \in {"won", "lost", "refunded"}
    BY DEF BetStatus
  <1>4. prize \in Nat
    BY <1>2 DEF Prize
  <1>5. /\ BetIds' = BetIds /\ bets' \in [BetIds -> Bet]
        /\ bets'[id].status = status /\ bets'[id].player = b.player
        /\ bets'[id].stake = b.stake /\ bets'[id].face = b.face
        /\ \A j \in BetIds \ {id} : bets'[j] = bets[j]
    BY <1>0, <1>1, <1>2, <1>3 DEF BetIds, Bet
  <1>6. /\ EvmIds \subseteq EvmIds'
        /\ \A j \in EvmIds : ~EvmPending(j) => evmRequests'[j] = evmRequests[j]
    BY <1>0, RequestsStay
  <1>7. ~EvmPending(id)'
    BY DEF EvmPending
  <1>8. \A j \in BetIds : bets[j].status # "pending" => ~EvmPending(j)
    BY DEF DiceInv
  <1>9. \A j \in BetIds' : bets'[j].status # "pending" => ~EvmPending(j)'
    BY <1>0, <1>5, <1>6, <1>7, <1>8 DEF EvmPending
  <1>10. diceReserved' = Total(BetIds, PendingPayout)'
    <2>1. \A j \in BetIds \ {id} : PendingPayout'[j] = PendingPayout[j]
      BY <1>5 DEF PendingPayout
    <2>2. PendingPayout'[id] = 0 /\ PendingPayout[id] = payout
      BY <1>1, <1>3, <1>5 DEF PendingPayout
    <2>3. IsFiniteSet(BetIds) /\ \A j \in BetIds : PendingPayout[j] \in Nat
      BY <1>0, DiceLedger
    <2> HIDE DEF payout
    <2>4. /\ Total(BetIds, PendingPayout) \in Nat /\ Total(BetIds, PendingPayout') \in Nat
          /\ Total(BetIds, PendingPayout') + PendingPayout[id]
               = Total(BetIds, PendingPayout) + PendingPayout'[id]
      BY <1>1, <2>1, <2>2, <2>3, TotalChange
    <2>5. diceReserved = Total(BetIds, PendingPayout)
      BY <1>0 DEF DiceBooksExact
    <2>6. Total(BetIds, PendingPayout)' = Total(BetIds, PendingPayout')
      BY <1>5
    <2> QED
      BY <1>1, <1>2, <2>2, <2>4, <2>5, <2>6
  <1>11. /\ totalPending = Total(Players, owed)
         /\ \A p \in Players : paid[p] + owed[p] = Total(BetIds, Due(p))
    BY <1>0 DEF DiceBooksExact
  <1>12. /\ diceBalance' \in Nat /\ totalPending' \in Nat
         /\ owed' \in [Players -> Nat] /\ paid' \in [Players -> Nat]
         /\ totalPending' = Total(Players, owed')
         /\ paid'[b.player] + owed'[b.player] = paid[b.player] + owed[b.player] + prize
         /\ \A p \in Players \ {b.player} : paid'[p] + owed'[p] = paid[p] + owed[p]
    BY <1>0, <1>1, <1>2, <1>4, <1>11, PayMoves
  <1>13. DueOn(id)' = prize
    <2>1. CASE ~success
      BY <1>5, <2>1 DEF DueOn, Prize, BetStatus
    <2>2. CASE success
      BY <1>5, <2>2 DEF DueOn, Prize, BetStatus
    <2> QED
      BY <2>1, <2>2
  <1>14. ASSUME NEW p \in Players
         PROVE  paid'[p] + owed'[p] = Total(BetIds, Due(p))'
    <2>1. \A j \in BetIds \ {id} : Due(p)'[j] = Due(p)[j]
      BY <1>0, <1>5, <1>6, <1>8 DEF Due, DueOn, EvmPending
    <2>2. Due(p)[id] = 0 /\ Due(p)'[id] = IF p = b.player THEN prize ELSE 0
      BY <1>1, <1>3, <1>5, <1>7, <1>13 DEF Due
    <2>3. IsFiniteSet(BetIds) /\ \A j \in BetIds : Due(p)[j] \in Nat
      BY <1>0, DiceLedger, DueLedger
    <2>4. Total(BetIds, Due(p))' = Total(BetIds, Due(p)')
      BY <1>5
    <2>5. paid[p] + owed[p] = Total(BetIds, Due(p))
      BY <1>11
    <2> HIDE DEF prize, b
    <2> DEFINE f == Due(p)
               g == Due(p)'
    <2> HIDE DEF f, g
    <2>6. /\ \A j \in BetIds \ {id} : g[j] = f[j]
          /\ f[id] = 0 /\ g[id] = (IF p = b.player THEN prize ELSE 0)
          /\ \A j \in BetIds : f[j] \in Nat
      BY <2>1, <2>2, <2>3 DEF f, g
    <2>7. g[id] \in Nat
      BY <1>4, <2>6
    <2>8. /\ Total(BetIds, f) \in Nat /\ Total(BetIds, g) \in Nat
          /\ Total(BetIds, g) + f[id] = Total(BetIds, f) + g[id]
      BY <1>1, <2>3, <2>6, <2>7, TotalChange
    <2>9. Total(BetIds, g) = Total(BetIds, f) + (IF p = b.player THEN prize ELSE 0)
      BY <1>4, <2>6, <2>8
    <2>10. paid'[p] + owed'[p] = paid[p] + owed[p] + (IF p = b.player THEN prize ELSE 0)
      BY <1>0, <1>12, <1>4 DEF DiceTypeOK
    <2> QED
      BY <2>4, <2>5, <2>9, <2>10 DEF f, g
  <1>15. DiceTypeOK'
    BY <1>0, <1>1, <1>2, <1>5, <1>6, <1>12 DEF DiceTypeOK
  <1>16. DiceBooksExact'
    BY <1>10, <1>12, <1>14 DEF DiceBooksExact
  <1> QED
    BY <1>9, <1>15, <1>16 DEF DiceInv

(***************************************************************************)
(* A bet adds its payout to the reservation and makes nothing due.         *)
(***************************************************************************)
LEMMA PlaceBooks ==
  ASSUME DiceInv, EvmTypeOK', NEW player \in Players, NEW face \in Faces, NEW stake \in Stakes,
         placeBet(player, face, stake)
  PROVE  DiceInv'
  <1> DEFINE n == Len(evmRequests) + 1
             payout == Payout(stake)
             bet == [player |-> player, stake |-> stake, face |-> face, status |-> "pending"]
  <1>0. DiceTypeOK /\ DiceBooksExact /\ EvmTypeOK /\ BetIds \subseteq EvmIds
        /\ bets \in [BetIds -> Bet]
    BY DEF DiceInv, DiceTypeOK
  <1>1. stake \in Nat /\ payout \in Nat /\ bet \in Bet
    BY DiceConstants, PayoutCovers DEF Bet
  <1>2. /\ EvmIds' = EvmIds \cup {n} /\ n \notin EvmIds
        /\ \A id \in EvmIds : evmRequests'[id] = evmRequests[id]
        /\ evmRequests'[n].status = "pending"
    <2>1. \E app : SubmitEvm(Dice, 0, app, RandomModule)
      BY DEF placeBet, requestFromCallback
    <2> QED
      BY <1>0, <2>1, SubmitAppends
  <1>3. /\ bets' = [i \in BetIds \cup {n} |-> IF i = n THEN bet ELSE bets[i]]
        /\ diceBalance' = diceBalance + stake /\ diceReserved' = diceReserved + payout
        /\ UNCHANGED <<diceOwner, stakeLimits, owed, totalPending, paid>>
    BY DEF placeBet
  <1>4. n \notin BetIds
    BY <1>0, <1>2
  <1>5. bet.status = "pending" /\ bet.stake = stake
    OBVIOUS
  <1> HIDE DEF n, bet
  <1>6. /\ BetIds' = BetIds \cup {n} /\ bets' \in [BetIds \cup {n} -> Bet]
        /\ bets'[n] = bet /\ \A j \in BetIds : bets'[j] = bets[j]
    BY <1>0, <1>1, <1>3, <1>4 DEF BetIds
  <1>7. IsFiniteSet(BetIds) /\ \A j \in BetIds : PendingPayout[j] \in Nat
    BY <1>0, DiceLedger
  <1>8. diceReserved' = Total(BetIds, PendingPayout)'
    <2> DEFINE f == PendingPayout
               g == PendingPayout'
    <2>1. (\A j \in BetIds : g[j] = f[j]) /\ g[n] = payout
      BY <1>5, <1>6 DEF PendingPayout
    <2>2. diceReserved = Total(BetIds, f) /\ Total(BetIds, PendingPayout)' = Total(BetIds \cup {n}, g)
      BY <1>0, <1>6 DEF DiceBooksExact
    <2> HIDE DEF f, g, payout
    <2>3. \A j \in BetIds : f[j] \in Nat
      BY <1>7 DEF f
    <2>4. Total(BetIds \cup {n}, g) = Total(BetIds, f) + payout
      BY <1>1, <1>4, <1>7, <2>1, <2>3, TotalGrowBy
    <2> QED
      BY <1>3, <2>2, <2>4
  <1>9. ASSUME NEW p \in Players PROVE paid'[p] + owed'[p] = Total(BetIds, Due(p))'
    <2> DEFINE f == Due(p)
               g == Due(p)'
    <2>1. (\A j \in BetIds : g[j] = f[j]) /\ g[n] = 0
      BY <1>0, <1>2, <1>5, <1>6 DEF Due, DueOn, EvmPending
    <2>2. /\ paid[p] + owed[p] = Total(BetIds, f)
          /\ Total(BetIds, Due(p))' = Total(BetIds \cup {n}, g)
          /\ \A j \in BetIds : f[j] \in Nat
      BY <1>0, <1>6, DueLedger DEF DiceBooksExact
    <2> HIDE DEF f, g
    <2>3. Total(BetIds \cup {n}, g) = Total(BetIds, f) + 0
      BY <1>4, <1>7, <2>1, <2>2, TotalGrowBy
    <2>4. Total(BetIds, f) \in Nat
      BY <1>7, <2>2, TotalType
    <2> QED
      BY <1>3, <2>2, <2>3, <2>4
  <1>10. \A j \in BetIds' : bets'[j].status # "pending" => ~EvmPending(j)'
    BY <1>0, <1>2, <1>5, <1>6 DEF DiceInv, EvmPending
  <1>11. DiceTypeOK'
    <2>1. /\ BetIds' \subseteq EvmIds' /\ bets' \in [BetIds' -> Bet]
          /\ diceBalance' \in Nat /\ diceReserved' \in Nat
      BY <1>0, <1>1, <1>2, <1>3, <1>6 DEF DiceTypeOK
    <2> QED
      BY <1>0, <1>3, <2>1 DEF DiceTypeOK
  <1>12. DiceBooksExact'
    BY <1>0, <1>3, <1>8, <1>9 DEF DiceBooksExact
  <1> QED
    BY <1>10, <1>11, <1>12 DEF DiceInv

(***************************************************************************)
(* A claim turns what is owed into what was sent.                          *)
(***************************************************************************)
LEMMA ClaimBooks ==
  ASSUME DiceInv, EvmTypeOK', NEW player \in Players, claim(player)
  PROVE  DiceInv'
  <1>0. DiceTypeOK /\ DiceBooksExact /\ UNCHANGED <<evmVars, bets, diceReserved>>
    BY DEF DiceInv, claim
  <1>1. /\ owed \in [Players -> Nat] /\ paid \in [Players -> Nat]
        /\ diceBalance \in Nat /\ totalPending \in Nat
        /\ bets \in [BetIds -> Bet]
    BY <1>0 DEF DiceTypeOK
  <1>2. /\ diceBalance >= owed[player]
        /\ owed' = [owed EXCEPT ![player] = 0]
        /\ totalPending' = totalPending - owed[player]
        /\ diceBalance' = diceBalance - owed[player]
        /\ paid' = [paid EXCEPT ![player] = @ + owed[player]]
        /\ UNCHANGED <<diceOwner, stakeLimits>>
    BY DEF claim
  <1>3. /\ owed' \in [Players -> Nat] /\ paid' \in [Players -> Nat]
        /\ owed'[player] = 0 /\ \A p \in Players \ {player} : owed'[p] = owed[p]
        /\ \A p \in Players : paid'[p] + owed'[p] = paid[p] + owed[p]
    BY <1>1, <1>2
  <1>4. IsFiniteSet(Players) /\ \A p \in Players : owed[p] \in Nat
    BY <1>1, DiceConstants
  <1>5. /\ Total(Players, owed) \in Nat /\ Total(Players, owed') \in Nat
        /\ Total(Players, owed) >= owed[player]
        /\ Total(Players, owed') + owed[player] = Total(Players, owed) + owed'[player]
    BY <1>3, <1>4, TotalChange
  <1>6. totalPending' = Total(Players, owed') /\ totalPending' \in Nat
    BY <1>0, <1>1, <1>2, <1>3, <1>4, <1>5 DEF DiceBooksExact
  <1>7. /\ \A id \in BetIds' : bets'[id].status # "pending" => ~EvmPending(id)'
        /\ diceReserved' = Total(BetIds, PendingPayout)'
        /\ \A p \in Players : Total(BetIds, Due(p))' = Total(BetIds, Due(p))
        /\ BetIds' = BetIds /\ BetIds \subseteq EvmIds'
    BY <1>0, BooksSame
  <1>8. DiceBooksExact'
    BY <1>0, <1>3, <1>6, <1>7 DEF DiceBooksExact
  <1>9. DiceTypeOK'
    BY <1>0, <1>1, <1>2, <1>3, <1>6, <1>7 DEF DiceTypeOK
  <1> QED
    BY <1>7, <1>8, <1>9 DEF DiceInv

(***************************************************************************)
(* Steps that change neither bets nor what players have or are owed.       *)
(***************************************************************************)
LEMMA HouseBooks ==
  ASSUME DiceInv, EvmTypeOK', [EvmNext]_evmVars,
         UNCHANGED <<bets, diceReserved, owed, totalPending, paid>>,
         diceOwner' \in EvmAccounts, stakeLimits' \in StakeLimits, diceBalance' \in Nat
  PROVE  DiceInv'
  <1>0. DiceTypeOK /\ DiceBooksExact
    BY DEF DiceInv
  <1>1. /\ \A id \in BetIds' : bets'[id].status # "pending" => ~EvmPending(id)'
        /\ diceReserved' = Total(BetIds, PendingPayout)'
        /\ \A p \in Players : Total(BetIds, Due(p))' = Total(BetIds, Due(p))
        /\ BetIds' = BetIds /\ BetIds \subseteq EvmIds'
    BY BooksSame
  <1>2. DiceBooksExact'
    BY <1>0, <1>1 DEF DiceBooksExact
  <1>3. DiceTypeOK'
    BY <1>0, <1>1 DEF DiceTypeOK
  <1> QED
    BY <1>1, <1>2, <1>3 DEF DiceInv

(***************************************************************************)
(* An answer, with the callback that settles the bet or fails.             *)
(***************************************************************************)
LEMMA AnswerBooks ==
  ASSUME DiceInv, EvmTypeOK', [EvmNext]_evmVars, NEW s, NEW id \in EvmIds,
         NEW success \in BOOLEAN, NEW result, NEW signer,
         fulfillRequest(s, id, success, result, signer)
  PROVE  DiceInv'
  <1>0. EvmTypeOK /\ DiceTypeOK
    BY DEF DiceInv, DiceTypeOK
  <1>1. Fulfill(s, id, success, result, signer) /\ Callback(id, success, result)
    BY DEF fulfillRequest
  <1>2. CASE Settle(id, success, result)
    <2>1. /\ evmRequests'[id].status = (IF success THEN "succeeded" ELSE "failed")
          /\ evmRequests'[id].result = result
      BY <1>0, <1>1, SettleWritesEvm
    <2> QED
      BY <1>2, <2>1, SettleBooks
  <1>3. CASE UNCHANGED diceVars
    BY <1>0, <1>3, HouseBooks DEF diceVars, DiceTypeOK
  <1> QED
    BY <1>1, <1>2, <1>3 DEF Callback

LEMMA DiceStep ==
  ASSUME DiceInv, EvmTypeOK', SentInv, [FulNext]_neoxVars
  PROVE  DiceInv'
  <1>0. [EvmNext]_evmVars /\ DiceTypeOK /\ EvmTypeOK
    BY FulIsKernel DEF DiceInv, DiceTypeOK
  <1>1. CASE UNCHANGED diceVars
    BY <1>0, <1>1, HouseBooks DEF diceVars, DiceTypeOK
  <1>2. CASE Answer
    <2>1. PICK s \in EvmAccounts, id \in EvmIds, signer \in EvmAccounts :
             \/ \E result \in EvmResults : fulfillRequest(s, id, TRUE, result, signer)
             \/ fulfillRequest(s, id, FALSE, EvmNone, signer)
      BY <1>2 DEF Answer
    <2>2. PICK success \in BOOLEAN : \E result : fulfillRequest(s, id, success, result, signer)
      BY <2>1, Zenon
    <2> QED
      BY <1>0, <2>2, AnswerBooks
  <1>3. CASE Play
    <2>1. CASE \E player \in Players, face \in Faces, stake \in Stakes :
                  placeBet(player, face, stake)
      BY <2>1, PlaceBooks
    <2>2. CASE \E player \in Players : claim(player)
      BY <2>2, ClaimBooks
    <2>3. CASE \E id \in BetIds : settleFromKernel(id)
      <3>1. PICK id \in BetIds : settleFromKernel(id)
        BY <2>3
      <3>2. /\ id \in EvmIds /\ evmRequests[id] \in EvmRequest /\ ~EvmPending(id)
            /\ UNCHANGED evmRequests
        BY <1>0, <3>1, EvmLedger DEF settleFromKernel, evmVars
      <3>3. evmRequests[id].status \in {"succeeded", "failed"}
        BY <3>2 DEF EvmRequest, EvmPending
      <3>4. CASE evmRequests[id].status = "succeeded"
        <4>1. Settle(id, TRUE, evmRequests[id].result)
          BY <3>1, <3>4 DEF settleFromKernel
        <4> QED
          BY <1>0, <3>2, <3>4, <4>1, SettleBooks
      <3>5. CASE evmRequests[id].status = "failed"
        <4>1. Settle(id, FALSE, evmRequests[id].result)
          BY <3>1, <3>5 DEF settleFromKernel
        <4> QED
          BY <1>0, <3>2, <3>5, <4>1, SettleBooks
      <3> QED
        BY <3>3, <3>4, <3>5
    <2>4. CASE \E amount \in Funds : fundBankroll(amount)
      BY <1>0, <2>4, HouseBooks, DiceConstants DEF fundBankroll, DiceTypeOK
    <2>5. CASE \E s \in EvmAccounts, amount \in 1 .. availableBankroll : withdrawBankroll(s, amount)
      BY <1>0, <2>5, HouseBooks DEF withdrawBankroll, availableBankroll, DiceTypeOK
    <2>6. CASE \E s \in EvmAccounts : \/ \E limits \in StakeLimits : setStakeLimits(s, limits)
                                      \/ \E next \in EvmAccounts : SetDiceOwner(s, next)
      BY <1>0, <2>6, HouseBooks DEF setStakeLimits, SetDiceOwner, DiceTypeOK
    <2> QED
      BY <1>3, <2>1, <2>2, <2>3, <2>4, <2>5, <2>6 DEF Play
  <1>4. ASSUME NEW tx \in mempool, Mine(tx) PROVE DiceInv'
    <2>1. tx.id \in EvmIds /\ tx.answer \in Answers
      BY DEF SentInv, FulTypeOK
    <2>2. \/ tx.answer.success = TRUE /\ tx.answer.result \in EvmResults
          \/ tx.answer.success = FALSE /\ tx.answer.result = EvmNone
      BY <2>1, AnswerParts
    <2>3. tx.answer.success \in BOOLEAN
      BY <2>2, Zenon
    <2>4. \/ fulfillRequest(Fulfiller, tx.id, tx.answer.success, tx.answer.result, Fulfiller)
          \/ UNCHANGED diceVars
      BY <1>4 DEF Mine
    <2> QED
      BY <1>0, <1>1, <2>1, <2>3, <2>4, AnswerBooks
  <1> QED
    BY <1>1, <1>2, <1>3, <1>4 DEF FulNext, NeoXNext, neoxVars

LEMMA DiceInitially == EvmInit /\ DiceInit => DiceInv
  <1> SUFFICES ASSUME EvmInit, DiceInit PROVE DiceInv
    OBVIOUS
  <1>1. EvmTypeOK /\ EvmDeployer \in EvmAccounts
    BY EvmInitially, EvmConstants DEF EvmInv
  <1>2. bets = <<>> /\ BetIds = {}
    BY DEF DiceInit, BetIds
  <1>3. bets \in [BetIds -> Bet]
    BY <1>2
  <1>4. DiceTypeOK
    BY <1>1, <1>2, <1>3, DiceConstants DEF DiceTypeOK, DiceInit
  <1>5. \A f : Total(BetIds, f) = 0
    BY <1>2, TotalEmpty
  <1>6. Total(Players, owed) = 0
    <2>1. \A p \in Players : owed[p] = 0
      BY DEF DiceInit
    <2>2. Units(Players, owed) = {}
      BY <2>1 DEF Units
    <2> QED
      BY <2>2, FS_EmptySet DEF Total
  <1>7. DiceBooksExact
    BY <1>5, <1>6 DEF DiceBooksExact, DiceInit
  <1> QED
    BY <1>2, <1>4, <1>7 DEF DiceInv

(***************************************************************************)
(* A player was sent, or is owed, exactly what the outcomes that the       *)
(* kernel stored make due on the settled bets, and the reservation is that *)
(* of the open bets, whichever way a bet is settled, whatever payments     *)
(* fail, and whatever the fulfiller does.                                  *)
(***************************************************************************)
THEOREM DiceBooks == FulSafety => []DiceBooksExact
  <1>1. FulInit => SentInv
    BY DEF FulInit, SentInv, FulTypeOK
  <1>2. EvmInv => EvmTypeOK
    BY DEF EvmInv
  <1>3. EvmInv /\ SentInv /\ [FulNext]_neoxVars => EvmInv' /\ SentInv' /\ EvmTypeOK'
    BY FulIsKernel, EvmStep, SentKept DEF EvmInv
  <1>4. EvmInv /\ SentInv /\ DiceInv /\ [FulNext]_neoxVars => DiceInv'
    BY <1>3, DiceStep
  <1>5. DiceInv => DiceBooksExact
    BY DEF DiceInv
  <1> QED
    BY <1>1, <1>3, <1>4, <1>5, EvmInitially, DiceInitially, PTL DEF FulSafety

-----------------------------------------------------------------------------
(***************************************************************************)
(* While no payment is refused nothing is ever owed: a prize is at most    *)
(* the reservation that is released with it, and the balance covers every  *)
(* reservation, so that it is always sent.                                 *)
(***************************************************************************)
CoverInv == ~MayRefuse => totalPending = 0 /\ diceBalance >= diceReserved

LEMMA SettleCovered ==
  ASSUME DiceTypeOK, CoverInv, NEW id, NEW success, NEW result, Settle(id, success, result),
         UNCHANGED scene
  PROVE  CoverInv'
  <1> DEFINE b == bets[id]
             prize == Prize(b, BetStatus(b, success, result))
             payout == Payout(b.stake)
  <1>1. id \in BetIds /\ diceReserved >= payout /\ diceReserved' = diceReserved - payout
        /\ Pay(b.player, prize)
    BY DEF Settle, BetOpen
  <1>2. b.stake \in Nat
    BY <1>1, DiceLedger
  <1>3. payout \in Nat /\ payout >= b.stake
    BY <1>2, PayoutCovers
  <1>4. prize \in Nat /\ prize <= payout
    BY <1>2, <1>3 DEF Prize
  <1>5. diceBalance \in Nat /\ diceReserved \in Nat /\ totalPending \in Nat
    BY DEF DiceTypeOK
  <1>6. MayRefuse' = MayRefuse
    BY DEF MayRefuse
  <1> HIDE DEF prize, payout, b
  <1>7. \/ prize = 0 /\ UNCHANGED <<diceBalance, totalPending>>
        \/ diceBalance' = diceBalance - prize /\ UNCHANGED totalPending
        \/ MayRefuse \/ diceBalance < prize
    BY <1>1 DEF Pay
  <1> QED
    BY <1>1, <1>3, <1>4, <1>5, <1>6, <1>7 DEF CoverInv

LEMMA CoverStep ==
  ASSUME DiceInv, CoverInv, SentInv, [FulNext]_neoxVars
  PROVE  CoverInv'
  <1>0. DiceTypeOK /\ EvmTypeOK
    BY DEF DiceInv, DiceTypeOK
  <1>1. UNCHANGED scene
    BY <1>0, FulIsKernel, RequestsStay
  <1>2. /\ diceBalance \in Nat /\ diceReserved \in Nat /\ totalPending \in Nat
        /\ owed \in [Players -> Nat]
    BY <1>0 DEF DiceTypeOK
  <1>3. MayRefuse' = MayRefuse
    BY <1>1 DEF MayRefuse
  <1>4. CASE UNCHANGED <<diceBalance, diceReserved, totalPending>>
    BY <1>3, <1>4 DEF CoverInv
  <1>5. ASSUME NEW s, NEW id, NEW success, NEW result, NEW signer,
               fulfillRequest(s, id, success, result, signer)
        PROVE  CoverInv'
    BY <1>0, <1>1, <1>4, <1>5, SettleCovered DEF fulfillRequest, Callback, diceVars
  <1>6. CASE Answer
    BY <1>5, <1>6 DEF Answer
  <1>7. CASE Play
    <2>1. ASSUME NEW player, NEW face, NEW stake \in Stakes, placeBet(player, face, stake)
          PROVE  CoverInv'
      <3>1. stake \in Nat /\ Payout(stake) \in Nat
        BY DiceConstants, PayoutCovers
      <3>2. /\ diceBalance + stake >= diceReserved + Payout(stake)
            /\ diceBalance' = diceBalance + stake
            /\ diceReserved' = diceReserved + Payout(stake)
            /\ UNCHANGED totalPending
        BY <2>1 DEF placeBet, CanCover
      <3> QED
        BY <1>2, <1>3, <3>1, <3>2 DEF CoverInv
    <2>2. ASSUME NEW player \in Players, claim(player) PROVE CoverInv'
      <3>1. owed[player] > 0 /\ owed[player] \in Nat
        BY <1>2, <2>2 DEF claim
      <3>2. IsFiniteSet(Players) /\ \A p \in Players : owed[p] \in Nat
        BY <1>2, DiceConstants
      <3>3. Total(Players, owed) >= owed[player]
        BY <3>2, TotalChange
      <3>4. totalPending > 0
        BY <1>2, <3>1, <3>3 DEF DiceInv, DiceBooksExact
      <3> QED
        BY <1>3, <3>4 DEF CoverInv
    <2>3. ASSUME NEW id, settleFromKernel(id) PROVE CoverInv'
      BY <1>0, <1>1, <2>3, SettleCovered DEF settleFromKernel
    <2>4. ASSUME NEW amount \in Funds, fundBankroll(amount) PROVE CoverInv'
      BY <1>2, <1>3, <2>4, DiceConstants DEF fundBankroll, CoverInv
    <2>5. ASSUME NEW s, NEW amount \in 1 .. availableBankroll, withdrawBankroll(s, amount)
          PROVE  CoverInv'
      BY <1>2, <1>3, <2>5 DEF withdrawBankroll, availableBankroll, CoverInv
    <2>6. ASSUME NEW s, NEW x, setStakeLimits(s, x) \/ SetDiceOwner(s, x) PROVE CoverInv'
      BY <1>4, <2>6 DEF setStakeLimits, SetDiceOwner
    <2> QED
      BY <1>7, <2>1, <2>2, <2>3, <2>4, <2>5, <2>6 DEF Play
  <1>8. ASSUME NEW tx, Mine(tx) PROVE CoverInv'
    BY <1>4, <1>5, <1>8 DEF Mine, diceVars
  <1>9. CASE UNCHANGED diceVars
    BY <1>4, <1>9 DEF diceVars
  <1> QED
    BY <1>6, <1>7, <1>8, <1>9 DEF FulNext, NeoXNext, neoxVars

(***************************************************************************)
(* While no payment is refused, the game's balance covers what every open  *)
(* bet may win and what is owed.                                           *)
(***************************************************************************)
THEOREM DiceCovered == FulSafety => []CoveredUnlessRefused
  <1>1. FulInit => SentInv
    BY DEF FulInit, SentInv, FulTypeOK
  <1>2. DiceInit => CoverInv
    BY DEF DiceInit, CoverInv
  <1>3. EvmInv /\ SentInv /\ [FulNext]_neoxVars => EvmInv' /\ SentInv' /\ EvmTypeOK'
    BY FulIsKernel, EvmStep, SentKept DEF EvmInv
  <1>4. EvmInv /\ SentInv /\ DiceInv /\ [FulNext]_neoxVars => DiceInv'
    BY <1>3, DiceStep
  <1>5. SentInv /\ DiceInv /\ CoverInv /\ [FulNext]_neoxVars => CoverInv'
    BY CoverStep
  <1>6. DiceInv /\ CoverInv => CoveredUnlessRefused
    BY DEF DiceInv, DiceTypeOK, CoverInv, CoveredUnlessRefused, Covered
  <1> QED
    BY <1>1, <1>2, <1>3, <1>4, <1>5, <1>6, EvmInitially, DiceInitially, PTL DEF FulSafety
=============================================================================
