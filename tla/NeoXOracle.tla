----------------------------- MODULE NeoXOracle -----------------------------
(***************************************************************************)
(* MorpheusOracleEVM, the kernel on Neo X.  A call is one transaction and  *)
(* one action; a revert is a guard.  Every function that sends value does  *)
(* so after its last write, so what the receiver calls back is a           *)
(* transaction of its own, and a receiver that refuses makes the whole     *)
(* call revert.  The kernel has no receive function: it is paid by         *)
(* requests alone.                                                         *)
(***************************************************************************)
EXTENDS UnitSums, Sequences

CONSTANTS
  EvmAccounts,      \* addresses, without the zero address
  EvmNone,          \* the zero address; also the empty app id
  EvmDeployer,
  EvmApps, EvmModules,
  FirstCallback,    \* the callback contract each app is registered with at first
  EvmResults,       \* result bytes, read as the die they hash to
  DefaultRequestTTL,
  EvmFees, EvmTtls, \* what the owner sets
  Values,           \* msg.value of a request
  Scenes,           \* bound: which groups of operations a behaviour has
  MaxEvmRequests,   \* bound: requests
  MaxEvmTime        \* bound: the clock

ASSUME EvmConstants ==
  /\ EvmDeployer \in EvmAccounts
  /\ EvmNone \notin EvmAccounts \cup EvmApps
  /\ FirstCallback \in [EvmApps -> EvmAccounts \cup {EvmNone}]
  /\ \A a, b \in EvmApps : FirstCallback[a] = FirstCallback[b] => a = b \/ FirstCallback[a] = EvmNone
  /\ EvmFees \subseteq Nat /\ EvmTtls \subseteq Nat \ {0} /\ DefaultRequestTTL \in Nat /\ Values \subseteq Nat
  /\ EvmNone \notin [admin : EvmAccounts, callback : EvmAccounts \cup {EvmNone}]

VARIABLES
  scene,
  evmOwner, evmUpdater, oracleVerifier,
  requestFee, requestTTL,
  accruedFees, reservedFees,
  evmBalance,       \* address(this).balance
  evmRequests,      \* _requests; the ids are the indexes
  activeModules,       \* _modules: the active ones
  miniApps,          \* _apps
  appByCallback,    \* _appByCallback
  moduleGrants,        \* _grant
  evmNow            \* block.timestamp

evmRoles    == <<evmOwner, evmUpdater, oracleVerifier>>
evmTerms    == <<requestFee, requestTTL>>
evmPools    == <<accruedFees, reservedFees, evmBalance>>
evmRegistry == <<activeModules, miniApps, appByCallback, moduleGrants>>
evmVars     == <<scene, evmRoles, evmTerms, evmPools, evmRequests, evmRegistry, evmNow>>

Callbacks == EvmAccounts \cup {EvmNone}

EvmRequest ==
  [app : EvmApps, module : EvmModules, callback : Callbacks,
   status : {"pending", "succeeded", "failed"}, result : EvmResults \cup {EvmNone},
   createdAt : Nat, feePaid : Nat, feePayer : EvmAccounts]

EvmIds == DOMAIN evmRequests

EvmPending(id) == evmRequests[id].status = "pending"

\* A deployment, with the first apps registered and granted every module unless
\* the behaviour is about the registry itself.
EvmInit ==
  /\ scene \in Scenes
  /\ evmOwner = EvmDeployer /\ evmUpdater = EvmDeployer /\ oracleVerifier = EvmDeployer
  /\ requestFee = 0 /\ requestTTL = DefaultRequestTTL
  /\ accruedFees = 0 /\ reservedFees = 0 /\ evmBalance = 0
  /\ evmRequests = <<>>
  /\ evmNow = 0
  /\ LET first == IF "registry" \in scene THEN {} ELSE EvmApps
     IN  /\ activeModules = IF first = {} THEN {} ELSE EvmModules
         /\ miniApps = [a \in EvmApps |-> IF a \in first
                          THEN [admin |-> EvmDeployer, callback |-> FirstCallback[a]]
                          ELSE EvmNone]
         /\ appByCallback = [c \in EvmAccounts |->
                               IF \E a \in first : FirstCallback[a] = c
                               THEN CHOOSE a \in first : FirstCallback[a] = c ELSE EvmNone]
         /\ moduleGrants = first \X EvmModules

-----------------------------------------------------------------------------
(* Roles, terms and the registry *)

\* setOwner, setUpdater, setOracleVerifier
SetRoles(s, next) ==
  /\ s = evmOwner
  /\ \/ evmOwner' = next /\ UNCHANGED <<evmUpdater, oracleVerifier>>
     \/ evmUpdater' = next /\ UNCHANGED <<evmOwner, oracleVerifier>>
     \/ oracleVerifier' = next /\ UNCHANGED <<evmOwner, evmUpdater>>
  /\ UNCHANGED <<scene, evmTerms, evmPools, evmRequests, evmRegistry, evmNow>>

setRequestFee(s, amount) ==
  /\ s = evmOwner
  /\ requestFee' = amount
  /\ UNCHANGED <<scene, evmRoles, requestTTL, evmPools, evmRequests, evmRegistry, evmNow>>

setRequestTTL(s, ttl) ==
  /\ s = evmOwner
  /\ requestTTL' = ttl
  /\ UNCHANGED <<scene, evmRoles, requestFee, evmPools, evmRequests, evmRegistry, evmNow>>

\* registerModule is setModuleActive with TRUE.
setModuleActive(s, module, active) ==
  /\ s = evmOwner
  /\ activeModules' = IF active THEN activeModules \cup {module} ELSE activeModules \ {module}
  /\ UNCHANGED <<scene, evmRoles, evmTerms, evmPools, evmRequests, miniApps, appByCallback,
                 moduleGrants, evmNow>>

registerMiniApp(s, app, admin, callback) ==
  /\ s \in {evmOwner, admin}
  /\ miniApps[app] = EvmNone
  /\ callback # EvmNone => appByCallback[callback] = EvmNone
  /\ appByCallback' = [c \in EvmAccounts |-> IF c = callback THEN app ELSE appByCallback[c]]
  /\ miniApps' = [miniApps EXCEPT ![app] = [admin |-> admin, callback |-> callback]]
  /\ UNCHANGED <<scene, evmRoles, evmTerms, evmPools, evmRequests, activeModules, moduleGrants, evmNow>>

grantModule(s, app, module) ==
  /\ miniApps[app] # EvmNone
  /\ s \in {evmOwner, miniApps[app].admin}
  /\ module \in activeModules
  /\ moduleGrants' = moduleGrants \cup {<<app, module>>}
  /\ UNCHANGED <<scene, evmRoles, evmTerms, evmPools, evmRequests, activeModules, miniApps,
                 appByCallback, evmNow>>

-----------------------------------------------------------------------------
(* Requests *)

\* Mutant of Overage: an overpayment stays in the kernel.
OverageKept(value) == 0

\* What is sent back of msg.value.
Overage(value) == value - requestFee

\* _submit
SubmitEvm(s, value, app, module) ==
  /\ Len(evmRequests) < MaxEvmRequests
  /\ miniApps[app] # EvmNone /\ module \in activeModules /\ <<app, module>> \in moduleGrants
  /\ value >= requestFee
  /\ evmRequests' = Append(evmRequests,
       [app |-> app, module |-> module, callback |-> miniApps[app].callback,
        status |-> "pending", result |-> EvmNone, createdAt |-> evmNow,
        feePaid |-> requestFee, feePayer |-> s])
  /\ accruedFees' = accruedFees + requestFee
  /\ reservedFees' = reservedFees + requestFee
  /\ evmBalance' = evmBalance + value - Overage(value)
  /\ UNCHANGED <<scene, evmRoles, evmTerms, evmRegistry, evmNow>>

submitRequest(s, value, app, module) == SubmitEvm(s, value, app, module)

\* The caller is the callback contract; the module is named by the operation.
requestFromCallback(s, value, module) ==
  LET app == appByCallback[s]
  IN  /\ app # EvmNone /\ miniApps[app].callback = s
      /\ SubmitEvm(s, value, app, module)

\* _releaseReserved
Released(amount) == IF reservedFees > amount THEN reservedFees - amount ELSE 0

\* fulfillRequest up to the callback; signer is what ecrecover returns for the
\* digest of this very answer.
Fulfill(s, id, success, result, signer) ==
  /\ s \in {evmUpdater, evmOwner}
  /\ EvmPending(id)
  /\ signer = oracleVerifier
  /\ evmRequests' = [evmRequests EXCEPT
       ![id].status = IF success THEN "succeeded" ELSE "failed", ![id].result = result]
  /\ reservedFees' = Released(evmRequests[id].feePaid)
  /\ UNCHANGED <<scene, evmRoles, evmTerms, accruedFees, evmBalance, evmRegistry, evmNow>>

\* Mutant of Refund: the fee in force, not the one that was paid.
RefundAtCurrentFee(id) == requestFee

\* The refund, clamped to what is held.
Refund(id) ==
  IF evmRequests[id].feePaid > accruedFees THEN accruedFees ELSE evmRequests[id].feePaid

expireStaleRequest(s, id) ==
  /\ s \in {evmOwner, evmUpdater}
  /\ EvmPending(id)
  /\ evmNow > evmRequests[id].createdAt + requestTTL
  /\ evmRequests' = [evmRequests EXCEPT ![id].status = "failed"]
  /\ reservedFees' = Released(evmRequests[id].feePaid)
  /\ accruedFees' = accruedFees - Refund(id)
  /\ evmBalance' = evmBalance - Refund(id)
  /\ UNCHANGED <<scene, evmRoles, evmTerms, evmRegistry, evmNow>>

withdrawableFees == IF accruedFees > reservedFees THEN accruedFees - reservedFees ELSE 0

withdrawFees(s, amount) ==
  /\ s = evmOwner
  /\ amount <= withdrawableFees
  /\ accruedFees' = accruedFees - amount
  /\ evmBalance' = evmBalance - amount
  /\ UNCHANGED <<scene, evmRoles, evmTerms, reservedFees, evmRequests, evmRegistry, evmNow>>

EvmTime ==
  /\ evmNow < MaxEvmTime
  /\ evmNow' = evmNow + 1
  /\ UNCHANGED <<scene, evmRoles, evmTerms, evmPools, evmRequests, evmRegistry>>

\* Everything that neither asks nor answers.
EvmAdmin ==
  \/ \E s \in EvmAccounts :
        \/ "roles" \in scene /\ \E next \in EvmAccounts : SetRoles(s, next)
        \/ "registry" \in scene /\
             \/ \E module \in EvmModules, active \in BOOLEAN : setModuleActive(s, module, active)
             \/ \E app \in EvmApps, admin \in EvmAccounts, callback \in Callbacks :
                   registerMiniApp(s, app, admin, callback)
             \/ \E app \in EvmApps, module \in EvmModules : grantModule(s, app, module)
        \/ "fees" \in scene /\
             \/ \E amount \in EvmFees : setRequestFee(s, amount)
             \/ \E ttl \in EvmTtls : setRequestTTL(s, ttl)
             \/ \E amount \in 1 .. accruedFees : withdrawFees(s, amount)
  \/ EvmTime

EvmExpire == \E s \in EvmAccounts, id \in EvmIds : expireStaleRequest(s, id)

EvmSubmit ==
  \E s \in EvmAccounts, value \in Values, module \in EvmModules :
     \/ \E app \in EvmApps : submitRequest(s, value, app, module)
     \/ requestFromCallback(s, value, module)

EvmFulfill ==
  \E s \in EvmAccounts, id \in EvmIds, signer \in EvmAccounts :
     \/ \E result \in EvmResults : Fulfill(s, id, TRUE, result, signer)
     \/ Fulfill(s, id, FALSE, EvmNone, signer)

\* The kernel on its own; whoever it calls back is absent.
EvmNext == EvmAdmin \/ EvmExpire \/ EvmSubmit \/ EvmFulfill

EvmSpec == EvmInit /\ [][EvmNext]_evmVars

-----------------------------------------------------------------------------
\* Type correctness of the kernel: no pool goes below zero.
EvmTypeOK ==
  /\ scene \in Scenes
  /\ evmOwner \in EvmAccounts /\ evmUpdater \in EvmAccounts /\ oracleVerifier \in EvmAccounts
  /\ requestFee \in Nat /\ requestTTL \in Nat
  /\ accruedFees \in Nat /\ reservedFees \in Nat /\ evmBalance \in Nat
  /\ evmRequests \in Seq(EvmRequest)
  /\ activeModules \subseteq EvmModules
  /\ miniApps \in [EvmApps -> [admin : EvmAccounts, callback : Callbacks] \cup {EvmNone}]
  /\ appByCallback \in [EvmAccounts -> EvmApps \cup {EvmNone}]
  /\ moduleGrants \subseteq EvmApps \X EvmModules
  /\ evmNow \in Nat

EvmPendingFee ==
  [id \in EvmIds |-> IF EvmPending(id) THEN evmRequests[id].feePaid ELSE 0]

\* The fee pools of MorpheusOracleEVM: what is reserved is what the pending
\* requests paid, the accrued pool covers it although both updates clamp, and
\* the contract holds exactly the accrued fees: no payment is stranded and
\* every refund is whole, whatever the owner re-prices or withdraws meanwhile.
EvmFeesExact ==
  /\ reservedFees = Total(EvmIds, EvmPendingFee)
  /\ accruedFees >= reservedFees
  /\ evmBalance = accruedFees
=============================================================================
