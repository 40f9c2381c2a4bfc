---------------------------- MODULE OracleKernel ----------------------------
(***************************************************************************)
(* The MorpheusOracle kernel contract: prepaid fee credit, requests, their *)
(* fulfillment by the updater, their expiry, and the admin's fee account.  *)
(*                                                                         *)
(* Fees live in two pools.  credit[x] is what x prepaid; accrued is what   *)
(* requests have paid, and reserved is the part of accrued that still      *)
(* backs pending requests, which an expiry gives back to the payer.        *)
(*                                                                         *)
(* Every method is one atomic action, with one exception.                  *)
(* WithdrawAccruedFees calls GAS.Transfer between reading the accrued pool *)
(* and writing it, and the transfer calls a recipient contract back        *)
(* (onNEP17Payment).  For the recipients in Reentrant the withdrawal is    *)
(* two steps, and in between only calls made by that recipient happen.     *)
(***************************************************************************)
EXTENDS MiniAppRegistry, UnitSums

CONSTANTS
  Self,         \* the script hash of the kernel contract
  Operations,   \* operation names; legacy requests pass a request type here
  Outcomes,     \* [success, result, error] triples the runtime may sign
  ExpiryError,  \* the error text an expiry records
  Fees,         \* request fees the admin may set
  DefaultFee,   \* DEFAULT_REQUEST_FEE
  Ttls,         \* request TTLs the admin may set
  DefaultTtl,   \* DEFAULT_REQUEST_TTL
  Deposits,     \* amounts deposited in one transfer
  Depositors,   \* accounts that are credited by deposits
  Recipients,   \* accounts fees are withdrawn to
  Reentrant,    \* recipient contracts that call back into the kernel
  MaxGas,       \* bound on the GAS the contract holds
  MaxRequests,  \* bound on the number of requests
  MaxTime       \* bound on the block time

ASSUME AccountsFinite == IsFiniteSet(Accounts)

\* The result and error texts a request can hold.
Texts == {"", ExpiryError} \cup UNION {{o.result, o.error} : o \in Outcomes}

Outcome == [success : BOOLEAN, result : Texts, error : Texts]

ASSUME OutcomesTyped ==
  /\ Outcomes \subseteq Outcome
  /\ ExpiryError # ""
  /\ \A o \in Outcomes : o.error # ExpiryError

ASSUME AmountsTyped ==
  /\ Fees \subseteq Nat \ {0} /\ DefaultFee \in Nat \ {0}
  /\ Ttls \subseteq Nat \ {0} /\ DefaultTtl \in Nat \ {0}
  /\ Deposits \subseteq Nat \ {0}
  /\ MaxGas \in Nat /\ MaxRequests \in Nat /\ MaxTime \in Nat

ASSUME PartiesTyped ==
  /\ Self \in Accounts
  /\ Depositors \subseteq Accounts /\ Recipients \subseteq Accounts
  /\ Reentrant \subseteq Accounts \ {Self}

VARIABLES
  now,             \* Runtime.Time
  requestFee,      \* PREFIX_REQUEST_FEE
  requestTtl,      \* PREFIX_REQUEST_TTL
  credit,          \* PREFIX_REQUEST_CREDIT
  accrued,         \* PREFIX_ACCRUED_REQUEST_FEES
  reserved,        \* PREFIX_RESERVED_REQUEST_FEES
  spent,           \* PREFIX_SPONSOR_SPENT, per app and requester
  requests,        \* PREFIX_REQUEST, request id -> record
  inbox,           \* PREFIX_APP_INBOX
  appRequests,     \* PREFIX_APP_REQUESTS; PREFIX_TOTAL_REQUESTS, like the
                   \* id counter, is the number of requests
  totalFulfilled,  \* PREFIX_TOTAL_FULFILLED
  appFulfilled,    \* PREFIX_APP_FULFILLED
  gas,             \* external: the contract's GAS balance
  signed,          \* external: the fulfillments the runtime has signed
  withdrawals      \* withdrawals waiting for their GAS.Transfer to return

configVars  == <<requestFee, requestTtl>>
feeVars     == <<credit, accrued, reserved, spent, gas>>
requestVars == <<requests, inbox, appRequests, totalFulfilled, appFulfilled>>
kernelVars  == <<now, configVars, feeVars, requestVars, signed, withdrawals>>
vars        == <<registryVars, kernelVars>>

KernelRequest ==
  [app : Apps, module : Modules, operation : Operations, requester : Accounts,
   sponsor : Accounts, callback : Accounts \cup {Null},
   status : {"Pending", "Succeeded", "Failed"}, createdAt : Nat,
   success : BOOLEAN, result : Texts, error : Texts, feePaid : Nat]

Digest ==
  [id : Nat, app : Apps, module : Modules, operation : Operations,
   success : BOOLEAN, result : Texts, error : Texts]

InboxItem ==
  [id : Nat, app : Apps, module : Modules, operation : Operations,
   requester : Accounts, success : BOOLEAN, result : Texts, error : Texts]

\* What a withdrawal holds in its local variables while its transfer runs.
Withdrawal ==
  {w \in [to : Accounts, accrued : Nat, reserved : Nat, amount : Nat] :
     w.amount + w.reserved <= w.accrued}

TypeOK ==
  /\ RegistryTypeOK
  /\ now \in Nat
  /\ requestFee \in Nat \ {0} /\ requestTtl \in Nat \ {0}
  /\ credit \in [Accounts -> Nat]
  /\ accrued \in Nat /\ reserved \in Nat
  /\ spent \in [Apps \X Accounts -> Nat]
  /\ requests \in Seq(KernelRequest)
  /\ inbox \subseteq InboxItem
  /\ appRequests \in [Apps -> Nat]
  /\ totalFulfilled \in Nat /\ appFulfilled \in [Apps -> Nat]
  /\ gas \in Nat
  /\ signed \subseteq [key : Keys, digest : Digest]
  /\ withdrawals \in Seq(Withdrawal)

Init ==
  /\ RegistryInit
  /\ now = 1
  /\ requestFee = DefaultFee /\ requestTtl = DefaultTtl
  /\ credit = [x \in Accounts |-> 0]
  /\ accrued = 0 /\ reserved = 0
  /\ spent = [k \in Apps \X Accounts |-> 0]
  /\ requests = <<>> /\ inbox = {}
  /\ appRequests = [a \in Apps |-> 0]
  /\ totalFulfilled = 0 /\ appFulfilled = [a \in Apps |-> 0]
  /\ gas = 0 /\ signed = {} /\ withdrawals = <<>>

\* A transaction with signers ws may call the kernel; while a withdrawal
\* waits for its transfer only the recipient contract can.
MayCall(ws) ==
  withdrawals # <<>> => ws = {withdrawals[Len(withdrawals)].to}
-----------------------------------------------------------------------------
(***************************************************************************)
(* Configuration.                                                          *)
(***************************************************************************)
SetRequestFee(ws, amount) ==
  /\ ValidateAdmin(ws)
  /\ requestFee' = amount
  /\ UNCHANGED <<registryVars, now, requestTtl, feeVars, requestVars, signed, withdrawals>>

SetRequestTTL(ws, ttl) ==
  /\ ValidateAdmin(ws)
  /\ requestTtl' = ttl
  /\ UNCHANGED <<registryVars, now, requestFee, feeVars, requestVars, signed, withdrawals>>
-----------------------------------------------------------------------------
(***************************************************************************)
(* Deposits and submission.                                                *)
(***************************************************************************)

\* GAS sent with a 20-byte account as data credits that account, if it is the
\* sender, witnesses the transfer or is a registered miniapp account.
BeneficiaryAuthorized(ws, from, beneficiary) ==
  \/ beneficiary = from
  \/ beneficiary \in ws
  \/ beneficiary # Zero /\ beneficiary \in accountRegistered

OnNEP17Payment(ws, from, beneficiary, amount) ==
  /\ from \in ws
  /\ beneficiary # Zero
  /\ BeneficiaryAuthorized(ws, from, beneficiary)
  /\ gas + amount <= MaxGas
  /\ gas' = gas + amount
  /\ credit' = [credit EXCEPT ![beneficiary] = @ + amount]
  /\ UNCHANGED <<registryVars, now, configVars, accrued, reserved, spent,
                 requestVars, signed, withdrawals>>

\* Mutant of IsRequesterSponsorable: what was spent already is not counted.
SponsorableIgnoringSpend(a, requester, fee) ==
  \/ a \notin gated
  \/ <<a, requester>> \in allowed
  \/ cap[<<a, requester>>] > 0 /\ fee <= cap[<<a, requester>>]

IsRequesterSponsorable(a, requester, fee) ==
  \/ a \notin gated
  \/ <<a, requester>> \in allowed
  \/ cap[<<a, requester>>] > 0 /\ spent[<<a, requester>>] + fee <= cap[<<a, requester>>]

ResolveFeePayer(a, requester) ==
  LET sponsor == apps[a].feePayer
  IN  IF /\ sponsor # requester
         /\ credit[sponsor] >= requestFee
         /\ IsRequesterSponsorable(a, requester, requestFee)
      THEN sponsor ELSE requester

\* The fee moves from the payer's credit to the accrued pool and is reserved.
ConsumeRequestFeeFromPayer(payer) ==
  /\ credit[payer] >= requestFee
  /\ credit' = [credit EXCEPT ![payer] = @ - requestFee]
  /\ accrued' = accrued + requestFee
  /\ reserved' = reserved + requestFee

RecordSponsoredSpend(a, requester, payer) ==
  spent' = IF payer # requester
           THEN [spent EXCEPT ![<<a, requester>>] = @ + requestFee]
           ELSE spent

SubmitMiniAppRequestInternal(requester, a, m, op) ==
  LET payer == ResolveFeePayer(a, requester)
  IN  /\ RequireActiveMiniApp(a)
      /\ RequireActiveModule(m)
      /\ <<a, m>> \in granted
      /\ Len(requests) < MaxRequests
      /\ ConsumeRequestFeeFromPayer(payer)
      /\ RecordSponsoredSpend(a, requester, payer)
      /\ requests' =
           Append(requests,
             [app |-> a, module |-> m, operation |-> op, requester |-> requester,
              sponsor |-> payer, callback |-> apps[a].callback,
              status |-> "Pending", createdAt |-> now,
              success |-> FALSE, result |-> "", error |-> "", feePaid |-> requestFee])
      /\ appRequests' = [appRequests EXCEPT ![a] = @ + 1]
      /\ UNCHANGED <<registryVars, now, configVars, gas, inbox,
                     totalFulfilled, appFulfilled, signed, withdrawals>>

SubmitMiniAppRequest(ws, requester, a, m, op) ==
  /\ requester \in ws
  /\ SubmitMiniAppRequestInternal(requester, a, m, op)

\* Called by the app's own integration contract, for a requester it names.
SubmitMiniAppRequestFromIntegration(caller, requester, a, m, op) ==
  /\ RequireActiveMiniApp(a)
  /\ caller = apps[a].callback
  /\ SubmitMiniAppRequestInternal(requester, a, m, op)

QueueSystemRequest(ws, requester, a, m, op) ==
  /\ ValidateUpdater(ws)
  /\ SubmitMiniAppRequestInternal(requester, a, m, op)

\* The module a legacy request type stands for.
ResolveLegacyModuleId(op) ==
  CASE op \in {"oracle", "privacy_oracle"} -> "oracle.fetch"
    [] op = "compute" -> "compute.run"
    [] op \in {"datafeed", "pricefeed", "feed"} -> "feed.read"
    [] op \in {"neodid_bind", "neodid_action_ticket", "neodid_recovery_ticket"}
         -> "identity.verify"
    [] op \in {"automation_register", "automation_cancel", "automation_execute"}
         -> "automation.run"
    [] OTHER -> op

\* The three legacy entry points find the app by its callback contract.
LegacyTarget(c, op) ==
  /\ FindMiniAppByCallback(c) # Null
  /\ ResolveLegacyModuleId(op) \in Modules

RequestFromCallback(caller, requester, op, c) ==
  /\ LegacyTarget(c, op)
  /\ SubmitMiniAppRequestFromIntegration(caller, requester,
       FindMiniAppByCallback(c), ResolveLegacyModuleId(op), op)

QueueAutomationRequest(ws, requester, op, c) ==
  /\ LegacyTarget(c, op)
  /\ QueueSystemRequest(ws, requester,
       FindMiniAppByCallback(c), ResolveLegacyModuleId(op), op)

Request(ws, requester, op, c) ==
  /\ LegacyTarget(c, op)
  /\ SubmitMiniAppRequest(ws, requester,
       FindMiniAppByCallback(c), ResolveLegacyModuleId(op), op)
-----------------------------------------------------------------------------
(***************************************************************************)
(* Fulfillment and expiry.                                                 *)
(***************************************************************************)
Pending(id) == requests[id].status = "Pending"

\* Mutant of RequirePending: a settled request may be settled again.
RequireAnyStatus(id) == TRUE

RequirePending(id) == Pending(id)

\* Mutant of ReleaseReservedFee: the reservation is never released.
KeepReservedFee(amount) == UNCHANGED reserved

ReleaseReservedFee(amount) ==
  reserved' = IF reserved > amount THEN reserved - amount ELSE 0

\* The statement a fulfillment signature covers.  The contract hash and the
\* network that it also covers are the same for every request of this model.
ComputeFulfillmentDigest(id, o) ==
  [id |-> id, app |-> requests[id].app, module |-> requests[id].module,
   operation |-> requests[id].operation,
   success |-> o.success, result |-> o.result, error |-> o.error]

InboxEntry(id, o) ==
  LET r == requests[id]
  IN  [id |-> id, app |-> r.app, module |-> r.module, operation |-> r.operation,
       requester |-> r.requester, success |-> o.success, result |-> o.result,
       error |-> o.error]

\* Mutant of StoreInbox: failures are not written to the inbox.
StoreInboxOnSuccess(id, o) ==
  inbox' = IF o.success THEN inbox \cup {InboxEntry(id, o)} ELSE inbox

\* The inbox entry of a request's app is written, over any earlier one.
StoreInbox(id, o) ==
  inbox' = {i \in inbox : ~(i.id = id /\ i.app = requests[id].app)} \cup {InboxEntry(id, o)}

\* External: the confidential runtime answers a pending request.
SignFulfillment(key, id, o) ==
  /\ Pending(id)
  /\ signed' = signed \cup {[key |-> key, digest |-> ComputeFulfillmentDigest(id, o)]}
  /\ UNCHANGED <<registryVars, now, configVars, feeVars, requestVars, withdrawals>>

SettledAs(r, o) ==
  [r EXCEPT !.status = IF o.success THEN "Succeeded" ELSE "Failed",
            !.success = o.success, !.result = o.result, !.error = o.error]

\* Mutant of SignatureValid: the signed statement is not compared.
SignerValid(id, o, sig) == verifier # Null /\ sig.key = verifier

SignatureValid(id, o, sig) ==
  /\ verifier # Null
  /\ sig.key = verifier /\ sig.digest = ComputeFulfillmentDigest(id, o)

\* The callback contract is called last, after every write of the kernel, and
\* its failure is caught, so what it does is what it could do in a transaction
\* of its own (OracleCallbackConsumer is composed in CallbackDelivery).
FulfillRequest(ws, id, o, sig) ==
  /\ ValidateUpdater(ws)
  /\ RequirePending(id)
  /\ SignatureValid(id, o, sig)
  /\ requests' = [requests EXCEPT ![id] = SettledAs(@, o)]
  /\ ReleaseReservedFee(requests[id].feePaid)
  /\ totalFulfilled' = totalFulfilled + 1
  /\ appFulfilled' = [appFulfilled EXCEPT ![requests[id].app] = @ + 1]
  /\ StoreInbox(id, o)
  /\ UNCHANGED <<registryVars, now, configVars, credit, accrued, spent, gas,
                 appRequests, signed, withdrawals>>

Expired(r) ==
  [r EXCEPT !.status = "Failed", !.success = FALSE, !.error = ExpiryError]

\* Mutant of Refund: the fee in force now is paid back.
RefundAtCurrentFee(id) == IF accrued < requestFee THEN accrued ELSE requestFee

\* The refund is clamped to what the accrued pool still holds.
Refund(id) ==
  IF accrued < requests[id].feePaid THEN accrued ELSE requests[id].feePaid

\* Mutant of ReleaseSponsoredSpend: an expiry does not give the cap back.
KeepSponsoredSpend(id) == UNCHANGED spent

ReleaseSponsoredSpend(id) ==
  LET r == requests[id]
      k == <<r.app, r.requester>>
  IN  spent' = IF r.sponsor = r.requester THEN spent
               ELSE [spent EXCEPT ![k] = IF @ < r.feePaid THEN 0 ELSE @ - r.feePaid]

ExpireStaleRequest(ws, id) ==
  /\ ValidateAdmin(ws) \/ ValidateUpdater(ws)
  /\ RequirePending(id)
  /\ now - requests[id].createdAt > requestTtl
  /\ requests' = [requests EXCEPT ![id] = Expired(@)]
  /\ credit' = [credit EXCEPT ![requests[id].sponsor] = @ + Refund(id)]
  /\ accrued' = accrued - Refund(id)
  /\ ReleaseSponsoredSpend(id)
  /\ ReleaseReservedFee(requests[id].feePaid)
  /\ StoreInbox(id, [success |-> FALSE, result |-> "", error |-> ExpiryError])
  /\ UNCHANGED <<registryVars, now, configVars, gas, appRequests, totalFulfilled,
                 appFulfilled, signed, withdrawals>>
-----------------------------------------------------------------------------
(***************************************************************************)
(* Withdrawal of earned fees.                                              *)
(***************************************************************************)
\* Mutant of Withdrawable: the reserved part may be taken out too.
WithdrawableIgnoringReserve(amount) == amount > 0 /\ accrued >= amount

Withdrawable(amount) == amount > 0 /\ accrued - reserved >= amount

\* GAS.Transfer takes the GAS out; sent to the kernel itself it comes back as
\* a payment and becomes the kernel's own credit.
PayOut(to, amount) ==
  /\ gas >= amount
  /\ gas' = IF to = Self THEN gas ELSE gas - amount
  /\ credit' = IF to = Self THEN [credit EXCEPT ![Self] = @ + amount] ELSE credit

\* Mutant of WithdrawAccruedFees: the pool is not written after the transfer.
WithdrawUnbooked(ws, to, amount) ==
  /\ ValidateAdmin(ws)
  /\ to \notin Reentrant
  /\ Withdrawable(amount)
  /\ PayOut(to, amount)
  /\ UNCHANGED <<registryVars, now, configVars, accrued, reserved, spent, requestVars,
                 signed, withdrawals>>

WithdrawAccruedFees(ws, to, amount) ==
  /\ ValidateAdmin(ws)
  /\ to \notin Reentrant
  /\ Withdrawable(amount)
  /\ PayOut(to, amount)
  /\ accrued' = accrued - amount
  /\ UNCHANGED <<registryVars, now, configVars, reserved, spent, requestVars,
                 signed, withdrawals>>

\* A recipient contract that calls back: the pools were read before the transfer.
BeginWithdrawal(ws, to, amount) ==
  /\ ValidateAdmin(ws)
  /\ to \in Reentrant
  /\ Withdrawable(amount)
  /\ PayOut(to, amount)
  /\ withdrawals' = Append(withdrawals, [to |-> to, accrued |-> accrued,
                                          reserved |-> reserved, amount |-> amount])
  /\ UNCHANGED <<registryVars, now, configVars, accrued, reserved, spent,
                 requestVars, signed>>

\* The transfer returns and the pool is written from the value read before it.
EndWithdrawal ==
  LET w == withdrawals[Len(withdrawals)]
  IN  /\ withdrawals # <<>>
      /\ accrued' = w.accrued - w.amount
      /\ withdrawals' = SubSeq(withdrawals, 1, Len(withdrawals) - 1)
      /\ UNCHANGED <<registryVars, now, configVars, credit, reserved, spent, gas,
                     requestVars, signed>>

\* Block time moves between transactions.
Tick ==
  /\ withdrawals = <<>>
  /\ now < MaxTime
  /\ now' = now + 1
  /\ UNCHANGED <<registryVars, configVars, feeVars, requestVars, signed, withdrawals>>
-----------------------------------------------------------------------------
Submit(ws) ==
  \/ \E u \in Requesters, a \in Apps, m \in Modules, op \in Operations :
        \/ SubmitMiniAppRequest(ws, u, a, m, op)
        \/ QueueSystemRequest(ws, u, a, m, op)
        \/ \E c \in ws : SubmitMiniAppRequestFromIntegration(c, u, a, m, op)
  \/ \E u \in Requesters, c \in Callbacks \ {Null}, op \in Operations :
        \/ Request(ws, u, op, c)
        \/ QueueAutomationRequest(ws, u, op, c)
        \/ \E caller \in ws : RequestFromCallback(caller, u, op, c)

Settle(ws) ==
  \E id \in 1 .. Len(requests) :
     \/ \E o \in Outcomes, sig \in signed : FulfillRequest(ws, id, o, sig)
     \/ ExpireStaleRequest(ws, id)

MoveFees(ws) ==
  \/ \E from \in ws, b \in Depositors, d \in Deposits : OnNEP17Payment(ws, from, b, d)
  \/ \E to \in Recipients, amount \in 1 .. accrued :
        WithdrawAccruedFees(ws, to, amount) \/ BeginWithdrawal(ws, to, amount)

Configure(ws) ==
  \/ \E f \in Fees : SetRequestFee(ws, f)
  \/ \E t \in Ttls : SetRequestTTL(ws, t)
  \/ RegistryNext(ws) /\ UNCHANGED kernelVars

Next ==
  \/ \E ws \in Witnesses :
        MayCall(ws) /\ (Configure(ws) \/ MoveFees(ws) \/ Submit(ws) \/ Settle(ws))
  \/ EndWithdrawal
  \/ \E key \in Keys, id \in 1 .. Len(requests), o \in Outcomes : SignFulfillment(key, id, o)
  \/ Tick

Spec == Init /\ [][Next]_vars
-----------------------------------------------------------------------------
(***************************************************************************)
(* Fee accounting.                                                         *)
(***************************************************************************)
Ids == 1 .. Len(requests)

PendingFee == [id \in Ids |-> IF Pending(id) THEN requests[id].feePaid ELSE 0]

\* The reserved pool is exactly the fees of the pending requests: the clamp in
\* ReleaseReservedFee never hides a double release or a missed reservation.
ReservedExact == reserved = Total(Ids, PendingFee)

\* The invariant the contract states for its fee pools: the accrued fees
\* cover the reserved ones at all times, so every expiry refund can be paid.
\* A recipient that submits a request while it is being paid breaks it.
AccruedCoversReserved == accrued >= reserved

\* The one way the accrued fees fall below the reserved ones: a withdrawal
\* writes back the pool it read before its transfer, and while the transfer
\* ran the recipient left more fees reserved than the withdrawal had read.
\* No other step uncovers a pending request's refund, whatever recipients do.
OnlyReentryUncovers ==
  [][accrued >= reserved /\ accrued' < reserved' =>
       /\ Len(withdrawals') < Len(withdrawals)
       /\ reserved > withdrawals[Len(withdrawals)].reserved]_vars

\* Between transactions the contract holds exactly the GAS it owes: the credit
\* of every account plus the accrued fees.
Solvent == withdrawals = <<>> => gas = Total(Accounts, credit) + accrued

\* The refund of an expiry is the whole fee, for every pending request and
\* whatever was withdrawn and re-priced since it was submitted.
RefundWhole == \A id \in Ids : Pending(id) => Refund(id) = requests[id].feePaid

Sponsored(id, k) ==
  /\ k = <<requests[id].app, requests[id].requester>>
  /\ requests[id].sponsor # requests[id].requester
  /\ requests[id].error # ExpiryError

SponsoredFee(k) ==
  [id \in Ids |-> IF Sponsored(id, k) THEN requests[id].feePaid ELSE 0]

\* The spend charged to a requester's cap is exactly what the app's fee payers
\* paid for its requests that did not expire.
SpendLedgerExact == \A k \in Apps \X Accounts : spent[k] = Total(Ids, SponsoredFee(k))

\* A submission that a gated app's sponsor pays for a requester it does not
\* list stays within that requester's cap.
CapRespected ==
  [][\A a \in Apps, u \in Accounts :
       /\ spent'[<<a, u>>] > spent[<<a, u>>]
       /\ a \in gated /\ <<a, u>> \notin allowed
       => spent'[<<a, u>>] <= cap[<<a, u>>]]_vars
-----------------------------------------------------------------------------
(***************************************************************************)
(* Outcomes.                                                               *)
(***************************************************************************)
InboxOf(id) == {i \in inbox : i.id = id}

\* The inbox item of a request that is no longer pending.
MirrorItem(id) ==
  LET r == requests[id]
  IN  [id |-> id, app |-> r.app, module |-> r.module, operation |-> r.operation,
       requester |-> r.requester, success |-> r.success, result |-> r.result,
       error |-> r.error]

\* Inbox-only consumers see what the request store says: nothing while a
\* request is pending, and one item with its outcome afterwards, for answers
\* and expiries alike.
InboxMirrorsRequests ==
  /\ \A id \in Ids : InboxOf(id) = IF Pending(id) THEN {} ELSE {MirrorItem(id)}
  /\ \A i \in inbox : i.id \in Ids

\* A request is settled once: its outcome and its inbox item never change
\* afterwards, whether an expiry or a fulfillment came first.
OutcomeFinal ==
  [][\A id \in Ids : ~Pending(id) =>
       requests'[id] = requests[id] /\ InboxOf(id)' = InboxOf(id)]_vars

\* An answer in the request store was signed by the runtime for this very
\* request; no signature for another request, app or operation is accepted.
OutcomeAttested ==
  \A id \in Ids :
     ~Pending(id) /\ requests[id].error # ExpiryError =>
       \E sig \in signed :
          sig.digest = ComputeFulfillmentDigest(id,
                         [success |-> requests[id].success, result |-> requests[id].result,
                          error |-> requests[id].error])

Answered(a) ==
  {id \in Ids : requests[id].app = a /\ ~Pending(id) /\ requests[id].error # ExpiryError}

\* The fulfillment counters count answers and only answers: an expiry is not
\* a fulfillment, and no request is counted twice.
FulfilledCountExact ==
  /\ \A a \in Apps : /\ appFulfilled[a] = Cardinality(Answered(a))
                      /\ appRequests[a] = Cardinality({id \in Ids : requests[id].app = a})
  /\ totalFulfilled = Cardinality(UNION {Answered(a) : a \in Apps})
-----------------------------------------------------------------------------
(***************************************************************************)
(* The kernel implements the abstract escrow.                              *)
(***************************************************************************)
OpenEntry(id) ==
  [id |-> id, payer |-> requests[id].sponsor, fee |-> requests[id].feePaid]

OpenEntries == {OpenEntry(id) : id \in {i \in Ids : Pending(i)}}

Escrow ==
  INSTANCE FeeEscrow WITH
    balance <- credit,
    escrow  <- OpenEntries,
    opened  <- Len(requests),
    earned  <- accrued - reserved

\* The contract's fee handling is the abstract escrow: a fee is earned by an
\* answer or returned whole to its payer by an expiry, and the admin can take
\* out earned fees only.
ImplementsEscrow == Escrow!Spec
=============================================================================
