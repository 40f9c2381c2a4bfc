------------------------- MODULE OracleKernelProofs -------------------------
(***************************************************************************)
(* Proofs about the kernel contract, for any accounts, apps, amounts and   *)
(* bounds: type correctness, exactness of the reserved pool, the pool      *)
(* invariant and solvency when no withdrawal is re-entered, the finality   *)
(* of outcomes, the sponsored-spend ledger and its cap, the counters, and  *)
(* the records of the callback consumer that is composed with the kernel.  *)
(***************************************************************************)
EXTENDS CallbackDelivery, MiniAppRegistryProofs, UnitSumsProofs

(***************************************************************************)
(* Every entry point that submits a request does the same internal step.   *)
(***************************************************************************)
LEMMA SubmitCases ==
  ASSUME TypeOK, NEW ws, Submit(ws)
  PROVE  \E u \in Accounts, a \in Apps, m \in Modules, op \in Operations :
            SubmitMiniAppRequestInternal(u, a, m, op)
  <1>1. ASSUME NEW u \in Requesters, NEW a \in Apps, NEW m \in Modules, NEW op \in Operations,
               \/ SubmitMiniAppRequest(ws, u, a, m, op)
               \/ QueueSystemRequest(ws, u, a, m, op)
               \/ \E c \in ws : SubmitMiniAppRequestFromIntegration(c, u, a, m, op)
        PROVE  u \in Accounts /\ SubmitMiniAppRequestInternal(u, a, m, op)
    BY <1>1, InputsTyped
       DEF SubmitMiniAppRequest, QueueSystemRequest, SubmitMiniAppRequestFromIntegration
  <1>2. ASSUME NEW u \in Requesters, NEW c \in Callbacks \ {Null}, NEW op \in Operations,
               \/ Request(ws, u, op, c)
               \/ QueueAutomationRequest(ws, u, op, c)
               \/ \E caller \in ws : RequestFromCallback(caller, u, op, c)
        PROVE  /\ u \in Accounts
               /\ FindMiniAppByCallback(c) \in Apps
               /\ ResolveLegacyModuleId(op) \in Modules
               /\ SubmitMiniAppRequestInternal(u, FindMiniAppByCallback(c),
                                               ResolveLegacyModuleId(op), op)
    <2>1. LegacyTarget(c, op)
      BY <1>2 DEF Request, QueueAutomationRequest, RequestFromCallback
    <2>2. c \in Accounts /\ u \in Accounts
      BY InputsTyped
    <2>3. FindMiniAppByCallback(c) \in Apps /\ ResolveLegacyModuleId(op) \in Modules
      BY <2>1, <2>2 DEF LegacyTarget, FindMiniAppByCallback, TypeOK, RegistryTypeOK
    <2> QED
      BY <1>2, <2>2, <2>3
         DEF Request, QueueAutomationRequest, RequestFromCallback, SubmitMiniAppRequest,
             QueueSystemRequest, SubmitMiniAppRequestFromIntegration
  <1> QED
    BY <1>1, <1>2 DEF Submit

(***************************************************************************)
(* The steps of the kernel, with the types of their arguments.             *)
(***************************************************************************)
LEMMA StepCases ==
  ASSUME TypeOK, Next
  PROVE  \/ \E ws \in Witnesses : RegistryNext(ws) /\ UNCHANGED kernelVars
         \/ \E ws \in Witnesses, f \in Nat \ {0} : SetRequestFee(ws, f)
         \/ \E ws \in Witnesses, t \in Nat \ {0} : SetRequestTTL(ws, t)
         \/ \E ws \in Witnesses, from \in Accounts, b \in Accounts, d \in Deposits :
               OnNEP17Payment(ws, from, b, d)
         \/ \E ws \in Witnesses, to \in Accounts, amount \in Nat :
               WithdrawAccruedFees(ws, to, amount)
         \/ \E ws \in Witnesses, to \in Accounts, amount \in Nat :
               BeginWithdrawal(ws, to, amount)
         \/ \E u \in Accounts, a \in Apps, m \in Modules, op \in Operations :
               SubmitMiniAppRequestInternal(u, a, m, op)
         \/ \E ws \in Witnesses, id \in Ids, o \in Outcomes, sig \in signed :
               FulfillRequest(ws, id, o, sig)
         \/ \E ws \in Witnesses, id \in Ids : ExpireStaleRequest(ws, id)
         \/ EndWithdrawal
         \/ \E key \in Keys, id \in Ids, o \in Outcomes : SignFulfillment(key, id, o)
         \/ Tick
  <1>1. ASSUME NEW ws \in Witnesses, Configure(ws)
        PROVE  \/ RegistryNext(ws) /\ UNCHANGED kernelVars
               \/ \E f \in Nat \ {0} : SetRequestFee(ws, f)
               \/ \E t \in Nat \ {0} : SetRequestTTL(ws, t)
    BY <1>1, AmountsTyped DEF Configure
  <1>2. ASSUME NEW ws \in Witnesses, MoveFees(ws)
        PROVE  \/ \E from \in Accounts, b \in Accounts, d \in Deposits :
                      OnNEP17Payment(ws, from, b, d)
               \/ \E to \in Accounts, amount \in Nat : WithdrawAccruedFees(ws, to, amount)
               \/ \E to \in Accounts, amount \in Nat : BeginWithdrawal(ws, to, amount)
    <2>1. 1 .. accrued \subseteq Nat
      BY DEF TypeOK
    <2> QED
      BY <1>2, <2>1, AmountsTyped, PartiesTyped, InputsTyped DEF MoveFees
  <1>3. ASSUME NEW ws \in Witnesses, Settle(ws)
        PROVE  \/ \E id \in Ids, o \in Outcomes, sig \in signed : FulfillRequest(ws, id, o, sig)
               \/ \E id \in Ids : ExpireStaleRequest(ws, id)
    BY <1>3 DEF Settle, Ids
  <1>4. CASE \E ws \in Witnesses :
               MayCall(ws) /\ (Configure(ws) \/ MoveFees(ws) \/ Submit(ws) \/ Settle(ws))
    BY <1>4, <1>1, <1>2, <1>3, SubmitCases
  <1>5. CASE \E key \in Keys, id \in 1 .. Len(requests), o \in Outcomes :
               SignFulfillment(key, id, o)
    BY <1>5 DEF Ids
  <1> QED
    BY <1>4, <1>5 DEF Next

(***************************************************************************)
(* Every request id in use names a well-typed request.                     *)
(***************************************************************************)
LEMMA RequestTyped ==
  ASSUME TypeOK, NEW id \in Ids
  PROVE  requests[id] \in KernelRequest
  BY ElementOfSeq DEF TypeOK, Ids

(***************************************************************************)
(* Writing one request of the store.                                       *)
(***************************************************************************)
LEMMA RequestWritten ==
  ASSUME TypeOK, NEW id \in Ids, NEW r \in KernelRequest,
         requests' = [requests EXCEPT ![id] = r]
  PROVE  /\ requests' \in Seq(KernelRequest)
         /\ Len(requests') = Len(requests)
         /\ Ids' = Ids
         /\ requests'[id] = r
         /\ \A j \in Ids : j # id => requests'[j] = requests[j]
  <1>1. requests \in Seq(KernelRequest) /\ id \in 1 .. Len(requests)
    BY DEF TypeOK, Ids
  <1>2. requests' \in Seq(KernelRequest) /\ Len(requests') = Len(requests)
    BY <1>1, ExceptSeq
  <1> QED
    BY <1>1, <1>2, ExceptSeq DEF Ids

(***************************************************************************)
(* The settled and the expired form of a request are requests.             *)
(***************************************************************************)
LEMMA SettledTyped ==
  ASSUME NEW r \in KernelRequest, NEW o \in Outcome
  PROVE  SettledAs(r, o) \in KernelRequest
  BY DEF SettledAs, KernelRequest, Outcome

LEMMA ExpiredTyped ==
  ASSUME NEW r \in KernelRequest
  PROVE  Expired(r) \in KernelRequest
  BY DEF Expired, KernelRequest, Texts

(***************************************************************************)
(* The kernel starts well typed.                                           *)
(***************************************************************************)
LEMMA TypeInit == Init => TypeOK
  BY RegistryTypeInit, AmountsTyped DEF Init, TypeOK

(***************************************************************************)
(* A submission keeps the types: the fee comes out of a credit that has it.*)
(***************************************************************************)
LEMMA SubmitType ==
  ASSUME TypeOK, NEW u \in Accounts, NEW a \in Apps, NEW m \in Modules, NEW op \in Operations,
         SubmitMiniAppRequestInternal(u, a, m, op)
  PROVE  TypeOK'
  <1> DEFINE payer == ResolveFeePayer(a, u)
             rec == [app |-> a, module |-> m, operation |-> op, requester |-> u,
                     sponsor |-> payer, callback |-> apps[a].callback,
                     status |-> "Pending", createdAt |-> now,
                     success |-> FALSE, result |-> "", error |-> "", feePaid |-> requestFee]
  <1>1. apps[a] \in MiniAppRecord
    BY DEF SubmitMiniAppRequestInternal, RequireActiveMiniApp, RequireMiniApp, TypeOK,
           RegistryTypeOK
  <1>2. payer \in Accounts
    BY <1>1 DEF ResolveFeePayer, MiniAppRecord
  <1>3. rec \in KernelRequest
    <2>1. now \in Nat /\ requestFee \in Nat /\ apps[a].callback \in Accounts \cup {Null}
      BY <1>1 DEF MiniAppRecord, TypeOK
    <2>2. "" \in Texts
      BY DEF Texts
    <2> HIDE DEF payer
    <2> QED
      BY <1>2, <2>1, <2>2 DEF KernelRequest
  <1>4. /\ credit[payer] >= requestFee
        /\ credit' = [credit EXCEPT ![payer] = @ - requestFee]
        /\ accrued' = accrued + requestFee /\ reserved' = reserved + requestFee
        /\ spent' = IF payer # u THEN [spent EXCEPT ![<<a, u>>] = @ + requestFee] ELSE spent
        /\ requests' = Append(requests, rec)
        /\ appRequests' = [appRequests EXCEPT ![a] = @ + 1]
        /\ UNCHANGED <<registryVars, now, configVars, gas, inbox,
                       totalFulfilled, appFulfilled, signed, withdrawals>>
    BY DEF SubmitMiniAppRequestInternal, ConsumeRequestFeeFromPayer, RecordSponsoredSpend
  <1> HIDE DEF payer, rec
  <1>5. credit' \in [Accounts -> Nat] /\ accrued' \in Nat /\ reserved' \in Nat
    BY <1>2, <1>4 DEF TypeOK
  <1>6. spent' \in [Apps \X Accounts -> Nat] /\ appRequests' \in [Apps -> Nat]
    BY <1>4 DEF TypeOK
  <1>7. requests' \in Seq(KernelRequest)
    BY <1>3, <1>4, AppendProperties DEF TypeOK
  <1>8. RegistryTypeOK'
    BY <1>4 DEF TypeOK, RegistryTypeOK, registryVars, roleVars, appVars, moduleVars, sponsorVars
  <1> QED
    BY <1>4, <1>5, <1>6, <1>7, <1>8 DEF TypeOK, configVars

(***************************************************************************)
(* Settling a request writes well-typed inbox items and pools.             *)
(***************************************************************************)
LEMMA InboxTyped ==
  ASSUME TypeOK, NEW id \in Ids, NEW o \in Outcome,
         StoreInbox(id, o)
  PROVE  inbox' \subseteq InboxItem
  <1>1. requests[id] \in KernelRequest /\ id \in Nat /\ inbox \subseteq InboxItem
    BY RequestTyped DEF Ids, TypeOK
  <1> QED
    BY <1>1 DEF StoreInbox, InboxEntry, InboxItem, KernelRequest, Outcome

LEMMA FulfillType ==
  ASSUME TypeOK, NEW ws, NEW id \in Ids, NEW o \in Outcomes, NEW sig,
         FulfillRequest(ws, id, o, sig)
  PROVE  TypeOK'
  <1>1. o \in Outcome
    BY OutcomesTyped
  <1>2. requests[id] \in KernelRequest
    BY RequestTyped
  <1>3. requests' \in Seq(KernelRequest)
    BY <1>1, <1>2, SettledTyped, RequestWritten DEF FulfillRequest
  <1>4. inbox' \subseteq InboxItem
    BY <1>1, InboxTyped DEF FulfillRequest
  <1>5. requests[id].app \in Apps /\ requests[id].feePaid \in Nat
    BY <1>2 DEF KernelRequest
  <1>6. reserved' \in Nat
    BY <1>5 DEF FulfillRequest, ReleaseReservedFee, TypeOK
  <1>7. totalFulfilled' \in Nat /\ appFulfilled' \in [Apps -> Nat]
    BY <1>5 DEF FulfillRequest, TypeOK
  <1>8. RegistryTypeOK'
    BY DEF FulfillRequest, TypeOK, RegistryTypeOK, registryVars, roleVars, appVars,
           moduleVars, sponsorVars
  <1> QED
    BY <1>3, <1>4, <1>6, <1>7, <1>8 DEF FulfillRequest, TypeOK, configVars

LEMMA ExpireType ==
  ASSUME TypeOK, NEW ws, NEW id \in Ids, ExpireStaleRequest(ws, id)
  PROVE  TypeOK'
  <1> DEFINE o == [success |-> FALSE, result |-> "", error |-> ExpiryError]
  <1>1. o \in Outcome
    BY DEF Outcome, Texts
  <1>2. requests[id] \in KernelRequest
    BY RequestTyped
  <1>3. requests' \in Seq(KernelRequest)
    BY <1>2, ExpiredTyped, RequestWritten DEF ExpireStaleRequest
  <1>4. inbox' \subseteq InboxItem
    BY <1>1, InboxTyped DEF ExpireStaleRequest
  <1>5. /\ requests[id].app \in Apps /\ requests[id].feePaid \in Nat
        /\ requests[id].sponsor \in Accounts /\ requests[id].requester \in Accounts
    BY <1>2 DEF KernelRequest
  <1>6. Refund(id) \in Nat /\ Refund(id) <= accrued
    BY <1>5 DEF Refund, TypeOK
  <1>7. reserved' \in Nat
    <2>1. reserved \in Nat /\ ReleaseReservedFee(requests[id].feePaid)
      BY DEF ExpireStaleRequest, TypeOK
    <2> QED
      BY <1>5, <2>1 DEF ReleaseReservedFee
  <1>8. credit' \in [Accounts -> Nat] /\ accrued' \in Nat
    <2> DEFINE s == requests[id].sponsor
               n == Refund(id)
    <2>1. credit' = [credit EXCEPT ![s] = @ + n] /\ accrued' = accrued - n
      BY DEF ExpireStaleRequest
    <2>2. s \in Accounts /\ n \in Nat /\ n <= accrued
      BY <1>5, <1>6
    <2> HIDE DEF s, n
    <2> QED
      BY <2>1, <2>2 DEF TypeOK
  <1>9. spent' \in [Apps \X Accounts -> Nat]
    <2> DEFINE k == <<requests[id].app, requests[id].requester>>
               f == requests[id].feePaid
    <2>1. k \in Apps \X Accounts /\ f \in Nat /\ spent \in [Apps \X Accounts -> Nat]
      BY <1>5 DEF TypeOK
    <2>2. spent' = IF requests[id].sponsor = requests[id].requester THEN spent
                   ELSE [spent EXCEPT ![k] = IF @ < f THEN 0 ELSE @ - f]
      BY DEF ExpireStaleRequest, ReleaseSponsoredSpend
    <2> HIDE DEF k, f
    <2> QED
      BY <2>1, <2>2
  <1>10. RegistryTypeOK'
    BY DEF ExpireStaleRequest, TypeOK, RegistryTypeOK, registryVars, roleVars, appVars,
           moduleVars, sponsorVars
  <1> QED
    BY <1>3, <1>4, <1>7, <1>8, <1>9, <1>10 DEF ExpireStaleRequest, TypeOK, configVars

(***************************************************************************)
(* Every step of the kernel keeps the types.                               *)
(***************************************************************************)
LEMMA TypeStep ==
  ASSUME TypeOK, Next
  PROVE  TypeOK'
  <1> USE DEF configVars, feeVars, requestVars
  <1>0. ASSUME UNCHANGED registryVars PROVE RegistryTypeOK'
    BY <1>0 DEF TypeOK, RegistryTypeOK, registryVars, roleVars, appVars, moduleVars, sponsorVars
  <1>1. ASSUME NEW ws \in Witnesses, RegistryNext(ws), UNCHANGED kernelVars
        PROVE  TypeOK'
    <2>1. RegistryTypeOK'
      BY <1>1, RegistryTypeStep DEF TypeOK
    <2> QED
      BY <1>1, <2>1 DEF TypeOK, kernelVars
  <1>2. ASSUME NEW ws \in Witnesses, NEW f \in Nat \ {0}, SetRequestFee(ws, f)
        PROVE  TypeOK'
    BY <1>0, <1>2 DEF TypeOK, SetRequestFee
  <1>3. ASSUME NEW ws \in Witnesses, NEW t \in Nat \ {0}, SetRequestTTL(ws, t)
        PROVE  TypeOK'
    BY <1>0, <1>3 DEF TypeOK, SetRequestTTL
  <1>4. ASSUME NEW ws \in Witnesses, NEW from \in Accounts, NEW b \in Accounts,
               NEW d \in Deposits, OnNEP17Payment(ws, from, b, d)
        PROVE  TypeOK'
    BY <1>0, <1>4, AmountsTyped DEF TypeOK, OnNEP17Payment
  <1>5. ASSUME NEW to \in Accounts, NEW amount \in Nat, Withdrawable(amount), PayOut(to, amount)
        PROVE  /\ gas' \in Nat /\ credit' \in [Accounts -> Nat]
               /\ accrued - amount \in Nat
    BY <1>5, PartiesTyped DEF TypeOK, Withdrawable, PayOut
  <1>6. ASSUME NEW ws \in Witnesses, NEW to \in Accounts, NEW amount \in Nat,
               WithdrawAccruedFees(ws, to, amount)
        PROVE  TypeOK'
    BY <1>0, <1>5, <1>6 DEF TypeOK, WithdrawAccruedFees
  <1>7. ASSUME NEW ws \in Witnesses, NEW to \in Accounts, NEW amount \in Nat,
               BeginWithdrawal(ws, to, amount)
        PROVE  TypeOK'
    <2> DEFINE w == [to |-> to, accrued |-> accrued, reserved |-> reserved, amount |-> amount]
    <2>1. gas' \in Nat /\ credit' \in [Accounts -> Nat] /\ accrued - amount \in Nat
      BY <1>5, <1>7 DEF BeginWithdrawal
    <2>2. w \in Withdrawal
      BY <1>7, <2>1 DEF TypeOK, Withdrawal, BeginWithdrawal, Withdrawable
    <2>3. withdrawals' = Append(withdrawals, w)
      BY <1>7 DEF BeginWithdrawal
    <2> HIDE DEF w
    <2>4. withdrawals' \in Seq(Withdrawal)
      BY <2>2, <2>3, AppendProperties DEF TypeOK
    <2> QED
      BY <1>0, <1>7, <2>1, <2>4 DEF TypeOK, BeginWithdrawal
  <1>8. ASSUME EndWithdrawal
        PROVE  TypeOK'
    <2> DEFINE n == Len(withdrawals)
    <2>1. withdrawals \in Seq(Withdrawal) /\ withdrawals # <<>>
      BY <1>8 DEF TypeOK, EndWithdrawal
    <2>2. n \in Nat /\ n > 0
      BY <2>1, EmptySeq
    <2>3. withdrawals[n] \in Withdrawal
      BY <2>1, <2>2, ElementOfSeq
    <2>4. accrued' \in Nat
      BY <1>8, <2>3 DEF EndWithdrawal, Withdrawal
    <2>5. withdrawals' \in Seq(Withdrawal)
      <3>1. \A i \in 1 .. n - 1 : withdrawals[i] \in Withdrawal
        BY <2>1, <2>2, ElementOfSeq
      <3> QED
        BY <1>8, <2>1, <2>2, <3>1, SubSeqProperties DEF EndWithdrawal
    <2> QED
      BY <1>0, <1>8, <2>4, <2>5 DEF TypeOK, EndWithdrawal
  <1>9. ASSUME NEW key \in Keys, NEW id \in Ids, NEW o \in Outcomes, SignFulfillment(key, id, o)
        PROVE  TypeOK'
    <2>0. o \in Outcome
      BY OutcomesTyped
    <2>1. requests[id] \in KernelRequest /\ id \in Nat
      BY RequestTyped DEF Ids, TypeOK
    <2>2. ComputeFulfillmentDigest(id, o) \in Digest
      BY <2>0, <2>1 DEF ComputeFulfillmentDigest, Digest, KernelRequest, Outcome
    <2>3. signed' \subseteq [key : Keys, digest : Digest]
      BY <1>9, <2>2 DEF SignFulfillment, TypeOK
    <2> QED
      BY <1>0, <1>9, <2>3 DEF SignFulfillment, TypeOK
  <1>10. ASSUME Tick PROVE TypeOK'
    BY <1>0, <1>10 DEF TypeOK, Tick
  <1> QED
    BY <1>1, <1>2, <1>3, <1>4, <1>6, <1>7, <1>8, <1>9, <1>10, SubmitType, FulfillType,
       ExpireType, StepCases

(***************************************************************************)
(* In every reachable state of the kernel the state is well typed: no pool *)
(* is negative, whatever the order of deposits, submissions, settlements,  *)
(* expiries, fee changes and (re-entered) withdrawals.                     *)
(***************************************************************************)
THEOREM KernelTypeCorrect == Spec => []TypeOK
  <1>1. TypeOK /\ UNCHANGED vars => TypeOK'
    BY DEF TypeOK, RegistryTypeOK, vars, kernelVars, configVars, feeVars, requestVars,
           registryVars, roleVars, appVars, moduleVars, sponsorVars
  <1>2. TypeOK /\ [Next]_vars => TypeOK'
    BY <1>1, TypeStep
  <1> QED
    BY <1>2, TypeInit, PTL DEF Spec

-----------------------------------------------------------------------------
(***************************************************************************)
(* The reserved pool.  Only submissions and settlements change what is     *)
(* pending, and each moves the pool by the fee of the request it touches.  *)
(***************************************************************************)
LEMMA IdsFinite ==
  ASSUME TypeOK
  PROVE  IsFiniteSet(Ids) /\ Len(requests) \in Nat /\ Ids \subseteq Nat
  BY FS_Interval DEF TypeOK, Ids

LEMMA NoIds == Init => Ids = {}
  BY DEF Init, Ids

LEMMA PendingFeeType ==
  ASSUME TypeOK
  PROVE  \A id \in Ids : PendingFee[id] \in Nat
  BY RequestTyped DEF PendingFee, KernelRequest

(***************************************************************************)
(* What a submission does to the store and to the pools.                   *)
(***************************************************************************)
Submitted(u, a, payer, r, n) ==
  /\ credit[payer] >= requestFee
  /\ credit' = [credit EXCEPT ![payer] = @ - requestFee]
  /\ accrued' = accrued + requestFee /\ reserved' = reserved + requestFee
  /\ spent' = IF payer # u THEN [spent EXCEPT ![<<a, u>>] = @ + requestFee] ELSE spent
  /\ appRequests' = [appRequests EXCEPT ![a] = @ + 1]
  /\ UNCHANGED <<registryVars, gas, inbox, signed, withdrawals, totalFulfilled, appFulfilled>>
  /\ n = Len(requests) + 1 /\ Len(requests') = n
  /\ n \notin Ids /\ Ids' = Ids \cup {n}
  /\ \A id \in Ids : requests'[id] = requests[id]
  /\ requests'[n] = r
  /\ r.app = a /\ r.requester = u /\ r.sponsor = payer
  /\ r.status = "Pending" /\ r.feePaid = requestFee
  /\ r.success = FALSE /\ r.result = "" /\ r.error = ""

LEMMA SubmitEffect ==
  ASSUME TypeOK, NEW u \in Accounts, NEW a \in Apps, NEW m \in Modules, NEW op \in Operations,
         SubmitMiniAppRequestInternal(u, a, m, op)
  PROVE  \E payer \in Accounts, r \in KernelRequest, n \in Nat : Submitted(u, a, payer, r, n)
  <1> DEFINE payer == ResolveFeePayer(a, u)
             n == Len(requests) + 1
             r == [app |-> a, module |-> m, operation |-> op, requester |-> u,
                   sponsor |-> payer, callback |-> apps[a].callback,
                   status |-> "Pending", createdAt |-> now,
                   success |-> FALSE, result |-> "", error |-> "", feePaid |-> requestFee]
  <1>1. apps[a] \in MiniAppRecord
    BY DEF SubmitMiniAppRequestInternal, RequireActiveMiniApp, RequireMiniApp, TypeOK,
           RegistryTypeOK
  <1>2. payer \in Accounts
    BY <1>1 DEF ResolveFeePayer, MiniAppRecord
  <1>3. r \in KernelRequest
    <2>1. now \in Nat /\ requestFee \in Nat /\ apps[a].callback \in Accounts \cup {Null}
      BY <1>1 DEF MiniAppRecord, TypeOK
    <2>2. "" \in Texts
      BY DEF Texts
    <2> HIDE DEF payer
    <2> QED
      BY <1>2, <2>1, <2>2 DEF KernelRequest
  <1>4. /\ credit[payer] >= requestFee
        /\ credit' = [credit EXCEPT ![payer] = @ - requestFee]
        /\ accrued' = accrued + requestFee /\ reserved' = reserved + requestFee
        /\ spent' = IF payer # u THEN [spent EXCEPT ![<<a, u>>] = @ + requestFee] ELSE spent
        /\ appRequests' = [appRequests EXCEPT ![a] = @ + 1]
        /\ UNCHANGED <<registryVars, gas, inbox, signed, withdrawals, totalFulfilled,
                       appFulfilled>>
        /\ requests' = Append(requests, r)
    BY DEF SubmitMiniAppRequestInternal, ConsumeRequestFeeFromPayer, RecordSponsoredSpend
  <1>5. /\ r.app = a /\ r.requester = u /\ r.sponsor = payer
        /\ r.status = "Pending" /\ r.feePaid = requestFee
        /\ r.success = FALSE /\ r.result = "" /\ r.error = ""
    OBVIOUS
  <1> HIDE DEF r, payer
  <1>6. /\ Len(requests) \in Nat /\ Len(requests') = n
        /\ \A id \in Ids : requests'[id] = requests[id]
        /\ requests'[n] = r
        /\ n \notin Ids /\ Ids' = Ids \cup {n}
    <2>1. requests \in Seq(KernelRequest)
      BY DEF TypeOK
    <2> QED
      BY <1>4, <2>1 DEF Ids
  <1>7. n \in Nat
    BY <1>6
  <1> HIDE DEF n
  <1>8. n = Len(requests) + 1
    BY DEF n
  <1>9. Submitted(u, a, payer, r, n)
    BY <1>4, <1>5, <1>6, <1>8 DEF Submitted
  <1> QED
    BY <1>2, <1>3, <1>7, <1>9

LEMMA SubmitReserves ==
  ASSUME TypeOK, ReservedExact, NEW u \in Accounts, NEW a \in Apps, NEW m \in Modules,
         NEW op \in Operations, SubmitMiniAppRequestInternal(u, a, m, op)
  PROVE  ReservedExact'
  <1>0. PICK payer, r, n : Submitted(u, a, payer, r, n)
    BY SubmitEffect
  <1>1. /\ reserved' = reserved + requestFee
        /\ n \notin Ids /\ Ids' = Ids \cup {n}
        /\ \A id \in Ids : requests'[id] = requests[id]
        /\ requests'[n] = r /\ r.status = "Pending" /\ r.feePaid = requestFee
    BY <1>0 DEF Submitted
  <1> DEFINE S == Ids
             f == PendingFee
             g == PendingFee'
  <1>2. \A id \in S : g[id] = f[id]
    BY <1>1 DEF PendingFee, Pending
  <1>3. g[n] = requestFee /\ requestFee \in Nat
    BY <1>1 DEF PendingFee, Pending, TypeOK
  <1>4. IsFiniteSet(S) /\ n \notin S /\ \A id \in S : f[id] \in Nat
    BY <1>1, IdsFinite, PendingFeeType
  <1>5. /\ reserved = Total(S, f) /\ reserved' = reserved + requestFee
        /\ ReservedExact' <=> reserved' = Total(S \cup {n}, g)
    BY <1>1 DEF ReservedExact
  <1> HIDE DEF S, f, g
  <1>6. g[n] \in Nat
    BY <1>3
  <1>7. Total(S \cup {n}, g) = Total(S, f) + g[n]
    BY <1>2, <1>4, <1>6, TotalGrow
  <1> QED
    BY <1>3, <1>5, <1>7

LEMMA SettleReleases ==
  ASSUME TypeOK, ReservedExact, NEW id \in Ids, Pending(id), NEW r \in KernelRequest,
         r.status # "Pending", requests' = [requests EXCEPT ![id] = r],
         ReleaseReservedFee(requests[id].feePaid)
  PROVE  ReservedExact'
  <1>1. /\ Ids' = Ids /\ requests'[id] = r
        /\ \A j \in Ids : j # id => requests'[j] = requests[j]
    BY RequestWritten
  <1>2. \A j \in Ids \ {id} : PendingFee'[j] = PendingFee[j]
    BY <1>1 DEF PendingFee, Pending
  <1>3. PendingFee'[id] = 0 /\ PendingFee[id] = requests[id].feePaid
    BY <1>1 DEF PendingFee, Pending
  <1>4. requests[id].feePaid \in Nat
    BY RequestTyped DEF KernelRequest
  <1>5. /\ Total(Ids, PendingFee) \in Nat /\ Total(Ids, PendingFee') \in Nat
        /\ Total(Ids, PendingFee) >= PendingFee[id]
        /\ Total(Ids, PendingFee') + PendingFee[id] = Total(Ids, PendingFee) + PendingFee'[id]
    BY <1>2, <1>3, IdsFinite, PendingFeeType, TotalChange
  <1>6. reserved' = Total(Ids, PendingFee')
    BY <1>3, <1>4, <1>5 DEF ReservedExact, ReleaseReservedFee
  <1> QED
    BY <1>1, <1>6 DEF ReservedExact

(***************************************************************************)
(* A fulfillment and an expiry write one pending request.                  *)
(***************************************************************************)
LEMMA SettleWrites ==
  ASSUME TypeOK, NEW id \in Ids, NEW ws, NEW o \in Outcomes, NEW sig,
         FulfillRequest(ws, id, o, sig) \/ ExpireStaleRequest(ws, id)
  PROVE  \E r \in KernelRequest :
            /\ r.status # "Pending"
            /\ requests' = [requests EXCEPT ![id] = r]
            /\ Pending(id)
            /\ ReleaseReservedFee(requests[id].feePaid)
  <1>1. requests[id] \in KernelRequest
    BY RequestTyped
  <1>2. CASE FulfillRequest(ws, id, o, sig)
    <2>1. SettledAs(requests[id], o) \in KernelRequest
      BY <1>1, OutcomesTyped, SettledTyped
    <2>2. SettledAs(requests[id], o).status # "Pending"
      BY <1>1 DEF SettledAs, KernelRequest
    <2> QED
      BY <1>2, <2>1, <2>2 DEF FulfillRequest, RequirePending
  <1>3. CASE ExpireStaleRequest(ws, id)
    <2>1. Expired(requests[id]) \in KernelRequest
      BY <1>1, ExpiredTyped
    <2>2. Expired(requests[id]).status # "Pending"
      BY <1>1 DEF Expired, KernelRequest
    <2> QED
      BY <1>3, <2>1, <2>2 DEF ExpireStaleRequest, RequirePending
  <1> QED
    BY <1>2, <1>3

LEMMA ReservedStep ==
  ASSUME TypeOK, ReservedExact, Next
  PROVE  ReservedExact'
  <1>1. CASE UNCHANGED <<requests, reserved>>
    BY <1>1 DEF ReservedExact, PendingFee, Pending, Ids
  <1>2. ASSUME NEW u \in Accounts, NEW a \in Apps, NEW m \in Modules, NEW op \in Operations,
               SubmitMiniAppRequestInternal(u, a, m, op)
        PROVE  ReservedExact'
    BY <1>2, SubmitReserves
  <1>3. ASSUME NEW ws \in Witnesses, NEW id \in Ids, NEW o \in Outcomes, NEW sig,
               FulfillRequest(ws, id, o, sig)
        PROVE  ReservedExact'
    BY <1>3, SettleWrites, SettleReleases
  <1>4. ASSUME NEW ws \in Witnesses, NEW id \in Ids, ExpireStaleRequest(ws, id)
        PROVE  ReservedExact'
    <2>1. Expired(requests[id]) \in KernelRequest
      BY RequestTyped, ExpiredTyped
    <2>2. Expired(requests[id]).status # "Pending"
      BY RequestTyped DEF Expired, KernelRequest
    <2> QED
      BY <1>4, <2>1, <2>2, SettleReleases DEF ExpireStaleRequest, RequirePending
  <1>5. \/ UNCHANGED <<requests, reserved>>
        \/ \E u \in Accounts, a \in Apps, m \in Modules, op \in Operations :
             SubmitMiniAppRequestInternal(u, a, m, op)
        \/ \E ws \in Witnesses, id \in Ids, o \in Outcomes, sig \in signed :
             FulfillRequest(ws, id, o, sig)
        \/ \E ws \in Witnesses, id \in Ids : ExpireStaleRequest(ws, id)
    BY StepCases
       DEF kernelVars, feeVars, requestVars, SetRequestFee, SetRequestTTL, OnNEP17Payment,
           WithdrawAccruedFees, BeginWithdrawal, EndWithdrawal, SignFulfillment, Tick
  <1> QED
    BY <1>1, <1>2, <1>3, <1>4, <1>5

(***************************************************************************)
(* The reserved pool is exactly the fees of the pending requests in every  *)
(* reachable state, also while a withdrawal recipient re-enters.           *)
(***************************************************************************)
THEOREM ReservedIsPending == Spec => []ReservedExact
  <1>1. Init => ReservedExact
    <2> SUFFICES ASSUME Init PROVE ReservedExact
      OBVIOUS
    <2>1. Ids = {}
      BY NoIds
    <2> QED
      BY <2>1, TotalEmpty DEF Init, ReservedExact
  <1>2. TypeOK /\ ReservedExact /\ [Next]_vars => ReservedExact'
    <2>1. ReservedExact /\ UNCHANGED vars => ReservedExact'
      BY DEF ReservedExact, PendingFee, Pending, Ids, vars, kernelVars, feeVars, requestVars
    <2> QED
      BY <2>1, ReservedStep
  <1> QED
    BY <1>1, <1>2, KernelTypeCorrect, PTL DEF Spec

-----------------------------------------------------------------------------
(***************************************************************************)
(* The two pools and the GAS balance, when no recipient re-enters.         *)
(***************************************************************************)
FeeInv ==
  /\ withdrawals = <<>>
  /\ accrued >= reserved
  /\ gas = Total(Accounts, credit) + accrued

LEMMA CreditChange ==
  ASSUME TypeOK, NEW x \in Accounts, NEW v \in Nat, credit' = [credit EXCEPT ![x] = v]
  PROVE  /\ Total(Accounts, credit) \in Nat /\ Total(Accounts, credit') \in Nat
         /\ Total(Accounts, credit') + credit[x] = Total(Accounts, credit) + v
  <1> DEFINE f == credit
             g == credit'
  <1>1. /\ \A y \in Accounts : f[y] \in Nat
        /\ \A y \in Accounts \ {x} : g[y] = f[y]
        /\ g[x] = v /\ g[x] \in Nat
    BY DEF TypeOK
  <1>2. IsFiniteSet(Accounts)
    BY AccountsFinite
  <1> HIDE DEF f, g
  <1>3. /\ Total(Accounts, f) \in Nat /\ Total(Accounts, g) \in Nat
        /\ Total(Accounts, g) + f[x] = Total(Accounts, f) + g[x]
    BY <1>1, <1>2, TotalChange
  <1> QED
    BY <1>1, <1>3 DEF f, g

(***************************************************************************)
(* A pending request's fee is part of the reserved pool.                   *)
(***************************************************************************)
LEMMA PendingIsReserved ==
  ASSUME TypeOK, ReservedExact, NEW id \in Ids, Pending(id)
  PROVE  requests[id].feePaid \in Nat /\ requests[id].feePaid <= reserved
  <1> DEFINE S == Ids
             f == PendingFee
  <1>1. /\ IsFiniteSet(S) /\ id \in S /\ \A j \in S : f[j] \in Nat
        /\ f[id] = requests[id].feePaid /\ reserved = Total(S, f)
    BY IdsFinite, PendingFeeType DEF PendingFee, ReservedExact
  <1> HIDE DEF S, f
  <1>2. f[id] \in Nat
    BY <1>1
  <1>3. Total(S, f) \in Nat /\ Total(S, f) >= f[id]
    BY <1>1, <1>2, TotalChange
  <1> QED
    BY <1>1, <1>2, <1>3

LEMMA PayOutBalance ==
  ASSUME TypeOK, FeeInv, NEW to \in Accounts, NEW amount \in Nat,
         Withdrawable(amount), PayOut(to, amount)
  PROVE  /\ accrued - amount >= reserved
         /\ gas' = Total(Accounts, credit') + (accrued - amount)
  <1>1. accrued - amount >= reserved
    BY DEF Withdrawable, TypeOK
  <1>2. CASE to = Self
    <2>1. credit' = [credit EXCEPT ![Self] = credit[Self] + amount]
      BY <1>2 DEF PayOut
    <2>a. gas' = gas
      BY <1>2 DEF PayOut
    <2>2. credit[Self] \in Nat /\ credit[Self] + amount \in Nat /\ Self \in Accounts
      BY PartiesTyped DEF TypeOK
    <2>3. /\ Total(Accounts, credit) \in Nat /\ Total(Accounts, credit') \in Nat
          /\ Total(Accounts, credit') + credit[Self]
               = Total(Accounts, credit) + (credit[Self] + amount)
      BY <2>1, <2>2, CreditChange
    <2>4. accrued \in Nat /\ gas = Total(Accounts, credit) + accrued
      BY DEF FeeInv, TypeOK
    <2> QED
      BY <1>1, <2>a, <2>2, <2>3, <2>4
  <1>3. CASE to # Self
    <2>1. credit' = credit /\ gas' = gas - amount
      BY <1>3 DEF PayOut
    <2>2. Total(Accounts, credit) \in Nat
      BY AccountsFinite, TotalType DEF TypeOK
    <2> QED
      BY <1>1, <2>1, <2>2 DEF FeeInv, TypeOK
  <1> QED
    BY <1>2, <1>3

LEMMA FeeStep ==
  ASSUME Reentrant = {}, TypeOK, ReservedExact, FeeInv, Next
  PROVE  FeeInv'
  <1>0. /\ accrued \in Nat /\ reserved \in Nat /\ requestFee \in Nat /\ accrued >= reserved
        /\ gas = Total(Accounts, credit) + accrued
    BY DEF FeeInv, TypeOK
  <1>1. CASE UNCHANGED <<withdrawals, accrued, reserved, gas, credit>>
    BY <1>1 DEF FeeInv
  <1>2. ASSUME NEW ws \in Witnesses, NEW from \in Accounts, NEW b \in Accounts,
               NEW d \in Deposits, OnNEP17Payment(ws, from, b, d)
        PROVE  FeeInv'
    <2>1. credit' = [credit EXCEPT ![b] = credit[b] + d]
      BY <1>2 DEF OnNEP17Payment
    <2>a. gas' = gas + d /\ UNCHANGED <<withdrawals, accrued, reserved>>
      BY <1>2 DEF OnNEP17Payment
    <2>2. d \in Nat /\ credit[b] \in Nat /\ credit[b] + d \in Nat
      BY AmountsTyped DEF TypeOK
    <2>3. /\ Total(Accounts, credit) \in Nat /\ Total(Accounts, credit') \in Nat
          /\ Total(Accounts, credit') + credit[b] = Total(Accounts, credit) + (credit[b] + d)
      BY <2>1, <2>2, CreditChange
    <2>4. gas' = Total(Accounts, credit') + accrued'
      BY <1>0, <2>a, <2>2, <2>3
    <2> QED
      BY <2>a, <2>4 DEF FeeInv
  <1>3. ASSUME NEW ws \in Witnesses, NEW to \in Accounts, NEW amount \in Nat,
               WithdrawAccruedFees(ws, to, amount)
        PROVE  FeeInv'
    BY <1>3, PayOutBalance DEF WithdrawAccruedFees, FeeInv
  <1>4. ASSUME NEW ws \in Witnesses, NEW to \in Accounts, NEW amount \in Nat,
               BeginWithdrawal(ws, to, amount)
        PROVE  FALSE
    BY <1>4 DEF BeginWithdrawal
  <1>5. ASSUME EndWithdrawal PROVE FALSE
    BY <1>5 DEF EndWithdrawal, FeeInv
  <1>6. ASSUME NEW u \in Accounts, NEW a \in Apps, NEW m \in Modules, NEW op \in Operations,
               SubmitMiniAppRequestInternal(u, a, m, op)
        PROVE  FeeInv'
    <2>1. PICK x \in Accounts, r \in KernelRequest, n \in Nat : Submitted(u, a, x, r, n)
      BY <1>6, SubmitEffect
    <2>2. credit' = [credit EXCEPT ![x] = credit[x] - requestFee]
      BY <2>1 DEF Submitted
    <2>a. /\ credit[x] >= requestFee
          /\ accrued' = accrued + requestFee /\ reserved' = reserved + requestFee
          /\ UNCHANGED <<withdrawals, gas>>
      BY <2>1 DEF Submitted
    <2>3. credit[x] \in Nat /\ requestFee \in Nat /\ credit[x] - requestFee \in Nat
      BY <2>a DEF TypeOK
    <2>4. /\ Total(Accounts, credit) \in Nat /\ Total(Accounts, credit') \in Nat
          /\ Total(Accounts, credit') + credit[x]
               = Total(Accounts, credit) + (credit[x] - requestFee)
      BY <2>2, <2>3, CreditChange
    <2>5. gas' = Total(Accounts, credit') + accrued'
      BY <1>0, <2>a, <2>3, <2>4
    <2>6. accrued' >= reserved'
      BY <1>0, <2>a
    <2> QED
      BY <2>a, <2>5, <2>6 DEF FeeInv
  <1>7. ASSUME NEW ws \in Witnesses, NEW id \in Ids, NEW o \in Outcomes, NEW sig \in signed,
               FulfillRequest(ws, id, o, sig)
        PROVE  FeeInv'
    <2>1. requests[id].feePaid \in Nat
      BY <1>7, PendingIsReserved DEF FulfillRequest, RequirePending
    <2>2. UNCHANGED <<withdrawals, accrued, gas, credit>>
          /\ ReleaseReservedFee(requests[id].feePaid)
      BY <1>7 DEF FulfillRequest
    <2> QED
      BY <2>1, <2>2 DEF ReleaseReservedFee, FeeInv, TypeOK
  <1>8. ASSUME NEW ws \in Witnesses, NEW id \in Ids, ExpireStaleRequest(ws, id)
        PROVE  FeeInv'
    <2> DEFINE fee == requests[id].feePaid
               x == requests[id].sponsor
    <2>1. fee \in Nat /\ fee <= reserved
      BY <1>8, PendingIsReserved DEF ExpireStaleRequest, RequirePending
    <2>2. Refund(id) = fee
      BY <2>1 DEF Refund, FeeInv, TypeOK
    <2>3. credit' = [credit EXCEPT ![x] = credit[x] + fee]
      BY <1>8, <2>2 DEF ExpireStaleRequest
    <2>a. /\ accrued' = accrued - fee
          /\ reserved' = IF reserved > fee THEN reserved - fee ELSE 0
          /\ UNCHANGED <<withdrawals, gas>>
      BY <1>8, <2>2 DEF ExpireStaleRequest, ReleaseReservedFee
    <2>4. x \in Accounts
      BY RequestTyped DEF KernelRequest
    <2> HIDE DEF fee, x
    <2>5. credit[x] \in Nat /\ credit[x] + fee \in Nat
      BY <2>1, <2>4 DEF TypeOK
    <2>6. /\ Total(Accounts, credit) \in Nat /\ Total(Accounts, credit') \in Nat
          /\ Total(Accounts, credit') + credit[x] = Total(Accounts, credit) + (credit[x] + fee)
      BY <2>3, <2>4, <2>5, CreditChange
    <2>7. gas' = Total(Accounts, credit') + accrued'
      <3> DEFINE old == Total(Accounts, credit)
                 new == Total(Accounts, credit')
                 c   == credit[x]
      <3>1. /\ old \in Nat /\ new \in Nat /\ c \in Nat /\ fee \in Nat
            /\ new + c = old + (c + fee)
            /\ gas = old + accrued /\ gas' = gas /\ accrued' = accrued - fee
        BY <1>0, <2>1, <2>a, <2>5, <2>6
      <3> HIDE DEF old, new, c
      <3>2. new = old + fee
        BY <3>1
      <3>3. gas' = new + accrued'
        BY <1>0, <3>1, <3>2
      <3> QED
        BY <3>3 DEF new
    <2>8. accrued' >= reserved'
      BY <1>0, <2>1, <2>a
    <2> QED
      BY <2>a, <2>7, <2>8 DEF FeeInv
  <1>9. ASSUME NEW ws \in Witnesses, RegistryNext(ws), UNCHANGED kernelVars
        PROVE  FeeInv'
    BY <1>1, <1>9 DEF kernelVars, feeVars
  <1>10. ASSUME NEW ws \in Witnesses, NEW v, SetRequestFee(ws, v) \/ SetRequestTTL(ws, v)
         PROVE  FeeInv'
    BY <1>1, <1>10 DEF SetRequestFee, SetRequestTTL, feeVars
  <1>11. ASSUME NEW key, NEW id, NEW o, SignFulfillment(key, id, o) PROVE FeeInv'
    BY <1>1, <1>11 DEF SignFulfillment, feeVars
  <1>12. ASSUME Tick PROVE FeeInv'
    BY <1>1, <1>12 DEF Tick, feeVars
  <1> QED
    BY <1>2, <1>3, <1>4, <1>5, <1>6, <1>7, <1>8, <1>9, <1>10, <1>11, <1>12, StepCases

LEMMA FeeInvariant ==
  ASSUME Reentrant = {}
  PROVE  Spec => []FeeInv
  <1>1. Init => FeeInv
    <2> SUFFICES ASSUME Init PROVE FeeInv
      OBVIOUS
    <2>1. Units(Accounts, credit) = {}
      BY DEF Init, Units
    <2>2. Total(Accounts, credit) = 0
      BY <2>1, FS_EmptySet DEF Total
    <2>3. accrued = 0 /\ reserved = 0 /\ gas = 0 /\ withdrawals = <<>>
      BY DEF Init
    <2> QED
      BY <2>2, <2>3 DEF FeeInv
  <1>2. TypeOK /\ ReservedExact /\ FeeInv /\ [Next]_vars => FeeInv'
    <2>1. FeeInv /\ UNCHANGED vars => FeeInv'
      BY DEF FeeInv, vars, kernelVars, feeVars
    <2> QED
      BY <2>1, FeeStep
  <1> QED
    BY <1>1, <1>2, KernelTypeCorrect, ReservedIsPending, PTL DEF Spec

(***************************************************************************)
(* When no withdrawal recipient re-enters the kernel, the accrued pool     *)
(* always covers the reserved one, the contract holds exactly what it owes *)
(* and the refund of every pending request would be its whole fee.         *)
(***************************************************************************)
THEOREM FeePools ==
  ASSUME Reentrant = {}
  PROVE  Spec => [](AccruedCoversReserved /\ Solvent /\ RefundWhole)
  <1>1. TypeOK /\ ReservedExact /\ FeeInv => AccruedCoversReserved /\ Solvent /\ RefundWhole
    <2> SUFFICES ASSUME TypeOK, ReservedExact, FeeInv, NEW id \in Ids, Pending(id)
                 PROVE  Refund(id) = requests[id].feePaid
      BY DEF AccruedCoversReserved, Solvent, RefundWhole, FeeInv
    <2> QED
      BY PendingIsReserved DEF Refund, FeeInv, TypeOK
  <1> QED
    BY <1>1, KernelTypeCorrect, ReservedIsPending, FeeInvariant, PTL

(***************************************************************************)
(* Whatever recipients re-enter, only the end of a withdrawal whose        *)
(* recipient left more fees reserved than WithdrawAccruedFees had read     *)
(* takes the accrued pool below the reserved one.                          *)
(***************************************************************************)
THEOREM ReentryAlone == Spec => OnlyReentryUncovers
  <1> DEFINE Uncovers == accrued >= reserved /\ accrued' < reserved'
             Reentry  == /\ Len(withdrawals') < Len(withdrawals)
                         /\ reserved > withdrawals[Len(withdrawals)].reserved
  <1>1. TypeOK /\ Uncovers /\ [Next]_vars => Reentry
    <2> SUFFICES ASSUME TypeOK, Uncovers, [Next]_vars PROVE Reentry
      OBVIOUS
    <2>0. accrued \in Nat /\ reserved \in Nat /\ requestFee \in Nat
      BY DEF TypeOK
    <2>1. ASSUME UNCHANGED <<accrued, reserved>> PROVE FALSE
      BY <2>0, <2>1
    <2>2. ASSUME NEW ws \in Witnesses, NEW to \in Accounts, NEW amount \in Nat,
                 WithdrawAccruedFees(ws, to, amount)
          PROVE  FALSE
      BY <2>0, <2>2 DEF WithdrawAccruedFees, Withdrawable
    <2>3. ASSUME NEW u \in Accounts, NEW a \in Apps, NEW m \in Modules, NEW op \in Operations,
                 SubmitMiniAppRequestInternal(u, a, m, op)
          PROVE  FALSE
      <3>1. PICK x \in Accounts, q \in KernelRequest, n \in Nat : Submitted(u, a, x, q, n)
        BY <2>3, SubmitEffect
      <3>2. accrued' = accrued + requestFee /\ reserved' = reserved + requestFee
        BY <3>1 DEF Submitted
      <3> QED
        BY <2>0, <3>2
    <2>4. ASSUME NEW ws \in Witnesses, NEW id \in Ids, NEW o \in Outcomes, NEW sig \in signed,
                 FulfillRequest(ws, id, o, sig)
          PROVE  FALSE
      <3>1. requests[id].feePaid \in Nat
        BY RequestTyped DEF KernelRequest
      <3> QED
        BY <2>0, <2>4, <3>1 DEF FulfillRequest, ReleaseReservedFee
    <2>5. ASSUME NEW ws \in Witnesses, NEW id \in Ids, ExpireStaleRequest(ws, id)
          PROVE  FALSE
      <3>1. requests[id].feePaid \in Nat
        BY RequestTyped DEF KernelRequest
      <3> DEFINE fee == requests[id].feePaid
      <3>2. accrued' = accrued - Refund(id)
        BY <2>5 DEF ExpireStaleRequest
      <3>3. reserved' = IF reserved > fee THEN reserved - fee ELSE 0
        BY <2>5 DEF ExpireStaleRequest, ReleaseReservedFee
      <3>4. Refund(id) = IF accrued < fee THEN accrued ELSE fee
        BY DEF Refund
      <3> HIDE DEF fee
      <3> QED
        BY <2>0, <3>1, <3>2, <3>3, <3>4 DEF fee
    <2>6. ASSUME EndWithdrawal PROVE Reentry
      <3> DEFINE n == Len(withdrawals)
      <3>1. withdrawals \in Seq(Withdrawal) /\ withdrawals # <<>>
        BY <2>6 DEF TypeOK, EndWithdrawal
      <3>2. n \in Nat /\ n > 0
        BY <3>1, EmptySeq
      <3>3. withdrawals[n] \in Withdrawal
        BY <3>1, <3>2, ElementOfSeq
      <3>4. reserved > withdrawals[n].reserved
        BY <2>0, <2>6, <3>3 DEF EndWithdrawal, Withdrawal
      <3>5. Len(withdrawals') = n - 1
        <4>1. withdrawals' = SubSeq(withdrawals, 1, n - 1)
          BY <2>6 DEF EndWithdrawal
        <4>2. \A i \in 1 .. n - 1 : withdrawals[i] \in Withdrawal
          BY <3>1, <3>2, ElementOfSeq
        <4> HIDE DEF n
        <4>3. Len(SubSeq(withdrawals, 1, n - 1)) = IF 1 <= n - 1 THEN (n - 1) - 1 + 1 ELSE 0
          BY <3>2, <4>2, SubSeqProperties
        <4> QED
          BY <3>2, <4>1, <4>3
      <3> QED
        BY <3>2, <3>4, <3>5
    <2> HIDE DEF Uncovers, Reentry
    <2>7. CASE Next
      <3>1. \/ UNCHANGED <<accrued, reserved>>
            \/ \E ws \in Witnesses, to \in Accounts, amount \in Nat :
                 WithdrawAccruedFees(ws, to, amount)
            \/ \E u \in Accounts, a \in Apps, m \in Modules, op \in Operations :
                 SubmitMiniAppRequestInternal(u, a, m, op)
            \/ \E ws \in Witnesses, id \in Ids, o \in Outcomes, sig \in signed :
                 FulfillRequest(ws, id, o, sig)
            \/ \E ws \in Witnesses, id \in Ids : ExpireStaleRequest(ws, id)
            \/ EndWithdrawal
        BY <2>7, StepCases
           DEF kernelVars, feeVars, SetRequestFee, SetRequestTTL, OnNEP17Payment,
               BeginWithdrawal, SignFulfillment, Tick
      <3> QED
        BY <2>1, <2>2, <2>3, <2>4, <2>5, <2>6, <3>1
    <2>8. CASE UNCHANGED vars
      BY <2>1, <2>8 DEF vars, kernelVars, feeVars
    <2> QED
      BY <2>7, <2>8
  <1> QED
    BY <1>1, KernelTypeCorrect, PTL DEF Spec, OnlyReentryUncovers

\* An expiry of ExpireStaleRequest gives back the whole fee, so the clamp of
\* its refund never bites.
COROLLARY RefundsWhole ==
  ASSUME Reentrant = {}
  PROVE  Spec => []RefundWhole
  BY FeePools, PTL

-----------------------------------------------------------------------------
(***************************************************************************)
(* Outcomes.  A pending request holds no result yet, which is what makes   *)
(* the request of an expiry agree with the inbox item it writes.           *)
(***************************************************************************)
PendingBlank ==
  \A id \in Ids : Pending(id) => requests[id].result = "" /\ requests[id].error = ""

Settled(id, o) ==
  /\ Pending(id)
  /\ Ids' = Ids /\ Len(requests') = Len(requests)
  /\ \A j \in Ids : j # id => requests'[j] = requests[j]
  /\ requests'[id].app = requests[id].app
  /\ requests'[id].module = requests[id].module
  /\ requests'[id].operation = requests[id].operation
  /\ requests'[id].requester = requests[id].requester
  /\ requests'[id].sponsor = requests[id].sponsor
  /\ requests'[id].feePaid = requests[id].feePaid
  /\ requests'[id].status # "Pending"
  /\ requests'[id].success = o.success
  /\ requests'[id].result = o.result
  /\ requests'[id].error = o.error
  /\ StoreInbox(id, o)

LEMMA FulfillSettles ==
  ASSUME TypeOK, NEW id \in Ids, NEW ws, NEW o \in Outcomes, NEW sig,
         FulfillRequest(ws, id, o, sig)
  PROVE  Settled(id, o)
  <1> DEFINE r == SettledAs(requests[id], o)
  <1>1. requests[id] \in KernelRequest /\ r \in KernelRequest
    BY RequestTyped, OutcomesTyped, SettledTyped
  <1>2. /\ r.app = requests[id].app /\ r.module = requests[id].module
        /\ r.operation = requests[id].operation /\ r.requester = requests[id].requester
        /\ r.sponsor = requests[id].sponsor /\ r.feePaid = requests[id].feePaid
        /\ r.status # "Pending"
        /\ r.success = o.success /\ r.result = o.result /\ r.error = o.error
    BY <1>1 DEF SettledAs, KernelRequest
  <1>3. Pending(id) /\ requests' = [requests EXCEPT ![id] = r] /\ StoreInbox(id, o)
    BY DEF FulfillRequest, RequirePending
  <1> HIDE DEF r
  <1>4. /\ Len(requests') = Len(requests) /\ Ids' = Ids /\ requests'[id] = r
        /\ \A j \in Ids : j # id => requests'[j] = requests[j]
    BY <1>1, <1>3, RequestWritten
  <1> QED
    BY <1>2, <1>3, <1>4 DEF Settled

ExpiryOutcome == [success |-> FALSE, result |-> "", error |-> ExpiryError]

LEMMA ExpirySettles ==
  ASSUME TypeOK, PendingBlank, NEW id \in Ids, NEW ws, ExpireStaleRequest(ws, id)
  PROVE  Settled(id, ExpiryOutcome)
  <1> DEFINE r == Expired(requests[id])
  <1>1. requests[id] \in KernelRequest /\ r \in KernelRequest
    BY RequestTyped, ExpiredTyped
  <1>2. requests[id].result = ""
    BY DEF ExpireStaleRequest, RequirePending, PendingBlank
  <1>3. /\ r.app = requests[id].app /\ r.module = requests[id].module
        /\ r.operation = requests[id].operation /\ r.requester = requests[id].requester
        /\ r.sponsor = requests[id].sponsor /\ r.feePaid = requests[id].feePaid
        /\ r.status # "Pending"
        /\ r.success = FALSE /\ r.result = "" /\ r.error = ExpiryError
    BY <1>1, <1>2 DEF Expired, KernelRequest
  <1>4. /\ Pending(id) /\ requests' = [requests EXCEPT ![id] = r]
        /\ StoreInbox(id, ExpiryOutcome)
    BY DEF ExpireStaleRequest, RequirePending, ExpiryOutcome
  <1>5. /\ ExpiryOutcome.success = FALSE /\ ExpiryOutcome.result = ""
        /\ ExpiryOutcome.error = ExpiryError
    BY DEF ExpiryOutcome
  <1> HIDE DEF r
  <1>6. /\ Len(requests') = Len(requests) /\ Ids' = Ids /\ requests'[id] = r
        /\ \A j \in Ids : j # id => requests'[j] = requests[j]
    BY <1>1, <1>4, RequestWritten
  <1> QED
    BY <1>3, <1>4, <1>5, <1>6 DEF Settled

(***************************************************************************)
(* A step leaves requests and inbox alone, appends a pending request, or   *)
(* settles one.                                                            *)
(***************************************************************************)
LEMMA OutcomeCases ==
  ASSUME TypeOK, PendingBlank, Next
  PROVE  \/ UNCHANGED <<requests, inbox>>
         \/ \E u \in Accounts, a \in Apps, payer \in Accounts, r \in KernelRequest, n \in Nat :
               Submitted(u, a, payer, r, n)
         \/ \E id \in Ids : \E o : Settled(id, o)
  <1>1. ASSUME NEW u \in Accounts, NEW a \in Apps, NEW m \in Modules, NEW op \in Operations,
               SubmitMiniAppRequestInternal(u, a, m, op)
        PROVE  \E payer \in Accounts, r \in KernelRequest, n \in Nat : Submitted(u, a, payer, r, n)
    BY <1>1, SubmitEffect
  <1>2. ASSUME NEW ws \in Witnesses, NEW id \in Ids, NEW o \in Outcomes, NEW sig \in signed,
               FulfillRequest(ws, id, o, sig)
        PROVE  Settled(id, o)
    BY <1>2, FulfillSettles
  <1>3. ASSUME NEW ws \in Witnesses, NEW id \in Ids, ExpireStaleRequest(ws, id)
        PROVE  Settled(id, ExpiryOutcome)
    BY <1>3, ExpirySettles
  <1>4. \/ UNCHANGED <<requests, inbox>>
        \/ \E u \in Accounts, a \in Apps, m \in Modules, op \in Operations :
             SubmitMiniAppRequestInternal(u, a, m, op)
        \/ \E ws \in Witnesses, id \in Ids, o \in Outcomes, sig \in signed :
             FulfillRequest(ws, id, o, sig)
        \/ \E ws \in Witnesses, id \in Ids : ExpireStaleRequest(ws, id)
    BY StepCases
       DEF kernelVars, requestVars, SetRequestFee, SetRequestTTL, OnNEP17Payment,
           WithdrawAccruedFees, BeginWithdrawal, EndWithdrawal, SignFulfillment, Tick
  <1> QED
    BY <1>1, <1>2, <1>3, <1>4

LEMMA BlankStep ==
  ASSUME TypeOK, PendingBlank, Next
  PROVE  PendingBlank'
  <1>1. CASE UNCHANGED <<requests, inbox>>
    BY <1>1 DEF PendingBlank, Pending, Ids
  <1>2. ASSUME NEW u, NEW a, NEW payer, NEW r, NEW n, Submitted(u, a, payer, r, n)
        PROVE  PendingBlank'
    BY <1>2 DEF PendingBlank, Pending, Submitted
  <1>3. ASSUME NEW id \in Ids, NEW o, Settled(id, o)
        PROVE  PendingBlank'
    BY <1>3 DEF PendingBlank, Pending, Settled
  <1> QED
    BY <1>1, <1>2, <1>3, OutcomeCases

LEMMA BlankInvariant == Spec => []PendingBlank
  <1>1. Init => PendingBlank
    BY NoIds DEF PendingBlank
  <1>2. TypeOK /\ PendingBlank /\ [Next]_vars => PendingBlank'
    <2>1. PendingBlank /\ UNCHANGED vars => PendingBlank'
      BY DEF PendingBlank, Pending, Ids, vars, kernelVars, requestVars
    <2> QED
      BY <2>1, BlankStep
  <1> QED
    BY <1>1, <1>2, KernelTypeCorrect, PTL DEF Spec

(***************************************************************************)
(* A settled request and its inbox item are never written again: a second  *)
(* settlement is refused, and settling another request removes nothing.    *)
(***************************************************************************)
LEMMA FinalStep ==
  ASSUME TypeOK, PendingBlank, Next, NEW id \in Ids, ~Pending(id)
  PROVE  requests'[id] = requests[id] /\ InboxOf(id)' = InboxOf(id)
  <1>1. CASE UNCHANGED <<requests, inbox>>
    BY <1>1 DEF InboxOf
  <1>2. ASSUME NEW u, NEW a, NEW payer, NEW r, NEW n, Submitted(u, a, payer, r, n)
        PROVE  requests'[id] = requests[id] /\ InboxOf(id)' = InboxOf(id)
    BY <1>2 DEF Submitted, InboxOf
  <1>3. ASSUME NEW j \in Ids, NEW o, Settled(j, o)
        PROVE  requests'[id] = requests[id] /\ InboxOf(id)' = InboxOf(id)
    <2>1. id # j /\ requests'[id] = requests[id]
      BY <1>3 DEF Settled
    <2>2. \A i : i.id = id => (i \in inbox' <=> i \in inbox)
      <3> DEFINE item == [id |-> j, app |-> requests[j].app, module |-> requests[j].module,
                          operation |-> requests[j].operation,
                          requester |-> requests[j].requester, success |-> o.success,
                          result |-> o.result, error |-> o.error]
      <3>1. inbox' = {i \in inbox : ~(i.id = j /\ i.app = requests[j].app)} \cup {item}
        BY <1>3 DEF Settled, StoreInbox, InboxEntry
      <3>2. item.id = j
        OBVIOUS
      <3> HIDE DEF item
      <3> QED
        BY <2>1, <3>1, <3>2
    <2> QED
      BY <2>1, <2>2 DEF InboxOf
  <1> QED
    BY <1>1, <1>2, <1>3, OutcomeCases

(***************************************************************************)
(* Whatever comes first, an answer or an expiry, is final: no later step   *)
(* changes the request or its inbox item.                                  *)
(***************************************************************************)
THEOREM OutcomesAreFinal == Spec => OutcomeFinal
  <1> DEFINE Final == \A id \in Ids : ~Pending(id) =>
                         requests'[id] = requests[id] /\ InboxOf(id)' = InboxOf(id)
  <1>1. TypeOK /\ PendingBlank /\ [Next]_vars => [Final]_vars
    BY FinalStep
  <1> HIDE DEF Final
  <1>2. Spec => [][Final]_vars
    BY <1>1, KernelTypeCorrect, BlankInvariant, PTL DEF Spec
  <1> QED
    BY <1>2 DEF Final, OutcomeFinal

(***************************************************************************)
(* The inbox says what the request store says.                             *)
(***************************************************************************)
LEMMA MirrorStep ==
  ASSUME TypeOK, PendingBlank, InboxMirrorsRequests, Next
  PROVE  InboxMirrorsRequests'
  <1>1. CASE UNCHANGED <<requests, inbox>>
    BY <1>1 DEF InboxMirrorsRequests, InboxOf, MirrorItem, Pending, Ids
  <1>2. ASSUME NEW u, NEW a, NEW payer, NEW r, NEW n, Submitted(u, a, payer, r, n)
        PROVE  InboxMirrorsRequests'
    <2>1. /\ inbox' = inbox /\ n \notin Ids /\ Ids' = Ids \cup {n}
          /\ \A id \in Ids : requests'[id] = requests[id]
          /\ requests'[n].status = "Pending"
      BY <1>2 DEF Submitted
    <2>2. \A id \in Ids : /\ InboxOf(id)' = InboxOf(id) /\ Pending(id)' = Pending(id)
                           /\ MirrorItem(id)' = MirrorItem(id)
      BY <2>1 DEF InboxOf, Pending, MirrorItem
    <2>3. InboxOf(n)' = {} /\ Pending(n)'
      BY <2>1 DEF InboxOf, Pending, InboxMirrorsRequests
    <2>4. \A id \in Ids' : InboxOf(id)' = IF Pending(id)' THEN {} ELSE {MirrorItem(id)'}
      BY <2>1, <2>2, <2>3 DEF InboxMirrorsRequests
    <2>5. \A i \in inbox' : i.id \in Ids'
      BY <2>1 DEF InboxMirrorsRequests
    <2> QED
      BY <2>4, <2>5 DEF InboxMirrorsRequests
  <1>3. ASSUME NEW j \in Ids, NEW o, Settled(j, o)
        PROVE  InboxMirrorsRequests'
    <2> DEFINE item == [id |-> j, app |-> requests[j].app, module |-> requests[j].module,
                        operation |-> requests[j].operation,
                        requester |-> requests[j].requester, success |-> o.success,
                        result |-> o.result, error |-> o.error]
    <2>1. inbox' = {i \in inbox : ~(i.id = j /\ i.app = requests[j].app)} \cup {item}
      BY <1>3 DEF Settled, StoreInbox, InboxEntry
    <2>2. item.id = j /\ item = MirrorItem(j)'
      BY <1>3 DEF Settled, MirrorItem
    <2>3. \A i \in inbox : i.id # j
      BY <1>3 DEF Settled, InboxMirrorsRequests, InboxOf
    <2> HIDE DEF item
    <2>4. InboxOf(j)' = {item} /\ ~Pending(j)'
      BY <1>3, <2>1, <2>2, <2>3 DEF InboxOf, Pending, Settled
    <2>5. ASSUME NEW id \in Ids, id # j
          PROVE  /\ InboxOf(id)' = InboxOf(id) /\ Pending(id)' = Pending(id)
                 /\ MirrorItem(id)' = MirrorItem(id)
      <3>1. requests'[id] = requests[id]
        BY <1>3, <2>5 DEF Settled
      <3> QED
        BY <2>1, <2>2, <2>3, <2>5, <3>1 DEF InboxOf, Pending, MirrorItem
    <2>6. ASSUME NEW id \in Ids
          PROVE  InboxOf(id)' = IF Pending(id)' THEN {} ELSE {MirrorItem(id)'}
      <3>1. CASE id = j
        BY <2>2, <2>4, <3>1
      <3>2. CASE id # j
        BY <2>5, <3>2 DEF InboxMirrorsRequests
      <3> QED
        BY <3>1, <3>2
    <2>7. Ids' = Ids
      BY <1>3 DEF Settled
    <2>8. \A i \in inbox' : i.id \in Ids
      BY <2>1, <2>2 DEF InboxMirrorsRequests
    <2> QED
      BY <2>6, <2>7, <2>8 DEF InboxMirrorsRequests
  <1> QED
    BY <1>1, <1>2, <1>3, OutcomeCases

(***************************************************************************)
(* A consumer that only reads the inbox sees nothing for a pending request *)
(* and exactly its stored outcome afterwards, in every reachable state.    *)
(***************************************************************************)
THEOREM InboxIsMirror == Spec => []InboxMirrorsRequests
  <1>1. Init => InboxMirrorsRequests
    <2> SUFFICES ASSUME Init PROVE InboxMirrorsRequests
      OBVIOUS
    <2>1. Ids = {} /\ inbox = {}
      BY NoIds DEF Init
    <2> QED
      BY <2>1 DEF InboxMirrorsRequests
  <1>2. TypeOK /\ PendingBlank /\ InboxMirrorsRequests /\ [Next]_vars => InboxMirrorsRequests'
    <2>1. InboxMirrorsRequests /\ UNCHANGED vars => InboxMirrorsRequests'
      BY DEF InboxMirrorsRequests, InboxOf, MirrorItem, Pending, Ids, vars, kernelVars, requestVars
    <2> QED
      BY <2>1, MirrorStep
  <1> QED
    BY <1>1, <1>2, KernelTypeCorrect, BlankInvariant, PTL DEF Spec

(***************************************************************************)
(* Answers are attested.                                                   *)
(***************************************************************************)
StoredOutcome(id) ==
  [success |-> requests[id].success, result |-> requests[id].result, error |-> requests[id].error]

AttestedAt(id) ==
  ~Pending(id) /\ requests[id].error # ExpiryError =>
    \E sig \in signed : sig.digest = ComputeFulfillmentDigest(id, StoredOutcome(id))

LEMMA AttestedStep ==
  ASSUME TypeOK, PendingBlank, OutcomeAttested, Next
  PROVE  OutcomeAttested'
  <1>0. \A id \in Ids : AttestedAt(id)
    BY DEF OutcomeAttested, AttestedAt, StoredOutcome
  <1> SUFFICES \A id \in Ids' : AttestedAt(id)'
    BY DEF OutcomeAttested, AttestedAt, StoredOutcome
  <1>1. ASSUME NEW id \in Ids, requests'[id] = requests[id], signed \subseteq signed'
        PROVE  AttestedAt(id)'
    BY <1>0, <1>1 DEF AttestedAt, StoredOutcome, Pending, ComputeFulfillmentDigest
  <1>2. CASE Ids' = Ids /\ requests' = requests /\ signed \subseteq signed'
    BY <1>1, <1>2
  <1>3. ASSUME NEW u, NEW a, NEW payer, NEW r, NEW n, Submitted(u, a, payer, r, n)
        PROVE  \A id \in Ids' : AttestedAt(id)'
    <2>1. /\ Ids' = Ids \cup {n} /\ signed' = signed /\ requests'[n].status = "Pending"
          /\ \A id \in Ids : requests'[id] = requests[id]
      BY <1>3 DEF Submitted
    <2>2. AttestedAt(n)'
      BY <2>1 DEF AttestedAt, Pending
    <2> QED
      BY <1>1, <2>1, <2>2
  <1>4. ASSUME NEW ws \in Witnesses, NEW j \in Ids, NEW o \in Outcomes, NEW sig \in signed,
               FulfillRequest(ws, j, o, sig)
        PROVE  \A id \in Ids' : AttestedAt(id)'
    <2>1. Settled(j, o) /\ signed' = signed /\ sig.digest = ComputeFulfillmentDigest(j, o)
      BY <1>4, FulfillSettles DEF FulfillRequest, SignatureValid
    <2>2. ComputeFulfillmentDigest(j, StoredOutcome(j))' = ComputeFulfillmentDigest(j, o)
      BY <2>1 DEF Settled, ComputeFulfillmentDigest, StoredOutcome
    <2>3. AttestedAt(j)'
      BY <2>1, <2>2 DEF AttestedAt
    <2>4. Ids' = Ids /\ \A id \in Ids : id # j => requests'[id] = requests[id]
      BY <2>1 DEF Settled
    <2> QED
      BY <1>1, <2>1, <2>3, <2>4
  <1>5. ASSUME NEW ws \in Witnesses, NEW j \in Ids, ExpireStaleRequest(ws, j)
        PROVE  \A id \in Ids' : AttestedAt(id)'
    <2>1. Settled(j, ExpiryOutcome) /\ signed' = signed
      BY <1>5, ExpirySettles DEF ExpireStaleRequest
    <2>2. AttestedAt(j)'
      BY <2>1 DEF Settled, ExpiryOutcome, AttestedAt
    <2>3. Ids' = Ids /\ \A id \in Ids : id # j => requests'[id] = requests[id]
      BY <2>1 DEF Settled
    <2> QED
      BY <1>1, <2>1, <2>2, <2>3
  <1>6. \/ Ids' = Ids /\ requests' = requests /\ signed \subseteq signed'
        \/ \E u \in Accounts, a \in Apps, m \in Modules, op \in Operations :
             SubmitMiniAppRequestInternal(u, a, m, op)
        \/ \E ws \in Witnesses, id \in Ids, o \in Outcomes, sig \in signed :
             FulfillRequest(ws, id, o, sig)
        \/ \E ws \in Witnesses, id \in Ids : ExpireStaleRequest(ws, id)
    BY StepCases
       DEF kernelVars, requestVars, SetRequestFee, SetRequestTTL, OnNEP17Payment,
           WithdrawAccruedFees, BeginWithdrawal, EndWithdrawal, SignFulfillment, Tick, Ids
  <1>7. ASSUME NEW u \in Accounts, NEW a \in Apps, NEW m \in Modules, NEW op \in Operations,
               SubmitMiniAppRequestInternal(u, a, m, op)
        PROVE  \A id \in Ids' : AttestedAt(id)'
    BY <1>3, <1>7, SubmitEffect
  <1> QED
    BY <1>2, <1>4, <1>5, <1>6, <1>7

(***************************************************************************)
(* Every answer the kernel stores was signed by a runtime key for exactly  *)
(* that request, its app, module, operation and outcome.                   *)
(***************************************************************************)
THEOREM AnswersAttested == Spec => []OutcomeAttested
  <1>1. Init => OutcomeAttested
    BY NoIds DEF OutcomeAttested
  <1>2. TypeOK /\ PendingBlank /\ OutcomeAttested /\ [Next]_vars => OutcomeAttested'
    <2>1. OutcomeAttested /\ UNCHANGED vars => OutcomeAttested'
      BY DEF OutcomeAttested, ComputeFulfillmentDigest, Pending, Ids, vars, kernelVars, requestVars
    <2> QED
      BY <2>1, AttestedStep
  <1> QED
    BY <1>1, <1>2, KernelTypeCorrect, BlankInvariant, PTL DEF Spec

-----------------------------------------------------------------------------
(***************************************************************************)
(* The kernel implements the abstract escrow.                              *)
(***************************************************************************)

(***************************************************************************)
(* An entry stands for one request, and a settlement closes that entry.    *)
(***************************************************************************)
LEMMA EntryClosed ==
  ASSUME TypeOK, NEW id \in Ids, NEW o, Settled(id, o)
  PROVE  /\ OpenEntry(id) \in OpenEntries
         /\ OpenEntries' = OpenEntries \ {OpenEntry(id)}
  <1>1. /\ Pending(id) /\ ~Pending(id)' /\ Ids' = Ids
        /\ \A j \in Ids : j # id => requests'[j] = requests[j]
    BY DEF Settled, Pending
  <1>2. \A j \in Ids : j # id => OpenEntry(j)' = OpenEntry(j) /\ Pending(j)' = Pending(j)
    BY <1>1 DEF OpenEntry, Pending
  <1>3. \A j \in Ids : OpenEntry(j).id = j /\ OpenEntry(j)'.id = j
    BY DEF OpenEntry
  <1>4. OpenEntries = {OpenEntry(j) : j \in {i \in Ids : Pending(i)}}
    BY DEF OpenEntries
  <1>5. OpenEntries' = {OpenEntry(j)' : j \in {i \in Ids : Pending(i)'}}
    BY <1>1 DEF OpenEntries
  <1>6. \A e : e \in OpenEntries' <=> \E j \in Ids : Pending(j) /\ j # id /\ e = OpenEntry(j)
    BY <1>1, <1>2, <1>5
  <1>7. \A e : e \in OpenEntries <=> \E j \in Ids : Pending(j) /\ e = OpenEntry(j)
    BY <1>4
  <1> QED
    BY <1>1, <1>3, <1>6, <1>7

LEMMA EntryOpened ==
  ASSUME TypeOK, NEW u, NEW a, NEW payer, NEW r, NEW n, Submitted(u, a, payer, r, n)
  PROVE  OpenEntries' = OpenEntries \cup {[id |-> n, payer |-> payer, fee |-> requestFee]}
  <1>1. /\ Ids' = Ids \cup {n} /\ n \notin Ids
        /\ \A j \in Ids : requests'[j] = requests[j]
        /\ requests'[n].status = "Pending" /\ requests'[n].sponsor = payer
        /\ requests'[n].feePaid = requestFee
    BY DEF Submitted
  <1>2. \A j \in Ids : OpenEntry(j)' = OpenEntry(j) /\ Pending(j)' = Pending(j)
    BY <1>1 DEF OpenEntry, Pending
  <1>3. Pending(n)' /\ OpenEntry(n)' = [id |-> n, payer |-> payer, fee |-> requestFee]
    BY <1>1 DEF OpenEntry, Pending
  <1>4. \A e : e \in OpenEntries' <=> \E j \in Ids' : Pending(j)' /\ e = OpenEntry(j)'
    BY DEF OpenEntries
  <1>5. \A e : e \in OpenEntries <=> \E j \in Ids : Pending(j) /\ e = OpenEntry(j)
    BY DEF OpenEntries
  <1> QED
    BY <1>1, <1>2, <1>3, <1>4, <1>5

(***************************************************************************)
(* Every step of the kernel is a step of the escrow, or changes nothing    *)
(* the escrow sees.                                                        *)
(***************************************************************************)
LEMMA EscrowStep ==
  ASSUME Reentrant = {}, TypeOK, ReservedExact, FeeInv, PendingBlank, Next
  PROVE  [Escrow!Next]_(Escrow!escrowVars)
  <1>0. /\ accrued \in Nat /\ reserved \in Nat /\ accrued >= reserved
        /\ requestFee \in Nat \ {0} /\ credit \in [Accounts -> Nat]
    BY DEF FeeInv, TypeOK
  <1>1. CASE UNCHANGED <<credit, accrued, reserved, requests>>
    BY <1>1 DEF Escrow!escrowVars, OpenEntries, OpenEntry, Pending, Ids
  <1>2. ASSUME NEW ws \in Witnesses, NEW from \in Accounts, NEW b \in Accounts,
               NEW d \in Deposits, OnNEP17Payment(ws, from, b, d)
        PROVE  Escrow!Next
    <2>1. /\ credit' = [credit EXCEPT ![b] = @ + d]
          /\ UNCHANGED <<accrued, reserved, requests>>
      BY <1>2 DEF OnNEP17Payment, requestVars
    <2>2. Escrow!Deposit(b, d)
      BY <2>1 DEF Escrow!Deposit, OpenEntries, OpenEntry, Pending, Ids
    <2> QED
      BY <2>2 DEF Escrow!Next
  <1>3. ASSUME NEW ws \in Witnesses, NEW to \in Accounts, NEW amount \in Nat,
               WithdrawAccruedFees(ws, to, amount)
        PROVE  Escrow!Next
    <2>1. /\ amount > 0 /\ accrued - reserved >= amount
          /\ accrued' = accrued - amount /\ UNCHANGED <<reserved, requests>>
      BY <1>3 DEF WithdrawAccruedFees, Withdrawable, requestVars
    <2>2. credit' = credit \/ \E x \in Accounts : credit' = [credit EXCEPT ![x] = @ + amount]
      BY <1>3, PartiesTyped DEF WithdrawAccruedFees, PayOut
    <2>3. amount \in 1 .. (accrued - reserved)
          /\ accrued' - reserved' = (accrued - reserved) - amount
      BY <1>0, <2>1
    <2>4. Escrow!TakeEarnings(amount)
      BY <2>1, <2>2, <2>3 DEF Escrow!TakeEarnings, OpenEntries, OpenEntry, Pending, Ids
    <2> QED
      BY <2>3, <2>4 DEF Escrow!Next
  <1>4. ASSUME NEW ws \in Witnesses, NEW to \in Accounts, NEW amount \in Nat,
               BeginWithdrawal(ws, to, amount)
        PROVE  FALSE
    BY <1>4 DEF BeginWithdrawal
  <1>5. ASSUME EndWithdrawal PROVE FALSE
    BY <1>5 DEF EndWithdrawal, FeeInv
  <1>6. ASSUME NEW u \in Accounts, NEW a \in Apps, NEW m \in Modules, NEW op \in Operations,
               SubmitMiniAppRequestInternal(u, a, m, op)
        PROVE  Escrow!Next
    <2>1. PICK x \in Accounts, r \in KernelRequest, n \in Nat : Submitted(u, a, x, r, n)
      BY <1>6, SubmitEffect
    <2>2. /\ credit[x] >= requestFee
          /\ credit' = [credit EXCEPT ![x] = @ - requestFee]
          /\ n = Len(requests) + 1 /\ Len(requests') = n
      BY <2>1 DEF Submitted
    <2>3. accrued' = accrued + requestFee /\ reserved' = reserved + requestFee
      BY <2>1 DEF Submitted
    <2>4. accrued' - reserved' = accrued - reserved
      BY <1>0, <2>3
    <2>5. OpenEntries' = OpenEntries \cup {[id |-> n, payer |-> x, fee |-> requestFee]}
      BY <2>1, EntryOpened
    <2>6. Escrow!Open(x, requestFee)
      BY <2>2, <2>4, <2>5 DEF Escrow!Open
    <2>7. requestFee \in 1 .. credit[x]
      BY <1>0, <2>2
    <2> QED
      BY <2>6, <2>7 DEF Escrow!Next
  <1>7. ASSUME NEW ws \in Witnesses, NEW id \in Ids, NEW o \in Outcomes, NEW sig \in signed,
               FulfillRequest(ws, id, o, sig)
        PROVE  Escrow!Next
    <2> DEFINE e == OpenEntry(id)
               fee == requests[id].feePaid
    <2>1. Settled(id, o)
      BY <1>7, FulfillSettles
    <2>2. e \in OpenEntries /\ OpenEntries' = OpenEntries \ {e} /\ Len(requests') = Len(requests)
      BY <2>1, EntryClosed DEF Settled
    <2>3. fee \in Nat /\ fee <= reserved
      BY <1>7, PendingIsReserved DEF FulfillRequest, RequirePending
    <2>4. accrued' = accrued /\ reserved' = IF reserved > fee THEN reserved - fee ELSE 0
      BY <1>7 DEF FulfillRequest, ReleaseReservedFee
    <2>5. credit' = credit
      BY <1>7 DEF FulfillRequest
    <2>6. e.fee = fee
      BY DEF OpenEntry
    <2> HIDE DEF e, fee
    <2>7. accrued' - reserved' = (accrued - reserved) + fee
      BY <1>0, <2>3, <2>4
    <2>8. Escrow!Earn(e)
      BY <2>2, <2>5, <2>6, <2>7 DEF Escrow!Earn
    <2> QED
      BY <2>2, <2>8 DEF Escrow!Next
  <1>8. ASSUME NEW ws \in Witnesses, NEW id \in Ids, ExpireStaleRequest(ws, id)
        PROVE  Escrow!Next
    <2> DEFINE e == OpenEntry(id)
               fee == requests[id].feePaid
               x == requests[id].sponsor
    <2>1. Settled(id, ExpiryOutcome)
      BY <1>8, ExpirySettles
    <2>2. e \in OpenEntries /\ OpenEntries' = OpenEntries \ {e} /\ Len(requests') = Len(requests)
      BY <2>1, EntryClosed DEF Settled
    <2>3. fee \in Nat /\ fee <= reserved
      BY <1>8, PendingIsReserved DEF ExpireStaleRequest, RequirePending
    <2>4. Refund(id) = fee
      BY <1>0, <2>3 DEF Refund
    <2>5. accrued' = accrued - fee /\ reserved' = IF reserved > fee THEN reserved - fee ELSE 0
      BY <1>8, <2>4 DEF ExpireStaleRequest, ReleaseReservedFee
    <2>6. credit' = [credit EXCEPT ![x] = @ + fee]
      BY <1>8, <2>4 DEF ExpireStaleRequest
    <2>7. e.fee = fee /\ e.payer = x
      BY DEF OpenEntry
    <2> HIDE DEF e, fee, x
    <2>8. accrued' - reserved' = accrued - reserved
      BY <1>0, <2>3, <2>5
    <2>9. Escrow!Return(e)
      BY <2>2, <2>6, <2>7, <2>8 DEF Escrow!Return
    <2> QED
      BY <2>2, <2>9 DEF Escrow!Next
  <1>9. ASSUME NEW ws \in Witnesses, RegistryNext(ws), UNCHANGED kernelVars
        PROVE  [Escrow!Next]_(Escrow!escrowVars)
    BY <1>1, <1>9 DEF kernelVars, feeVars, requestVars
  <1>10. ASSUME NEW ws \in Witnesses, NEW v, SetRequestFee(ws, v) \/ SetRequestTTL(ws, v)
         PROVE  [Escrow!Next]_(Escrow!escrowVars)
    BY <1>1, <1>10 DEF SetRequestFee, SetRequestTTL, feeVars, requestVars
  <1>11. ASSUME NEW key, NEW id, NEW o, SignFulfillment(key, id, o)
         PROVE  [Escrow!Next]_(Escrow!escrowVars)
    BY <1>1, <1>11 DEF SignFulfillment, feeVars, requestVars
  <1>12. ASSUME Tick PROVE [Escrow!Next]_(Escrow!escrowVars)
    BY <1>1, <1>12 DEF Tick, feeVars, requestVars
  <1> QED
    BY <1>2, <1>3, <1>4, <1>5, <1>6, <1>7, <1>8, <1>9, <1>10, <1>11, <1>12, StepCases

(***************************************************************************)
(* When no withdrawal recipient re-enters the kernel, its fee handling is  *)
(* the abstract escrow of FeeEscrow.                                       *)
(***************************************************************************)
THEOREM KernelImplementsEscrow ==
  ASSUME Reentrant = {}
  PROVE  Spec => ImplementsEscrow
  <1>1. Init => Escrow!Init
    <2> SUFFICES ASSUME Init PROVE Escrow!Init
      OBVIOUS
    <2>1. Ids = {}
      BY NoIds
    <2>2. OpenEntries = {}
      BY <2>1 DEF OpenEntries
    <2>3. accrued - reserved = 0 /\ Len(requests) = 0
      BY DEF Init
    <2> QED
      BY <2>2, <2>3 DEF Init, Escrow!Init
  <1>2. TypeOK /\ ReservedExact /\ FeeInv /\ PendingBlank /\ [Next]_vars
          => [Escrow!Next]_(Escrow!escrowVars)
    <2>1. UNCHANGED vars => UNCHANGED Escrow!escrowVars
      BY DEF Escrow!escrowVars, OpenEntries, OpenEntry, Pending, Ids, vars, kernelVars,
             feeVars, requestVars
    <2> QED
      BY <2>1, EscrowStep
  <1> QED
    BY <1>1, <1>2, KernelTypeCorrect, ReservedIsPending, FeeInvariant, BlankInvariant, PTL
       DEF Spec, ImplementsEscrow, Escrow!Spec

-----------------------------------------------------------------------------
(***************************************************************************)
(* The sponsored-spend ledger.                                             *)
(***************************************************************************)
LEMMA SponsoredFeeType ==
  ASSUME TypeOK, NEW k
  PROVE  \A id \in Ids : SponsoredFee(k)[id] \in Nat
  BY RequestTyped DEF SponsoredFee, KernelRequest

(***************************************************************************)
(* A submission charges the requester's cap exactly when another pays.     *)
(***************************************************************************)
LEMMA SubmitCharges ==
  ASSUME TypeOK, SpendLedgerExact, NEW u \in Accounts, NEW a \in Apps, NEW payer \in Accounts,
         NEW r, NEW n, Submitted(u, a, payer, r, n), NEW k \in Apps \X Accounts
  PROVE  spent'[k] = Total(Ids', SponsoredFee(k)')
  <1>1. /\ Ids' = Ids \cup {n} /\ n \notin Ids
        /\ \A id \in Ids : requests'[id] = requests[id]
        /\ requests'[n].app = a /\ requests'[n].requester = u /\ requests'[n].sponsor = payer
        /\ requests'[n].error = "" /\ requests'[n].feePaid = requestFee
        /\ spent' = IF payer # u THEN [spent EXCEPT ![<<a, u>>] = @ + requestFee] ELSE spent
    BY DEF Submitted
  <1>2. /\ requestFee \in Nat /\ spent \in [Apps \X Accounts -> Nat] /\ <<a, u>> \in Apps \X Accounts
        /\ ExpiryError # ""
    BY OutcomesTyped DEF TypeOK
  <1> DEFINE S == Ids
             T == Ids'
             f == SponsoredFee(k)
             g == SponsoredFee(k)'
  <1>3. \A id \in S : g[id] = f[id]
    BY <1>1 DEF SponsoredFee, Sponsored
  <1>4. g[n] = IF k = <<a, u>> /\ payer # u THEN requestFee ELSE 0
    BY <1>1, <1>2 DEF SponsoredFee, Sponsored
  <1>5. spent[k] = Total(S, f)
    BY DEF SpendLedgerExact
  <1>a. T = S \cup {n}
    BY <1>1
  <1>6. IsFiniteSet(S) /\ n \notin S
    BY <1>1, IdsFinite
  <1>7. \A id \in S : f[id] \in Nat
    BY SponsoredFeeType
  <1> HIDE DEF S, T, f, g
  <1>8. g[n] \in Nat /\ spent'[k] = spent[k] + g[n]
    <2>1. CASE k = <<a, u>> /\ payer # u
      <3>1. g[n] = requestFee
        BY <1>4, <2>1
      <3>2. spent'[k] = spent[k] + requestFee
        BY <1>1, <1>2, <2>1
      <3> QED
        BY <1>2, <3>1, <3>2
    <2>2. CASE ~(k = <<a, u>> /\ payer # u)
      <3>1. g[n] = 0
        BY <1>4, <2>2
      <3>2. spent'[k] = spent[k]
        BY <1>1, <1>2, <2>2
      <3>3. spent[k] \in Nat
        BY <1>2
      <3> QED
        BY <3>1, <3>2, <3>3
    <2> QED
      BY <2>1, <2>2
  <1>9. g[n] \in Nat
    BY <1>8
  <1>10. Total(T, g) = Total(S, f) + g[n]
    BY <1>3, <1>a, <1>6, <1>7, <1>9, TotalGrowBy
  <1> QED
    BY <1>5, <1>8, <1>10 DEF T, g

(***************************************************************************)
(* An answer leaves the ledger alone; an expiry takes the fee back, and    *)
(* the clamp at zero never bites.                                          *)
(***************************************************************************)
LEMMA AnswerKeepsCharge ==
  ASSUME TypeOK, PendingBlank, SpendLedgerExact, NEW id \in Ids, NEW o \in Outcomes,
         Settled(id, o), spent' = spent
  PROVE  SpendLedgerExact'
  <1>1. o.error # ExpiryError /\ requests[id].error # ExpiryError
    BY OutcomesTyped DEF PendingBlank, Settled
  <1> SUFFICES ASSUME NEW k \in Apps \X Accounts
               PROVE  spent[k] = Total(Ids', SponsoredFee(k)')
    BY DEF SpendLedgerExact
  <1>2. \A j \in Ids : SponsoredFee(k)'[j] = SponsoredFee(k)[j]
    <2>1. \A j \in Ids : j # id => requests'[j] = requests[j]
      BY DEF Settled
    <2>2. Sponsored(id, k)' <=> Sponsored(id, k)
      BY <1>1 DEF Settled, Sponsored
    <2>3. \A j \in Ids : Sponsored(j, k)' <=> Sponsored(j, k)
      BY <2>1, <2>2 DEF Sponsored
    <2>a. \A j \in Ids : requests'[j].feePaid = requests[j].feePaid
      BY <2>1 DEF Settled
    <2>4. Ids' = Ids
      BY DEF Settled
    <2> TAKE j \in Ids
    <2>5. SponsoredFee(k)'[j] = IF Sponsored(j, k)' THEN requests'[j].feePaid ELSE 0
      BY <2>4 DEF SponsoredFee
    <2>6. SponsoredFee(k)[j] = IF Sponsored(j, k) THEN requests[j].feePaid ELSE 0
      BY DEF SponsoredFee
    <2>7. CASE Sponsored(j, k)
      <3>1. Sponsored(j, k)'
        BY <2>3, <2>7
      <3> QED
        BY <2>a, <2>5, <2>6, <2>7, <3>1, Zenon
    <2>8. CASE ~Sponsored(j, k)
      <3>1. ~Sponsored(j, k)'
        BY <2>3, <2>8
      <3> QED
        BY <2>5, <2>6, <2>8, <3>1, Zenon
    <2> QED
      BY <2>7, <2>8
  <1>3. Total(Ids, SponsoredFee(k)') = Total(Ids, SponsoredFee(k))
    <2> DEFINE f == SponsoredFee(k)
               g == SponsoredFee(k)'
    <2>1. \A j \in Ids : g[j] = f[j]
      BY <1>2
    <2> HIDE DEF f, g
    <2>2. Total(Ids, g) = Total(Ids, f)
      BY <2>1, TotalSame
    <2> QED
      BY <2>2 DEF f, g
  <1> QED
    BY <1>3 DEF Settled, SpendLedgerExact

LEMMA ExpiryReleasesCharge ==
  ASSUME TypeOK, PendingBlank, SpendLedgerExact, NEW id \in Ids,
         Settled(id, ExpiryOutcome), ReleaseSponsoredSpend(id), NEW k \in Apps \X Accounts
  PROVE  spent'[k] = Total(Ids', SponsoredFee(k)')
  <1> DEFINE fee == requests[id].feePaid
             own == <<requests[id].app, requests[id].requester>>
             paid == requests[id].sponsor # requests[id].requester
             S == Ids
             f == SponsoredFee(k)
             g == SponsoredFee(k)'
  <1>1. fee \in Nat /\ own \in Apps \X Accounts
    BY RequestTyped DEF KernelRequest
  <1>2. spent' = IF ~paid THEN spent
                 ELSE [spent EXCEPT ![own] = IF @ < fee THEN 0 ELSE @ - fee]
    BY DEF ReleaseSponsoredSpend
  <1>3. f[id] = IF k = own /\ paid THEN fee ELSE 0
    BY OutcomesTyped DEF SponsoredFee, Sponsored, PendingBlank, Settled
  <1>4. g[id] = 0
    BY DEF SponsoredFee, Sponsored, Settled, ExpiryOutcome
  <1>5. \A j \in S \ {id} : g[j] = f[j]
    BY DEF SponsoredFee, Sponsored, Settled
  <1>6. /\ IsFiniteSet(S) /\ id \in S /\ \A j \in S : f[j] \in Nat
        /\ Ids' = S /\ spent[k] = Total(S, f)
        /\ spent \in [Apps \X Accounts -> Nat]
    BY IdsFinite, SponsoredFeeType DEF Settled, SpendLedgerExact, TypeOK
  <1> HIDE DEF S, f, g
  <1>7. g[id] \in Nat
    BY <1>4
  <1>8. /\ Total(S, f) \in Nat /\ Total(S, g) \in Nat /\ Total(S, f) >= f[id]
        /\ Total(S, g) + f[id] = Total(S, f) + g[id]
    BY <1>5, <1>6, <1>7, TotalChange
  <1> HIDE DEF fee, own, paid
  <1>9. CASE k = own /\ paid
    <2>1. spent'[k] = IF spent[k] < fee THEN 0 ELSE spent[k] - fee
      BY <1>2, <1>6, <1>9
    <2> QED
      BY <1>1, <1>3, <1>4, <1>6, <1>8, <1>9, <2>1 DEF g
  <1>10. CASE ~(k = own /\ paid)
    <2>1. spent'[k] = spent[k]
      BY <1>1, <1>2, <1>6, <1>10
    <2> QED
      BY <1>3, <1>4, <1>6, <1>8, <1>10, <2>1 DEF g
  <1> QED
    BY <1>9, <1>10

LEMMA SpendStep ==
  ASSUME TypeOK, PendingBlank, SpendLedgerExact, Next
  PROVE  SpendLedgerExact'
  <1>1. CASE UNCHANGED <<requests, spent>>
    BY <1>1 DEF SpendLedgerExact, SponsoredFee, Sponsored, Ids
  <1>2. ASSUME NEW u \in Accounts, NEW a \in Apps, NEW m \in Modules, NEW op \in Operations,
               SubmitMiniAppRequestInternal(u, a, m, op)
        PROVE  SpendLedgerExact'
    <2>1. PICK payer \in Accounts, r \in KernelRequest, n \in Nat : Submitted(u, a, payer, r, n)
      BY <1>2, SubmitEffect
    <2> QED
      BY <2>1, SubmitCharges DEF SpendLedgerExact
  <1>3. ASSUME NEW ws \in Witnesses, NEW id \in Ids, NEW o \in Outcomes, NEW sig \in signed,
               FulfillRequest(ws, id, o, sig)
        PROVE  SpendLedgerExact'
    BY <1>3, FulfillSettles, AnswerKeepsCharge DEF FulfillRequest
  <1>4. ASSUME NEW ws \in Witnesses, NEW id \in Ids, ExpireStaleRequest(ws, id)
        PROVE  SpendLedgerExact'
    <2>1. Settled(id, ExpiryOutcome) /\ ReleaseSponsoredSpend(id)
      BY <1>4, ExpirySettles DEF ExpireStaleRequest
    <2> QED
      BY <2>1, ExpiryReleasesCharge DEF SpendLedgerExact
  <1>5. \/ UNCHANGED <<requests, spent>>
        \/ \E u \in Accounts, a \in Apps, m \in Modules, op \in Operations :
             SubmitMiniAppRequestInternal(u, a, m, op)
        \/ \E ws \in Witnesses, id \in Ids, o \in Outcomes, sig \in signed :
             FulfillRequest(ws, id, o, sig)
        \/ \E ws \in Witnesses, id \in Ids : ExpireStaleRequest(ws, id)
    BY StepCases
       DEF kernelVars, feeVars, requestVars, SetRequestFee, SetRequestTTL, OnNEP17Payment,
           WithdrawAccruedFees, BeginWithdrawal, EndWithdrawal, SignFulfillment, Tick
  <1> QED
    BY <1>1, <1>2, <1>3, <1>4, <1>5

(***************************************************************************)
(* The spend charged to a requester's cap is, in every reachable state,    *)
(* exactly what fee payers paid for its requests that did not expire.      *)
(***************************************************************************)
THEOREM SpendIsExact == Spec => []SpendLedgerExact
  <1>1. Init => SpendLedgerExact
    <2> SUFFICES ASSUME Init, NEW k \in Apps \X Accounts
                 PROVE  spent[k] = Total(Ids, SponsoredFee(k))
      BY DEF SpendLedgerExact
    <2>1. Ids = {} /\ spent[k] = 0
      BY NoIds DEF Init
    <2> QED
      BY <2>1, TotalEmpty
  <1>2. TypeOK /\ PendingBlank /\ SpendLedgerExact /\ [Next]_vars => SpendLedgerExact'
    <2>1. SpendLedgerExact /\ UNCHANGED vars => SpendLedgerExact'
      BY DEF SpendLedgerExact, SponsoredFee, Sponsored, Ids, vars, kernelVars, feeVars, requestVars
    <2> QED
      BY <2>1, SpendStep
  <1> QED
    BY <1>1, <1>2, KernelTypeCorrect, BlankInvariant, PTL DEF Spec

(***************************************************************************)
(* The only step that raises a spend is a submission that another account  *)
(* pays for.  It raises it by the fee in force, and that fee passed the    *)
(* cap check against the spend of this very state.                         *)
(***************************************************************************)
LEMMA SpendRaised ==
  ASSUME TypeOK, Next, NEW b \in Apps, NEW v \in Accounts,
         spent'[<<b, v>>] > spent[<<b, v>>]
  PROVE  /\ spent'[<<b, v>>] = spent[<<b, v>>] + requestFee
         /\ IsRequesterSponsorable(b, v, requestFee)
  <1> DEFINE k == <<b, v>>
  <1>1. /\ spent \in [Apps \X Accounts -> Nat] /\ k \in Apps \X Accounts
        /\ spent[k] \in Nat /\ requestFee \in Nat
    BY DEF TypeOK
  <1>2. ASSUME spent' = spent PROVE FALSE
    BY <1>1, <1>2
  <1>3. ASSUME NEW ws \in Witnesses, NEW id \in Ids, ExpireStaleRequest(ws, id)
        PROVE  FALSE
    <2> DEFINE fee == requests[id].feePaid
               own == <<requests[id].app, requests[id].requester>>
    <2>1. fee \in Nat /\ own \in Apps \X Accounts
      BY RequestTyped DEF KernelRequest
    <2>2. spent' = IF requests[id].sponsor = requests[id].requester THEN spent
                   ELSE [spent EXCEPT ![own] = IF @ < fee THEN 0 ELSE @ - fee]
      BY <1>3 DEF ExpireStaleRequest, ReleaseSponsoredSpend
    <2> HIDE DEF fee, own, k
    <2>3. \/ spent'[k] = spent[k]
          \/ spent'[k] = IF spent[k] < fee THEN 0 ELSE spent[k] - fee
      BY <1>1, <2>1, <2>2
    <2>4. spent'[k] <= spent[k]
      BY <1>1, <2>1, <2>3
    <2>5. spent'[k] > spent[k]
      BY DEF k
    <2> QED
      BY <1>1, <2>1, <2>3, <2>4, <2>5
  <1>4. PICK u \in Accounts, a \in Apps, m \in Modules, op \in Operations :
           SubmitMiniAppRequestInternal(u, a, m, op)
    <2>1. \/ spent' = spent
          \/ \E u \in Accounts, a \in Apps, m \in Modules, op \in Operations :
               SubmitMiniAppRequestInternal(u, a, m, op)
          \/ \E ws \in Witnesses, id \in Ids : ExpireStaleRequest(ws, id)
      BY StepCases
         DEF kernelVars, feeVars, SetRequestFee, SetRequestTTL, OnNEP17Payment, FulfillRequest,
             WithdrawAccruedFees, BeginWithdrawal, EndWithdrawal, SignFulfillment, Tick
    <2> QED
      BY <1>2, <1>3, <2>1
  <1> DEFINE payer == ResolveFeePayer(a, u)
  <1>5. spent' = IF payer # u THEN [spent EXCEPT ![<<a, u>>] = @ + requestFee] ELSE spent
    BY <1>4 DEF SubmitMiniAppRequestInternal, RecordSponsoredSpend
  <1>6. payer # u
    <2> HIDE DEF payer
    <2> QED
      BY <1>2, <1>5
  <1>7. IsRequesterSponsorable(a, u, requestFee)
    BY <1>6 DEF ResolveFeePayer
  <1> HIDE DEF payer
  <1>8. spent' = [spent EXCEPT ![<<a, u>>] = @ + requestFee] /\ <<a, u>> \in Apps \X Accounts
    BY <1>5, <1>6
  <1>9. k = <<a, u>>
    <2>1. ASSUME k # <<a, u>> PROVE spent'[k] = spent[k]
      BY <1>1, <1>8, <2>1
    <2> QED
      BY <1>1, <2>1
  <1>10. b = a /\ v = u
    BY <1>9
  <1> QED
    BY <1>1, <1>7, <1>8, <1>9, <1>10

(***************************************************************************)
(* A submission that a gated app's sponsor pays for a requester it does    *)
(* not list never takes that requester's spend over its cap, whatever fee, *)
(* cap and gate changes and expiries happened before.                      *)
(***************************************************************************)
THEOREM SpendWithinCap == Spec => CapRespected
  <1>1. ASSUME TypeOK, Next, NEW a \in Apps, NEW u \in Accounts,
               spent'[<<a, u>>] > spent[<<a, u>>], a \in gated, <<a, u>> \notin allowed
        PROVE  spent'[<<a, u>>] <= cap[<<a, u>>]
    <2>1. /\ spent'[<<a, u>>] = spent[<<a, u>>] + requestFee
          /\ IsRequesterSponsorable(a, u, requestFee)
      BY <1>1, SpendRaised
    <2> QED
      BY <1>1, <2>1 DEF IsRequesterSponsorable
  <1>2. TypeOK /\ [Next]_vars =>
          [\A a \in Apps, u \in Accounts :
             /\ spent'[<<a, u>>] > spent[<<a, u>>]
             /\ a \in gated /\ <<a, u>> \notin allowed
             => spent'[<<a, u>>] <= cap[<<a, u>>]]_vars
    BY <1>1
  <1> QED
    BY <1>2, KernelTypeCorrect, PTL DEF Spec, CapRespected

-----------------------------------------------------------------------------
(***************************************************************************)
(* The counters.  Each counts a set of request ids that a step leaves      *)
(* alone or extends by one.                                                *)
(***************************************************************************)
RequestsOf(a) == {id \in Ids : requests[id].app = a}

AllAnswered == {id \in Ids : ~Pending(id) /\ requests[id].error # ExpiryError}

LEMMA CountedFinite ==
  ASSUME TypeOK, NEW a
  PROVE  IsFiniteSet(RequestsOf(a)) /\ IsFiniteSet(Answered(a)) /\ IsFiniteSet(AllAnswered)
  <1>1. IsFiniteSet(Ids)
    BY IdsFinite
  <1>2. RequestsOf(a) \subseteq Ids /\ Answered(a) \subseteq Ids /\ AllAnswered \subseteq Ids
    BY DEF RequestsOf, Answered, AllAnswered
  <1> QED
    BY <1>1, <1>2, FS_Subset

\* Every request belongs to an app, so the apps' answers are all answers.
LEMMA AnswersOfApps ==
  ASSUME TypeOK
  PROVE  AllAnswered = UNION {Answered(a) : a \in Apps}
  <1>1. \A id \in Ids : requests[id].app \in Apps
    BY RequestTyped DEF KernelRequest
  <1> QED
    BY <1>1 DEF AllAnswered, Answered

CountsExact ==
  /\ \A a \in Apps : /\ appFulfilled[a] = Cardinality(Answered(a))
                      /\ appRequests[a] = Cardinality(RequestsOf(a))
  /\ totalFulfilled = Cardinality(AllAnswered)

LEMMA SubmitCounts ==
  ASSUME TypeOK, CountsExact, NEW u, NEW b \in Apps, NEW payer, NEW r, NEW n,
         Submitted(u, b, payer, r, n)
  PROVE  CountsExact'
  <1>1. \A id \in Ids : requests'[id] = requests[id]
    BY DEF Submitted
  <1>2. /\ n \notin Ids /\ Ids' = Ids \cup {n} /\ requests'[n] = r
        /\ r.status = "Pending" /\ r.app = b
        /\ appRequests' = [appRequests EXCEPT ![b] = @ + 1]
        /\ UNCHANGED <<totalFulfilled, appFulfilled>>
    BY DEF Submitted
  <1>3. \A a : Answered(a)' = Answered(a)
    BY <1>1, <1>2 DEF Answered, Pending
  <1>4. AllAnswered' = AllAnswered
    BY <1>1, <1>2 DEF AllAnswered, Pending
  <1>5. RequestsOf(b)' = RequestsOf(b) \cup {n} /\ n \notin RequestsOf(b)
    BY <1>1, <1>2 DEF RequestsOf
  <1>6. \A a : a # b => RequestsOf(a)' = RequestsOf(a)
    BY <1>1, <1>2 DEF RequestsOf
  <1>7. Cardinality(RequestsOf(b)') = Cardinality(RequestsOf(b)) + 1
    <2> DEFINE S == RequestsOf(b)
    <2>1. IsFiniteSet(S) /\ n \notin S
      BY <1>5, CountedFinite
    <2> HIDE DEF S
    <2>2. Cardinality(S \cup {n}) = Cardinality(S) + 1
      BY <2>1, FS_AddElement
    <2> QED
      BY <1>5, <2>2 DEF S
  <1>8. appRequests \in [Apps -> Nat]
    BY DEF TypeOK
  <1>9. ASSUME NEW a \in Apps
        PROVE  appRequests'[a] = Cardinality(RequestsOf(a)')
    <2>1. CASE a = b
      BY <1>2, <1>7, <1>8, <2>1 DEF CountsExact
    <2>2. CASE a # b
      BY <1>2, <1>6, <1>8, <2>2 DEF CountsExact
    <2> QED
      BY <2>1, <2>2
  <1> QED
    BY <1>2, <1>3, <1>4, <1>9 DEF CountsExact

LEMMA AnswerCounts ==
  ASSUME TypeOK, CountsExact, NEW id \in Ids, NEW o \in Outcomes, Settled(id, o),
         totalFulfilled' = totalFulfilled + 1,
         appFulfilled' = [appFulfilled EXCEPT ![requests[id].app] = @ + 1],
         appRequests' = appRequests
  PROVE  CountsExact'
  <1>0. PICK b \in Apps : b = requests[id].app
    BY RequestTyped DEF KernelRequest
  <1>1. /\ Pending(id) /\ Ids' = Ids /\ requests'[id].app = requests[id].app
        /\ requests'[id].status # "Pending" /\ requests'[id].error # ExpiryError
    BY OutcomesTyped DEF Settled
  <1>2. \A j \in Ids : j # id => requests'[j] = requests[j]
    BY DEF Settled
  <1>3. \A a : RequestsOf(a)' = RequestsOf(a)
    BY <1>0, <1>1, <1>2 DEF RequestsOf
  <1>4. Answered(b)' = Answered(b) \cup {id} /\ id \notin Answered(b)
    BY <1>0, <1>1, <1>2 DEF Answered, Pending
  <1>5. \A a : a # b => Answered(a)' = Answered(a)
    BY <1>0, <1>1, <1>2 DEF Answered, Pending
  <1>6. AllAnswered' = AllAnswered \cup {id} /\ id \notin AllAnswered
    BY <1>1, <1>2 DEF AllAnswered, Pending
  <1>7. /\ Cardinality(Answered(b)') = Cardinality(Answered(b)) + 1
        /\ Cardinality(AllAnswered') = Cardinality(AllAnswered) + 1
    <2> DEFINE S == Answered(b)
               T == AllAnswered
    <2>1. IsFiniteSet(S) /\ IsFiniteSet(T) /\ id \notin S /\ id \notin T
      BY <1>4, <1>6, CountedFinite
    <2> HIDE DEF S, T
    <2>2. /\ Cardinality(S \cup {id}) = Cardinality(S) + 1
          /\ Cardinality(T \cup {id}) = Cardinality(T) + 1
      BY <2>1, FS_AddElement
    <2> QED
      BY <1>4, <1>6, <2>2 DEF S, T
  <1>8. appFulfilled \in [Apps -> Nat] /\ appFulfilled' = [appFulfilled EXCEPT ![b] = @ + 1]
    BY <1>0 DEF TypeOK
  <1>9. ASSUME NEW a \in Apps
        PROVE  appFulfilled'[a] = Cardinality(Answered(a)')
    <2>1. CASE a = b
      BY <1>7, <1>8, <2>1 DEF CountsExact
    <2>2. CASE a # b
      BY <1>5, <1>8, <2>2 DEF CountsExact
    <2> QED
      BY <2>1, <2>2
  <1> QED
    BY <1>3, <1>7, <1>9 DEF CountsExact

LEMMA ExpiryCounts ==
  ASSUME TypeOK, PendingBlank, CountsExact, NEW id \in Ids, Settled(id, ExpiryOutcome),
         UNCHANGED <<totalFulfilled, appFulfilled, appRequests>>
  PROVE  CountsExact'
  <1>1. /\ Pending(id) /\ Ids' = Ids /\ requests'[id].app = requests[id].app
        /\ requests'[id].error = ExpiryError
    BY DEF Settled, ExpiryOutcome
  <1>2. \A j \in Ids : j # id => requests'[j] = requests[j]
    BY DEF Settled
  <1>3. \A a : RequestsOf(a)' = RequestsOf(a) /\ Answered(a)' = Answered(a)
    BY <1>1, <1>2 DEF RequestsOf, Answered, Pending
  <1>4. AllAnswered' = AllAnswered
    BY <1>1, <1>2 DEF AllAnswered, Pending
  <1> QED
    BY <1>3, <1>4 DEF CountsExact

LEMMA CountsStep ==
  ASSUME TypeOK, PendingBlank, CountsExact, Next
  PROVE  CountsExact'
  <1>1. CASE UNCHANGED <<requests, totalFulfilled, appFulfilled, appRequests>>
    BY <1>1 DEF CountsExact, RequestsOf, Answered, AllAnswered, Pending, Ids
  <1>2. ASSUME NEW u \in Accounts, NEW a \in Apps, NEW m \in Modules, NEW op \in Operations,
               SubmitMiniAppRequestInternal(u, a, m, op)
        PROVE  CountsExact'
    BY <1>2, SubmitEffect, SubmitCounts
  <1>3. ASSUME NEW ws \in Witnesses, NEW id \in Ids, NEW o \in Outcomes, NEW sig \in signed,
               FulfillRequest(ws, id, o, sig)
        PROVE  CountsExact'
    BY <1>3, FulfillSettles, AnswerCounts DEF FulfillRequest
  <1>4. ASSUME NEW ws \in Witnesses, NEW id \in Ids, ExpireStaleRequest(ws, id)
        PROVE  CountsExact'
    BY <1>4, ExpirySettles, ExpiryCounts DEF ExpireStaleRequest
  <1>5. \/ UNCHANGED <<requests, totalFulfilled, appFulfilled, appRequests>>
        \/ \E u \in Accounts, a \in Apps, m \in Modules, op \in Operations :
             SubmitMiniAppRequestInternal(u, a, m, op)
        \/ \E ws \in Witnesses, id \in Ids, o \in Outcomes, sig \in signed :
             FulfillRequest(ws, id, o, sig)
        \/ \E ws \in Witnesses, id \in Ids : ExpireStaleRequest(ws, id)
    BY StepCases
       DEF kernelVars, feeVars, requestVars, SetRequestFee, SetRequestTTL, OnNEP17Payment,
           WithdrawAccruedFees, BeginWithdrawal, EndWithdrawal, SignFulfillment, Tick
  <1> QED
    BY <1>1, <1>2, <1>3, <1>4, <1>5

(***************************************************************************)
(* The totals the contract reports are the sizes of the sets they name: an *)
(* answer is counted once, an expiry never.                                *)
(***************************************************************************)
THEOREM CountersExact == Spec => []FulfilledCountExact
  <1>1. Init => CountsExact
    <2> SUFFICES ASSUME Init PROVE CountsExact
      OBVIOUS
    <2>1. /\ \A a : Answered(a) = {} /\ RequestsOf(a) = {}
          /\ AllAnswered = {}
      BY NoIds DEF Answered, RequestsOf, AllAnswered
    <2>2. Cardinality({}) = 0
      BY FS_EmptySet
    <2> QED
      BY <2>1, <2>2 DEF Init, CountsExact
  <1>2. TypeOK /\ PendingBlank /\ CountsExact /\ [Next]_vars => CountsExact'
    <2>1. CountsExact /\ UNCHANGED vars => CountsExact'
      BY DEF CountsExact, RequestsOf, Answered, AllAnswered, Pending, Ids, vars, kernelVars,
             requestVars
    <2> QED
      BY <2>1, CountsStep
  <1>3. TypeOK /\ CountsExact => FulfilledCountExact
    BY AnswersOfApps DEF CountsExact, FulfilledCountExact, RequestsOf
  <1> QED
    BY <1>1, <1>2, <1>3, KernelTypeCorrect, BlankInvariant, PTL DEF Spec

-----------------------------------------------------------------------------
(***************************************************************************)
(* The kernel and a callback consumer.  What a consumer has recorded from  *)
(* the kernel is what the inbox of the kernel says, for any accounts, apps *)
(* and answers.  The composed system is a kernel: its steps are kernel     *)
(* steps or leave the kernel alone, so the theorems above hold of it.      *)
(***************************************************************************)

LEMMA DeliveryStepIsKernelStep == [DeliveryNext]_deliveryVars => [Next]_vars
  <1> SUFFICES ASSUME [DeliveryNext]_deliveryVars PROVE [Next]_vars
    OBVIOUS
  <1>1. ASSUME NEW ws \in Witnesses, MayCall(ws), KernelStep(ws) PROVE Next
    BY <1>1 DEF KernelStep, Next, Settle
  <1>2. ASSUME NEW ws \in Witnesses, NEW id \in 1 .. Len(requests), NEW o \in Outcomes,
               NEW sig \in signed, MayCall(ws), FulfillAndCallBack(ws, id, o, sig)
        PROVE  Next
    BY <1>2 DEF FulfillAndCallBack, Next, Settle
  <1>3. CASE \E key \in Keys, id \in 1 .. Len(requests), o \in Outcomes :
               SignFulfillment(key, id, o) /\ UNCHANGED hookVars
    BY <1>3 DEF Next
  <1>4. CASE (EndWithdrawal \/ Tick) /\ UNCHANGED hookVars
    BY <1>4 DEF Next
  <1>5. ASSUME NEW k, NEW id, NEW o, ForeignCallback(k, id, o) PROVE UNCHANGED vars
    BY <1>5 DEF ForeignCallback
  <1>6. UNCHANGED deliveryVars => UNCHANGED vars
    BY DEF deliveryVars
  <1> QED
    BY <1>1, <1>2, <1>3, <1>4, <1>5, <1>6 DEF DeliveryNext

\* Calling the consumer from FulfillRequest, pointing it elsewhere and the
\* callbacks of other kernels add no behaviour to the kernel.
THEOREM DeliveryIsKernel == DeliverySpec => Spec
  <1>1. DeliveryInit => Init
    BY DEF DeliveryInit
  <1> QED
    BY <1>1, DeliveryStepIsKernelStep, PTL DEF DeliverySpec, Spec

\* A record of this kernel names a settled request, with its answer.
Answers(r) ==
  /\ r.id \in Ids /\ ~Pending(r.id)
  /\ r.success = requests[r.id].success
  /\ r.result = requests[r.id].result
  /\ r.error = requests[r.id].error
  /\ r.error # ExpiryError

RecordsInv == \A r \in records : r.source = Self => Answers(r)

\* Records stay answers as the kernel moves on: ids are never dropped and a
\* settled request is never written again.
LEMMA AnswersStay ==
  ASSUME TypeOK, PendingBlank, [Next]_vars, NEW r, Answers(r)
  PROVE  Answers(r)'
  <1>1. CASE UNCHANGED vars
    BY <1>1 DEF Answers, Pending, Ids, vars, kernelVars, requestVars
  <1>2. CASE Next
    <2>1. requests'[r.id] = requests[r.id]
      BY <1>2, FinalStep DEF Answers
    <2>2. r.id \in Ids'
      <3>1. Ids \subseteq Ids'
        <4>1. CASE UNCHANGED <<requests, inbox>>
          BY <4>1 DEF Ids
        <4>2. ASSUME NEW u, NEW a, NEW payer, NEW q, NEW n, Submitted(u, a, payer, q, n)
              PROVE  Ids \subseteq Ids'
          BY <4>2 DEF Submitted
        <4>3. ASSUME NEW id \in Ids, NEW o, Settled(id, o) PROVE Ids \subseteq Ids'
          BY <4>3 DEF Settled
        <4> QED
          BY <1>2, <4>1, <4>2, <4>3, OutcomeCases
      <3> QED
        BY <3>1 DEF Answers
    <2> QED
      BY <2>1, <2>2 DEF Answers, Pending
  <1> QED
    BY <1>1, <1>2

\* What the callback at the end of a fulfillment writes.
LEMMA StoredRecord ==
  ASSUME NEW caller, NEW id, NEW app, NEW module, NEW operation, NEW requester, NEW o,
         C!StoreCallback(caller, id, app, module, operation, requester, o),
         NEW r \in records'
  PROVE  \/ r \in records
         \/ /\ r.id = id /\ r.source = caller
            /\ r.success = o.success /\ r.result = o.result /\ r.error = o.error
  <1> DEFINE new == [id |-> id, app |-> app, module |-> module, operation |-> operation,
                     requester |-> requester, success |-> o.success, result |-> o.result,
                     error |-> o.error, source |-> caller]
  <1>1. records' = {x \in records : x.id # id} \cup {new}
    BY DEF C!StoreCallback
  <1>2. /\ new.id = id /\ new.source = caller
        /\ new.success = o.success /\ new.result = o.result /\ new.error = o.error
    OBVIOUS
  <1> HIDE DEF new
  <1> QED
    BY <1>1, <1>2

LEMMA CalledBack ==
  ASSUME TypeOK, PendingBlank, RecordsInv, NEW ws, NEW id \in Ids, NEW o \in Outcomes, NEW sig,
         FulfillAndCallBack(ws, id, o, sig), [Next]_vars
  PROVE  RecordsInv'
  <1>1. Settled(id, o) /\ InvokeCallback(id, o)
    BY FulfillSettles DEF FulfillAndCallBack
  <1>2. ASSUME NEW r \in records' PROVE r \in records \/
          /\ r.id = id /\ r.success = o.success /\ r.result = o.result /\ r.error = o.error
    <2>1. CASE UNCHANGED hookVars
      BY <2>1 DEF hookVars
    <2>2. ASSUME NEW app, NEW module, NEW operation, NEW requester,
                 C!StoreCallback(Self, id, app, module, operation, requester, o)
          PROVE  r \in records \/
                   /\ r.id = id /\ r.success = o.success /\ r.result = o.result
                   /\ r.error = o.error
      BY <2>2, StoredRecord
    <2> QED
      BY <1>1, <2>1, <2>2 DEF InvokeCallback, C!OnMiniAppResult, C!OnOracleResult
  <1>3. ASSUME NEW r, r.id = id, r.success = o.success, r.result = o.result, r.error = o.error
        PROVE  Answers(r)'
    <2>1. /\ id \in Ids' /\ requests'[id].status # "Pending"
          /\ requests'[id].success = o.success /\ requests'[id].result = o.result
          /\ requests'[id].error = o.error
      BY <1>1 DEF Settled
    <2>2. o.error # ExpiryError
      BY OutcomesTyped
    <2> QED
      BY <1>3, <2>1, <2>2 DEF Answers, Pending
  <1>4. ASSUME NEW r \in records, r.source = Self PROVE Answers(r)'
    BY <1>4, AnswersStay DEF RecordsInv
  <1> QED
    BY <1>2, <1>3, <1>4 DEF RecordsInv

LEMMA RecordsStep ==
  TypeOK /\ PendingBlank /\ RecordsInv /\ [DeliveryNext]_deliveryVars => RecordsInv'
  <1> SUFFICES ASSUME TypeOK, PendingBlank, RecordsInv, [DeliveryNext]_deliveryVars
               PROVE  RecordsInv'
    OBVIOUS
  <1>1. [Next]_vars
    BY DeliveryStepIsKernelStep
  <1>2. ASSUME NEW r \in records, r.source = Self PROVE Answers(r)'
    BY <1>1, <1>2, AnswersStay DEF RecordsInv
  <1>3. CASE records' \subseteq records
    BY <1>2, <1>3 DEF RecordsInv
  <1>4. ASSUME NEW ws \in Witnesses, NEW id \in 1 .. Len(requests), NEW o \in Outcomes,
               NEW sig \in signed, FulfillAndCallBack(ws, id, o, sig)
        PROVE  RecordsInv'
    <2>1. id \in Ids
      BY DEF Ids
    <2> QED
      BY <1>1, <1>4, <2>1, CalledBack
  <1>5. ASSUME NEW k \in OtherKernels, NEW id, NEW o, ForeignCallback(k, id, o)
        PROVE  RecordsInv'
    <2>1. k # Self
      BY ConsumerConstants
    <2>2. ASSUME NEW app, NEW module, NEW operation, NEW requester,
                 C!StoreCallback(k, id, app, module, operation, requester, o)
          PROVE  RecordsInv'
      <3>1. \A r \in records' : r \in records \/ r.source = k
        BY <2>2, StoredRecord
      <3> QED
        BY <1>2, <2>1, <3>1 DEF RecordsInv
    <2> QED
      BY <1>5, <2>2 DEF ForeignCallback, C!OnMiniAppResult, C!OnOracleResult
  <1>6. \/ records' \subseteq records
        \/ \E ws \in Witnesses, id \in 1 .. Len(requests), o \in Outcomes, sig \in signed :
              FulfillAndCallBack(ws, id, o, sig)
        \/ \E k \in OtherKernels, id \in 1 .. MaxRequests, o \in Outcomes :
              ForeignCallback(k, id, o)
    BY DEF DeliveryNext, KernelStep, hookVars, deliveryVars, C!SetKernel, C!SetConsumerAdmin
  <1> QED
    BY <1>3, <1>4, <1>5, <1>6

\* OracleCallbackConsumer never records from this kernel anything but the
\* answer of a settled request, as the inbox shows it.
THEOREM RecordsAreInbox == DeliverySpec => []RecordsMirrorInbox
  <1>1. DeliveryInit => RecordsInv
    BY DEF DeliveryInit, C!ConsumerInit, RecordsInv
  <1>2. TypeOK /\ InboxMirrorsRequests /\ RecordsInv => RecordsMirrorInbox
    <2> SUFFICES ASSUME TypeOK, InboxMirrorsRequests, NEW r \in records, Answers(r)
                 PROVE  \E i \in inbox :
                          /\ i.id = r.id
                          /\ r.success = i.success /\ r.result = i.result /\ r.error = i.error
                          /\ r.error # ExpiryError
      BY DEF RecordsInv, RecordsMirrorInbox
    <2> DEFINE i == MirrorItem(r.id)
    <2>1. i \in inbox
      BY DEF Answers, InboxMirrorsRequests, InboxOf
    <2>2. /\ i.id = r.id /\ i.success = requests[r.id].success
          /\ i.result = requests[r.id].result /\ i.error = requests[r.id].error
      BY DEF MirrorItem
    <2> QED
      BY <2>1, <2>2 DEF Answers
  <1> QED
    BY <1>1, <1>2, RecordsStep, DeliveryIsKernel, KernelTypeCorrect, BlankInvariant,
       InboxIsMirror, PTL DEF DeliverySpec

\* OracleCallbackConsumer never replaces a record: not on a replay, and not
\* when it is pointed at a kernel whose request ids are taken.
THEOREM RecordsFinal == DeliverySpec => RecordFinal
  <1>1. ASSUME NEW caller, NEW id, NEW app, NEW module, NEW operation, NEW requester, NEW o,
               C!Accepts(caller, id),
               C!StoreCallback(caller, id, app, module, operation, requester, o)
        PROVE  records \subseteq records'
    BY <1>1 DEF C!Accepts, C!Recorded, C!StoreCallback
  <1>2. ASSUME NEW id, NEW o, InvokeCallback(id, o) PROVE records \subseteq records'
    BY <1>1, <1>2 DEF InvokeCallback, C!OnMiniAppResult, C!OnOracleResult, hookVars
  <1>3. ASSUME NEW k, NEW id, NEW o, ForeignCallback(k, id, o) PROVE records \subseteq records'
    BY <1>1, <1>3 DEF ForeignCallback, C!OnMiniAppResult, C!OnOracleResult
  <1>4. [DeliveryNext]_deliveryVars => [records \subseteq records']_deliveryVars
    BY <1>2, <1>3 DEF DeliveryNext, KernelStep, FulfillAndCallBack, hookVars,
       C!SetKernel, C!SetConsumerAdmin
  <1> QED
    BY <1>4, PTL DEF DeliverySpec, RecordFinal
=============================================================================
