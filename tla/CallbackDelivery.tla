-------------------------- MODULE CallbackDelivery --------------------------
(***************************************************************************)
(* The kernel composed with one callback consumer, Consumer, which some    *)
(* miniapps name as their callback contract.  A fulfillment tries the      *)
(* eight-argument callback, falls back to the five-argument one when the   *)
(* first call reverts (or the contract does not implement it), and ignores *)
(* the failure of both.  The consumer can be pointed at another kernel     *)
(* deployment, whose request ids start again from 1.                       *)
(***************************************************************************)
EXTENDS OracleKernel

CONSTANTS
  Consumer,          \* script hash of the consumer contract
  ConsumerDeployer,
  OtherKernels       \* other kernel deployments

ASSUME ConsumerConstants ==
  /\ Consumer \in Accounts /\ ConsumerDeployer \in Accounts
  /\ OtherKernels \subseteq Accounts \ {Self}

VARIABLES
  consumerAdmin, consumerKernel, records,
  rich      \* whether the deployed consumer implements onMiniAppResult

C == INSTANCE OracleCallbackConsumer

hookVars     == <<consumerAdmin, consumerKernel, records, rich>>
deliveryVars == <<vars, hookVars>>

DeliveryInit == Init /\ C!ConsumerInit /\ rich \in BOOLEAN

\* The two nested try blocks at the end of FulfillRequest.
InvokeCallback(id, o) ==
  LET r == requests[id]
  IN  \/ /\ r.callback = Consumer
         /\ rich
         /\ C!OnMiniAppResult(Self, id, r.app, r.module, r.operation, r.requester, o)
         /\ UNCHANGED rich
      \/ /\ r.callback = Consumer
         /\ ~rich
         /\ C!OnOracleResult(Self, id, r.operation, o)
         /\ UNCHANGED rich
      \/ /\ r.callback = Consumer => ~C!Accepts(Self, id)
         /\ UNCHANGED hookVars

FulfillAndCallBack(ws, id, o, sig) ==
  FulfillRequest(ws, id, o, sig) /\ InvokeCallback(id, o)

\* External: another kernel deployment delivers the answer to its own request.
ForeignCallback(k, id, o) ==
  /\ \/ rich /\ C!OnMiniAppResult(k, id, "foreign", "foreign", "foreign", Null, o)
     \/ ~rich /\ C!OnOracleResult(k, id, "foreign", o)
  /\ UNCHANGED <<vars, rich>>

KernelStep(ws) ==
  /\ \/ Configure(ws) \/ MoveFees(ws) \/ Submit(ws)
     \/ \E id \in 1 .. Len(requests) : ExpireStaleRequest(ws, id)
  /\ UNCHANGED hookVars

DeliveryNext ==
  \/ \E ws \in Witnesses : MayCall(ws) /\ KernelStep(ws)
  \/ \E ws \in Witnesses, id \in 1 .. Len(requests), o \in Outcomes, sig \in signed :
        MayCall(ws) /\ FulfillAndCallBack(ws, id, o, sig)
  \/ \E key \in Keys, id \in 1 .. Len(requests), o \in Outcomes :
        SignFulfillment(key, id, o) /\ UNCHANGED hookVars
  \/ (EndWithdrawal \/ Tick) /\ UNCHANGED hookVars
  \/ \E ws \in Witnesses, k \in OtherKernels \cup {Self} :
        C!SetKernel(ws, k) /\ UNCHANGED <<vars, rich>>
  \/ \E ws \in Witnesses, x \in Operators :
        C!SetConsumerAdmin(ws, x) /\ UNCHANGED <<vars, rich>>
  \/ \E k \in OtherKernels, id \in 1 .. MaxRequests, o \in Outcomes : ForeignCallback(k, id, o)

DeliverySpec == DeliveryInit /\ [][DeliveryNext]_deliveryVars
-----------------------------------------------------------------------------
\* What the consumer recorded from this kernel is what the kernel's inbox says
\* of that request, for both callback shapes: nothing for pending and expired
\* requests, and the same outcome for answered ones.
RecordsMirrorInbox ==
  \A r \in records : r.source = Self =>
     \E i \in inbox :
        /\ i.id = r.id
        /\ r.success = i.success /\ r.result = i.result /\ r.error = i.error
        /\ r.error # ExpiryError

\* A recorded result is never replaced, across fulfillments, expiries,
\* re-pointing of the consumer and callbacks of other kernels.
RecordFinal == [][records \subseteq records']_deliveryVars
=============================================================================
