----------------------- MODULE OracleCallbackConsumer -----------------------
(***************************************************************************)
(* The OracleCallbackConsumer contract: it accepts results from the kernel *)
(* it points at and records the first one for every request id.            *)
(***************************************************************************)
EXTENDS Integers

CONSTANTS
  Accounts, Null,
  ConsumerDeployer  \* the sender of the transaction that deployed it

VARIABLES
  consumerAdmin,   \* PREFIX_ADMIN
  consumerKernel,  \* PREFIX_KERNEL, Null until SetKernel
  records          \* PREFIX_CALLBACK: the records, each with its request id;
                   \* source, the contract that called, is a history field

consumerVars == <<consumerAdmin, consumerKernel, records>>

ConsumerInit ==
  consumerAdmin = ConsumerDeployer /\ consumerKernel = Null /\ records = {}

SetConsumerAdmin(ws, newAdmin) ==
  /\ consumerAdmin \in ws
  /\ consumerAdmin' = newAdmin
  /\ UNCHANGED <<consumerKernel, records>>

SetKernel(ws, newKernel) ==
  /\ consumerAdmin \in ws
  /\ consumerKernel' = newKernel
  /\ UNCHANGED <<consumerAdmin, records>>

ValidateKernel(caller) == consumerKernel # Null /\ caller = consumerKernel

Recorded(id) == \E r \in records : r.id = id

\* Mutant of Accepts: a replay is accepted.
AcceptsReplay(caller, id) == ValidateKernel(caller)

\* The first callback for a request id is recorded, a later one is refused.
Accepts(caller, id) == ValidateKernel(caller) /\ ~Recorded(id)

StoreCallback(caller, id, app, module, operation, requester, o) ==
  /\ records' = {r \in records : r.id # id} \cup
       {[id |-> id, app |-> app, module |-> module, operation |-> operation,
         requester |-> requester, success |-> o.success, result |-> o.result,
         error |-> o.error, source |-> caller]}
  /\ UNCHANGED <<consumerAdmin, consumerKernel>>

OnMiniAppResult(caller, id, app, module, operation, requester, o) ==
  /\ Accepts(caller, id)
  /\ StoreCallback(caller, id, app, module, operation, requester, o)

\* The legacy adapter knows neither the app nor the requester.
OnOracleResult(caller, id, requestType, o) ==
  /\ Accepts(caller, id)
  /\ StoreCallback(caller, id, "legacy", requestType, requestType, Null, o)
=============================================================================
