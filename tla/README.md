# Verification of the Morpheus oracle

This directory holds TLA+ models of the Morpheus oracle, the TLC configurations
that check them on small instances, and theorems that TLAPS checks for every
value of the constants. `PROJECT.json` maps every definition to the source
lines it models and lists runs, mutants, findings, hazards and theorems.

## 1. The system

Miniapp contracts on Neo N3 ask an oracle *kernel* contract for off-chain work
(an HTTP fetch, a computation, a random value, a DID action). A *relayer* finds
the requests, has a *confidential runtime* (a Nitro enclave worker) execute and
sign the answer, and sends the signed answer to the kernel, which checks the
signature, stores the outcome and calls the miniapp back. Around this core there
are a control plane for HTTP jobs, scheduled and price-triggered requests
(*automation*), a price-feed pipeline, a DID registry and an EVM twin of the kernel.

```
 miniapp --SubmitMiniAppRequest--> MorpheusOracle <--FulfillRequest-- relayer <--> jobs table
    ^                                 |   ^                             |
    |      onMiniAppResult            |   '--ExpireStaleRequest (admin) |--> runtime (signs)
 OracleCallbackConsumer <-------------'

 HTTP caller --> control plane --queue / workflow--> execution plane     jobs table (Supabase)
                     '--five-minute cron: recovery--^

 relayer tick --> automation jobs --claim, broadcast--> MorpheusOracle (a queued request)
 relayer, control plane --feed tick--> worker: compare, batch --tx--> MorpheusDataFeed
 vault owner --> worker: verify identity, sign ticket --> vault owner --tx--> NeoDIDRegistry

 Neo X:  player --> MiniAppDiceGameEVM --requestFromCallback--> MorpheusOracleEVM
                        ^----onOracleResult / settleFromKernel----'     ^
                                      neox-fulfiller: logs, sign, send -'
```

### Inventory

| Component | State | Operations | Hard behaviour | What makes it correct |
|---|---|---|---|---|
| Kernel: registry (`contracts/MorpheusOracle`) | admin, updater, verifier key, modules, grants, miniapps with an enumeration and two reverse indexes, sponsorship controls, app state | register/configure apps and modules, grant/revoke, sponsor controls, rebuild indexes, state writes | indexes rebuilt slice by slice after an upgrade while the registry changes; two records of one callback contract | enumeration exact, no stale index entry, a callback contract belongs to one app, sponsorship limits cannot lapse |
| Kernel: fees and requests | prepaid credit, accrued and reserved pools, spend per requester, requests, inbox, counters, the GAS held | deposit, six ways to submit, fulfil, expire, withdraw, fee and TTL changes | expiry races fulfilment; re-pricing; withdrawal calls foreign code between read and write; key rotation with answers in flight | pools exact, every refund whole, contract solvent, one final outcome, answers attested |
| `OracleCallbackConsumer` | admin, kernel it trusts, records | set admin/kernel, two callback methods | kernel tries two methods and swallows failures; consumer re-pointed to another deployment | records agree with the inbox and are final |
| Relayer (`workers/morpheus-relayer`) | state file (cursors, processed set, retry queue, dead letters), shared jobs table, transactions in flight | scan by block and by request cursor, claim, hydrate, process, retry, dead-letter, reconcile | several instances, crashes, lost answers, local fallback when the table is unreachable, queue limits | no request lost, attempts bounded, one instance per job, recorded outcomes true |
| Control plane (`deploy/cloudflare/morpheus-control-plane`) | job rows, queue messages, workflow instances | submit, consume, retry, dead-letter, recover | at-least-once queues, overlapping recovery passes, rows patched without a condition by whoever loaded them, clocks that make a job look stale | a succeeded job was executed, one workflow instance at a time, a bounded number of them, a finished job stays finished, an accepted job is tried |
| Automation (`automation.js`) | automation jobs, runs, reserved request ids | register, cancel, evaluate, claim, queue on chain, record | several relayers, a snapshot older than the row, a broadcast whose fate is unknown, a crash between claim and record | execution limit respected, an execution charged once, cancel final, due jobs served |
| `MorpheusDataFeed` | admin, updater, key, feed records, pair index | update, batch update, admin reset, roles | a batch reverts as a whole; updates land late or out of order | the index enumerates the records, rounds and timestamps do not go back |
| Feed publication (`nitro-worker` `oracle/feeds.js`) | records kept in memory and in a file, ticks under way | load baseline, fetch, decide, queue, submit, save | ticks overlap, of one caller too, and share the records; broadcast is not confirmed; restart from an old file or from the snapshot table | no write overwrites a price it did not compare with, the chain catches up with the market |
| `NeoDIDRegistry` + NeoDID tickets of the worker | admin, verifier, bindings, nullifiers, events | bind, revoke, use an action ticket | replay under another vault, account or network; revoked bindings; verifier rotation | an identity binds once and acts once, only what was signed is accepted |
| `MorpheusOracleEVM` | roles, modules, apps, grants, requests, accrued and reserved fees, the balance | register, grant, request (directly or by a callback contract), fulfil, expire, withdraw, re-price | re-pricing and withdrawal while requests are pending, two clamped updates, callback failures swallowed | reserved is what pending requests paid, the balance is the accrued pool, every refund whole |
| `MiniAppDiceGameEVM` | bets, reservation, debts, balance | bet, settle by callback or from the kernel, claim, fund, withdraw | callbacks that fail, bets that are settled by strangers, payments that are refused | each bet paid once and what the stored outcome says, wins covered |
| `neox-fulfiller.mjs` | block cursor in memory and in a file, the transaction it waits for | cycle: logs, read, work, sign, send, wait, save | failing calls, crash or lost answer after the send, late transactions, requests read long after their log | nothing pending below the cursor, every request answered |
| Nitro worker | replay caches, breaker, limits | guard, execute, aggregate | concurrency at limits | limits hold, replay refused |
| Edge gateway, web app, scripts, SDKs, examples | caches, UI | proxying, display | - | - |

The per-component list with sources is `components` in `PROJECT.json`; the
dangerous places, each at its line, are `hazards`.

## 2. Modules

| Module | Role |
|---|---|
| `MiniAppRegistry` | governance, modules, grants, miniapps, indexes, sponsorship controls, app state |
| `OracleKernel` | extends the registry with credit, requests, fulfilment, expiry, withdrawal |
| `FeeEscrow` | abstract specification of the kernel's fee handling |
| `OracleCallbackConsumer` | the consumer contract |
| `CallbackDelivery` | kernel and consumer composed |
| `Relayer` | relayer instances over one chain and one jobs table: scanning, claims, retries, delivery, crashes |
| `ControlPlane` | ingress, queue consumers, dead-letter consumer, recovery passes and workflow instances over one jobs table |
| `Automation` | relayers running upkeep over one table of automation jobs, and the requests they queue |
| `DataFeed` | the data feed contract, a batch step by step inside its transaction |
| `FeedPublication` | the worker's publisher and the data feed composed |
| `NeoDIDRegistry` | the registry contract and the worker that signs its tickets |
| `NeoXOracle` | the Neo X kernel |
| `NeoXDice` | the dice game and the Neo X kernel composed |
| `NeoXFulfiller` | the fulfiller, composed with game and kernel |
| `UnitSums` | sums without recursion |
| `MiniAppRegistryProofs`, `RelayerProofs`, `ControlPlaneProofs`, `AutomationProofs`, `UnitSumsProofs` | theorems and lemmas about the module of that name |
| `OracleKernelProofs` | theorems about the kernel and about `CallbackDelivery` |
| `ServiceProofs` | theorems about `DataFeed`, `NeoDIDRegistry` and `FeedPublication` |
| `NeoXProofs` | theorems about the three Neo X modules |
| `MC*` | small instances for TLC |

### Correspondence with the code

*Transactions.* A contract method runs atomically in one transaction, so it is
one action. An assertion that fails aborts the transaction, which is a guard; the
order of assertions does not matter since nothing is written when one fails.
`ws` is the set of accounts that witness the transaction
(`Runtime.CheckWitness`) or are the calling contract.

*State.* Each storage prefix is one variable, named in the declaration. Request
ids are counted from 1 by the contract, so the request store is a sequence. The
id counter and `PREFIX_TOTAL_REQUESTS` are its length. Storage absence is `Null`;
a missing number is 0, as in the code.

*Payloads.* Request payloads, metadata and URLs are left out: the kernel stores
them and never branches on them. A result is an opaque text. A digest is the tuple
of what the code hashes; hashing is taken to be injective, and a signature is a
pair of key and digest that only `SignFulfillment` (the runtime, external)
creates.

*The one non-atomic method.* `WithdrawAccruedFees` calls `GAS.Transfer` between
reading and writing the accrued pool. Native GAS calls `onNEP17Payment` of a
recipient contract, which runs before the write. For recipients in the constant
`Reentrant` the withdrawal is `BeginWithdrawal`, then any calls whose only
witness is the recipient, then `EndWithdrawal`; withdrawals nest, hence a
sequence. For other recipients, and with `Reentrant = {}`, it is one action. A
withdrawal to the kernel itself comes back as a deposit and becomes the kernel's
own credit.

*Callbacks.* `FulfillRequest` calls the callback contract after all its writes and
catches failure. In `OracleKernel` the callee is absent, because whatever it does
it could do in a transaction of its own; in `CallbackDelivery` it is the
consumer, with both nested attempts. A second kernel deployment is external and
may deliver any answer under any id, which is what a deployment with its own id
counter can do. Records are keyed by the request id alone, so a consumer pointed at a
new deployment refuses its answers to ids it has recorded before. Whether the consumer
implements the eight-argument method is chosen once, at the start.

*Upgrades.* `LegacyApps` and `LegacyGrants` are records written by a version of
the contract that had no reverse indexes: they are in the store at `Init`, and
the indexes are empty until `RebuildIndexes` or a later write fills them. Empty
constants give a fresh deployment.

*Relayer processes.* An instance is a JavaScript process, so what runs between two
`await`s is one action. `pc` is its place in `runRelayerOnce`: load the state file,
hydrate from the table, discover, persist the new events, defer what exceeds the
backpressure limit, work, move the checkpoint, run due retries, and with the block
lane a second scan by request id (`reconcilePendingRequests`). `mem` is the state
object of the tick and `disk` the file; `PersistState` either writes or schedules the
trailing write (`dirty`). A task is one call of `processEvent`, with a stage per
`await`; the tasks of a tick interleave with each other, with the other instances
and with the chain. One module holds the state file, the table and `processEvent`
because every step of a task writes two of the three.

*Relayer time.* There is no clock. A retry item falls due, a job row ripens (its retry
time came, or its owner was silent for `staleProcessingMs`) and a backoff ends in
steps of their own, at any moment. `SlowWork` says whether a row may go stale while
its owner is still working; the code does not exclude it, because `staleProcessingMs` is
45 s by default (`config.js:373-375`), as long as one wait for a confirmation
(`neo-n3.js:973-980`). The run with a crash sets it to FALSE to save states, which takes
nothing away from a single instance: whether its own row is ripe is read only by hydration
and by a claim, when no task of it is at work on that row. A block and the request in it are one number: the block
lane scans all requests, the cursor lane those still pending, and the two build
different event keys, so each lane has a task, a job and a count of its own for one
request. The trailing write of a tick is taken to come before the next
tick, since the default interval of 250 ms is below the poll interval of 5 s.

*Relayer faults.* Calls to the table fail with transient errors only, applied or not,
and start a backoff. Runtime and chain calls fail with the classes of
`classifyError` that the code treats differently. A transaction that was sent is mined
at any later time or never, also after its sender gave it up or died. The chain is
external and reduced to the statuses of `OracleKernel`.

*Control plane.* Every actor loads a row, awaits something, and writes the fields it
names with `patchJob`, an unconditional PATCH. So each actor carries the copy of the row
it loaded (`snap` of a message or instance, `rows` of a recovery pass) and its write is a
function of that copy: fields it does not name survive, `metadata` is written back as it
was loaded. A call to the table, the queue or a backend may fail before or after it took
effect. Clocks are kept as the comparisons the code makes: `run_after` has passed,
`started_at` is `staleProcessingMs` old, `updated_at` is past the grace period of the
status; each becomes true in a step of its own. A workflow instance is named by the
dispatch number, because that is what its id is built from; creating an id that exists
throws. The patch to processing, the call of the execution plane and the patch of its
answer are three steps of a consumer; an instance has in addition a step between its last
patch and its end. `called` records that the call was made. `Populations` says which jobs
and recovery passes a behaviour has, so one run
covers several small casts instead of their product.

*Automation.* A tick fetches a snapshot and compares times with the moment it started:
`late` holds the jobs whose comparison changed after that. The claim is the one
conditional write (status and `next_run_at`); it advances `execution_count` and pins the
request id, which is a function of the job and the count, so a number stands for it. The
reservation of request ids in the process (`seen`) is pruned and is lost with the
process. One flag stands for two limits on the age of a claim: the fetch takes a claimed
row that is 120 s old (`persistence.js:594`), the claim one of `claimStaleMs`
(`automation.js:722`), which a deployment may set apart; the model takes them to be passed
together. `forgot` records for which executions that happened after a request was queued.
A broadcast may be rejected, may land although its confirmation timed out, or may
outlive its error.

*Feed publication.* The worker answers 202 to a caller that does not wait, and works in the
background (`feeds.js:288-298`, `959-986`), so ticks overlap, those of one caller too. The
local records are one map that all ticks of the process share; a tick reads the chain at its
start and the map as it goes, and writes the map after its submission. A transaction lands
late, fails in the block, or never lands; the worker sets no expiry, so nothing keeps one
from landing after its record has become stale. With a signing key the pairs are sent one by
one under the request id of the tick, which a tick in the background always has, and the
second is refused. A restart loads the state file, which may be older than memory was (a
failed write is swallowed, and two ticks may write out of order), or, when the file has no
records, the latest rows of the snapshot table, where an observed price stands in for a
missing one; or nothing. `age` is what `minUpdateIntervalMs` and `staleAfterMs` make of a
record's last submission. `note` on an update records which baseline the decision was made
against (on-chain, local, none); the contract stores the attestation hash at that place and
never reads it. Prices, rounds and timestamps are small naturals, and `events` bounds what a
behaviour may do to disturb the publisher. `Deployments` are the configurations a behaviour
may have.

*NeoDID.* A nullifier is the tuple that is hashed. The caller of the worker chooses vault,
claim, account and network, and the identity is whatever the worker signs for: it verifies
web3auth identities, and of any other provider it takes the uid that the request gives
(`neodid/index.js:248-283`). The properties are about identities in that sense. What other
actors present to the contract is any signed ticket, with any account as caller.

*Neo X.* A call is a transaction and one action; a revert is a guard. Every function that
sends value does so after its last write, so what the receiver does is a transaction of its
own, and a receiver that refuses makes the call revert, which changes nothing; only the
game's `_pay` goes on when the payment is refused, and that is the choice in `Pay`
(`MayRefuse`). A callback is settled by the game, or reverts or runs out of gas, and the
kernel goes on (`Callback`). A result is the die it hashes to. `Scenes` says which groups
of operations a behaviour has, so that one run covers several small casts; the theorems
hold for any scenes. The submission of a request through the game brings no value, as in
the code, so while a fee is set no bet can be placed. The fulfiller is one process and
every `await` is a step. A block holds one request and has its number; a block without
requests changes only the cursor. A sent transaction is in `mempool` (external) until it is
mined, and outlives the process that sent it; when it is mined it takes effect or reverts.
A failing call, a failed write of the state file and a crash are `Mishap`s; the send may
fail before or after the broadcast, and the wait for the receipt may throw, so that the same
process sends again.

## 3. Runs

The contract runs check safety; their specifications state no fairness, because a
contract does nothing on its own and gives no scheduling guarantee. Liveness is checked
where the program runs a loop:

* *Relayer* (`FairSpec`): the loop of every process keeps running (`runRelayerLoop`
  catches every error and starts the next tick, and a crashed process is restarted) and
  time passes: a scheduled write, a retry delay, a backoff and a stale timeout come to an
  end. Nothing is assumed of the chain (a transaction need never be mined), of the admin,
  or of the runtime, whose calls end in an answer or an error.
* *Control plane* (`Fairness`): Cloudflare delivers queued messages, resumes workflow
  instances and fires the cron, a request that was accepted is carried on unless its
  isolate is evicted (a fault), and clocks advance.
* *Automation* (`Fairness`): a relayer ticks for ever and finishes what it awaits (a
  crashed one starts over), and schedules and stale times come.
* *Feed publication* (`PubFairness`): the relayer's feed loop ticks again and again, a tick
  that is under way ends, blocks are produced and so some broadcast transaction lands, and
  the times against which a record's age is compared pass. The control plane's ticks are not
  assumed.
* *Neo X fulfiller* (`FulFairness`): the loop catches every error and goes on, systemd
  restarts the process, and a transaction in the mempool gets into a block (`tx.wait()` has
  no timeout, so without this the process may wait for ever).

Deadlock is checked in the contract and relayer runs: some transaction, or a next tick, is
always possible. A control plane whose jobs are done, an automation job that ended and the
bounded events of the `services` run really stop, so those runs do not check it.

| Run | States | Question |
|---|---|---|
| `registry` | 66 456 | registrations, reconfigurations, rebuilds, roles, modules and app state by two signers keep the indexes true |
| `kernel_fees` | 266 104 | pools, balance, spend ledger; refinement of `FeeEscrow`; withdrawals to an account, to the contract itself and to a contract that does nothing when it is paid |
| `kernel_calls` | 452 816 | kernel and consumer: caps under all six submission entry points; outcomes final, attested and mirrored; a withdrawal recipient that submits when it is paid; a consumer with either callback shape and a second kernel |
| `kernel_reserve` | violation | whether the accrued pool always covers the reserved one (finding 2) |
| `relayer_crash` | 593 733 | one relayer, block lane and reconciliation, throttled saves, a crash anywhere: nothing forgotten, tries bounded, everything handled in the end |
| `relayer_load` | 256 288 | two requests, one per tick, a retry queue of one, jobs that go stale at work, all error classes: everything handled |
| `relayer_faults` | 2 409 125 | two relayers, one claiming locally during an outage, a lagging node, work that outlasts the stale timeout: records true, attempts bounded, nothing forgotten before a call fails |
| `control_lanes` | 712 744 | a queue job with its request, messages, consumers and the cron, or a workflow job with two overlapping recovery passes, and one fault of any of twelve kinds: success is true, instances are exclusive and bounded, finished stays finished, accepted jobs are tried (but for `Stranded`) |
| `automation_upkeep` | 151 209 | one relayer with two faults of thirteen kinds; two relayers racing, with crashes and lost confirmations, or with failed table calls and claims that go stale; or more due jobs than a tick may queue: limits, duplicates, cancels, schedule |
| `automation_price` | violation | whether a price trigger with a cooldown fires (finding 1) |
| `services` | 585 113 | overlapping feed ticks over shared records against the data feed; NeoDID tickets against the registry; the Neo X kernel with the game, the relayer or the fulfiller. The three share no state: a behaviour exercises one of them |
| `feeds_signed` | violation | whether every selected pair is sent in its turn with a signing key (finding 3) |

### Bounds

`MaxGas`, `MaxRequests`, `MaxTime` and `MaxKeyVersion` cap counters in the guards
of the actions that raise them.

* *Requests 2.* Races are about one request (expiry against fulfilment) or about one
  request taking another's money, signature or share of a cap, which needs two.
* *GAS 2 or 4 with fees 1 and 2.* Enough for two payers, a re-pricing between
  submission and expiry, and a withdrawal that leaves less than one fee.
* *Time 3 or 4, TTL 1.* A request expires when more than one unit has passed, so
  the clock passes the boundary for a request of either of the first two instants.
* *Apps.* One app where the property is about one app's money; two where
  it is about several apps competing for one callback contract.
* *Input sets.* An empty set (`Callbacks = {}` and the like) removes an operation
  from a run that does not ask about it. Between them the runs take every action. The
  registry run has one module, registered by the admin, instead of the built-in ones.
* *Control plane.* One job per behaviour: jobs only meet in a recovery pass, which takes
  them one by one. Two message slots hold a message and its duplicate or requeued twin,
  `MaxAttempts` 1 and `MaxRetries` 1 let both retry lanes go round once and exhaust, one
  fault separates every write from the next.
* *Kernel with consumer.* A behaviour plays one of two scenes (`MCCallbackDelivery`): the
  consumer is pointed at kernels and called, or the app's sponsor and the fee account are
  at work and the paid recipient calls back. The recipient acts as an account that may
  submit, deposit and withdraw (`{hook}` in `Witnesses`).
* *Automation.* One job, executed twice at most (`CountBound` 2), with two faults: a claim
  has to be lost *and* retaken before a second request can appear. Two jobs where they
  compete for `MaxQueuedPerTick` 1. With two relayers the price stays as it is at the start
  (`UpkeepNext`), since both meet their trigger in the same state.
* *Feeds.* Two ticks at a time; one or two pairs, with and without a key; one or two price
  moves, faults, overlapping ticks, restarts or admin calls; at most one transaction that
  outlives the update interval. An overwrite needs two ticks and one late transaction.
* *NeoDID.* Two identities, two accounts, two networks, two keys and three tickets: enough
  to present a ticket under another vault, network or verifier and to bind again.
* *Neo X.* Two requests, so that one can take another's fee or cover, fees 0 and 1, time 2
  with TTL 1 or 2, stakes 1 and 2 (5.7 times one is not whole), a bankroll of 10 and a
  balance of at most 16, which two wins exceed. `ChunkBlocks` 1 makes two requests two
  chunks, so that a crash can fall between their saves (with 3 they are one chunk, and the
  properties hold as well, with 611 027 states). One mishap. The lookback is longer
  than the chain: what lies before it is passed over by design.
* *Relayer.* One request where the question is about its life (two instances, or a crash
  at any point, give several hundred thousand states), two where requests
  compete for a place in a tick or in the queue. `MaxRetries` 0 or 1 and `Ceiling` 1 or 2 let
  both retry lanes go round and exhaust. `MaxFaults` and `MaxCrashes` count failures;
  one of each is enough to separate the three places a request is kept.

No symmetry is used: the accounts play different roles, and the relayer's liveness runs
would not allow it.

### Properties

Each property is stated and explained where it is defined. The ones that carry
most weight:

* `ReservedExact`, `Solvent`: the pools say
  what they should across any sequence of deposits, re-pricings, requests, answers,
  expiries and withdrawals. The code clamps twice (releasing a reservation, paying
  a refund), so a mistake would be silent.
* `OnlyReentryUncovers`: the accrued pool falls below the reserved one only at the end of a
  withdrawal whose recipient reserved more while it was paid. The contract's stronger claim,
  `AccruedCoversReserved`, is finding 2.
* `ImplementsEscrow`: the contract refines `FeeEscrow`, in which a fee is in escrow
  until it is earned or returned whole to whoever paid it.
* `SpendLedgerExact`, `CapRespected`: sponsorship accounting.
* `OutcomeFinal`, `OutcomeAttested`, `InboxMirrorsRequests`:
  one outcome per request, signed for that request, visible to inbox readers.
* `RecordsMirrorInbox`, `RecordFinal`: consumer against kernel.
* `IndexSound`, `CallbackUnique`: the registry.
* `CheckpointCovered`: what survives a crash of every process accounts for each
  pending request below a saved checkpoint. It relates the chain, the state files and
  the table, which no transaction ties together.
* `RecordsTrue`: an outcome recorded by any instance or in the table is the one on
  chain, although several transactions may be under way for one request.
* `AttemptsBounded`, `TriesBounded`: the stored count of attempts stays within the ceilings
  while it travels between state files, table and tasks; and the tries a process really made
  (the history variable `tries`, because a crash forgets what was not yet written)
  exceed them by at most two for every crash.
* `EventuallyHandled`: retries end in a settled request or a dead letter. It is about one
  instance. With two it does not hold (see `MCRelayer_pair.cfg` below).
* `CoveredUntilFault`: `CheckpointCovered` for several instances, as far as it holds.
* `SucceededIsTrue`, `SettledStays`: no late consumer, instance or recovery pass, writing
  back what it loaded, makes a row say succeeded of a job that was not executed, and once no
  actor holds a copy a finished row is not reopened. An actor that still holds one may write
  over another's result.
* `OneActiveInstance`, `InstancesBounded`: overlapping recovery passes do not start a
  workflow twice, and losing the dispatch number does not lift the ceiling. The first
  holds as long as no status check failed: the code reads a failed check as a missing
  instance and dispatches another.
* `JobsDriven`: no single fault keeps an accepted queue job from being tried, with one
  exception (`Stranded`, see `MCControlPlane_stranded.cfg` below).
* `BoundedByMax`, `DuplicatesNeedLoss`: what automation may charge a requester.
  `DuplicatesNeedLoss`: as long as no process lost the reservation of an execution, its
  requests are bounded, by one for a scheduled job whose table answers and whose claim does
  not go stale at work, by one per relayer otherwise.
* `CancelStops`: stated for one relayer. With two, a final patch of one may overwrite what
  the other wrote, because it is unconditional.
* `ScheduleServed`: a due or claimed job is not stuck, crashes included.
* `ReplacesItsBaseline`: the round is a compare-and-swap, so an update decided against an
  on-chain record replaces exactly that record, until an `AdminResetFeed` takes rounds back.
* `FeedsCatchUp`: lost transactions, stale and forgotten local records and failed ticks are
  repaired, when a tick sends what it selects in one transaction; but for a pair that has
  never been published and whose observed price a restart took for its last one (`Misled`).
* `OneBindingPerIdentity`, `OneUsePerAction`: NeoDID nullifiers stay spent.
  `EventsTellBindings`: who follows the events knows which bindings are active, and under
  which nullifier.
* `EvmFeesExact`: the Neo X kernel's pools and balance.
* `DiceBooksExact`: relates what the game paid and owes to the outcomes stored in the other
  contract, whichever way a bet was settled. `CoveredUnlessRefused`: the bankroll covers
  what may be won.
* `CursorCovers`, `RequestsAnswered`: no failure or crash moves the cursor over a pending
  request, and every request that could be read is answered or expires, while the service
  stays updater and verifier.

The state of each module is typed by `TypeOK` (`RegistryTypeOK`, `PubTypeOK`, `DidTypeOK`,
`EvmTypeOK`, `DiceTypeOK`, `FulTypeOK`). Proved and not repeated by a run are the contracts'
types, `AppIndexExact`, `ControlsImplyGated`, `FulfilledCountExact`, `AcceptedUnderVerifier`
(one check of the contract decides it; the theorem is about every key and network) and
`RefundWhole`, which follows from `ReservedExact` and `AccruedCoversReserved`.

Every property of a passing run has a mutant in `PROJECT.json`: a changed definition, kept in the
module before the one it replaces and marked *Mutant of*, under which the run
finds the property violated.

### Findings

1. **`automation_price`.** The docs say of a price threshold that, if matched, it queues a
   request, and the example registers one with a cooldown. For a job with a cooldown,
   `evaluatePriceThreshold` returns a patch that puts `next_run_at` a cooldown ahead; it is
   written before the claim, and the claim matches only a row that is due. The claim fails,
   the job is skipped, and so on after every cooldown: it never fires.
2. **`kernel_reserve`.** The contract states "AccruedRequestFees() >= ReservedRequestFees() at
   all times" (`MorpheusOracle.cs:120`). A withdrawal recipient that submits a request from
   `onNEP17Payment` makes the write after the transfer (737) drop that request's fee from the
   accrued pool while it stays reserved. `ReservedExact` and `OutcomeFinal` still hold, and
   `OnlyReentryUncovers` says that there is no other way.
3. **`feeds_signed`.** The docs say that pairs over the threshold "are grouped into one batch
   transaction per chain" (`docs/EXAMPLES.md:850`). With a signing key they are sent one by one
   under one request id; the worker refuses the second with 409, and the tick throws before it
   stores that the first was sent. The next tick starts with the first pair again as soon as
   that one is due, and the second pair is selected and left out again and again.
   `EveryPairGetsItsTurn` counts how often.

### Other behaviour seen while modelling

These have a configuration each (or follow from the model as noted), under which TLC
shows a counterexample. None of them is a run of the project.

* `MCMiniAppRegistry_firstwins.cfg`. The comment on `RebuildIndexes` promises that of
  legacy records sharing a callback the earliest app keeps the mapping. The code keeps the
  first mapping *written*, and the caller chooses the slices.
* `MCRelayer_outage.cfg`. Work declined during an outage of the table must be "never
  cleared, never counted as a conflict". If the outage began before the event's row was
  inserted, the claim after the outage updates no row, is taken for a conflict, and the
  request is dropped below the checkpoint.
* `MCRelayer_claims.cfg`. A granted claim is called safe to process, but hydration grants
  without claiming, so two instances can process one job. `RecordsTrue` still holds: the
  kernel settles a request once.
* `MCRelayer_pair.cfg`. With two instances `EventuallyHandled` does not hold. A job may go
  stale while its owner works on it (45 s against 45 s, see *Relayer time*), so each instance
  may take over the job the other is working on, with the attempt count the row had when the
  work started, and the two can alternate for ever. `RecordsTrue` still holds.
* `MCControlPlane_stranded.cfg`. The control plane's README says that recovery runs "so stuck
  Supabase rows are requeued without operator intervention" (`README.md:83-85`). A consumer
  marks the row processing and dies before the call; the message comes again and is acked,
  since the row is freshly processing; then the request's late patch
  (`worker.mjs:292`) makes the row dispatched, which recovery does not list for a queue job.
  One crash, and the job is never tried (`NoJobStranded`).
* `MCControlPlane_ceiling.cfg`. The control plane's README says recovery re-drives a
  workflow up to the ceiling and then dead-letters it (`README.md:78-82`). An instance that
  loaded the row before `PatchRedispatched` writes the old dispatch number back. The next
  pass builds an instance id that exists, `create` throws, and the pass repeats that for
  ever: the row never reaches the ceiling (`WorkflowRecovered`).
* `MCControlPlane_starved.cfg`. The query of a pass takes the oldest rows up to the limit
  and filters them afterwards, so rows at the head that are not recoverable hide an overdue
  one (`OverdueRecovered`).
* `MCAutomation_resend.cfg`. The comment at `automation.js:539-544` says a false-negative
  error cannot mint a second execution. A broadcast that landed but whose confirmation
  timed out is forgotten by the reservation, and the reclaim sends it again
  (`OneRequestPerExecution`).
* `MCAutomation_twice.cfg`. The comment at `automation.js:766-770` says that "a concurrent
  duplicate claim finds the row already advanced" and is a no-op. The claim compares status and `next_run_at`
  and not `execution_count`; a price job without a cooldown keeps a null `next_run_at`, so
  when one relayer has finished, the older snapshot of the other still matches, and both send
  the same execution (`OneRequestPerExecution`; two relayers, no fault).
* *Automation, seen in the code and the model:* a claim advances `execution_count` before
  the broadcast, so when the last execution's broadcast fails, the reclaim finds the maximum
  reached and completes the job without sending it (`automation.js:464-475`). With several
  relayers, a failure patch or a final patch written after a cancel by another relayer puts
  the job back to processing or active, because only the claim is conditional
  (`CancelStops` is therefore about one relayer).
* *Feeds, seen in the code and the model:* a tick without baseline clamps the timestamp
  against 0; symbols are not deduplicated, and a batch with one pair twice reverts; a lost
  *first* transaction of a pair is repaired by the stale refresh only, because the local
  record says the price was submitted. A pair whose only record is an observed price is, after
  a restart from the snapshot table (`feed-state.js:79-102`), compared with that price and not
  published until it moves (`Misled`). A record without a time of submission is as old as its
  timestamp on chain.
* *Neo X, seen in the code and the model:* the comment on `reserved`
  (`MiniAppDiceGameEVM.sol:22-23`) says the bankroll can always cover every outstanding
  bet's win. `placeBet` compares the balance with the reservations and not with
  `totalPending`, so after a refused payment a bet is accepted that the balance does not
  cover together with the debt, and a claim can leave the reservations uncovered
  (`Covered` in `NeoXDice`; the win then becomes a debt until the house is funded).
  The fulfiller passes over a request whose `getRequest` failed
  (`neox-fulfiller.mjs:179-183`) and does not come back to it, unlike a failed `getLogs`;
  the request can only expire. A request that cannot be answered holds up those behind it
  (193-198). Bets are kept by request id alone, so `setOracle` to a kernel that counts from
  1 again lets its ids meet old bets (165).

## 4. Proofs

`tlapm` checks every obligation; nothing is assumed except the named `ASSUME`s on
the constants, which TLC evaluates on the instances.

| Theorem | Statement | Holds for |
|---|---|---|
| `RegistryTypeCorrect` | `RegistrySpec => []RegistryTypeOK` | all constants |
| `RegistryIndexes`, `AppsEnumerated`, `CallbackIndexTrue` | `AppIndexExact`, `IndexSound`, `CallbackUnique` | all constants; the last without legacy records |
| `ControlsGate` | `RegistrySpec => []ControlsImplyGated` | all constants |
| `KernelTypeCorrect` | `Spec => []TypeOK` | all constants |
| `ReservedIsPending` | `Spec => []ReservedExact` | all constants, reentrant recipients too |
| `FeePools`, `RefundsWhole` | `AccruedCoversReserved`, `Solvent`, `RefundWhole` | `Reentrant = {}` |
| `ReentryAlone` | `Spec => OnlyReentryUncovers` | all constants, reentrant recipients too |
| `SpendIsExact`, `SpendWithinCap` | `Spec => []SpendLedgerExact`, `Spec => CapRespected` | all constants |
| `InboxIsMirror` | `Spec => []InboxMirrorsRequests` | all constants |
| `AnswersAttested` | `Spec => []OutcomeAttested` | all constants |
| `OutcomesAreFinal` | `Spec => OutcomeFinal` | all constants |
| `CountersExact` | `Spec => []FulfilledCountExact` | all constants |
| `KernelImplementsEscrow` | `Spec => ImplementsEscrow` | `Reentrant = {}` |
| `DeliveryIsKernel` | `DeliverySpec => Spec` | all constants |
| `RecordsAreInbox`, `RecordsFinal` | `RecordsMirrorInbox`, `RecordFinal` | all constants |
| `RelayerTypes`, `RecordsMatchChain`, `RetriesWithinCeilings` | `Spec => []TypeOK`, `[]RecordsTrue`, `[]AttemptsBounded` | all constants, faults and crashes |
| `CheckpointsCoverRequests` | `Spec => []CoveredUntilFault` | all constants and crashes, until a call fails |
| `ControlTypes`, `SuccessIsTrue`, `InstancesWithinCeiling` | `Spec => []TypeOK`, `[]SucceededIsTrue`, `[]InstancesBounded` | all constants |
| `OneInstanceRuns` | `Spec => []OneActiveInstance` | all constants; the property itself excepts failed status checks |
| `SettledJobsStay` | `Spec => SettledStays` | all constants |
| `AutomationTypes`, `ExecutionsWithinMax` | `Spec => []TypeOK`, `[]BoundedByMax` | all constants |
| `CopiesPerProcess` | at most one request per relayer process for an execution whose reservation was not lost | all constants |
| `ScheduledOnce` | one request for every execution of a scheduled job whose reservation was not lost | any number of relayers; no failed table call, no claim that goes stale under its relayer |
| `DuplicatesBounded` | `Spec => []DuplicatesNeedLoss` | all constants |
| `AnsweredCancelIsFinal` | `Spec => CancelStops` | all constants; the property itself is about one relayer |
| `UpdatesReplaceBaselines`, `PublishedIndexed` | `PubSpec => ReplacesItsBaseline`, `[]IndexExact` | all constants |
| `FeedTypes`, `FeedIndexed` | `FeedSpec => []FeedTypeOK`, `[]IndexExact` | all constants |
| `EvmTypes`, `EvmFeePools` | `EvmSpec => []EvmTypeOK`, `[]EvmFeesExact` | all constants |
| `NeoXIsKernel` | `FulSafety => EvmSpec` | all constants |
| `CursorSound` | `FulSafety => []CursorCovers` | all constants |
| `DiceBooks`, `DiceCovered` | `FulSafety => []DiceBooksExact`, `[]CoveredUnlessRefused` | all constants |
| `DidTypes`, `OneBinding`, `OneUse`, `EventsTold` | `DidTypeOK` and the three NeoDID properties of the run | all constants |
| `OnlySigned` | `DidSpec => AcceptedUnderVerifier` | all constants |

### The argument

*Sums.* The prover has no induction over data, so a recursive sum would be opaque
to it. `Total(S, f)` counts the units of a ledger instead: the cardinality of the
set of pairs `<<x, 1>> .. <<x, f[x]>>`. `UnitSumsProofs` derives from the
cardinality theorems what the kernel proofs need: how a total changes when one entry
changes, when an entry is appended, and when two ledgers agree.

*Registry.* `AppIndexExact`, `IndexSound` and `RegistryTypeOK` are inductive
together: every index write is guarded by a lookup that is right because the index
was sound. `CallbackUnique` is carried with them.

*Kernel steps.* Six entry points submit, and one lemma (`SubmitEffect`) reduces them to
one effect; `FulfillSettles` and `ExpirySettles` reduce the two ways a request ends to
`Settled(id, o)`; `StepCases` says every step is a submission, a settlement, a fee
movement or leaves both untouched. Each invariant is proved over these cases, not over
the actions.

*Fee pools.* `AccruedCoversReserved` is not inductive: the refund clamp could
break it, and so could an unfinished withdrawal. `FeeInv` adds that no withdrawal is
open (true when `Reentrant = {}`), that the reserved pool is exact, and that the
GAS balance is the sum of credit and accrued fees. `ReservedExact` gives
`reserved >= feePaid` for each pending request, so neither clamp bites. `OnlyReentryUncovers`
needs no such condition: a withdrawal remembers both pools as it read them and takes no more
than their difference (the type of `withdrawals`), so what its write leaves covers what was
reserved then; every other step moves the two pools by the same fee, or raises the surplus.

*Outcomes.* `PendingBlank` (a pending request has no error text) separates answers
from expiries for `SpendLedgerExact` and `OutcomeAttested`.

*Cap.* `SpendLedgerExact` is an invariant and says nothing of caps, which may be lowered at
any time. `SpendRaised` says that only a submission another account pays for raises a
spend, by the fee in force, and that the cap check it passed read the spend of the same
state; `CapRespected` follows from the types alone.

*Refinement.* Under `FeeInv` every kernel step maps to an escrow step or stutters:
submission to `Open`, fulfilment to `Earn`, expiry to `Return` (the refund is whole),
withdrawal to `TakeEarnings`.

*Delivery.* Every step of the composition is a kernel step or leaves the kernel alone, so
all kernel theorems hold of the composition. `RecordsMirrorInbox` speaks of the inbox;
what is inductive is `RecordsInv`: a record from this kernel carries the fields of the
settled request. The mirror follows with `InboxMirrorsRequests`.

*Relayer.* None of the three properties is inductive, because tasks and ticks carry copies:
a task writes, several awaits later, what it learnt of the chain. `RelayerInv` therefore
says of everything a step may write later what must be so of what is written now. It is
built from four predicates over a chain `c`, a table `w` and a number of faults `f`:
`GoodFile` (a state file in memory or on disk), `GoodRow`, `GoodTask` and `GoodTick`. A task
that saw its transaction halt knows the outcome on chain; a row waiting to be written at
`close` is already good; a count of attempts is within the ceiling wherever it is held; and
while `f = 0`, whatever a file, task or tick knows of has a row in the table, and a tick
past `persist` has rows for the whole range it scanned. Two relations carry all of it from
state to state: the chain only moves on (`On`) and rows are never removed (`More`). `On`
and `More` hold of every step, the predicates are monotone in them (`FileKept`, `TaskKept`,
`TickKept`), and so an action has to be looked at only where it writes (`StepKeeps`). The
faults are in the invariant because `CheckpointCovered` is not true after one:
`MCRelayer_outage.cfg` shows it. What the theorem proves before the first fault is stronger
than the property: the pending request has a visible job in the table, so that the state
files may be lost.

*Control plane.* Every actor writes from a copy of the row, so the invariant is about copies.
`ControlInv` says that a row, the copy of a message or of an instance and the listing of a
pass each carry a dispatch number that names an instance that exists (`Known`) and equals
its instance id, that a pass or instance about to write `succeeded` had an answer
(`answered`), and that a pass about to create an instance saw the recorded one end badly,
unless a status check failed. `InstanceSound` adds that instances before an existing one
have ended and that the number beyond the ceiling is never used: those two are
`OneActiveInstance` and `InstancesBounded`. A writer with an old copy takes the dispatch
number back to one that exists, which is why the ceiling survives. `SettledStays` needs
in addition that a settled job's messages are looked up again before anything is done
(`SettledStep`).

*Automation.* `BoundedByMax` is about requests already sent, so `TickSound` says the same of
the number a tick holds between claim and broadcast. The bound on copies is `Reserved`: the
requests of an execution are no more than the processes that hold its reservation, or one
was forgotten. That is the second half of `DuplicatesNeedLoss`. The first, one request of all
processes together, takes the conditional claim, and `CrewInv` says how it works. A scheduled job's row counts every
execution sent (`RowSound`); who holds the claim is alone, works on the execution the row
counts, and the row cannot be claimed (`HeldBy`); a fetched row can be claimed only while
status and count are as fetched, because whatever makes it claimable again is a passing of
time that the tick's own clock does not see (`SnapSound`); and when a claim is left behind,
what was sent under it is on record as forgotten (`OrphanSound`), so a reclaim repeats it
only then. Each of the conditions is needed; TLC finds a duplicate when any one is dropped.
A table call that throws, or a claim that goes stale while its relayer works, leaves two
relayers on one execution with a reservation each. A price trigger's row is due at once when
it has no cooldown, so the claim of an older snapshot still matches; with a cooldown and
three relayers, the patch of an older evaluation takes the cooldown back. In those cases `CopiesPerProcess` is the
bound. `CancelHeld` says that a cancelled job is in no
snapshot and no process works on it, which is true of one relayer because it handles the
cancel between two ticks.

*Publisher.* A baseline is read, and the transaction decided against it lands arbitrarily
later. `Was(f, p, r, q)` says the record of round `r` had price `q` and is now that one or
one of a later round, which every step keeps until a reset (`Rises`). Every copy of an
on-chain record (a tick's baseline, a local record, an update queued, in the mempool or in a
running batch) satisfies it, and an update decided against round `r` is for round `r + 1`;
the contract accepts only a later round than the stored one, so when it lands the stored
record is of round `r` and has the price that was compared. The step from a batch to the
store is in `GoodBatch`: what a batch changed so far replaces the records outside it.
`PubIndexed` states the index of the store and of the running batch, as `FeedInv` does for
the contract alone, on top of the types of `PubInv`.

*Data feed.* `IndexExact` has to hold of the snapshot of a running batch as well: `FeedInv`
states types and index of both the store and the batch, so that a committed batch installs
an exact index and a reverted one leaves the old.

*NeoDID.* The properties speak of events and bindings; the contract decides by the
nullifier sets. `LogInv` connects them: the nullifier of every registration event is in the
master set, that of every use in the action set and of the action it was used for, and no
two registrations and no two uses carry the same one. `DidInv` is `LogInv` with types,
and `EventsTellBindings`. `AcceptedUnderVerifier` is an action property: the ticket that a
step presents was in the set, and the key it verifies under is the one stored at that step.

*Neo X.* `EvmInv` (types and pools) is inductive: the exact reserved pool covers each
pending fee, so neither clamp bites. `SentInv` says that what the fulfiller sent is about
a request that exists; with it every step of the composition is a kernel step
(`NeoXIsKernel`), and `RequestsStay` (ids only grow, a settled request never changes) can
be used for all of them. `CursorCovers` says nothing of the chunk under way: `CursorInv`
adds that every request before the next log was passed and that neither cursor nor chunk is
ahead of the chain, where new requests appear. `DiceInv` adds to the books that the request
of a settled bet is settled, so that what it makes due is final. `CoverInv` says that
without refusals nothing is owed and the balance covers the reservations; a prize is at
most the reservation released with it, so it can always be sent.

### Only model-checked

Every safety property of the passing runs is a theorem but two: `TriesBounded`, which is about
the history variable `tries` of `Relayer`, and `CheckpointCovered`, proved until a call fails
(`CoveredUntilFault`). Left to TLC are these, the liveness properties (`EventuallyHandled`,
`JobsDriven`, `ScheduleServed`, `FeedsCatchUp`, `RequestsAnswered`) and `PubTypeOK` (the proof
carries its own types). `Solvent` and `ImplementsEscrow` are proved, as they are checked,
without recipients that call back. Out of the prover's reach: liveness under fairness and
`ENABLED`, and what a recursive definition computes for every input.

### Assumptions on the constants

They are named where the constants are declared: sets that are finite, bounds and amounts
that are natural numbers, parties that are accounts, and `Null` different from the values it
stands in for (`NullIsApart`, `PublicationConstants`). Two say something of the program. Job
ids are positive (`ControlPlaneAssumption`), because 0 marks a free message slot. A
publisher has at least one symbol and first rounds are positive (`PublicationConstants`):
`feeds.js:631-640` falls back to the default symbols, and `buildRoundId` counts seconds
since 1970 (`feeds.js:499-502`).

## 5. Not modelled

* *Inside the modelled contracts:* length limits on identifiers and metadata (they
  only reject), the write-only enumeration of modules, read-only getters, events,
  contract update and destroy. Integers are unbounded as in the NeoVM up to 256 bits;
  amounts of GAS are far below.
* *Inside the relayer:* manual retries and replays, the request floor (quarantine and
  pruning), the size limits of processed records and dead letters, the idle-discovery
  delay, a cold start at the tail of the chain (a configured start id is assumed), table
  errors that are not transient (they abort the tick), the Neo X lane, metrics and
  heartbeats. The order in which a full retry queue sheds the items it held before is
  left open.
* *Inside the control plane:* authentication, rate limits, routing, what the execution plane
  does, and the retired workflow ingress (its rows are in the initial state).
* *Inside automation:* validation of payloads, encrypted fields, the idle backoff (off by
  default), a batch smaller than the schedulable jobs.
* *Inside the worker:* providers and aggregation, decimal conversion, the force flag,
  recovery and zklogin tickets (no modelled contract consumes them), request guards,
  breaker and overload limits, compute, VRF, paymaster.
* *On Neo X:* `setOracle` of the game, registration under the empty app id, how the
  fulfiller computes a result, the callback monitor (it only reads), `MiniAppMessageEVM`,
  and `MorpheusPriceFeed` with the feed pusher, still to be modelled.
* *Edge gateway:* a stateless proxy and cache.
* *Web application, scripts, SDKs, examples:* user interface and operator tools.
* *Supabase schema:* its tables appear as variables of the modules that use them.
* *Enclave, signer, egress proxy:* they move and sign bytes; the signer is the
  external action `SignFulfillment`.

## 6. Plan

Order of work: kernel, delivery and relayer first (the money and the answers), then the
control plane, automation, feeds, NeoDID and Neo X. What is left, in order of importance:

1. **Relayer, the rest**: manual actions, the request floor, cache limits, errors that
   abort a tick, and an abstract specification (a pending request is tracked until it is
   settled or dead-lettered) that the table and the state files refine.
2. **EVM price feed with the feed pusher**, the message miniapp, a change of the game's
   kernel.
3. **Runtime guards**: replay and idempotency caches, circuit breaker, overload guard;
   feed aggregation against a reference definition.
4. **Proofs**: an abstract specification of the relayer's promise and the refinement; price
   triggers with a cooldown and two relayers, where one request per execution may hold.
