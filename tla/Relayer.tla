------------------------------ MODULE Relayer -------------------------------
(***************************************************************************)
(* The request lane of the relayer: instances that scan one chain for      *)
(* oracle requests, keep a state file, share a table of jobs, and answer   *)
(* requests on chain, with crashes, calls to the table that fail, and      *)
(* transactions that are mined late or never.                              *)
(*                                                                         *)
(* An instance is a JavaScript process: what happens between two awaits is *)
(* one action.  Its loop reads the state file at the start of a tick       *)
(* (mem), works on mem, and writes it back (disk).  Within a tick every    *)
(* event is processed by a task of its own, and the tasks interleave.      *)
(*                                                                         *)
(* Time is abstract: a retry item becomes due, a job row becomes ripe (its *)
(* retry time has come or its owner has been silent for staleProcessingMs) *)
(* and a backoff ends at any moment.                                       *)
(***************************************************************************)
EXTENDS Integers, FiniteSets

CONSTANTS
  Instances,        \* relayer processes
  Null,
  MainLane,         \* "block" or "cursor": the lane a tick scans first
  MaxRequests,      \* bound on the requests on chain
  MaxBlocksPerTick, \* how many ids a scan covers
  MaxFresh,         \* backpressure.maxFreshEventsPerTick
  MaxRetryEvents,   \* backpressure.maxRetryEventsPerTick
  MaxRetries,
  Ceiling,          \* resolveCallbackRetryCeiling
  RetryQueueLimit,  \* 0 is no limit
  LocalClaimers,    \* the instances with durableQueue.allowLocalClaimDuringBackoff
  Throttled,        \* whether statePersistMinIntervalMs > 0
  SlowWork,         \* whether a task may outlast staleProcessingMs
  Answers,          \* what the runtime may prepare: a result, a failure
  Errors,           \* error classes of runtime and chain calls
  MaxFaults,        \* bound on failed calls to the table and failed or lagging scans
  MaxCrashes,       \* bound on crashes
  CountsTries       \* whether the history variable tries is kept

ASSUME RelayerConstants ==
  /\ MainLane \in {"block", "cursor"}
  /\ MaxRequests \in Nat /\ MaxBlocksPerTick \in Nat \ {0}
  /\ MaxFresh \in Nat \ {0} /\ MaxRetryEvents \in Nat \ {0}
  /\ MaxRetries \in Nat /\ Ceiling \in Nat \ {0} /\ RetryQueueLimit \in Nat
  /\ LocalClaimers \subseteq Instances /\ Throttled \in BOOLEAN /\ SlowWork \in BOOLEAN
  /\ Answers \subseteq {"ok", "bad"} /\ Errors \subseteq {"transient", "permanent", "config"}
  /\ MaxFaults \in Nat /\ MaxCrashes \in Nat /\ CountsTries \in BOOLEAN

Ids == 1 .. MaxRequests

Lanes == {"block", "cursor"}

\* buildEventKey: the two lanes build different keys for one request.
Keys == [id : Ids, lane : Lanes]

\* The prepared answer of an item, a row or a task: none, a result, a failure.
Prepared == {"none", "ok", "bad"}

\* An entry of retry_queue.  due says that next_retry_at has passed.
Item ==
  [attempts : Nat, prepared : Prepared, finalize : BOOLEAN, claimed : BOOLEAN, due : BOOLEAN]

ProcessedStatus == {"fulfilled", "failed", "settled", "exhausted"}

LocalState ==
  [last      : [Lanes -> Nat],                     \* last_block, last_request_id
   queue     : [Keys -> Item \cup {Null}],         \* retry_queue
   processed : [Keys -> ProcessedStatus \cup {Null}], \* processed_records
   dead      : SUBSET Keys]                        \* dead_letters

WaitingStatus ==
  {"retry_scheduled", "callback_retry_scheduled", "failure_callback_retry_scheduled"}
WorkingStatus == {"processing", "retrying", "callback_pending"}
QueuedStatus  == {"queued", "queued_backpressure"}
OpenStatus    == WaitingStatus \cup WorkingStatus \cup QueuedStatus
ClosedStatus  == ProcessedStatus \cup {"failed_config"}

\* A row of the jobs table.
Row ==
  [status : OpenStatus \cup ClosedStatus, attempts : Nat, prepared : Prepared,
   finalize : BOOLEAN, ripe : BOOLEAN]

\* A call of processEvent in progress.  retry: it was started for a retry
\* item.  rescue: the primary execution is given up and a failure is being
\* delivered.  tx is the transaction it sent.
Task ==
  [stage : {"claim", "mark", "prepare", "checkpoint", "deliver", "confirm", "close"},
   retry : BOOLEAN, attempts : Nat, prepared : Prepared, finalize : BOOLEAN,
   claimed : BOOLEAN, rescue : BOOLEAN, tx : {"none", "sent", "halt", "fault"},
   row : Row \cup {Null}]

\* Null is none of the values it stands in for.
ASSUME NullIsApart ==
  Null \notin ProcessedStatus /\ Null \notin Item /\ Null \notin Row /\ Null \notin Task

VARIABLES
  chain,    \* external: request id -> its status in the kernel
  lostTxs,  \* external: transactions in the mempool that no task waits for
  jobs,     \* external: the shared table morpheus_relayer_jobs
  pc,       \* where an instance is in its tick
  lane,     \* the lane it is scanning
  goal,     \* the upper end of its scan
  fresh,    \* the new events of its scan, by request id
  observed, \* observedRequestIds: handled by this tick's main lane
  active,   \* tickHadActivity
  mem, disk,
  dirty,    \* whether the trailing write of createPersistor is scheduled
  backoff,  \* supabasePersistenceBackoffUntilMs is in the future
  tasks,
  faults, crashes,
  tries     \* history, not the code's: how often processEvent went to work on
            \* the main lane's event of a request, in any life of a process

tickVars  == <<pc, lane, goal, fresh, observed, active>>
localVars == <<mem, disk, dirty>>
tableVars == <<jobs, backoff, faults>>
chainVars == <<chain, lostTxs>>
vars      == <<tickVars, localVars, tableVars, chainVars, tasks, crashes, tries>>

PC == {"idle", "hydrate", "discover", "persist", "defer", "work", "retry", "retrying"}

TypeOK ==
  /\ chain \in [Ids -> {"absent", "pending", "succeeded", "failed", "expired"}]
  /\ lostTxs \subseteq [id : Ids, success : BOOLEAN]
  /\ jobs \in [Keys -> Row \cup {Null}]
  /\ pc \in [Instances -> PC]
  /\ lane \in [Instances -> Lanes]
  /\ goal \in [Instances -> Nat]
  /\ fresh \in [Instances -> SUBSET Ids] /\ observed \in [Instances -> SUBSET Ids]
  /\ mem \in [Instances -> LocalState] /\ disk \in [Instances -> LocalState]
  /\ active \in [Instances -> BOOLEAN] /\ dirty \in [Instances -> BOOLEAN]
  /\ backoff \in [Instances -> BOOLEAN]
  /\ tasks \in [Instances -> [Keys -> Task \cup {Null}]]
  /\ faults \in Nat /\ crashes \in Nat

EmptyState ==
  [last |-> [l \in Lanes |-> 0], queue |-> [k \in Keys |-> Null],
   processed |-> [k \in Keys |-> Null], dead |-> {}]

Init ==
  /\ chain = [id \in Ids |-> "absent"] /\ lostTxs = {}
  /\ jobs = [k \in Keys |-> Null]
  /\ pc = [i \in Instances |-> "idle"] /\ lane = [i \in Instances |-> MainLane]
  /\ goal = [i \in Instances |-> 0]
  /\ fresh = [i \in Instances |-> {}] /\ observed = [i \in Instances |-> {}]
  /\ mem = [i \in Instances |-> EmptyState] /\ disk = [i \in Instances |-> EmptyState]
  /\ active = [i \in Instances |-> FALSE] /\ dirty = [i \in Instances |-> FALSE]
  /\ backoff = [i \in Instances |-> FALSE]
  /\ tasks = [i \in Instances |-> [k \in Keys |-> Null]]
  /\ faults = 0 /\ crashes = 0 /\ tries = [id \in Ids |-> 0]
-----------------------------------------------------------------------------
(***************************************************************************)
(* State file and retry queue.                                             *)
(***************************************************************************)

\* persistState: the state is written, or a trailing write is scheduled.
PersistState(i, m) ==
  /\ mem' = [mem EXCEPT ![i] = m]
  /\ \/ /\ disk' = [disk EXCEPT ![i] = m]
        /\ dirty' = [dirty EXCEPT ![i] = FALSE]
     \/ /\ Throttled
        /\ dirty' = [dirty EXCEPT ![i] = TRUE]
        /\ UNCHANGED disk

FlushTimer(i) ==
  /\ dirty[i]
  /\ disk' = [disk EXCEPT ![i] = mem[i]]
  /\ dirty' = [dirty EXCEPT ![i] = FALSE]
  /\ UNCHANGED <<tickVars, mem, tableVars, chainVars, tasks, crashes, tries>>

Held(queue) == {k \in Keys : queue[k] # Null}

\* The states enqueueRetryItem may leave: a queue over its limit sheds items
\* to the dead letters, the ones held before this call first (their own order
\* is not kept here).
Enqueue(m, ks, item) ==
  LET queue == [k \in Keys |-> IF k \in ks THEN item ELSE m.queue[k]]
      old   == Held(m.queue)
      over  == IF RetryQueueLimit = 0 THEN 0 ELSE Cardinality(Held(queue)) - RetryQueueLimit
  IN  {[m EXCEPT !.queue = [x \in Keys |-> IF x \in shed THEN Null ELSE queue[x]],
                 !.dead  = @ \cup shed] :
         shed \in {s \in SUBSET Held(queue) :
                     /\ Cardinality(s) = IF over > 0 THEN over ELSE 0
                     /\ s \subseteq old \/ old \subseteq s}}

ClearRetryItem(m, k) == [m EXCEPT !.queue[k] = Null]

RecordProcessedEvent(m, k, status) ==
  [m EXCEPT !.processed[k] = status, !.queue[k] = Null,
            !.dead = IF status = "exhausted" THEN @ \cup {k} ELSE @]

Tracked(m, k) == m.processed[k] # Null \/ m.queue[k] # Null

\* collectActiveRequestIds
ActiveRequestIds(m) == {id \in Ids : \E k \in Keys : k.id = id /\ Tracked(m, k)}
-----------------------------------------------------------------------------
(***************************************************************************)
(* The jobs table.  A call is skipped during a backoff; a call that fails  *)
(* starts one, and may have been applied all the same.                     *)
(***************************************************************************)
NewRow(status, attempts, prepared, finalize) ==
  [status |-> status, attempts |-> attempts, prepared |-> prepared,
   finalize |-> finalize, ripe |-> FALSE]

CallFails(i) ==
  /\ ~backoff[i]
  /\ faults < MaxFaults
  /\ faults' = faults + 1
  /\ backoff' = [backoff EXCEPT ![i] = TRUE]

CallSucceeds(i) == ~backoff[i] /\ UNCHANGED <<backoff, faults>>

\* maybeUpsertJob: the row is overwritten whoever holds it, and a failure is
\* logged and forgotten.
UpsertJob(i, k, row) ==
  \/ backoff[i] /\ UNCHANGED tableVars
  \/ CallSucceeds(i) /\ jobs' = [jobs EXCEPT ![k] = row]
  \/ CallFails(i) /\ (UNCHANGED jobs \/ jobs' = [jobs EXCEPT ![k] = row])

\* The rows claimRelayerJob takes.
Claimable(row, retry) ==
  \/ row.status \in QueuedStatus
  \/ retry /\ row.status \in WaitingStatus \cup {"callback_pending"}
  \/ row.status \in WorkingStatus /\ row.ripe

\* Mutant of Ready: the stale jobs of a dead instance are left alone.
ReadyNotStale(row) ==
  row.status \in QueuedStatus \/ (row.status \in WaitingStatus /\ row.ripe)

\* isDurableQueueReadyJob
Ready(row) == row.status \in QueuedStatus \/ (row.status \in OpenStatus /\ row.ripe)
-----------------------------------------------------------------------------
(***************************************************************************)
(* The tick.                                                               *)
(***************************************************************************)
\* A trailing write comes before the next tick: statePersistMinIntervalMs is
\* shorter than pollIntervalMs.
StartTick(i) ==
  /\ pc[i] = "idle" /\ ~dirty[i]
  /\ mem' = [mem EXCEPT ![i] = disk[i]]
  /\ pc' = [pc EXCEPT ![i] = "hydrate"]
  /\ lane' = [lane EXCEPT ![i] = MainLane]
  /\ UNCHANGED <<goal, fresh, observed, active, disk, dirty, tableVars, chainVars, tasks, crashes, tries>>

\* The rows that are ready and unknown here become retry items that count as
\* claimed, although the table is only read.
Hydrated(m) ==
  [m EXCEPT !.queue = [k \in Keys |->
     IF jobs[k] # Null /\ ~Tracked(m, k) /\ Ready(jobs[k])
     THEN [attempts |-> jobs[k].attempts, prepared |-> jobs[k].prepared,
           finalize |-> jobs[k].finalize, claimed |-> TRUE,
           due |-> jobs[k].status # "queued_backpressure"]
     ELSE m.queue[k]]]

HydrateDurableQueue(i) ==
  /\ pc[i] = "hydrate"
  /\ \/ backoff[i] /\ UNCHANGED <<localVars, backoff, faults>>
     \/ CallFails(i) /\ UNCHANGED localVars
     \/ /\ CallSucceeds(i)
        /\ IF Hydrated(mem[i]) = mem[i] THEN UNCHANGED localVars
           ELSE PersistState(i, Hydrated(mem[i]))
  /\ pc' = [pc EXCEPT ![i] = "discover"]
  /\ UNCHANGED <<lane, goal, fresh, observed, active, jobs, chainVars, tasks, crashes, tries>>

Latest == Cardinality({id \in Ids : chain[id] # "absent"})

\* resolveChainFromBlock, resolveRequestCursor: a checkpoint ahead of what the
\* node reports is reset, and the scan starts over.
Rewound(m, l, seen) == IF m.last[l] > seen THEN [m EXCEPT !.last[l] = 0] ELSE m

ScanFrom(m, l, seen) == Rewound(m, l, seen).last[l] + 1

\* A block scan finds every request, a scan by request id the pending ones.
Scanned(l, from, to) == {id \in from .. to : l = "block" \/ chain[id] = "pending"}

\* filterNewEvents, and for the second lane the exclusion of every request
\* that this tick or the local state already knows.
NewEvents(i, ids) ==
  {id \in ids :
     /\ ~Tracked(mem[i], [id |-> id, lane |-> lane[i]])
     /\ lane[i] # MainLane => id \notin observed[i] \cup ActiveRequestIds(mem[i])}

AfterScan(i) == IF lane[i] = MainLane THEN "retry" ELSE "idle"

\* The end of a tick writes the state file, unless the tick was idle and the
\* file is fresh.
TickEnd(i) ==
  \/ /\ disk' = [disk EXCEPT ![i] = mem'[i]]
     /\ dirty' = [dirty EXCEPT ![i] = FALSE]
  \/ Throttled /\ ~active[i] /\ UNCHANGED <<disk, dirty>>

\* The variables of a tick end with it.
DropTickState(i, ends) ==
  IF ends THEN /\ observed' = [observed EXCEPT ![i] = {}]
               /\ active' = [active EXCEPT ![i] = FALSE]
          ELSE UNCHANGED <<observed, active>>

TickEndIf(i, ends) ==
  /\ IF ends THEN TickEnd(i) ELSE UNCHANGED <<disk, dirty>>
  /\ DropTickState(i, ends)

\* seen is what the node reports; a node may lag behind.
Discover(i, seen) ==
  LET from == ScanFrom(mem[i], lane[i], seen)
      to   == IF seen < from + MaxBlocksPerTick - 1 THEN seen ELSE from + MaxBlocksPerTick - 1
  IN  /\ pc[i] = "discover"
      /\ mem' = [mem EXCEPT ![i] = Rewound(@, lane[i], seen)]
      /\ IF from > seen
         THEN /\ pc' = [pc EXCEPT ![i] = AfterScan(i)]
              /\ TickEndIf(i, AfterScan(i) = "idle")
              /\ UNCHANGED <<goal, fresh>>
         ELSE /\ pc' = [pc EXCEPT ![i] = "persist"]
              /\ goal' = [goal EXCEPT ![i] = to]
              /\ fresh' = [fresh EXCEPT ![i] = NewEvents(i, Scanned(lane[i], from, to))]
              /\ TickEndIf(i, FALSE)
      /\ faults' = IF seen < Latest THEN faults + 1 ELSE faults
      /\ UNCHANGED <<lane, jobs, backoff, chainVars, tasks, crashes, tries>>

\* The scan fails: retries are run, the checkpoint stays.
DiscoverFails(i) ==
  /\ pc[i] = "discover"
  /\ faults < MaxFaults
  /\ faults' = faults + 1
  /\ pc' = [pc EXCEPT ![i] = AfterScan(i)]
  /\ UNCHANGED mem
  /\ TickEndIf(i, AfterScan(i) = "idle")
  /\ UNCHANGED <<lane, goal, fresh, jobs, backoff, chainVars, tasks, crashes, tries>>

FreshKeys(i) == [id : fresh[i], lane : {lane[i]}]

\* Mutant of Inserted: the events are not persisted before they are processed.
InsertedNever(ks) == jobs

\* Rows are inserted for the keys in ks that have none.
Inserted(ks) ==
  [k \in Keys |-> IF k \in ks /\ jobs[k] = Null THEN NewRow("queued", 0, "none", FALSE)
                  ELSE jobs[k]]

\* A failure leaves some of the rows and is not passed on: the tick continues
\* with the local state.
PersistFreshEvents(i) ==
  /\ pc[i] = "persist"
  /\ \/ backoff[i] /\ UNCHANGED tableVars
     \/ CallSucceeds(i) /\ jobs' = Inserted(FreshKeys(i))
     \/ /\ fresh[i] # {}
        /\ CallFails(i)
        /\ \E ks \in SUBSET FreshKeys(i) : jobs' = Inserted(ks)
  /\ pc' = [pc EXCEPT ![i] = "defer"]
  /\ UNCHANGED <<lane, goal, fresh, observed, active, localVars, chainVars, tasks, crashes, tries>>

NewTask(retry, attempts, prepared, finalize, claimed) ==
  [stage |-> "claim", retry |-> retry, attempts |-> attempts, prepared |-> prepared,
   finalize |-> finalize, claimed |-> claimed, rescue |-> FALSE, tx |-> "none", row |-> Null]

NewItem(attempts, prepared, finalize, claimed) ==
  [attempts |-> attempts, prepared |-> prepared, finalize |-> finalize,
   claimed |-> claimed, due |-> FALSE]

\* The events a tick of the main lane leaves for later: all but the first
\* MaxFresh.
Deferred(i) ==
  {k \in FreshKeys(i) :
     lane[i] = MainLane /\ Cardinality({id \in fresh[i] : id < k.id}) >= MaxFresh}

RowsDeferred(ks) ==
  [k \in Keys |-> IF k \in ks THEN NewRow("queued_backpressure", 0, "none", FALSE) ELSE jobs[k]]

\* deferEventsForBackpressure, then a task for each of the other events.
DeferAndProcess(i) ==
  /\ pc[i] = "defer"
  /\ \/ (backoff[i] \/ Deferred(i) = {}) /\ UNCHANGED tableVars
     \/ Deferred(i) # {} /\ CallSucceeds(i) /\ jobs' = RowsDeferred(Deferred(i))
     \/ /\ Deferred(i) # {}
        /\ CallFails(i)
        /\ \E ks \in SUBSET Deferred(i) : jobs' = RowsDeferred(ks)
  /\ IF Deferred(i) = {} THEN UNCHANGED localVars
     ELSE \E m \in Enqueue(mem[i], Deferred(i), NewItem(0, "none", FALSE, FALSE)) :
             PersistState(i, m)
  /\ tasks' = [tasks EXCEPT ![i] = [k \in Keys |->
                 IF k \in FreshKeys(i) \ Deferred(i)
                 THEN NewTask(FALSE, 0, "none", FALSE, FALSE) ELSE Null]]
  /\ observed' = [observed EXCEPT ![i] = @ \cup {k.id : k \in FreshKeys(i) \ Deferred(i)}]
  /\ active' = [active EXCEPT ![i] = @ \/ fresh[i] # {}]
  /\ fresh' = [fresh EXCEPT ![i] = {}]
  /\ pc' = [pc EXCEPT ![i] = "work"]
  /\ UNCHANGED <<lane, goal, chainVars, crashes, tries>>

Resting(i) == \A k \in Keys : tasks[i][k] = Null

\* Every event of the scan was processed: the checkpoint moves.
AdvanceCheckpoint(i) ==
  LET m == [mem[i] EXCEPT !.last[lane[i]] = goal[i]]
  IN  /\ pc[i] = "work" /\ Resting(i)
      /\ PersistState(i, m)
      /\ AfterScan(i) = "idle" /\ active[i] => ~dirty'[i]
      /\ pc' = [pc EXCEPT ![i] = AfterScan(i)]
      /\ goal' = [goal EXCEPT ![i] = 0]
      /\ DropTickState(i, AfterScan(i) = "idle")
      /\ UNCHANGED <<lane, fresh, tableVars, chainVars, tasks, crashes, tries>>

RunDueRetries(i) ==
  LET due == {k \in Keys : mem[i].queue[k] # Null /\ mem[i].queue[k].due}
  IN  /\ pc[i] = "retry"
      /\ \E batch \in SUBSET due :
           /\ Cardinality(batch) =
                IF Cardinality(due) < MaxRetryEvents THEN Cardinality(due) ELSE MaxRetryEvents
           /\ tasks' = [tasks EXCEPT ![i] = [k \in Keys |->
                IF k \in batch
                THEN LET t == mem[i].queue[k]
                     IN  NewTask(TRUE, t.attempts, t.prepared, t.finalize, t.claimed)
                ELSE Null]]
      /\ active' = [active EXCEPT ![i] = @ \/ due # {}]
      /\ pc' = [pc EXCEPT ![i] = "retrying"]
      /\ UNCHANGED <<lane, goal, fresh, observed, localVars, tableVars, chainVars, crashes, tries>>

\* After a block scan the requests are also looked up by id
\* (reconcilePendingRequests); a tick by request id ends here.
RetriesDone(i) ==
  /\ pc[i] = "retrying" /\ Resting(i)
  /\ lane' = [lane EXCEPT ![i] = "cursor"]
  /\ pc' = [pc EXCEPT ![i] = IF MainLane = "block" THEN "discover" ELSE "idle"]
  /\ UNCHANGED mem
  /\ TickEndIf(i, MainLane = "cursor")
  /\ UNCHANGED <<goal, fresh, tableVars, chainVars, tasks, crashes, tries>>
-----------------------------------------------------------------------------
(***************************************************************************)
(* processEvent.  A task does not touch the tick's own variables.          *)
(***************************************************************************)
SetTask(i, k, t) == tasks' = [tasks EXCEPT ![i][k] = t]

\* A claim declined during a backoff: a fresh event becomes a retry item.
RetainWork(i, k) ==
  LET t == tasks[i][k]
  IN  /\ backoff[i] /\ i \notin LocalClaimers
      /\ IF t.retry THEN UNCHANGED localVars
         ELSE \E m \in Enqueue(mem[i], {k}, NewItem(t.attempts, "none", FALSE, FALSE)) :
                 PersistState(i, m)
      /\ SetTask(i, k, Null)
      /\ UNCHANGED tableVars

ClaimedRow(t) ==
  NewRow(IF t.retry THEN "retrying" ELSE "processing", t.attempts, "none", t.finalize)

\* The conditional update of claimRelayerJob.  No row is taken for a row that
\* another instance holds; a call that fails is taken for a claim.
ClaimInTable(i, k) ==
  LET t     == tasks[i][k]
      taken == jobs[k] # Null /\ Claimable(jobs[k], t.retry)
      rows  == IF taken THEN [jobs EXCEPT ![k] = ClaimedRow(t)] ELSE jobs
  IN  \/ /\ CallSucceeds(i) /\ taken /\ jobs' = rows
         /\ SetTask(i, k, [t EXCEPT !.stage = "mark"])
         /\ UNCHANGED localVars
      \/ /\ CallSucceeds(i) /\ ~taken /\ UNCHANGED jobs
         /\ SetTask(i, k, Null)
         /\ PersistState(i, ClearRetryItem(mem[i], k))
      \/ /\ CallFails(i) /\ jobs' \in {jobs, rows}
         /\ SetTask(i, k, [t EXCEPT !.stage = "mark"])
         /\ UNCHANGED localVars

ClaimDurableJob(i, k) ==
  /\ tasks[i][k].stage = "claim"
  /\ \/ /\ tasks[i][k].claimed \/ (backoff[i] /\ i \in LocalClaimers)
        /\ SetTask(i, k, [tasks[i][k] EXCEPT !.stage = "mark"])
        /\ UNCHANGED <<localVars, tableVars>>
     \/ ~tasks[i][k].claimed /\ (RetainWork(i, k) \/ ClaimInTable(i, k))
  /\ UNCHANGED chainVars

MarkJob(i, k) ==
  LET t == tasks[i][k]
  IN  /\ t.stage = "mark"
      /\ UpsertJob(i, k, [ClaimedRow(t) EXCEPT !.finalize = FALSE])
      /\ SetTask(i, k, [t EXCEPT !.stage =
           IF t.finalize \/ t.prepared # "none" THEN "deliver" ELSE "prepare"])
      /\ UNCHANGED <<localVars, chainVars>>

CloseTask(row) ==
  [NewTask(FALSE, 0, "none", FALSE, FALSE) EXCEPT !.stage = "close", !.row = row]

\* The outcome is recorded here first and in the table afterwards.
RecordOutcome(i, k, local, durable, attempts) ==
  /\ PersistState(i, RecordProcessedEvent(mem[i], k, local))
  /\ SetTask(i, k, CloseTask(NewRow(durable, attempts, "none", FALSE)))

\* recordDeliveryExhaustion
Exhaust(i, k, attempts) == RecordOutcome(i, k, "exhausted", "exhausted", attempts)

ScheduleCallbackRetry(i, k, attempts, prepared, finalize) ==
  /\ \E m \in Enqueue(mem[i], {k}, NewItem(attempts, prepared, finalize, FALSE)) :
        PersistState(i, m)
  /\ SetTask(i, k, CloseTask(NewRow(
       IF finalize THEN "failure_callback_retry_scheduled" ELSE "callback_retry_scheduled",
       attempts, prepared, finalize)))

\* Mutant of DeliveryFails: no ceiling.
DeliveryFailsUncapped(i, k, e, attempts, prepared, finalize) ==
  IF e \in {"permanent", "config"}
  THEN Exhaust(i, k, attempts)
  ELSE ScheduleCallbackRetry(i, k, attempts, prepared, finalize)

\* resolveDeliveryRetryOrExhaust
DeliveryFails(i, k, e, attempts, prepared, finalize) ==
  IF e \in {"permanent", "config"} \/ attempts > Ceiling
  THEN Exhaust(i, k, attempts)
  ELSE ScheduleCallbackRetry(i, k, attempts, prepared, finalize)

\* Mutant of Rescue: the failure is recorded and never delivered.
GiveUpSilently(i, k, attempts) ==
  SetTask(i, k, CloseTask(NewRow("failed", attempts, "none", FALSE)))

\* The execution is given up and its failure is delivered instead.
Rescue(i, k, attempts) ==
  SetTask(i, k, [tasks[i][k] EXCEPT !.stage = "deliver", !.rescue = TRUE, !.attempts = attempts])

\* scheduleRetry, and what follows when no retry is left.
ScheduleRetry(i, k) ==
  LET old      == mem[i].queue[k]
      attempts == IF old = Null THEN 1 ELSE old.attempts + 1
  IN  IF attempts > MaxRetries
      THEN /\ mem' = [mem EXCEPT ![i] = ClearRetryItem(@, k)]
           /\ UNCHANGED <<disk, dirty>>
           /\ Rescue(i, k, attempts)
      ELSE /\ \E m \in Enqueue(mem[i], {k}, NewItem(attempts, "none", FALSE, FALSE)) :
                 PersistState(i, m)
           /\ SetTask(i, k, CloseTask(NewRow("retry_scheduled", attempts, "none", FALSE)))

\* The catch block of processEvent, and the inner one around a rescue, which
\* does not ask whether the request is settled already.
ProcessingFails(i, k, e) ==
  LET t == tasks[i][k]
  IN  \/ t.rescue /\ DeliveryFails(i, k, e, t.attempts + 1, "none", TRUE)
      \/ ~t.rescue /\ e = "settled" /\ RecordOutcome(i, k, "settled", "settled", t.attempts)
      \/ ~t.rescue /\ e = "config" /\ RecordOutcome(i, k, "exhausted", "failed_config", t.attempts)
      \/ /\ ~t.rescue /\ e \in {"transient", "permanent"}
         /\ \/ /\ t.prepared # "none" \/ t.finalize
               /\ DeliveryFails(i, k, e, t.attempts + 1, t.prepared, t.finalize)
            \/ /\ t.prepared = "none" /\ ~t.finalize /\ e = "permanent"
               /\ Rescue(i, k, t.attempts + 1)
               /\ UNCHANGED localVars
            \/ /\ t.prepared = "none" /\ ~t.finalize /\ e = "transient"
               /\ ScheduleRetry(i, k)

\* The runtime executes the request.  Its answer is kept in the retry queue
\* before it is sent anywhere.
PrepareFulfillment(i, k) ==
  LET t == tasks[i][k]
  IN  /\ t.stage = "prepare"
      /\ \/ \E a \in Answers :
              /\ \E m \in Enqueue(mem[i], {k}, NewItem(t.attempts, a, FALSE, t.claimed)) :
                    PersistState(i, m)
              /\ SetTask(i, k, [t EXCEPT !.stage = "checkpoint", !.prepared = a])
         \/ \E e \in Errors : ProcessingFails(i, k, e)
      /\ UNCHANGED <<tableVars, chainVars>>

CheckpointPrepared(i, k) ==
  LET t == tasks[i][k]
  IN  /\ t.stage = "checkpoint"
      /\ UpsertJob(i, k, NewRow("callback_pending", t.attempts, t.prepared, FALSE))
      /\ SetTask(i, k, [t EXCEPT !.stage = "deliver"])
      /\ UNCHANGED <<localVars, chainVars>>

Success(t) == t.prepared = "ok" /\ ~t.rescue

\* A transaction is test-invoked, which fails when the request is settled, and
\* then sent.
DeliverFulfillment(i, k) ==
  LET t == tasks[i][k]
  IN  /\ t.stage = "deliver"
      /\ \/ /\ chain[k.id] # "pending"
            /\ ProcessingFails(i, k, "settled")
         \/ /\ chain[k.id] = "pending"
            /\ SetTask(i, k, [t EXCEPT !.stage = "confirm", !.tx = "sent"])
            /\ UNCHANGED localVars
         \/ \E e \in Errors : ProcessingFails(i, k, e)
      /\ UNCHANGED <<tableVars, chainVars>>

RecordDelivered(i, k) ==
  LET t      == tasks[i][k]
      status == IF Success(t) THEN "fulfilled" ELSE "failed"
  IN  RecordOutcome(i, k, status, status, t.attempts)

\* Mutant of ConfirmFulfillment: a transaction that was sent counts as executed.
ConfirmUnchecked(i, k) ==
  /\ tasks[i][k].stage = "confirm"
  /\ RecordDelivered(i, k)
  /\ UNCHANGED <<tableVars, chainVars>>

\* The execution of a sent transaction is looked up until it is known or a
\* timeout passes; a transaction that is given up may still be mined.
ConfirmFulfillment(i, k) ==
  LET t == tasks[i][k]
  IN  /\ t.stage = "confirm"
      /\ \/ /\ t.tx = "halt"
            /\ RecordDelivered(i, k)
            /\ UNCHANGED lostTxs
         \/ /\ t.tx = "fault"
            /\ ProcessingFails(i, k, "settled")
            /\ UNCHANGED lostTxs
         \/ /\ "transient" \in Errors
            /\ ProcessingFails(i, k, "transient")
            /\ lostTxs' \in {lostTxs, lostTxs \cup
                 IF t.tx = "sent" THEN {[id |-> k.id, success |-> Success(t)]} ELSE {}}
      /\ UNCHANGED <<tableVars, chain>>

CloseJob(i, k) ==
  /\ tasks[i][k].stage = "close"
  /\ UpsertJob(i, k, tasks[i][k].row)
  /\ SetTask(i, k, Null)
  /\ UNCHANGED <<localVars, chainVars>>

TaskStep(i, k) ==
  /\ tasks[i][k] # Null
  /\ \/ ClaimDurableJob(i, k) \/ MarkJob(i, k) \/ PrepareFulfillment(i, k)
     \/ CheckpointPrepared(i, k) \/ DeliverFulfillment(i, k)
     \/ ConfirmFulfillment(i, k) \/ CloseJob(i, k)
  /\ tries' = [tries EXCEPT ![k.id] =
       @ + IF CountsTries /\ k.lane = MainLane /\ tasks[i][k].stage = "mark" THEN 1 ELSE 0]
  /\ UNCHANGED <<tickVars, crashes>>
-----------------------------------------------------------------------------
(***************************************************************************)
(* Time, the chain and crashes.                                            *)
(***************************************************************************)
MadeDue(m) ==
  [m EXCEPT !.queue = [k \in Keys |->
     IF m.queue[k] = Null THEN Null ELSE [m.queue[k] EXCEPT !.due = TRUE]]]

\* The retry delays of an instance pass.
RetriesFallDue(i) ==
  /\ \E k \in Keys : mem[i].queue[k] # Null /\ ~mem[i].queue[k].due
  /\ mem' = [mem EXCEPT ![i] = MadeDue(@)]
  /\ disk' = [disk EXCEPT ![i] = MadeDue(@)]
  /\ UNCHANGED <<tickVars, dirty, tableVars, chainVars, tasks, crashes, tries>>

BackoffEnds(i) ==
  /\ backoff[i]
  /\ backoff' = [backoff EXCEPT ![i] = FALSE]
  /\ UNCHANGED <<tickVars, localVars, jobs, faults, chainVars, tasks, crashes, tries>>

Working(i, k) == tasks[i][k] # Null /\ tasks[i][k].stage # "claim"

\* The retry time of a row has come, or its last update is long ago.
JobRipens(k) ==
  /\ jobs[k] # Null /\ ~jobs[k].ripe
  /\ \/ jobs[k].status \in WaitingStatus
     \/ jobs[k].status \in WorkingStatus /\ (SlowWork \/ \A i \in Instances : ~Working(i, k))
  /\ jobs' = [jobs EXCEPT ![k].ripe = TRUE]
  /\ UNCHANGED <<tickVars, localVars, backoff, faults, chainVars, tasks, crashes, tries>>

NewRequest(id) ==
  /\ id = Latest + 1
  /\ chain' = [chain EXCEPT ![id] = "pending"]
  /\ UNCHANGED <<tickVars, localVars, tableVars, lostTxs, tasks, crashes, tries>>

\* The kernel's admin expires a pending request.
ExpireRequest(id) ==
  /\ chain[id] = "pending"
  /\ chain' = [chain EXCEPT ![id] = "expired"]
  /\ UNCHANGED <<tickVars, localVars, tableVars, lostTxs, tasks, crashes, tries>>

\* FulfillRequest on chain, as OracleKernel has it: a pending request gets the
\* outcome, and for any other the transaction faults.
Settled(id, success) ==
  IF chain[id] # "pending" THEN chain
  ELSE [chain EXCEPT ![id] = IF success THEN "succeeded" ELSE "failed"]

MineFulfillment(i, k) ==
  LET t == tasks[i][k]
  IN  /\ t # Null /\ t.tx = "sent"
      /\ chain' = Settled(k.id, Success(t))
      /\ SetTask(i, k, [t EXCEPT !.tx = IF chain[k.id] = "pending" THEN "halt" ELSE "fault"])
      /\ UNCHANGED <<tickVars, localVars, tableVars, lostTxs, crashes, tries>>

MineLostTx(x) ==
  /\ chain' = Settled(x.id, x.success)
  /\ lostTxs' = lostTxs \ {x}
  /\ UNCHANGED <<tickVars, localVars, tableVars, tasks, crashes, tries>>

\* A process dies and is started again: what was not written is lost, but not
\* the transactions it sent.
Crash(i) ==
  /\ pc[i] # "idle" \/ dirty[i]
  /\ crashes < MaxCrashes
  /\ crashes' = crashes + 1
  /\ pc' = [pc EXCEPT ![i] = "idle"]
  /\ goal' = [goal EXCEPT ![i] = 0]
  /\ fresh' = [fresh EXCEPT ![i] = {}]
  /\ DropTickState(i, TRUE)
  /\ mem' = [mem EXCEPT ![i] = disk[i]]
  /\ dirty' = [dirty EXCEPT ![i] = FALSE]
  /\ backoff' = [backoff EXCEPT ![i] = FALSE]
  /\ lostTxs' = lostTxs \cup
       {[id |-> k.id, success |-> Success(tasks[i][k])] :
          k \in {x \in Keys : tasks[i][x] # Null /\ tasks[i][x].tx = "sent"}}
  /\ tasks' = [tasks EXCEPT ![i] = [k \in Keys |-> Null]]
  /\ UNCHANGED <<lane, disk, jobs, faults, chain, tries>>

TickStep(i) ==
  \/ StartTick(i) \/ HydrateDurableQueue(i)
  \/ Discover(i, Latest) \/ DiscoverFails(i)
  \/ Latest > 0 /\ faults < MaxFaults /\ Discover(i, Latest - 1)
  \/ PersistFreshEvents(i) \/ DeferAndProcess(i) \/ AdvanceCheckpoint(i)
  \/ RunDueRetries(i) \/ RetriesDone(i)

Step(i) == TickStep(i) \/ \E k \in Keys : TaskStep(i, k)

Next ==
  \/ \E i \in Instances :
        \/ Step(i) \/ FlushTimer(i) \/ RetriesFallDue(i) \/ BackoffEnds(i) \/ Crash(i)
        \/ \E k \in Keys : MineFulfillment(i, k)
  \/ \E k \in Keys : JobRipens(k)
  \/ \E id \in Ids : NewRequest(id) \/ ExpireRequest(id)
  \/ \E x \in lostTxs : MineLostTx(x)

Spec == Init /\ [][Next]_vars

\* The loop of every process runs on, and time passes: delays, backoffs and
\* stale timeouts end.  Nothing makes the chain mine or the admin expire.
Fairness ==
  /\ \A i \in Instances :
        /\ WF_vars(Step(i)) /\ WF_vars(FlushTimer(i))
        /\ WF_vars(RetriesFallDue(i)) /\ WF_vars(BackoffEnds(i))
  /\ \A k \in Keys : WF_vars(JobRipens(k))

FairSpec == Spec /\ Fairness
-----------------------------------------------------------------------------
(***************************************************************************)
(* Properties.                                                             *)
(***************************************************************************)
\* An open job, or one whose exhaustion the operators can see in the table.
VisibleJob(k) ==
  jobs[k] # Null /\ jobs[k].status \in OpenStatus \cup {"exhausted", "failed_config"}

\* What survives a crash of every process accounts for every request below a
\* saved checkpoint that is still pending: it is in that state file's retry
\* queue, processed records or dead letters, or it has a visible job.
CheckpointCovered ==
  \A i \in Instances, l \in Lanes : \A id \in 1 .. disk[i].last[l] :
     chain[id] = "pending" =>
       \E k \in Keys : k.id = id /\ (Tracked(disk[i], k) \/ k \in disk[i].dead \/ VisibleJob(k))

\* Several instances that share the table forget nothing either, whichever of
\* them holds a claim, takes one over or dies, until a call to the table or a
\* scan fails: a failed insert lets PersistFreshEvents go on without a job.
CoveredUntilFault == faults = 0 => CheckpointCovered

\* A request recorded as fulfilled, failed or settled, in a state file or in
\* the table, is so on chain, whichever instance and which of the transactions
\* sent for it settled it.
OutcomeOnChain(id, status) ==
  /\ status = "fulfilled" => chain[id] = "succeeded"
  /\ status = "failed" => chain[id] = "failed"
  /\ status = "settled" => chain[id] \notin {"absent", "pending"}

RecordsTrue ==
  \A k \in Keys :
     /\ \A i \in Instances : OutcomeOnChain(k.id, mem[i].processed[k])
     /\ jobs[k] # Null => OutcomeOnChain(k.id, jobs[k].status)

\* The attempts that the relayer counts stay within the two ceilings wherever
\* the count is kept, in the retry queue of an instance or in the row another
\* instance takes the job over from.  What a crash keeps from being counted is
\* not in it (TriesBounded is about that).
AttemptsBounded ==
  \A k \in Keys :
     /\ \A i \in Instances : mem[i].queue[k] # Null =>
           mem[i].queue[k].attempts <= MaxRetries \/ mem[i].queue[k].attempts <= Ceiling
     /\ jobs[k] # Null /\ jobs[k].status \in OpenStatus =>
           jobs[k].attempts <= MaxRetries \/ jobs[k].attempts <= Ceiling

\* Retries end, whatever a crash forgets: an event is worked on at most once
\* more than the larger of the two ceilings, and every crash costs at most the
\* two tries of the tick it cuts off, one of the scan and one of the retries.
\* (The other lane's event has another key, and a count of its own.)
TriesBounded ==
  \A id \in Ids :
     \/ tries[id] <= MaxRetries + 1 + 2 * crashes
     \/ tries[id] <= Ceiling + 1 + 2 * crashes

\* A granted claim is safe to process: no two instances work on one job.
ClaimExclusive ==
  \A k \in Keys, i, j \in Instances : Working(i, k) /\ Working(j, k) => i = j

\* Operators see the request among the dead letters, of an instance or of the
\* table.
DeadLettered(id) ==
  \E k \in Keys :
     /\ k.id = id
     /\ \/ \E i \in Instances : k \in mem[i].dead
        \/ jobs[k] # Null /\ jobs[k].status \in {"exhausted", "failed_config"}

\* Every pending request is settled in the end or lands in the dead letters.
EventuallyHandled ==
  \A id \in Ids : chain[id] = "pending" ~> (chain[id] # "pending" \/ DeadLettered(id))
=============================================================================
