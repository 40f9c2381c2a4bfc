---------------------------- MODULE ControlPlane ----------------------------
(***************************************************************************)
(* The Cloudflare control plane: jobs are rows of the Supabase table       *)
(* morpheus_control_plane_jobs, written by four kinds of actor that never  *)
(* lock a row.                                                             *)
(*                                                                         *)
(*   ingress    worker.mjs fetch: insert the row, send the queue message,  *)
(*              mark the row dispatched                                    *)
(*   consumer   lib/queue-consumer.js: one per delivered message; loads    *)
(*              the row, marks it processing, calls the execution plane,   *)
(*              records the answer, acks or retries the message            *)
(*   recovery   lib/recovery.js, lib/workflows.js: the five-minute cron    *)
(*              and the operator's POST /jobs/recover, which may overlap   *)
(*   instance   lib/workflows-impl.js: one per Cloudflare Workflow         *)
(*              instance of a workflow job                                 *)
(*                                                                         *)
(* Every await is a step boundary.  patchJob is an unconditional PATCH of  *)
(* the fields it names: the last writer wins, and a writer that carries    *)
(* "metadata" writes back the metadata it loaded, however old.  Clocks are *)
(* abstracted to what the code compares: whether run_after has passed,     *)
(* whether started_at is staleProcessingMs old, whether updated_at is past *)
(* the grace period of the row's status; a clock no comparison would read  *)
(* is left alone.                                                          *)
(***************************************************************************)
EXTENDS Naturals, FiniteSets, FiniteSetsExt

CONSTANTS
    QueueJobs,      \* ids of the jobs on the queue routes, in creation order
    WorkflowJobs,   \* ids of the jobs on the workflow routes
    Recoverers,     \* overlapping callers of recoverNetworkJobs
    MaxAttempts,    \* MORPHEUS_CONTROL_PLANE_MAX_REQUEUE_ATTEMPTS
    MaxRetries,     \* max_retries of the queue's consumer
    Limit,          \* MORPHEUS_CONTROL_PLANE_REQUEUE_LIMIT
    Populations,    \* bound: which jobs and recovery passes a behaviour has
    Slots,          \* bound: messages that exist at one time
    Faults,         \* the fault classes that may happen
    MaxFaults       \* bound: how many faults happen

Jobs == QueueJobs \cup WorkflowJobs

FaultClasses ==
    {"ingress_crash", "send", "patch", "load", "consumer_crash", "duplicate",
     "dlq", "recovery_patch", "recovery_send", "recovery_crash",
     "status_check", "instance"}

ASSUME ControlPlaneAssumption ==
    /\ QueueJobs \subseteq Nat \ {0} /\ WorkflowJobs \subseteq Nat \ {0}
    /\ QueueJobs \cap WorkflowJobs = {}
    /\ IsFiniteSet(Jobs)
    /\ MaxAttempts \in Nat \ {0} /\ MaxRetries \in Nat /\ Limit \in Nat \ {0}
    /\ Populations \subseteq [jobs : SUBSET Jobs, passes : SUBSET Recoverers]
    /\ Faults \subseteq FaultClasses /\ MaxFaults \in Nat

VARIABLES
    row,        \* the table: one row per job, status "absent" before the insert
    ingress,    \* where the request that created the job stands
    msgs,       \* the Cloudflare queue and its dead-letter queue
    rec,        \* what each recovery pass has listed and where it stands
    inst,       \* the workflow instances of a job, by dispatch number
    called,     \* history: the job's execution was attempted
    answered,   \* history: an execution of the job was answered with success
    blind,      \* history: a status check of an instance, or its patch, failed
    faults      \* how many faults have happened

vars == <<row, ingress, msgs, rec, inst, called, answered, blind, faults>>

-----------------------------------------------------------------------------
(* Rows *)

Statuses == {"absent", "queued", "dispatched", "processing", "succeeded",
             "failed", "dead_lettered"}

\* TERMINAL_JOB_STATUSES ("cancelled" is written by nothing)
Terminal == {"succeeded", "failed", "dead_lettered"}

Row == [status : Statuses, started : {"none", "fresh", "stale"},
        delayed : BOOLEAN, rested : BOOLEAN,
        requeues : 0..MaxAttempts, dispatches : Nat, instance : Nat]

NoRow == [status |-> "absent", started |-> "none", delayed |-> FALSE,
          rested |-> FALSE, requeues |-> 0, dispatches |-> 0, instance |-> 0]

\* What a writer still uses of the row it loaded: started_at and the metadata.
Snap == [started : {"none", "fresh", "stale"}, requeues : 0..MaxAttempts,
         dispatches : Nat, instance : Nat]
SnapOf(r) == [started |-> r.started, requeues |-> r.requeues,
              dispatches |-> r.dispatches, instance |-> r.instance]
NoSnap == SnapOf(NoRow)

\* started_at is only used by the patch to processing.
MetadataOf(r) == [SnapOf(r) EXCEPT !.started = "none"]

\* The metadata a writer spreads into its patch: the one it loaded.
WithMetadataOf(r, snap) ==
    [r EXCEPT !.requeues = snap.requeues, !.dispatches = snap.dispatches,
              !.instance = snap.instance]

\* patchJob: status and updated_at change, the row is no longer rested.  Only
\* a queued row's run_after is ever read.
Stamped(r, status) ==
    [r EXCEPT !.status = status, !.rested = FALSE, !.delayed = FALSE]

CanFail(class) == class \in Faults /\ faults < MaxFaults
Fail(class) == CanFail(class) /\ faults' = faults + 1

\* A patch whose failure the caller swallows.
PatchOrSwallow(j, new, class) ==
    \/ row' = [row EXCEPT ![j] = new] /\ UNCHANGED faults
    \/ Fail(class) /\ UNCHANGED row

-----------------------------------------------------------------------------
(* Messages *)

FreeSlot == [state |-> "free", job |-> 0, attempts |-> 0, snap |-> NoSnap]

Message(j) == [state |-> "ready", job |-> j, attempts |-> 1, snap |-> NoSnap]

Live(m) == msgs[m].state # "free"

\* binding.send: the message takes a free slot.
Send(j) == \E m \in Slots : /\ ~Live(m)
                            /\ \A n \in Slots : n < m => Live(n)
                            /\ msgs' = [msgs EXCEPT ![m] = Message(j)]

Ack(m) == msgs' = [msgs EXCEPT ![m] = FreeSlot]

\* message.retry, or a handler that threw: the queue delivers the message
\* again, and past max_retries moves it to the dead-letter queue.
Retry(m) ==
    LET spent == msgs[m].attempts > MaxRetries
    IN  msgs' = [msgs EXCEPT ![m].state = IF spent THEN "dlq" ELSE "ready",
                             ![m].attempts = IF spent THEN 1 ELSE @ + 1,
                             ![m].snap = NoSnap]

-----------------------------------------------------------------------------
(* Ingress *)

\* insertJob.  A refused insert (a duplicate dedupe key, an outage) leaves no
\* row: the patch of the error path then matches nothing.
Insert(j) ==
    /\ ingress[j] = "idle"
    /\ \A k \in QueueJobs : k < j => ingress[k] # "idle"
    /\ row' = [row EXCEPT ![j] = [NoRow EXCEPT !.status = "queued"]]
    /\ ingress' = [ingress EXCEPT ![j] = "inserted"]
    /\ UNCHANGED <<msgs, rec, inst, called, answered, faults, blind>>

\* enqueueJob of the request; when it throws the handler goes on to its catch.
Enqueue(j) ==
    /\ ingress[j] = "inserted"
    /\ \/ /\ Send(j)
          /\ ingress' = [ingress EXCEPT ![j] = "sent"] /\ UNCHANGED faults
       \/ /\ Fail("send")
          /\ ingress' = [ingress EXCEPT ![j] = "failing"] /\ UNCHANGED msgs
    /\ UNCHANGED <<row, rec, inst, called, answered, blind>>

\* The last patch of the request: dispatched after a send, failed in the catch.
IngressPatch(j) ==
    /\ ingress[j] \in {"sent", "failing"}
    /\ PatchOrSwallow(j, Stamped(row[j], IF ingress[j] = "sent" THEN "dispatched"
                                         ELSE "failed"), "patch")
    /\ ingress' = [ingress EXCEPT ![j] = "done"]
    /\ UNCHANGED <<msgs, rec, inst, called, answered, blind>>

\* The isolate is evicted with the request half done.
IngressCrash(j) ==
    /\ ingress[j] \in {"inserted", "sent", "failing"}
    /\ Fail("ingress_crash")
    /\ ingress' = [ingress EXCEPT ![j] = "done"]
    /\ UNCHANGED <<row, msgs, rec, inst, called, answered, blind>>

-----------------------------------------------------------------------------
(* Consumer: processExecutionJob, and processFeedTickJob which is the same  *)
(* handler over the feed plane                                              *)

\* isStaleProcessing, as the consumer and recovery use it.
StaleProcessing(r) == r.status = "processing" /\ r.started = "stale"

\* loadJob and the early returns.  A load that throws fails the whole handler.
Deliver(m) ==
    /\ msgs[m].state = "ready"
    /\ LET r == row[msgs[m].job] IN
       \/ /\ r.status \in Terminal
             \/ (r.status = "processing" /\ ~StaleProcessing(r))
          /\ Ack(m) /\ UNCHANGED faults
       \/ /\ r.status = "queued" /\ r.delayed
          /\ Retry(m) /\ UNCHANGED faults
       \/ /\ r.status \notin Terminal
          /\ r.status = "processing" => StaleProcessing(r)
          /\ r.status = "queued" => ~r.delayed
          /\ msgs' = [msgs EXCEPT ![m].state = "marking", ![m].snap = SnapOf(r)]
          /\ UNCHANGED faults
       \/ Fail("load") /\ Retry(m)
    /\ UNCHANGED <<row, ingress, rec, inst, called, answered, blind>>

\* The patch to processing: started_at is kept from the loaded row when it has
\* one, so a retried job counts its age from its first attempt.
MarkProcessing(m) ==
    /\ msgs[m].state = "marking"
    /\ LET j == msgs[m].job
           s == msgs[m].snap
           new == [Stamped(row[j], "processing")
                     EXCEPT !.started = IF s.started = "none" THEN "fresh"
                                        ELSE s.started]
       IN  PatchOrSwallow(j, WithMetadataOf(new, s), "patch")
    /\ msgs' = [msgs EXCEPT ![m].state = "calling", ![m].snap.started = "none"]
    /\ UNCHANGED <<ingress, rec, inst, called, answered, blind>>

\* What an execution comes to, named by the status it is recorded as: success,
\* a status that is not retryable, or a retryable status or an exception.
Outcomes == {"succeeded", "failed", "queued"}

\* callExecutionPlane
Execute(m) ==
    /\ msgs[m].state = "calling"
    /\ LET j == msgs[m].job
       IN  /\ called' = [called EXCEPT ![j] = TRUE]
           /\ \E outcome \in Outcomes :
                 /\ msgs' = [msgs EXCEPT ![m].state = outcome]
                 /\ answered' = IF outcome = "succeeded"
                               THEN [answered EXCEPT ![j] = TRUE] ELSE answered
    /\ UNCHANGED <<row, ingress, rec, inst, faults, blind>>

\* The patch of the answer's branch, then ack or retry.
RecordOutcome(m) ==
    /\ msgs[m].state \in Outcomes
    /\ LET j == msgs[m].job
           status == msgs[m].state
       IN  /\ PatchOrSwallow(j, [WithMetadataOf(Stamped(row[j], status), msgs[m].snap)
                                    EXCEPT !.delayed = status = "queued"], "patch")
           /\ IF status = "queued" THEN Retry(m) ELSE Ack(m)
    /\ UNCHANGED <<ingress, rec, inst, called, answered, blind>>

\* The consumer dies before it acks: the message is delivered again.
ConsumerCrash(m) ==
    /\ msgs[m].state \in {"marking", "calling"} \cup Outcomes
    /\ Fail("consumer_crash") /\ Retry(m)
    /\ UNCHANGED <<row, ingress, rec, inst, called, answered, blind>>

\* At-least-once delivery: the queue may hold a message twice.
Duplicate(m) ==
    /\ msgs[m].state = "ready" /\ Fail("duplicate")
    /\ \E n \in Slots : ~Live(n) /\ msgs' = [msgs EXCEPT ![n] = msgs[m]]
    /\ UNCHANGED <<row, ingress, rec, inst, called, answered, blind>>

\* processDeadLetterJob: the load and its early returns.  Any failure is caught
\* and the message is acked.
DeadLetterLoad(m) ==
    /\ msgs[m].state = "dlq"
    /\ \/ /\ row[msgs[m].job].status \in Terminal
          /\ Ack(m) /\ UNCHANGED faults
       \/ /\ row[msgs[m].job].status \notin Terminal
          /\ msgs' = [msgs EXCEPT ![m].state = "burying",
                                  ![m].snap = MetadataOf(row[msgs[m].job])]
          /\ UNCHANGED faults
       \/ Fail("dlq") /\ Ack(m)
    /\ UNCHANGED <<row, ingress, rec, inst, called, answered, blind>>

\* processDeadLetterJob: the patch, then always ack.
DeadLetterPatch(m) ==
    /\ msgs[m].state = "burying"
    /\ LET j == msgs[m].job
       IN  PatchOrSwallow(j, WithMetadataOf(Stamped(row[j], "dead_lettered"),
                                            msgs[m].snap), "dlq")
    /\ Ack(m)
    /\ UNCHANGED <<ingress, rec, inst, called, answered, blind>>

-----------------------------------------------------------------------------
(* Recovery *)

Idle == [step |-> "idle", rows |-> << >>, id |-> 0]

\* Mutant: rows still queued are left to the queue.
RecoverableStarted(j, r) ==
    \/ StaleProcessing(r)
    \/ j \in WorkflowJobs /\ r.status \in {"failed", "dispatched"} /\ r.rested

\* Mutant: failed rows are recoverable on every route.
RecoverableFailed(j, r) ==
    \/ r.status = "queued" /\ ~r.delayed /\ r.rested
    \/ StaleProcessing(r)
    \/ r.status = "failed"
    \/ j \in WorkflowJobs /\ r.status = "dispatched" /\ r.rested

\* The filter of listRecoverableJobs on one row.
Recoverable(j, r) ==
    \/ r.status = "queued" /\ ~r.delayed /\ r.rested
    \/ StaleProcessing(r)
    \/ j \in WorkflowJobs /\ r.status \in {"failed", "dispatched"} /\ r.rested

\* The rows the query returns: the oldest Limit rows of the four statuses,
\* before the filter.
Queried ==
    LET open == {j \in Jobs : row[j].status \in
                     {"queued", "processing", "failed", "dispatched"}}
    IN  {j \in open : Cardinality({k \in open : k < j}) < Limit}

\* listRecoverableJobs: a snapshot the pass then works from.
ListJobs(r) ==
    /\ rec[r].step = "idle"
    /\ LET jobs == {j \in Queried : Recoverable(j, row[j])}
       IN  /\ jobs # {}
           /\ rec' = [rec EXCEPT ![r] = [step |-> "next", id |-> 0,
                                         rows |-> [j \in jobs |-> MetadataOf(row[j])]]]
    /\ UNCHANGED <<row, ingress, msgs, inst, called, answered, faults, blind>>

\* The job the pass is at, and the row it listed for it.
Current(r) == Min(DOMAIN rec[r].rows)
Snapshot(r) == rec[r].rows[Current(r)]

At(r, step) == rec[r].step = step /\ DOMAIN rec[r].rows # {}

Goto(r, step, id) == rec' = [rec EXCEPT ![r].step = step, ![r].id = id]

\* The pass is through with its current job.
NextJob(r) ==
    LET left == DOMAIN rec[r].rows \ {Current(r)}
    IN  rec' = [rec EXCEPT ![r] =
            IF left = {} THEN Idle
            ELSE [step |-> "next", id |-> 0,
                  rows |-> [j \in left |-> rec[r].rows[j]]]]

\* Mutant: the workflow's dispatch count is not consulted.
PriorRequeueAttemptsOwn(snap) == snap.requeues

\* resolvePriorRequeueAttempts
PriorRequeueAttempts(snap) ==
    Max({snap.requeues, IF snap.dispatches > 1 THEN snap.dispatches - 1 ELSE 0})

\* A recovery patch that throws ends this job's turn: recoverNetworkJobs
\* catches it and goes on.
RecoveryPatch(r, j, new, next) ==
    \/ row' = [row EXCEPT ![j] = new] /\ next /\ UNCHANGED faults
    \/ Fail("recovery_patch") /\ NextJob(r) /\ UNCHANGED row

\* deadLetterJob, and the blocked redispatch of requeueWorkflowJob
DeadLettered(j, snap) ==
    [WithMetadataOf(Stamped(row[j], "dead_lettered"), snap)
        EXCEPT !.requeues = PriorRequeueAttempts(snap)]

\* requeueJob on a queue route: finalise past the ceiling, otherwise mark the
\* row dispatched, and only then send.
RequeueQueueJob(r) ==
    /\ At(r, "next") /\ Current(r) \in QueueJobs
    /\ LET j == Current(r)
           s == Snapshot(r)
           prior == PriorRequeueAttempts(s)
       IN  \/ /\ prior >= MaxAttempts
              /\ RecoveryPatch(r, j, DeadLettered(j, s), NextJob(r))
           \/ /\ prior < MaxAttempts
              /\ RecoveryPatch(r, j,
                    [WithMetadataOf(Stamped(row[j], "dispatched"), s) EXCEPT
                        !.started = "none", !.requeues = prior + 1],
                    Goto(r, "send", 0))
    /\ UNCHANGED <<ingress, msgs, inst, called, answered, blind>>

\* The enqueueJob of requeueJob.
SendRequeued(r) ==
    /\ At(r, "send")
    /\ \/ Send(Current(r)) /\ UNCHANGED faults
       \/ Fail("recovery_send") /\ UNCHANGED msgs
    /\ NextJob(r)
    /\ UNCHANGED <<row, ingress, inst, called, answered, blind>>

\* The isolate running the pass is evicted.
RecoveryCrash(r) ==
    /\ rec[r].step \notin {"off", "idle"} /\ Fail("recovery_crash")
    /\ rec' = [rec EXCEPT ![r] = Idle]
    /\ UNCHANGED <<row, ingress, msgs, inst, called, answered, blind>>

-----------------------------------------------------------------------------
(* Workflow jobs.  Their ingress lane is retired (the route answers with a  *)
(* no-op), so the rows and instances are those dispatched before that.      *)

ActiveStates ==
    {"queued", "loaded", "executing", "succeeding", "failing", "closing", "ending"}
InstanceStates == {"none", "complete", "errored"} \cup ActiveStates

NoInstance == [state |-> "none", snap |-> NoSnap]

\* Mutant: an instance that ended badly counts as complete.
BranchEndedIsComplete(state) ==
    CASE state = "none"                          -> "redispatch"
      [] state \in {"complete", "errored"}       -> "sync_succeeded"
      [] state = "queued"                        -> "sync_dispatched"
      [] state \in ActiveStates \ {"queued"}     -> "sync_processing"

\* Where requeueWorkflowJob goes from the status the instance reports.
Branch(state) ==
    CASE state \in {"none", "errored"}           -> "redispatch"
      [] state = "complete"                      -> "sync_succeeded"
      [] state = "queued"                        -> "sync_dispatched"
      [] state \in ActiveStates \ {"queued"}     -> "sync_processing"

\* loadWorkflowInstanceDetails of the instance the row names.  A row without
\* one, or a check that throws, goes on to the redispatch.
CheckInstance(r) ==
    /\ At(r, "next") /\ Current(r) \in WorkflowJobs
    /\ LET i == Snapshot(r).instance
       IN  \/ /\ i = 0
              /\ Goto(r, "redispatch", 0) /\ UNCHANGED <<blind, faults>>
           \/ /\ i # 0
              /\ Goto(r, Branch(inst[Current(r)][i].state), i)
              /\ UNCHANGED <<blind, faults>>
           \/ /\ i # 0 /\ Fail("status_check") /\ blind' = TRUE
              /\ Goto(r, "redispatch", 0)
    /\ UNCHANGED <<row, ingress, msgs, inst, called, answered>>

\* The row is brought in line with the instance: active or complete.  The patch
\* is inside the try of the check, so when it throws, applied or not, the pass
\* goes on to the redispatch as if the check had failed.
SyncRow(r) ==
    /\ LET Sync(step, status) ==
               /\ At(r, step)
               /\ LET j == Current(r)
                      new == [row EXCEPT ![j] =
                                 WithMetadataOf(Stamped(row[j], status), Snapshot(r))]
                  IN  \/ /\ row' = new /\ NextJob(r)
                         /\ UNCHANGED <<blind, faults>>
                      \/ /\ Fail("recovery_patch") /\ row' \in {row, new}
                         /\ blind' = TRUE /\ Goto(r, "redispatch", 0)
       IN  \/ Sync("sync_succeeded", "succeeded")
           \/ Sync("sync_dispatched", "dispatched")
           \/ Sync("sync_processing", "processing")
    /\ UNCHANGED <<ingress, msgs, inst, called, answered>>

\* Mutant: every dispatch takes a fresh id.
InstanceIdFresh(j, snap) ==
    LET fresh == {i \in DOMAIN inst[j] : inst[j][i].state = "none"}
    IN  IF fresh = {} THEN snap.dispatches + 1 ELSE Min(fresh)

\* buildWorkflowInstanceId: the dispatch number makes the id.
InstanceId(j, snap) == snap.dispatches + 1

\* dispatchWorkflowInstance: creating an instance under an id that exists
\* throws, which ends the job's turn.
DispatchInstance(r, j, id) ==
    IF inst[j][id].state = "none"
    THEN inst' = [inst EXCEPT ![j][id].state = "queued"] /\ Goto(r, "created", id)
    ELSE NextJob(r) /\ UNCHANGED inst

\* The end of requeueWorkflowJob: finalise past the ceiling, otherwise dispatch
\* again.
Redispatch(r) ==
    /\ At(r, "redispatch")
    /\ LET j == Current(r)
           s == Snapshot(r)
       IN  \/ /\ PriorRequeueAttempts(s) >= MaxAttempts
              /\ RecoveryPatch(r, j, DeadLettered(j, s), NextJob(r))
              /\ UNCHANGED inst
           \/ /\ PriorRequeueAttempts(s) < MaxAttempts
              /\ DispatchInstance(r, j, InstanceId(j, s))
              /\ UNCHANGED <<row, faults>>
    /\ UNCHANGED <<ingress, msgs, called, answered, blind>>

\* The patch after the dispatch, which records the new instance.
PatchRedispatched(r) ==
    /\ At(r, "created")
    /\ LET j == Current(r)
       IN  RecoveryPatch(r, j,
              [WithMetadataOf(Stamped(row[j], "dispatched"), Snapshot(r)) EXCEPT
                  !.started = "none", !.dispatches = rec[r].id,
                  !.instance = rec[r].id],
              NextJob(r))
    /\ UNCHANGED <<ingress, msgs, inst, called, answered, blind>>

SetInstance(j, i, state) ==
    inst' = [inst EXCEPT ![j][i].state = state,
                         ![j][i].snap = IF state \in ActiveStates THEN @ ELSE NoSnap]

\* The load step of the workflow.  A step whose retries run out ends the
\* instance; the load and the first patch are outside the try.
InstanceLoad(j, i) ==
    /\ inst[j][i].state = "queued"
    /\ \/ /\ inst' = [inst EXCEPT ![j][i] = [state |-> "loaded", snap |-> SnapOf(row[j])]]
          /\ UNCHANGED faults
       \/ Fail("instance") /\ SetInstance(j, i, "errored")
    /\ UNCHANGED <<row, ingress, msgs, rec, called, answered, blind>>

\* The step that marks the row processing.
InstanceMark(j, i) ==
    /\ inst[j][i].state = "loaded"
    /\ LET s == inst[j][i].snap
           new == [Stamped(row[j], "processing")
                     EXCEPT !.started = IF s.started = "none" THEN "fresh"
                                        ELSE s.started]
       IN  \/ /\ row' = [row EXCEPT ![j] = WithMetadataOf(new, s)]
              /\ SetInstance(j, i, "executing") /\ UNCHANGED faults
           \/ Fail("instance") /\ SetInstance(j, i, "errored") /\ UNCHANGED row
    /\ UNCHANGED <<ingress, msgs, rec, called, answered, blind>>

\* The backend call with its retries.
InstanceExecute(j, i) ==
    /\ inst[j][i].state = "executing"
    /\ called' = [called EXCEPT ![j] = TRUE]
    /\ \/ /\ SetInstance(j, i, "succeeding")
          /\ answered' = [answered EXCEPT ![j] = TRUE]
       \/ SetInstance(j, i, "failing") /\ UNCHANGED answered
    /\ UNCHANGED <<row, ingress, msgs, rec, faults, blind>>

\* The success patch, or the failure patch of the catch, which also takes a
\* success patch that threw, applied or not, and may throw itself.
InstanceRecord(j, i) ==
    /\ LET new(status) ==
               [row EXCEPT ![j] = WithMetadataOf(Stamped(row[j], status), inst[j][i].snap)]
       IN  \/ /\ inst[j][i].state = "succeeding"
              /\ \/ row' = new("succeeded") /\ SetInstance(j, i, "closing") /\ UNCHANGED faults
                 \/ /\ Fail("instance") /\ row' \in {row, new("succeeded")}
                    /\ SetInstance(j, i, "failing")
           \/ /\ inst[j][i].state = "failing" /\ SetInstance(j, i, "ending")
              /\ \/ row' = new("failed") /\ UNCHANGED faults
                 \/ Fail("instance") /\ UNCHANGED row
    /\ UNCHANGED <<ingress, msgs, rec, called, answered, blind>>

\* run returns or throws: Cloudflare reports the instance complete or errored.
InstanceEnd(j, i) ==
    /\ \/ inst[j][i].state = "closing" /\ SetInstance(j, i, "complete")
       \/ inst[j][i].state = "ending" /\ SetInstance(j, i, "errored")
    /\ UNCHANGED <<row, ingress, msgs, rec, called, answered, faults, blind>>

-----------------------------------------------------------------------------
(* Clocks *)

\* run_after passes.
DelayPasses(j) ==
    /\ row[j].delayed
    /\ row' = [row EXCEPT ![j].delayed = FALSE]
    /\ UNCHANGED <<ingress, msgs, rec, inst, called, answered, faults, blind>>

\* started_at becomes staleProcessingMs old.
StartedAges(j) ==
    /\ row[j].started = "fresh" /\ row[j].status \notin Terminal
    /\ row' = [row EXCEPT ![j].started = "stale"]
    /\ UNCHANGED <<ingress, msgs, rec, inst, called, answered, faults, blind>>

\* updated_at passes REQUEUE_GRACE_MS (staleProcessingMs for dispatched rows).
RowRests(j) ==
    /\ ~row[j].rested
    /\ \/ row[j].status = "queued"
       \/ j \in WorkflowJobs /\ row[j].status \in {"failed", "dispatched"}
    /\ row' = [row EXCEPT ![j].rested = TRUE]
    /\ UNCHANGED <<ingress, msgs, rec, inst, called, answered, faults, blind>>

-----------------------------------------------------------------------------
\* Bound on the dispatch numbers: one more than a job may ever use.
InstanceIds == 1..(MaxAttempts + 2)

\* Queue jobs are not there yet.  A workflow job was dispatched once, its first
\* instance is still queued, and the request's last patch, whose failure was
\* swallowed, may not have recorded it.
Init ==
  \E p \in Populations, recorded \in BOOLEAN :
    /\ row = [j \in Jobs |->
                IF j \notin p.jobs \cap WorkflowJobs THEN NoRow
                ELSE IF recorded
                THEN [NoRow EXCEPT !.status = "dispatched",
                                   !.dispatches = 1, !.instance = 1]
                ELSE [NoRow EXCEPT !.status = "queued"]]
    /\ ingress = [j \in Jobs |-> IF j \in p.jobs \cap QueueJobs THEN "idle"
                                ELSE "done"]
    /\ msgs = [m \in Slots |-> FreeSlot]
    /\ rec = [r \in Recoverers |-> IF r \in p.passes THEN Idle
                                   ELSE [Idle EXCEPT !.step = "off"]]
    /\ inst = [j \in WorkflowJobs |-> [i \in InstanceIds |->
                 IF j \in p.jobs /\ i = 1 THEN [NoInstance EXCEPT !.state = "queued"]
                 ELSE NoInstance]]
    /\ called = [j \in Jobs |-> FALSE]
    /\ answered = [j \in Jobs |-> FALSE]
    /\ blind = FALSE
    /\ faults = 0

IngressStep(j) == Insert(j) \/ Enqueue(j) \/ IngressPatch(j)

\* One delivered message: processExecutionJob, or processFeedTickJob, which
\* takes the same steps over the feed plane.
ConsumerStep(m) == \/ Deliver(m) \/ MarkProcessing(m) \/ Execute(m) \/ RecordOutcome(m)
                   \/ DeadLetterLoad(m) \/ DeadLetterPatch(m)

\* recoverNetworkJobs and what it calls for each listed job.
RecoveryStep(r) == \/ ListJobs(r) \/ RequeueQueueJob(r) \/ SendRequeued(r)
                   \/ CheckInstance(r) \/ SyncRow(r) \/ Redispatch(r)
                   \/ PatchRedispatched(r)

\* CallbackBroadcastWorkflow, or AutomationExecuteWorkflow, which takes the
\* same steps with another backend route.
InstanceStep(j, i) == \/ InstanceLoad(j, i) \/ InstanceMark(j, i)
                      \/ InstanceExecute(j, i) \/ InstanceRecord(j, i) \/ InstanceEnd(j, i)
ClockStep(j) == DelayPasses(j) \/ StartedAges(j) \/ RowRests(j)

Next ==
    \/ \E j \in QueueJobs : IngressStep(j) \/ IngressCrash(j)
    \/ \E m \in Slots : ConsumerStep(m) \/ ConsumerCrash(m) \/ Duplicate(m)
    \/ \E r \in Recoverers : RecoveryStep(r) \/ RecoveryCrash(r)
    \/ \E j \in WorkflowJobs, i \in InstanceIds : InstanceStep(j, i)
    \/ \E j \in Jobs : ClockStep(j)

\* Cloudflare delivers every message, resumes every instance, runs the cron,
\* and time passes; a request the worker accepted is carried on unless the
\* isolate is evicted, which is a fault.
Fairness ==
    /\ \A j \in QueueJobs : WF_vars(Enqueue(j) \/ IngressPatch(j))
    /\ \A m \in Slots : WF_vars(ConsumerStep(m))
    /\ \A r \in Recoverers : WF_vars(RecoveryStep(r))
    /\ \A j \in WorkflowJobs : WF_vars(\E i \in InstanceIds : InstanceStep(j, i))
    /\ \A j \in Jobs : WF_vars(ClockStep(j))

Spec == Init /\ [][Next]_vars /\ Fairness

-----------------------------------------------------------------------------
(* Properties *)

\* Type invariant.
TypeOK ==
    /\ row \in [Jobs -> Row]
    /\ ingress \in [Jobs -> {"idle", "inserted", "sent", "failing", "done"}]
    /\ msgs \in [Slots -> [state : {"free", "ready", "marking", "calling",
                                    "dlq", "burying"} \cup Outcomes,
                            job : Jobs \cup {0}, attempts : 0..(MaxRetries + 1),
                            snap : Snap]]
    /\ \A r \in Recoverers :
          /\ rec[r].step \in {"off", "idle", "next", "send", "redispatch", "created",
                  "sync_succeeded", "sync_dispatched", "sync_processing"}
          /\ rec[r].id \in {0} \cup InstanceIds
          /\ DOMAIN rec[r].rows \subseteq Jobs
          /\ \A j \in DOMAIN rec[r].rows : rec[r].rows[j] \in Snap
    /\ inst \in [WorkflowJobs -> [InstanceIds ->
                    [state : InstanceStates, snap : Snap]]]
    /\ called \in [Jobs -> BOOLEAN] /\ answered \in [Jobs -> BOOLEAN]
    /\ blind \in BOOLEAN /\ faults \in 0..MaxFaults

\* A row says succeeded only when some execution of the job was answered with
\* success, whatever order the consumers, instances and recovery passes wrote
\* in.
SucceededIsTrue ==
    \A j \in Jobs : row[j].status = "succeeded" => answered[j]

\* A workflow job never has two running instances: two overlapping recovery
\* passes, or one working from a row listed long ago, build the same instance
\* id from the dispatch number they read, and the second create throws.  Only
\* a status check that failed, in the call or in the patch after it, lets a
\* running instance be passed over.
OneActiveInstance ==
    \A j \in WorkflowJobs :
        \/ Cardinality({i \in InstanceIds : inst[j][i].state \in ActiveStates}) <= 1
        \/ blind

\* No actor holds a copy of the job's row; messages may wait in a queue.
Quiet(j) ==
    /\ ingress[j] \in {"idle", "done"}
    /\ \A m \in Slots : msgs[m].job = j => msgs[m].state \in {"ready", "dlq"}
    /\ \A r \in Recoverers : j \notin DOMAIN rec[r].rows
    /\ j \in WorkflowJobs =>
          \A i \in InstanceIds : inst[j][i].state \notin ActiveStates

\* The statuses nothing reopens: recovery re-drives a failed workflow job.
Final(j) == IF j \in QueueJobs THEN Terminal ELSE {"succeeded", "dead_lettered"}

Settled(j) == row[j].status \in Final(j) /\ Quiet(j)

\* Once a job is final and no actor is in the middle of it, it stays so:
\* messages still in the queue and later recovery passes leave it alone.
SettledStays == [][\A j \in Jobs : Settled(j) => Settled(j)']_vars

\* The last patch of the request, which nothing orders after the insert and the
\* send, has written dispatched over a consumer's processing, and the message
\* is gone: recovery leaves dispatched rows of the queue routes to their message.
Stranded(j) ==
    /\ row[j].status = "dispatched" /\ row[j].started # "none"
    /\ \A m \in Slots : msgs[m].job # j

\* Every accepted queue job is executed or finalised: no single fault of the
\* worker, the queue or the table loses it before its execution was called, with
\* one exception.  A consumer that dies between its patch and the call, whose
\* message is then acknowledged because the row is still processing, leaves the
\* job to recovery, and the late patch of the request hides it from recovery.
JobsDriven ==
    \A j \in QueueJobs : row[j].status # "absent"
                        ~> called[j] \/ row[j].status \in Terminal \/ Stranded(j)

\* Without the exception: what the cron is there for.
NoJobStranded ==
    \A j \in QueueJobs : row[j].status # "absent"
                        ~> called[j] \/ row[j].status \in Terminal

\* A queue row that recovery is meant to pick up does not stay that way: the
\* cron requeues or finalises it, or someone else moves it.
OverdueRecovered ==
    \A j \in QueueJobs : Recoverable(j, row[j]) ~> ~Recoverable(j, row[j])

\* The same of a workflow row, whose redispatches the ceiling ends.
WorkflowRecovered ==
    \A j \in WorkflowJobs : Recoverable(j, row[j]) ~> ~Recoverable(j, row[j])

\* However often the dispatch number is lost to a writer with an older copy of
\* the metadata, a workflow job has at most one instance per redispatch the
\* ceiling allows, after the first.
InstancesBounded ==
    \A j \in WorkflowJobs :
        Cardinality({i \in InstanceIds : inst[j][i].state # "none"})
            <= MaxAttempts + 1
=============================================================================
