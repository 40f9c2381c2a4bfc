----------------------------- MODULE Automation -----------------------------
(***************************************************************************)
(* Automation upkeep in the relayer: workers/morpheus-relayer/src/         *)
(* automation.js, the job table in persistence.js, and the process-local   *)
(* request_id reservation of relayNeoN3Invocation that queueing goes       *)
(* through.                                                                *)
(*                                                                         *)
(* A job is a row of morpheus_automation_jobs.  Every relayer runs         *)
(* processAutomationJobs in its tick: it fetches a snapshot of the         *)
(* schedulable rows and, for each, evaluates the trigger, claims the row   *)
(* with a conditional PATCH that advances execution_count and pins the     *)
(* request id of that execution, queues the request on the chain, records  *)
(* the run and writes the final patch.  Every await is a step boundary;    *)
(* every patch but the claim is unconditional.  The request id of          *)
(* execution n of a job is determined by the job and n, so n stands for it *)
(* and a pinned id is a number (0 is null).                                *)
(*                                                                         *)
(* Clocks are abstracted to what the code compares.  next is next_run_at:  *)
(* "null", "future" or "due".  stale says that updated_at is so old that a *)
(* claim may be taken up again.  The code has two limits for that, 120 s   *)
(* in the fetch and claimStaleMs in the claim, which are equal by default  *)
(* and here.  (A row is taken up when it is past both: with a shorter      *)
(* claimStaleMs the fetch decides; with a longer one a tick may fetch a    *)
(* row that its claim then refuses.)  A tick compares both with the time   *)
(* at which it STARTED: late holds the jobs whose comparison changed       *)
(* during the tick, which the tick's own claim still sees as they were.    *)
(* Status "processing" stands also for the legacy claim "paused" with the  *)
(* claim marker, which the code treats alike wherever it reads the status. *)
(***************************************************************************)
EXTENDS Naturals, FiniteSets, Sequences

CONSTANTS
    Jobs,               \* automation ids
    Relayers,           \* relayer processes
    Populations,        \* bound: [relayers, jobs, kinds, faults] a behaviour has
    Prices,             \* bound: the values the feed pair takes, around 1
    MaxQueuedPerTick,   \* MORPHEUS_AUTOMATION_MAX_QUEUED_PER_TICK
    CountBound,         \* bound: executions of a job without max_executions
    MaxFaults,          \* bound: how many faults happen
    None                \* no max_executions

FaultClasses ==
    {"feed", "patch", "claim", "simulate", "unpaid", "rejected", "unconfirmed",
     "expired", "derived", "record", "crash", "prune", "stall"}

Threshold == 1
Comparators == {"gte", "lte", "cross_above", "cross_below"}

(* What registration fixes: trigger type or comparator, whether the price  *)
(* trigger has a cooldown, max_executions.                                 *)
Kinds == [trigger : {"one_shot", "interval"} \cup Comparators,
          cooldown : BOOLEAN,
          max : (Nat \ {0}) \cup {None}]

ASSUME AutomationAssumption ==
    /\ IsFiniteSet(Jobs) /\ IsFiniteSet(Relayers) /\ None \notin Nat
    /\ \A p \in Populations :
          /\ p.relayers \subseteq Relayers /\ p.jobs \subseteq Jobs
          /\ p.kinds \subseteq Kinds /\ p.faults \subseteq FaultClasses
    /\ Prices \subseteq Nat
    /\ MaxQueuedPerTick \in Nat \ {0} /\ CountBound \in Nat /\ MaxFaults \in Nat

VARIABLES
    crew,       \* the population of this behaviour
    kind,       \* the immutable part of each job
    row,        \* morpheus_automation_jobs
    tick,       \* where each relayer stands
    seen,       \* each process's seenRequestIds: <<job, n>>
    requests,   \* on-chain requests in order: the index is the transaction
    runs,       \* transactions with a "queued" row in morpheus_automation_runs
    price,      \* the feed pair on the chain
    acked,      \* history: jobs whose cancel was answered
    forgot,     \* history: ids whose reservation no longer covers their request
    faults      \* how many faults have happened

vars == <<crew, kind, row, tick, seen, requests, runs, price, acked, forgot, faults>>
fixed == <<crew, kind>>

Statuses == {"absent", "active", "processing", "cancelled", "completed", "error"}
Nexts == {"null", "future", "due"}

Absent == [status |-> "absent", next |-> "null", count |-> 0, pinned |-> 0,
           stale |-> FALSE, last |-> None]

Idle == [pc |-> "idle", snap |-> <<>>, late |-> {}, queued |-> 0, job |-> None,
         n |-> 0, advance |-> FALSE, ev |-> <<>>, tx |-> 0, inflight |-> FALSE,
         terminal |-> FALSE]

Init ==
    /\ crew \in Populations
    /\ kind \in [Jobs -> crew.kinds]
    /\ \A j \in Jobs \ crew.jobs : kind[j] = CHOOSE k \in crew.kinds : TRUE
    /\ row = [j \in Jobs |-> Absent]
    /\ tick = [r \in Relayers |-> Idle]
    /\ seen = [r \in Relayers |-> {}]
    /\ requests = <<>> /\ runs = {}
    /\ price \in Prices
    /\ acked = {} /\ forgot = {} /\ faults = 0

Fault(class) ==
    /\ class \in crew.faults /\ faults < MaxFaults
    /\ faults' = faults + 1

NoFault == UNCHANGED faults

(* { ...g, ...f } *)
Spread(g, f) ==
    [x \in DOMAIN f \cup DOMAIN g |-> IF x \in DOMAIN f THEN f[x] ELSE g[x]]

(* patchAutomationJob: the named fields, and a fresh updated_at. *)
Patched(j, fields) ==
    [row EXCEPT ![j] = Spread(row[j], Spread([stale |-> FALSE], fields))]

-----------------------------------------------------------------------------
(* Control requests, handled in the relayer's fulfillment phase, which a   *)
(* tick completes before it looks at automation jobs.                      *)

InitialNext(j) ==
    IF kind[j].trigger \in Comparators THEN {"null"} ELSE {"future", "due"}

(* automation_register: upsert the active row. *)
Register(j) ==
    /\ j \in crew.jobs /\ row[j].status = "absent"
    /\ \E next \in InitialNext(j) :
          row' = [row EXCEPT ![j] = [Absent EXCEPT !.status = "active", !.next = next]]
    /\ UNCHANGED <<fixed, tick, seen, requests, runs, price, acked, forgot, faults>>

(* automation_cancel loads the job ... *)
CancelLoad(r, j) ==
    /\ tick[r].pc = "idle"
    /\ row[j].status # "absent" /\ j \notin acked
    /\ tick' = [tick EXCEPT ![r] = [Idle EXCEPT !.pc = "cancel", !.job = j]]
    /\ UNCHANGED <<fixed, row, seen, requests, runs, price, acked, forgot, faults>>

(* Mutant of CancelFields: the status is left as it was. *)
CancelFieldsOnlyTime == [next |-> "null"]

(* All future executions are prevented; the pinned id is kept. *)
CancelFields == [status |-> "cancelled", next |-> "null"]

(* ... and patches it whatever has happened to it since. *)
CancelPatch(r) ==
    /\ tick[r].pc = "cancel"
    /\ row' = Patched(tick[r].job, CancelFields)
    /\ acked' = acked \cup {tick[r].job}
    /\ tick' = [tick EXCEPT ![r] = Idle]
    /\ UNCHANGED <<fixed, seen, requests, runs, price, forgot, faults>>

-----------------------------------------------------------------------------
(* processAutomationJobs *)

(* Mutant of Claimable: a stale claim is never taken up again. *)
ClaimableActive(j) == row[j].status = "active" /\ row[j].next \in {"null", "due"}

(* The rows fetchActiveAutomationJobs and claimAutomationJob select. *)
Claimable(j) ==
    \/ row[j].status = "active" /\ row[j].next = "null"
    \/ row[j].status = "active" /\ row[j].next = "due"
    \/ row[j].status = "processing" /\ row[j].stale

(* fetchActiveAutomationJobs; the batch is larger than the jobs. *)
Fetch(r) ==
    LET due == {j \in Jobs : Claimable(j)} IN
    /\ tick[r].pc = "idle"
    /\ due # {}
    /\ tick' = [tick EXCEPT ![r] = [Idle EXCEPT !.pc = "scan", !.snap = [j \in due |-> row[j]]]]
    /\ UNCHANGED <<fixed, row, seen, requests, runs, price, acked, forgot, faults>>

(* The tick record after a job: the next one, or the end of the tick. *)
Continue(t, queued) ==
    LET rest == [j \in DOMAIN t.snap \ {t.job} |-> t.snap[j]] IN
    IF DOMAIN rest = {} \/ queued >= MaxQueuedPerTick
    THEN Idle
    ELSE [Idle EXCEPT !.pc = "scan", !.snap = rest, !.late = t.late, !.queued = queued]

Failed(t, inflight, terminal) ==
    [t EXCEPT !.pc = "failed", !.ev = <<>>, !.n = 0, !.advance = FALSE, !.tx = 0,
              !.inflight = inflight, !.terminal = terminal]

(* Mutant of Finished: > for >=. *)
FinishedOneLate(j, n) == kind[j].max # None /\ n > kind[j].max

Finished(j, n) == kind[j].max # None /\ n >= kind[j].max

(* evaluatePriceThreshold: the comparison with the previous observation. *)
TriggerMet(comparator, previous, current) ==
    CASE comparator = "gte" -> current >= Threshold
      [] comparator = "lte" -> current <= Threshold
      [] comparator = "cross_above" ->
            previous # None /\ previous < Threshold /\ current >= Threshold
      [] comparator = "cross_below" ->
            previous # None /\ previous > Threshold /\ current <= Threshold

(* evaluateAutomationJob of a snapshot s; started tells whether start_at,  *)
(* which an interval job without next_run_at falls back to, has passed.    *)
Evaluation(j, s, started) ==
    IF Finished(j, s.count)
    THEN [due |-> FALSE, patch |-> [status |-> "completed", next |-> "null"]]
    ELSE IF kind[j].trigger = "one_shot" /\ s.next = "null"
    THEN [due |-> FALSE, patch |-> [status |-> "error"]]
    ELSE IF kind[j].trigger \in {"one_shot", "interval"}
    THEN [due |-> s.next = "due" \/ (s.next = "null" /\ started), patch |-> <<>>]
    ELSE IF s.next = "future"
    THEN [due |-> FALSE, patch |-> <<>>]
    ELSE LET met == TriggerMet(kind[j].trigger, s.last, price) IN
         [due |-> met,
          patch |-> [last |-> price,
                     next |-> IF met /\ kind[j].cooldown THEN "future" ELSE s.next]]

(* resolveAutomationExecutionDispatch: a row still mid-flight on its       *)
(* pinned execution is reclaimed, any other is advanced.                   *)
ResolveDispatch(s) ==
    IF s.status = "processing" /\ s.count > 0 /\ s.pinned = s.count
    THEN [n |-> s.count, advance |-> FALSE]
    ELSE [n |-> s.count + 1, advance |-> TRUE]

(* Evaluation, with the feed read of a price trigger. *)
Evaluate(r, j) ==
    LET t == tick[r]
        d == ResolveDispatch(t.snap[j])
    IN
    /\ t.pc = "scan" /\ j \in DOMAIN t.snap
    /\ \/ /\ kind[j].trigger \in Comparators
          /\ Fault("feed")
          /\ tick' = [tick EXCEPT ![r] = Failed([t EXCEPT !.job = j], FALSE, FALSE)]
       \/ \E started \in BOOLEAN :
            LET e == Evaluation(j, t.snap[j], started)
                next == [t EXCEPT !.job = j, !.ev = e.patch,
                                  !.n = IF e.due THEN d.n ELSE 0,
                                  !.advance = e.due /\ d.advance]
            IN
            /\ d.n <= CountBound \/ ~e.due
            /\ NoFault
            /\ tick' = [tick EXCEPT ![r] =
                  IF e.patch # <<>> THEN [next EXCEPT !.pc = "patch"]
                  ELSE IF e.due THEN [next EXCEPT !.pc = "claim"]
                  ELSE Continue(next, t.queued)]
    /\ UNCHANGED <<fixed, row, seen, requests, runs, price, acked, forgot>>

(* The evaluation's patch is written before the claim.  Like every call to *)
(* the table, it may throw although it was applied.                        *)
PatchEvaluation(r) ==
    LET t == tick[r] IN
    /\ t.pc = "patch"
    /\ \/ /\ Fault("patch")
          /\ tick' = [tick EXCEPT ![r] = Failed(t, FALSE, FALSE)]
          /\ row' \in {row, Patched(t.job, t.ev)}
       \/ /\ NoFault
          /\ row' = Patched(t.job, t.ev)
          /\ tick' = [tick EXCEPT ![r] =
                IF t.n > 0 THEN [t EXCEPT !.pc = "claim"] ELSE Continue(t, t.queued)]
    /\ UNCHANGED <<fixed, seen, requests, runs, price, acked, forgot>>

(* Mutant of ClaimMatches: the filter drops its times. *)
ClaimMatchesAnyStatus(j, t) == row[j].status \in {"active", "processing"}

(* The filter of claimAutomationJob's conditional PATCH, with the times    *)
(* the tick started with.                                                  *)
ClaimMatches(j, t) ==
    /\ Claimable(j)
    /\ j \in t.late => row[j].next = "null" /\ row[j].status = "active"

Claimed(j, t) ==
    Patched(j, IF t.advance
               THEN [status |-> "processing", count |-> t.n, pinned |-> t.n]
               ELSE [status |-> "processing"])

Claim(r) ==
    LET t == tick[r] IN
    /\ t.pc = "claim"
    /\ \/ /\ ClaimMatches(t.job, t) /\ NoFault
          /\ row' = Claimed(t.job, t)
          /\ tick' = [tick EXCEPT ![r] = [t EXCEPT !.pc = "queue", !.advance = FALSE]]
       \/ /\ ~ClaimMatches(t.job, t) /\ NoFault
          /\ tick' = [tick EXCEPT ![r] = Continue(t, t.queued)]
          /\ UNCHANGED row
       \/ /\ Fault("claim")     \* the call throws, applied or not
          /\ row' \in {row} \cup (IF ClaimMatches(t.job, t) THEN {Claimed(t.job, t)} ELSE {})
          /\ tick' = [tick EXCEPT ![r] = Failed(t, FALSE, FALSE)]
    /\ UNCHANGED <<fixed, seen, requests, runs, price, acked, forgot>>

Sent(t) == [job |-> t.job, n |-> t.n, state |-> "pending"]

(* queueNeoN3AutomationRequest through relayNeoN3Invocation: reserve the   *)
(* id, simulate, broadcast, wait for the application log.                  *)
Queue(r) ==
    LET t == tick[r]
        id == <<t.job, t.n>>
        next == Len(requests) + 1
        land == requests' = Append(requests, Sent(t))
        go(tx) == tick' = [tick EXCEPT ![r] = [t EXCEPT !.pc = "record", !.tx = tx]]
        fail(terminal) == tick' = [tick EXCEPT ![r] = Failed(t, TRUE, terminal)]
        reserve == seen' = [seen EXCEPT ![r] = @ \cup {id}]
    IN
    /\ t.pc = "queue"
    /\ \/ /\ id \in seen[r]                                 \* 409: duplicate
          /\ NoFault /\ go(0)
          /\ UNCHANGED <<seen, requests, forgot>>
       \/ /\ id \notin seen[r]
          /\ \/ /\ NoFault /\ reserve /\ land /\ go(next)
                /\ UNCHANGED forgot
             \/ /\ Fault("simulate") /\ fail(FALSE)         \* simulation or send fails
                /\ UNCHANGED <<seen, requests, forgot>>
             \/ /\ Fault("unpaid") /\ fail(TRUE)            \* "request fee not paid"
                /\ UNCHANGED <<seen, requests, forgot>>
             \/ /\ Fault("rejected") /\ reserve /\ fail(FALSE)  \* FAULT in the block
                /\ UNCHANGED <<requests, forgot>>
             \/ /\ Fault("unconfirmed") /\ land /\ fail(FALSE)  \* in the block, but the wait
                /\ forgot' = forgot \cup {id}                   \* timed out: id forgotten
                /\ UNCHANGED seen
             \/ /\ Fault("expired") /\ fail(FALSE)          \* timed out, never in a block
                /\ UNCHANGED <<seen, requests, forgot>>
             \/ /\ Fault("derived") /\ land /\ go(next)     \* derived-key path: no
                /\ forgot' = forgot \cup {id}               \* reservation
                /\ UNCHANGED seen
    /\ UNCHANGED <<fixed, row, runs, price, acked>>

(* A duplicate's run carries no transaction hash. *)
RunRow(t) == {t.tx} \ {0}

(* insertAutomationRun *)
RecordRun(r) ==
    LET t == tick[r] IN
    /\ t.pc = "record"
    /\ \/ /\ Fault("record")
          /\ tick' = [tick EXCEPT ![r] = Failed(t, TRUE, FALSE)]
          /\ runs' \in {runs, runs \cup RunRow(t)}
       \/ /\ NoFault
          /\ runs' = runs \cup RunRow(t)
          /\ tick' = [tick EXCEPT ![r] = [t EXCEPT !.pc = "final"]]
    /\ UNCHANGED <<fixed, row, seen, requests, price, acked, forgot>>

(* buildQueuedAutomationPatch *)
QueuedPatch(j, t) ==
    LET done == kind[j].trigger = "one_shot" \/ Finished(j, t.n)
        next == IF done THEN "null"
                ELSE IF kind[j].trigger = "interval" THEN "future" ELSE t.ev.next
    IN Spread(t.ev, [status |-> IF done THEN "completed" ELSE "active",
                     next |-> next, count |-> t.n, pinned |-> t.n])

(* The final patch; a duplicate does not count as queued. *)
Finalize(r) ==
    LET t == tick[r] IN
    /\ t.pc = "final"
    /\ \/ /\ Fault("patch")
          /\ tick' = [tick EXCEPT ![r] = Failed(t, TRUE, FALSE)]
          /\ row' \in {row, Patched(t.job, QueuedPatch(t.job, t))}
       \/ /\ NoFault
          /\ row' = Patched(t.job, QueuedPatch(t.job, t))
          /\ tick' = [tick EXCEPT ![r] =
                Continue(t, IF t.tx > 0 THEN t.queued + 1 ELSE t.queued)]
    /\ UNCHANGED <<fixed, seen, requests, runs, price, acked, forgot>>

(* classifyAutomationExecutionFailure *)
FailurePatch(t) ==
    IF t.terminal THEN [status |-> "error", next |-> "null"]
    ELSE IF t.inflight THEN [status |-> "processing"]
    ELSE [status |-> "active"]

(* The catch block; its own patch may fail unnoticed.  The failed run it   *)
(* records has no transaction.                                             *)
Fail(r) ==
    LET t == tick[r] IN
    /\ t.pc = "failed"
    /\ \/ Fault("patch") /\ UNCHANGED row
       \/ NoFault /\ row' = Patched(t.job, FailurePatch(t))
    /\ tick' = [tick EXCEPT ![r] = Continue(t, t.queued)]
    /\ UNCHANGED <<fixed, seen, requests, runs, price, acked, forgot>>

(* The process stops and starts again: memory is gone. *)
Crash(r) ==
    /\ Fault("crash")
    /\ tick' = [tick EXCEPT ![r] = Idle]
    /\ seen' = [seen EXCEPT ![r] = {}]
    /\ forgot' = forgot \cup seen[r]
    /\ UNCHANGED <<fixed, row, requests, runs, price, acked>>

(* pruneSeenRequestIds: an entry older than REPLAY_WINDOW_MS is dropped. *)
Prune(r) ==
    \E id \in seen[r] :
        /\ Fault("prune")
        /\ seen' = [seen EXCEPT ![r] = @ \ {id}]
        /\ forgot' = forgot \cup {id}
        /\ UNCHANGED <<fixed, row, tick, requests, runs, price, acked>>

-----------------------------------------------------------------------------
(* guardQueuedAutomationExecution and the fulfillment it decides: a        *)
(* cancelled job's request runs only if it carries the pinned id; a        *)
(* request without a recorded run is not recognised and runs.  The run is  *)
(* read first, but no step changes or removes a recorded run, so reading   *)
(* both at once is the same.                                               *)
Blocked(tx) ==
    LET q == requests[tx] IN
    tx \in runs /\ row[q.job].status = "cancelled" /\ row[q.job].pinned # q.n

Execute(tx) ==
    /\ tx \in DOMAIN requests /\ requests[tx].state = "pending"
    /\ requests' = [requests EXCEPT ![tx].state = IF Blocked(tx) THEN "blocked" ELSE "executed"]
    /\ UNCHANGED <<fixed, row, tick, seen, runs, price, acked, forgot, faults>>

-----------------------------------------------------------------------------
(* Time and the feed. *)

Holding(r, j) == tick[r].job = j /\ tick[r].pc \in {"queue", "record", "final", "failed"}

(* What changes for a comparison with "now" is late for running ticks. *)
Late(j) == tick' = [r \in Relayers |->
                       IF tick[r].pc \in {"idle", "cancel"} THEN tick[r]
                       ELSE [tick[r] EXCEPT !.late = @ \cup {j}]]

BecomeDue(j) ==
    /\ row[j].next = "future"
    /\ row' = [row EXCEPT ![j].next = "due"]
    /\ Late(j)
    /\ UNCHANGED <<fixed, seen, requests, runs, price, acked, forgot, faults>>

(* updated_at of a claimed row passes claimStaleMs; while its claimer is   *)
(* still at work that takes a stall.                                       *)
BecomeStale(j) ==
    /\ row[j].status = "processing" /\ ~row[j].stale
    /\ IF \E r \in crew.relayers : Holding(r, j) THEN Fault("stall") ELSE NoFault
    /\ row' = [row EXCEPT ![j].stale = TRUE]
    /\ Late(j)
    /\ UNCHANGED <<fixed, seen, requests, runs, price, acked, forgot>>

(* The pair moves; only price triggers read it. *)
MovePrice ==
    /\ \E j \in crew.jobs : kind[j].trigger \in Comparators
    /\ price' \in Prices \ {price}
    /\ UNCHANGED <<fixed, row, tick, seen, requests, runs, acked, forgot, faults>>

-----------------------------------------------------------------------------

Step(r) ==
    \/ \E j \in Jobs : Evaluate(r, j)
    \/ PatchEvaluation(r) \/ Claim(r) \/ Queue(r) \/ RecordRun(r) \/ Finalize(r)
    \/ Fail(r) \/ CancelPatch(r)

Next ==
    \/ \E j \in Jobs : Register(j) \/ BecomeDue(j) \/ BecomeStale(j)
    \/ \E r \in crew.relayers :
          Fetch(r) \/ Step(r) \/ Crash(r) \/ Prune(r) \/ \E j \in Jobs : CancelLoad(r, j)
    \/ \E tx \in DOMAIN requests : Execute(tx)
    \/ MovePrice

(* A relayer ticks for ever and finishes what it awaits; time passes.      *)
Fairness ==
    /\ \A j \in Jobs : WF_vars(BecomeDue(j)) /\ WF_vars(BecomeStale(j))
    /\ \A r \in Relayers :
          WF_vars(r \in crew.relayers /\ Fetch(r)) /\ WF_vars(r \in crew.relayers /\ Step(r))

Spec == Init /\ [][Next]_vars /\ Fairness

-----------------------------------------------------------------------------
(* Properties *)

(* Type correctness. *)
TypeOK ==
    /\ crew \in Populations /\ kind \in [Jobs -> Kinds]
    /\ row \in [Jobs -> [status : Statuses, next : Nexts, count : Nat, pinned : Nat,
                         stale : BOOLEAN, last : Nat \cup {None}]]
    /\ \A r \in Relayers :
          /\ tick[r].pc \in {"idle", "cancel", "scan", "patch", "claim", "queue", "record",
                             "final", "failed"}
          /\ tick[r].pc \notin {"idle", "scan"} => tick[r].job \in Jobs
          /\ seen[r] \subseteq Jobs \X Nat
    /\ \A tx \in DOMAIN requests :
          requests[tx] \in [job : Jobs, n : Nat \ {0},
                            state : {"pending", "executed", "blocked"}]
    /\ runs \subseteq DOMAIN requests
    /\ faults \in 0 .. MaxFaults

(* No execution past max_executions is ever charged to the requester,      *)
(* whatever snapshots, reclaims and rewritten counts the relayers act on.  *)
BoundedByMax ==
    \A tx \in DOMAIN requests :
        kind[requests[tx].job].max # None => requests[tx].n <= kind[requests[tx].job].max

Copies(j, n) == Cardinality({tx \in DOMAIN requests : requests[tx].job = j /\ requests[tx].n = n})

(* The job runs on a schedule and not on a price.                          *)
Scheduled(j) == kind[j].trigger \notin Comparators

(* The table answers every call, and no claim goes stale under a relayer   *)
(* that is still at work on it.                                            *)
TableAnswers == crew.faults \cap {"claim", "patch", "record", "stall"} = {}

(* Unless a process lost, or never made, its reservation of an execution's *)
(* request, claim and reservation bound the on-chain requests for it.  The *)
(* conditional claim lets only one relayer queue an execution of a         *)
(* scheduled job, while the table answers and no claim goes stale at work. *)
(* In all other cases (the claim compares no execution_count, so a price   *)
(* job with a null next_run_at, or a job whose row was rewritten, matches  *)
(* an old snapshot) every relayer may queue it, but none twice.            *)
DuplicatesNeedLoss ==
    \A tx \in DOMAIN requests :
        LET j == requests[tx].job
            n == requests[tx].n
        IN  <<j, n>> \notin forgot =>
               Copies(j, n) <= IF Scheduled(j) /\ TableAnswers
                               THEN 1 ELSE Cardinality(crew.relayers)

(* With one relayer, a cancel that was answered is final: nothing is       *)
(* queued for the job afterwards and it is never scheduled again.          *)
CancelStops ==
    [][ \A j \in acked :
          Cardinality(crew.relayers) = 1 =>
            /\ row'[j].status = "cancelled"
            /\ \A n \in 1 .. CountBound : Copies(j, n)' = Copies(j, n) ]_vars

(* A scheduled job that is due or claimed is eventually rescheduled or     *)
(* done: a claim whose relayer crashed or whose broadcast failed is taken  *)
(* up again, as far as CountBound lets executions be counted.              *)
ScheduleServed ==
    \A j \in Jobs :
        (/\ kind[j].trigger \notin Comparators
         /\ \/ row[j].status = "active" /\ row[j].next = "due"
            \/ row[j].status = "processing")
            ~> \/ row[j].status \in {"completed", "cancelled", "error"}
               \/ row[j].status = "active" /\ row[j].next = "future"
               \/ row[j].status = "active" /\ row[j].count >= CountBound

(* What automation.js says of a broadcast that failed after the claim: a   *)
(* false-negative error cannot mint a second execution.                    *)
OneRequestPerExecution ==
    \A tx \in DOMAIN requests : Copies(requests[tx].job, requests[tx].n) = 1

(* What EXAMPLES.md and the docs page promise of a price threshold: while  *)
(* the pair meets it, the job is queued.                                   *)
PriceTriggerFires ==
    \A j \in Jobs :
        (/\ row[j].status = "active" /\ row[j].next # "future"
         /\ kind[j].trigger \in Comparators
         /\ TriggerMet(kind[j].trigger, row[j].last, price))
            ~> (row[j].status # "active" \/ \E tx \in DOMAIN requests : requests[tx].job = j)

=============================================================================
