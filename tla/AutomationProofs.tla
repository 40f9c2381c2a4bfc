-------------------------- MODULE AutomationProofs --------------------------
(***************************************************************************)
(* Automation upkeep: executions stay within max_executions, a process     *)
(* queues an execution once unless it loses the reservation, and with one  *)
(* relayer an answered cancel is final.  With several relayers the claim   *)
(* keeps an execution of a scheduled job from being queued twice, as long  *)
(* as the table answers.                                                   *)
(***************************************************************************)
EXTENDS Automation, FiniteSetTheorems, SequenceTheorems, TLAPS

-----------------------------------------------------------------------------
(* The inductive invariant *)

Row == [status : Statuses, next : Nexts, count : Nat, pinned : Nat,
        stale : BOOLEAN, last : Nat \cup {None}]

\* The patches an evaluation may ask for, the empty one included.
Observation == [last : Nat, next : Nexts]
EvaluationPatch == {<<>>} \cup [status : Statuses] \cup [status : Statuses, next : Nexts]
                      \cup Observation

\* What a tick has fetched.
Fetched == UNION {[S -> Row] : S \in SUBSET Jobs}

Places == {"idle", "cancel", "scan", "patch", "claim", "queue", "record", "final", "failed"}

Tick == [pc : Places, snap : Fetched, late : SUBSET Jobs, queued : Nat,
         job : Jobs \cup {None}, n : Nat, advance : BOOLEAN, ev : EvaluationPatch,
         tx : Nat, inflight : BOOLEAN, terminal : BOOLEAN]

Request == [job : Jobs, n : Nat \ {0}, state : {"pending", "executed", "blocked"}]

AutoTypes ==
    /\ crew \in Populations /\ kind \in [Jobs -> Kinds]
    /\ row \in [Jobs -> Row]
    /\ tick \in [Relayers -> Tick]
    /\ seen \in [Relayers -> SUBSET (Jobs \X Nat)]
    /\ requests \in Seq(Request) /\ runs \subseteq DOMAIN requests
    /\ price \in Nat /\ faults \in 0 .. MaxFaults

\* n is a number an execution of job j may have.
Within(j, n) == kind[j].max # None => n <= kind[j].max

\* A tick works on a job; the execution it is about is within the job's
\* maximum; a price trigger's execution carries its observation; the
\* transaction it reports was sent.
TickSound(r) ==
    /\ tick[r].pc \notin {"idle", "scan"} => tick[r].job \in Jobs
    /\ tick[r].pc \in {"claim", "queue", "record", "final"} => tick[r].n > 0
    /\ tick[r].n > 0 =>
          /\ tick[r].job \in Jobs /\ Within(tick[r].job, tick[r].n)
          /\ kind[tick[r].job].trigger \in Comparators => tick[r].ev \in Observation
    /\ tick[r].tx <= Len(requests)

\* The transactions of execution n of job j, and the processes that hold a
\* reservation for it.
Txs(j, n) == {tx \in DOMAIN requests : requests[tx].job = j /\ requests[tx].n = n}
Reservers(j, n) == {r \in crew.relayers : <<j, n>> \in seen[r]}

\* Unless a reservation was lost, each request of an execution has a process
\* that holds the reservation it was sent under.
Reserved ==
    \A j \in Jobs, n \in Nat :
        <<j, n>> \notin forgot => Cardinality(Txs(j, n)) <= Cardinality(Reservers(j, n))

Alone == Cardinality(crew.relayers) = 1

\* With one relayer, a cancelled job is out of every snapshot and nobody works
\* on it.
CancelHeld ==
    Alone => \A j \in acked :
        /\ j \in Jobs /\ row[j].status = "cancelled"
        /\ \A r \in crew.relayers :
              /\ j \notin DOMAIN tick[r].snap
              /\ tick[r].pc \notin {"idle", "scan"} => tick[r].job # j

AutoInv ==
    /\ AutoTypes
    /\ \A r \in Relayers : TickSound(r)
    /\ \A tx \in DOMAIN requests : Within(requests[tx].job, requests[tx].n)
    /\ Reserved
    /\ CancelHeld

-----------------------------------------------------------------------------
(* Ticks and patches *)

LEMMA IdleTyped == Idle \in Tick
<1>1. <<>> \in Fetched
  <2>1. {} \in SUBSET Jobs /\ <<>> \in [{} -> Row]
    OBVIOUS
  <2> QED
    BY <2>1 DEF Fetched
<1>2. <<>> \in EvaluationPatch
  BY DEF EvaluationPatch
<1> QED
  BY <1>1, <1>2 DEF Idle, Tick, Places

\* After a job the tick ends or goes on with what it had fetched.
LEMMA ContinueTyped ==
  ASSUME NEW t \in Tick, NEW q \in Nat
  PROVE  /\ Continue(t, q) \in Tick
         /\ Continue(t, q).pc \in {"idle", "scan"}
         /\ Continue(t, q).n = 0 /\ Continue(t, q).tx = 0
         /\ DOMAIN Continue(t, q).snap \subseteq DOMAIN t.snap
<1> DEFINE rest == [j \in DOMAIN t.snap \ {t.job} |-> t.snap[j]]
           u == [Idle EXCEPT !.pc = "scan", !.snap = rest, !.late = t.late, !.queued = q]
<1>1. PICK S \in SUBSET Jobs : t.snap \in [S -> Row]
  BY DEF Tick, Fetched
<1>2. rest \in [S \ {t.job} -> Row] /\ S \ {t.job} \in SUBSET Jobs
  BY <1>1
<1>3. rest \in Fetched /\ DOMAIN rest \subseteq DOMAIN t.snap
  BY <1>2 DEF Fetched
<1> HIDE DEF rest
<1>4. u \in Tick /\ u.pc = "scan" /\ u.n = 0 /\ u.tx = 0 /\ u.snap = rest
  BY <1>3, IdleTyped DEF Tick, Places, Idle
<1>5. Idle.pc = "idle" /\ Idle.n = 0 /\ Idle.tx = 0 /\ DOMAIN Idle.snap = {}
  BY DEF Idle
<1>6. Continue(t, q) = Idle \/ Continue(t, q) = u
  BY DEF Continue, rest
<1> HIDE DEF u
<1> QED
  BY <1>3, <1>4, <1>5, <1>6, IdleTyped

LEMMA FailedTyped ==
  ASSUME NEW t \in Tick, NEW inflight \in BOOLEAN, NEW terminal \in BOOLEAN
  PROVE  /\ Failed(t, inflight, terminal) \in Tick
         /\ Failed(t, inflight, terminal).pc = "failed"
         /\ Failed(t, inflight, terminal).n = 0 /\ Failed(t, inflight, terminal).tx = 0
         /\ Failed(t, inflight, terminal).job = t.job
         /\ Failed(t, inflight, terminal).snap = t.snap
<1>1. <<>> \in EvaluationPatch
  BY DEF EvaluationPatch
<1> QED
  BY <1>1 DEF Failed, Tick, Places

\* The fields a patch names have their column's type.
Fields(f) ==
    /\ DOMAIN f \subseteq {"status", "next", "count", "pinned", "last"}
    /\ "status" \in DOMAIN f => f["status"] \in Statuses
    /\ "next" \in DOMAIN f => f["next"] \in Nexts
    /\ "count" \in DOMAIN f => f["count"] \in Nat
    /\ "pinned" \in DOMAIN f => f["pinned"] \in Nat
    /\ "last" \in DOMAIN f => f["last"] \in Nat

LEMMA EvaluationFields ==
  ASSUME NEW f \in EvaluationPatch
  PROVE  Fields(f)
<1>1. CASE f = <<>>
  BY <1>1 DEF Fields
<1>2. CASE f \in [status : Statuses]
  BY <1>2 DEF Fields
<1>3. CASE f \in [status : Statuses, next : Nexts]
  BY <1>3 DEF Fields
<1>4. CASE f \in Observation
  BY <1>4 DEF Fields, Observation
<1> QED
  BY <1>1, <1>2, <1>3, <1>4 DEF EvaluationPatch

\* A patch keeps the row a row, takes the fields it names and touches no other
\* row.
LEMMA PatchedTyped ==
  ASSUME row \in [Jobs -> Row], NEW j \in Jobs, NEW f, Fields(f)
  PROVE  /\ Patched(j, f) \in [Jobs -> Row]
         /\ \A i \in Jobs \ {j} : Patched(j, f)[i] = row[i]
         /\ "status" \in DOMAIN f => Patched(j, f)[j].status = f["status"]
<1> DEFINE g == Spread([stale |-> FALSE], f)
           h == Spread(row[j], g)
<1>1. /\ DOMAIN g = DOMAIN f \cup {"stale"}
      /\ g["stale"] = FALSE
      /\ \A x \in DOMAIN f : g[x] = f[x]
  BY DEF Spread, Fields
<1>2. row[j] \in Row
  OBVIOUS
<1> HIDE DEF g
<1>3. DOMAIN h = {"status", "next", "count", "pinned", "stale", "last"}
  BY <1>1, <1>2 DEF Spread, Fields, Row
<1>4. \A x \in DOMAIN h : h[x] = IF x \in DOMAIN g THEN g[x] ELSE row[j][x]
  BY DEF Spread
<1>5. h \in Row /\ ("status" \in DOMAIN f => h.status = f["status"])
  <2>1. h = [x \in {"status", "next", "count", "pinned", "stale", "last"} |-> h[x]]
    BY <1>3 DEF Spread
  <2>2. h["status"] \in Statuses /\ h["next"] \in Nexts
    BY <1>1, <1>2, <1>3, <1>4 DEF Fields, Row
  <2>3. h["count"] \in Nat /\ h["pinned"] \in Nat
    BY <1>1, <1>2, <1>3, <1>4 DEF Fields, Row
  <2>4. h["stale"] \in BOOLEAN /\ h["last"] \in Nat \cup {None}
    BY <1>1, <1>2, <1>3, <1>4 DEF Fields, Row
  <2> HIDE DEF h
  <2>5. h \in Row
    BY <2>1, <2>2, <2>3, <2>4 DEF Row
  <2> QED
    BY <2>5, <1>1, <1>3, <1>4 DEF h
<1> HIDE DEF h
<1>6. Patched(j, f) = [row EXCEPT ![j] = h]
  BY DEF Patched, h, g
<1> QED
  BY <1>5, <1>6

LEMMA CancelPatched == Fields(CancelFields) /\ CancelFields["status"] = "cancelled"
                         /\ "status" \in DOMAIN CancelFields
BY DEF Fields, CancelFields, Statuses, Nexts

LEMMA FailurePatched ==
  ASSUME NEW t
  PROVE  Fields(FailurePatch(t))
BY DEF Fields, FailurePatch, Statuses, Nexts

\* The final patch of an execution: a price trigger's observation is carried
\* over, and its next_run_at is a time.
LEMMA QueuedPatched ==
  ASSUME NEW t \in Tick, NEW j \in Jobs,
         kind[j].trigger \in {"one_shot", "interval"} \cup Comparators,
         kind[j].trigger \in Comparators => t.ev \in Observation
  PROVE  Fields(QueuedPatch(j, t))
<1> DEFINE done == kind[j].trigger = "one_shot" \/ Finished(j, t.n)
           next == IF done THEN "null"
                   ELSE IF kind[j].trigger = "interval" THEN "future" ELSE t.ev.next
           g == [status |-> IF done THEN "completed" ELSE "active",
                 next |-> next, count |-> t.n, pinned |-> t.n]
           p == Spread(t.ev, g)
<1>1. Fields(t.ev)
  BY EvaluationFields DEF Tick
<1>2. next \in Nexts
  BY DEF Nexts, Observation
<1>3. t.n \in Nat
  BY DEF Tick
<1>4. (IF done THEN "completed" ELSE "active") \in Statuses
  BY DEF Statuses
<1> HIDE DEF next, done
<1>5. /\ DOMAIN g = {"status", "next", "count", "pinned"}
      /\ g["status"] \in Statuses /\ g["next"] \in Nexts
      /\ g["count"] \in Nat /\ g["pinned"] \in Nat
  BY <1>2, <1>3, <1>4
<1> HIDE DEF g
<1>6. /\ DOMAIN p = DOMAIN g \cup DOMAIN t.ev
      /\ \A x \in DOMAIN p : p[x] = IF x \in DOMAIN g THEN g[x] ELSE t.ev[x]
  BY DEF Spread
<1> HIDE DEF p
<1>7. Fields(p)
  BY <1>1, <1>5, <1>6 DEF Fields
<1>8. QueuedPatch(j, t) = p
  BY DEF QueuedPatch, p, g, next, done
<1> QED
  BY <1>7, <1>8

\* A claim patches status, count and pinned id.
LEMMA ClaimedTyped ==
  ASSUME row \in [Jobs -> Row], NEW t \in Tick, NEW j \in Jobs
  PROVE  /\ Claimed(j, t) \in [Jobs -> Row]
         /\ \A i \in Jobs \ {j} : Claimed(j, t)[i] = row[i]
<1> DEFINE f == IF t.advance THEN [status |-> "processing", count |-> t.n, pinned |-> t.n]
                ELSE [status |-> "processing"]
<1>1. t.n \in Nat
  BY DEF Tick
<1>2. Fields([status |-> "processing", count |-> t.n, pinned |-> t.n])
  BY <1>1 DEF Fields, Statuses
<1>3. Fields([status |-> "processing"])
  BY DEF Fields, Statuses
<1>4. Fields(f)
  BY <1>2, <1>3
<1>5. Claimed(j, t) = Patched(j, f)
  BY DEF Claimed
<1> HIDE DEF f
<1> QED
  BY <1>4, <1>5, PatchedTyped

-----------------------------------------------------------------------------
(* Evaluation *)

\* An execution that evaluation finds due is within the job's maximum, and its
\* patch is an observation when the trigger is a price.
LEMMA EvaluationSound ==
  ASSUME AutomationAssumption, kind \in [Jobs -> Kinds], price \in Nat,
         NEW j \in Jobs, NEW s \in Row, NEW started \in BOOLEAN
  PROVE  LET e == Evaluation(j, s, started)
             d == ResolveDispatch(s)
         IN /\ e.patch \in EvaluationPatch
            /\ d.n \in Nat /\ d.advance \in BOOLEAN
            /\ e.due => /\ d.n > 0 /\ Within(j, d.n)
                        /\ kind[j].trigger \in Comparators => e.patch \in Observation
<1> DEFINE e == Evaluation(j, s, started)
           d == ResolveDispatch(s)
<1>1. /\ kind[j].trigger \in {"one_shot", "interval"} \cup Comparators
      /\ kind[j].max \in (Nat \ {0}) \cup {None}
      /\ s.count \in Nat /\ s.next \in Nexts
  BY DEF Kinds, Row
<1>2. d.n \in Nat /\ d.advance \in BOOLEAN /\ d.n > 0 /\ d.n <= s.count + 1
  BY <1>1 DEF ResolveDispatch
<1>3. ~Finished(j, s.count) => Within(j, d.n)
  BY <1>1, <1>2 DEF Finished, Within, AutomationAssumption
<1>4. CASE Finished(j, s.count)
  <2>1. e = [due |-> FALSE, patch |-> [status |-> "completed", next |-> "null"]]
    BY <1>4 DEF Evaluation
  <2>2. [status |-> "completed", next |-> "null"] \in EvaluationPatch
    BY DEF EvaluationPatch, Statuses, Nexts
  <2> QED
    BY <2>1, <2>2, <1>2
<1>5. CASE ~Finished(j, s.count) /\ kind[j].trigger = "one_shot" /\ s.next = "null"
  <2>1. e = [due |-> FALSE, patch |-> [status |-> "error"]]
    BY <1>5 DEF Evaluation
  <2>2. [status |-> "error"] \in EvaluationPatch
    BY DEF EvaluationPatch, Statuses
  <2> QED
    BY <2>1, <2>2, <1>2
<1>6. CASE /\ ~Finished(j, s.count) /\ ~(kind[j].trigger = "one_shot" /\ s.next = "null")
           /\ kind[j].trigger \in {"one_shot", "interval"}
  <2>1. e = [due |-> s.next = "due" \/ (s.next = "null" /\ started), patch |-> <<>>]
    BY <1>6 DEF Evaluation
  <2>2. <<>> \in EvaluationPatch
    BY DEF EvaluationPatch
  <2>3. kind[j].trigger \notin Comparators
    BY <1>6 DEF Comparators
  <2> QED
    BY <2>1, <2>2, <2>3, <1>2, <1>3, <1>6
<1>7. CASE /\ ~Finished(j, s.count) /\ kind[j].trigger \notin {"one_shot", "interval"}
           /\ s.next = "future"
  <2>1. e = [due |-> FALSE, patch |-> <<>>]
    BY <1>7 DEF Evaluation
  <2> QED
    BY <2>1, <1>2 DEF EvaluationPatch
<1>8. CASE /\ ~Finished(j, s.count) /\ kind[j].trigger \notin {"one_shot", "interval"}
           /\ s.next # "future"
  <2> DEFINE met == TriggerMet(kind[j].trigger, s.last, price)
             obs == [last |-> price,
                     next |-> IF met /\ kind[j].cooldown THEN "future" ELSE s.next]
  <2>1. e = [due |-> met, patch |-> obs]
    BY <1>8 DEF Evaluation
  <2>2. obs \in Observation
    BY <1>1 DEF Observation, Nexts
  <2> HIDE DEF met, obs
  <2>3. obs \in EvaluationPatch
    BY <2>2 DEF EvaluationPatch
  <2>4. e.patch = obs
    BY <2>1
  <2> HIDE DEF e, d
  <2>5. e.patch \in EvaluationPatch /\ e.patch \in Observation
    BY <2>2, <2>3, <2>4
  <2> QED
    BY <2>5, <1>2, <1>3, <1>8 DEF e, d
<1> QED
  BY <1>4, <1>5, <1>6, <1>7, <1>8

-----------------------------------------------------------------------------
(* One relayer's step *)

Busy(t) == t.pc \notin {"idle", "scan"}

\* What the steps of relayer r have in common: its tick stays sound, takes up
\* only jobs that it had fetched or that were not cancelled, and it writes only
\* the row of the job it works on.
Works(r) ==
    /\ UNCHANGED <<crew, kind, acked, price>>
    /\ tick' = [tick EXCEPT ![r] = tick'[r]]
    /\ tick'[r] \in Tick
    /\ TickSound(r)'
    /\ \A j \in DOMAIN tick'[r].snap :
          j \in DOMAIN tick[r].snap \/ row[j].status # "cancelled"
    /\ Busy(tick'[r]) =>
          \/ tick'[r].job \in DOMAIN tick[r].snap
          \/ Busy(tick[r]) /\ tick'[r].job = tick[r].job
          \/ tick'[r].job \notin acked
    /\ row' \in [Jobs -> Row]
    /\ \A j \in Jobs : row'[j] = row[j] \/ (Busy(tick[r]) /\ j = tick[r].job)

LEMMA CrewTyped ==
  ASSUME AutomationAssumption, AutoTypes
  PROVE  crew.relayers \subseteq Relayers /\ IsFiniteSet(crew.relayers)
BY FS_Subset DEF AutomationAssumption, AutoTypes

LEMMA WorksKeeps ==
  ASSUME AutomationAssumption, AutoInv, NEW r \in crew.relayers, Works(r),
         Len(requests') \in Nat, Len(requests') >= Len(requests)
  PROVE  /\ crew' \in Populations /\ kind' \in [Jobs -> Kinds]
         /\ row' \in [Jobs -> Row] /\ tick' \in [Relayers -> Tick] /\ price' \in Nat
         /\ \A q \in Relayers : TickSound(q)'
         /\ CancelHeld'
<1>1. r \in Relayers /\ tick \in [Relayers -> Tick]
  BY CrewTyped DEF AutoInv, AutoTypes
<1>2. \A q \in Relayers : q # r => tick'[q] = tick[q]
  BY <1>1 DEF Works
<1>3. tick' \in [Relayers -> Tick]
  BY <1>1 DEF Works
<1>4. ASSUME NEW q \in Relayers PROVE TickSound(q)'
  <2>1. CASE q = r
    BY <2>1 DEF Works
  <2>2. CASE q # r
    <3>1. tick'[q] = tick[q] /\ kind' = kind /\ TickSound(q)
      BY <1>2, <2>2 DEF Works, AutoInv
    <3>2. tick[q].tx \in Nat /\ Len(requests) \in Nat
      BY <1>1, LenProperties DEF Tick, AutoInv, AutoTypes
    <3> QED
      BY <3>1, <3>2 DEF TickSound, Within
  <2> QED
    BY <2>1, <2>2
<1>5. CancelHeld'
  <2> SUFFICES ASSUME Alone', NEW j \in acked'
               PROVE  /\ j \in Jobs /\ row'[j].status = "cancelled"
                      /\ \A q \in crew'.relayers :
                           /\ j \notin DOMAIN tick'[q].snap
                           /\ tick'[q].pc \notin {"idle", "scan"} => tick'[q].job # j
    BY DEF CancelHeld
  <2>1. Alone /\ crew' = crew /\ acked' = acked
    BY DEF Works, Alone
  <2>2. /\ j \in acked /\ j \in Jobs /\ row[j].status = "cancelled"
        /\ \A q \in crew.relayers :
              /\ j \notin DOMAIN tick[q].snap
              /\ Busy(tick[q]) => tick[q].job # j
    BY <2>1 DEF AutoInv, CancelHeld, Busy
  <2>3. row'[j] = row[j]
    BY <2>2 DEF Works
  <2>4. j \notin DOMAIN tick'[r].snap /\ (Busy(tick'[r]) => tick'[r].job # j)
    BY <2>2 DEF Works
  <2>5. \A q \in crew.relayers : q # r => tick'[q] = tick[q]
    BY <1>2, CrewTyped DEF AutoInv
  <2> QED
    BY <2>1, <2>2, <2>3, <2>4, <2>5 DEF Busy
<1> QED
  BY <1>3, <1>4, <1>5 DEF Works, AutoInv, AutoTypes

LEMMA FaultTyped ==
  ASSUME AutomationAssumption, AutoTypes, NEW c, Fault(c) \/ NoFault
  PROVE  faults' \in 0 .. MaxFaults
BY DEF AutomationAssumption, AutoTypes, Fault, NoFault

\* A step that sends no request and touches no reservation.
Quiet(r) ==
    /\ Works(r) /\ UNCHANGED <<seen, requests, forgot>>
    /\ runs' \subseteq DOMAIN requests /\ faults' \in 0 .. MaxFaults

LEMMA QuietKeeps ==
  ASSUME AutomationAssumption, AutoInv, NEW r \in crew.relayers, Quiet(r)
  PROVE  AutoInv'
<1>1. Len(requests') \in Nat /\ Len(requests') >= Len(requests)
  BY LenProperties DEF AutoInv, AutoTypes, Quiet
<1>2. /\ crew' \in Populations /\ kind' \in [Jobs -> Kinds]
      /\ row' \in [Jobs -> Row] /\ tick' \in [Relayers -> Tick] /\ price' \in Nat
      /\ \A q \in Relayers : TickSound(q)'
      /\ CancelHeld'
  BY <1>1, WorksKeeps DEF Quiet
<1>3. AutoTypes'
  BY <1>2 DEF AutoTypes, AutoInv, Quiet
<1>4. (\A tx \in DOMAIN requests : Within(requests[tx].job, requests[tx].n))'
  BY DEF AutoInv, Quiet, Works, Within
<1>5. Reserved'
  <2>1. UNCHANGED <<requests, seen, forgot, crew>>
    BY DEF Quiet, Works
  <2> QED
    BY <2>1 DEF AutoInv, Reserved, Txs, Reservers
<1> QED
  BY <1>2, <1>3, <1>4, <1>5 DEF AutoInv

\* Where relayer r stands before a step.
LEMMA Stands ==
  ASSUME AutomationAssumption, AutoInv, NEW r \in crew.relayers
  PROVE  /\ r \in Relayers /\ tick \in [Relayers -> Tick] /\ tick[r] \in Tick
         /\ TickSound(r)
         /\ row \in [Jobs -> Row] /\ price \in Nat /\ kind \in [Jobs -> Kinds]
         /\ requests \in Seq(Request) /\ Len(requests) \in Nat
         /\ runs \subseteq DOMAIN requests
BY CrewTyped, LenProperties DEF AutoInv, AutoTypes

\* A tick without an execution at hand is sound.
LEMMA Resting ==
  ASSUME NEW r, NEW u, tick'[r] = u, Len(requests') \in Nat, u.n = 0, u.tx = 0,
         Busy(u) => u.job \in Jobs /\ u.pc \in {"cancel", "patch", "failed"}
  PROVE  TickSound(r)'
BY DEF TickSound, Busy

\* A step to a tick u that writes at most the row of the job at hand.
LEMMA WorksBy ==
  ASSUME AutomationAssumption, AutoInv, NEW r \in crew.relayers, NEW u \in Tick,
         tick' = [tick EXCEPT ![r] = u], UNCHANGED <<crew, kind, acked, price>>,
         TickSound(r)',
         u.snap = tick[r].snap \/ DOMAIN u.snap \subseteq DOMAIN tick[r].snap,
         Busy(u) => \/ Busy(tick[r]) /\ u.job = tick[r].job
                    \/ u.job \in DOMAIN tick[r].snap,
         row' \in [Jobs -> Row],
         \A j \in Jobs : row'[j] = row[j] \/ (Busy(tick[r]) /\ j = tick[r].job)
  PROVE  Works(r)
<1>1. tick'[r] = u /\ tick' = [tick EXCEPT ![r] = tick'[r]]
  BY Stands
<1> QED
  BY <1>1 DEF Works

LEMMA EvaluateKeeps ==
  ASSUME AutomationAssumption, AutoInv, NEW r \in crew.relayers, NEW j \in Jobs,
         Evaluate(r, j)
  PROVE  AutoInv'
<1> DEFINE t == tick[r]
           d == ResolveDispatch(t.snap[j])
<1>1. /\ t.pc = "scan" /\ j \in DOMAIN t.snap /\ t \in Tick /\ TickSound(r)
      /\ t.queued \in Nat /\ row \in [Jobs -> Row] /\ r \in Relayers
      /\ tick \in [Relayers -> Tick] /\ Len(requests) \in Nat
  BY Stands DEF Evaluate, Tick
<1>2. t.snap[j] \in Row
  <2>1. PICK S \in SUBSET Jobs : t.snap \in [S -> Row]
    BY <1>1 DEF Tick, Fetched
  <2> QED
    BY <1>1, <2>1
<1>3. UNCHANGED <<crew, kind, row, seen, requests, runs, price, acked, forgot>>
  BY DEF Evaluate, fixed
<1>4. faults' \in 0 .. MaxFaults
  BY FaultTyped DEF Evaluate, AutoInv
<1>5. ASSUME NEW u \in Tick, tick' = [tick EXCEPT ![r] = u], TickSound(r)',
             DOMAIN u.snap \subseteq DOMAIN t.snap, Busy(u) => u.job = j
      PROVE  AutoInv'
  <2>1. Works(r)
    BY <1>1, <1>3, <1>5, WorksBy
  <2> QED
    BY <2>1, <1>1, <1>3, <1>4, Stands, QuietKeeps DEF Quiet
<1>6. CASE tick' = [tick EXCEPT ![r] = Failed([t EXCEPT !.job = j], FALSE, FALSE)]
  <2> DEFINE v == [t EXCEPT !.job = j]
             u == Failed(v, FALSE, FALSE)
  <2>1. v \in Tick /\ v.job = j /\ v.snap = t.snap
    BY <1>1 DEF Tick
  <2> HIDE DEF v
  <2>2. /\ u \in Tick /\ u.pc = "failed" /\ u.n = 0 /\ u.tx = 0 /\ u.job = j
        /\ u.snap = t.snap
    BY <2>1, FailedTyped
  <2>3. tick' = [tick EXCEPT ![r] = u]
    BY <1>6 DEF v
  <2> HIDE DEF u
  <2>4. TickSound(r)'
    BY <2>2, <2>3, <1>1, <1>3, Resting
  <2> QED
    BY <2>2, <2>3, <2>4, <1>5
<1>7. ASSUME NEW started \in BOOLEAN,
             LET e == Evaluation(j, t.snap[j], started)
                 next == [t EXCEPT !.job = j, !.ev = e.patch,
                                   !.n = IF e.due THEN d.n ELSE 0,
                                   !.advance = e.due /\ d.advance]
             IN tick' = [tick EXCEPT ![r] =
                  IF e.patch # <<>> THEN [next EXCEPT !.pc = "patch"]
                  ELSE IF e.due THEN [next EXCEPT !.pc = "claim"]
                  ELSE Continue(next, t.queued)]
      PROVE  AutoInv'
  <2> DEFINE e == Evaluation(j, t.snap[j], started)
             next == [t EXCEPT !.job = j, !.ev = e.patch,
                               !.n = IF e.due THEN d.n ELSE 0,
                               !.advance = e.due /\ d.advance]
  <2>1. /\ e.patch \in EvaluationPatch /\ d.n \in Nat
        /\ e.due => /\ d.n > 0 /\ Within(j, d.n)
                    /\ kind[j].trigger \in Comparators => e.patch \in Observation
    BY <1>2, Stands, EvaluationSound
  <2>2. tick' = [tick EXCEPT ![r] =
                  IF e.patch # <<>> THEN [next EXCEPT !.pc = "patch"]
                  ELSE IF e.due THEN [next EXCEPT !.pc = "claim"]
                  ELSE Continue(next, t.queued)]
    BY <1>7
  <2> HIDE DEF e, d
  <2>3. /\ next \in Tick /\ next.job = j /\ next.ev = e.patch /\ next.snap = t.snap
        /\ next.n = (IF e.due THEN d.n ELSE 0) /\ next.tx = t.tx
    BY <1>1, <2>1 DEF Tick
  <2> HIDE DEF next
  <2>4. ASSUME NEW p \in {"patch", "claim"}, p = "claim" => e.due,
               tick' = [tick EXCEPT ![r] = [next EXCEPT !.pc = p]]
        PROVE  AutoInv'
    <3> DEFINE u == [next EXCEPT !.pc = p]
    <3>1. /\ u \in Tick /\ u.pc = p /\ u.job = j /\ u.ev = e.patch /\ u.snap = t.snap
          /\ u.n = (IF e.due THEN d.n ELSE 0) /\ u.tx = t.tx
      BY <2>3, <2>4 DEF Tick, Places
    <3> HIDE DEF u
    <3>2. tick' = [tick EXCEPT ![r] = u] /\ tick'[r] = u
      BY <2>4, <1>1 DEF u
    <3>3. TickSound(r)'
      <4>1. u.tx <= Len(requests')
        BY <3>1, <1>1, <1>3 DEF TickSound
      <4>2. u.n > 0 => e.due
        BY <3>1
      <4> QED
        BY <4>1, <4>2, <3>1, <3>2, <2>1, <2>4, <1>3 DEF TickSound, Within
    <3> QED
      BY <3>1, <3>2, <3>3, <1>5
  <2>5. ASSUME tick' = [tick EXCEPT ![r] = Continue(next, t.queued)]
        PROVE  AutoInv'
    <3> DEFINE u == Continue(next, t.queued)
    <3>1. /\ u \in Tick /\ u.pc \in {"idle", "scan"} /\ u.n = 0 /\ u.tx = 0
          /\ DOMAIN u.snap \subseteq DOMAIN t.snap
      BY <2>3, <1>1, ContinueTyped
    <3> HIDE DEF u
    <3>2. tick' = [tick EXCEPT ![r] = u] /\ tick'[r] = u
      BY <2>5, <1>1 DEF u
    <3>3. TickSound(r)'
      BY <3>1, <3>2, <1>1, <1>3, Resting DEF Busy
    <3> QED
      BY <3>1, <3>2, <3>3, <1>5 DEF Busy
  <2> QED
    BY <2>2, <2>4, <2>5
<1> QED
  BY <1>6, <1>7 DEF Evaluate

\* The three ways a tick leaves a step: on to the next job, into the catch
\* block, or to the next step of the same execution.
Writes(r) ==
    /\ UNCHANGED <<crew, kind, acked, price>> /\ Len(requests') \in Nat
    /\ row' \in [Jobs -> Row]
    /\ \A j \in Jobs : row'[j] = row[j] \/ (Busy(tick[r]) /\ j = tick[r].job)

LEMMA ContinueWorks ==
  ASSUME AutomationAssumption, AutoInv, NEW r \in crew.relayers, NEW q \in Nat,
         tick' = [tick EXCEPT ![r] = Continue(tick[r], q)], Writes(r)
  PROVE  Works(r)
<1> DEFINE u == Continue(tick[r], q)
<1>1. /\ u \in Tick /\ u.pc \in {"idle", "scan"} /\ u.n = 0 /\ u.tx = 0
      /\ DOMAIN u.snap \subseteq DOMAIN tick[r].snap
  BY Stands, ContinueTyped
<1>2. tick' = [tick EXCEPT ![r] = u]
  OBVIOUS
<1> HIDE DEF u
<1>3. TickSound(r)'
  BY <1>1, <1>2, Stands, Resting DEF Busy, Writes
<1> QED
  BY <1>1, <1>2, <1>3, WorksBy DEF Busy, Writes

LEMMA FailedWorks ==
  ASSUME AutomationAssumption, AutoInv, NEW r \in crew.relayers, Busy(tick[r]),
         NEW inflight \in BOOLEAN, NEW terminal \in BOOLEAN,
         tick' = [tick EXCEPT ![r] = Failed(tick[r], inflight, terminal)], Writes(r)
  PROVE  Works(r)
<1> DEFINE u == Failed(tick[r], inflight, terminal)
<1>1. /\ u \in Tick /\ u.pc = "failed" /\ u.n = 0 /\ u.tx = 0
      /\ u.job = tick[r].job /\ u.snap = tick[r].snap
  BY Stands, FailedTyped
<1>2. tick' = [tick EXCEPT ![r] = u]
  OBVIOUS
<1> HIDE DEF u
<1>3. tick[r].job \in Jobs
  BY Stands DEF TickSound, Busy
<1>4. TickSound(r)'
  BY <1>1, <1>2, <1>3, Stands, Resting DEF Busy, Writes
<1> QED
  BY <1>1, <1>2, <1>4, WorksBy DEF Busy, Writes

LEMMA MovesOn ==
  ASSUME AutomationAssumption, AutoInv, NEW r \in crew.relayers, Busy(tick[r]),
         tick[r].n > 0,
         NEW u \in Tick, tick' = [tick EXCEPT ![r] = u], u.n = tick[r].n,
         u.job = tick[r].job, u.ev = tick[r].ev, u.snap = tick[r].snap,
         u.tx <= Len(requests'), Writes(r)
  PROVE  Works(r)
<1>1. tick'[r] = u /\ TickSound(r) /\ kind' = kind
  BY Stands DEF Writes
<1>2. TickSound(r)'
  BY <1>1 DEF TickSound, Within, Busy
<1> QED
  BY <1>2, WorksBy DEF Busy, Writes

\* What a step needs besides its tick to be quiet.
LEMMA QuietBy ==
  ASSUME AutomationAssumption, AutoInv, NEW r \in crew.relayers, Works(r),
         UNCHANGED <<seen, requests, runs, forgot>>, NEW c, Fault(c) \/ NoFault
  PROVE  AutoInv'
<1>1. faults' \in 0 .. MaxFaults
  BY FaultTyped DEF AutoInv
<1> QED
  BY <1>1, Stands, QuietKeeps DEF Quiet

LEMMA PatchEvaluationKeeps ==
  ASSUME AutomationAssumption, AutoInv, NEW r \in crew.relayers, PatchEvaluation(r)
  PROVE  AutoInv'
<1> DEFINE t == tick[r]
<1>1. /\ t.pc = "patch" /\ t \in Tick /\ t.job \in Jobs /\ Busy(t) /\ TickSound(r)
      /\ t.queued \in Nat /\ t.n \in Nat /\ Len(requests) \in Nat /\ row \in [Jobs -> Row]
  BY Stands DEF PatchEvaluation, Tick, TickSound, Busy
<1>2. /\ Patched(t.job, t.ev) \in [Jobs -> Row]
      /\ \A i \in Jobs \ {t.job} : Patched(t.job, t.ev)[i] = row[i]
  BY <1>1, EvaluationFields, PatchedTyped DEF Tick
<1>3. /\ UNCHANGED <<crew, kind, seen, requests, runs, price, acked, forgot>>
      /\ row' \in {row, Patched(t.job, t.ev)}
  BY DEF PatchEvaluation, fixed
<1>4. Writes(r)
  BY <1>1, <1>2, <1>3 DEF Writes
<1>5. CASE Fault("patch") /\ tick' = [tick EXCEPT ![r] = Failed(t, FALSE, FALSE)]
  <2>1. Works(r)
    BY <1>1, <1>4, <1>5, FailedWorks
  <2> QED
    BY <2>1, <1>3, <1>5, QuietBy
<1>6. CASE /\ NoFault
           /\ tick' = [tick EXCEPT ![r] =
                 IF t.n > 0 THEN [t EXCEPT !.pc = "claim"] ELSE Continue(t, t.queued)]
  <2>1. CASE t.n > 0
    <3> DEFINE u == [t EXCEPT !.pc = "claim"]
    <3>1. /\ u \in Tick /\ u.n = t.n /\ u.job = t.job /\ u.ev = t.ev /\ u.snap = t.snap
          /\ u.tx = t.tx
      BY <1>1 DEF Tick, Places
    <3>2. u.tx <= Len(requests')
      BY <3>1, <1>1, <1>3 DEF TickSound
    <3>3. tick' = [tick EXCEPT ![r] = u]
      BY <1>6, <2>1
    <3> HIDE DEF u
    <3>4. Works(r)
      BY <3>1, <3>2, <3>3, <1>1, <1>4, <2>1, MovesOn
    <3> QED
      BY <3>4, <1>3, <1>6, QuietBy
  <2>2. CASE ~(t.n > 0)
    <3>1. Works(r)
      BY <2>2, <1>1, <1>4, <1>6, ContinueWorks
    <3> QED
      BY <3>1, <1>3, <1>6, QuietBy
  <2> QED
    BY <2>1, <2>2
<1> QED
  BY <1>5, <1>6 DEF PatchEvaluation

LEMMA ClaimKeeps ==
  ASSUME AutomationAssumption, AutoInv, NEW r \in crew.relayers, Claim(r)
  PROVE  AutoInv'
<1> DEFINE t == tick[r]
<1>1. /\ t.pc = "claim" /\ t \in Tick /\ t.job \in Jobs /\ Busy(t) /\ TickSound(r)
      /\ t.queued \in Nat /\ t.n > 0 /\ Len(requests) \in Nat /\ row \in [Jobs -> Row]
  BY Stands DEF Claim, Tick, TickSound, Busy
<1>2. /\ Claimed(t.job, t) \in [Jobs -> Row]
      /\ \A i \in Jobs \ {t.job} : Claimed(t.job, t)[i] = row[i]
  BY <1>1, ClaimedTyped
<1>3. /\ UNCHANGED <<crew, kind, seen, requests, runs, price, acked, forgot>>
      /\ row' \in {row, Claimed(t.job, t)}
  BY DEF Claim, fixed
<1>4. Writes(r)
  BY <1>1, <1>2, <1>3 DEF Writes
<1>5. CASE NoFault /\ tick' = [tick EXCEPT ![r] = [t EXCEPT !.pc = "queue", !.advance = FALSE]]
  <2> DEFINE u == [t EXCEPT !.pc = "queue", !.advance = FALSE]
  <2>1. /\ u \in Tick /\ u.n = t.n /\ u.job = t.job /\ u.ev = t.ev /\ u.snap = t.snap
        /\ u.tx = t.tx
    BY <1>1 DEF Tick, Places
  <2>2. u.tx <= Len(requests')
    BY <2>1, <1>1, <1>3 DEF TickSound
  <2>3. tick' = [tick EXCEPT ![r] = u]
    BY <1>5
  <2> HIDE DEF u
  <2>4. Works(r)
    BY <2>1, <2>2, <2>3, <1>1, <1>4, MovesOn
  <2> QED
    BY <2>4, <1>3, <1>5, QuietBy
<1>6. CASE NoFault /\ tick' = [tick EXCEPT ![r] = Continue(t, t.queued)]
  <2>1. Works(r)
    BY <1>1, <1>4, <1>6, ContinueWorks
  <2> QED
    BY <2>1, <1>3, <1>6, QuietBy
<1>7. CASE Fault("claim") /\ tick' = [tick EXCEPT ![r] = Failed(t, FALSE, FALSE)]
  <2>1. Works(r)
    BY <1>1, <1>4, <1>7, FailedWorks
  <2> QED
    BY <2>1, <1>3, <1>7, QuietBy
<1> QED
  BY <1>5, <1>6, <1>7 DEF Claim

LEMMA RecordRunKeeps ==
  ASSUME AutomationAssumption, AutoInv, NEW r \in crew.relayers, RecordRun(r)
  PROVE  AutoInv'
<1> DEFINE t == tick[r]
<1>1. /\ t.pc = "record" /\ t \in Tick /\ t.job \in Jobs /\ Busy(t) /\ TickSound(r)
      /\ t.queued \in Nat /\ t.n > 0 /\ t.tx \in Nat /\ t.tx <= Len(requests)
      /\ Len(requests) \in Nat /\ row \in [Jobs -> Row]
  BY Stands DEF RecordRun, Tick, TickSound, Busy
<1>2. /\ UNCHANGED <<crew, kind, row, seen, requests, price, acked, forgot>>
      /\ runs' \in {runs, runs \cup RunRow(t)}
  BY DEF RecordRun, fixed
<1>3. RunRow(t) \subseteq DOMAIN requests
  <2>1. DOMAIN requests = 1 .. Len(requests)
    BY Stands, LenProperties
  <2> QED
    BY <2>1, <1>1 DEF RunRow
<1>4. Writes(r) /\ runs' \subseteq DOMAIN requests
  BY <1>1, <1>2, <1>3, Stands DEF Writes
<1>5. faults' \in 0 .. MaxFaults
  BY FaultTyped DEF RecordRun, AutoInv
<1>6. Works(r)
  <2>1. CASE tick' = [tick EXCEPT ![r] = Failed(t, TRUE, FALSE)]
    BY <2>1, <1>1, <1>4, FailedWorks
  <2>2. CASE tick' = [tick EXCEPT ![r] = [t EXCEPT !.pc = "final"]]
    <3> DEFINE u == [t EXCEPT !.pc = "final"]
    <3>1. /\ u \in Tick /\ u.n = t.n /\ u.job = t.job /\ u.ev = t.ev /\ u.snap = t.snap
          /\ u.tx = t.tx
      BY <1>1 DEF Tick, Places
    <3>2. tick' = [tick EXCEPT ![r] = u] /\ u.tx <= Len(requests')
      BY <3>1, <2>2, <1>1, <1>2
    <3> HIDE DEF u
    <3> QED
      BY <3>1, <3>2, <1>1, <1>4, MovesOn
  <2> QED
    BY <2>1, <2>2 DEF RecordRun
<1> QED
  BY <1>2, <1>4, <1>5, <1>6, QuietKeeps DEF Quiet

LEMMA FinalizeKeeps ==
  ASSUME AutomationAssumption, AutoInv, NEW r \in crew.relayers, Finalize(r)
  PROVE  AutoInv'
<1> DEFINE t == tick[r]
           p == Patched(t.job, QueuedPatch(t.job, t))
<1>1. /\ t.pc = "final" /\ t \in Tick /\ t.job \in Jobs /\ Busy(t) /\ TickSound(r)
      /\ t.queued \in Nat /\ t.n > 0 /\ t.tx \in Nat
      /\ Len(requests) \in Nat /\ row \in [Jobs -> Row]
  BY Stands DEF Finalize, Tick, TickSound, Busy
<1>2. Fields(QueuedPatch(t.job, t))
  <2>1. /\ kind[t.job].trigger \in {"one_shot", "interval"} \cup Comparators
        /\ kind[t.job].trigger \in Comparators => t.ev \in Observation
    BY <1>1, Stands DEF TickSound, Kinds
  <2> QED
    BY <2>1, <1>1, QueuedPatched
<1>3. p \in [Jobs -> Row] /\ \A i \in Jobs \ {t.job} : p[i] = row[i]
  BY <1>1, <1>2, PatchedTyped
<1>4. /\ UNCHANGED <<crew, kind, seen, requests, runs, price, acked, forgot>>
      /\ row' \in {row, p}
  BY DEF Finalize, fixed
<1> HIDE DEF p
<1>5. Writes(r)
  BY <1>1, <1>3, <1>4 DEF Writes
<1>6. CASE Fault("patch") /\ tick' = [tick EXCEPT ![r] = Failed(t, TRUE, FALSE)]
  <2>1. Works(r)
    BY <1>1, <1>5, <1>6, FailedWorks
  <2> QED
    BY <2>1, <1>4, <1>6, QuietBy
<1>7. CASE /\ NoFault
           /\ tick' = [tick EXCEPT ![r] =
                 Continue(t, IF t.tx > 0 THEN t.queued + 1 ELSE t.queued)]
  <2>1. (IF t.tx > 0 THEN t.queued + 1 ELSE t.queued) \in Nat
    BY <1>1
  <2>2. Works(r)
    BY <2>1, <1>5, <1>7, ContinueWorks
  <2> QED
    BY <2>2, <1>4, <1>7, QuietBy
<1> QED
  BY <1>6, <1>7 DEF Finalize

LEMMA FailKeeps ==
  ASSUME AutomationAssumption, AutoInv, NEW r \in crew.relayers, Fail(r)
  PROVE  AutoInv'
<1> DEFINE t == tick[r]
           p == Patched(t.job, FailurePatch(t))
<1>1. /\ t.pc = "failed" /\ t \in Tick /\ t.job \in Jobs /\ Busy(t)
      /\ t.queued \in Nat /\ Len(requests) \in Nat /\ row \in [Jobs -> Row]
  BY Stands DEF Fail, Tick, TickSound, Busy
<1>2. p \in [Jobs -> Row] /\ \A i \in Jobs \ {t.job} : p[i] = row[i]
  BY <1>1, FailurePatched, PatchedTyped
<1>3. /\ UNCHANGED <<crew, kind, seen, requests, runs, price, acked, forgot>>
      /\ row' \in {row, p} /\ tick' = [tick EXCEPT ![r] = Continue(t, t.queued)]
      /\ Fault("patch") \/ NoFault
  BY DEF Fail, fixed
<1> HIDE DEF p
<1>4. Writes(r)
  BY <1>1, <1>2, <1>3 DEF Writes
<1>5. Works(r)
  BY <1>1, <1>3, <1>4, ContinueWorks
<1> QED
  BY <1>3, <1>5, QuietBy

LEMMA FetchKeeps ==
  ASSUME AutomationAssumption, AutoInv, NEW r \in crew.relayers, Fetch(r)
  PROVE  AutoInv'
<1> DEFINE due == {j \in Jobs : Claimable(j)}
           s == [j \in due |-> row[j]]
           u == [Idle EXCEPT !.pc = "scan", !.snap = s]
<1>1. tick' = [tick EXCEPT ![r] = u]
  BY DEF Fetch
<1>2. UNCHANGED <<crew, kind, row, seen, requests, runs, price, acked, forgot, faults>>
  BY DEF Fetch, fixed
<1>3. s \in Fetched
  <2>1. due \in SUBSET Jobs /\ s \in [due -> Row]
    BY Stands
  <2> HIDE DEF due, s
  <2> QED
    BY <2>1 DEF Fetched
<1>4. \A j \in DOMAIN s : row[j].status # "cancelled"
  BY DEF Claimable
<1> HIDE DEF s
<1>5. u \in Tick /\ u.pc = "scan" /\ u.n = 0 /\ u.tx = 0 /\ u.snap = s
  BY <1>3, IdleTyped DEF Tick, Places, Idle
<1> HIDE DEF u
<1>6. tick'[r] = u /\ tick' = [tick EXCEPT ![r] = tick'[r]]
  BY <1>1, Stands
<1>7. TickSound(r)'
  BY <1>2, <1>5, <1>6, Stands, Resting DEF Busy
<1>8. Works(r)
  BY <1>2, <1>4, <1>5, <1>6, <1>7, Stands DEF Works, Busy
<1> QED
  BY <1>2, <1>8, QuietBy DEF NoFault

LEMMA CancelLoadKeeps ==
  ASSUME AutomationAssumption, AutoInv, NEW r \in crew.relayers, NEW j \in Jobs,
         CancelLoad(r, j)
  PROVE  AutoInv'
<1> DEFINE u == [Idle EXCEPT !.pc = "cancel", !.job = j]
<1>1. tick' = [tick EXCEPT ![r] = u] /\ j \notin acked
  BY DEF CancelLoad
<1>2. UNCHANGED <<crew, kind, row, seen, requests, runs, price, acked, forgot, faults>>
  BY DEF CancelLoad, fixed
<1>3. /\ u \in Tick /\ u.pc = "cancel" /\ u.n = 0 /\ u.tx = 0 /\ u.job = j
      /\ DOMAIN u.snap = {}
  <2>1. u \in Tick
    BY IdleTyped DEF Tick, Places
  <2>2. u.pc = "cancel" /\ u.n = 0 /\ u.tx = 0 /\ u.job = j /\ u.snap = <<>>
    BY DEF Idle
  <2> QED
    BY <2>1, <2>2
<1> HIDE DEF u
<1>4. tick'[r] = u /\ tick' = [tick EXCEPT ![r] = tick'[r]]
  BY <1>1, Stands
<1>5. TickSound(r)'
  BY <1>2, <1>3, <1>4, Stands, Resting DEF Busy
<1>6. Works(r)
  BY <1>1, <1>2, <1>3, <1>4, <1>5, Stands DEF Works, Busy
<1> QED
  BY <1>2, <1>6, QuietBy DEF NoFault

-----------------------------------------------------------------------------
(* Requests and reservations *)

LEMMA TxsFinite ==
  ASSUME AutoTypes, NEW j, NEW n
  PROVE  IsFiniteSet(Txs(j, n)) /\ Cardinality(Txs(j, n)) \in Nat
<1>1. DOMAIN requests = 1 .. Len(requests) /\ Len(requests) \in Nat
  BY LenProperties DEF AutoTypes
<1>2. IsFiniteSet(DOMAIN requests)
  BY <1>1, FS_Interval
<1>3. IsFiniteSet(Txs(j, n))
  BY <1>2, FS_Subset DEF Txs
<1> QED
  BY <1>3, FS_CardinalityType

LEMMA ReserversFinite ==
  ASSUME AutomationAssumption, AutoTypes, NEW j, NEW n
  PROVE  /\ IsFiniteSet(Reservers(j, n)) /\ Cardinality(Reservers(j, n)) \in Nat
         /\ Cardinality(Reservers(j, n)) <= Cardinality(crew.relayers)
BY CrewTyped, FS_Subset, FS_CardinalityType DEF Reservers

\* A request that lands is the newest one and counts for its execution alone.
LEMMA Landed ==
  ASSUME AutoInv, NEW t, t.job \in Jobs, t.n \in Nat \ {0}, Within(t.job, t.n),
         requests' = Append(requests, Sent(t)), kind' = kind
  PROVE  /\ requests' \in Seq(Request) /\ Len(requests') = Len(requests) + 1
         /\ Len(requests) \in Nat /\ DOMAIN requests \subseteq DOMAIN requests'
         /\ (\A tx \in DOMAIN requests : Within(requests[tx].job, requests[tx].n))'
         /\ \A j \in Jobs, n \in Nat :
               /\ <<j, n>> # <<t.job, t.n>> => Txs(j, n)' = Txs(j, n)
               /\ Txs(j, n)' \subseteq Txs(j, n) \cup {Len(requests) + 1}
<1>1. requests \in Seq(Request) /\ Sent(t) \in Request
  BY DEF AutoInv, AutoTypes, Sent, Request
<1>2. /\ requests' \in Seq(Request) /\ Len(requests') = Len(requests) + 1
      /\ Len(requests) \in Nat
      /\ DOMAIN requests = 1 .. Len(requests) /\ DOMAIN requests' = 1 .. Len(requests')
      /\ \A i \in 1 .. Len(requests) : requests'[i] = requests[i]
      /\ requests'[Len(requests) + 1] = Sent(t)
  BY <1>1, AppendProperties, LenProperties
<1>3. Sent(t).job = t.job /\ Sent(t).n = t.n
  BY DEF Sent
<1>4. \A i \in DOMAIN requests' : i \in DOMAIN requests \/ i = Len(requests) + 1
  BY <1>2
<1>5. (\A tx \in DOMAIN requests : Within(requests[tx].job, requests[tx].n))'
  BY <1>2, <1>3, <1>4 DEF AutoInv, Within
<1>6. ASSUME NEW j \in Jobs, NEW n \in Nat
      PROVE  /\ <<j, n>> # <<t.job, t.n>> => Txs(j, n)' = Txs(j, n)
             /\ Txs(j, n)' \subseteq Txs(j, n) \cup {Len(requests) + 1}
  <2>1. Txs(j, n)' \subseteq Txs(j, n) \cup {Len(requests) + 1}
    BY <1>2, <1>4 DEF Txs
  <2>2. Txs(j, n) \subseteq Txs(j, n)'
    BY <1>2 DEF Txs
  <2>3. Len(requests) + 1 \in Txs(j, n)' => j = t.job /\ n = t.n
    BY <1>2, <1>3 DEF Txs
  <2> QED
    BY <2>1, <2>2, <2>3
<1> QED
  BY <1>2, <1>5, <1>6

\* Sending a request under a fresh reservation, or without one but with the
\* loss on record, keeps every other execution covered.
LEMMA ReservedWhenSent ==
  ASSUME AutomationAssumption, AutoInv, NEW r \in crew.relayers, NEW t,
         t.job \in Jobs, t.n \in Nat \ {0}, Within(t.job, t.n), UNCHANGED <<crew, kind>>,
         requests' = Append(requests, Sent(t)),
         \/ /\ <<t.job, t.n>> \notin seen[r] /\ forgot' = forgot
            /\ seen' = [seen EXCEPT ![r] = @ \cup {<<t.job, t.n>>}]
         \/ seen' = seen /\ forgot' = forgot \cup {<<t.job, t.n>>}
  PROVE  Reserved'
<1> SUFFICES ASSUME NEW j \in Jobs, NEW n \in Nat, <<j, n>> \notin forgot'
             PROVE  Cardinality(Txs(j, n)') <= Cardinality(Reservers(j, n)')
  BY DEF Reserved
<1>1. AutoTypes /\ Reserved /\ <<j, n>> \notin forgot
  BY DEF AutoInv
<1>2. Cardinality(Txs(j, n)) <= Cardinality(Reservers(j, n))
  BY <1>1 DEF Reserved
<1>3. /\ <<j, n>> # <<t.job, t.n>> => Txs(j, n)' = Txs(j, n)
      /\ Txs(j, n)' \subseteq Txs(j, n) \cup {Len(requests) + 1}
  BY Landed
<1>4. CASE <<j, n>> # <<t.job, t.n>>
  <2>1. \A q \in crew.relayers : <<j, n>> \in seen'[q] <=> <<j, n>> \in seen[q]
    BY <1>1, <1>4, Stands, CrewTyped DEF AutoTypes
  <2>2. Reservers(j, n)' = Reservers(j, n)
    BY <2>1 DEF Reservers
  <2> QED
    BY <2>2, <1>2, <1>3, <1>4
<1>5. CASE <<j, n>> = <<t.job, t.n>>
  <2>1. /\ <<j, n>> \notin seen[r] /\ seen' = [seen EXCEPT ![r] = @ \cup {<<j, n>>}]
    BY <1>5
  <2>2. r \notin Reservers(j, n) /\ Reservers(j, n)' = Reservers(j, n) \cup {r}
    BY <2>1, <1>1, Stands, CrewTyped DEF Reservers, AutoTypes
  <2>3. Cardinality(Reservers(j, n)') = Cardinality(Reservers(j, n)) + 1
    BY <2>2, <1>1, ReserversFinite, FS_AddElement
  <2>4. /\ IsFiniteSet(Txs(j, n) \cup {Len(requests) + 1})
        /\ Cardinality(Txs(j, n) \cup {Len(requests) + 1}) \in Nat
        /\ Cardinality(Txs(j, n) \cup {Len(requests) + 1}) <= Cardinality(Txs(j, n)) + 1
    <3>1. IsFiniteSet(Txs(j, n)) /\ Cardinality(Txs(j, n)) \in Nat
      BY <1>1, TxsFinite
    <3> DEFINE S == Txs(j, n)
               x == Len(requests) + 1
    <3>2. /\ IsFiniteSet(S \cup {x})
          /\ Cardinality(S \cup {x}) = IF x \in S THEN Cardinality(S) ELSE Cardinality(S) + 1
      <4> HIDE DEF S, x
      <4> QED
        BY <3>1, FS_AddElement DEF S
    <3> QED
      BY <3>1, <3>2
  <2>5. /\ Cardinality(Txs(j, n)') \in Nat
        /\ Cardinality(Txs(j, n)') <= Cardinality(Txs(j, n) \cup {Len(requests) + 1})
    BY <2>4, <1>3, FS_Subset, FS_CardinalityType
  <2> QED
    BY <2>3, <2>4, <2>5, <1>1, <1>2, TxsFinite, ReserversFinite
<1> QED
  BY <1>4, <1>5

\* Without a new request, reservations may be added, and lost when the loss
\* goes on record.
LEMMA ReservedOtherwise ==
  ASSUME AutomationAssumption, AutoInv, crew' = crew,
         \A j \in Jobs, n \in Nat : Txs(j, n)' = Txs(j, n),
         forgot \subseteq forgot', seen' \in [Relayers -> SUBSET (Jobs \X Nat)],
         \A q \in crew.relayers : seen[q] \subseteq seen'[q] \cup forgot'
  PROVE  Reserved'
<1> SUFFICES ASSUME NEW j \in Jobs, NEW n \in Nat, <<j, n>> \notin forgot'
             PROVE  Cardinality(Txs(j, n)') <= Cardinality(Reservers(j, n)')
  BY DEF Reserved
<1>1. AutoTypes /\ Cardinality(Txs(j, n)) <= Cardinality(Reservers(j, n))
  BY DEF AutoInv, Reserved
<1>2. Reservers(j, n) \subseteq Reservers(j, n)'
  BY DEF Reservers
<1>3. IsFiniteSet(Reservers(j, n)')
  BY <1>1, CrewTyped, FS_Subset DEF Reservers
<1>4. /\ Cardinality(Reservers(j, n)') \in Nat
      /\ Cardinality(Reservers(j, n)) <= Cardinality(Reservers(j, n)')
  BY <1>2, <1>3, FS_Subset, FS_CardinalityType
<1> QED
  BY <1>1, <1>4, TxsFinite, ReserversFinite

LEMMA QueueKeeps ==
  ASSUME AutomationAssumption, AutoInv, NEW r \in crew.relayers, Queue(r)
  PROVE  AutoInv'
<1> DEFINE t == tick[r]
           id == <<t.job, t.n>>
           land == requests' = Append(requests, Sent(t))
           reserve == seen' = [seen EXCEPT ![r] = @ \cup {id}]
<1>1. /\ t.pc = "queue" /\ t \in Tick /\ t.job \in Jobs /\ Busy(t) /\ TickSound(r)
      /\ t.n \in Nat \ {0} /\ Within(t.job, t.n) /\ row \in [Jobs -> Row]
      /\ requests \in Seq(Request) /\ Len(requests) \in Nat
      /\ id \in Jobs \X Nat /\ seen \in [Relayers -> SUBSET (Jobs \X Nat)] /\ r \in Relayers
  BY Stands DEF Queue, Tick, TickSound, Busy, AutoInv, AutoTypes
<1>2. UNCHANGED <<crew, kind, row, runs, price, acked>>
  BY DEF Queue, fixed
<1>3. faults' \in 0 .. MaxFaults
  <2>1. \E c \in FaultClasses : Fault(c) \/ NoFault
    BY DEF Queue, FaultClasses
  <2> QED
    BY <2>1, FaultTyped DEF AutoInv
<1>4. \/ requests' = requests /\ forgot' = forgot /\ (seen' = seen \/ reserve)
      \/ /\ land
         /\ \/ id \notin seen[r] /\ forgot' = forgot /\ reserve
            \/ seen' = seen /\ forgot' = forgot \cup {id}
  BY DEF Queue
<1>5. /\ requests' \in Seq(Request) /\ Len(requests') \in Nat /\ Len(requests') >= Len(requests)
      /\ runs' \subseteq DOMAIN requests'
      /\ (\A tx \in DOMAIN requests : Within(requests[tx].job, requests[tx].n))'
  <2>1. CASE requests' = requests
    BY <2>1, <1>1, <1>2, Stands DEF AutoInv, Within
  <2>2. CASE land
    <3>1. /\ requests' \in Seq(Request) /\ Len(requests') = Len(requests) + 1
          /\ DOMAIN requests \subseteq DOMAIN requests'
          /\ (\A tx \in DOMAIN requests : Within(requests[tx].job, requests[tx].n))'
      BY <2>2, <1>1, <1>2, Landed
    <3> QED
      BY <3>1, <1>1, <1>2, Stands
  <2> QED
    BY <2>1, <2>2, <1>4
<1>6. seen' \in [Relayers -> SUBSET (Jobs \X Nat)]
  BY <1>1, <1>4
<1>7. Writes(r)
  BY <1>1, <1>2, <1>5 DEF Writes
<1>8. \/ \E b \in BOOLEAN : tick' = [tick EXCEPT ![r] = Failed(t, TRUE, b)]
      \/ \E tx \in Nat : /\ tick' = [tick EXCEPT ![r] = [t EXCEPT !.pc = "record", !.tx = tx]]
                         /\ tx <= Len(requests')
  <2>1. land => Len(requests') = Len(requests) + 1
    BY <1>1, <1>2, Landed
  <2>2. Len(requests) + 1 \in Nat /\ 0 <= Len(requests')
    BY <1>1, <1>5
  <2>3. \/ tick' = [tick EXCEPT ![r] = Failed(t, TRUE, FALSE)]
        \/ tick' = [tick EXCEPT ![r] = Failed(t, TRUE, TRUE)]
        \/ tick' = [tick EXCEPT ![r] = [t EXCEPT !.pc = "record", !.tx = 0]]
        \/ /\ tick' = [tick EXCEPT ![r] = [t EXCEPT !.pc = "record", !.tx = Len(requests) + 1]]
           /\ land
    BY DEF Queue
  <2>4. CASE tick' = [tick EXCEPT ![r] = [t EXCEPT !.pc = "record", !.tx = 0]]
    BY <2>2, <2>4
  <2>5. CASE /\ tick' = [tick EXCEPT ![r] = [t EXCEPT !.pc = "record", !.tx = Len(requests) + 1]]
             /\ land
    <3>1. Len(requests) + 1 <= Len(requests')
      BY <2>1, <2>2, <2>5
    <3> QED
      BY <2>2, <2>5, <3>1
  <2> QED
    BY <2>3, <2>4, <2>5
<1>9. Works(r)
  <2>1. ASSUME NEW b \in BOOLEAN, tick' = [tick EXCEPT ![r] = Failed(t, TRUE, b)]
        PROVE  Works(r)
    BY <2>1, <1>1, <1>7, FailedWorks
  <2>2. ASSUME NEW tx \in Nat, tx <= Len(requests'),
               tick' = [tick EXCEPT ![r] = [t EXCEPT !.pc = "record", !.tx = tx]]
        PROVE  Works(r)
    <3> DEFINE u == [t EXCEPT !.pc = "record", !.tx = tx]
    <3>1. /\ u \in Tick /\ u.n = t.n /\ u.job = t.job /\ u.ev = t.ev /\ u.snap = t.snap
          /\ u.tx = tx
      BY <1>1 DEF Tick, Places
    <3>2. tick' = [tick EXCEPT ![r] = u] /\ t.n > 0
      BY <2>2, <1>1
    <3> HIDE DEF u
    <3> QED
      BY <3>1, <3>2, <2>2, <1>1, <1>7, MovesOn
  <2> QED
    BY <2>1, <2>2, <1>8
<1>10. Reserved'
  <2>1. CASE requests' = requests /\ forgot' = forgot /\ (seen' = seen \/ reserve)
    <3>1. \A q \in crew.relayers : seen[q] \subseteq seen'[q]
      BY <2>1, <1>1, CrewTyped DEF AutoInv
    <3>2. \A j \in Jobs, n \in Nat : Txs(j, n)' = Txs(j, n)
      BY <2>1 DEF Txs
    <3> QED
      BY <3>1, <3>2, <2>1, <1>2, <1>6, ReservedOtherwise
  <2>2. CASE /\ land
             /\ \/ id \notin seen[r] /\ forgot' = forgot /\ reserve
                \/ seen' = seen /\ forgot' = forgot \cup {id}
    BY <2>2, <1>1, <1>2, ReservedWhenSent
  <2> QED
    BY <2>1, <2>2, <1>4
<1>11. /\ crew' \in Populations /\ kind' \in [Jobs -> Kinds]
       /\ row' \in [Jobs -> Row] /\ tick' \in [Relayers -> Tick] /\ price' \in Nat
       /\ \A q \in Relayers : TickSound(q)'
       /\ CancelHeld'
  BY <1>5, <1>9, WorksKeeps
<1>12. AutoTypes'
  BY <1>3, <1>5, <1>6, <1>11 DEF AutoTypes
<1> QED
  BY <1>5, <1>10, <1>11, <1>12 DEF AutoInv

LEMMA CrashKeeps ==
  ASSUME AutomationAssumption, AutoInv, NEW r \in crew.relayers, Crash(r)
  PROVE  AutoInv'
<1>1. /\ UNCHANGED <<crew, kind, row, requests, runs, price, acked>>
      /\ tick' = [tick EXCEPT ![r] = Idle] /\ seen' = [seen EXCEPT ![r] = {}]
      /\ forgot' = forgot \cup seen[r] /\ Fault("crash")
  BY DEF Crash, fixed
<1>2. Idle.pc = "idle" /\ Idle.n = 0 /\ Idle.tx = 0 /\ DOMAIN Idle.snap = {}
  BY DEF Idle
<1>3. TickSound(r)'
  BY <1>1, <1>2, Stands, Resting DEF Busy
<1>4. Works(r)
  BY <1>1, <1>2, <1>3, Stands, IdleTyped, WorksBy DEF Busy
<1>5. /\ crew' \in Populations /\ kind' \in [Jobs -> Kinds]
      /\ row' \in [Jobs -> Row] /\ tick' \in [Relayers -> Tick] /\ price' \in Nat
      /\ \A q \in Relayers : TickSound(q)'
      /\ CancelHeld'
  BY <1>1, <1>4, Stands, WorksKeeps
<1>6. seen' \in [Relayers -> SUBSET (Jobs \X Nat)] /\ faults' \in 0 .. MaxFaults
  BY <1>1, FaultTyped DEF AutoInv, AutoTypes
<1>7. Reserved'
  <2>1. \A q \in crew.relayers : seen[q] \subseteq seen'[q] \cup forgot'
    BY <1>1, Stands, CrewTyped DEF AutoInv, AutoTypes
  <2>2. \A j \in Jobs, n \in Nat : Txs(j, n)' = Txs(j, n)
    BY <1>1 DEF Txs
  <2> QED
    BY <2>1, <2>2, <1>1, <1>6, ReservedOtherwise
<1>8. AutoTypes'
  BY <1>1, <1>5, <1>6 DEF AutoInv, AutoTypes
<1>9. (\A tx \in DOMAIN requests : Within(requests[tx].job, requests[tx].n))'
  BY <1>1 DEF AutoInv, Within
<1> QED
  BY <1>5, <1>7, <1>8, <1>9 DEF AutoInv

\* A step that leaves the relayers' ticks and the rows alone.
LEMMA TicksKept ==
  ASSUME AutoInv, UNCHANGED <<crew, kind, row, tick, acked>>, Len(requests') = Len(requests)
  PROVE  (\A q \in Relayers : TickSound(q))' /\ CancelHeld'
BY DEF AutoInv, TickSound, Within, CancelHeld, Alone

LEMMA PruneKeeps ==
  ASSUME AutomationAssumption, AutoInv, NEW r \in crew.relayers, Prune(r)
  PROVE  AutoInv'
<1>1. PICK id \in seen[r] :
        /\ Fault("prune") /\ seen' = [seen EXCEPT ![r] = @ \ {id}]
        /\ forgot' = forgot \cup {id}
        /\ UNCHANGED <<crew, kind, row, tick, requests, runs, price, acked>>
  BY DEF Prune, fixed
<1>2. seen' \in [Relayers -> SUBSET (Jobs \X Nat)] /\ faults' \in 0 .. MaxFaults
  BY <1>1, FaultTyped DEF AutoInv, AutoTypes
<1>3. AutoTypes'
  BY <1>1, <1>2 DEF AutoInv, AutoTypes
<1>4. Reserved'
  <2>1. \A q \in crew.relayers : seen[q] \subseteq seen'[q] \cup forgot'
    BY <1>1, Stands, CrewTyped DEF AutoInv, AutoTypes
  <2>2. \A j \in Jobs, n \in Nat : Txs(j, n)' = Txs(j, n)
    BY <1>1 DEF Txs
  <2> QED
    BY <2>1, <2>2, <1>1, <1>2, ReservedOtherwise
<1>5. (\A tx \in DOMAIN requests : Within(requests[tx].job, requests[tx].n))'
  BY <1>1 DEF AutoInv, Within
<1> QED
  BY <1>1, <1>3, <1>4, <1>5, TicksKept DEF AutoInv

-----------------------------------------------------------------------------
(* Cancellation, execution, time and prices *)

LEMMA CancelPatchKeeps ==
  ASSUME AutomationAssumption, AutoInv, NEW r \in crew.relayers, CancelPatch(r)
  PROVE  AutoInv'
<1> DEFINE j == tick[r].job
           p == Patched(j, CancelFields)
<1>1. j \in Jobs /\ tick[r].pc = "cancel" /\ r \in Relayers
  BY Stands DEF CancelPatch, TickSound
<1>2. /\ p \in [Jobs -> Row] /\ p[j].status = "cancelled"
      /\ \A i \in Jobs \ {j} : p[i] = row[i]
  BY <1>1, Stands, CancelPatched, PatchedTyped
<1>3. /\ UNCHANGED <<crew, kind, seen, requests, runs, price, forgot, faults>>
      /\ row' = p /\ acked' = acked \cup {j} /\ tick' = [tick EXCEPT ![r] = Idle]
  BY DEF CancelPatch, fixed
<1> HIDE DEF p, j
<1>4. Idle.pc = "idle" /\ Idle.n = 0 /\ Idle.tx = 0 /\ DOMAIN Idle.snap = {}
  BY DEF Idle
<1>5. AutoTypes'
  BY <1>2, <1>3, IdleTyped DEF AutoInv, AutoTypes
<1>6. ASSUME NEW q \in Relayers PROVE TickSound(q)'
  <2>1. CASE q = r
    BY <2>1, <1>1, <1>3, <1>4, Stands, Resting DEF Busy
  <2>2. CASE q # r
    <3>1. tick'[q] = tick[q] /\ TickSound(q)
      BY <2>2, <1>3, Stands DEF AutoInv
    <3> QED
      BY <3>1, <1>3 DEF TickSound, Within
  <2> QED
    BY <2>1, <2>2
<1>7. CancelHeld'
  <2> SUFFICES ASSUME Alone', NEW i \in acked'
               PROVE  /\ i \in Jobs /\ row'[i].status = "cancelled"
                      /\ \A q \in crew'.relayers :
                           /\ i \notin DOMAIN tick'[q].snap
                           /\ tick'[q].pc \notin {"idle", "scan"} => tick'[q].job # i
    BY DEF CancelHeld
  <2>1. i \in Jobs /\ row'[i].status = "cancelled"
    BY <1>1, <1>2, <1>3 DEF AutoInv, CancelHeld, Alone
  <2>2. \A q \in crew.relayers : q = r
    <3>1. Cardinality(crew.relayers) = 1 /\ IsFiniteSet(crew.relayers)
      BY <1>3, CrewTyped DEF Alone, AutoInv
    <3>2. PICK x : crew.relayers = {x}
      BY <3>1, FS_Singleton
    <3> QED
      BY <3>2
  <2>3. tick'[r] = Idle
    BY <1>1, <1>3, Stands
  <2> QED
    BY <2>1, <2>2, <2>3, <1>3, <1>4
<1>8. Reserved' /\ (\A tx \in DOMAIN requests : Within(requests[tx].job, requests[tx].n))'
  BY <1>3 DEF AutoInv, Reserved, Txs, Reservers, Within
<1> QED
  BY <1>5, <1>6, <1>7, <1>8 DEF AutoInv

\* A request is executed or blocked; which execution it is of stays.
LEMMA ExecuteKeeps ==
  ASSUME AutomationAssumption, AutoInv, NEW tx \in DOMAIN requests, Execute(tx)
  PROVE  /\ AutoInv'
         /\ \A j, n : Txs(j, n)' = Txs(j, n)
<1> DEFINE s == IF Blocked(tx) THEN "blocked" ELSE "executed"
<1>1. /\ requests' = [requests EXCEPT ![tx].state = s]
      /\ UNCHANGED <<crew, kind, row, tick, seen, runs, price, acked, forgot, faults>>
  BY DEF Execute, fixed
<1>2. s \in {"pending", "executed", "blocked"}
  OBVIOUS
<1> HIDE DEF s
<1>3. /\ requests \in Seq(Request) /\ DOMAIN requests = 1 .. Len(requests)
      /\ Len(requests) \in Nat /\ \A i \in DOMAIN requests : requests[i] \in Request
  BY LenProperties, ElementOfSeq DEF AutoInv, AutoTypes
<1>4. /\ DOMAIN requests' = DOMAIN requests
      /\ \A i \in DOMAIN requests : /\ requests'[i] \in Request
                                    /\ requests'[i].job = requests[i].job
                                    /\ requests'[i].n = requests[i].n
  BY <1>1, <1>2, <1>3 DEF Request
<1>5. requests' \in Seq(Request) /\ Len(requests') = Len(requests)
  BY <1>1, <1>3, <1>4
<1>6. \A j, n : Txs(j, n)' = Txs(j, n)
  BY <1>4 DEF Txs
<1>7. AutoTypes'
  BY <1>1, <1>4, <1>5 DEF AutoInv, AutoTypes
<1>8. Reserved'
  BY <1>1, <1>6 DEF AutoInv, Reserved, Reservers
<1>9. (\A i \in DOMAIN requests : Within(requests[i].job, requests[i].n))'
  BY <1>1, <1>4 DEF AutoInv, Within
<1> QED
  BY <1>1, <1>5, <1>6, <1>7, <1>8, <1>9, TicksKept DEF AutoInv

\* A row may change while nobody works: its job is not cancelled, or its status
\* stays; running ticks only note that a comparison changed.
LEMMA TimeKeeps ==
  ASSUME AutomationAssumption, AutoInv,
         UNCHANGED <<crew, kind, seen, requests, runs, acked, forgot>>,
         price' \in Nat, faults' \in 0 .. MaxFaults,
         row' \in [Jobs -> Row],
         \A j \in Jobs : row'[j].status = row[j].status \/ row[j].status # "cancelled",
         tick' \in [Relayers -> Tick],
         \A q \in Relayers : /\ tick'[q].pc = tick[q].pc /\ tick'[q].job = tick[q].job
                             /\ tick'[q].n = tick[q].n /\ tick'[q].ev = tick[q].ev
                             /\ tick'[q].tx = tick[q].tx /\ tick'[q].snap = tick[q].snap
  PROVE  AutoInv'
<1>1. AutoTypes'
  BY DEF AutoInv, AutoTypes
<1>2. ASSUME NEW q \in Relayers PROVE TickSound(q)'
  <2>1. TickSound(q)
    BY DEF AutoInv
  <2> QED
    BY <2>1 DEF TickSound, Within
<1>3. CancelHeld'
  <2>1. crew.relayers \subseteq Relayers
    BY CrewTyped DEF AutoInv
  <2> QED
    BY <2>1 DEF AutoInv, CancelHeld, Alone
<1>4. Reserved' /\ (\A tx \in DOMAIN requests : Within(requests[tx].job, requests[tx].n))'
  BY DEF AutoInv, Reserved, Txs, Reservers, Within
<1> QED
  BY <1>1, <1>2, <1>3, <1>4 DEF AutoInv

LEMMA LateTyped ==
  ASSUME AutoTypes, NEW j \in Jobs, Late(j)
  PROVE  /\ tick' \in [Relayers -> Tick]
         /\ \A q \in Relayers : /\ tick'[q].pc = tick[q].pc /\ tick'[q].job = tick[q].job
                                /\ tick'[q].n = tick[q].n /\ tick'[q].ev = tick[q].ev
                                /\ tick'[q].tx = tick[q].tx /\ tick'[q].snap = tick[q].snap
<1>1. ASSUME NEW q \in Relayers
      PROVE  /\ tick'[q] \in Tick
             /\ tick'[q].pc = tick[q].pc /\ tick'[q].job = tick[q].job
             /\ tick'[q].n = tick[q].n /\ tick'[q].ev = tick[q].ev
             /\ tick'[q].tx = tick[q].tx /\ tick'[q].snap = tick[q].snap
  <2> DEFINE t == tick[q]
             u == [t EXCEPT !.late = @ \cup {j}]
  <2>1. t \in Tick /\ (tick'[q] = t \/ tick'[q] = u)
    BY DEF AutoTypes, Late
  <2> HIDE DEF t
  <2>2. /\ u \in Tick /\ u.pc = t.pc /\ u.job = t.job /\ u.n = t.n /\ u.ev = t.ev
        /\ u.tx = t.tx /\ u.snap = t.snap
    BY <2>1 DEF Tick
  <2> HIDE DEF u
  <2> QED
    BY <2>1, <2>2 DEF t
<1>2. tick' = [q \in Relayers |-> tick'[q]]
  BY DEF Late
<1> QED
  BY <1>1, <1>2

LEMMA TimeStepsKeep ==
  ASSUME AutomationAssumption, AutoInv, NEW j \in Jobs,
         Register(j) \/ BecomeDue(j) \/ BecomeStale(j)
  PROVE  AutoInv'
<1>1. AutoTypes /\ row \in [Jobs -> Row] /\ tick \in [Relayers -> Tick] /\ price \in Nat
      /\ faults \in 0 .. MaxFaults /\ row[j] \in Row
  BY DEF AutoInv, AutoTypes
<1>2. CASE Register(j)
  <2>1. PICK next \in Nexts :
          row' = [row EXCEPT ![j] = [Absent EXCEPT !.status = "active", !.next = next]]
    BY <1>2 DEF Register, InitialNext, Nexts
  <2> DEFINE new == [Absent EXCEPT !.status = "active", !.next = next]
  <2>2. new \in Row /\ row[j].status = "absent"
    BY <1>2 DEF Register, Absent, Row, Statuses, Nexts
  <2> HIDE DEF new
  <2>3. row' = [row EXCEPT ![j] = new]
    BY <2>1 DEF new
  <2>4. /\ UNCHANGED <<crew, kind, tick, seen, requests, runs, price, acked, forgot, faults>>
        /\ row' \in [Jobs -> Row]
        /\ \A i \in Jobs : row'[i].status = row[i].status \/ row[i].status # "cancelled"
    BY <1>1, <1>2, <2>2, <2>3 DEF Register, fixed
  <2> QED
    BY <1>1, <2>4, TimeKeeps
<1>3. CASE BecomeDue(j)
  <2> DEFINE new == [row[j] EXCEPT !.next = "due"]
  <2>1. new \in Row /\ new.status = row[j].status
    BY <1>1 DEF Row, Nexts
  <2>2. row' = [row EXCEPT ![j] = new]
    BY <1>3 DEF BecomeDue
  <2> HIDE DEF new
  <2>3. /\ UNCHANGED <<crew, kind, seen, requests, runs, price, acked, forgot, faults>>
        /\ row' \in [Jobs -> Row] /\ Late(j)
        /\ \A i \in Jobs : row'[i].status = row[i].status
    BY <1>1, <1>3, <2>1, <2>2 DEF BecomeDue, fixed
  <2> QED
    BY <1>1, <2>3, LateTyped, TimeKeeps
<1>4. CASE BecomeStale(j)
  <2> DEFINE new == [row[j] EXCEPT !.stale = TRUE]
  <2>1. new \in Row /\ new.status = row[j].status
    BY <1>1 DEF Row
  <2>2. row' = [row EXCEPT ![j] = new]
    BY <1>4 DEF BecomeStale
  <2> HIDE DEF new
  <2>3. /\ UNCHANGED <<crew, kind, seen, requests, runs, price, acked, forgot>>
        /\ row' \in [Jobs -> Row] /\ Late(j)
        /\ \A i \in Jobs : row'[i].status = row[i].status
    BY <1>1, <1>4, <2>1, <2>2 DEF BecomeStale, fixed
  <2>4. Fault("stall") \/ NoFault
    BY <1>4 DEF BecomeStale
  <2>5. faults' \in 0 .. MaxFaults
    BY <2>4, <1>1, FaultTyped
  <2> QED
    BY <1>1, <2>3, <2>5, LateTyped, TimeKeeps
<1> QED
  BY <1>2, <1>3, <1>4

LEMMA MovePriceKeeps ==
  ASSUME AutomationAssumption, AutoInv, MovePrice
  PROVE  AutoInv'
<1>1. AutoTypes /\ row \in [Jobs -> Row] /\ tick \in [Relayers -> Tick]
      /\ faults \in 0 .. MaxFaults
  BY DEF AutoInv, AutoTypes
<1>2. /\ UNCHANGED <<crew, kind, row, tick, seen, requests, runs, acked, forgot, faults>>
      /\ price' \in Nat
  BY DEF MovePrice, fixed, AutomationAssumption
<1> QED
  BY <1>1, <1>2, TimeKeeps

-----------------------------------------------------------------------------
(* The theorems *)

LEMMA AutoInit ==
  ASSUME AutomationAssumption, Init
  PROVE  AutoInv
<1>1. /\ crew \in Populations /\ kind \in [Jobs -> crew.kinds] /\ price \in Prices
      /\ row = [j \in Jobs |-> Absent] /\ tick = [r \in Relayers |-> Idle]
      /\ seen = [r \in Relayers |-> {}] /\ requests = <<>> /\ runs = {}
      /\ acked = {} /\ forgot = {} /\ faults = 0
  BY DEF Init
<1>2. Absent \in Row
  BY DEF Absent, Row, Statuses, Nexts
<1>3. requests \in Seq(Request) /\ Len(requests) = 0 /\ DOMAIN requests = {}
  BY <1>1
<1>4. crew.kinds \subseteq Kinds /\ price \in Nat /\ faults \in 0 .. MaxFaults
  BY <1>1 DEF AutomationAssumption
<1>5. AutoTypes
  BY <1>1, <1>2, <1>3, <1>4, IdleTyped DEF AutoTypes
<1>6. ASSUME NEW r \in Relayers PROVE TickSound(r)
  <2>1. tick[r] = Idle
    BY <1>1
  <2> QED
    BY <2>1, <1>3 DEF TickSound, Idle
<1>7. Reserved
  <2> SUFFICES ASSUME NEW j \in Jobs, NEW n \in Nat
               PROVE  Cardinality(Txs(j, n)) <= Cardinality(Reservers(j, n))
    BY DEF Reserved
  <2>1. Txs(j, n) = {}
    BY <1>3 DEF Txs
  <2>2. Cardinality(Txs(j, n)) = 0 /\ Cardinality(Reservers(j, n)) \in Nat
    BY <2>1, <1>5, FS_EmptySet, ReserversFinite
  <2> QED
    BY <2>2
<1>8. CancelHeld
  BY <1>1 DEF CancelHeld
<1> QED
  BY <1>3, <1>5, <1>6, <1>7, <1>8 DEF AutoInv

LEMMA AutoInductive ==
  ASSUME AutomationAssumption, AutoInv, [Next]_vars
  PROVE  AutoInv'
<1>1. ASSUME NEW j \in Jobs, Register(j) \/ BecomeDue(j) \/ BecomeStale(j)
      PROVE  AutoInv'
  BY <1>1, TimeStepsKeep
<1>2. ASSUME NEW r \in crew.relayers, Step(r)
      PROVE  AutoInv'
  BY <1>2, EvaluateKeeps, PatchEvaluationKeeps, ClaimKeeps, QueueKeeps, RecordRunKeeps,
     FinalizeKeeps, FailKeeps, CancelPatchKeeps DEF Step
<1>3. ASSUME NEW r \in crew.relayers,
             Fetch(r) \/ Crash(r) \/ Prune(r) \/ \E j \in Jobs : CancelLoad(r, j)
      PROVE  AutoInv'
  BY <1>3, FetchKeeps, CrashKeeps, PruneKeeps, CancelLoadKeeps
<1>4. ASSUME NEW tx \in DOMAIN requests, Execute(tx)
      PROVE  AutoInv'
  BY <1>4, ExecuteKeeps
<1>5. CASE MovePrice
  BY <1>5, MovePriceKeeps
<1>6. CASE UNCHANGED vars
  BY <1>6 DEF vars, AutoInv, AutoTypes, TickSound, Within, Reserved, Txs, Reservers,
     CancelHeld, Alone
<1> QED
  BY <1>1, <1>2, <1>3, <1>4, <1>5, <1>6 DEF Next

LEMMA AutoInvHolds == Spec => []AutoInv
<1>1. Init => AutoInv
  BY AutomationAssumption, AutoInit
<1>2. AutoInv /\ [Next]_vars => AutoInv'
  BY AutomationAssumption, AutoInductive
<1> QED
  BY <1>1, <1>2, PTL DEF Spec

\* Automation's state stays of its types: a claim, reclaim or stale patch never
\* leaves a row, a tick or a run record malformed.
THEOREM AutomationTypes == Spec => []TypeOK
<1>1. AutoInv => TypeOK
  <2> SUFFICES ASSUME AutoInv PROVE TypeOK
    OBVIOUS
  <2>1. ASSUME NEW r \in Relayers
        PROVE  /\ tick[r].pc \in Places
               /\ tick[r].pc \notin {"idle", "scan"} => tick[r].job \in Jobs
               /\ seen[r] \subseteq Jobs \X Nat
    <3>1. tick[r] \in Tick /\ TickSound(r) /\ seen[r] \in SUBSET (Jobs \X Nat)
      BY DEF AutoInv, AutoTypes
    <3> QED
      BY <3>1 DEF Tick, TickSound
  <2>2. \A tx \in DOMAIN requests : requests[tx] \in Request
    BY ElementOfSeq, LenProperties DEF AutoInv, AutoTypes
  <2> QED
    BY <2>1, <2>2 DEF TypeOK, AutoInv, AutoTypes, Row, Request, Places
<1> QED
  BY <1>1, AutoInvHolds, PTL

\* No request is ever sent for an execution past max_executions: a tick only
\* ever carries an execution number that its snapshot allowed, and counts in the
\* table may be written back but the numbers sent stay within the maximum.
THEOREM ExecutionsWithinMax == Spec => []BoundedByMax
<1>1. AutoInv => BoundedByMax
  BY DEF AutoInv, Within, BoundedByMax
<1> QED
  BY <1>1, AutoInvHolds, PTL

\* Unless a reservation of seenRequestIds was lost or never made, an execution
\* has at most one on-chain request per relayer process.
CopiesWithinCrew ==
    \A j \in Jobs, n \in Nat :
        <<j, n>> \notin forgot => Copies(j, n) <= Cardinality(crew.relayers)

LEMMA AutoCopies == AutoInv => CopiesWithinCrew
<1> SUFFICES ASSUME AutoInv, NEW j \in Jobs, NEW n \in Nat, <<j, n>> \notin forgot
             PROVE  Copies(j, n) <= Cardinality(crew.relayers)
  BY DEF CopiesWithinCrew
<1>1. Copies(j, n) = Cardinality(Txs(j, n))
  BY DEF Copies, Txs
<1>2. Cardinality(Txs(j, n)) <= Cardinality(Reservers(j, n))
  BY DEF AutoInv, Reserved
<1>3. /\ Cardinality(Txs(j, n)) \in Nat /\ Cardinality(Reservers(j, n)) \in Nat
      /\ Cardinality(Reservers(j, n)) <= Cardinality(crew.relayers)
  BY AutomationAssumption, TxsFinite, ReserversFinite DEF AutoInv
<1>4. Cardinality(crew.relayers) \in Nat
  BY AutomationAssumption, CrewTyped, FS_CardinalityType DEF AutoInv
<1> QED
  BY <1>1, <1>2, <1>3, <1>4

\* The request_id reservation bounds the copies of an execution by the number of
\* relayer processes, whatever snapshots and reclaims they act on.
THEOREM CopiesPerProcess == Spec => []CopiesWithinCrew
BY AutoCopies, AutoInvHolds, PTL

\* What a step does to the requests and to the answered cancels.
LEMMA StepEffects ==
  ASSUME Next
  PROVE  /\ crew' = crew /\ acked \subseteq acked'
         /\ \/ requests' = requests
            \/ \E tx \in DOMAIN requests : Execute(tx)
            \/ \E r \in crew.relayers : Queue(r)
<1>1. ASSUME NEW j \in Jobs, Register(j) \/ BecomeDue(j) \/ BecomeStale(j)
      PROVE  UNCHANGED <<crew, acked, requests>>
  BY <1>1 DEF Register, BecomeDue, BecomeStale, fixed
<1>2. ASSUME NEW r \in crew.relayers, Step(r), ~Queue(r)
      PROVE  crew' = crew /\ acked \subseteq acked' /\ requests' = requests
  BY <1>2 DEF Step, Evaluate, PatchEvaluation, Claim, RecordRun, Finalize, Fail, CancelPatch,
     fixed
<1>3. ASSUME NEW r \in crew.relayers,
             Fetch(r) \/ Crash(r) \/ Prune(r) \/ \E j \in Jobs : CancelLoad(r, j)
      PROVE  UNCHANGED <<crew, acked, requests>>
  BY <1>3 DEF Fetch, Crash, Prune, CancelLoad, fixed
<1>4. ASSUME NEW tx \in DOMAIN requests, Execute(tx)
      PROVE  UNCHANGED <<crew, acked>>
  BY <1>4 DEF Execute, fixed
<1>5. CASE MovePrice
  BY <1>5 DEF MovePrice, fixed
<1>6. ASSUME NEW r \in crew.relayers, Queue(r)
      PROVE  UNCHANGED <<crew, acked>>
  BY <1>6 DEF Queue, fixed
<1> QED
  BY <1>1, <1>2, <1>3, <1>4, <1>5, <1>6 DEF Next

\* With one relayer process an answered cancel is final: the job stays
\* cancelled and no execution of it is sent any more.
THEOREM AnsweredCancelIsFinal == Spec => CancelStops
<1>1. ASSUME AutoInv, AutoInv', [Next]_vars
      PROVE  [ \A j \in acked :
                 Cardinality(crew.relayers) = 1 =>
                   /\ row'[j].status = "cancelled"
                   /\ \A n \in 1 .. CountBound : Copies(j, n)' = Copies(j, n) ]_vars
  <2> SUFFICES ASSUME Next, NEW j \in acked, Alone
               PROVE  /\ row'[j].status = "cancelled"
                      /\ \A n \in 1 .. CountBound : Copies(j, n)' = Copies(j, n)
    BY <1>1 DEF Alone
  <2>1. crew' = crew /\ j \in acked'
    BY StepEffects
  <2>2. row'[j].status = "cancelled"
    BY <1>1, <2>1 DEF AutoInv, CancelHeld, Alone
  <2>3. /\ j \in Jobs
        /\ \A r \in crew.relayers : tick[r].pc \notin {"idle", "scan"} => tick[r].job # j
    BY <1>1 DEF AutoInv, CancelHeld
  <2>4. ASSUME NEW n \in 1 .. CountBound PROVE Copies(j, n)' = Copies(j, n)
    <3>1. n \in Nat
      BY AutomationAssumption DEF AutomationAssumption
    <3>2. Txs(j, n)' = Txs(j, n) => Copies(j, n)' = Copies(j, n)
      BY DEF Copies, Txs
    <3>3. CASE requests' = requests
      BY <3>3 DEF Copies
    <3>4. ASSUME NEW tx \in DOMAIN requests, Execute(tx)
          PROVE  Txs(j, n)' = Txs(j, n)
      BY <1>1, <3>4, AutomationAssumption, ExecuteKeeps
    <3>5. ASSUME NEW r \in crew.relayers, Queue(r)
          PROVE  Txs(j, n)' = Txs(j, n)
      <4> DEFINE t == tick[r]
      <4>1. /\ t.pc = "queue" /\ TickSound(r) /\ t \in Tick
            /\ requests' = requests \/ requests' = Append(requests, Sent(t))
            /\ kind' = kind
        BY <1>1, <3>5, AutomationAssumption, Stands DEF Queue, fixed
      <4>2. t.job \in Jobs /\ t.n \in Nat \ {0} /\ Within(t.job, t.n) /\ t.job # j
        BY <4>1, <2>3 DEF TickSound, Tick
      <4>3. CASE requests' = requests
        BY <4>3 DEF Txs
      <4>4. CASE requests' = Append(requests, Sent(t))
        BY <1>1, <2>3, <3>1, <4>1, <4>2, <4>4, Landed
      <4> QED
        BY <4>1, <4>3, <4>4
    <3> QED
      BY <3>2, <3>3, <3>4, <3>5, StepEffects
  <2> QED
    BY <2>2, <2>4
<1> QED
  BY <1>1, AutoInvHolds, PTL DEF Spec, CancelStops

-----------------------------------------------------------------------------
(* Several relayers *)

\* What was sent for execution n is known to be forgotten, or is still in the
\* reservations of process r.
Known(j, n) == Txs(j, n) # {} => <<j, n>> \in forgot
Under(r, j, n) == Txs(j, n) # {} => <<j, n>> \in seen[r] \cup forgot

\* The row counts every execution that was sent.
RowSound(j) ==
    /\ row[j].pinned = row[j].count
    /\ row[j].status = "absent" => row[j].count = 0
    /\ row[j].status = "active" => row[j].next # "null"
    /\ row[j].status = "processing" => row[j].count > 0
    /\ \A n \in Nat : Txs(j, n) # {} => n <= row[j].count

SentOnce(j) ==
    \A n \in Nat : \A x, y \in Txs(j, n) : x = y \/ <<j, n>> \in forgot

\* A claim that nobody works on may be taken up again.
OrphanSound(j) ==
    row[j].status = "processing" /\ (\A q \in crew.relayers : ~Holding(q, j)) =>
        \A n \in Nat : n = row[j].count => Known(j, n)

\* Relayer r, who holds the claim, is the only one and works on the execution
\* the row counts; nobody else can claim the row.
HeldBy(r, j) ==
    /\ row[j].status \notin {"absent", "active"} /\ ~Claimable(j) /\ row[j].count > 0
    /\ \A q \in crew.relayers : Holding(q, j) => q = r
    /\ tick[r].pc # "failed" => tick[r].n = row[j].count
    /\ tick[r].pc = "failed" => tick[r].inflight
    /\ \A n \in Nat : n = row[j].count =>
          /\ tick[r].pc \in {"record", "final"} => Under(r, j, n)
          /\ tick[r].pc \in {"queue", "failed"} => Known(j, n)

\* A fetched row can be claimed only while it is as it was fetched.
SnapSound(r, j) ==
    /\ row[j].status # "absent" /\ tick[r].pc \notin {"idle", "cancel"}
    /\ tick[r].snap[j].status \in {"active", "processing"}
    /\ tick[r].snap[j].pinned = tick[r].snap[j].count
    /\ tick[r].snap[j].status = "processing" => tick[r].snap[j].count > 0
    /\ \/ j \in tick[r].late \/ ~Claimable(j)
       \/ row[j].status = tick[r].snap[j].status /\ row[j].count = tick[r].snap[j].count

\* What a tick is about to claim or patch follows from what it fetched.
TurnSound(r, j) ==
    /\ tick[r].pc \in {"claim", "patch"} => j \in DOMAIN tick[r].snap
    /\ tick[r].pc = "claim" =>
          /\ tick[r].n = ResolveDispatch(tick[r].snap[j]).n
          /\ tick[r].advance = ResolveDispatch(tick[r].snap[j]).advance
    /\ tick[r].pc = "patch" =>
          /\ tick[r].n = 0
          /\ tick[r].ev \in {[status |-> "completed", next |-> "null"], [status |-> "error"]}

CrewSound(j) ==
    /\ RowSound(j) /\ SentOnce(j) /\ OrphanSound(j)
    /\ \A q \in crew.relayers :
          /\ Holding(q, j) => HeldBy(q, j)
          /\ j \in DOMAIN tick[q].snap => SnapSound(q, j)
          /\ tick[q].job = j => TurnSound(q, j)

CrewInv == TableAnswers => \A j \in Jobs : Scheduled(j) => CrewSound(j)

\* What becomes of a tick t that has fetched job j: u carries the fetched row,
\* or is the same but for what is late; u is at work on j.
Carried(t, u, j) ==
    j \in DOMAIN u.snap =>
        /\ j \in DOMAIN t.snap /\ u.snap[j] = t.snap[j] /\ t.late \subseteq u.late
        /\ u.pc \in {"idle", "cancel"} => t.pc \in {"idle", "cancel"}
SameTick(t, u) ==
    /\ u.pc = t.pc /\ u.job = t.job /\ u.n = t.n /\ u.advance = t.advance /\ u.ev = t.ev
    /\ u.inflight = t.inflight /\ u.snap = t.snap /\ t.late \subseteq u.late
Engaged(u, j) ==
    u.job = j /\ u.pc \in {"patch", "claim", "queue", "record", "final", "failed"}
Away(t, u, j) == ~Engaged(u, j) /\ Carried(t, u, j)

\* A step sends nothing for job j and forgets no reservation unnoticed.
Silent(j) ==
    /\ crew' = crew /\ kind' = kind /\ forgot \subseteq forgot'
    /\ \A n \in Nat : Txs(j, n)' = Txs(j, n)
    /\ \A q \in crew.relayers : seen[q] \subseteq seen'[q] \cup forgot'

\* A row that can be claimed after a step is as it was, or late for tick u.
StaysFetched(j, u) ==
    /\ row[j].status # "absent" => row'[j].status # "absent"
    /\ Claimable(j)' =>
          \/ j \in u.late
          \/ /\ Claimable(j) /\ row'[j].status = row[j].status
             /\ row'[j].count = row[j].count

LEMMA SnapKeeps ==
  ASSUME NEW j, NEW q, Carried(tick[q], tick'[q], j),
         j \in DOMAIN tick[q].snap => SnapSound(q, j), StaysFetched(j, tick'[q])
  PROVE  j \in DOMAIN tick'[q].snap => SnapSound(q, j)'
BY DEF Carried, SnapSound, StaysFetched

LEMMA TurnKeeps ==
  ASSUME NEW j, NEW q, tick[q].job = j => TurnSound(q, j),
         SameTick(tick[q], tick'[q]) \/ Away(tick[q], tick'[q], j)
  PROVE  tick'[q].job = j => TurnSound(q, j)'
<1>1. CASE SameTick(tick[q], tick'[q])
  BY <1>1 DEF SameTick, TurnSound
<1>2. CASE Away(tick[q], tick'[q], j)
  BY <1>2 DEF Away, Engaged, TurnSound
<1> QED
  BY <1>1, <1>2

LEMMA SameCarried ==
  ASSUME NEW t, NEW u, NEW j, SameTick(t, u) \/ Away(t, u, j)
  PROVE  Carried(t, u, j)
BY DEF SameTick, Away, Carried

\* Which relayers hold a claim after a step that starts no work on it.
LEMMA HoldersStay ==
  ASSUME NEW j, NEW q, SameTick(tick[q], tick'[q]) \/ Away(tick[q], tick'[q], j),
         Holding(q, j)'
  PROVE  Holding(q, j) /\ SameTick(tick[q], tick'[q])
BY DEF SameTick, Away, Engaged, Holding

\* A holder whose row keeps its count and stays out of reach keeps its claim.
LEMMA HolderKeeps ==
  ASSUME NEW j, Silent(j), NEW q \in crew.relayers, HeldBy(q, j),
         SameTick(tick[q], tick'[q]),
         row'[j].status \notin {"absent", "active"}, ~Claimable(j)',
         row'[j].count = row[j].count,
         \A p \in crew.relayers : Holding(p, j)' => Holding(p, j)
  PROVE  HeldBy(q, j)'
<1>1. \A n \in Nat : (Known(j, n) => Known(j, n)') /\ (Under(q, j, n) => Under(q, j, n)')
  BY DEF Silent, Known, Under
<1>2. tick'[q].pc = tick[q].pc /\ tick'[q].n = tick[q].n /\ tick'[q].inflight = tick[q].inflight
  BY DEF SameTick
<1>3. crew' = crew
  BY DEF Silent
<1> QED
  BY <1>1, <1>2, <1>3 DEF HeldBy

LEMMA SentKeeps ==
  ASSUME NEW j, Silent(j), SentOnce(j)
  PROVE  SentOnce(j)'
BY DEF Silent, SentOnce

\* A step that leaves job j and those who work on it alone.
LEMMA AsideKeeps ==
  ASSUME NEW j \in Jobs, CrewSound(j), Silent(j), row'[j] = row[j],
         \A q \in crew.relayers :
            \/ SameTick(tick[q], tick'[q])
            \/ ~Holding(q, j) /\ Away(tick[q], tick'[q], j)
  PROVE  CrewSound(j)'
<1>1. Claimable(j)' <=> Claimable(j)
  BY DEF Claimable
<1>2. \A q \in crew.relayers : StaysFetched(j, tick'[q])
  BY <1>1 DEF StaysFetched
<1>3. crew' = crew
  BY DEF Silent
<1>4. \A q \in crew.relayers : Holding(q, j)' => Holding(q, j) /\ SameTick(tick[q], tick'[q])
  BY HoldersStay
<1>5. \A q \in crew.relayers : Holding(q, j) => Holding(q, j)'
  BY DEF Holding, SameTick
<1>6. RowSound(j)' /\ SentOnce(j)'
  BY SentKeeps DEF CrewSound, RowSound, Silent
<1>7. OrphanSound(j)'
  BY <1>3, <1>5 DEF CrewSound, OrphanSound, Silent, Known
<1>8. ASSUME NEW q \in crew.relayers
      PROVE  /\ Holding(q, j)' => HeldBy(q, j)'
             /\ j \in DOMAIN tick'[q].snap => SnapSound(q, j)'
             /\ tick'[q].job = j => TurnSound(q, j)'
  <2>1. Holding(q, j)' => HeldBy(q, j)'
    <3> SUFFICES ASSUME Holding(q, j)' PROVE HeldBy(q, j)'
      OBVIOUS
    <3>1. HeldBy(q, j) /\ SameTick(tick[q], tick'[q])
      BY <1>4 DEF CrewSound
    <3> QED
      BY <3>1, <1>1, <1>4, HolderKeeps DEF HeldBy
  <2>2. j \in DOMAIN tick'[q].snap => SnapSound(q, j)'
    BY <1>2, SameCarried, SnapKeeps DEF CrewSound
  <2>3. tick'[q].job = j => TurnSound(q, j)'
    BY TurnKeeps DEF CrewSound
  <2> QED
    BY <2>1, <2>2, <2>3
<1> QED
  BY <1>3, <1>6, <1>7, <1>8 DEF CrewSound

\* A row that is out of reach after a step stays fetched for every tick.
LEMMA OutOfReach ==
  ASSUME NEW j, NEW u, row'[j].status # "absent", ~Claimable(j)'
  PROVE  StaysFetched(j, u)
BY DEF StaysFetched

\* The job is completed, failed or cancelled by somebody who does not hold it.
LEMMA ClosedKeeps ==
  ASSUME NEW j \in Jobs, CrewSound(j), Silent(j),
         row'[j].status \in {"completed", "error", "cancelled"},
         row'[j].count = row[j].count, row'[j].pinned = row[j].pinned,
         \A q \in crew.relayers :
            SameTick(tick[q], tick'[q]) \/ Away(tick[q], tick'[q], j)
  PROVE  CrewSound(j)'
<1>1. ~Claimable(j)'
  BY DEF Claimable
<1>2. crew' = crew
  BY DEF Silent
<1>3. \A q \in crew.relayers : Holding(q, j)' => Holding(q, j) /\ SameTick(tick[q], tick'[q])
  BY HoldersStay
<1>4. RowSound(j)' /\ SentOnce(j)' /\ OrphanSound(j)'
  BY SentKeeps DEF CrewSound, RowSound, Silent, OrphanSound
<1>5. ASSUME NEW q \in crew.relayers
      PROVE  /\ Holding(q, j)' => HeldBy(q, j)'
             /\ j \in DOMAIN tick'[q].snap => SnapSound(q, j)'
             /\ tick'[q].job = j => TurnSound(q, j)'
  <2>1. Holding(q, j)' => HeldBy(q, j)'
    <3> SUFFICES ASSUME Holding(q, j)' PROVE HeldBy(q, j)'
      OBVIOUS
    <3>1. HeldBy(q, j) /\ SameTick(tick[q], tick'[q])
      BY <1>3 DEF CrewSound
    <3> QED
      BY <3>1, <1>1, <1>3, HolderKeeps
  <2>2. j \in DOMAIN tick'[q].snap => SnapSound(q, j)'
    BY <1>1, OutOfReach, SameCarried, SnapKeeps DEF CrewSound
  <2>3. tick'[q].job = j => TurnSound(q, j)'
    BY TurnKeeps DEF CrewSound
  <2> QED
    BY <2>1, <2>2, <2>3
<1> QED
  BY <1>2, <1>4, <1>5 DEF CrewSound

\* The holder lets go of the job: nobody holds it, and if its execution is to be
\* taken up again, what was sent for it is known.
LEMMA ReleasedKeeps ==
  ASSUME NEW j \in Jobs, CrewSound(j), Silent(j), NEW r \in crew.relayers, Holding(r, j),
         row'[j].status # "absent", ~Claimable(j)',
         row'[j].count = row[j].count, row'[j].pinned = row[j].pinned,
         row'[j].status = "active" => row'[j].next # "null",
         row'[j].status = "processing" => \A n \in Nat : n = row[j].count => Known(j, n)',
         Away(tick[r], tick'[r], j),
         \A q \in crew.relayers \ {r} : tick'[q] = tick[q]
  PROVE  CrewSound(j)'
<1>1. crew' = crew /\ HeldBy(r, j)
  BY DEF Silent, CrewSound
<1>2. \A q \in crew.relayers : SameTick(tick[q], tick'[q]) \/ Away(tick[q], tick'[q], j)
  BY DEF SameTick
<1>3. \A q \in crew.relayers : ~Holding(q, j)'
  <2> SUFFICES ASSUME NEW q \in crew.relayers, Holding(q, j)' PROVE FALSE
    OBVIOUS
  <2>1. Holding(q, j)
    BY <1>2, HoldersStay
  <2>2. q = r
    BY <1>1, <2>1 DEF HeldBy
  <2> QED
    BY <2>2 DEF Holding, Away, Engaged
<1>4. RowSound(j)' /\ SentOnce(j)'
  BY <1>1, SentKeeps DEF CrewSound, RowSound, Silent, HeldBy
<1>5. OrphanSound(j)'
  BY DEF OrphanSound
<1>6. ASSUME NEW q \in crew.relayers
      PROVE  /\ j \in DOMAIN tick'[q].snap => SnapSound(q, j)'
             /\ tick'[q].job = j => TurnSound(q, j)'
  BY <1>2, OutOfReach, SameCarried, SnapKeeps, TurnKeeps DEF CrewSound
<1> QED
  BY <1>1, <1>3, <1>4, <1>5, <1>6 DEF CrewSound

\* After a job, and in the catch block, a tick carries what it fetched.
LEMMA ContinueAway ==
  ASSUME NEW t \in Tick, NEW q \in Nat, NEW j
  PROVE  Away(t, Continue(t, q), j)
<1> DEFINE rest == [i \in DOMAIN t.snap \ {t.job} |-> t.snap[i]]
           u == [Idle EXCEPT !.pc = "scan", !.snap = rest, !.late = t.late, !.queued = q]
<1>1. Continue(t, q) = Idle \/ Continue(t, q) = u
  BY DEF Continue
<1>2. Away(t, Idle, j)
  <2>1. Idle.pc = "idle" /\ Idle.snap = <<>>
    BY DEF Idle
  <2>2. DOMAIN Idle.snap = {}
    BY <2>1
  <2> QED
    BY <2>1, <2>2 DEF Away, Engaged, Carried
<1>3. \A i \in DOMAIN rest : i \in DOMAIN t.snap /\ rest[i] = t.snap[i]
  OBVIOUS
<1> HIDE DEF rest
<1>4. u.pc = "scan" /\ u.snap = rest /\ u.late = t.late
  BY DEF Idle
<1> HIDE DEF u
<1>5. Away(t, u, j)
  BY <1>3, <1>4 DEF Away, Engaged, Carried
<1> QED
  BY <1>1, <1>2, <1>5

LEMMA FailedCarries ==
  ASSUME NEW t \in Tick, NEW inflight \in BOOLEAN, NEW terminal \in BOOLEAN, NEW j
  PROVE  LET u == Failed(t, inflight, terminal) IN
         /\ Carried(t, u, j) /\ u.pc = "failed" /\ u.job = t.job
         /\ u.inflight = inflight /\ u.terminal = terminal
<1> DEFINE u == Failed(t, inflight, terminal)
<1>1. /\ u.snap = t.snap /\ u.late = t.late /\ u.pc = "failed" /\ u.job = t.job
      /\ u.inflight = inflight /\ u.terminal = terminal
  BY DEF Failed, Tick
<1> HIDE DEF u
<1>2. Carried(t, u, j)
  BY <1>1 DEF Carried
<1> QED
  BY <1>1, <1>2 DEF u

\* A patch takes the fields it names and makes updated_at fresh.
LEMMA PatchedRow ==
  ASSUME row \in [Jobs -> Row], NEW j \in Jobs, NEW f, Fields(f)
  PROVE  LET p == Patched(j, f)[j] IN
         /\ p.stale = FALSE
         /\ p.status = IF "status" \in DOMAIN f THEN f["status"] ELSE row[j].status
         /\ p.next = IF "next" \in DOMAIN f THEN f["next"] ELSE row[j].next
         /\ p.count = IF "count" \in DOMAIN f THEN f["count"] ELSE row[j].count
         /\ p.pinned = IF "pinned" \in DOMAIN f THEN f["pinned"] ELSE row[j].pinned
<1> DEFINE g == Spread([stale |-> FALSE], f)
           h == Spread(row[j], g)
<1>1. /\ DOMAIN g = DOMAIN f \cup {"stale"}
      /\ g["stale"] = FALSE
      /\ \A x \in DOMAIN f : g[x] = f[x]
  BY DEF Spread, Fields
<1>2. row[j] \in Row
  OBVIOUS
<1> HIDE DEF g
<1>3. DOMAIN h = {"status", "next", "count", "pinned", "stale", "last"}
  BY <1>1, <1>2 DEF Spread, Fields, Row
<1>4. \A x \in DOMAIN h : h[x] = IF x \in DOMAIN g THEN g[x] ELSE row[j][x]
  BY DEF Spread
<1> HIDE DEF h
<1>5. /\ h["stale"] = FALSE
      /\ h["status"] = IF "status" \in DOMAIN f THEN f["status"] ELSE row[j]["status"]
      /\ h["next"] = IF "next" \in DOMAIN f THEN f["next"] ELSE row[j]["next"]
      /\ h["count"] = IF "count" \in DOMAIN f THEN f["count"] ELSE row[j]["count"]
      /\ h["pinned"] = IF "pinned" \in DOMAIN f THEN f["pinned"] ELSE row[j]["pinned"]
  BY <1>1, <1>3, <1>4
<1>6. Patched(j, f)[j] = h
  BY DEF Patched, h, g
<1> QED
  BY <1>5, <1>6

LEMMA SilentBy ==
  ASSUME NEW j, UNCHANGED <<crew, kind, seen, requests, forgot>>
  PROVE  Silent(j)
BY DEF Silent, Txs

LEMMA NoTableFault ==
  ASSUME TableAnswers, NEW c \in {"claim", "patch", "record", "stall"}
  PROVE  ~Fault(c)
BY DEF TableAnswers, Fault

\* The others' ticks are not touched by a step of relayer r.
LEMMA OneTick ==
  ASSUME AutomationAssumption, AutoInv, NEW r \in crew.relayers, NEW u,
         tick' = [tick EXCEPT ![r] = u]
  PROVE  /\ tick'[r] = u
         /\ \A q \in crew.relayers \ {r} : tick'[q] = tick[q]
         /\ \A q \in crew.relayers \ {r} : SameTick(tick[q], tick'[q])
BY Stands, CrewTyped DEF SameTick, AutoInv

\* Relayer r works on another job.
LEMMA OtherWork ==
  ASSUME AutomationAssumption, AutoInv, NEW j \in Jobs, CrewSound(j), Silent(j),
         row'[j] = row[j], NEW r \in crew.relayers, ~Holding(r, j), NEW u,
         tick' = [tick EXCEPT ![r] = u], Away(tick[r], u, j)
  PROVE  CrewSound(j)'
<1>1. tick'[r] = u
  BY OneTick
<1>2. \A q \in crew.relayers \ {r} : SameTick(tick[q], tick'[q])
  BY OneTick
<1>3. \A q \in crew.relayers :
         SameTick(tick[q], tick'[q]) \/ (~Holding(q, j) /\ Away(tick[q], tick'[q], j))
  BY <1>1, <1>2
<1> QED
  BY <1>3, AsideKeeps

LEMMA OtherJobAway ==
  ASSUME NEW t \in Tick, NEW j, NEW u, u.snap = t.snap, u.late = t.late, u.job # j,
         u.pc \notin {"idle", "cancel"}
  PROVE  Away(t, u, j)
BY DEF Away, Engaged, Carried

LEMMA IdleAway ==
  ASSUME NEW t, NEW j
  PROVE  Away(t, Idle, j)
<1>1. Idle.pc = "idle" /\ Idle.snap = <<>>
  BY DEF Idle
<1>2. DOMAIN Idle.snap = {}
  BY <1>1
<1> QED
  BY <1>1, <1>2 DEF Away, Engaged, Carried

LEMMA PatchEvaluationCrew ==
  ASSUME AutomationAssumption, AutoInv, TableAnswers, NEW j \in Jobs, Scheduled(j),
         CrewSound(j), NEW r \in crew.relayers, PatchEvaluation(r)
  PROVE  CrewSound(j)'
<1> DEFINE t == tick[r]
<1>1. /\ t.pc = "patch" /\ t \in Tick /\ t.job \in Jobs /\ t.queued \in Nat
      /\ row \in [Jobs -> Row] /\ Fields(t.ev)
  BY Stands, EvaluationFields DEF PatchEvaluation, Tick, TickSound
<1>2. /\ row' = Patched(t.job, t.ev)
      /\ tick' = [tick EXCEPT ![r] =
            IF t.n > 0 THEN [t EXCEPT !.pc = "claim"] ELSE Continue(t, t.queued)]
      /\ UNCHANGED <<crew, kind, seen, requests, forgot>>
  BY NoTableFault DEF PatchEvaluation, fixed
<1>3. Silent(j)
  BY <1>2, SilentBy
<1>4. Away(t, Continue(t, t.queued), j)
  BY <1>1, ContinueAway
<1>5. CASE t.job = j
  <2>1. /\ t.n = 0
        /\ t.ev \in {[status |-> "completed", next |-> "null"], [status |-> "error"]}
    BY <1>1, <1>5 DEF CrewSound, TurnSound
  <2>2. /\ "status" \in DOMAIN t.ev /\ t.ev["status"] \in {"completed", "error"}
        /\ "count" \notin DOMAIN t.ev /\ "pinned" \notin DOMAIN t.ev
    BY <2>1
  <2>3. /\ row'[j].status \in {"completed", "error"} /\ row'[j].count = row[j].count
        /\ row'[j].pinned = row[j].pinned
    BY <2>2, <1>1, <1>2, <1>5, PatchedRow
  <2> DEFINE u == Continue(t, t.queued)
  <2>4. tick' = [tick EXCEPT ![r] = u] /\ Away(tick[r], u, j)
    BY <2>1, <1>2, <1>4
  <2> HIDE DEF u
  <2>5. /\ Away(tick[r], tick'[r], j)
        /\ \A q \in crew.relayers \ {r} : SameTick(tick[q], tick'[q])
    BY <2>4, OneTick
  <2>6. \A q \in crew.relayers : SameTick(tick[q], tick'[q]) \/ Away(tick[q], tick'[q], j)
    BY <2>5
  <2> QED
    BY <2>3, <2>6, <1>3, ClosedKeeps
<1>6. CASE t.job # j
  <2>1. row'[j] = row[j] /\ ~Holding(r, j)
    BY <1>1, <1>2, <1>6, PatchedTyped DEF Holding
  <2> DEFINE u == [t EXCEPT !.pc = "claim"]
  <2>2. Away(t, u, j)
    <3>1. u.snap = t.snap /\ u.late = t.late /\ u.job = t.job /\ u.pc = "claim"
      BY <1>1 DEF Tick
    <3> HIDE DEF u
    <3> QED
      BY <3>1, <1>1, <1>6, OtherJobAway
  <2> HIDE DEF u
  <2>3. \/ tick' = [tick EXCEPT ![r] = u]
        \/ tick' = [tick EXCEPT ![r] = Continue(t, t.queued)]
    BY <1>2 DEF u
  <2> QED
    BY <2>1, <2>2, <2>3, <1>3, <1>4, OtherWork
<1> QED
  BY <1>5, <1>6

LEMMA CancelPatchCrew ==
  ASSUME AutomationAssumption, AutoInv, TableAnswers, NEW j \in Jobs, Scheduled(j),
         CrewSound(j), NEW r \in crew.relayers, CancelPatch(r)
  PROVE  CrewSound(j)'
<1> DEFINE t == tick[r]
<1>1. t.pc = "cancel" /\ t \in Tick /\ t.job \in Jobs /\ row \in [Jobs -> Row]
  BY Stands DEF CancelPatch, TickSound
<1>2. /\ row' = Patched(t.job, CancelFields) /\ tick' = [tick EXCEPT ![r] = Idle]
      /\ UNCHANGED <<crew, kind, seen, requests, forgot>>
  BY DEF CancelPatch, fixed
<1>3. Silent(j)
  BY <1>2, SilentBy
<1>4. Away(t, Idle, j)
  BY IdleAway
<1>5. CASE t.job = j
  <2>1. "count" \notin DOMAIN CancelFields /\ "pinned" \notin DOMAIN CancelFields
    BY DEF CancelFields
  <2>2. /\ row'[j].status = "cancelled" /\ row'[j].count = row[j].count
        /\ row'[j].pinned = row[j].pinned
    BY <2>1, <1>1, <1>2, <1>5, CancelPatched, PatchedRow
  <2>3. /\ Away(tick[r], tick'[r], j)
        /\ \A q \in crew.relayers \ {r} : SameTick(tick[q], tick'[q])
    BY <1>2, <1>4, OneTick
  <2>4. \A q \in crew.relayers : SameTick(tick[q], tick'[q]) \/ Away(tick[q], tick'[q], j)
    BY <2>3
  <2> QED
    BY <2>2, <2>4, <1>3, ClosedKeeps
<1>6. CASE t.job # j
  <2>1. row'[j] = row[j] /\ ~Holding(r, j)
    BY <1>1, <1>2, <1>6, CancelPatched, PatchedTyped DEF Holding
  <2> QED
    BY <2>1, <1>2, <1>3, <1>4, OtherWork
<1> QED
  BY <1>5, <1>6

LEMMA FinalizeCrew ==
  ASSUME AutomationAssumption, AutoInv, TableAnswers, NEW j \in Jobs, Scheduled(j),
         CrewSound(j), NEW r \in crew.relayers, Finalize(r)
  PROVE  CrewSound(j)'
<1> DEFINE t == tick[r]
           q == IF t.tx > 0 THEN t.queued + 1 ELSE t.queued
           f == QueuedPatch(t.job, t)
<1>1. /\ t.pc = "final" /\ t \in Tick /\ t.job \in Jobs /\ row \in [Jobs -> Row]
      /\ q \in Nat /\ TickSound(r) /\ t.n > 0 /\ kind \in [Jobs -> Kinds]
  BY Stands DEF Finalize, Tick, TickSound
<1>2. /\ row' = Patched(t.job, f) /\ tick' = [tick EXCEPT ![r] = Continue(t, q)]
      /\ UNCHANGED <<crew, kind, seen, requests, forgot>>
  BY NoTableFault DEF Finalize, fixed
<1>3. Silent(j)
  BY <1>2, SilentBy
<1>4. Away(t, Continue(t, q), j)
  BY <1>1, ContinueAway
<1>5. Fields(f)
  <2>1. /\ kind[t.job].trigger \in {"one_shot", "interval"} \cup Comparators
        /\ kind[t.job].trigger \in Comparators => t.ev \in Observation
    BY <1>1 DEF TickSound, Kinds
  <2> QED
    BY <2>1, <1>1, QueuedPatched
<1> HIDE DEF q
<1>6. CASE t.job = j
  <2>1. /\ {"status", "next", "count", "pinned"} \subseteq DOMAIN f
        /\ f["count"] = t.n /\ f["pinned"] = t.n
        /\ f["status"] \in {"completed", "active"}
        /\ f["status"] = "active" => f["next"] = "future"
    <3> DEFINE done == kind[j].trigger = "one_shot" \/ Finished(j, t.n)
               next == IF done THEN "null"
                       ELSE IF kind[j].trigger = "interval" THEN "future" ELSE t.ev.next
               g == [status |-> IF done THEN "completed" ELSE "active",
                     next |-> next, count |-> t.n, pinned |-> t.n]
    <3>1. ~done => next = "future"
      BY <1>1 DEF Scheduled, Kinds
    <3>2. f = Spread(t.ev, g)
      BY <1>6 DEF QueuedPatch
    <3> HIDE DEF done, next
    <3>3. /\ DOMAIN g = {"status", "next", "count", "pinned"}
          /\ g["count"] = t.n /\ g["pinned"] = t.n
          /\ g["status"] = (IF done THEN "completed" ELSE "active") /\ g["next"] = next
      OBVIOUS
    <3> HIDE DEF g, f
    <3>4. DOMAIN g \subseteq DOMAIN f /\ \A x \in DOMAIN g : f[x] = g[x]
      BY <3>2 DEF Spread
    <3> QED
      BY <3>1, <3>3, <3>4
  <2> HIDE DEF f
  <2>2. Holding(r, j) /\ HeldBy(r, j)
    BY <1>1, <1>6 DEF Holding, CrewSound
  <2>3. t.n = row[j].count /\ row[j].pinned = row[j].count
    BY <2>2, <1>1 DEF HeldBy, CrewSound, RowSound
  <2>4. /\ row'[j].status \in {"completed", "active"}
        /\ row'[j].status = "active" => row'[j].next = "future"
        /\ row'[j].count = row[j].count /\ row'[j].pinned = row[j].pinned
    BY <2>1, <2>3, <1>1, <1>2, <1>5, <1>6, PatchedRow
  <2>5. ~Claimable(j)'
    BY <2>4 DEF Claimable
  <2>6. /\ Away(tick[r], tick'[r], j)
        /\ \A p \in crew.relayers \ {r} : tick'[p] = tick[p]
    <3> DEFINE u == Continue(t, q)
    <3> HIDE DEF u
    <3>1. tick' = [tick EXCEPT ![r] = u] /\ Away(tick[r], u, j)
      BY <1>2, <1>4 DEF u
    <3> QED
      BY <3>1, OneTick
  <2>7. row'[j].status # "absent" /\ row'[j].status # "processing"
    BY <2>4
  <2> QED
    BY <2>2, <2>4, <2>5, <2>6, <2>7, <1>3, ReleasedKeeps
<1>7. CASE t.job # j
  <2>1. row'[j] = row[j] /\ ~Holding(r, j)
    BY <1>1, <1>2, <1>5, <1>7, PatchedTyped DEF Holding
  <2> QED
    BY <2>1, <1>2, <1>3, <1>4, OtherWork
<1> QED
  BY <1>6, <1>7

LEMMA FailCrew ==
  ASSUME AutomationAssumption, AutoInv, TableAnswers, NEW j \in Jobs, Scheduled(j),
         CrewSound(j), NEW r \in crew.relayers, Fail(r)
  PROVE  CrewSound(j)'
<1> DEFINE t == tick[r]
           f == FailurePatch(t)
<1>1. /\ t.pc = "failed" /\ t \in Tick /\ t.job \in Jobs /\ row \in [Jobs -> Row]
      /\ t.queued \in Nat
  BY Stands DEF Fail, Tick, TickSound
<1>2. /\ row' = Patched(t.job, f) /\ tick' = [tick EXCEPT ![r] = Continue(t, t.queued)]
      /\ UNCHANGED <<crew, kind, seen, requests, forgot>>
  BY NoTableFault DEF Fail, fixed
<1>3. Silent(j)
  BY <1>2, SilentBy
<1>4. Away(t, Continue(t, t.queued), j)
  BY <1>1, ContinueAway
<1>5. Fields(f)
  BY FailurePatched
<1>6. CASE t.job = j
  <2>1. Holding(r, j) /\ HeldBy(r, j)
    BY <1>1, <1>6 DEF Holding, CrewSound
  <2>2. t.inflight /\ \A n \in Nat : n = row[j].count => Known(j, n)
    BY <2>1, <1>1 DEF HeldBy
  <2>3. /\ "status" \in DOMAIN f /\ f["status"] \in {"error", "processing"}
        /\ "count" \notin DOMAIN f /\ "pinned" \notin DOMAIN f
    BY <2>2 DEF FailurePatch
  <2> HIDE DEF f
  <2>4. /\ row'[j].status \in {"error", "processing"} /\ row'[j].stale = FALSE
        /\ row'[j].count = row[j].count /\ row'[j].pinned = row[j].pinned
    BY <2>3, <1>1, <1>2, <1>5, <1>6, PatchedRow
  <2>5. ~Claimable(j)'
    BY <2>4 DEF Claimable
  <2>6. \A n \in Nat : n = row[j].count => Known(j, n)'
    BY <2>2, <1>3 DEF Known, Silent
  <2>7. /\ Away(tick[r], tick'[r], j)
        /\ \A q \in crew.relayers \ {r} : tick'[q] = tick[q]
    <3> DEFINE u == Continue(t, t.queued)
    <3> HIDE DEF u
    <3>1. tick' = [tick EXCEPT ![r] = u] /\ Away(tick[r], u, j)
      BY <1>2, <1>4 DEF u
    <3> QED
      BY <3>1, OneTick
  <2>8. row'[j].status # "absent" /\ row'[j].status # "active"
    BY <2>4
  <2> QED
    BY <2>1, <2>4, <2>5, <2>6, <2>7, <2>8, <1>3, ReleasedKeeps
<1>7. CASE t.job # j
  <2>1. row'[j] = row[j] /\ ~Holding(r, j)
    BY <1>1, <1>2, <1>5, <1>7, PatchedTyped DEF Holding
  <2> QED
    BY <2>1, <1>2, <1>3, <1>4, OtherWork
<1> QED
  BY <1>6, <1>7

\* The holder goes on to its next step.
LEMMA ProgressKeeps ==
  ASSUME AutomationAssumption, AutoInv, NEW j \in Jobs, CrewSound(j), crew' = crew,
         row'[j] = row[j], NEW r \in crew.relayers, Holding(r, j), Holding(r, j)',
         NEW u, tick' = [tick EXCEPT ![r] = u], Carried(tick[r], u, j),
         RowSound(j)', SentOnce(j)',
         u.pc # "failed" => u.n = row[j].count, u.pc = "failed" => u.inflight,
         \A n \in Nat : n = row[j].count =>
            /\ u.pc \in {"record", "final"} => Under(r, j, n)'
            /\ u.pc \in {"queue", "failed"} => Known(j, n)'
  PROVE  CrewSound(j)'
<1>1. /\ tick'[r] = u /\ HeldBy(r, j)
      /\ \A q \in crew.relayers \ {r} : tick'[q] = tick[q]
      /\ \A q \in crew.relayers \ {r} : SameTick(tick[q], tick'[q])
  BY OneTick DEF CrewSound
<1>2. Claimable(j)' <=> Claimable(j)
  BY DEF Claimable
<1>3. \A q \in crew.relayers : Holding(q, j)' => q = r
  BY <1>1 DEF Holding, HeldBy
<1>4. HeldBy(r, j)'
  BY <1>1, <1>2, <1>3 DEF HeldBy
<1>5. OrphanSound(j)'
  BY DEF OrphanSound
<1>6. \A q \in crew.relayers : Carried(tick[q], tick'[q], j) /\ StaysFetched(j, tick'[q])
  BY <1>1, <1>2, SameCarried DEF StaysFetched
<1>7. ASSUME NEW q \in crew.relayers
      PROVE  /\ j \in DOMAIN tick'[q].snap => SnapSound(q, j)'
             /\ tick'[q].job = j => TurnSound(q, j)'
  <2>1. j \in DOMAIN tick'[q].snap => SnapSound(q, j)'
    BY <1>6, SnapKeeps DEF CrewSound
  <2>2. tick'[q].job = j => TurnSound(q, j)'
    <3>1. CASE q = r
      BY <3>1 DEF Holding, TurnSound
    <3>2. CASE q # r
      BY <3>2, <1>1, TurnKeeps DEF CrewSound
    <3> QED
      BY <3>1, <3>2
  <2> QED
    BY <2>1, <2>2
<1> QED
  BY <1>3, <1>4, <1>5, <1>7 DEF CrewSound

LEMMA RecordRunCrew ==
  ASSUME AutomationAssumption, AutoInv, TableAnswers, NEW j \in Jobs, Scheduled(j),
         CrewSound(j), NEW r \in crew.relayers, RecordRun(r)
  PROVE  CrewSound(j)'
<1> DEFINE t == tick[r]
           u == [t EXCEPT !.pc = "final"]
<1>1. t.pc = "record" /\ t \in Tick /\ t.job \in Jobs /\ r \in Relayers
      /\ tick \in [Relayers -> Tick]
  BY Stands DEF RecordRun, TickSound
<1>2. /\ tick' = [tick EXCEPT ![r] = u] /\ row' = row
      /\ UNCHANGED <<crew, kind, seen, requests, forgot>>
  BY NoTableFault DEF RecordRun, fixed
<1>3. Silent(j)
  BY <1>2, SilentBy
<1>4. u.snap = t.snap /\ u.late = t.late /\ u.job = t.job /\ u.pc = "final" /\ u.n = t.n
  BY <1>1 DEF Tick
<1> HIDE DEF u
<1>5. tick'[r] = u
  BY <1>1, <1>2
<1>6. CASE t.job = j
  <2>1. Holding(r, j) /\ HeldBy(r, j) /\ Holding(r, j)'
    BY <1>1, <1>4, <1>5, <1>6 DEF Holding, CrewSound
  <2>2. RowSound(j)' /\ SentOnce(j)'
    BY <1>2, <1>3, SentKeeps DEF CrewSound, RowSound, Silent
  <2>3. \A n \in Nat : n = row[j].count => Under(r, j, n)'
    BY <2>1, <1>1, <1>2, <1>3 DEF HeldBy, Under, Silent
  <2>4. Carried(t, u, j) /\ u.n = row[j].count
    BY <2>1, <1>1, <1>4 DEF Carried, HeldBy
  <2> QED
    BY <2>1, <2>2, <2>3, <2>4, <1>2, <1>4, ProgressKeeps
<1>7. CASE t.job # j
  BY <1>1, <1>2, <1>3, <1>4, <1>7, OtherJobAway, OtherWork DEF Holding
<1> QED
  BY <1>6, <1>7

\* What queueing does: the tick goes on with a reservation or the loss on
\* record, or fails with what it may have sent known.
LEMMA QueueEffects ==
  ASSUME AutomationAssumption, AutoInv, NEW r \in crew.relayers, Queue(r)
  PROVE  LET t == tick[r]
             id == <<t.job, t.n>>
         IN \E u :
              /\ tick' = [tick EXCEPT ![r] = u]
              /\ u.snap = t.snap /\ u.late = t.late /\ u.job = t.job
              /\ \/ u.pc = "record" /\ u.n = t.n /\ id \in seen'[r] \cup forgot'
                 \/ /\ u.pc = "failed" /\ u.inflight
                    /\ requests' = requests \/ id \in forgot'
              /\ requests' = requests \/ requests' = Append(requests, Sent(t))
              /\ forgot \subseteq forgot'
              /\ \A q \in crew.relayers : seen[q] \subseteq seen'[q]
<1> DEFINE t == tick[r]
           id == <<t.job, t.n>>
           go(tx) == [t EXCEPT !.pc = "record", !.tx = tx]
<1>1. t \in Tick /\ r \in Relayers /\ seen \in [Relayers -> SUBSET (Jobs \X Nat)]
      /\ crew.relayers \subseteq Relayers
  BY Stands, CrewTyped DEF AutoInv, AutoTypes
<1>2. /\ requests' = requests \/ requests' = Append(requests, Sent(t))
      /\ forgot \subseteq forgot'
      /\ \A q \in crew.relayers : seen[q] \subseteq seen'[q]
  BY <1>1 DEF Queue
<1>3. \A tx : /\ go(tx).snap = t.snap /\ go(tx).late = t.late /\ go(tx).job = t.job
              /\ go(tx).pc = "record" /\ go(tx).n = t.n
  BY <1>1 DEF Tick
<1>4. \A b \in BOOLEAN :
         LET v == Failed(t, TRUE, b) IN
         v.snap = t.snap /\ v.late = t.late /\ v.job = t.job /\ v.pc = "failed" /\ v.inflight
  BY <1>1 DEF Failed, Tick
<1>5. \/ \E tx : tick' = [tick EXCEPT ![r] = go(tx)] /\ id \in seen'[r] \cup forgot'
      \/ \E b \in BOOLEAN : /\ tick' = [tick EXCEPT ![r] = Failed(t, TRUE, b)]
                            /\ requests' = requests \/ id \in forgot'
  BY <1>1 DEF Queue
<1> HIDE DEF go
<1> QED
  BY <1>2, <1>3, <1>4, <1>5

LEMMA QueueCrew ==
  ASSUME AutomationAssumption, AutoInv, TableAnswers, NEW j \in Jobs, Scheduled(j),
         CrewSound(j), NEW r \in crew.relayers, Queue(r)
  PROVE  CrewSound(j)'
<1> DEFINE t == tick[r]
           id == <<t.job, t.n>>
<1>1. /\ t.pc = "queue" /\ t \in Tick /\ t.job \in Jobs /\ r \in Relayers
      /\ tick \in [Relayers -> Tick] /\ t.n \in Nat \ {0} /\ Within(t.job, t.n)
      /\ UNCHANGED <<crew, kind, row>>
  BY Stands DEF Queue, TickSound, Tick, fixed
<1>2. PICK u :
        /\ tick' = [tick EXCEPT ![r] = u]
        /\ u.snap = t.snap /\ u.late = t.late /\ u.job = t.job
        /\ \/ u.pc = "record" /\ u.n = t.n /\ id \in seen'[r] \cup forgot'
           \/ /\ u.pc = "failed" /\ u.inflight
              /\ requests' = requests \/ id \in forgot'
        /\ requests' = requests \/ requests' = Append(requests, Sent(t))
        /\ forgot \subseteq forgot'
        /\ \A q \in crew.relayers : seen[q] \subseteq seen'[q]
  BY QueueEffects
<1>3. \A n \in Nat : /\ <<j, n>> # id => Txs(j, n)' = Txs(j, n)
                     /\ requests' = requests => Txs(j, n)' = Txs(j, n)
                     /\ \E x : Txs(j, n)' \subseteq Txs(j, n) \cup {x}
  <2>1. CASE requests' = requests
    BY <2>1 DEF Txs
  <2>2. CASE requests' = Append(requests, Sent(t))
    <3>1. \A n \in Nat : /\ <<j, n>> # id => Txs(j, n)' = Txs(j, n)
                         /\ Txs(j, n)' \subseteq Txs(j, n) \cup {Len(requests) + 1}
      BY <2>2, <1>1, Landed
    <3>2. requests' = requests => \A n \in Nat : Txs(j, n)' = Txs(j, n)
      BY DEF Txs
    <3> QED
      BY <3>1, <3>2
  <2> QED
    BY <2>1, <2>2, <1>2
<1>4. tick'[r] = u
  BY <1>1, <1>2
<1>5. CASE t.job = j
  <2>1. Holding(r, j) /\ HeldBy(r, j) /\ Holding(r, j)'
    BY <1>1, <1>2, <1>4, <1>5 DEF Holding, CrewSound
  <2>2. t.n = row[j].count /\ Known(j, t.n) /\ id = <<j, t.n>>
    BY <2>1, <1>1, <1>5 DEF HeldBy
  <2>3. RowSound(j)'
    <3>1. \A n \in Nat : Txs(j, n)' # {} => n <= row[j].count
      <4> SUFFICES ASSUME NEW n \in Nat, Txs(j, n)' # {} PROVE n <= row[j].count
        OBVIOUS
      <4>1. CASE n = t.n
        BY <4>1, <2>2, <1>1
      <4>2. CASE n # t.n
        BY <4>2, <2>2, <1>3 DEF CrewSound, RowSound
      <4> QED
        BY <4>1, <4>2
    <3> QED
      BY <3>1, <1>1 DEF CrewSound, RowSound
  <2>4. SentOnce(j)'
    <3> SUFFICES ASSUME NEW n \in Nat, NEW x \in Txs(j, n)', NEW y \in Txs(j, n)',
                        x # y
                 PROVE  <<j, n>> \in forgot'
      BY DEF SentOnce
    <3>1. CASE Txs(j, n)' = Txs(j, n)
      BY <3>1, <1>2 DEF CrewSound, SentOnce
    <3>2. CASE Txs(j, n)' # Txs(j, n)
      <4>1. n = t.n
        BY <3>2, <2>2, <1>3
      <4>2. Txs(j, n) # {}
        BY <1>3
      <4> QED
        BY <4>1, <4>2, <2>2, <1>2 DEF Known
    <3> QED
      BY <3>1, <3>2
  <2>5. \A n \in Nat : n = row[j].count =>
            /\ u.pc \in {"record", "final"} => Under(r, j, n)'
            /\ u.pc \in {"queue", "failed"} => Known(j, n)'
    <3> SUFFICES ASSUME NEW n \in Nat, n = row[j].count
                 PROVE  /\ u.pc = "record" => Under(r, j, n)'
                        /\ u.pc = "failed" => Known(j, n)'
      BY <1>2
    <3>1. id = <<j, n>> /\ Known(j, n)
      BY <2>2
    <3>2. u.pc = "record" => Under(r, j, n)'
      BY <3>1, <1>2 DEF Under
    <3>3. u.pc = "failed" => Known(j, n)'
      BY <3>1, <1>2, <1>3 DEF Known
    <3> QED
      BY <3>2, <3>3
  <2>6. Carried(t, u, j)
    BY <1>1, <1>2 DEF Carried
  <2> QED
    BY <2>1, <2>2, <2>3, <2>4, <2>5, <2>6, <1>1, <1>2, ProgressKeeps
<1>6. CASE t.job # j
  <2>1. Silent(j)
    BY <1>1, <1>2, <1>3, <1>6 DEF Silent
  <2>2. Away(t, u, j)
    BY <1>1, <1>2, <1>6, OtherJobAway
  <2> QED
    BY <2>1, <2>2, <1>1, <1>2, <1>6, OtherWork DEF Holding
<1> QED
  BY <1>5, <1>6

\* A claim that matches takes up the next execution, or the one at hand.
LEMMA ClaimTakes ==
  ASSUME NEW j \in Jobs, row \in [Jobs -> Row], CrewSound(j), NEW r \in crew.relayers,
         tick[r].pc = "claim", tick[r].job = j, tick[r].snap[j] \in Row,
         ClaimMatches(j, tick[r])
  PROVE  /\ \A q \in crew.relayers : ~Holding(q, j)
         /\ tick[r].n \in Nat /\ tick[r].n > 0
         /\ \/ tick[r].advance /\ tick[r].n = row[j].count + 1
            \/ /\ ~tick[r].advance /\ tick[r].n = row[j].count
               /\ row[j].status = "processing"
<1> DEFINE s == tick[r].snap[j]
<1>1. Claimable(j) /\ j \notin tick[r].late
  BY DEF ClaimMatches, CrewSound, RowSound
<1>2. SnapSound(r, j) /\ TurnSound(r, j)
  BY DEF CrewSound, TurnSound
<1>3. row[j].status = s.status /\ row[j].count = s.count
  BY <1>1, <1>2 DEF SnapSound
<1>4. \A q \in crew.relayers : ~Holding(q, j)
  BY <1>1 DEF CrewSound, HeldBy
<1>5. s.count \in Nat /\ row[j].count \in Nat
  BY DEF Row
<1>6. /\ tick[r].n = ResolveDispatch(s).n /\ tick[r].advance = ResolveDispatch(s).advance
      /\ s.status = "processing" => s.count > 0 /\ s.pinned = s.count
  BY <1>2 DEF SnapSound, TurnSound
<1> HIDE DEF s
<1> QED
  BY <1>3, <1>4, <1>5, <1>6 DEF ResolveDispatch

LEMMA SnapTyped ==
  ASSUME NEW t \in Tick, NEW j \in DOMAIN t.snap
  PROVE  t.snap[j] \in Row
<1>1. PICK S \in SUBSET Jobs : t.snap \in [S -> Row]
  BY DEF Tick, Fetched
<1> QED
  BY <1>1

\* What a claim writes.
LEMMA ClaimedRow ==
  ASSUME row \in [Jobs -> Row], NEW t \in Tick, NEW j \in Jobs
  PROVE  LET p == Claimed(j, t)[j] IN
         /\ p.status = "processing" /\ p.stale = FALSE
         /\ p.count = (IF t.advance THEN t.n ELSE row[j].count)
         /\ p.pinned = (IF t.advance THEN t.n ELSE row[j].pinned)
<1> DEFINE f == [status |-> "processing", count |-> t.n, pinned |-> t.n]
           g == [status |-> "processing"]
<1>1. t.n \in Nat
  BY DEF Tick
<1>2. Fields(f) /\ Fields(g)
  BY <1>1 DEF Fields, Statuses
<1>3. /\ DOMAIN f = {"status", "count", "pinned"} /\ DOMAIN g = {"status"}
      /\ f["status"] = "processing" /\ f["count"] = t.n /\ f["pinned"] = t.n
      /\ g["status"] = "processing"
  OBVIOUS
<1>4. Claimed(j, t) = IF t.advance THEN Patched(j, f) ELSE Patched(j, g)
  BY DEF Claimed
<1> HIDE DEF f, g
<1>5. CASE t.advance
  <2>1. Claimed(j, t) = Patched(j, f)
    BY <1>4, <1>5
  <2>2. "status" \in DOMAIN f /\ "count" \in DOMAIN f /\ "pinned" \in DOMAIN f
    BY <1>3
  <2> DEFINE p == Patched(j, f)[j]
  <2>3. /\ p.stale = FALSE /\ p.status = f["status"] /\ p.count = f["count"]
        /\ p.pinned = f["pinned"]
    BY <2>2, <1>2, PatchedRow
  <2> HIDE DEF p
  <2>4. Claimed(j, t)[j] = p
    BY <2>1 DEF p
  <2> QED
    BY <2>3, <2>4, <1>3, <1>5
<1>6. CASE ~t.advance
  <2>1. Claimed(j, t) = Patched(j, g)
    BY <1>4, <1>6
  <2>2. "status" \in DOMAIN g /\ "count" \notin DOMAIN g /\ "pinned" \notin DOMAIN g
    BY <1>3
  <2> QED
    BY <2>1, <2>2, <1>2, <1>3, <1>6, PatchedRow
<1> QED
  BY <1>5, <1>6

LEMMA ClaimCrew ==
  ASSUME AutomationAssumption, AutoInv, TableAnswers, NEW j \in Jobs, Scheduled(j),
         CrewSound(j), NEW r \in crew.relayers, Claim(r)
  PROVE  CrewSound(j)'
<1> DEFINE t == tick[r]
           u == [t EXCEPT !.pc = "queue", !.advance = FALSE]
<1>1. /\ t.pc = "claim" /\ t \in Tick /\ t.job \in Jobs /\ r \in Relayers
      /\ tick \in [Relayers -> Tick] /\ row \in [Jobs -> Row] /\ t.queued \in Nat
      /\ UNCHANGED <<crew, kind, seen, requests, forgot>>
  BY Stands DEF Claim, TickSound, Tick, fixed
<1>2. Silent(j)
  BY <1>1, SilentBy
<1>3. Away(t, Continue(t, t.queued), j)
  BY <1>1, ContinueAway
<1>4. u.snap = t.snap /\ u.late = t.late /\ u.job = t.job /\ u.pc = "queue" /\ u.n = t.n
  BY <1>1 DEF Tick
<1>5. \/ /\ ClaimMatches(t.job, t) /\ row' = Claimed(t.job, t)
         /\ tick' = [tick EXCEPT ![r] = u]
      \/ row' = row /\ tick' = [tick EXCEPT ![r] = Continue(t, t.queued)]
  BY NoTableFault DEF Claim
<1>6. ~Holding(r, j)
  BY <1>1 DEF Holding
<1> HIDE DEF u
<1>7. CASE row' = row /\ tick' = [tick EXCEPT ![r] = Continue(t, t.queued)]
  <2> DEFINE v == Continue(t, t.queued)
  <2>1. tick' = [tick EXCEPT ![r] = v] /\ Away(tick[r], v, j)
    BY <1>3, <1>7
  <2> HIDE DEF v
  <2>2. row'[j] = row[j]
    BY <1>7
  <2> QED
    BY <2>1, <2>2, <1>2, <1>6, OtherWork
<1>8. CASE /\ ClaimMatches(t.job, t) /\ row' = Claimed(t.job, t)
           /\ tick' = [tick EXCEPT ![r] = u] /\ t.job # j
  <2>1. row'[j] = row[j]
    BY <1>1, <1>8, ClaimedTyped
  <2>2. Away(t, u, j)
    BY <1>1, <1>4, <1>8, OtherJobAway
  <2> QED
    BY <2>1, <2>2, <1>2, <1>6, <1>8, OtherWork
<1>9. CASE /\ ClaimMatches(t.job, t) /\ row' = Claimed(t.job, t)
           /\ tick' = [tick EXCEPT ![r] = u] /\ t.job = j
  <2>1. t.snap[j] \in Row
    BY <1>1, <1>9, SnapTyped DEF CrewSound, TurnSound
  <2>2. /\ \A q \in crew.relayers : ~Holding(q, j)
        /\ t.n \in Nat /\ t.n > 0
        /\ \/ t.advance /\ t.n = row[j].count + 1
           \/ ~t.advance /\ t.n = row[j].count /\ row[j].status = "processing"
    BY <2>1, <1>1, <1>9, ClaimTakes
  <2>3. row[j].pinned = row[j].count /\ row[j].count \in Nat
    BY <1>1 DEF CrewSound, RowSound, Row
  <2>4. /\ row'[j].status = "processing" /\ row'[j].stale = FALSE
        /\ row'[j].count = t.n /\ row'[j].pinned = t.n
    BY <2>2, <2>3, <1>1, <1>9, ClaimedRow
  <2>5. ~Claimable(j)'
    BY <2>4 DEF Claimable
  <2>6. /\ tick'[r] = u
        /\ \A q \in crew.relayers \ {r} : tick'[q] = tick[q]
        /\ \A q \in crew.relayers \ {r} : SameTick(tick[q], tick'[q])
    BY <1>9, OneTick
  <2>7. \A q \in crew.relayers : Holding(q, j)' => q = r
    BY <2>2, <2>6 DEF Holding
  <2>8. Holding(r, j)'
    BY <2>6, <1>4, <1>9 DEF Holding
  <2>9. row[j].count <= t.n
    BY <2>2, <2>3
  <2>10. RowSound(j)'
    <3>1. \A n \in Nat : Txs(j, n)' # {} => n <= t.n
      BY <2>2, <2>3, <2>9, <1>2 DEF CrewSound, RowSound, Silent
    <3> QED
      BY <3>1, <2>2, <2>4 DEF RowSound
  <2>11. SentOnce(j)' /\ OrphanSound(j)'
    BY <2>8, <1>1, <1>2, SentKeeps DEF CrewSound, OrphanSound
  <2>12. ASSUME NEW n \in Nat, n = t.n PROVE Known(j, n)'
    <3>1. CASE t.advance
      <4>1. Txs(j, n) = {}
        BY <3>1, <2>2, <2>3, <2>12 DEF CrewSound, RowSound
      <4> QED
        BY <4>1, <1>2 DEF Known, Silent
    <3>2. CASE ~t.advance
      <4>1. Known(j, n)
        BY <3>2, <2>2, <2>12 DEF CrewSound, OrphanSound
      <4> QED
        BY <4>1, <1>2 DEF Known, Silent
    <3> QED
      BY <3>1, <3>2
  <2>13. HeldBy(r, j)'
    <3>1. \A n \in Nat : n = row'[j].count => Known(j, n)'
      BY <2>4, <2>12
    <3> QED
      BY <3>1, <2>2, <2>4, <2>5, <2>6, <2>7, <1>1, <1>4 DEF HeldBy
  <2>14. ASSUME NEW q \in crew.relayers
         PROVE  /\ j \in DOMAIN tick'[q].snap => SnapSound(q, j)'
                /\ tick'[q].job = j => TurnSound(q, j)'
    <3>1. Carried(tick[q], tick'[q], j)
      <4>1. Carried(t, u, j)
        BY <1>1, <1>4 DEF Carried
      <4> QED
        BY <4>1, <2>6, SameCarried
    <3>2. j \in DOMAIN tick'[q].snap => SnapSound(q, j)'
      BY <3>1, <2>4, <2>5, OutOfReach, SnapKeeps DEF CrewSound
    <3>3. tick'[q].job = j => TurnSound(q, j)'
      <4>1. CASE q = r
        BY <4>1, <2>6, <1>4 DEF TurnSound
      <4>2. CASE q # r
        BY <4>2, <2>6, TurnKeeps DEF CrewSound
      <4> QED
        BY <4>1, <4>2
    <3> QED
      BY <3>2, <3>3
  <2> QED
    BY <2>7, <2>10, <2>11, <2>13, <2>14, <1>1 DEF CrewSound
<1> QED
  BY <1>5, <1>7, <1>8, <1>9

\* Relayer r takes up job j, or fetches it, without a claim.
LEMMA TurnTaken ==
  ASSUME AutomationAssumption, AutoInv, NEW j \in Jobs, CrewSound(j), Silent(j),
         row'[j] = row[j], NEW r \in crew.relayers, ~Holding(r, j), NEW u,
         tick' = [tick EXCEPT ![r] = u],
         u.pc \notin {"queue", "record", "final", "failed"},
         j \in DOMAIN u.snap => SnapSound(r, j)', u.job = j => TurnSound(r, j)'
  PROVE  CrewSound(j)'
<1>1. /\ tick'[r] = u
      /\ \A q \in crew.relayers \ {r} : tick'[q] = tick[q]
      /\ \A q \in crew.relayers \ {r} : SameTick(tick[q], tick'[q])
  BY OneTick
<1>2. Claimable(j)' <=> Claimable(j)
  BY DEF Claimable
<1>3. crew' = crew
  BY DEF Silent
<1>4. \A q \in crew.relayers : Holding(q, j)' <=> Holding(q, j)
  BY <1>1 DEF Holding
<1>5. RowSound(j)' /\ SentOnce(j)'
  BY SentKeeps DEF CrewSound, RowSound, Silent
<1>6. OrphanSound(j)'
  BY <1>3, <1>4 DEF CrewSound, OrphanSound, Silent, Known
<1>7. ASSUME NEW q \in crew.relayers
      PROVE  /\ Holding(q, j)' => HeldBy(q, j)'
             /\ j \in DOMAIN tick'[q].snap => SnapSound(q, j)'
             /\ tick'[q].job = j => TurnSound(q, j)'
  <2>1. CASE q = r
    BY <2>1, <1>1, <1>4
  <2>2. CASE q # r
    <3>1. Holding(q, j)' => HeldBy(q, j)'
      <4> SUFFICES ASSUME Holding(q, j)' PROVE HeldBy(q, j)'
        OBVIOUS
      <4>1. HeldBy(q, j)
        BY <1>4 DEF CrewSound
      <4> QED
        BY <4>1, <2>2, <1>1, <1>2, <1>4, HolderKeeps DEF HeldBy
    <3>2. StaysFetched(j, tick'[q]) /\ Carried(tick[q], tick'[q], j)
      BY <2>2, <1>1, <1>2, SameCarried DEF StaysFetched
    <3>3. j \in DOMAIN tick'[q].snap => SnapSound(q, j)'
      BY <3>2, SnapKeeps DEF CrewSound
    <3>4. tick'[q].job = j => TurnSound(q, j)'
      BY <2>2, <1>1, TurnKeeps DEF CrewSound
    <3> QED
      BY <3>1, <3>3, <3>4
  <2> QED
    BY <2>1, <2>2
<1> QED
  BY <1>3, <1>5, <1>6, <1>7 DEF CrewSound

\* A scheduled job that evaluation wants patched is not due.
LEMMA EvaluationScheduled ==
  ASSUME kind \in [Jobs -> Kinds], NEW j \in Jobs, Scheduled(j), NEW s \in Row,
         NEW started \in BOOLEAN
  PROVE  LET e == Evaluation(j, s, started) IN
         \/ e.patch = <<>>
         \/ /\ e.due = FALSE
            /\ e.patch \in {[status |-> "completed", next |-> "null"], [status |-> "error"]}
<1>1. kind[j].trigger \in {"one_shot", "interval"}
  BY DEF Scheduled, Kinds
<1>2. CASE Finished(j, s.count)
  BY <1>2 DEF Evaluation
<1>3. CASE ~Finished(j, s.count) /\ kind[j].trigger = "one_shot" /\ s.next = "null"
  BY <1>3 DEF Evaluation
<1>4. CASE ~Finished(j, s.count) /\ ~(kind[j].trigger = "one_shot" /\ s.next = "null")
  BY <1>1, <1>4 DEF Evaluation
<1> QED
  BY <1>2, <1>3, <1>4

\* What evaluating job i makes of a tick t.
Turned(t, i, started, p) ==
    LET e == Evaluation(i, t.snap[i], started)
        d == ResolveDispatch(t.snap[i])
    IN [t EXCEPT !.job = i, !.ev = e.patch, !.n = IF e.due THEN d.n ELSE 0,
                 !.advance = e.due /\ d.advance, !.pc = p]

LEMMA EvaluateEffects ==
  ASSUME AutomationAssumption, AutoInv, NEW r \in crew.relayers, NEW i \in Jobs,
         Evaluate(r, i)
  PROVE  LET t == tick[r] IN
         \E u :
           /\ tick' = [tick EXCEPT ![r] = u]
           /\ \/ /\ u.pc = "failed" /\ u.job = i /\ u.snap = t.snap /\ u.late = t.late
                 /\ kind[i].trigger \in Comparators
              \/ \A j : Away(t, u, j)
              \/ \E started \in BOOLEAN, p \in {"patch", "claim"} :
                    LET e == Evaluation(i, t.snap[i], started) IN
                    /\ u = Turned(t, i, started, p)
                    /\ p = "patch" <=> e.patch # <<>>
                    /\ p = "claim" => e.due
<1> DEFINE t == tick[r]
           d == ResolveDispatch(t.snap[i])
           e(started) == Evaluation(i, t.snap[i], started)
           next(started) == [t EXCEPT !.job = i, !.ev = e(started).patch,
                                      !.n = IF e(started).due THEN d.n ELSE 0,
                                      !.advance = e(started).due /\ d.advance]
<1>1. /\ t.pc = "scan" /\ t \in Tick /\ i \in DOMAIN t.snap /\ t.queued \in Nat
      /\ price \in Nat /\ kind \in [Jobs -> Kinds]
  BY Stands DEF Evaluate, Tick
<1>2. CASE /\ kind[i].trigger \in Comparators
           /\ tick' = [tick EXCEPT ![r] = Failed([t EXCEPT !.job = i], FALSE, FALSE)]
  <2> DEFINE u == Failed([t EXCEPT !.job = i], FALSE, FALSE)
  <2>1. u.pc = "failed" /\ u.job = i /\ u.snap = t.snap /\ u.late = t.late
    BY <1>1 DEF Failed, Tick
  <2> HIDE DEF u
  <2> QED
    BY <2>1, <1>2 DEF u
<1>3. ASSUME NEW started \in BOOLEAN,
             tick' = [tick EXCEPT ![r] =
                IF e(started).patch # <<>> THEN [next(started) EXCEPT !.pc = "patch"]
                ELSE IF e(started).due THEN [next(started) EXCEPT !.pc = "claim"]
                ELSE Continue(next(started), t.queued)]
      PROVE  \E u :
               /\ tick' = [tick EXCEPT ![r] = u]
               /\ \/ \A j : Away(t, u, j)
                  \/ \E p \in {"patch", "claim"} :
                       /\ u = Turned(t, i, started, p)
                       /\ p = "patch" <=> e(started).patch # <<>>
                       /\ p = "claim" => e(started).due
  <2>1. \A p \in {"patch", "claim"} :
           [next(started) EXCEPT !.pc = p] = Turned(t, i, started, p)
    BY <1>1 DEF Turned, Tick
  <2>2. t.snap[i] \in Row
    BY <1>1, SnapTyped
  <2>3. e(started).patch \in EvaluationPatch /\ d.n \in Nat /\ d.advance \in BOOLEAN
    BY <2>2, <1>1, EvaluationSound
  <2> DEFINE f == e(started)
             v == next(started)
  <2>4. /\ v \in Tick /\ v.snap = t.snap /\ v.late = t.late /\ v.pc = t.pc
    <3> HIDE DEF e, d
    <3> QED
      BY <2>3, <1>1 DEF Tick
  <2>5. \A j : Away(t, Continue(v, t.queued), j)
    <3> SUFFICES ASSUME NEW j PROVE Away(t, Continue(v, t.queued), j)
      OBVIOUS
    <3> HIDE DEF v
    <3>1. Away(v, Continue(v, t.queued), j)
      BY <2>4, <1>1, ContinueAway
    <3> QED
      BY <3>1, <2>4 DEF Away, Carried
  <2>6. CASE f.patch # <<>>
    BY <2>1, <2>6, <1>3
  <2>7. CASE f.patch = <<>> /\ f.due
    BY <2>1, <2>7, <1>3
  <2>8. CASE f.patch = <<>> /\ ~f.due
    BY <2>5, <2>8, <1>3
  <2> QED
    BY <2>6, <2>7, <2>8
<1>4. \/ /\ kind[i].trigger \in Comparators
         /\ tick' = [tick EXCEPT ![r] = Failed([t EXCEPT !.job = i], FALSE, FALSE)]
      \/ \E started \in BOOLEAN :
           tick' = [tick EXCEPT ![r] =
              IF e(started).patch # <<>> THEN [next(started) EXCEPT !.pc = "patch"]
              ELSE IF e(started).due THEN [next(started) EXCEPT !.pc = "claim"]
              ELSE Continue(next(started), t.queued)]
  BY DEF Evaluate
<1> HIDE DEF e, next, d
<1>5. CASE \E started \in BOOLEAN :
             tick' = [tick EXCEPT ![r] =
                IF e(started).patch # <<>> THEN [next(started) EXCEPT !.pc = "patch"]
                ELSE IF e(started).due THEN [next(started) EXCEPT !.pc = "claim"]
                ELSE Continue(next(started), t.queued)]
  BY <1>3, <1>5 DEF e
<1> QED
  BY <1>2, <1>4, <1>5

LEMMA EvaluateCrew ==
  ASSUME AutomationAssumption, AutoInv, TableAnswers, NEW j \in Jobs, Scheduled(j),
         CrewSound(j), NEW r \in crew.relayers, NEW i \in Jobs, Evaluate(r, i)
  PROVE  CrewSound(j)'
<1> DEFINE t == tick[r]
<1>1. /\ t.pc = "scan" /\ t \in Tick /\ i \in DOMAIN t.snap /\ t.snap[i] \in Row
      /\ kind \in [Jobs -> Kinds] /\ row' = row
      /\ UNCHANGED <<crew, kind, seen, requests, forgot>>
  BY Stands, SnapTyped DEF Evaluate, fixed
<1>2. Silent(j) /\ ~Holding(r, j)
  BY <1>1, SilentBy DEF Holding
<1>3. PICK u :
        /\ tick' = [tick EXCEPT ![r] = u]
        /\ \/ /\ u.pc = "failed" /\ u.job = i /\ u.snap = t.snap /\ u.late = t.late
              /\ kind[i].trigger \in Comparators
           \/ \A k : Away(t, u, k)
           \/ \E started \in BOOLEAN, p \in {"patch", "claim"} :
                 LET e == Evaluation(i, t.snap[i], started) IN
                 /\ u = Turned(t, i, started, p)
                 /\ p = "patch" <=> e.patch # <<>>
                 /\ p = "claim" => e.due
  BY EvaluateEffects
<1>4. CASE /\ u.pc = "failed" /\ u.job = i /\ u.snap = t.snap /\ u.late = t.late
           /\ kind[i].trigger \in Comparators
  <2>1. i # j
    BY <1>4 DEF Scheduled
  <2>2. Away(t, u, j)
    BY <2>1, <1>1, <1>4, OtherJobAway
  <2> QED
    BY <2>2, <1>1, <1>2, <1>3, OtherWork
<1>5. CASE \A k : Away(t, u, k)
  BY <1>1, <1>2, <1>3, <1>5, OtherWork
<1>6. ASSUME NEW started \in BOOLEAN, NEW p \in {"patch", "claim"},
             u = Turned(t, i, started, p),
             p = "patch" <=> Evaluation(i, t.snap[i], started).patch # <<>>,
             p = "claim" => Evaluation(i, t.snap[i], started).due
      PROVE  CrewSound(j)'
  <2> DEFINE e == Evaluation(i, t.snap[i], started)
             d == ResolveDispatch(t.snap[i])
  <2>1. /\ u.snap = t.snap /\ u.late = t.late /\ u.job = i /\ u.pc = p
        /\ u.ev = e.patch /\ u.n = (IF e.due THEN d.n ELSE 0)
        /\ u.advance = (e.due /\ d.advance)
    <3> HIDE DEF e, d
    <3>1. u = [t EXCEPT !.job = i, !.ev = e.patch, !.n = IF e.due THEN d.n ELSE 0,
                        !.advance = e.due /\ d.advance, !.pc = p]
      BY <1>6 DEF Turned, e, d
    <3> QED
      BY <3>1, <1>1 DEF Tick
  <2>2. CASE i # j
    <3>1. Away(t, u, j)
      BY <2>1, <2>2, <1>1, OtherJobAway
    <3> QED
      BY <3>1, <1>1, <1>2, <1>3, OtherWork
  <2>3. CASE i = j
    <3>1. tick'[r] = u /\ Carried(t, u, j)
      <4>1. tick'[r] = u
        BY <1>3, OneTick
      <4>2. Carried(t, u, j)
        BY <2>1 DEF Carried
      <4> QED
        BY <4>1, <4>2
    <3>2. j \in DOMAIN u.snap => SnapSound(r, j)'
      <4>1. StaysFetched(j, u)
        BY <1>1 DEF StaysFetched, Claimable
      <4> QED
        BY <4>1, <3>1, SnapKeeps DEF CrewSound
    <3>3. \/ e.patch = <<>>
          \/ /\ e.due = FALSE
             /\ e.patch \in {[status |-> "completed", next |-> "null"], [status |-> "error"]}
      BY <2>3, <1>1, EvaluationScheduled
    <3>4. d.advance \in BOOLEAN
      BY DEF ResolveDispatch
    <3> HIDE DEF e
    <3>5. /\ p = "claim" => e.due
          /\ p = "patch" <=> e.patch # <<>>
      BY <1>6 DEF e
    <3>6. TurnSound(r, j)'
      <4>1. CASE p = "claim"
        <5>1. u.n = d.n /\ u.advance = d.advance /\ d = ResolveDispatch(u.snap[j])
          BY <4>1, <3>4, <3>5, <2>1, <2>3
        <5> HIDE DEF d
        <5> QED
          BY <5>1, <4>1, <3>1, <2>1, <2>3, <1>1 DEF TurnSound
      <4>2. CASE p = "patch"
        <5>1. u.n = 0 /\ u.ev = e.patch
          BY <4>2, <3>3, <3>5, <2>1
        <5> HIDE DEF d
        <5> QED
          BY <5>1, <4>2, <3>1, <3>3, <3>5, <2>1, <2>3, <1>1 DEF TurnSound
      <4> QED
        BY <4>1, <4>2
    <3> QED
      BY <3>2, <3>6, <2>1, <1>1, <1>2, <1>3, TurnTaken
  <2> QED
    BY <2>2, <2>3
<1> QED
  BY <1>3, <1>4, <1>5, <1>6

LEMMA FetchCrew ==
  ASSUME AutomationAssumption, AutoInv, TableAnswers, NEW j \in Jobs, Scheduled(j),
         CrewSound(j), NEW r \in crew.relayers, Fetch(r)
  PROVE  CrewSound(j)'
<1> DEFINE s == [i \in {i \in Jobs : Claimable(i)} |-> row[i]]
           u == [Idle EXCEPT !.pc = "scan", !.snap = s]
<1>1. /\ tick[r].pc = "idle" /\ tick' = [tick EXCEPT ![r] = u] /\ row' = row
      /\ UNCHANGED <<crew, kind, seen, requests, forgot>>
  BY DEF Fetch, fixed
<1>2. Silent(j) /\ ~Holding(r, j)
  BY <1>1, SilentBy DEF Holding
<1>3. j \in DOMAIN s => Claimable(j) /\ s[j] = row[j]
  OBVIOUS
<1> HIDE DEF s
<1>4. u.pc = "scan" /\ u.snap = s
  BY DEF Idle
<1> HIDE DEF u
<1>5. tick'[r] = u
  BY <1>1, OneTick
<1>6. j \in DOMAIN u.snap => SnapSound(r, j)'
  <2> SUFFICES ASSUME j \in DOMAIN u.snap PROVE SnapSound(r, j)'
    OBVIOUS
  <2>1. Claimable(j) /\ tick'[r].snap[j] = row[j] /\ tick'[r].pc = "scan"
    BY <1>3, <1>4, <1>5
  <2>2. row[j].status \in {"active", "processing"}
    BY <2>1 DEF Claimable
  <2> QED
    BY <2>1, <2>2, <1>1 DEF SnapSound, CrewSound, RowSound
<1>7. TurnSound(r, j)'
  BY <1>4, <1>5 DEF TurnSound
<1> QED
  BY <1>1, <1>2, <1>4, <1>6, <1>7, TurnTaken

LEMMA CancelLoadCrew ==
  ASSUME AutomationAssumption, AutoInv, TableAnswers, NEW j \in Jobs, Scheduled(j),
         CrewSound(j), NEW r \in crew.relayers, NEW i \in Jobs, CancelLoad(r, i)
  PROVE  CrewSound(j)'
<1> DEFINE u == [Idle EXCEPT !.pc = "cancel", !.job = i]
<1>1. /\ tick[r].pc = "idle" /\ tick' = [tick EXCEPT ![r] = u] /\ row' = row
      /\ UNCHANGED <<crew, kind, seen, requests, forgot>>
  BY DEF CancelLoad, fixed
<1>2. u.pc = "cancel" /\ u.snap = <<>>
  BY DEF Idle
<1>3. DOMAIN u.snap = {}
  BY <1>2
<1> HIDE DEF u
<1>4. Away(tick[r], u, j)
  BY <1>2, <1>3 DEF Away, Engaged, Carried
<1> QED
  BY <1>1, <1>4, SilentBy, OtherWork DEF Holding

\* A crash of the holder leaves the claim to be taken up again; what it had
\* reserved is on record as forgotten.
LEMMA CrashCrew ==
  ASSUME AutomationAssumption, AutoInv, TableAnswers, NEW j \in Jobs, Scheduled(j),
         CrewSound(j), NEW r \in crew.relayers, Crash(r)
  PROVE  CrewSound(j)'
<1>1. /\ tick' = [tick EXCEPT ![r] = Idle] /\ row' = row
      /\ seen' = [seen EXCEPT ![r] = {}] /\ forgot' = forgot \cup seen[r]
      /\ UNCHANGED <<crew, kind, requests>>
  BY DEF Crash, fixed
<1>2. Silent(j)
  <2>1. \A q \in crew.relayers : seen[q] \subseteq seen'[q] \cup forgot'
    BY <1>1, Stands, CrewTyped DEF AutoInv, AutoTypes
  <2> QED
    BY <2>1, <1>1 DEF Silent, Txs
<1>3. CASE Holding(r, j)
  <2>1. HeldBy(r, j) /\ row[j] \in Row
    BY <1>3, Stands DEF CrewSound
  <2>2. ~Claimable(j)' /\ row[j].status \notin {"absent", "active"}
    BY <2>1, <1>1 DEF HeldBy, Claimable
  <2>3. \A n \in Nat : n = row[j].count => Known(j, n) \/ Under(r, j, n)
    BY <2>1, <1>3 DEF HeldBy, Holding
  <2>4. \A n \in Nat : n = row[j].count => Known(j, n)'
    BY <2>3, <1>1, <1>2 DEF Known, Under, Silent
  <2>5. /\ Away(tick[r], tick'[r], j)
        /\ \A q \in crew.relayers \ {r} : tick'[q] = tick[q]
    <3>1. tick'[r] = Idle /\ \A q \in crew.relayers \ {r} : tick'[q] = tick[q]
      BY <1>1, Stands, CrewTyped DEF AutoInv
    <3> QED
      BY <3>1, IdleAway
  <2>6. /\ row'[j].status = row[j].status /\ row'[j].next = row[j].next
        /\ row'[j].count = row[j].count /\ row'[j].pinned = row[j].pinned
    BY <1>1
  <2> QED
    BY <2>2, <2>4, <2>5, <2>6, <1>2, <1>3, ReleasedKeeps
<1>4. CASE ~Holding(r, j)
  BY <1>1, <1>2, <1>4, IdleAway, OtherWork
<1> QED
  BY <1>3, <1>4

\* Steps that change neither a row nor a tick.
LEMMA RestCrew ==
  ASSUME AutomationAssumption, AutoInv, TableAnswers, NEW j \in Jobs, Scheduled(j),
         CrewSound(j),
         \/ \E r \in crew.relayers : Prune(r)
         \/ \E tx \in DOMAIN requests : Execute(tx)
         \/ MovePrice
         \/ UNCHANGED vars
  PROVE  CrewSound(j)'
<1>1. UNCHANGED <<crew, kind, row, tick>>
  BY DEF Prune, Execute, MovePrice, vars, fixed
<1>2. \A q \in crew.relayers : SameTick(tick[q], tick'[q])
  BY <1>1 DEF SameTick
<1>3. Silent(j)
  <2>1. CASE \E r \in crew.relayers : Prune(r)
    <3>1. PICK r \in crew.relayers : Prune(r)
      BY <2>1
    <3>2. PICK id \in seen[r] :
            /\ seen' = [seen EXCEPT ![r] = @ \ {id}] /\ forgot' = forgot \cup {id}
            /\ requests' = requests
      BY <3>1 DEF Prune
    <3>3. \A q \in crew.relayers : seen[q] \subseteq seen'[q] \cup forgot'
      BY <3>2, Stands, CrewTyped DEF AutoInv, AutoTypes
    <3> QED
      BY <3>2, <3>3, <1>1 DEF Silent, Txs
  <2>2. CASE \E tx \in DOMAIN requests : Execute(tx)
    <3>1. \A n \in Nat : Txs(j, n)' = Txs(j, n)
      BY <2>2, ExecuteKeeps
    <3> QED
      BY <3>1, <2>2, <1>1 DEF Silent, Execute
  <2>3. CASE MovePrice \/ UNCHANGED vars
    BY <2>3, SilentBy DEF MovePrice, vars, fixed
  <2> QED
    BY <2>1, <2>2, <2>3
<1> QED
  BY <1>1, <1>2, <1>3, AsideKeeps

\* Time makes the row of job j due or stale: running ticks see it late, and a
\* holder's row stays out of reach.
LEMMA LateKeeps ==
  ASSUME NEW j \in Jobs, CrewSound(j), Silent(j),
         row[j].status # "absent", row'[j].status = row[j].status,
         row'[j].count = row[j].count, row'[j].pinned = row[j].pinned,
         row'[j].next = row[j].next \/ row'[j].next = "due",
         \A q \in crew.relayers :
            /\ SameTick(tick[q], tick'[q])
            /\ tick[q].pc \notin {"idle", "cancel"} => j \in tick'[q].late
            /\ Holding(q, j) => ~Claimable(j)'
  PROVE  CrewSound(j)'
<1>1. crew' = crew
  BY DEF Silent
<1>2. \A q \in crew.relayers : Holding(q, j)' <=> Holding(q, j)
  BY DEF Holding, SameTick
<1>3. RowSound(j)' /\ SentOnce(j)'
  BY SentKeeps DEF CrewSound, RowSound, Silent
<1>4. OrphanSound(j)'
  BY <1>1, <1>2 DEF CrewSound, OrphanSound, Silent, Known
<1>5. ASSUME NEW q \in crew.relayers
      PROVE  /\ Holding(q, j)' => HeldBy(q, j)'
             /\ j \in DOMAIN tick'[q].snap => SnapSound(q, j)'
             /\ tick'[q].job = j => TurnSound(q, j)'
  <2>1. Holding(q, j)' => HeldBy(q, j)'
    <3> SUFFICES ASSUME Holding(q, j)' PROVE HeldBy(q, j)'
      OBVIOUS
    <3>1. Holding(q, j) /\ HeldBy(q, j) /\ ~Claimable(j)'
      BY <1>2 DEF CrewSound
    <3>2. row'[j].status \notin {"absent", "active"}
      BY <3>1 DEF HeldBy
    <3> QED
      BY <3>1, <3>2, <1>2, HolderKeeps
  <2>2. j \in DOMAIN tick'[q].snap => SnapSound(q, j)'
    BY DEF CrewSound, SameTick, SnapSound
  <2>3. tick'[q].job = j => TurnSound(q, j)'
    BY TurnKeeps DEF CrewSound
  <2> QED
    BY <2>1, <2>2, <2>3
<1> QED
  BY <1>1, <1>3, <1>4, <1>5 DEF CrewSound

LEMMA LateSame ==
  ASSUME AutomationAssumption, AutoInv, NEW j \in Jobs, Late(j), NEW q \in crew.relayers
  PROVE  /\ SameTick(tick[q], tick'[q])
         /\ tick[q].pc \notin {"idle", "cancel"} => j \in tick'[q].late
<1> DEFINE t == tick[q]
           u == [t EXCEPT !.late = @ \cup {j}]
<1>1. t \in Tick /\ tick'[q] = IF t.pc \in {"idle", "cancel"} THEN t ELSE u
  BY Stands DEF Late
<1> HIDE DEF t
<1>2. SameTick(t, u) /\ j \in u.late
  BY <1>1 DEF Tick, SameTick
<1>3. SameTick(t, t)
  BY DEF SameTick
<1> HIDE DEF u
<1> QED
  BY <1>1, <1>2, <1>3 DEF t

LEMMA TimeCrew ==
  ASSUME AutomationAssumption, AutoInv, TableAnswers, NEW j \in Jobs, Scheduled(j),
         CrewSound(j), NEW i \in Jobs, Register(i) \/ BecomeDue(i) \/ BecomeStale(i)
  PROVE  CrewSound(j)'
<1>1. UNCHANGED <<crew, kind, seen, requests, forgot>> /\ row \in [Jobs -> Row]
  BY DEF Register, BecomeDue, BecomeStale, fixed, AutoInv, AutoTypes
<1>2. Silent(j)
  BY <1>1, SilentBy
<1>3. CASE i # j
  <2>1. row'[j] = row[j]
    BY <1>1, <1>3 DEF Register, BecomeDue, BecomeStale
  <2>2. \A q \in crew.relayers : SameTick(tick[q], tick'[q])
    <3>1. CASE Register(i)
      BY <3>1 DEF Register, SameTick
    <3>2. CASE BecomeDue(i) \/ BecomeStale(i)
      BY <3>2, LateSame DEF BecomeDue, BecomeStale
    <3> QED
      BY <3>1, <3>2
  <2> QED
    BY <2>1, <2>2, <1>2, AsideKeeps
<1>4. CASE i = j /\ Register(i)
  <2>1. /\ row[j].status = "absent" /\ tick' = tick
        /\ \E next \in InitialNext(j) :
              row' = [row EXCEPT ![j] = [Absent EXCEPT !.status = "active", !.next = next]]
    BY <1>4 DEF Register
  <2>2. PICK next \in {"future", "due"} :
          row'[j] = [Absent EXCEPT !.status = "active", !.next = next]
    BY <2>1, <1>1 DEF InitialNext, Scheduled
  <2>3. /\ row'[j].status = "active" /\ row'[j].next = next
        /\ row'[j].count = 0 /\ row'[j].pinned = 0
    BY <2>2 DEF Absent
  <2>4. row[j].count = 0
    BY <2>1 DEF CrewSound, RowSound
  <2>5. \A q \in crew.relayers : ~Holding(q, j) /\ j \notin DOMAIN tick[q].snap
    BY <2>1 DEF CrewSound, HeldBy, SnapSound
  <2>6. RowSound(j)' /\ SentOnce(j)' /\ OrphanSound(j)'
    BY <2>3, <2>4, <1>2, SentKeeps DEF CrewSound, RowSound, OrphanSound, Silent
  <2>7. \A q \in crew.relayers : /\ Holding(q, j)' <=> Holding(q, j)
                                 /\ TurnSound(q, j)' <=> TurnSound(q, j)
    BY <2>1 DEF Holding, TurnSound
  <2> QED
    BY <2>1, <2>5, <2>6, <2>7, <1>1 DEF CrewSound
<1>5. CASE i = j /\ BecomeDue(i)
  <2>1. row[j].next = "future" /\ row' = [row EXCEPT ![j].next = "due"] /\ Late(j)
    BY <1>5 DEF BecomeDue
  <2>2. /\ row'[j].status = row[j].status /\ row'[j].next = "due"
        /\ row'[j].count = row[j].count /\ row'[j].pinned = row[j].pinned
        /\ row'[j].stale = row[j].stale
    BY <2>1, <1>1 DEF Row
  <2>3. \A q \in crew.relayers : Holding(q, j) => ~Claimable(j)'
    BY <2>2 DEF CrewSound, HeldBy, Claimable
  <2>4. CASE row[j].status # "absent"
    BY <2>1, <2>2, <2>3, <2>4, <1>2, LateSame, LateKeeps
  <2>5. CASE row[j].status = "absent"
    <3>1. \A q \in crew.relayers : ~Holding(q, j) /\ j \notin DOMAIN tick[q].snap
      BY <2>5 DEF CrewSound, HeldBy, SnapSound
    <3>2. RowSound(j)' /\ SentOnce(j)' /\ OrphanSound(j)'
      BY <2>2, <2>5, <1>2, SentKeeps DEF CrewSound, RowSound, OrphanSound, Silent
    <3>3. \A q \in crew.relayers :
             /\ Holding(q, j)' <=> Holding(q, j)
             /\ tick'[q].snap = tick[q].snap /\ tick'[q].job = tick[q].job
      BY <2>1, LateSame DEF Holding, SameTick
    <3>4. \A q \in crew.relayers : tick'[q].job = j => TurnSound(q, j)'
      BY <2>1, LateSame, TurnKeeps DEF CrewSound
    <3> QED
      BY <3>1, <3>2, <3>3, <3>4, <1>1 DEF CrewSound
  <2> QED
    BY <2>4, <2>5
<1>6. CASE i = j /\ BecomeStale(i)
  <2>1. /\ row[j].status = "processing" /\ row' = [row EXCEPT ![j].stale = TRUE] /\ Late(j)
        /\ ~\E q \in crew.relayers : Holding(q, j)
    BY <1>6, NoTableFault DEF BecomeStale
  <2>2. /\ row'[j].status = row[j].status /\ row'[j].next = row[j].next
        /\ row'[j].count = row[j].count /\ row'[j].pinned = row[j].pinned
    BY <2>1, <1>1 DEF Row
  <2> QED
    BY <2>1, <2>2, <1>2, LateSame, LateKeeps
<1> QED
  BY <1>3, <1>4, <1>5, <1>6

LEMMA CrewInit ==
  ASSUME AutomationAssumption, Init, AutoInv
  PROVE  CrewInv
<1> SUFFICES ASSUME NEW j \in Jobs, Scheduled(j) PROVE CrewSound(j)
  BY DEF CrewInv
<1>1. /\ row[j] = Absent /\ requests = <<>>
      /\ \A q \in crew.relayers : tick[q] = Idle
  BY CrewTyped DEF Init, AutoInv
<1>2. \A n : Txs(j, n) = {}
  BY <1>1 DEF Txs
<1>3. /\ Absent.status = "absent" /\ Absent.count = 0 /\ Absent.pinned = 0
      /\ Idle.pc = "idle" /\ Idle.snap = <<>>
  BY DEF Absent, Idle
<1>4. DOMAIN Idle.snap = {}
  BY <1>3
<1>5. RowSound(j) /\ SentOnce(j) /\ OrphanSound(j)
  BY <1>1, <1>2, <1>3 DEF RowSound, SentOnce, OrphanSound
<1>6. \A q \in crew.relayers : /\ ~Holding(q, j) /\ j \notin DOMAIN tick[q].snap
                               /\ TurnSound(q, j)
  BY <1>1, <1>3, <1>4 DEF Holding, TurnSound
<1> QED
  BY <1>5, <1>6 DEF CrewSound

LEMMA CrewInductive ==
  ASSUME AutomationAssumption, AutoInv, CrewInv, [Next]_vars
  PROVE  CrewInv'
<1>1. crew' = crew /\ kind' = kind
  <2>1. ASSUME NEW i \in Jobs, Register(i) \/ BecomeDue(i) \/ BecomeStale(i)
        PROVE  UNCHANGED <<crew, kind>>
    BY <2>1 DEF Register, BecomeDue, BecomeStale, fixed
  <2>2. ASSUME NEW r \in crew.relayers, Step(r)
        PROVE  UNCHANGED <<crew, kind>>
    BY <2>2 DEF Step, Evaluate, PatchEvaluation, Claim, Queue, RecordRun, Finalize, Fail,
       CancelPatch, fixed
  <2>3. ASSUME NEW r \in crew.relayers,
               Fetch(r) \/ Crash(r) \/ Prune(r) \/ \E i \in Jobs : CancelLoad(r, i)
        PROVE  UNCHANGED <<crew, kind>>
    BY <2>3 DEF Fetch, Crash, Prune, CancelLoad, fixed
  <2>4. CASE (\E tx \in DOMAIN requests : Execute(tx)) \/ MovePrice \/ UNCHANGED vars
    BY <2>4 DEF Execute, MovePrice, vars, fixed
  <2> QED
    BY <2>1, <2>2, <2>3, <2>4 DEF Next
<1> SUFFICES ASSUME TableAnswers', NEW j \in Jobs, Scheduled(j)'
             PROVE  CrewSound(j)'
  BY DEF CrewInv
<1>2. TableAnswers /\ Scheduled(j) /\ CrewSound(j)
  BY <1>1 DEF TableAnswers, Scheduled, CrewInv
<1>3. ASSUME NEW i \in Jobs, Register(i) \/ BecomeDue(i) \/ BecomeStale(i)
      PROVE  CrewSound(j)'
  BY <1>2, <1>3, TimeCrew
<1>4. ASSUME NEW r \in crew.relayers, Step(r)
      PROVE  CrewSound(j)'
  BY <1>2, <1>4, EvaluateCrew, PatchEvaluationCrew, ClaimCrew, QueueCrew, RecordRunCrew,
     FinalizeCrew, FailCrew, CancelPatchCrew DEF Step
<1>5. ASSUME NEW r \in crew.relayers, Fetch(r) \/ Crash(r) \/ \E i \in Jobs : CancelLoad(r, i)
      PROVE  CrewSound(j)'
  BY <1>2, <1>5, FetchCrew, CrashCrew, CancelLoadCrew
<1>6. CASE \/ \E r \in crew.relayers : Prune(r)
           \/ \E tx \in DOMAIN requests : Execute(tx)
           \/ MovePrice
           \/ UNCHANGED vars
  BY <1>2, <1>6, RestCrew
<1> QED
  BY <1>3, <1>4, <1>5, <1>6 DEF Next

LEMMA CrewInvHolds == Spec => []CrewInv
<1>1. Init /\ AutoInv => CrewInv
  BY AutomationAssumption, CrewInit
<1>2. AutoInv /\ CrewInv /\ [Next]_vars => CrewInv'
  BY AutomationAssumption, CrewInductive
<1> QED
  BY <1>1, <1>2, AutoInvHolds, PTL DEF Spec

\* A second request for an execution of job j takes a lost reservation.
JobDuplicates(j) == \A n \in Nat : Copies(j, n) > 1 => <<j, n>> \in forgot

LEMMA CrewCopies ==
  ASSUME AutoInv, CrewInv, TableAnswers, NEW j \in Jobs, Scheduled(j)
  PROVE  JobDuplicates(j)
<1> SUFFICES ASSUME NEW n \in Nat, Copies(j, n) > 1, <<j, n>> \notin forgot PROVE FALSE
  BY DEF JobDuplicates
<1>1. Copies(j, n) = Cardinality(Txs(j, n))
  BY DEF Copies, Txs
<1>2. IsFiniteSet(Txs(j, n)) /\ Cardinality(Txs(j, n)) \in Nat
  BY TxsFinite DEF AutoInv
<1>3. \A x, y \in Txs(j, n) : x = y
  BY DEF CrewInv, CrewSound, SentOnce
<1>4. CASE Txs(j, n) = {}
  BY <1>1, <1>4, FS_EmptySet
<1>5. CASE Txs(j, n) # {}
  <2>1. PICK x : Txs(j, n) = {x}
    BY <1>3, <1>5
  <2>2. Cardinality(Txs(j, n)) = 1
    BY <2>1, FS_Singleton
  <2> QED
    BY <2>2, <1>1
<1> QED
  BY <1>4, <1>5

\* The conditional claim works for any number of relayers: as long as the table
\* answers and no claim goes stale under a relayer at work, an execution of a
\* scheduled job is requested twice only after its reservation was lost or never
\* made, with crashes, cancels, failed broadcasts and reclaims at any time.
THEOREM ScheduledOnce ==
  Spec => [](TableAnswers => \A j \in Jobs : Scheduled(j) => JobDuplicates(j))
<1>1. AutoInv /\ CrewInv => (TableAnswers => \A j \in Jobs : Scheduled(j) => JobDuplicates(j))
  BY CrewCopies
<1> QED
  BY <1>1, AutoInvHolds, CrewInvHolds, PTL

\* For any number of relayers, kinds of jobs and faults: as long as no process
\* lost or never made its reservation of an execution, the on-chain requests
\* for it are bounded, by one for a scheduled job whose claims the table
\* answers and which do not go stale at work, and otherwise by one per relayer.
THEOREM DuplicatesBounded == Spec => []DuplicatesNeedLoss
<1>1. AutoInv /\ CrewInv => DuplicatesNeedLoss
  <2> SUFFICES ASSUME AutoInv, CrewInv, NEW tx \in DOMAIN requests,
                      <<requests[tx].job, requests[tx].n>> \notin forgot
               PROVE  Copies(requests[tx].job, requests[tx].n)
                        <= IF Scheduled(requests[tx].job) /\ TableAnswers
                           THEN 1 ELSE Cardinality(crew.relayers)
    BY DEF DuplicatesNeedLoss
  <2> DEFINE j == requests[tx].job
             n == requests[tx].n
  <2>1. requests[tx] \in Request
    BY ElementOfSeq, LenProperties DEF AutoInv, AutoTypes
  <2>2. j \in Jobs /\ n \in Nat
    BY <2>1 DEF Request
  <2> HIDE DEF j, n
  <2>3. Copies(j, n) \in Nat
    BY TxsFinite DEF AutoInv, Copies, Txs
  <2>4. Copies(j, n) <= Cardinality(crew.relayers)
    BY <2>2, AutoCopies DEF CopiesWithinCrew, j, n
  <2>5. Scheduled(j) /\ TableAnswers => ~(Copies(j, n) > 1)
    BY <2>2, CrewCopies DEF JobDuplicates, j, n
  <2> QED
    BY <2>3, <2>4, <2>5 DEF j, n
<1> QED
  BY <1>1, AutoInvHolds, CrewInvHolds, PTL
=============================================================================
