------------------------- MODULE ControlPlaneProofs -------------------------
(***************************************************************************)
(* The control plane's job table: a succeeded row is true, a workflow job  *)
(* has one running instance and a bounded number of them, and a settled    *)
(* job stays settled, for any number of jobs, messages and recovery        *)
(* passes.                                                                 *)
(***************************************************************************)
EXTENDS ControlPlane, FiniteSetTheorems, WellFoundedInduction, TLAPS

-----------------------------------------------------------------------------
(* The inductive invariant *)

\* The dispatch numbers a row, or a copy of one, can hold.
Recordable == 0..(MaxAttempts + 1)

\* A row and a copy of a row: the instance id is the dispatch number.
SoundRow == {x \in Row : x.dispatches = x.instance /\ x.dispatches \in Recordable}
Copy == {s \in Snap : s.dispatches = s.instance /\ s.dispatches \in Recordable}

\* What a recovery pass has listed.
Listing == UNION {[S -> Copy] : S \in SUBSET Jobs}

Steps == {"off", "idle", "next", "send", "redispatch", "created",
          "sync_succeeded", "sync_dispatched", "sync_processing"}

Pass == [step : Steps, rows : Listing, id : Recordable]

Slot == [state : {"free", "ready", "marking", "calling", "dlq", "burying"} \cup Outcomes,
         job : Jobs \cup {0}, attempts : 0..(MaxRetries + 1), snap : Copy]

Instance == [state : InstanceStates, snap : Copy]

\* TypeOK with the bounds the recovery passes keep.
SoundTypes ==
    /\ row \in [Jobs -> SoundRow]
    /\ ingress \in [Jobs -> {"idle", "inserted", "sent", "failing", "done"}]
    /\ msgs \in [Slots -> Slot]
    /\ rec \in [Recoverers -> Pass]
    /\ inst \in [WorkflowJobs -> [InstanceIds -> Instance]]
    /\ called \in [Jobs -> BOOLEAN] /\ answered \in [Jobs -> BOOLEAN]
    /\ blind \in BOOLEAN /\ faults \in 0..MaxFaults

Exists(j, i) == inst[j][i].state # "none"

\* A dispatch number that names an instance at all names one that exists.
Known(j, d) == d = 0 \/ Exists(j, d)

\* A succeeded row is true, a row whose request has not inserted it is not
\* there, and a workflow row names an instance that exists.
RowsSound ==
    \A j \in Jobs :
        /\ row[j].status = "succeeded" => answered[j]
        /\ ingress[j] = "idle" => j \in QueueJobs /\ row[j].status = "absent"
        /\ j \in WorkflowJobs =>
              /\ Known(j, row[j].dispatches)
              /\ row[j].status # "absent" => Exists(j, 1)

\* Messages are about queue jobs that were inserted, and a success that is
\* about to be recorded was answered.
MessagesSound ==
    \A m \in Slots :
        IF Live(m) THEN /\ msgs[m].job \in QueueJobs /\ ingress[msgs[m].job] # "idle"
                        /\ msgs[m].state = "succeeded" => answered[msgs[m].job]
        ELSE msgs[m].job = 0

\* A pass is on the lane of its job, lists rows that were inserted with
\* instances that exist, takes for success what was one, and is about to create
\* an instance only after it saw the recorded one end badly, unless a status
\* check has failed.
PassSound(r) ==
    /\ rec[r].step \in {"off", "idle"} <=> DOMAIN rec[r].rows = {}
    /\ \A j \in DOMAIN rec[r].rows :
          /\ ingress[j] # "idle"
          /\ j \in WorkflowJobs =>
                Exists(j, 1) /\ Known(j, rec[r].rows[j].dispatches)
    /\ rec[r].step = "send" => Current(r) \in QueueJobs
    /\ rec[r].step \notin {"off", "idle", "next", "send"} => Current(r) \in WorkflowJobs
    /\ rec[r].step = "sync_succeeded" => answered[Current(r)]
    /\ rec[r].step = "created" => rec[r].id # 0 /\ Exists(Current(r), rec[r].id)
    /\ rec[r].step = "redispatch" /\ ~blind /\ Snapshot(r).dispatches # 0 =>
          inst[Current(r)][Snapshot(r).dispatches].state = "errored"

PassesSound == \A r \in Recoverers : PassSound(r)

\* An instance that has recorded its answer had one, and works from a dispatch
\* number that exists; instances exist from the first up and not beyond the
\* ceiling; and until a status check fails, those before one that exists have
\* ended.
InstanceSound(j, i) ==
    /\ inst[j][i].state \in {"succeeding", "closing", "complete"} => answered[j]
    /\ Known(j, inst[j][i].snap.dispatches)
    /\ Exists(j, i) =>
          /\ Exists(j, 1) /\ i # MaxAttempts + 2
          /\ ~blind => \A k \in InstanceIds :
                k < i => inst[j][k].state \in {"complete", "errored"}

InstancesSound == \A j \in WorkflowJobs, i \in InstanceIds : InstanceSound(j, i)

ControlInv == SoundTypes /\ RowsSound /\ MessagesSound /\ PassesSound /\ InstancesSound

-----------------------------------------------------------------------------
(* Operators of the model *)

(***************************************************************************)
(* A non-empty set of job ids has a least one, which is what Min chooses.  *)
(***************************************************************************)
LEMMA LeastJob ==
  ASSUME NEW T \in SUBSET Jobs, T # {}
  PROVE  Min(T) \in T
  <1> DEFINE R == OpToRel(<, Nat)
  <1>0. T \subseteq Nat
    BY ControlPlaneAssumption DEF Jobs
  <1>1. \E x \in T : \A y \in T : <<y, x>> \notin R
    <2> HIDE DEF R
    <2>1. IsWellFoundedOn(R, Nat)
      BY NatLessThanWellFounded DEF R
    <2> QED
      BY <1>0, <2>1, WFMin
  <1>2. R = {p \in Nat \X Nat : p[1] < p[2]}
    BY DEF OpToRel
  <1>3. PICK x \in T : \A y \in T : <<y, x>> \notin R
    BY <1>1
  <1>4. ASSUME NEW y \in T PROVE x <= y
    <2>1. <<y, x>> \in Nat \X Nat
      BY <1>0
    <2>2. ~(y < x)
      BY <2>1, <1>2, <1>3
    <2> QED
      BY <2>2, <1>0
  <1> QED
    BY <1>4 DEF Min

(***************************************************************************)
(* What a listing is: a copy for each of some jobs.                        *)
(***************************************************************************)
LEMMA ListingRows ==
  /\ \A x \in Listing : /\ DOMAIN x \in SUBSET Jobs
                        /\ x \in [DOMAIN x -> Copy]
  /\ \A S \in SUBSET Jobs : \A x \in [S -> Copy] : x \in Listing
  BY DEF Listing

(***************************************************************************)
(* The rows and copies the writers build are rows and copies.              *)
(***************************************************************************)
LEMMA CopyTypes ==
  /\ NoRow \in SoundRow /\ NoSnap \in Copy
  /\ \A x \in SoundRow : SnapOf(x) \in Copy /\ MetadataOf(x) \in Copy
  BY ControlPlaneAssumption
  DEF NoRow, NoSnap, SoundRow, Row, Copy, Snap, SnapOf, MetadataOf, Statuses, Recordable

LEMMA StampedRow ==
  ASSUME NEW x \in SoundRow, NEW status \in Statuses
  PROVE  /\ Stamped(x, status) \in SoundRow
         /\ Stamped(x, status).status = status
         /\ Stamped(x, status).dispatches = x.dispatches
  BY DEF Stamped, SoundRow, Row

LEMMA CarriedRow ==
  ASSUME NEW x \in SoundRow, NEW s \in Copy
  PROVE  /\ WithMetadataOf(x, s) \in SoundRow
         /\ WithMetadataOf(x, s).status = x.status
         /\ WithMetadataOf(x, s).dispatches = s.dispatches
  BY DEF WithMetadataOf, SoundRow, Row, Copy, Snap, Recordable

(***************************************************************************)
(* resolvePriorRequeueAttempts counts both kinds of attempt, within the    *)
(* ceiling.                                                                *)
(***************************************************************************)
LEMMA PriorAttempts ==
  ASSUME NEW s \in Copy
  PROVE  /\ PriorRequeueAttempts(s) \in 0..MaxAttempts
         /\ s.dispatches <= PriorRequeueAttempts(s) + 1
  <1>1. s.requeues \in 0..MaxAttempts /\ s.dispatches \in 0..(MaxAttempts + 1)
    BY DEF Copy, Snap, Recordable
  <1> DEFINE d == IF s.dispatches > 1 THEN s.dispatches - 1 ELSE 0
  <1>2. d \in 0..MaxAttempts /\ s.dispatches <= d + 1
    BY <1>1, ControlPlaneAssumption
  <1>3. Max({s.requeues, d}) \in {s.requeues, d} /\ Max({s.requeues, d}) >= d
    <2> HIDE DEF d
    <2>1. \E x \in {s.requeues, d} : \A y \in {s.requeues, d} : x >= y
      BY <1>1, <1>2
    <2> QED
      BY <2>1 DEF Max
  <1>4. PriorRequeueAttempts(s) = Max({s.requeues, d})
    BY DEF PriorRequeueAttempts
  <1> HIDE DEF d
  <1> QED
    BY <1>1, <1>2, <1>3, <1>4, ControlPlaneAssumption

(***************************************************************************)
(* The job a pass is at is one it listed.                                  *)
(***************************************************************************)
LEMMA CurrentListed ==
  ASSUME SoundTypes, NEW r \in Recoverers, DOMAIN rec[r].rows # {}
  PROVE  /\ Current(r) \in DOMAIN rec[r].rows /\ Current(r) \in Jobs
         /\ Snapshot(r) \in Copy
         /\ DOMAIN rec[r].rows \subseteq Jobs
  <1>1. rec[r].rows \in Listing
    BY DEF SoundTypes, Pass
  <1>2. DOMAIN rec[r].rows \in SUBSET Jobs /\ rec[r].rows \in [DOMAIN rec[r].rows -> Copy]
    BY <1>1, ListingRows
  <1>3. Current(r) \in DOMAIN rec[r].rows
    BY <1>2, LeastJob DEF Current
  <1> QED
    BY <1>2, <1>3 DEF Snapshot

-----------------------------------------------------------------------------
(* What every step keeps, and what a step that writes one variable must show *)

\* Answers are not taken back, requests do not start again, instances do not
\* disappear, an instance that has ended does not change, a failed status check
\* is remembered.
Forward ==
    /\ \A j \in Jobs : answered[j] => answered'[j]
    /\ \A j \in Jobs : ingress'[j] = "idle" => ingress[j] = "idle"
    /\ \A j \in WorkflowJobs, i \in InstanceIds :
          /\ Exists(j, i) => Exists(j, i)'
          /\ inst[j][i].state \in {"complete", "errored"} =>
                inst'[j][i].state = inst[j][i].state
    /\ blind => blind'

(***************************************************************************)
(* A dispatch number that is written down and known stays known.           *)
(***************************************************************************)
LEMMA KnownStays ==
  ASSUME Forward, NEW j \in WorkflowJobs, NEW d \in Recordable, Known(j, d)
  PROVE  Known(j, d)'
  <1>1. d = 0 \/ d \in InstanceIds
    BY ControlPlaneAssumption DEF Recordable, InstanceIds
  <1> QED
    BY <1>1 DEF Known, Forward

LEMMA FirstStays ==
  ASSUME Forward, NEW j \in WorkflowJobs, Exists(j, 1)
  PROVE  Exists(j, 1)'
  <1>1. 1 \in InstanceIds
    BY ControlPlaneAssumption DEF InstanceIds
  <1> QED
    BY <1>1 DEF Forward

LEMMA JobsAreJobs ==
  /\ QueueJobs \subseteq Jobs /\ WorkflowJobs \subseteq Jobs
  /\ \A j \in QueueJobs : j \notin WorkflowJobs
  /\ 0 \notin Jobs
  BY ControlPlaneAssumption DEF Jobs

LEMMA RowsKept ==
  ASSUME ControlInv, Forward, row' = row
  PROVE  row' \in [Jobs -> SoundRow] /\ RowsSound'
  <1>1. row' \in [Jobs -> SoundRow]
    BY DEF ControlInv, SoundTypes
  <1> SUFFICES ASSUME NEW j \in Jobs
               PROVE /\ row'[j].status = "succeeded" => answered'[j]
                     /\ ingress'[j] = "idle" => j \in QueueJobs /\ row'[j].status = "absent"
                     /\ j \in WorkflowJobs =>
                          /\ Known(j, row[j].dispatches)'
                          /\ row'[j].status # "absent" => Exists(j, 1)'
    BY <1>1 DEF RowsSound
  <1>2. j \in WorkflowJobs => row[j].dispatches \in Recordable
    BY DEF ControlInv, SoundTypes, SoundRow
  <1>3. row'[j] = row[j]
    OBVIOUS
  <1>4. /\ row'[j].status = "succeeded" => answered'[j]
        /\ ingress'[j] = "idle" => j \in QueueJobs /\ row'[j].status = "absent"
    BY <1>3 DEF ControlInv, RowsSound, Forward
  <1>5. ASSUME j \in WorkflowJobs
        PROVE  /\ Known(j, row[j].dispatches)'
               /\ row'[j].status # "absent" => Exists(j, 1)'
    <2>1. Known(j, row[j].dispatches) /\ (row[j].status # "absent" => Exists(j, 1))
      BY <1>5 DEF ControlInv, RowsSound
    <2>2. \A d \in Recordable : Known(j, d) => Known(j, d)'
      BY <1>5, KnownStays
    <2>3. Exists(j, 1) => Exists(j, 1)'
      BY <1>5, FirstStays
    <2> QED
      BY <1>2, <1>3, <1>5, <2>1, <2>2, <2>3 DEF Known, Exists
  <1> QED
    BY <1>4, <1>5

\* Writing x in job j's row, in a step that keeps what Forward says.
MayWrite(j, x) ==
    /\ x \in SoundRow
    /\ x.status = "succeeded" => answered'[j]
    /\ ingress'[j] # "idle"
    /\ j \in WorkflowJobs => Known(j, x.dispatches) /\ Exists(j, 1)

LEMMA RowWritten ==
  ASSUME ControlInv, Forward, NEW j \in Jobs, NEW x, MayWrite(j, x),
         row' = [row EXCEPT ![j] = x]
  PROVE  row' \in [Jobs -> SoundRow] /\ RowsSound'
  <1>1. row' \in [Jobs -> SoundRow] /\ row'[j] = x /\ \A k \in Jobs : k # j => row'[k] = row[k]
    BY DEF ControlInv, SoundTypes, MayWrite
  <1> SUFFICES ASSUME NEW k \in Jobs
               PROVE /\ row'[k].status = "succeeded" => answered'[k]
                     /\ ingress'[k] = "idle" => k \in QueueJobs /\ row'[k].status = "absent"
                     /\ k \in WorkflowJobs =>
                          /\ row'[k].dispatches = 0 \/ inst'[k][row'[k].dispatches].state # "none"
                          /\ row'[k].status # "absent" => Exists(k, 1)'
    BY <1>1 DEF RowsSound, Known, Exists
  <1>2. /\ row'[k].status = "succeeded" => answered'[k]
        /\ ingress'[k] = "idle" => k \in QueueJobs /\ row'[k].status = "absent"
    BY <1>1 DEF ControlInv, RowsSound, Forward, MayWrite
  <1>3. ASSUME k \in WorkflowJobs
        PROVE  /\ row'[k].dispatches = 0 \/ inst'[k][row'[k].dispatches].state # "none"
               /\ row'[k].status # "absent" => Exists(k, 1)'
    <2> DEFINE d == row'[k].dispatches
    <2>1. Known(k, d) /\ (row'[k].status # "absent" => Exists(k, 1))
      BY <1>1, <1>3 DEF ControlInv, RowsSound, MayWrite
    <2>2. d \in Recordable
      BY <1>1 DEF SoundRow
    <2> HIDE DEF d
    <2>3. d = 0 \/ inst'[k][d].state # "none"
      BY <1>3, <2>1, <2>2, KnownStays DEF Known, Exists
    <2>4. Exists(k, 1) => Exists(k, 1)'
      BY <1>3, FirstStays
    <2> QED
      BY <2>1, <2>3, <2>4 DEF d
  <1> QED
    BY <1>2, <1>3

LEMMA MessagesKept ==
  ASSUME ControlInv, Forward, msgs' = msgs
  PROVE  msgs' \in [Slots -> Slot] /\ MessagesSound'
  <1>1. \A m \in Slots : msgs[m].job \in QueueJobs => msgs[m].job \in Jobs
    BY DEF Jobs
  <1> QED
    BY <1>1 DEF ControlInv, SoundTypes, MessagesSound, Forward, Live

LEMMA MessagePut ==
  ASSUME ControlInv, Forward, NEW m \in Slots, NEW x \in Slot,
         IF x.state = "free" THEN x.job = 0
         ELSE /\ x.job \in QueueJobs /\ ingress'[x.job] # "idle"
              /\ x.state = "succeeded" => answered'[x.job],
         msgs' = [msgs EXCEPT ![m] = x]
  PROVE  msgs' \in [Slots -> Slot] /\ MessagesSound'
  <1>1. msgs' \in [Slots -> Slot] /\ msgs'[m] = x /\ \A n \in Slots : n # m => msgs'[n] = msgs[n]
    BY DEF ControlInv, SoundTypes
  <1>2. \A n \in Slots : msgs[n].job \in QueueJobs => msgs[n].job \in Jobs
    BY DEF Jobs
  <1> QED
    BY <1>1, <1>2 DEF ControlInv, MessagesSound, Forward, Live

(***************************************************************************)
(* A pass that does not move stays sound: what it relies on is stable.     *)
(***************************************************************************)
LEMMA PassKept ==
  ASSUME ControlInv, Forward, NEW r \in Recoverers, rec'[r] = rec[r]
  PROVE  PassSound(r)'
  <1>0. rec'[r].step = rec[r].step /\ rec'[r].rows = rec[r].rows /\ rec'[r].id = rec[r].id
    OBVIOUS
  <1>1. PassSound(r)
    BY DEF ControlInv, PassesSound
  <1>2. Current(r)' = Current(r) /\ Snapshot(r)' = Snapshot(r)
    BY <1>0 DEF Current, Snapshot
  <1>3. rec[r].rows \in [DOMAIN rec[r].rows -> Copy] /\ DOMAIN rec[r].rows \subseteq Jobs
        /\ rec[r].id \in Recordable
    BY ListingRows DEF ControlInv, SoundTypes, Pass
  <1>4. rec[r].step \notin {"off", "idle"} => Current(r) \in Jobs /\ Snapshot(r) \in Copy
    BY <1>1, CurrentListed DEF ControlInv, PassSound
  <1>5. \A j \in DOMAIN rec[r].rows :
          /\ ingress'[j] # "idle"
          /\ j \in WorkflowJobs =>
                Exists(j, 1)' /\ Known(j, rec[r].rows[j].dispatches)'
    <2> SUFFICES ASSUME NEW j \in DOMAIN rec[r].rows
                 PROVE  /\ ingress'[j] # "idle"
                        /\ j \in WorkflowJobs =>
                              /\ Exists(j, 1)'
                              /\ \/ rec[r].rows[j].dispatches = 0
                                 \/ inst'[j][rec[r].rows[j].dispatches].state # "none"
      BY <1>0 DEF Known, Exists
    <2>1. ingress'[j] # "idle"
      BY <1>1, <1>3 DEF PassSound, Forward
    <2>2. rec[r].rows[j].dispatches \in Recordable
      BY <1>3 DEF Copy
    <2> DEFINE d == rec[r].rows[j].dispatches
    <2>3. j \in WorkflowJobs => Exists(j, 1) /\ Known(j, d)
      BY <1>1 DEF PassSound
    <2> HIDE DEF d
    <2>4. j \in WorkflowJobs => Exists(j, 1)' /\ (d = 0 \/ inst'[j][d].state # "none")
      BY <2>2, <2>3, KnownStays, FirstStays DEF Known, Exists, d
    <2> QED
      BY <2>1, <2>4 DEF d
  <1>6. /\ rec[r].step \in {"off", "idle"} <=> DOMAIN rec[r].rows = {}
        /\ rec[r].step = "send" => Current(r) \in QueueJobs
        /\ rec[r].step \notin {"off", "idle", "next", "send"} => Current(r) \in WorkflowJobs
        /\ rec[r].step = "sync_succeeded" => answered'[Current(r)]
    BY <1>1, <1>4 DEF PassSound, Forward
  <1>7. rec[r].step = "created" => rec[r].id # 0 /\ inst'[Current(r)][rec[r].id].state # "none"
    <2> SUFFICES ASSUME rec[r].step = "created"
                 PROVE  rec[r].id # 0 /\ inst'[Current(r)][rec[r].id].state # "none"
      OBVIOUS
    <2>1. Current(r) \in WorkflowJobs /\ rec[r].id # 0 /\ Exists(Current(r), rec[r].id)
      BY <1>1 DEF PassSound
    <2>2. rec[r].id \in InstanceIds
      BY <1>3, <2>1, ControlPlaneAssumption DEF Recordable, InstanceIds
    <2> QED
      BY <2>1, <2>2 DEF Forward, Exists
  <1>8. ASSUME rec[r].step = "redispatch", ~blind', Snapshot(r).dispatches # 0
        PROVE  inst'[Current(r)][Snapshot(r).dispatches].state = "errored"
    <2>1. /\ Current(r) \in WorkflowJobs
          /\ inst[Current(r)][Snapshot(r).dispatches].state = "errored"
      BY <1>1, <1>8 DEF PassSound, Forward
    <2>2. Snapshot(r).dispatches \in InstanceIds
      BY <1>4, <1>8, ControlPlaneAssumption DEF Copy, Recordable, InstanceIds
    <2> QED
      BY <2>1, <2>2 DEF Forward
  <1>9. /\ rec'[r].step = "created" => rec'[r].id # 0 /\ inst'[Current(r)'][rec'[r].id].state # "none"
        /\ rec'[r].step = "redispatch" /\ ~blind' /\ Snapshot(r)'.dispatches # 0 =>
              inst'[Current(r)'][Snapshot(r)'.dispatches].state = "errored"
    BY <1>0, <1>2, <1>7, <1>8
  <1>10. \A j \in DOMAIN rec'[r].rows :
          /\ ingress'[j] # "idle"
          /\ j \in WorkflowJobs =>
                /\ Exists(j, 1)'
                /\ \/ rec'[r].rows[j].dispatches = 0
                   \/ inst'[j][rec'[r].rows[j].dispatches].state # "none"
    BY <1>0, <1>5 DEF Known, Exists
  <1> QED
    BY <1>0, <1>2, <1>6, <1>9, <1>10 DEF PassSound, Known, Exists

LEMMA InstancesKept ==
  ASSUME ControlInv, Forward, inst' = inst
  PROVE  inst' \in [WorkflowJobs -> [InstanceIds -> Instance]] /\ InstancesSound'
  <1>1. WorkflowJobs \subseteq Jobs
    BY DEF Jobs
  <1> QED
    BY <1>1 DEF ControlInv, SoundTypes, InstancesSound, InstanceSound, Forward, Known, Exists

(***************************************************************************)
(* A pass that is through with its job keeps the rest of its listing.      *)
(***************************************************************************)
LEMMA NextJobSound ==
  ASSUME ControlInv, Forward, NEW r \in Recoverers, DOMAIN rec[r].rows # {}, NextJob(r)
  PROVE  rec' \in [Recoverers -> Pass] /\ PassesSound'
  <1> DEFINE left == DOMAIN rec[r].rows \ {Current(r)}
             p == IF left = {} THEN Idle
                  ELSE [step |-> "next", id |-> 0,
                        rows |-> [j \in left |-> rec[r].rows[j]]]
  <1>1. rec \in [Recoverers -> Pass] /\ rec' = [rec EXCEPT ![r] = p]
    BY DEF ControlInv, SoundTypes, NextJob
  <1>2. rec[r].rows \in [DOMAIN rec[r].rows -> Copy] /\ DOMAIN rec[r].rows \subseteq Jobs
    BY <1>1, ListingRows DEF Pass
  <1>3. p.rows \in [left -> Copy] /\ left \in SUBSET Jobs
    BY <1>2 DEF Idle
  <1>4. 0 \in Recordable
    BY ControlPlaneAssumption DEF Recordable
  <1>5. p \in Pass
    <2>1. p.rows \in Listing
      BY <1>3, ListingRows
    <2>2. CASE left = {}
      BY <2>1, <2>2, <1>4 DEF Pass, Steps, Idle
    <2>3. CASE left # {}
      BY <2>1, <2>3, <1>4 DEF Pass, Steps
    <2> QED
      BY <2>2, <2>3
  <1>6. rec' \in [Recoverers -> Pass] /\ rec'[r] = p
        /\ \A q \in Recoverers : q # r => rec'[q] = rec[q]
    BY <1>1, <1>5
  <1>7. DOMAIN p.rows = left /\ \A j \in left : p.rows[j] = rec[r].rows[j]
    BY DEF Idle
  <1>8. p.step \in {"idle", "next"} /\ (p.step = "idle" <=> left = {})
    BY DEF Idle
  <1>9. PassSound(r)'
    <2>1. PassSound(r)
      BY DEF ControlInv, PassesSound
    <2>2. ASSUME NEW j \in left
          PROVE  /\ ingress'[j] # "idle"
                 /\ j \in WorkflowJobs =>
                      /\ Exists(j, 1)'
                      /\ \/ p.rows[j].dispatches = 0
                         \/ inst'[j][p.rows[j].dispatches].state # "none"
      <3> DEFINE d == rec[r].rows[j].dispatches
      <3>1. ingress'[j] # "idle"
        BY <1>2, <2>1 DEF PassSound, Forward
      <3>2. d \in Recordable
        BY <1>2 DEF Copy
      <3>3. j \in WorkflowJobs => Exists(j, 1) /\ Known(j, d)
        BY <2>1 DEF PassSound
      <3>4. p.rows[j].dispatches = d
        BY <1>7
      <3> HIDE DEF d, p
      <3>5. j \in WorkflowJobs => Exists(j, 1)' /\ (d = 0 \/ inst'[j][d].state # "none")
        BY <3>2, <3>3, KnownStays, FirstStays DEF Known, Exists
      <3> QED
        BY <3>1, <3>4, <3>5
    <2> HIDE DEF p, left
    <2> QED
      BY <1>6, <1>7, <1>8, <2>2 DEF PassSound, Known, Exists
  <1> QED
    BY <1>6, <1>9, PassKept DEF PassesSound

(***************************************************************************)
(* A pass moves on to another step for its job.                            *)
(***************************************************************************)
LEMMA GotoSound ==
  ASSUME ControlInv, Forward, NEW r \in Recoverers, DOMAIN rec[r].rows # {},
         NEW step \in Steps \ {"off", "idle", "next"}, NEW id \in Recordable,
         Goto(r, step, id),
         IF step = "send" THEN Current(r) \in QueueJobs ELSE Current(r) \in WorkflowJobs,
         step = "sync_succeeded" => answered'[Current(r)],
         step = "created" => id # 0 /\ inst'[Current(r)][id].state # "none",
         step = "redispatch" /\ ~blind' /\ Snapshot(r).dispatches # 0 =>
            inst'[Current(r)][Snapshot(r).dispatches].state = "errored"
  PROVE  rec' \in [Recoverers -> Pass] /\ PassesSound'
  <1>1. rec \in [Recoverers -> Pass]
    BY DEF ControlInv, SoundTypes
  <1>2. /\ rec' \in [Recoverers -> Pass]
        /\ rec'[r].step = step /\ rec'[r].id = id /\ rec'[r].rows = rec[r].rows
        /\ \A q \in Recoverers : q # r => rec'[q] = rec[q]
    BY <1>1 DEF Goto, Pass
  <1>3. Current(r)' = Current(r) /\ Snapshot(r)' = Snapshot(r)
    BY <1>2 DEF Current, Snapshot
  <1>4. rec[r].rows \in [DOMAIN rec[r].rows -> Copy] /\ DOMAIN rec[r].rows \subseteq Jobs
    BY <1>1, ListingRows DEF Pass
  <1>5. ASSUME NEW j \in DOMAIN rec[r].rows
        PROVE  /\ ingress'[j] # "idle"
               /\ j \in WorkflowJobs =>
                    /\ Exists(j, 1)'
                    /\ \/ rec[r].rows[j].dispatches = 0
                       \/ inst'[j][rec[r].rows[j].dispatches].state # "none"
    <2> DEFINE d == rec[r].rows[j].dispatches
    <2>0. PassSound(r)
      BY DEF ControlInv, PassesSound
    <2>1. ingress'[j] # "idle"
      BY <1>4, <2>0 DEF PassSound, Forward
    <2>2. d \in Recordable
      BY <1>4 DEF Copy
    <2>3. j \in WorkflowJobs => Exists(j, 1) /\ Known(j, d)
      BY <2>0 DEF PassSound
    <2> HIDE DEF d
    <2>4. j \in WorkflowJobs => Exists(j, 1)' /\ (d = 0 \/ inst'[j][d].state # "none")
      BY <2>2, <2>3, KnownStays, FirstStays DEF Known, Exists
    <2> QED
      BY <2>1, <2>4 DEF d
  <1>6. \A j \in DOMAIN rec'[r].rows :
               /\ ingress'[j] # "idle"
               /\ j \in WorkflowJobs =>
                    /\ inst'[j][1].state # "none"
                    /\ \/ rec'[r].rows[j].dispatches = 0
                       \/ inst'[j][rec'[r].rows[j].dispatches].state # "none"
    BY <1>2, <1>5 DEF Exists
  <1>7. /\ rec'[r].step \in {"off", "idle"} <=> DOMAIN rec'[r].rows = {}
        /\ rec'[r].step = "send" => Current(r)' \in QueueJobs
        /\ rec'[r].step \notin {"off", "idle", "next", "send"} => Current(r)' \in WorkflowJobs
        /\ rec'[r].step = "sync_succeeded" => answered'[Current(r)']
    BY <1>2, <1>3
  <1>8. /\ rec'[r].step = "created" => rec'[r].id # 0 /\ inst'[Current(r)'][rec'[r].id].state # "none"
        /\ rec'[r].step = "redispatch" /\ ~blind' /\ Snapshot(r)'.dispatches # 0 =>
              inst'[Current(r)'][Snapshot(r)'.dispatches].state = "errored"
    BY <1>2, <1>3
  <1>9. PassSound(r)'
    BY <1>6, <1>7, <1>8 DEF PassSound, Known, Exists
  <1> QED
    BY <1>2, <1>9, PassKept DEF PassesSound

LEMMA PassesKept ==
  ASSUME ControlInv, Forward, rec' = rec
  PROVE  rec' \in [Recoverers -> Pass] /\ PassesSound'
  BY PassKept DEF ControlInv, SoundTypes, PassesSound

(***************************************************************************)
(* An instance that exists moves from an active state.                     *)
(***************************************************************************)
LEMMA InstanceMoved ==
  ASSUME ControlInv, NEW j \in WorkflowJobs, NEW i \in InstanceIds, NEW x \in Instance,
         inst' = [inst EXCEPT ![j][i] = x], blind' = blind, ingress' = ingress,
         \A k \in Jobs : answered[k] => answered'[k],
         inst[j][i].state \in ActiveStates, x.state # "none",
         x.state \in {"succeeding", "closing", "complete"} => answered'[j],
         Known(j, x.snap.dispatches)
  PROVE  /\ Forward
         /\ inst' \in [WorkflowJobs -> [InstanceIds -> Instance]] /\ InstancesSound'
  <1>0. inst \in [WorkflowJobs -> [InstanceIds -> Instance]]
    BY DEF ControlInv, SoundTypes
  <1>1. /\ inst' \in [WorkflowJobs -> [InstanceIds -> Instance]]
        /\ inst'[j][i] = x
        /\ \A k \in WorkflowJobs, l \in InstanceIds :
              k # j \/ l # i => inst'[k][l] = inst[k][l]
    BY <1>0
  <1>2. inst[j][i].state \notin {"none", "complete", "errored"}
    BY DEF ActiveStates
  <1>3. Forward
    BY <1>1, <1>2 DEF Forward, Exists
  <1>4. WorkflowJobs \subseteq Jobs /\ 1 \in InstanceIds
    BY ControlPlaneAssumption DEF Jobs, InstanceIds
  <1> SUFFICES ASSUME NEW k \in WorkflowJobs, NEW l \in InstanceIds
               PROVE  InstanceSound(k, l)'
    BY <1>1, <1>3 DEF InstancesSound
  <1> DEFINE d == inst'[k][l].snap.dispatches
  <1>5. d \in Recordable /\ Known(k, d)
    <2>1. inst'[k][l] \in Instance
      BY <1>1
    <2>2. InstanceSound(k, l)
      BY DEF ControlInv, InstancesSound
    <2> QED
      BY <1>1, <2>1, <2>2 DEF InstanceSound, Instance, Copy
  <1>6. d = 0 \/ inst'[k][d].state # "none"
    <2> HIDE DEF d
    <2> QED
      BY <1>3, <1>5, KnownStays DEF Known, Exists
  <1>7. InstanceSound(k, l)
    BY DEF ControlInv, InstancesSound
  <1>8. Exists(k, l)' => Exists(k, l)
    BY <1>1, <1>2 DEF Exists
  <1>9. inst'[k][l].state \in {"succeeding", "closing", "complete"} => answered'[k]
    BY <1>1, <1>4, <1>7 DEF InstanceSound
  <1>10. Exists(k, l)' => Exists(k, 1)' /\ l # MaxAttempts + 2
    BY <1>3, <1>4, <1>7, <1>8 DEF InstanceSound, Forward
  <1>11. Exists(k, l)' /\ ~blind' => \A n \in InstanceIds :
                n < l => inst'[k][n].state \in {"complete", "errored"}
    BY <1>3, <1>7, <1>8 DEF InstanceSound, Forward
  <1> QED
    BY <1>6, <1>9, <1>10, <1>11 DEF InstanceSound, Known, Exists

-----------------------------------------------------------------------------
(* The table, the queue *)

LEMMA FaultCounted ==
  ASSUME SoundTypes, NEW class, Fail(class)
  PROVE  faults' \in 0..MaxFaults
  BY ControlPlaneAssumption DEF SoundTypes, Fail, CanFail

LEMMA PatchSound ==
  ASSUME ControlInv, Forward, NEW j \in Jobs, NEW x, MayWrite(j, x), NEW class,
         PatchOrSwallow(j, x, class)
  PROVE  row' \in [Jobs -> SoundRow] /\ RowsSound' /\ faults' \in 0..MaxFaults
  <1>0. SoundTypes /\ faults \in 0..MaxFaults
    BY DEF ControlInv, SoundTypes
  <1>1. CASE row' = [row EXCEPT ![j] = x] /\ UNCHANGED faults
    BY <1>0, <1>1, RowWritten
  <1>2. CASE Fail(class) /\ UNCHANGED row
    BY <1>0, <1>2, FaultCounted, RowsKept
  <1> QED
    BY <1>1, <1>2 DEF PatchOrSwallow

(***************************************************************************)
(* What the queue does to a message keeps the messages sound.              *)
(***************************************************************************)
LEMMA AckSound ==
  ASSUME ControlInv, Forward, NEW m \in Slots, Ack(m)
  PROVE  msgs' \in [Slots -> Slot] /\ MessagesSound'
  <1>1. FreeSlot \in Slot /\ FreeSlot.state = "free" /\ FreeSlot.job = 0
    BY CopyTypes, ControlPlaneAssumption DEF FreeSlot, Slot
  <1> QED
    BY <1>1, MessagePut DEF Ack

LEMMA SendSound ==
  ASSUME ControlInv, Forward, NEW j \in QueueJobs, ingress'[j] # "idle", Send(j)
  PROVE  msgs' \in [Slots -> Slot] /\ MessagesSound'
  <1>1. Message(j) \in Slot /\ Message(j).state = "ready" /\ Message(j).job = j
    BY CopyTypes, ControlPlaneAssumption DEF Message, Slot, Jobs
  <1>2. PICK m \in Slots : msgs' = [msgs EXCEPT ![m] = Message(j)]
    BY DEF Send
  <1> QED
    BY <1>1, <1>2, MessagePut

LEMMA LiveMessage ==
  ASSUME ControlInv, NEW m \in Slots, Live(m)
  PROVE  /\ msgs[m] \in Slot /\ msgs[m].job \in QueueJobs /\ msgs[m].job \in Jobs
         /\ msgs[m].job \notin WorkflowJobs /\ ingress[msgs[m].job] # "idle"
         /\ msgs[m].snap \in Copy /\ row[msgs[m].job] \in SoundRow
  <1>1. msgs[m] \in Slot /\ msgs[m].snap \in Copy
    BY DEF ControlInv, SoundTypes, Slot
  <1>2. msgs[m].job \in QueueJobs /\ ingress[msgs[m].job] # "idle"
    BY DEF ControlInv, MessagesSound
  <1>3. msgs[m].job \in Jobs /\ msgs[m].job \notin WorkflowJobs
    BY <1>2, JobsAreJobs
  <1> QED
    BY <1>1, <1>2, <1>3 DEF ControlInv, SoundTypes

LEMMA RetrySound ==
  ASSUME ControlInv, Forward, ingress' = ingress, NEW m \in Slots, Live(m), Retry(m)
  PROVE  msgs' \in [Slots -> Slot] /\ MessagesSound'
  <1> DEFINE spent == msgs[m].attempts > MaxRetries
             state == IF spent THEN "dlq" ELSE "ready"
             attempts == IF spent THEN 1 ELSE msgs[m].attempts + 1
             x == [msgs[m] EXCEPT !.state = state, !.attempts = attempts, !.snap = NoSnap]
  <1>0. msgs[m] \in Slot /\ msgs[m].attempts \in 0..(MaxRetries + 1) /\ NoSnap \in Copy
    BY LiveMessage, CopyTypes DEF Slot
  <1>1. state \in {"dlq", "ready"} /\ attempts \in 0..(MaxRetries + 1)
    BY <1>0, ControlPlaneAssumption
  <1>2. msgs' = [msgs EXCEPT ![m].state = state, ![m].attempts = attempts, ![m].snap = NoSnap]
    BY DEF Retry
  <1> HIDE DEF state, attempts
  <1>3. msgs' = [msgs EXCEPT ![m] = x]
    BY <1>0, <1>2 DEF Slot, ControlInv, SoundTypes
  <1>4. x \in Slot /\ x.state \in {"dlq", "ready"} /\ x.job = msgs[m].job
    BY <1>0, <1>1 DEF Slot
  <1> HIDE DEF x
  <1> QED
    BY <1>3, <1>4, LiveMessage, MessagePut

(***************************************************************************)
(* A handler moves its message on with a copy of a row.                    *)
(***************************************************************************)
LEMMA HandlerSound ==
  ASSUME ControlInv, Forward, ingress' = ingress, NEW m \in Slots, Live(m),
         NEW x \in Slot, x.state # "free", x.job = msgs[m].job,
         x.state = "succeeded" => answered'[x.job],
         msgs' = [msgs EXCEPT ![m] = x]
  PROVE  msgs' \in [Slots -> Slot] /\ MessagesSound'
  BY LiveMessage, MessagePut

(***************************************************************************)
(* A step that leaves answers, requests, instances and checks alone.       *)
(***************************************************************************)
LEMMA StillForward ==
  ASSUME ControlInv, answered' = answered, ingress' = ingress, inst' = inst, blind' = blind
  PROVE  Forward
  BY DEF Forward, Exists

-----------------------------------------------------------------------------
(* Ingress *)

LEMMA IngressSound ==
  ASSUME ControlInv, NEW j \in QueueJobs, IngressStep(j) \/ IngressCrash(j)
  PROVE  ControlInv'
  <1>0. SoundTypes /\ j \in Jobs /\ j \notin WorkflowJobs
    BY JobsAreJobs DEF ControlInv
  <1>1. /\ UNCHANGED <<rec, inst, called, answered, blind>>
        /\ ingress' \in [Jobs -> {"idle", "inserted", "sent", "failing", "done"}]
        /\ ingress'[j] # "idle"
        /\ \A k \in Jobs : k # j => ingress'[k] = ingress[k]
    BY <1>0 DEF SoundTypes, IngressStep, Insert, Enqueue, IngressPatch, IngressCrash
  <1>2. Forward
    BY <1>0, <1>1 DEF Forward, Exists
  <1>3. row' \in [Jobs -> SoundRow] /\ RowsSound' /\ msgs' \in [Slots -> Slot]
        /\ MessagesSound' /\ faults' \in 0..MaxFaults
    <2>0. row[j] \in SoundRow /\ faults \in 0..MaxFaults
      BY <1>0 DEF SoundTypes
    <2>1. CASE Insert(j)
      <3> DEFINE x == [NoRow EXCEPT !.status = "queued"]
      <3>1. x \in SoundRow /\ x.status = "queued"
        BY CopyTypes DEF SoundRow, Row, Statuses
      <3>2. MayWrite(j, x)
        BY <1>0, <1>1, <3>1 DEF MayWrite
      <3>3. row' = [row EXCEPT ![j] = x] /\ msgs' = msgs /\ faults' = faults
        BY <2>1 DEF Insert
      <3> HIDE DEF x
      <3> QED
        BY <1>0, <1>2, <2>0, <3>2, <3>3, RowWritten, MessagesKept
    <2>2. CASE Enqueue(j)
      <3>1. row' = row /\ ((Send(j) /\ faults' = faults) \/ (Fail("send") /\ msgs' = msgs))
        BY <2>2 DEF Enqueue
      <3> QED
        BY <1>0, <1>1, <1>2, <2>0, <3>1, RowsKept, SendSound, FaultCounted, MessagesKept
    <2>3. CASE IngressPatch(j)
      <3> DEFINE status == IF ingress[j] = "sent" THEN "dispatched" ELSE "failed"
      <3>1. status \in Statuses /\ status # "succeeded"
        BY DEF Statuses
      <3>2. PatchOrSwallow(j, Stamped(row[j], status), "patch") /\ msgs' = msgs
        BY <2>3 DEF IngressPatch
      <3> HIDE DEF status
      <3>3. MayWrite(j, Stamped(row[j], status))
        BY <1>0, <1>1, <2>0, <3>1, StampedRow DEF MayWrite
      <3> QED
        BY <1>0, <1>2, <3>2, <3>3, PatchSound, MessagesKept
    <2>4. CASE IngressCrash(j)
      BY <1>0, <1>2, <2>4, FaultCounted, RowsKept, MessagesKept DEF IngressCrash
    <2> QED
      BY <2>1, <2>2, <2>3, <2>4 DEF IngressStep
  <1> QED
    BY <1>0, <1>1, <1>2, <1>3, PassesKept, InstancesKept DEF ControlInv, SoundTypes

-----------------------------------------------------------------------------
(* Consumers *)

LEMMA ConsumerSound ==
  ASSUME ControlInv, NEW m \in Slots,
         ConsumerStep(m) \/ ConsumerCrash(m) \/ Duplicate(m)
  PROVE  ControlInv'
  <1> DEFINE j == msgs[m].job
             s == msgs[m].snap
  <1>0. SoundTypes /\ faults \in 0..MaxFaults
    BY DEF ControlInv, SoundTypes
  <1>1. Live(m)
    BY DEF Live, ConsumerStep, ConsumerCrash, Duplicate, Deliver, MarkProcessing, Execute,
           RecordOutcome, Outcomes, DeadLetterLoad, DeadLetterPatch
  <1>2. /\ msgs[m] \in Slot /\ j \in QueueJobs /\ j \in Jobs /\ j \notin WorkflowJobs
        /\ ingress[j] # "idle" /\ s \in Copy /\ row[j] \in SoundRow
    BY <1>1, LiveMessage
  <1>3. /\ UNCHANGED <<ingress, rec, inst, blind>>
        /\ answered' \in {answered, [answered EXCEPT ![j] = TRUE]}
        /\ called' \in {called, [called EXCEPT ![j] = TRUE]}
    BY DEF ConsumerStep, ConsumerCrash, Duplicate, Deliver, MarkProcessing, Execute,
           RecordOutcome, DeadLetterLoad, DeadLetterPatch
  <1>4. answered' \in [Jobs -> BOOLEAN] /\ called' \in [Jobs -> BOOLEAN]
        /\ \A k \in Jobs : answered[k] => answered'[k]
    BY <1>0, <1>2, <1>3 DEF SoundTypes
  <1>5. Forward
    BY <1>3, <1>4 DEF Forward, Exists
  <1>6. ASSUME NEW status \in Statuses, status = "succeeded" => answered'[j]
        PROVE  /\ MayWrite(j, WithMetadataOf(Stamped(row[j], status), s))
               /\ WithMetadataOf(Stamped(row[j], status), s) \in SoundRow
               /\ WithMetadataOf(Stamped(row[j], status), s).status = status
    <2> HIDE DEF j, s
    <2> QED
      BY <1>2, <1>3, <1>6, StampedRow, CarriedRow DEF MayWrite
  <1>7. row' \in [Jobs -> SoundRow] /\ RowsSound' /\ msgs' \in [Slots -> Slot]
        /\ MessagesSound' /\ faults' \in 0..MaxFaults
    <2>1. CASE Deliver(m)
      <3>1. row' = row
        BY <2>1 DEF Deliver
      <3>2. \/ Ack(m) /\ faults' = faults
            \/ Retry(m) /\ faults' = faults
            \/ /\ msgs' = [msgs EXCEPT ![m].state = "marking", ![m].snap = SnapOf(row[j])]
               /\ faults' = faults
            \/ Fail("load") /\ Retry(m)
        BY <2>1 DEF Deliver
      <3> DEFINE x == [msgs[m] EXCEPT !.state = "marking", !.snap = SnapOf(row[j])]
      <3>3. ASSUME msgs' = [msgs EXCEPT ![m].state = "marking", ![m].snap = SnapOf(row[j])]
            PROVE  msgs' \in [Slots -> Slot] /\ MessagesSound'
        <4>0. SnapOf(row[j]) \in Copy
          BY <1>2, CopyTypes
        <4>1. x \in Slot /\ x.state \notin {"free", "succeeded"} /\ x.job = msgs[m].job
          BY <1>2, <4>0 DEF Slot
        <4>2. msgs' = [msgs EXCEPT ![m] = x]
          BY <3>3, <1>0 DEF SoundTypes, Slot
        <4> HIDE DEF x
        <4> QED
          BY <1>1, <1>3, <1>5, <4>1, <4>2, HandlerSound
      <3> QED
        BY <1>0, <1>1, <1>3, <1>5, <3>1, <3>2, <3>3, RowsKept, AckSound, RetrySound, FaultCounted
    <2>2. CASE MarkProcessing(m)
      <3> DEFINE new == [Stamped(row[j], "processing")
                           EXCEPT !.started = IF s.started = "none" THEN "fresh" ELSE s.started]
                 x == [msgs[m] EXCEPT !.state = "calling", !.snap.started = "none"]
      <3>1. new \in SoundRow /\ new.status = "processing"
        <4>1. Stamped(row[j], "processing") \in SoundRow
              /\ Stamped(row[j], "processing").status = "processing"
          BY <1>2, StampedRow DEF Statuses
        <4>2. s.started \in {"none", "fresh", "stale"}
          BY <1>2 DEF Copy, Snap
        <4> QED
          BY <4>1, <4>2 DEF SoundRow, Row
      <3>2. MayWrite(j, WithMetadataOf(new, s))
        <4> HIDE DEF new, j, s
        <4> QED
          BY <1>2, <1>3, <3>1, CarriedRow DEF MayWrite
      <3>3. PatchOrSwallow(j, WithMetadataOf(new, s), "patch")
        BY <2>2 DEF MarkProcessing
      <3>4. msgs' = [msgs EXCEPT ![m] = x]
        BY <1>0, <2>2 DEF MarkProcessing, SoundTypes, Slot
      <3>5. x \in Slot /\ x.state \notin {"free", "succeeded"} /\ x.job = msgs[m].job
        BY <1>2 DEF Slot, Copy, Snap
      <3> HIDE DEF new, x, j, s
      <3> QED
        BY <1>1, <1>2, <1>3, <1>5, <3>2, <3>3, <3>4, <3>5, PatchSound, HandlerSound
    <2>3. CASE Execute(m)
      <3>1. PICK outcome \in Outcomes :
               /\ msgs' = [msgs EXCEPT ![m].state = outcome]
               /\ outcome = "succeeded" => answered' = [answered EXCEPT ![j] = TRUE]
        BY <2>3 DEF Execute
      <3>2. row' = row /\ faults' = faults
        BY <2>3 DEF Execute
      <3> DEFINE x == [msgs[m] EXCEPT !.state = outcome]
      <3>3. msgs' = [msgs EXCEPT ![m] = x]
        BY <1>0, <3>1 DEF SoundTypes, Slot
      <3>4. x \in Slot /\ x.state = outcome /\ x.job = j
        BY <1>2 DEF Slot
      <3>5. outcome # "free" /\ (outcome = "succeeded" => answered'[j])
        BY <1>0, <1>2, <3>1 DEF Outcomes, SoundTypes
      <3> HIDE DEF x
      <3> QED
        BY <1>0, <1>1, <1>3, <1>5, <3>2, <3>3, <3>4, <3>5, RowsKept, HandlerSound
    <2>8. CASE RecordOutcome(m)
      <3> DEFINE new(status) == [WithMetadataOf(Stamped(row[j], status), s)
                                   EXCEPT !.delayed = status = "queued"]
      <3>1. PICK status \in Outcomes :
               /\ PatchOrSwallow(j, new(status), "patch")
               /\ Ack(m) \/ Retry(m)
               /\ status = msgs[m].state /\ answered' = answered
        BY <2>8 DEF RecordOutcome
      <3>2. status \in Statuses /\ (status = "succeeded" => answered'[j])
        BY <1>1, <3>1 DEF Outcomes, Statuses, ControlInv, MessagesSound
      <3>3. new(status) \in SoundRow /\ new(status).status = status
        <4> DEFINE y == WithMetadataOf(Stamped(row[j], status), s)
        <4>1. y \in SoundRow /\ y.status = status
          BY <1>6, <3>2
        <4> HIDE DEF y
        <4>2. [y EXCEPT !.delayed = status = "queued"] \in SoundRow
              /\ [y EXCEPT !.delayed = status = "queued"].status = status
          BY <4>1 DEF SoundRow, Row
        <4> QED
          BY <4>2 DEF y
      <3>4. MayWrite(j, new(status))
        <4> HIDE DEF new, j, s
        <4> QED
          BY <1>2, <1>3, <3>2, <3>3 DEF MayWrite
      <3> HIDE DEF new, j, s
      <3> QED
        BY <1>1, <1>2, <1>3, <1>5, <3>1, <3>4, PatchSound, AckSound, RetrySound
    <2>4. CASE DeadLetterLoad(m)
      <3>1. row' = row
        BY <2>4 DEF DeadLetterLoad
      <3>2. \/ Ack(m) /\ faults' = faults
            \/ /\ msgs' = [msgs EXCEPT ![m].state = "burying", ![m].snap = MetadataOf(row[j])]
               /\ faults' = faults
            \/ Fail("dlq") /\ Ack(m)
        BY <2>4 DEF DeadLetterLoad
      <3> DEFINE x == [msgs[m] EXCEPT !.state = "burying", !.snap = MetadataOf(row[j])]
      <3>3. ASSUME msgs' = [msgs EXCEPT ![m].state = "burying", ![m].snap = MetadataOf(row[j])]
            PROVE  msgs' \in [Slots -> Slot] /\ MessagesSound'
        <4>0. MetadataOf(row[j]) \in Copy
          BY <1>2, CopyTypes
        <4>1. x \in Slot /\ x.state \notin {"free", "succeeded"} /\ x.job = msgs[m].job
          BY <1>2, <4>0 DEF Slot
        <4>2. msgs' = [msgs EXCEPT ![m] = x]
          BY <3>3, <1>0 DEF SoundTypes, Slot
        <4> HIDE DEF x
        <4> QED
          BY <1>1, <1>3, <1>5, <4>1, <4>2, HandlerSound
      <3> QED
        BY <1>0, <1>1, <1>3, <1>5, <3>1, <3>2, <3>3, RowsKept, AckSound, FaultCounted
    <2>5. CASE DeadLetterPatch(m)
      <3>1. PatchOrSwallow(j, WithMetadataOf(Stamped(row[j], "dead_lettered"), s), "dlq")
            /\ Ack(m)
        BY <2>5 DEF DeadLetterPatch
      <3>2. MayWrite(j, WithMetadataOf(Stamped(row[j], "dead_lettered"), s))
        BY <1>6 DEF Statuses
      <3> HIDE DEF j, s
      <3> QED
        BY <1>2, <1>5, <3>1, <3>2, PatchSound, AckSound
    <2>6. CASE ConsumerCrash(m)
      BY <1>0, <1>1, <1>3, <1>5, <2>6, RowsKept, RetrySound, FaultCounted DEF ConsumerCrash
    <2>7. CASE Duplicate(m)
      <3>1. PICK n \in Slots : msgs' = [msgs EXCEPT ![n] = msgs[m]]
        BY <2>7 DEF Duplicate
      <3>2. row' = row /\ Fail("duplicate")
        BY <2>7 DEF Duplicate
      <3>3. msgs[m].state = "ready"
        BY <2>7 DEF Duplicate
      <3> QED
        BY <1>0, <1>2, <1>3, <1>5, <3>1, <3>2, <3>3, RowsKept, MessagePut, FaultCounted
    <2> QED
      BY <2>1, <2>2, <2>3, <2>4, <2>5, <2>6, <2>7, <2>8 DEF ConsumerStep
  <1>8. blind' = blind /\ ingress' = ingress /\ rec' = rec /\ inst' = inst
    BY <1>3
  <1> QED
    BY <1>0, <1>4, <1>5, <1>7, <1>8, PassesKept, InstancesKept DEF ControlInv, SoundTypes

-----------------------------------------------------------------------------
(* Recovery *)

(***************************************************************************)
(* What a pass may rely on at its current job.                             *)
(***************************************************************************)
LEMMA AtJob ==
  ASSUME ControlInv, NEW r \in Recoverers, DOMAIN rec[r].rows # {}
  PROVE  /\ PassSound(r)
         /\ Current(r) \in DOMAIN rec[r].rows /\ Current(r) \in Jobs
         /\ Snapshot(r) \in Copy /\ Snapshot(r).dispatches \in Recordable
         /\ Snapshot(r).instance = Snapshot(r).dispatches
         /\ row[Current(r)] \in SoundRow /\ ingress[Current(r)] # "idle"
         /\ Current(r) \in WorkflowJobs =>
               Exists(Current(r), 1) /\ Known(Current(r), Snapshot(r).dispatches)
  <1>1. SoundTypes /\ PassSound(r)
    BY DEF ControlInv, PassesSound
  <1>2. /\ Current(r) \in DOMAIN rec[r].rows /\ Current(r) \in Jobs
        /\ Snapshot(r) \in Copy
    BY <1>1, CurrentListed
  <1>3. /\ Snapshot(r).dispatches \in Recordable
        /\ Snapshot(r).instance = Snapshot(r).dispatches
    BY <1>2 DEF Copy
  <1>4. ingress[Current(r)] # "idle" /\ row[Current(r)] \in SoundRow
    BY <1>1, <1>2 DEF PassSound, SoundTypes
  <1>5. Current(r) \in WorkflowJobs =>
               Exists(Current(r), 1) /\ Known(Current(r), Snapshot(r).dispatches)
    BY <1>1, <1>2 DEF PassSound, Snapshot
  <1> QED
    BY <1>1, <1>2, <1>3, <1>4, <1>5

(***************************************************************************)
(* A row a pass writes with the metadata it listed.                        *)
(***************************************************************************)
LEMMA PassWrites ==
  ASSUME ControlInv, ingress' = ingress, NEW r \in Recoverers, DOMAIN rec[r].rows # {},
         NEW status \in Statuses, status = "succeeded" => answered'[Current(r)]
  PROVE  LET x == WithMetadataOf(Stamped(row[Current(r)], status), Snapshot(r))
         IN  MayWrite(Current(r), x) /\ x \in SoundRow /\ x.status = status
             /\ x.dispatches = Snapshot(r).dispatches
  <1> DEFINE j == Current(r)
             s == Snapshot(r)
             x == WithMetadataOf(Stamped(row[j], status), s)
  <1>1. /\ j \in Jobs /\ s \in Copy /\ row[j] \in SoundRow /\ ingress[j] # "idle"
        /\ j \in WorkflowJobs => Exists(j, 1) /\ Known(j, s.dispatches)
    BY AtJob
  <1> HIDE DEF j, s
  <1>2. x \in SoundRow /\ x.status = status /\ x.dispatches = s.dispatches
    BY <1>1, StampedRow, CarriedRow
  <1>3. MayWrite(j, x)
    <2>1. status = "succeeded" => answered'[j]
      BY DEF j
    <2> HIDE DEF x
    <2> QED
      BY <1>1, <1>2, <2>1 DEF MayWrite
  <1> QED
    BY <1>2, <1>3 DEF j, s

(***************************************************************************)
(* A recovery patch that applies and goes on soundly, or fails and ends    *)
(* the job's turn.                                                         *)
(***************************************************************************)
LEMMA RecoveryPatchSound ==
  ASSUME ControlInv, Forward, NEW r \in Recoverers, DOMAIN rec[r].rows # {},
         NEW j \in Jobs, NEW x, MayWrite(j, x), NEW next,
         next => rec' \in [Recoverers -> Pass] /\ PassesSound',
         RecoveryPatch(r, j, x, next)
  PROVE  /\ row' \in [Jobs -> SoundRow] /\ RowsSound'
         /\ rec' \in [Recoverers -> Pass] /\ PassesSound'
         /\ faults' \in 0..MaxFaults
  <1>0. SoundTypes /\ faults \in 0..MaxFaults
    BY DEF ControlInv, SoundTypes
  <1>1. CASE row' = [row EXCEPT ![j] = x] /\ next /\ UNCHANGED faults
    BY <1>0, <1>1, RowWritten
  <1>2. CASE Fail("recovery_patch") /\ NextJob(r) /\ UNCHANGED row
    BY <1>0, <1>2, RowsKept, NextJobSound, FaultCounted
  <1> QED
    BY <1>1, <1>2 DEF RecoveryPatch

LEMMA DeadLetteredWrites ==
  ASSUME ControlInv, ingress' = ingress, NEW r \in Recoverers, DOMAIN rec[r].rows # {}
  PROVE  MayWrite(Current(r), DeadLettered(Current(r), Snapshot(r)))
  <1> DEFINE x == WithMetadataOf(Stamped(row[Current(r)], "dead_lettered"), Snapshot(r))
             p == PriorRequeueAttempts(Snapshot(r))
             y == [x EXCEPT !.requeues = p]
  <1>1. MayWrite(Current(r), x) /\ x \in SoundRow /\ x.status = "dead_lettered"
    BY PassWrites DEF Statuses
  <1>2. p \in 0..MaxAttempts
    BY AtJob, PriorAttempts
  <1>3. DeadLettered(Current(r), Snapshot(r)) = y
    BY DEF DeadLettered
  <1> HIDE DEF x, p
  <1>4. y \in SoundRow /\ y.status = "dead_lettered" /\ y.dispatches = x.dispatches
    BY <1>1, <1>2 DEF SoundRow, Row
  <1>5. MayWrite(Current(r), y)
    BY <1>1, <1>4 DEF MayWrite
  <1> QED
    BY <1>3, <1>5

LEMMA ListJobsSound ==
  ASSUME ControlInv, NEW r \in Recoverers, ListJobs(r)
  PROVE  ControlInv'
  <1> DEFINE jobs == {j \in Queried : Recoverable(j, row[j])}
             rows == [j \in jobs |-> MetadataOf(row[j])]
             p == [step |-> "next", id |-> 0, rows |-> rows]
  <1>1. /\ UNCHANGED <<row, ingress, msgs, inst, called, answered, faults, blind>>
        /\ jobs # {} /\ rec' = [rec EXCEPT ![r] = p]
    BY DEF ListJobs
  <1>2. Forward
    BY <1>1, StillForward
  <1>3. jobs \subseteq Jobs /\ rec \in [Recoverers -> Pass] /\ row \in [Jobs -> SoundRow]
    BY DEF Queried, ControlInv, SoundTypes
  <1>4. rows \in [jobs -> Copy]
    BY <1>3, CopyTypes
  <1>5. p \in Pass
    <2>1. rows \in Listing
      BY <1>3, <1>4, ListingRows
    <2>2. 0 \in Recordable
      BY ControlPlaneAssumption DEF Recordable
    <2> HIDE DEF rows
    <2> QED
      BY <2>1, <2>2 DEF Pass, Steps
  <1>6. ASSUME NEW j \in jobs
        PROVE  /\ ingress[j] # "idle" /\ rows[j].dispatches = row[j].dispatches
               /\ j \in WorkflowJobs => Exists(j, 1) /\ Known(j, row[j].dispatches)
    <2>1. j \in Jobs /\ row[j].status # "absent"
      BY <1>3 DEF Recoverable, StaleProcessing
    <2>2. rows[j].dispatches = row[j].dispatches
      BY DEF MetadataOf, SnapOf
    <2> QED
      BY <2>1, <2>2 DEF ControlInv, RowsSound
  <1>7. PassSound(r)'
    <2>1. rec'[r] = p
      BY <1>1, <1>3
    <2>2. rec'[r].step = "next" /\ rec'[r].rows = rows /\ DOMAIN rows = jobs
      BY <2>1
    <2>3. \A j \in DOMAIN rec'[r].rows :
             /\ ingress'[j] # "idle"
             /\ j \in WorkflowJobs =>
                  /\ inst'[j][1].state # "none"
                  /\ \/ rec'[r].rows[j].dispatches = 0
                     \/ inst'[j][rec'[r].rows[j].dispatches].state # "none"
      <3> HIDE DEF rows, jobs
      <3> QED
        BY <1>1, <1>6, <2>2 DEF Known, Exists
    <2> HIDE DEF rows, jobs, p
    <2> QED
      BY <1>1, <2>2, <2>3 DEF PassSound, Known, Exists
  <1> HIDE DEF jobs, rows, p
  <1>8. rec' \in [Recoverers -> Pass] /\ PassesSound'
    BY <1>1, <1>2, <1>3, <1>5, <1>7, PassKept DEF PassesSound
  <1> QED
    BY <1>1, <1>2, <1>8, RowsKept, MessagesKept, InstancesKept DEF ControlInv, SoundTypes

LEMMA RequeueSound ==
  ASSUME ControlInv, NEW r \in Recoverers,
         RequeueQueueJob(r) \/ SendRequeued(r) \/ RecoveryCrash(r)
  PROVE  ControlInv'
  <1>0. /\ UNCHANGED <<ingress, inst, called, answered, blind>>
        /\ SoundTypes /\ PassSound(r)
    BY DEF RequeueQueueJob, SendRequeued, RecoveryCrash, ControlInv, PassesSound
  <1>1. Forward
    BY <1>0, StillForward
  <1>2. DOMAIN rec[r].rows # {}
    BY <1>0 DEF RequeueQueueJob, SendRequeued, RecoveryCrash, At, PassSound
  <1>3. /\ row' \in [Jobs -> SoundRow] /\ RowsSound'
        /\ rec' \in [Recoverers -> Pass] /\ PassesSound'
        /\ msgs' \in [Slots -> Slot] /\ MessagesSound'
        /\ faults' \in 0..MaxFaults
    <2>1. CASE RequeueQueueJob(r)
      <3> DEFINE j == Current(r)
                 s == Snapshot(r)
                 prior == PriorRequeueAttempts(s)
                 y == WithMetadataOf(Stamped(row[j], "dispatched"), s)
                 x == [y EXCEPT !.started = "none", !.requeues = prior + 1]
      <3>0. msgs' = msgs /\ j \in QueueJobs /\ j \in Jobs
        BY <2>1, JobsAreJobs DEF RequeueQueueJob
      <3>1. CASE prior >= MaxAttempts /\ RecoveryPatch(r, j, DeadLettered(j, s), NextJob(r))
        BY <1>0, <1>1, <1>2, <3>0, <3>1, DeadLetteredWrites, RecoveryPatchSound, NextJobSound,
           MessagesKept
      <3>2. CASE prior < MaxAttempts /\ RecoveryPatch(r, j, x, Goto(r, "send", 0))
        <4>1. prior \in 0..MaxAttempts
          BY <1>2, AtJob, PriorAttempts
        <4>2. MayWrite(j, y) /\ y \in SoundRow /\ y.status = "dispatched"
          BY <1>0, <1>2, PassWrites DEF Statuses
        <4>3. prior + 1 \in 0..MaxAttempts
          BY <3>2, <4>1, ControlPlaneAssumption
        <4> HIDE DEF prior, y
        <4>4. x \in SoundRow /\ x.status = "dispatched" /\ x.dispatches = y.dispatches
          BY <4>2, <4>3 DEF SoundRow, Row
        <4>5. MayWrite(j, x)
          BY <4>2, <4>4 DEF MayWrite
        <4>6. 0 \in Recordable /\ "send" \in Steps \ {"off", "idle", "next"}
          BY ControlPlaneAssumption DEF Recordable, Steps
        <4>7. Goto(r, "send", 0) => rec' \in [Recoverers -> Pass] /\ PassesSound'
          BY <1>1, <1>2, <3>0, <4>6, GotoSound
        <4> HIDE DEF x
        <4> QED
          BY <1>1, <1>2, <3>0, <3>2, <4>5, <4>7, RecoveryPatchSound, MessagesKept
      <3> QED
        BY <2>1, <3>1, <3>2 DEF RequeueQueueJob
    <2>2. CASE SendRequeued(r)
      <3>1. /\ rec[r].step = "send" /\ NextJob(r) /\ row' = row
            /\ \/ Send(Current(r)) /\ faults' = faults
               \/ Fail("recovery_send") /\ msgs' = msgs
        BY <2>2 DEF SendRequeued, At
      <3>2. Current(r) \in QueueJobs /\ ingress'[Current(r)] # "idle"
        BY <1>0, <1>2, <3>1, AtJob DEF PassSound
      <3>3. faults' = faults => faults' \in 0..MaxFaults
        BY <1>0 DEF SoundTypes
      <3> QED
        BY <1>0, <1>1, <1>2, <3>1, <3>2, <3>3, RowsKept, NextJobSound, SendSound, FaultCounted,
           MessagesKept
    <2>3. CASE RecoveryCrash(r)
      <3>1. rec' = [rec EXCEPT ![r] = Idle] /\ row' = row /\ msgs' = msgs /\ Fail("recovery_crash")
        BY <2>3 DEF RecoveryCrash
      <3>2. Idle \in Pass /\ Idle.step = "idle" /\ DOMAIN Idle.rows = {}
        <4>1. << >> \in [{} -> Copy]
          OBVIOUS
        <4>2. << >> \in Listing
          BY <4>1, ListingRows
        <4> QED
          BY <4>2, ControlPlaneAssumption DEF Idle, Pass, Steps, Recordable
      <3>3. rec' \in [Recoverers -> Pass] /\ rec'[r] = Idle
            /\ \A q \in Recoverers : q # r => rec'[q] = rec[q]
        BY <1>0, <3>1, <3>2 DEF SoundTypes
      <3>4. PassSound(r)'
        BY <3>2, <3>3 DEF PassSound
      <3> QED
        BY <1>0, <1>1, <3>1, <3>3, <3>4, PassKept, RowsKept, MessagesKept, FaultCounted
           DEF PassesSound
    <2> QED
      BY <2>1, <2>2, <2>3
  <1> QED
    BY <1>0, <1>1, <1>3, InstancesKept DEF ControlInv, SoundTypes

(***************************************************************************)
(* Where a status check goes is sound: success only from a complete        *)
(* instance, a redispatch only from one that ended badly.                  *)
(***************************************************************************)
LEMMA CheckInstanceSound ==
  ASSUME ControlInv, NEW r \in Recoverers, CheckInstance(r)
  PROVE  ControlInv'
  <1> DEFINE j == Current(r)
             i == Snapshot(r).instance
  <1>0. /\ UNCHANGED <<row, ingress, msgs, inst, called, answered>>
        /\ SoundTypes /\ DOMAIN rec[r].rows # {} /\ j \in WorkflowJobs
    BY DEF CheckInstance, At, ControlInv
  <1>1. /\ PassSound(r) /\ i = Snapshot(r).dispatches /\ i \in Recordable
        /\ Exists(j, 1) /\ Known(j, i)
    BY <1>0, AtJob
  <1>2. 0 \in Recordable /\ (i # 0 => i \in InstanceIds)
    BY <1>1, ControlPlaneAssumption DEF Recordable, InstanceIds
  <1>3. blind' \in BOOLEAN /\ (blind => blind')
    BY <1>0 DEF CheckInstance, SoundTypes
  <1>4. Forward
    BY <1>0, <1>3 DEF Forward, Exists
  <1>5. rec' \in [Recoverers -> Pass] /\ PassesSound' /\ faults' \in 0..MaxFaults
    <2>0. faults' = faults => faults' \in 0..MaxFaults
      BY <1>0 DEF SoundTypes
    <2>1. CASE i = 0 /\ Goto(r, "redispatch", 0) /\ UNCHANGED <<blind, faults>>
      BY <1>0, <1>1, <1>2, <1>4, <2>0, <2>1, GotoSound DEF Steps
    <2>2. CASE i # 0 /\ Goto(r, Branch(inst[j][i].state), i) /\ UNCHANGED <<blind, faults>>
      <3> DEFINE st == inst[j][i].state
      <3>1. st \in InstanceStates /\ st # "none"
        BY <1>0, <1>1, <1>2, <2>2 DEF SoundTypes, Instance, Known, Exists
      <3>2. /\ Branch(st) \in {"redispatch", "sync_succeeded", "sync_dispatched", "sync_processing"}
            /\ Branch(st) = "redispatch" => st = "errored"
            /\ Branch(st) = "sync_succeeded" => st = "complete"
        <4> HIDE DEF st
        <4>1. CASE st = "errored"
          BY <4>1 DEF Branch, ActiveStates
        <4>2. CASE st = "complete"
          BY <4>2 DEF Branch, ActiveStates
        <4>3. CASE st = "queued"
          BY <4>3 DEF Branch, ActiveStates
        <4>4. CASE st \in ActiveStates \ {"queued"}
          BY <4>4 DEF Branch, ActiveStates
        <4> QED
          BY <3>1, <4>1, <4>2, <4>3, <4>4 DEF InstanceStates, ActiveStates
      <3>3. st = "complete" => answered'[j]
        BY <1>0, <1>2, <2>2 DEF ControlInv, InstancesSound, InstanceSound
      <3>4. st = "errored" => inst'[j][Snapshot(r).dispatches].state = "errored"
        BY <1>0, <1>1
      <3>5. Branch(st) \in Steps \ {"off", "idle", "next"}
            /\ Branch(st) # "send" /\ Branch(st) # "created"
        BY <3>2 DEF Steps
      <3>6. Goto(r, Branch(st), i)
        BY <2>2
      <3> HIDE DEF st
      <3> QED
        BY <1>0, <1>1, <1>4, <2>0, <2>2, <3>2, <3>3, <3>4, <3>5, <3>6, GotoSound
    <2>3. CASE i # 0 /\ Fail("status_check") /\ blind' = TRUE /\ Goto(r, "redispatch", 0)
      BY <1>0, <1>2, <1>4, <2>3, GotoSound, FaultCounted DEF Steps
    <2> QED
      BY <2>1, <2>2, <2>3 DEF CheckInstance
  <1> QED
    BY <1>0, <1>3, <1>4, <1>5, RowsKept, MessagesKept, InstancesKept DEF ControlInv, SoundTypes

(***************************************************************************)
(* Bringing the row in line with the instance.                             *)
(***************************************************************************)
LEMMA SyncRowSound ==
  ASSUME ControlInv, NEW r \in Recoverers, SyncRow(r)
  PROVE  ControlInv'
  <1>1. PICK step \in {"sync_succeeded", "sync_dispatched", "sync_processing"},
             status \in {"succeeded", "dispatched", "processing"} :
          /\ At(r, step) /\ (status = "succeeded" => step = "sync_succeeded")
          /\ LET new == [row EXCEPT ![Current(r)] =
                            WithMetadataOf(Stamped(row[Current(r)], status), Snapshot(r))]
             IN  \/ row' = new /\ NextJob(r) /\ UNCHANGED <<blind, faults>>
                 \/ /\ Fail("recovery_patch") /\ row' \in {row, new}
                    /\ blind' = TRUE /\ Goto(r, "redispatch", 0)
    BY DEF SyncRow
  <1> DEFINE x == WithMetadataOf(Stamped(row[Current(r)], status), Snapshot(r))
  <1>2. /\ UNCHANGED <<ingress, msgs, inst, called, answered>> /\ SoundTypes
        /\ DOMAIN rec[r].rows # {} /\ rec[r].step = step
    BY <1>1 DEF SyncRow, At, ControlInv
  <1>3. blind' \in BOOLEAN /\ (blind => blind')
    BY <1>1, <1>2 DEF SoundTypes
  <1>4. Forward
    BY <1>2, <1>3 DEF Forward, Exists
  <1>5. Current(r) \in WorkflowJobs /\ Current(r) \in Jobs
        /\ (status = "succeeded" => answered'[Current(r)])
    BY <1>1, <1>2, AtJob DEF PassSound
  <1>6. MayWrite(Current(r), x)
    BY <1>2, <1>5, PassWrites DEF Statuses
  <1>7. /\ row' = [row EXCEPT ![Current(r)] = x] \/ row' = row
        /\ \/ NextJob(r) /\ UNCHANGED <<blind, faults>>
           \/ Fail("recovery_patch") /\ blind' = TRUE /\ Goto(r, "redispatch", 0)
    BY <1>1
  <1> HIDE DEF x
  <1>8. row' \in [Jobs -> SoundRow] /\ RowsSound'
    BY <1>4, <1>5, <1>6, <1>7, RowWritten, RowsKept
  <1>9. rec' \in [Recoverers -> Pass] /\ PassesSound' /\ faults' \in 0..MaxFaults
    <2>1. 0 \in Recordable /\ "redispatch" \in Steps \ {"off", "idle", "next"}
      BY ControlPlaneAssumption DEF Recordable, Steps
    <2>2. faults' = faults => faults' \in 0..MaxFaults
      BY <1>2 DEF SoundTypes
    <2> QED
      BY <1>2, <1>4, <1>5, <1>7, <2>1, <2>2, NextJobSound, GotoSound, FaultCounted
  <1> QED
    BY <1>2, <1>3, <1>4, <1>8, <1>9, MessagesKept, InstancesKept DEF ControlInv, SoundTypes

(***************************************************************************)
(* A new instance comes after the one recorded, within the ceiling, and,   *)
(* unless a check has failed, after all earlier ones have ended.           *)
(***************************************************************************)
LEMMA InstanceCreated ==
  ASSUME ControlInv, NEW r \in Recoverers, At(r, "redispatch"),
         PriorRequeueAttempts(Snapshot(r)) < MaxAttempts,
         NEW id, id = Snapshot(r).dispatches + 1,
         inst[Current(r)][id].state = "none",
         inst' = [inst EXCEPT ![Current(r)][id].state = "queued"],
         UNCHANGED <<ingress, answered, blind>>
  PROVE  /\ Forward /\ id \in Recordable \ {0} /\ inst'[Current(r)][id].state # "none"
         /\ inst' \in [WorkflowJobs -> [InstanceIds -> Instance]] /\ InstancesSound'
  <1> DEFINE j == Current(r)
             d == Snapshot(r).dispatches
  <1>0. DOMAIN rec[r].rows # {} /\ rec[r].step = "redispatch"
    BY DEF At
  <1>1. /\ PassSound(r) /\ Snapshot(r) \in Copy /\ d \in Recordable
        /\ j \in WorkflowJobs => Exists(j, 1) /\ Known(j, d)
    BY <1>0, AtJob
  <1>2. j \in WorkflowJobs /\ (~blind /\ d # 0 => inst[j][d].state = "errored")
    BY <1>0, <1>1 DEF PassSound
  <1>3. d <= PriorRequeueAttempts(Snapshot(r)) + 1
        /\ PriorRequeueAttempts(Snapshot(r)) \in 0..MaxAttempts
    BY <1>1, PriorAttempts
  <1> HIDE DEF j, d
  <1>4. /\ d \in 0..MaxAttempts /\ id = d + 1
        /\ id \in Recordable \ {0} /\ id \in InstanceIds /\ id # MaxAttempts + 2
        /\ 1 \in InstanceIds /\ (d # 0 => d \in InstanceIds)
        /\ InstanceIds \subseteq Nat \ {0}
    BY <1>1, <1>3, ControlPlaneAssumption DEF Recordable, InstanceIds, d
  <1>5. inst \in [WorkflowJobs -> [InstanceIds -> Instance]]
    BY DEF ControlInv, SoundTypes
  <1>6. /\ inst' \in [WorkflowJobs -> [InstanceIds -> Instance]]
        /\ inst'[j][id].state = "queued" /\ inst'[j][id].snap = inst[j][id].snap
        /\ \A k \in WorkflowJobs, l \in InstanceIds :
              k # j \/ l # id => inst'[k][l] = inst[k][l]
    BY <1>2, <1>4, <1>5 DEF Instance, InstanceStates, ActiveStates, j
  <1>7. inst[j][id].state = "none"
    BY DEF j
  <1>8. Forward
    BY <1>6, <1>7 DEF Forward, Exists
  <1>9. ASSUME NEW k \in WorkflowJobs, NEW l \in InstanceIds
        PROVE  InstanceSound(k, l)'
    <2> DEFINE n == inst[k][l].snap.dispatches
    <2>1. InstanceSound(k, l) /\ n \in Recordable
      BY <1>5 DEF ControlInv, InstancesSound, Instance, Copy
    <2>2. inst'[k][l].snap.dispatches = n
      BY <1>6
    <2>3. n = 0 \/ inst'[k][n].state # "none"
      <3>1. Known(k, n)
        BY <2>1 DEF InstanceSound
      <3> HIDE DEF n
      <3> QED
        BY <1>8, <2>1, <3>1, KnownStays DEF Known, Exists
    <2>4. inst'[k][l].state \in {"succeeding", "closing", "complete"} => answered'[k]
      BY <1>6, <2>1 DEF InstanceSound
    <2>5. Exists(k, l)' => Exists(k, 1)' /\ l # MaxAttempts + 2
      <3>1. CASE k = j /\ l = id
        BY <1>1, <1>2, <1>4, <1>8, <3>1, FirstStays
      <3>2. CASE k # j \/ l # id
        BY <1>6, <1>8, <2>1, <3>2, FirstStays DEF InstanceSound, Exists
      <3> QED
        BY <3>1, <3>2
    <2>6. ASSUME Exists(k, l)', ~blind', NEW q \in InstanceIds, q < l
          PROVE  inst'[k][q].state \in {"complete", "errored"}
      <3>0. ~blind
        BY <2>6
      <3>1. CASE k = j /\ l = id
        <4>1. q <= d /\ d # 0 /\ inst[j][d].state = "errored"
          BY <1>2, <1>4, <2>6, <3>0, <3>1
        <4>2. InstanceSound(j, d)
          BY <1>2, <1>4, <4>1 DEF ControlInv, InstancesSound
        <4>3. q = d \/ q < d
          BY <1>4, <4>1
        <4>4. inst[j][q].state \in {"complete", "errored"}
          BY <3>0, <4>1, <4>2, <4>3 DEF InstanceSound, Exists
        <4> QED
          BY <1>2, <1>8, <3>1, <4>4 DEF Forward
      <3>2. CASE k # j \/ l # id
        <4>1. inst[k][q].state \in {"complete", "errored"}
          BY <1>6, <2>1, <2>6, <3>0, <3>2 DEF InstanceSound, Exists
        <4> QED
          BY <1>8, <4>1 DEF Forward
      <3> QED
        BY <3>1, <3>2
    <2> HIDE DEF n
    <2> QED
      BY <2>2, <2>3, <2>4, <2>5, <2>6 DEF InstanceSound, Known, Exists
  <1> QED
    BY <1>4, <1>6, <1>8, <1>9 DEF InstancesSound, j

LEMMA RedispatchSound ==
  ASSUME ControlInv, NEW r \in Recoverers, Redispatch(r)
  PROVE  ControlInv'
  <1> DEFINE j == Current(r)
             s == Snapshot(r)
             id == s.dispatches + 1
  <1>0. /\ UNCHANGED <<ingress, msgs, called, answered, blind>> /\ SoundTypes
        /\ At(r, "redispatch") /\ DOMAIN rec[r].rows # {} /\ rec[r].step = "redispatch"
    BY DEF Redispatch, At, ControlInv
  <1>1. j \in WorkflowJobs /\ j \in Jobs
    BY <1>0, AtJob DEF PassSound
  <1>2. CASE RecoveryPatch(r, j, DeadLettered(j, s), NextJob(r)) /\ UNCHANGED inst
    <2>1. Forward
      BY <1>0, <1>2, StillForward
    <2>2. /\ row' \in [Jobs -> SoundRow] /\ RowsSound'
          /\ rec' \in [Recoverers -> Pass] /\ PassesSound'
          /\ faults' \in 0..MaxFaults
      BY <1>0, <1>1, <1>2, <2>1, DeadLetteredWrites, RecoveryPatchSound, NextJobSound
    <2> QED
      BY <1>0, <1>2, <2>1, <2>2, MessagesKept, InstancesKept DEF ControlInv, SoundTypes
  <1>3. CASE /\ PriorRequeueAttempts(s) < MaxAttempts
             /\ inst[j][id].state = "none"
             /\ inst' = [inst EXCEPT ![j][id].state = "queued"]
             /\ Goto(r, "created", id)
             /\ UNCHANGED <<row, faults>>
    <2>1. /\ Forward /\ id \in Recordable \ {0} /\ inst'[j][id].state # "none"
          /\ inst' \in [WorkflowJobs -> [InstanceIds -> Instance]] /\ InstancesSound'
      BY <1>0, <1>3, InstanceCreated
    <2>2. rec' \in [Recoverers -> Pass] /\ PassesSound'
      <3>1. "created" \in Steps \ {"off", "idle", "next"}
        BY DEF Steps
      <3> HIDE DEF id
      <3> QED
        BY <1>0, <1>1, <1>3, <2>1, <3>1, GotoSound
    <2> QED
      BY <1>0, <1>3, <2>1, <2>2, RowsKept, MessagesKept DEF ControlInv, SoundTypes
  <1>4. CASE NextJob(r) /\ UNCHANGED <<inst, row, faults>>
    <2>1. Forward
      BY <1>0, <1>4, StillForward
    <2> QED
      BY <1>0, <1>4, <2>1, NextJobSound, RowsKept, MessagesKept, InstancesKept
         DEF ControlInv, SoundTypes
  <1> QED
    BY <1>2, <1>3, <1>4 DEF Redispatch, DispatchInstance, InstanceId

LEMMA PatchRedispatchedSound ==
  ASSUME ControlInv, NEW r \in Recoverers, PatchRedispatched(r)
  PROVE  ControlInv'
  <1> DEFINE j == Current(r)
             y == WithMetadataOf(Stamped(row[j], "dispatched"), Snapshot(r))
             x == [y EXCEPT !.started = "none", !.dispatches = rec[r].id,
                            !.instance = rec[r].id]
  <1>0. /\ UNCHANGED <<ingress, msgs, inst, called, answered, blind>> /\ SoundTypes
        /\ DOMAIN rec[r].rows # {} /\ rec[r].step = "created"
        /\ RecoveryPatch(r, j, x, NextJob(r))
    BY DEF PatchRedispatched, At, ControlInv
  <1>1. j \in WorkflowJobs /\ j \in Jobs /\ Exists(j, rec[r].id) /\ Exists(j, 1)
    BY <1>0, AtJob DEF PassSound
  <1>2. Forward
    BY <1>0, StillForward
  <1>3. rec[r].id \in Recordable
    BY <1>0 DEF SoundTypes, Pass
  <1>4. MayWrite(j, y) /\ y \in SoundRow /\ y.status = "dispatched"
    BY <1>0, PassWrites DEF Statuses
  <1> HIDE DEF y
  <1>5. x \in SoundRow /\ x.status = "dispatched" /\ x.dispatches = rec[r].id
    <2>1. rec[r].id \in Nat
      BY <1>3, ControlPlaneAssumption DEF Recordable
    <2> QED
      BY <1>3, <1>4, <2>1 DEF SoundRow, Row
  <1> HIDE DEF x
  <1>6. MayWrite(j, x)
    BY <1>1, <1>4, <1>5 DEF MayWrite, Known
  <1>7. NextJob(r) => rec' \in [Recoverers -> Pass] /\ PassesSound'
    BY <1>0, <1>2, NextJobSound
  <1>8. /\ row' \in [Jobs -> SoundRow] /\ RowsSound'
        /\ rec' \in [Recoverers -> Pass] /\ PassesSound'
        /\ faults' \in 0..MaxFaults
    BY <1>0, <1>1, <1>2, <1>6, <1>7, RecoveryPatchSound
  <1> QED
    BY <1>0, <1>2, <1>8, MessagesKept, InstancesKept DEF ControlInv, SoundTypes

-----------------------------------------------------------------------------
(* Instances and clocks *)

(***************************************************************************)
(* An instance that takes a step: what the row is written with is what the *)
(* instance loaded.                                                        *)
(***************************************************************************)
LEMMA InstanceStepSound ==
  ASSUME ControlInv, NEW j \in WorkflowJobs, NEW i \in InstanceIds, InstanceStep(j, i)
  PROVE  ControlInv'
  <1> DEFINE s == inst[j][i].snap
  <1>0. SoundTypes /\ j \in Jobs /\ inst[j][i] \in Instance /\ row[j] \in SoundRow
        /\ s \in Copy /\ faults \in 0..MaxFaults
    BY JobsAreJobs DEF ControlInv, SoundTypes, Instance
  <1>1. /\ UNCHANGED <<ingress, msgs, rec, blind>>
        /\ inst[j][i].state \in ActiveStates
        /\ answered' \in {answered, [answered EXCEPT ![j] = TRUE]}
        /\ called' \in {called, [called EXCEPT ![j] = TRUE]}
    BY DEF InstanceStep, InstanceLoad, InstanceMark, InstanceExecute, InstanceRecord,
           InstanceEnd, ActiveStates
  <1>2. /\ answered' \in [Jobs -> BOOLEAN] /\ called' \in [Jobs -> BOOLEAN]
        /\ \A k \in Jobs : answered[k] => answered'[k]
    BY <1>0, <1>1 DEF SoundTypes
  <1>3. /\ InstanceSound(j, i) /\ Exists(j, i) /\ Exists(j, 1)
        /\ Known(j, s.dispatches) /\ Known(j, row[j].dispatches)
        /\ ingress'[j] # "idle"
    <2>1. InstanceSound(j, i) /\ Exists(j, i)
      BY <1>1 DEF ControlInv, InstancesSound, Exists, ActiveStates
    <2>2. Exists(j, 1) /\ Known(j, s.dispatches)
      BY <2>1 DEF InstanceSound
    <2>3. Known(j, row[j].dispatches) /\ ingress[j] # "idle"
      BY <1>0, JobsAreJobs DEF ControlInv, RowsSound
    <2> QED
      BY <1>1, <2>1, <2>2, <2>3
  <1>4. ASSUME NEW state \in InstanceStates \ {"none"}, SetInstance(j, i, state),
               state \in {"succeeding", "closing", "complete"} => answered'[j]
        PROVE  /\ Forward
               /\ inst' \in [WorkflowJobs -> [InstanceIds -> Instance]] /\ InstancesSound'
    <2> DEFINE snap == IF state \in ActiveStates THEN s ELSE NoSnap
               x == [inst[j][i] EXCEPT !.state = state, !.snap = snap]
    <2>1. snap \in Copy /\ Known(j, snap.dispatches)
      BY <1>0, <1>3, CopyTypes DEF NoSnap, NoRow, SnapOf, Known
    <2>2. inst' = [inst EXCEPT ![j][i].state = state, ![j][i].snap = snap]
      BY <1>4 DEF SetInstance
    <2> HIDE DEF snap
    <2>3. x \in Instance /\ x.state = state /\ x.snap = snap
      BY <1>0, <2>1 DEF Instance
    <2>4. inst' = [inst EXCEPT ![j][i] = x]
      BY <1>0, <2>2 DEF SoundTypes, Instance
    <2> HIDE DEF x
    <2> QED
      BY <1>1, <1>2, <1>4, <2>1, <2>3, <2>4, InstanceMoved
  <1>5. ASSUME NEW status \in Statuses, status = "succeeded" => answered'[j]
        PROVE  /\ MayWrite(j, WithMetadataOf(Stamped(row[j], status), s))
               /\ WithMetadataOf(Stamped(row[j], status), s) \in SoundRow
    <2> HIDE DEF s
    <2> QED
      BY <1>0, <1>3, <1>5, StampedRow, CarriedRow DEF MayWrite
  <1>6. /\ Forward /\ row' \in [Jobs -> SoundRow] /\ RowsSound'
        /\ inst' \in [WorkflowJobs -> [InstanceIds -> Instance]] /\ InstancesSound'
        /\ faults' \in 0..MaxFaults
    <2>0. {"executing", "succeeding", "failing", "closing", "ending", "complete", "errored"}
             \subseteq InstanceStates \ {"none"}
      BY DEF InstanceStates, ActiveStates
    <2>1. CASE InstanceLoad(j, i)
      <3> DEFINE x == [state |-> "loaded", snap |-> SnapOf(row[j])]
      <3>0. row' = row
        BY <2>1 DEF InstanceLoad
      <3>1. CASE inst' = [inst EXCEPT ![j][i] = x] /\ UNCHANGED faults
        <4>1. SnapOf(row[j]) \in Copy /\ SnapOf(row[j]).dispatches = row[j].dispatches
          BY <1>0, CopyTypes DEF SnapOf
        <4>2. x \in Instance /\ x.state = "loaded" /\ x.snap.dispatches = row[j].dispatches
          BY <4>1 DEF Instance, InstanceStates, ActiveStates
        <4> HIDE DEF x
        <4>3. /\ Forward
              /\ inst' \in [WorkflowJobs -> [InstanceIds -> Instance]] /\ InstancesSound'
          BY <1>1, <1>2, <1>3, <3>1, <4>2, InstanceMoved
        <4> QED
          BY <1>0, <3>0, <3>1, <4>3, RowsKept
      <3>2. CASE Fail("instance") /\ SetInstance(j, i, "errored")
        <4>1. /\ Forward
              /\ inst' \in [WorkflowJobs -> [InstanceIds -> Instance]] /\ InstancesSound'
          BY <1>4, <2>0, <3>2
        <4> QED
          BY <1>0, <3>0, <3>2, <4>1, RowsKept, FaultCounted
      <3> QED
        BY <2>1, <3>1, <3>2 DEF InstanceLoad
    <2>2. CASE InstanceMark(j, i)
      <3> DEFINE new == [Stamped(row[j], "processing")
                           EXCEPT !.started = IF s.started = "none" THEN "fresh" ELSE s.started]
      <3>1. new \in SoundRow /\ new.status = "processing"
        <4>1. Stamped(row[j], "processing") \in SoundRow
              /\ Stamped(row[j], "processing").status = "processing"
          BY <1>0, StampedRow DEF Statuses
        <4>2. s.started \in {"none", "fresh", "stale"}
          BY <1>0 DEF Copy, Snap
        <4> QED
          BY <4>1, <4>2 DEF SoundRow, Row
      <3>2. MayWrite(j, WithMetadataOf(new, s))
        <4> HIDE DEF new, s
        <4> QED
          BY <1>0, <1>3, <3>1, CarriedRow DEF MayWrite
      <3>3. \/ /\ row' = [row EXCEPT ![j] = WithMetadataOf(new, s)]
               /\ SetInstance(j, i, "executing") /\ UNCHANGED faults
            \/ Fail("instance") /\ SetInstance(j, i, "errored") /\ UNCHANGED row
        BY <2>2 DEF InstanceMark
      <3> HIDE DEF new, s
      <3>4. /\ Forward
            /\ inst' \in [WorkflowJobs -> [InstanceIds -> Instance]] /\ InstancesSound'
        BY <1>4, <2>0, <3>3
      <3> QED
        BY <1>0, <3>2, <3>3, <3>4, RowWritten, RowsKept, FaultCounted
    <2>3. CASE InstanceExecute(j, i)
      <3>1. /\ UNCHANGED <<row, faults>>
            /\ \/ /\ SetInstance(j, i, "succeeding")
                  /\ answered' = [answered EXCEPT ![j] = TRUE]
               \/ SetInstance(j, i, "failing")
        BY <2>3 DEF InstanceExecute
      <3>2. answered' = [answered EXCEPT ![j] = TRUE] => answered'[j]
        BY <1>0 DEF SoundTypes
      <3>3. /\ Forward
            /\ inst' \in [WorkflowJobs -> [InstanceIds -> Instance]] /\ InstancesSound'
        BY <1>4, <2>0, <3>1, <3>2
      <3> QED
        BY <1>0, <3>1, <3>3, RowsKept
    <2>4. CASE InstanceRecord(j, i)
      <3> DEFINE new(status) ==
             [row EXCEPT ![j] = WithMetadataOf(Stamped(row[j], status), s)]
      <3>1. \/ /\ inst[j][i].state = "succeeding" /\ row' = new("succeeded")
               /\ SetInstance(j, i, "closing") /\ UNCHANGED faults
            \/ /\ inst[j][i].state = "succeeding" /\ Fail("instance")
               /\ row' \in {row, new("succeeded")} /\ SetInstance(j, i, "failing")
            \/ row' = new("failed") /\ SetInstance(j, i, "ending") /\ UNCHANGED faults
            \/ Fail("instance") /\ SetInstance(j, i, "ending") /\ UNCHANGED row
        BY <2>4 DEF InstanceRecord
      <3>2. answered' = answered
        BY <2>4 DEF InstanceRecord
      <3>3. inst[j][i].state = "succeeding" => answered'[j]
        BY <1>3, <3>2 DEF InstanceSound
      <3>4. "failed" \in Statuses /\ "succeeded" \in Statuses
        BY DEF Statuses
      <3>5. Forward => (row' = new("failed") => row' \in [Jobs -> SoundRow] /\ RowsSound')
        BY <1>0, <1>5, <3>4, RowWritten
      <3>6. Forward /\ answered'[j] =>
               (row' = new("succeeded") => row' \in [Jobs -> SoundRow] /\ RowsSound')
        BY <1>0, <1>5, <3>4, RowWritten
      <3> HIDE DEF new, s
      <3>7. /\ Forward
            /\ inst' \in [WorkflowJobs -> [InstanceIds -> Instance]] /\ InstancesSound'
        BY <1>4, <2>0, <3>1, <3>3
      <3> QED
        BY <1>0, <3>1, <3>3, <3>5, <3>6, <3>7, RowsKept, FaultCounted
    <2>5. CASE InstanceEnd(j, i)
      <3>1. /\ UNCHANGED <<row, answered, faults>>
            /\ \/ SetInstance(j, i, "complete") /\ inst[j][i].state = "closing"
               \/ SetInstance(j, i, "errored")
        BY <2>5 DEF InstanceEnd
      <3>2. inst[j][i].state = "closing" => answered'[j]
        BY <1>3, <3>1 DEF InstanceSound
      <3>3. /\ Forward
            /\ inst' \in [WorkflowJobs -> [InstanceIds -> Instance]] /\ InstancesSound'
        BY <1>4, <2>0, <3>1, <3>2
      <3> QED
        BY <1>0, <3>1, <3>3, RowsKept
    <2> QED
      BY <2>1, <2>2, <2>3, <2>4, <2>5 DEF InstanceStep
  <1>7. msgs' = msgs /\ rec' = rec /\ blind' = blind /\ ingress' = ingress
    BY <1>1
  <1> QED
    BY <1>0, <1>2, <1>6, <1>7, MessagesKept, PassesKept DEF ControlInv, SoundTypes

LEMMA ClockSound ==
  ASSUME ControlInv, NEW j \in Jobs, ClockStep(j)
  PROVE  ControlInv'
  <1>0. /\ UNCHANGED <<ingress, msgs, rec, inst, called, answered, faults, blind>>
        /\ SoundTypes /\ row[j] \in SoundRow /\ row \in [Jobs -> SoundRow]
    BY DEF ClockStep, DelayPasses, StartedAges, RowRests, ControlInv, SoundTypes
  <1>1. Forward
    BY <1>0, StillForward
  <1>2. PICK x : row' = [row EXCEPT ![j] = x]
            /\ x \in {[row[j] EXCEPT !.delayed = FALSE], [row[j] EXCEPT !.started = "stale"],
                      [row[j] EXCEPT !.rested = TRUE]}
    BY <1>0 DEF ClockStep, DelayPasses, StartedAges, RowRests, SoundRow, Row
  <1>3. x \in SoundRow /\ x.status = row[j].status /\ x.dispatches = row[j].dispatches
    BY <1>0, <1>2 DEF SoundRow, Row
  <1>4. row' \in [Jobs -> SoundRow] /\ RowsSound'
    <2>1. row' \in [Jobs -> SoundRow] /\ row'[j] = x /\ \A k \in Jobs : k # j => row'[k] = row[k]
      BY <1>0, <1>2, <1>3
    <2>2. \A k \in Jobs : row'[k].status = row[k].status /\ row'[k].dispatches = row[k].dispatches
      BY <1>3, <2>1
    <2> QED
      BY <1>0, <2>1, <2>2 DEF ControlInv, RowsSound, Known, Exists
  <1> QED
    BY <1>0, <1>1, <1>4, MessagesKept, PassesKept, InstancesKept DEF ControlInv, SoundTypes

-----------------------------------------------------------------------------
(* The invariant holds *)

LEMMA ControlInitially == Init => ControlInv
  <1> SUFFICES ASSUME NEW p \in Populations, NEW recorded \in BOOLEAN,
                 /\ row = [j \in Jobs |->
                             IF j \notin p.jobs \cap WorkflowJobs THEN NoRow
                             ELSE IF recorded
                             THEN [NoRow EXCEPT !.status = "dispatched",
                                                !.dispatches = 1, !.instance = 1]
                             ELSE [NoRow EXCEPT !.status = "queued"]]
                 /\ ingress = [j \in Jobs |-> IF j \in p.jobs \cap QueueJobs THEN "idle"
                                             ELSE "done"]
                 /\ msgs = [m \in Slots |-> FreeSlot]
                 /\ rec = [r \in Recoverers |-> IF r \in p.passes THEN Idle
                                                ELSE [Idle EXCEPT !.step = "off"]]
                 /\ inst = [j \in WorkflowJobs |-> [i \in InstanceIds |->
                              IF j \in p.jobs /\ i = 1 THEN [NoInstance EXCEPT !.state = "queued"]
                              ELSE NoInstance]]
                 /\ called = [j \in Jobs |-> FALSE]
                 /\ answered = [j \in Jobs |-> FALSE]
                 /\ blind = FALSE
                 /\ faults = 0
               PROVE  ControlInv
    BY DEF Init
  <1>1. /\ 0 \in Recordable /\ 1 \in Recordable /\ 1 \in InstanceIds
        /\ InstanceIds \subseteq Nat \ {0} /\ 1 # MaxAttempts + 2
    BY ControlPlaneAssumption DEF Recordable, InstanceIds
  <1>2. /\ NoRow \in SoundRow /\ NoRow.status = "absent" /\ NoRow.dispatches = 0
        /\ [NoRow EXCEPT !.status = "queued"] \in SoundRow
        /\ [NoRow EXCEPT !.status = "dispatched", !.dispatches = 1, !.instance = 1] \in SoundRow
    BY <1>1, CopyTypes DEF NoRow, SoundRow, Row, Statuses
  <1>3. /\ FreeSlot \in Slot /\ FreeSlot.state = "free" /\ FreeSlot.job = 0
    BY CopyTypes, ControlPlaneAssumption DEF FreeSlot, Slot
  <1>4. << >> \in Listing
    <2>1. << >> \in [{} -> Copy]
      OBVIOUS
    <2> QED
      BY <2>1, ListingRows
  <1>5. /\ \A r \in Recoverers : /\ rec[r] \in Pass /\ rec[r].step \in {"off", "idle"}
                                 /\ DOMAIN rec[r].rows = {}
        /\ rec \in [Recoverers -> Pass]
    BY <1>1, <1>4 DEF Idle, Pass, Steps
  <1>6. /\ NoInstance \in Instance /\ NoInstance.state = "none"
        /\ NoInstance.snap.dispatches = 0
        /\ [NoInstance EXCEPT !.state = "queued"] \in Instance
    BY CopyTypes DEF NoInstance, Instance, InstanceStates, ActiveStates, NoSnap, SnapOf, NoRow
  <1>7. /\ inst \in [WorkflowJobs -> [InstanceIds -> Instance]]
        /\ \A j \in WorkflowJobs, i \in InstanceIds :
              /\ inst[j][i].snap.dispatches = 0
              /\ inst[j][i].state = IF j \in p.jobs /\ i = 1 THEN "queued" ELSE "none"
    BY <1>6 DEF Instance, NoInstance
  <1>8. /\ row \in [Jobs -> SoundRow]
        /\ \A j \in Jobs :
              /\ row[j].status \in {"absent", "dispatched", "queued"}
              /\ row[j].dispatches \in {0, 1}
              /\ j \notin p.jobs \cap WorkflowJobs =>
                    row[j].status = "absent" /\ row[j].dispatches = 0
    BY <1>2 DEF SoundRow, Row, NoRow
  <1>9. SoundTypes
    <2>1. /\ ingress \in [Jobs -> {"idle", "inserted", "sent", "failing", "done"}]
          /\ msgs \in [Slots -> Slot] /\ called \in [Jobs -> BOOLEAN]
          /\ answered \in [Jobs -> BOOLEAN] /\ blind \in BOOLEAN
      BY <1>3
    <2>2. faults \in 0..MaxFaults
      BY ControlPlaneAssumption
    <2> QED
      BY <1>5, <1>7, <1>8, <2>1, <2>2 DEF SoundTypes
  <1>10. RowsSound
    <2> SUFFICES ASSUME NEW j \in Jobs
                 PROVE  /\ row[j].status = "succeeded" => answered[j]
                        /\ ingress[j] = "idle" => j \in QueueJobs /\ row[j].status = "absent"
                        /\ j \in WorkflowJobs =>
                              /\ row[j].dispatches = 0 \/ inst[j][row[j].dispatches].state # "none"
                              /\ row[j].status # "absent" => inst[j][1].state # "none"
      BY DEF RowsSound, Known, Exists
    <2>1. row[j].status # "succeeded"
      BY <1>8
    <2>2. ingress[j] = "idle" => j \in QueueJobs /\ row[j].status = "absent"
      BY <1>8, JobsAreJobs
    <2>3. j \in WorkflowJobs /\ j \in p.jobs => inst[j][1].state # "none"
      BY <1>1, <1>7
    <2> QED
      BY <1>8, <2>1, <2>2, <2>3
  <1>11. MessagesSound
    BY <1>3 DEF MessagesSound, Live
  <1>12. PassesSound
    BY <1>5 DEF PassesSound, PassSound
  <1>13. InstancesSound
    <2> SUFFICES ASSUME NEW j \in WorkflowJobs, NEW i \in InstanceIds
                 PROVE  InstanceSound(j, i)
      BY DEF InstancesSound
    <2>1. \A k \in InstanceIds : ~(k < 1)
      BY <1>1
    <2> QED
      BY <1>1, <1>7, <2>1 DEF InstanceSound, Known, Exists
  <1> QED
    BY <1>9, <1>10, <1>11, <1>12, <1>13 DEF ControlInv

LEMMA ControlStep == ControlInv /\ [Next]_vars => ControlInv'
  <1> SUFFICES ASSUME ControlInv, [Next]_vars PROVE ControlInv'
    OBVIOUS
  <1>1. ASSUME NEW r \in Recoverers, RecoveryStep(r) \/ RecoveryCrash(r)
        PROVE  ControlInv'
    BY <1>1, ListJobsSound, RequeueSound, CheckInstanceSound, SyncRowSound, RedispatchSound,
       PatchRedispatchedSound DEF RecoveryStep
  <1>2. CASE UNCHANGED vars
    <2>1. UNCHANGED <<row, ingress, msgs, rec, inst, called, answered, blind, faults>>
      BY <1>2 DEF vars
    <2>2. Forward
      BY <2>1, StillForward
    <2> QED
      BY <2>1, <2>2, RowsKept, MessagesKept, PassesKept, InstancesKept DEF ControlInv, SoundTypes
  <1> QED
    BY <1>1, <1>2, IngressSound, ConsumerSound, InstanceStepSound, ClockSound DEF Next

LEMMA ControlInvariant == Spec => []ControlInv
  BY ControlInitially, ControlStep, PTL DEF Spec

(***************************************************************************)
(* Type correctness, with the bounds TypeOK does not state: requeue        *)
(* counters and dispatch numbers stay within the ceiling.                  *)
(***************************************************************************)
THEOREM ControlTypes == Spec => []TypeOK
  <1>1. ControlInv => TypeOK
    <2> SUFFICES ASSUME ControlInv PROVE TypeOK
      OBVIOUS
    <2>1. SoundTypes
      BY DEF ControlInv
    <2>2. SoundRow \subseteq Row /\ Copy \subseteq Snap
      BY DEF SoundRow, Copy
    <2>3. row \in [Jobs -> Row]
      BY <2>1, <2>2 DEF SoundTypes
    <2>4. msgs \in [Slots -> [state : {"free", "ready", "marking", "calling",
                                    "dlq", "burying"} \cup Outcomes,
                            job : Jobs \cup {0}, attempts : 0..(MaxRetries + 1),
                            snap : Snap]]
      BY <2>1, <2>2 DEF SoundTypes, Slot
    <2>5. inst \in [WorkflowJobs -> [InstanceIds -> [state : InstanceStates, snap : Snap]]]
      BY <2>1, <2>2 DEF SoundTypes, Instance
    <2>6. Recordable \subseteq {0} \cup InstanceIds
      BY ControlPlaneAssumption DEF Recordable, InstanceIds
    <2>7. ASSUME NEW r \in Recoverers
          PROVE  /\ rec[r].step \in {"off", "idle", "next", "send", "redispatch", "created",
                        "sync_succeeded", "sync_dispatched", "sync_processing"}
                 /\ rec[r].id \in {0} \cup InstanceIds
                 /\ DOMAIN rec[r].rows \subseteq Jobs
                 /\ \A j \in DOMAIN rec[r].rows : rec[r].rows[j] \in Snap
      <3>1. rec[r] \in Pass
        BY <2>1 DEF SoundTypes
      <3>2. rec[r].step \in Steps /\ rec[r].id \in Recordable /\ rec[r].rows \in Listing
        BY <3>1 DEF Pass
      <3>3. DOMAIN rec[r].rows \subseteq Jobs /\ rec[r].rows \in [DOMAIN rec[r].rows -> Copy]
        BY <3>2, ListingRows
      <3> QED
        BY <2>2, <2>6, <3>2, <3>3 DEF Steps
    <2> QED
      BY <2>1, <2>3, <2>4, <2>5, <2>7 DEF TypeOK, SoundTypes
  <1> QED
    BY <1>1, ControlInvariant, PTL

(***************************************************************************)
(* A row says succeeded only when an execution of the job was answered     *)
(* with success, whatever order consumers, instances and passes wrote in.  *)
(***************************************************************************)
THEOREM SuccessIsTrue == Spec => []SucceededIsTrue
  <1>1. ControlInv => SucceededIsTrue
    BY DEF ControlInv, RowsSound, SucceededIsTrue
  <1> QED
    BY <1>1, ControlInvariant, PTL

(***************************************************************************)
(* A workflow job has at most one running instance until a status check    *)
(* fails, however many recovery passes overlap.                            *)
(***************************************************************************)
THEOREM OneInstanceRuns == Spec => []OneActiveInstance
  <1>1. ControlInv => OneActiveInstance
    <2> SUFFICES ASSUME ControlInv, NEW j \in WorkflowJobs, ~blind
                 PROVE  Cardinality({i \in InstanceIds : inst[j][i].state \in ActiveStates}) <= 1
      BY DEF OneActiveInstance
    <2> DEFINE A == {i \in InstanceIds : inst[j][i].state \in ActiveStates}
    <2>1. ASSUME NEW i \in A, NEW k \in A PROVE i = k
      <3>1. i \in Nat /\ k \in Nat
        BY ControlPlaneAssumption DEF InstanceIds
      <3>2. InstanceSound(j, i) /\ InstanceSound(j, k) /\ Exists(j, i) /\ Exists(j, k)
        BY DEF ControlInv, InstancesSound, Exists, ActiveStates
      <3>3. ~(i < k) /\ ~(k < i)
        BY <3>2 DEF InstanceSound, ActiveStates
      <3> QED
        BY <3>1, <3>3
    <2>2. A = {} \/ \E i \in A : A = {i}
      BY <2>1
    <2> HIDE DEF A
    <2>3. Cardinality(A) \in {0, 1}
      <3>1. CASE A = {}
        BY <3>1, FS_EmptySet
      <3>2. CASE \E i \in A : A = {i}
        BY <3>2, FS_Singleton
      <3> QED
        BY <2>2, <3>1, <3>2
    <2> QED
      BY <2>3 DEF A
  <1> QED
    BY <1>1, ControlInvariant, PTL

(***************************************************************************)
(* A workflow job has at most one instance per redispatch the ceiling      *)
(* allows, after the first.                                                *)
(***************************************************************************)
THEOREM InstancesWithinCeiling == Spec => []InstancesBounded
  <1>1. ControlInv => InstancesBounded
    <2> SUFFICES ASSUME ControlInv, NEW j \in WorkflowJobs
                 PROVE  Cardinality({i \in InstanceIds : inst[j][i].state # "none"})
                            <= MaxAttempts + 1
      BY DEF InstancesBounded
    <2> DEFINE E == {i \in InstanceIds : inst[j][i].state # "none"}
    <2>0. MaxAttempts \in Nat /\ MaxAttempts + 1 \in Int
      BY ControlPlaneAssumption
    <2>1. E \subseteq 1..(MaxAttempts + 1)
      <3>1. \A i \in E : i # MaxAttempts + 2
        BY DEF ControlInv, InstancesSound, InstanceSound, Exists
      <3> QED
        BY <2>0, <3>1 DEF InstanceIds
    <2>2. IsFiniteSet(1..(MaxAttempts + 1)) /\ Cardinality(1..(MaxAttempts + 1)) = MaxAttempts + 1
      BY <2>0, FS_Interval
    <2> HIDE DEF E
    <2>3. Cardinality(E) <= MaxAttempts + 1
      BY <2>1, <2>2, FS_Subset
    <2> QED
      BY <2>3 DEF E
  <1> QED
    BY <1>1, ControlInvariant, PTL

-----------------------------------------------------------------------------
(* A settled job stays settled *)

\* The messages, and the passes, leave the settled job j alone.
NoHandler(j) == \A m \in Slots : msgs[m].job = j => msgs[m].state \in {"ready", "dlq"}
NotListed(j) == \A r \in Recoverers : j \notin DOMAIN rec[r].rows

LEMMA StaysSettled ==
  ASSUME NEW j \in Jobs, Settled(j), row'[j].status = row[j].status,
         ingress'[j] = ingress[j], NoHandler(j)', NotListed(j)',
         j \in WorkflowJobs =>
            \A i \in InstanceIds : inst'[j][i].state \notin ActiveStates
  PROVE  Settled(j)'
  BY DEF Settled, Quiet, Final, NoHandler, NotListed

LEMMA PutQuiet ==
  ASSUME ControlInv, NEW j \in Jobs, NoHandler(j), NEW m \in Slots, NEW x,
         x.job = j => x.state \in {"ready", "dlq"},
         msgs' = [msgs EXCEPT ![m] = x]
  PROVE  NoHandler(j)'
  BY DEF ControlInv, SoundTypes, NoHandler

LEMMA AckQuiet ==
  ASSUME ControlInv, NEW j \in Jobs, NoHandler(j), NEW m \in Slots, Ack(m)
  PROVE  NoHandler(j)'
  <1>1. FreeSlot.job # j
    BY JobsAreJobs DEF FreeSlot
  <1> QED
    BY <1>1, PutQuiet DEF Ack

LEMMA SendQuiet ==
  ASSUME ControlInv, NEW j \in Jobs, NoHandler(j), NEW k, Send(k)
  PROVE  NoHandler(j)'
  <1>1. PICK m \in Slots : msgs' = [msgs EXCEPT ![m] = Message(k)]
    BY DEF Send
  <1>2. Message(k).state = "ready"
    BY DEF Message
  <1> QED
    BY <1>1, <1>2, PutQuiet

LEMMA RetryQuiet ==
  ASSUME ControlInv, NEW j \in Jobs, NoHandler(j), NEW m \in Slots, Retry(m)
  PROVE  NoHandler(j)'
  <1> DEFINE spent == msgs[m].attempts > MaxRetries
             state == IF spent THEN "dlq" ELSE "ready"
             attempts == IF spent THEN 1 ELSE msgs[m].attempts + 1
             x == [msgs[m] EXCEPT !.state = state, !.attempts = attempts, !.snap = NoSnap]
  <1>0. msgs[m] \in Slot /\ msgs \in [Slots -> Slot] /\ state \in {"dlq", "ready"}
    BY DEF ControlInv, SoundTypes
  <1>1. msgs' = [msgs EXCEPT ![m].state = state, ![m].attempts = attempts, ![m].snap = NoSnap]
    BY DEF Retry
  <1> HIDE DEF state, attempts
  <1>2. msgs' = [msgs EXCEPT ![m] = x] /\ x.state = state
    BY <1>0, <1>1 DEF Slot
  <1> HIDE DEF x
  <1> QED
    BY <1>0, <1>2, PutQuiet

LEMMA PassQuiet ==
  ASSUME ControlInv, NEW j \in Jobs, NotListed(j), NEW r \in Recoverers,
         \/ NextJob(r)
         \/ \E step, id : Goto(r, step, id)
         \/ rec' = [rec EXCEPT ![r] = Idle]
  PROVE  NotListed(j)'
  <1>1. rec \in [Recoverers -> Pass] /\ j \notin DOMAIN rec[r].rows
    BY DEF ControlInv, SoundTypes, NotListed
  <1>2. ASSUME NextJob(r) PROVE NotListed(j)'
    <2> DEFINE left == DOMAIN rec[r].rows \ {Current(r)}
               p == IF left = {} THEN Idle
                    ELSE [step |-> "next", id |-> 0,
                          rows |-> [k \in left |-> rec[r].rows[k]]]
    <2>1. rec' = [rec EXCEPT ![r] = p]
      BY <1>2 DEF NextJob
    <2>2. DOMAIN p.rows = left
      BY DEF Idle
    <2>3. j \notin DOMAIN p.rows
      BY <1>1, <2>2
    <2> HIDE DEF p
    <2> QED
      BY <1>1, <2>1, <2>3 DEF NotListed
  <1>3. ASSUME NEW step, NEW id, Goto(r, step, id) PROVE NotListed(j)'
    <2>1. rec' = [rec EXCEPT ![r].step = step, ![r].id = id]
      BY <1>3 DEF Goto
    <2>2. \A q \in Recoverers : rec'[q].rows = rec[q].rows
      BY <1>1, <2>1 DEF Pass
    <2> QED
      BY <2>2 DEF NotListed
  <1>4. ASSUME rec' = [rec EXCEPT ![r] = Idle] PROVE NotListed(j)'
    BY <1>1, <1>4 DEF NotListed, Idle
  <1> QED
    BY <1>2, <1>3, <1>4

(***************************************************************************)
(* A write to another job's row does not show in this one.                 *)
(***************************************************************************)
LEMMA OtherRow ==
  ASSUME ControlInv, NEW j \in Jobs, NEW k \in Jobs, k # j, NEW x,
         row' = [row EXCEPT ![k] = x] \/ row' = row
  PROVE  row'[j].status = row[j].status
  BY DEF ControlInv, SoundTypes

LEMMA SettledStep ==
  ASSUME ControlInv, [Next]_vars, NEW j \in Jobs, Settled(j)
  PROVE  Settled(j)'
  <1>0. /\ row[j].status \in Final(j) /\ ingress[j] \in {"idle", "done"}
        /\ NoHandler(j) /\ NotListed(j)
        /\ j \in WorkflowJobs =>
              \A i \in InstanceIds : inst[j][i].state \notin ActiveStates
    BY DEF Settled, Quiet, NoHandler, NotListed
  <1>1. /\ row[j].status \in {"succeeded", "failed", "dead_lettered"}
        /\ j \in QueueJobs \/ row[j].status \in {"succeeded", "dead_lettered"}
        /\ ingress[j] = "done"
    BY <1>0 DEF Final, Terminal, ControlInv, RowsSound
  <1>2. ASSUME NEW k \in QueueJobs, IngressStep(k) \/ IngressCrash(k)
        PROVE  Settled(j)'
    <2>1. k # j /\ k \in Jobs
      BY <1>1, <1>2, JobsAreJobs
         DEF IngressStep, Insert, Enqueue, IngressPatch, IngressCrash
    <2>2. UNCHANGED <<rec, inst>> /\ ingress'[j] = ingress[j]
      BY <1>2, <2>1 DEF IngressStep, Insert, Enqueue, IngressPatch, IngressCrash, ControlInv,
                        SoundTypes
    <2>3. row'[j].status = row[j].status
      BY <1>2, <2>1, OtherRow
         DEF IngressStep, Insert, Enqueue, IngressPatch, IngressCrash, PatchOrSwallow
    <2>4. msgs' = msgs \/ Send(k)
      BY <1>2 DEF IngressStep, Insert, Enqueue, IngressPatch, IngressCrash
    <2>5. NoHandler(j)' /\ NotListed(j)'
      BY <1>0, <2>2, <2>4, SendQuiet DEF NoHandler, NotListed
    <2> QED
      BY <1>0, <2>2, <2>3, <2>5, StaysSettled
  <1>3. ASSUME NEW m \in Slots, ConsumerStep(m) \/ ConsumerCrash(m) \/ Duplicate(m)
        PROVE  Settled(j)'
    <2>0. Live(m)
      BY <1>3 DEF Live, ConsumerStep, ConsumerCrash, Duplicate, Deliver, MarkProcessing, Execute,
                  RecordOutcome, Outcomes, DeadLetterLoad, DeadLetterPatch
    <2>1. msgs[m] \in Slot /\ msgs[m].job \in QueueJobs /\ msgs[m].job \in Jobs
      BY <2>0, LiveMessage
    <2>2. UNCHANGED <<ingress, rec, inst>>
      BY <1>3 DEF ConsumerStep, ConsumerCrash, Duplicate, Deliver, MarkProcessing, Execute,
                  RecordOutcome, DeadLetterLoad, DeadLetterPatch
    <2>3. NotListed(j)'
      BY <1>0, <2>2 DEF NotListed
    <2>4. CASE msgs[m].state \in {"marking", "calling", "burying"} \cup Outcomes
      <3>1. msgs[m].job # j
        BY <1>0, <2>4 DEF NoHandler, Outcomes
      <3>2. row'[j].status = row[j].status
        BY <1>3, <2>1, <2>4, <3>1, OtherRow
           DEF ConsumerStep, ConsumerCrash, Duplicate, Deliver, MarkProcessing, Execute,
               RecordOutcome, DeadLetterLoad, DeadLetterPatch, PatchOrSwallow
      <3>3. \/ Ack(m) \/ Retry(m)
            \/ msgs' = [msgs EXCEPT ![m].state = "calling", ![m].snap.started = "none"]
            \/ \E outcome \in Outcomes : msgs' = [msgs EXCEPT ![m].state = outcome]
        BY <1>3, <2>4
           DEF ConsumerStep, ConsumerCrash, Duplicate, Deliver, MarkProcessing, Execute,
               RecordOutcome, Outcomes, DeadLetterLoad, DeadLetterPatch
      <3>4. ASSUME \/ msgs' = [msgs EXCEPT ![m].state = "calling", ![m].snap.started = "none"]
                   \/ \E outcome \in Outcomes : msgs' = [msgs EXCEPT ![m].state = outcome]
            PROVE  NoHandler(j)'
        <4>1. \A n \in Slots : n # m => msgs'[n] = msgs[n]
          BY <3>4 DEF ControlInv, SoundTypes
        <4>2. msgs'[m].job = msgs[m].job
          BY <2>1, <3>4 DEF ControlInv, SoundTypes, Slot
        <4> QED
          BY <1>0, <3>1, <4>1, <4>2 DEF NoHandler
      <3>5. NoHandler(j)'
        BY <1>0, <3>3, <3>4, AckQuiet, RetryQuiet
      <3> QED
        BY <1>0, <2>2, <2>3, <3>2, <3>5, StaysSettled
    <2>5. CASE msgs[m].state \in {"ready", "dlq"}
      <3>1. row' = row
        BY <1>3, <2>5 DEF ConsumerStep, ConsumerCrash, Duplicate, Deliver, MarkProcessing,
                          Execute, RecordOutcome, Outcomes, DeadLetterLoad,
                          DeadLetterPatch
      <3>2. NoHandler(j)'
        <4>1. CASE Duplicate(m)
          <5>1. PICK n \in Slots : msgs' = [msgs EXCEPT ![n] = msgs[m]]
            BY <4>1 DEF Duplicate
          <5> QED
            BY <1>0, <2>5, <5>1, PutQuiet
        <4>2. CASE Ack(m) \/ Retry(m)
          BY <1>0, <4>2, AckQuiet, RetryQuiet
        <4>3. ASSUME NEW state, NEW snap, row[msgs[m].job].status \notin Terminal,
                     msgs' = [msgs EXCEPT ![m].state = state, ![m].snap = snap]
              PROVE  NoHandler(j)'
          <5>1. msgs[m].job # j
            BY <1>1, <4>3 DEF Terminal
          <5>2. \A n \in Slots : n # m => msgs'[n] = msgs[n]
            BY <4>3 DEF ControlInv, SoundTypes
          <5>3. msgs'[m].job = msgs[m].job
            BY <2>1, <4>3 DEF ControlInv, SoundTypes, Slot
          <5> QED
            BY <1>0, <5>1, <5>2, <5>3 DEF NoHandler
        <4> QED
          BY <1>3, <2>5, <4>1, <4>2, <4>3
             DEF ConsumerStep, ConsumerCrash, Deliver, MarkProcessing, Execute,
                 RecordOutcome, Outcomes, DeadLetterLoad, DeadLetterPatch
      <3> QED
        BY <1>0, <2>2, <2>3, <3>1, <3>2, StaysSettled
    <2> QED
      BY <2>0, <2>1, <2>4, <2>5 DEF Live, Slot
  <1>4. ASSUME NEW r \in Recoverers, RecoveryStep(r) \/ RecoveryCrash(r)
        PROVE  Settled(j)'
    <2>1. CASE ListJobs(r)
      <3>1. UNCHANGED <<row, ingress, msgs, inst>>
        BY <2>1 DEF ListJobs
      <3> DEFINE jobs == {k \in Queried : Recoverable(k, row[k])}
                 p == [step |-> "next", id |-> 0, rows |-> [k \in jobs |-> MetadataOf(row[k])]]
      <3>2. rec' = [rec EXCEPT ![r] = p]
        BY <2>1 DEF ListJobs
      <3>3. j \notin DOMAIN p.rows
        BY <1>1, JobsAreJobs DEF Recoverable, StaleProcessing
      <3> HIDE DEF p
      <3>4. NotListed(j)' /\ NoHandler(j)'
        BY <1>0, <3>1, <3>2, <3>3 DEF NotListed, NoHandler, ControlInv, SoundTypes
      <3> QED
        BY <1>0, <3>1, <3>4, StaysSettled
    <2>2. CASE RecoveryCrash(r)
      <3>1. UNCHANGED <<row, ingress, msgs, inst>> /\ rec' = [rec EXCEPT ![r] = Idle]
        BY <2>2 DEF RecoveryCrash
      <3>2. NotListed(j)' /\ NoHandler(j)'
        BY <1>0, <3>1, PassQuiet DEF NoHandler
      <3> QED
        BY <1>0, <3>1, <3>2, StaysSettled
    <2>3. CASE \/ RequeueQueueJob(r) \/ SendRequeued(r) \/ CheckInstance(r) \/ SyncRow(r)
               \/ Redispatch(r) \/ PatchRedispatched(r)
      <3>1. DOMAIN rec[r].rows # {} /\ ingress' = ingress
        BY <2>3 DEF RequeueQueueJob, SendRequeued, CheckInstance, SyncRow, Redispatch,
                    PatchRedispatched, At
      <3>2. Current(r) # j /\ Current(r) \in Jobs
        BY <1>0, <3>1, AtJob DEF NotListed
      <3>3. row'[j].status = row[j].status
        <4>1. row' = row \/ \E x : row' = [row EXCEPT ![Current(r)] = x]
          BY <2>3 DEF RequeueQueueJob, SendRequeued, CheckInstance, SyncRow, Redispatch,
                      PatchRedispatched, RecoveryPatch
        <4> QED
          BY <3>2, <4>1, OtherRow
      <3>4. NotListed(j)'
        <4>1. NextJob(r) \/ \E step, id : Goto(r, step, id)
          BY <2>3 DEF RequeueQueueJob, SendRequeued, CheckInstance, SyncRow, Redispatch,
                      PatchRedispatched, RecoveryPatch, DispatchInstance
        <4> QED
          BY <1>0, <4>1, PassQuiet
      <3>5. NoHandler(j)'
        <4>1. msgs' = msgs \/ Send(Current(r))
          BY <2>3 DEF RequeueQueueJob, SendRequeued, CheckInstance, SyncRow, Redispatch,
                      PatchRedispatched
        <4> QED
          BY <1>0, <4>1, SendQuiet DEF NoHandler
      <3>6. j \in WorkflowJobs => inst'[j] = inst[j]
        <4>1. inst' = inst \/ \E id : inst' = [inst EXCEPT ![Current(r)][id].state = "queued"]
          BY <2>3 DEF RequeueQueueJob, SendRequeued, CheckInstance, SyncRow, Redispatch,
                      PatchRedispatched, DispatchInstance
        <4> QED
          BY <3>2, <4>1 DEF ControlInv, SoundTypes
      <3> QED
        BY <1>0, <3>1, <3>3, <3>4, <3>5, <3>6, StaysSettled
    <2> QED
      BY <1>4, <2>1, <2>2, <2>3 DEF RecoveryStep
  <1>5. ASSUME NEW k \in WorkflowJobs, NEW i \in InstanceIds, InstanceStep(k, i)
        PROVE  Settled(j)'
    <2>1. UNCHANGED <<ingress, msgs, rec>> /\ inst[k][i].state \in ActiveStates
      BY <1>5 DEF InstanceStep, InstanceLoad, InstanceMark, InstanceExecute, InstanceRecord,
                  InstanceEnd, ActiveStates
    <2>2. k # j /\ k \in Jobs
      BY <1>0, <2>1, JobsAreJobs
    <2>3. row'[j].status = row[j].status
      <3>1. row' = row \/ \E x : row' = [row EXCEPT ![k] = x]
        BY <1>5 DEF InstanceStep, InstanceLoad, InstanceMark, InstanceExecute, InstanceRecord,
                    InstanceEnd
      <3> QED
        BY <2>2, <3>1, OtherRow
    <2>4. j \in WorkflowJobs => inst'[j] = inst[j]
      BY <1>5, <2>2 DEF InstanceStep, InstanceLoad, InstanceMark, InstanceExecute,
                        InstanceRecord, InstanceEnd, SetInstance, ControlInv, SoundTypes
    <2>5. NotListed(j)' /\ NoHandler(j)'
      BY <1>0, <2>1 DEF NotListed, NoHandler
    <2> QED
      BY <1>0, <2>1, <2>3, <2>4, <2>5, StaysSettled
  <1>6. ASSUME NEW k \in Jobs, ClockStep(k)
        PROVE  Settled(j)'
    <2>1. UNCHANGED <<ingress, msgs, rec, inst>>
      BY <1>6 DEF ClockStep, DelayPasses, StartedAges, RowRests
    <2>2. row'[j].status = row[j].status
      <3>1. row \in [Jobs -> SoundRow]
        BY DEF ControlInv, SoundTypes
      <3> QED
        BY <1>6, <3>1 DEF ClockStep, DelayPasses, StartedAges, RowRests, SoundRow, Row
    <2>3. NotListed(j)' /\ NoHandler(j)'
      BY <1>0, <2>1 DEF NotListed, NoHandler
    <2> QED
      BY <1>0, <2>1, <2>2, <2>3, StaysSettled
  <1>7. CASE UNCHANGED vars
    <2>1. UNCHANGED <<row, ingress, msgs, rec, inst>>
      BY <1>7 DEF vars
    <2>2. NotListed(j)' /\ NoHandler(j)'
      BY <1>0, <2>1 DEF NotListed, NoHandler
    <2> QED
      BY <1>0, <2>1, <2>2, StaysSettled
  <1> QED
    BY <1>2, <1>3, <1>4, <1>5, <1>6, <1>7 DEF Next

(***************************************************************************)
(* Once a job is final and no actor is in the middle of it, messages still *)
(* in the queue and later recovery passes leave it so.                     *)
(***************************************************************************)
THEOREM SettledJobsStay == Spec => SettledStays
  <1>1. ControlInv /\ [Next]_vars => [\A j \in Jobs : Settled(j) => Settled(j)']_vars
    BY SettledStep
  <1> QED
    BY <1>1, ControlInvariant, PTL DEF Spec, SettledStays
=============================================================================
