--------------------------- MODULE RelayerProofs ----------------------------
(***************************************************************************)
(* The relayer's request lane: what it records is so on the chain, retries *)
(* end at their ceilings, and until a call fails no request falls behind a *)
(* checkpoint unseen.                                                      *)
(***************************************************************************)
EXTENDS Relayer, FiniteSetTheorems, TLAPS

-----------------------------------------------------------------------------
(* The inductive invariant.  Its parts are stated over a chain c, a table w *)
(* and a number of faults f, so that what one step leaves alone can be      *)
(* carried over to the chain and the table of the next state.               *)

Chains == [Ids -> {"absent", "pending", "succeeded", "failed", "expired"}]
Tables == [Keys -> Row \cup {Null}]

\* A number of attempts that one of the two ceilings allows.
Bound(a) == a <= MaxRetries \/ a <= Ceiling

Outcome(c, id, status) ==
  /\ status = "fulfilled" => c[id] = "succeeded"
  /\ status = "failed" => c[id] = "failed"
  /\ status = "settled" => c[id] \notin {"absent", "pending"}

\* Every id up to n is a request on the chain.
Reached(c, n) == \A id \in 1 .. n : id \in Ids /\ c[id] # "absent"

\* Every pending request up to n has a row in the table.
Rowed(w, id) == \E k \in Keys : k.id = id /\ w[k] # Null
Covered(c, w, n) == \A id \in 1 .. n : c[id] = "pending" => Rowed(w, id)

\* A state file: its records are true, its items within the ceilings and of
\* requests on the chain, its checkpoints behind the chain, and, before the
\* first fault, all that it tracks is in the table.
GoodFile(c, w, f, m) ==
  /\ m \in LocalState
  /\ \A k \in Keys : /\ Outcome(c, k.id, m.processed[k])
                     /\ m.queue[k] # Null => Bound(m.queue[k].attempts) /\ c[k.id] # "absent"
  /\ \A l \in Lanes : Reached(c, m.last[l])
  /\ f = 0 => /\ \A l \in Lanes : Covered(c, w, m.last[l])
              /\ \A k \in Keys : Tracked(m, k) => w[k] # Null

GoodRow(c, k, row) ==
  /\ row \in Row /\ c[k.id] # "absent" /\ Outcome(c, k.id, row.status)
  /\ row.status \in OpenStatus => Bound(row.attempts)

\* A task: a transaction it sent is at the stage that looks it up, and what it
\* knows of its execution is so on the chain; only a task with an answer, or
\* one that gives up, delivers; the row it closes with is good.
GoodTask(c, w, f, k, t) ==
  /\ t \in Task /\ c[k.id] # "absent"
  /\ t.tx # "none" => t.stage = "confirm"
  /\ t.tx = "halt" => c[k.id] = IF Success(t) THEN "succeeded" ELSE "failed"
  /\ t.tx = "fault" => c[k.id] \notin {"absent", "pending"}
  /\ t.stage \in {"checkpoint", "deliver", "confirm"} =>
        t.prepared # "none" \/ t.finalize \/ t.rescue
  /\ t.rescue => t.stage \in {"deliver", "confirm"}
  /\ ~t.rescue => Bound(t.attempts)
  /\ t.stage = "close" => GoodRow(c, k, t.row)
  /\ f = 0 => w[k] # Null

\* A tick: the range it scans is on the chain, and, before the first fault, the
\* pending requests of the range are in the table once they were persisted.
GoodTick(c, w, f, p, l, g, new, seen) ==
  /\ p \in PC /\ l \in Lanes /\ g \in Nat /\ new \subseteq Ids /\ seen \subseteq Ids
  /\ Reached(c, g) /\ \A id \in new : c[id] # "absent"
  /\ f = 0 =>
       /\ \A id \in seen : Rowed(w, id)
       /\ p = "persist" => \A id \in 1 .. g : c[id] = "pending" => Rowed(w, id) \/ id \in new
       /\ p \in {"defer", "work"} => Covered(c, w, g)
       /\ p = "defer" => \A k \in [id : new, lane : {l}] : w[k] # Null

\* The requests on the chain are the first ones.
ChainSound ==
  /\ chain \in Chains /\ lostTxs \subseteq [id : Ids, success : BOOLEAN]
  /\ \E n \in 0 .. MaxRequests : \A id \in Ids : chain[id] # "absent" <=> id <= n

TableSound ==
  /\ jobs \in Tables
  /\ \A k \in Keys : jobs[k] # Null => GoodRow(chain, k, jobs[k])

FilesSound ==
  /\ mem \in [Instances -> LocalState] /\ disk \in [Instances -> LocalState]
  /\ \A i \in Instances : /\ GoodFile(chain, jobs, faults, mem[i])
                          /\ GoodFile(chain, jobs, faults, disk[i])

TasksSound ==
  /\ tasks \in [Instances -> [Keys -> Task \cup {Null}]]
  /\ \A i \in Instances, k \in Keys :
        tasks[i][k] # Null => GoodTask(chain, jobs, faults, k, tasks[i][k])

TicksSound ==
  /\ pc \in [Instances -> PC] /\ lane \in [Instances -> Lanes]
  /\ goal \in [Instances -> Nat]
  /\ fresh \in [Instances -> SUBSET Ids] /\ observed \in [Instances -> SUBSET Ids]
  /\ \A i \in Instances :
        GoodTick(chain, jobs, faults, pc[i], lane[i], goal[i], fresh[i], observed[i])

FlagsSound ==
  /\ active \in [Instances -> BOOLEAN] /\ dirty \in [Instances -> BOOLEAN]
  /\ backoff \in [Instances -> BOOLEAN]
  /\ faults \in Nat /\ crashes \in Nat
  /\ faults = 0 => \A i \in Instances : ~backoff[i]

RelayerInv ==
  ChainSound /\ TableSound /\ FilesSound /\ TasksSound /\ TicksSound /\ FlagsSound

-----------------------------------------------------------------------------
(* What one step leaves alone *)

\* The chain only moves on: requests appear, pending ones are settled.
On(c, d) ==
  \A id \in Ids : /\ c[id] # "absent" => d[id] # "absent"
                  /\ c[id] \notin {"absent", "pending"} => d[id] = c[id]

\* No row is removed.
More(w, x) == \A k \in Keys : w[k] # Null => x[k] # Null

LEMMA KeyIds == \A k \in Keys : k.id \in Ids /\ k.lane \in Lanes
BY DEF Keys

LEMMA OutcomeKept ==
  ASSUME NEW c, NEW d, On(c, d), NEW id \in Ids, NEW status, Outcome(c, id, status)
  PROVE  Outcome(d, id, status)
BY DEF On, Outcome

LEMMA ReachedKept ==
  ASSUME NEW c, NEW d, On(c, d), NEW n, Reached(c, n)
  PROVE  Reached(d, n)
BY DEF On, Reached

LEMMA RowedKept ==
  ASSUME NEW w, NEW x, More(w, x), NEW id, Rowed(w, id)
  PROVE  Rowed(x, id)
BY DEF More, Rowed

LEMMA CoveredKept ==
  ASSUME NEW c, NEW d, On(c, d), NEW w, NEW x, More(w, x), NEW n, Reached(c, n),
         Covered(c, w, n)
  PROVE  Covered(d, x, n)
<1> SUFFICES ASSUME NEW id \in 1 .. n, d[id] = "pending" PROVE Rowed(x, id)
  BY DEF Covered
<1>1. c[id] = "pending"
  BY DEF Reached, On
<1> QED
  BY <1>1, RowedKept DEF Covered

LEMMA FileKept ==
  ASSUME NEW c, NEW d, On(c, d), NEW w, NEW x, More(w, x),
         NEW f \in Nat, NEW g \in Nat, f <= g, NEW m, GoodFile(c, w, f, m)
  PROVE  GoodFile(d, x, g, m)
<1>1. m \in LocalState
  BY DEF GoodFile
<1>2. ASSUME NEW k \in Keys
      PROVE  /\ Outcome(d, k.id, m.processed[k])
             /\ m.queue[k] # Null => Bound(m.queue[k].attempts) /\ d[k.id] # "absent"
  <2>1. k.id \in Ids
    BY KeyIds
  <2>2. /\ Outcome(c, k.id, m.processed[k])
        /\ m.queue[k] # Null => Bound(m.queue[k].attempts) /\ c[k.id] # "absent"
    BY DEF GoodFile
  <2> QED
    BY <2>1, <2>2, OutcomeKept DEF On
<1>3. \A l \in Lanes : Reached(d, m.last[l])
  BY ReachedKept DEF GoodFile
<1>4. ASSUME g = 0
      PROVE  /\ \A l \in Lanes : Covered(d, x, m.last[l])
             /\ \A k \in Keys : Tracked(m, k) => x[k] # Null
  <2>1. f = 0
    BY <1>4
  <2> QED
    BY <2>1, CoveredKept DEF GoodFile, More
<1> QED
  BY <1>1, <1>2, <1>3, <1>4 DEF GoodFile

LEMMA RowKept ==
  ASSUME NEW c, NEW d, On(c, d), NEW k \in Keys, NEW row, GoodRow(c, k, row)
  PROVE  GoodRow(d, k, row)
BY KeyIds, OutcomeKept DEF GoodRow, On

LEMMA TaskKept ==
  ASSUME NEW c, NEW d, On(c, d), NEW w, NEW x, More(w, x), NEW k \in Keys,
         NEW f \in Nat, NEW g \in Nat, f <= g, NEW t, GoodTask(c, w, f, k, t)
  PROVE  GoodTask(d, x, g, k, t)
<1>1. k.id \in Ids
  BY KeyIds
<1>2. t.tx = "halt" => d[k.id] = IF Success(t) THEN "succeeded" ELSE "failed"
  <2>1. c[k.id] \in {"succeeded", "failed"} => d[k.id] = c[k.id]
    BY <1>1 DEF On
  <2> QED
    BY <2>1 DEF GoodTask
<1>3. t.tx = "fault" => d[k.id] \notin {"absent", "pending"}
  BY <1>1 DEF GoodTask, On
<1>4. t.stage = "close" => GoodRow(d, k, t.row)
  BY RowKept DEF GoodTask
<1>5. g = 0 => x[k] # Null
  BY DEF GoodTask, More
<1>6. d[k.id] # "absent"
  BY <1>1 DEF GoodTask, On
<1> QED
  BY <1>2, <1>3, <1>4, <1>5, <1>6 DEF GoodTask

LEMMA TickKept ==
  ASSUME NEW c, NEW d, On(c, d), NEW w, NEW x, More(w, x),
         NEW f \in Nat, NEW e \in Nat, f <= e,
         NEW p, NEW l, NEW g, NEW new, NEW seen, GoodTick(c, w, f, p, l, g, new, seen)
  PROVE  GoodTick(d, x, e, p, l, g, new, seen)
<1>1. /\ p \in PC /\ l \in Lanes /\ g \in Nat /\ new \subseteq Ids /\ seen \subseteq Ids
      /\ Reached(c, g) /\ \A id \in new : c[id] # "absent"
  BY DEF GoodTick
<1>2. Reached(d, g) /\ \A id \in new : d[id] # "absent"
  BY <1>1, ReachedKept DEF On
<1>3. ASSUME e = 0
      PROVE  /\ \A id \in seen : Rowed(x, id)
             /\ p = "persist" => \A id \in 1 .. g : d[id] = "pending" => Rowed(x, id) \/ id \in new
             /\ p \in {"defer", "work"} => Covered(d, x, g)
             /\ p = "defer" => \A k \in [id : new, lane : {l}] : x[k] # Null
  <2>1. f = 0
    BY <1>3
  <2>2. \A id \in seen : Rowed(x, id)
    BY <2>1, RowedKept DEF GoodTick
  <2>3. ASSUME p = "persist", NEW id \in 1 .. g, d[id] = "pending"
        PROVE  Rowed(x, id) \/ id \in new
    <3>1. c[id] = "pending"
      BY <1>1, <2>3 DEF Reached, On
    <3> QED
      BY <2>1, <2>3, <3>1, RowedKept DEF GoodTick
  <2>4. p \in {"defer", "work"} => Covered(d, x, g)
    BY <1>1, <2>1, CoveredKept DEF GoodTick
  <2>5. ASSUME p = "defer", NEW k \in [id : new, lane : {l}] PROVE x[k] # Null
    <3>1. k \in Keys
      BY <1>1 DEF Keys
    <3> QED
      BY <2>1, <2>5, <3>1 DEF GoodTick, More
  <2> QED
    BY <2>2, <2>3, <2>4, <2>5
<1> QED
  BY <1>1, <1>2, <1>3 DEF GoodTick

-----------------------------------------------------------------------------
(* A step: every row, file, task and tick is one that was there or a good   *)
(* new one.                                                                 *)

TableMoves ==
  /\ jobs' = [k \in Keys |-> jobs'[k]]
  /\ \A k \in Keys : jobs'[k] = jobs[k] \/ GoodRow(chain', k, jobs'[k])

FilesMove ==
  /\ mem' = [i \in Instances |-> mem'[i]] /\ disk' = [i \in Instances |-> disk'[i]]
  /\ \A i \in Instances :
        /\ mem'[i] \in {mem[i], disk[i]} \/ GoodFile(chain', jobs', faults', mem'[i])
        /\ disk'[i] \in {mem[i], disk[i]} \/ GoodFile(chain', jobs', faults', disk'[i])

TasksMove ==
  /\ tasks' = [i \in Instances |-> [k \in Keys |-> tasks'[i][k]]]
  /\ \A i \in Instances, k \in Keys :
        \/ tasks'[i][k] \in {tasks[i][k], Null}
        \/ GoodTask(chain', jobs', faults', k, tasks'[i][k])

TicksMove ==
  /\ pc' = [i \in Instances |-> pc'[i]] /\ lane' = [i \in Instances |-> lane'[i]]
  /\ goal' = [i \in Instances |-> goal'[i]] /\ fresh' = [i \in Instances |-> fresh'[i]]
  /\ observed' = [i \in Instances |-> observed'[i]]
  /\ \A i \in Instances :
        \/ /\ pc'[i] = pc[i] /\ lane'[i] = lane[i] /\ goal'[i] = goal[i]
           /\ fresh'[i] = fresh[i] /\ observed'[i] = observed[i]
        \/ GoodTick(chain', jobs', faults', pc'[i], lane'[i], goal'[i], fresh'[i], observed'[i])

LEMMA StepKeeps ==
  ASSUME RelayerInv, ChainSound', On(chain, chain'), FlagsSound', faults <= faults',
         TableMoves, FilesMove, TasksMove, TicksMove
  PROVE  RelayerInv'
<1>1. faults \in Nat /\ faults' \in Nat
  BY DEF RelayerInv, FlagsSound
<1>2. More(jobs, jobs')
  BY NullIsApart DEF More, TableMoves, GoodRow
<1>3. TableSound'
  <2>1. ASSUME NEW k \in Keys
        PROVE  jobs'[k] \in Row \cup {Null} /\ (jobs'[k] # Null => GoodRow(chain', k, jobs'[k]))
    <3>1. CASE jobs'[k] = jobs[k]
      BY <3>1, RowKept DEF RelayerInv, TableSound, Tables
    <3>2. CASE GoodRow(chain', k, jobs'[k])
      BY <3>2 DEF GoodRow
    <3> QED
      BY <3>1, <3>2 DEF TableMoves
  <2>2. jobs' \in Tables
    BY <2>1 DEF TableMoves, Tables
  <2> QED
    BY <2>1, <2>2 DEF TableSound
<1>4. FilesSound'
  <2>1. ASSUME NEW i \in Instances
        PROVE  /\ GoodFile(chain', jobs', faults', mem'[i])
               /\ GoodFile(chain', jobs', faults', disk'[i])
    <3>1. /\ GoodFile(chain', jobs', faults', mem[i])
          /\ GoodFile(chain', jobs', faults', disk[i])
      BY <1>1, <1>2, FileKept DEF RelayerInv, FilesSound
    <3> QED
      BY <3>1 DEF FilesMove
  <2>2. mem' \in [Instances -> LocalState] /\ disk' \in [Instances -> LocalState]
    BY <2>1 DEF FilesMove, GoodFile
  <2> QED
    BY <2>1, <2>2 DEF FilesSound
<1>5. TasksSound'
  <2>1. ASSUME NEW i \in Instances, NEW k \in Keys, tasks'[i][k] # Null
        PROVE  GoodTask(chain', jobs', faults', k, tasks'[i][k])
    <3>1. tasks[i][k] # Null => GoodTask(chain', jobs', faults', k, tasks[i][k])
      BY <1>1, <1>2, TaskKept DEF RelayerInv, TasksSound
    <3> QED
      BY <2>1, <3>1 DEF TasksMove
  <2>2. tasks' \in [Instances -> [Keys -> Task \cup {Null}]]
    <3>1. \A i \in Instances, k \in Keys : tasks'[i][k] \in Task \cup {Null}
      BY <2>1 DEF GoodTask
    <3>2. \A i \in Instances : [k \in Keys |-> tasks'[i][k]] \in [Keys -> Task \cup {Null}]
      BY <3>1
    <3> QED
      BY <3>2 DEF TasksMove
  <2> QED
    BY <2>1, <2>2 DEF TasksSound
<1>6. TicksSound'
  <2>1. ASSUME NEW i \in Instances
        PROVE  GoodTick(chain', jobs', faults', pc'[i], lane'[i], goal'[i], fresh'[i], observed'[i])
    <3>1. GoodTick(chain', jobs', faults', pc[i], lane[i], goal[i], fresh[i], observed[i])
      BY <1>1, <1>2, TickKept DEF RelayerInv, TicksSound
    <3> QED
      BY <3>1 DEF TicksMove
  <2>2. \A i \in Instances : /\ pc'[i] \in PC /\ lane'[i] \in Lanes /\ goal'[i] \in Nat
                             /\ fresh'[i] \in SUBSET Ids /\ observed'[i] \in SUBSET Ids
    BY <2>1 DEF GoodTick
  <2>3. pc' \in [Instances -> PC] /\ lane' \in [Instances -> Lanes] /\ goal' \in [Instances -> Nat]
    BY <2>2 DEF TicksMove
  <2>4. fresh' \in [Instances -> SUBSET Ids] /\ observed' \in [Instances -> SUBSET Ids]
    BY <2>2 DEF TicksMove
  <2> QED
    BY <2>1, <2>3, <2>4 DEF TicksSound
<1> QED
  BY <1>3, <1>4, <1>5, <1>6 DEF RelayerInv

\* Parts that a step does not touch.
LEMMA ChainStill ==
  ASSUME RelayerInv, UNCHANGED chain
  PROVE  On(chain, chain') /\ (UNCHANGED lostTxs => ChainSound')
BY DEF RelayerInv, ChainSound, On

LEMMA TableStill ==
  ASSUME RelayerInv, UNCHANGED jobs
  PROVE  TableMoves
BY DEF RelayerInv, TableSound, Tables, TableMoves

LEMMA FilesStill ==
  ASSUME RelayerInv, UNCHANGED <<mem, disk>>
  PROVE  FilesMove
BY DEF RelayerInv, FilesSound, FilesMove

LEMMA TasksStill ==
  ASSUME RelayerInv, UNCHANGED tasks
  PROVE  TasksMove
<1>1. tasks = [i \in Instances |-> [k \in Keys |-> tasks[i][k]]]
  BY DEF RelayerInv, TasksSound
<1> QED
  BY <1>1 DEF TasksMove

LEMMA TicksStill ==
  ASSUME RelayerInv, UNCHANGED <<pc, lane, goal, fresh, observed>>
  PROVE  TicksMove
BY DEF RelayerInv, TicksSound, TicksMove

LEMMA FlagsStill ==
  ASSUME RelayerInv, UNCHANGED <<backoff, faults>>, crashes' \in Nat,
         active' \in [Instances -> BOOLEAN], dirty' \in [Instances -> BOOLEAN]
  PROVE  FlagsSound' /\ faults <= faults'
BY DEF RelayerInv, FlagsSound

\* A failed call starts a backoff, and is a fault.
LEMMA CallTyped ==
  ASSUME RelayerInv, NEW i \in Instances, crashes' \in Nat,
         \/ CallFails(i) \/ CallSucceeds(i) \/ UNCHANGED <<backoff, faults>>,
         active' \in [Instances -> BOOLEAN], dirty' \in [Instances -> BOOLEAN]
  PROVE  FlagsSound' /\ faults <= faults'
<1>1. CASE CallFails(i)
  <2>1. faults \in Nat /\ faults' = faults + 1 /\ backoff' = [backoff EXCEPT ![i] = TRUE]
        /\ backoff \in [Instances -> BOOLEAN]
    BY <1>1 DEF CallFails, RelayerInv, FlagsSound
  <2> QED
    BY <2>1 DEF FlagsSound
<1>2. CASE UNCHANGED <<backoff, faults>>
  BY <1>2, FlagsStill
<1> QED
  BY <1>1, <1>2 DEF CallSucceeds

\* persistState with a good state.
LEMMA Persisted ==
  ASSUME RelayerInv, NEW i \in Instances, NEW m, PersistState(i, m),
         GoodFile(chain', jobs', faults', m)
  PROVE  FilesMove /\ dirty' \in [Instances -> BOOLEAN]
<1>1. /\ mem \in [Instances -> LocalState] /\ disk \in [Instances -> LocalState]
      /\ dirty \in [Instances -> BOOLEAN]
  BY DEF RelayerInv, FilesSound, FlagsSound
<1>2. mem' = [mem EXCEPT ![i] = m]
  BY DEF PersistState
<1>3. disk' = [disk EXCEPT ![i] = m] \/ disk' = disk
  BY DEF PersistState
<1>4. dirty' \in [Instances -> BOOLEAN]
  BY <1>1 DEF PersistState
<1> QED
  BY <1>1, <1>2, <1>3, <1>4 DEF FilesMove

-----------------------------------------------------------------------------
(* Operations on a state file *)

\* Good items may be enqueued, whichever items the limit sheds.
LEMMA EnqueueGood ==
  ASSUME NEW c, NEW w, NEW f, NEW m, GoodFile(c, w, f, m),
         NEW ks \in SUBSET Keys, NEW item \in Item, Bound(item.attempts),
         \A k \in ks : c[k.id] # "absent" /\ (f = 0 => w[k] # Null),
         NEW v \in Enqueue(m, ks, item)
  PROVE  GoodFile(c, w, f, v)
<1> DEFINE queue == [k \in Keys |-> IF k \in ks THEN item ELSE m.queue[k]]
<1>1. m \in LocalState
  BY DEF GoodFile
<1>2. PICK shed \in SUBSET Keys :
        v = [m EXCEPT !.queue = [x \in Keys |-> IF x \in shed THEN Null ELSE queue[x]],
                      !.dead  = m.dead \cup shed]
  BY DEF Enqueue, Held
<1> DEFINE q == [x \in Keys |-> IF x \in shed THEN Null ELSE queue[x]]
<1>3. \A x \in Keys : q[x] = Null \/ (x \in ks /\ q[x] = item) \/ q[x] = m.queue[x]
  OBVIOUS
<1>4. q \in [Keys -> Item \cup {Null}]
  <2>1. m.queue \in [Keys -> Item \cup {Null}]
    BY <1>1 DEF LocalState
  <2>2. \A x \in Keys : q[x] \in Item \cup {Null}
    BY <1>3, <2>1
  <2> QED
    BY <2>2
<1> HIDE DEF q
<1>5. v = [m EXCEPT !.queue = q, !.dead = m.dead \cup shed]
  BY <1>2 DEF q
<1>6. v \in LocalState /\ v.last = m.last /\ v.processed = m.processed /\ v.queue = q
  BY <1>1, <1>4, <1>5 DEF LocalState
<1>7. \A k \in Keys : /\ Outcome(c, k.id, v.processed[k])
                      /\ v.queue[k] # Null => Bound(v.queue[k].attempts) /\ c[k.id] # "absent"
  BY <1>3, <1>6 DEF GoodFile
<1>8. \A l \in Lanes : Reached(c, v.last[l])
  BY <1>6 DEF GoodFile
<1>9. f = 0 => /\ \A l \in Lanes : Covered(c, w, v.last[l])
               /\ \A k \in Keys : Tracked(v, k) => w[k] # Null
  BY <1>3, <1>6 DEF GoodFile, Tracked
<1> QED
  BY <1>6, <1>7, <1>8, <1>9 DEF GoodFile

LEMMA ClearGood ==
  ASSUME NEW c, NEW w, NEW f, NEW m, GoodFile(c, w, f, m), NEW k \in Keys
  PROVE  GoodFile(c, w, f, ClearRetryItem(m, k))
<1> DEFINE v == ClearRetryItem(m, k)
<1>1. m \in LocalState
  BY DEF GoodFile
<1>2. /\ v \in LocalState /\ v.last = m.last /\ v.processed = m.processed
      /\ v.queue = [m.queue EXCEPT ![k] = Null]
  BY <1>1 DEF LocalState, ClearRetryItem
<1>3. \A x \in Keys : v.queue[x] = Null \/ v.queue[x] = m.queue[x]
  BY <1>1, <1>2 DEF LocalState
<1> HIDE DEF v
<1> QED
  BY <1>2, <1>3 DEF GoodFile, Tracked, v

LEMMA RecordGood ==
  ASSUME NEW c, NEW w, NEW f, NEW m, GoodFile(c, w, f, m), NEW k \in Keys,
         NEW status \in ProcessedStatus, Outcome(c, k.id, status), f = 0 => w[k] # Null
  PROVE  GoodFile(c, w, f, RecordProcessedEvent(m, k, status))
<1> DEFINE v == RecordProcessedEvent(m, k, status)
<1>1. m \in LocalState
  BY DEF GoodFile
<1>2. /\ v.last = m.last /\ v.processed = [m.processed EXCEPT ![k] = status]
      /\ v.queue = [m.queue EXCEPT ![k] = Null]
  BY <1>1 DEF LocalState, RecordProcessedEvent
<1>3. v \in LocalState
  <2>1. v.dead \in SUBSET Keys
    BY <1>1 DEF LocalState, RecordProcessedEvent
  <2>2. [m.processed EXCEPT ![k] = status] \in [Keys -> ProcessedStatus \cup {Null}]
    BY <1>1 DEF LocalState
  <2>3. [m.queue EXCEPT ![k] = Null] \in [Keys -> Item \cup {Null}]
    BY <1>1 DEF LocalState
  <2>4. v = [m EXCEPT !.processed = [m.processed EXCEPT ![k] = status],
                      !.queue = [m.queue EXCEPT ![k] = Null], !.dead = v.dead]
    BY <1>1 DEF LocalState, RecordProcessedEvent
  <2> HIDE DEF v
  <2> QED
    BY <1>1, <2>1, <2>2, <2>3, <2>4 DEF LocalState
<1> HIDE DEF v
<1>4. \A x \in Keys : /\ v.queue[x] = Null \/ v.queue[x] = m.queue[x]
                      /\ v.processed[x] = IF x = k THEN status ELSE m.processed[x]
  BY <1>1, <1>2 DEF LocalState
<1>5. \A x \in Keys : /\ Outcome(c, x.id, v.processed[x])
                      /\ v.queue[x] # Null => Bound(v.queue[x].attempts) /\ c[x.id] # "absent"
  BY <1>4 DEF GoodFile
<1> QED
  BY <1>2, <1>3, <1>4, <1>5 DEF GoodFile, Tracked, v

LEMMA RewoundGood ==
  ASSUME NEW c, NEW w, NEW f, NEW m, GoodFile(c, w, f, m), NEW l \in Lanes, NEW seen
  PROVE  GoodFile(c, w, f, Rewound(m, l, seen))
<1> DEFINE v == [m EXCEPT !.last[l] = 0]
<1>1. m \in LocalState
  BY DEF GoodFile
<1>2. /\ v \in LocalState /\ v.processed = m.processed /\ v.queue = m.queue
      /\ v.last = [m.last EXCEPT ![l] = 0]
  BY <1>1 DEF LocalState
<1>3. \A x \in Lanes : v.last[x] = 0 \/ v.last[x] = m.last[x]
  BY <1>1, <1>2 DEF LocalState
<1> HIDE DEF v
<1>4. Reached(c, 0) /\ Covered(c, w, 0)
  BY DEF Reached, Covered
<1>5. GoodFile(c, w, f, v)
  BY <1>2, <1>3, <1>4 DEF GoodFile, Tracked
<1> QED
  BY <1>5 DEF Rewound, v

LEMMA AdvancedGood ==
  ASSUME NEW c, NEW w, NEW f, NEW m, GoodFile(c, w, f, m), NEW l \in Lanes, NEW n \in Nat,
         Reached(c, n), f = 0 => Covered(c, w, n)
  PROVE  GoodFile(c, w, f, [m EXCEPT !.last[l] = n])
<1> DEFINE v == [m EXCEPT !.last[l] = n]
<1>1. m \in LocalState
  BY DEF GoodFile
<1>2. /\ v \in LocalState /\ v.processed = m.processed /\ v.queue = m.queue
      /\ v.last = [m.last EXCEPT ![l] = n]
  BY <1>1 DEF LocalState
<1>3. \A x \in Lanes : v.last[x] = n \/ v.last[x] = m.last[x]
  BY <1>1, <1>2 DEF LocalState
<1> HIDE DEF v
<1>4. GoodFile(c, w, f, v)
  BY <1>2, <1>3 DEF GoodFile, Tracked
<1> QED
  BY <1>4 DEF v

LEMMA MadeDueGood ==
  ASSUME NEW c, NEW w, NEW f, NEW m, GoodFile(c, w, f, m)
  PROVE  GoodFile(c, w, f, MadeDue(m))
<1> DEFINE q == [k \in Keys |->
                   IF m.queue[k] = Null THEN Null ELSE [m.queue[k] EXCEPT !.due = TRUE]]
           v == [m EXCEPT !.queue = q]
<1>1. m \in LocalState /\ m.queue \in [Keys -> Item \cup {Null}]
  BY DEF GoodFile, LocalState
<1>2. ASSUME NEW k \in Keys
      PROVE  /\ q[k] \in Item \cup {Null} /\ (m.queue[k] = Null => q[k] = Null)
             /\ m.queue[k] # Null => q[k].attempts = m.queue[k].attempts
  <2>1. CASE m.queue[k] = Null
    BY <2>1
  <2>2. CASE m.queue[k] # Null
    <3>1. m.queue[k] \in Item
      BY <1>1, <2>2
    <3>2. q[k] = [m.queue[k] EXCEPT !.due = TRUE]
      BY <2>2
    <3> QED
      BY <2>2, <3>1, <3>2 DEF Item
  <2> QED
    BY <2>1, <2>2
<1>3. q \in [Keys -> Item \cup {Null}]
  BY <1>2
<1> HIDE DEF q
<1>4. v \in LocalState /\ v.processed = m.processed /\ v.queue = q /\ v.last = m.last
  BY <1>1, <1>3 DEF LocalState
<1> HIDE DEF v
<1>5. GoodFile(c, w, f, v)
  BY <1>2, <1>4 DEF GoodFile, Tracked
<1> QED
  BY <1>5 DEF MadeDue, v, q

\* Rows of the table become items: both are within the ceilings.
LEMMA HydratedGood ==
  ASSUME RelayerInv, NEW m, GoodFile(chain, jobs, faults, m)
  PROVE  GoodFile(chain, jobs, faults, Hydrated(m))
<1> DEFINE new(k) == jobs[k] # Null /\ ~Tracked(m, k) /\ Ready(jobs[k])
           item(k) == [attempts |-> jobs[k].attempts, prepared |-> jobs[k].prepared,
                       finalize |-> jobs[k].finalize, claimed |-> TRUE,
                       due |-> jobs[k].status # "queued_backpressure"]
           q == [k \in Keys |-> IF new(k) THEN item(k) ELSE m.queue[k]]
           v == [m EXCEPT !.queue = q]
<1>1. m \in LocalState /\ m.queue \in [Keys -> Item \cup {Null}]
  BY DEF GoodFile, LocalState
<1>2. ASSUME NEW k \in Keys, new(k)
      PROVE  /\ item(k) \in Item /\ Bound(item(k).attempts)
             /\ chain[k.id] # "absent" /\ jobs[k] # Null
  <2>1. GoodRow(chain, k, jobs[k])
    BY <1>2 DEF RelayerInv, TableSound
  <2>2. jobs[k].status \in OpenStatus
    BY <1>2 DEF Ready, OpenStatus
  <2>3. jobs[k] \in Row
    BY <2>1 DEF GoodRow
  <2>4. item(k) \in Item
    BY <2>3 DEF Row, Item
  <2> QED
    BY <1>2, <2>1, <2>2, <2>4 DEF GoodRow
<1>3. ASSUME NEW k \in Keys
      PROVE  /\ q[k] \in Item \cup {Null}
             /\ q[k] = m.queue[k] \/ (Bound(q[k].attempts) /\ chain[k.id] # "absent"
                                      /\ jobs[k] # Null)
  <2> HIDE DEF new, item
  <2>1. q[k] = IF new(k) THEN item(k) ELSE m.queue[k]
    OBVIOUS
  <2> QED
    BY <1>1, <1>2, <2>1
<1>4. q \in [Keys -> Item \cup {Null}]
  <2> HIDE DEF new, item
  <2> QED
    BY <1>3
<1> HIDE DEF q
<1>5. v \in LocalState /\ v.processed = m.processed /\ v.queue = q /\ v.last = m.last
  BY <1>1, <1>4 DEF LocalState
<1> HIDE DEF v
<1>6. GoodFile(chain, jobs, faults, v)
  BY <1>3, <1>5 DEF GoodFile, Tracked
<1> QED
  BY <1>6 DEF Hydrated, v, q

-----------------------------------------------------------------------------
(* The chain *)

LEMMA LatestIs ==
  ASSUME RelayerConstants, ChainSound
  PROVE  /\ Latest \in 0 .. MaxRequests
         /\ \A id \in Ids : chain[id] # "absent" <=> id <= Latest
<1>1. PICK n \in 0 .. MaxRequests : \A id \in Ids : chain[id] # "absent" <=> id <= n
  BY DEF ChainSound
<1>2. n \in Nat /\ n <= MaxRequests /\ MaxRequests \in Nat
  BY DEF RelayerConstants
<1>3. {id \in Ids : chain[id] # "absent"} = 1 .. n
  BY <1>1, <1>2 DEF Ids
<1>4. Cardinality(1 .. n) = n
  <2>1. Cardinality(1 .. n) = IF 1 > n THEN 0 ELSE n - 1 + 1
    BY <1>2, FS_Interval
  <2> QED
    BY <2>1, <1>2
<1>5. Latest = n
  BY <1>3, <1>4 DEF Latest
<1> QED
  BY <1>1, <1>5

LEMMA LatestReached ==
  ASSUME RelayerConstants, ChainSound, NEW n \in Nat, n <= Latest
  PROVE  Reached(chain, n)
<1>1. Latest \in 0 .. MaxRequests /\ MaxRequests \in Nat
  BY LatestIs DEF RelayerConstants
<1> QED
  BY <1>1, LatestIs DEF Reached, Ids

\* The new request's id is the next free one.
LEMMA NewRequestKeeps ==
  ASSUME RelayerConstants, RelayerInv, NEW id \in Ids, NewRequest(id)
  PROVE  RelayerInv'
<1>1. /\ chain' = [chain EXCEPT ![id] = "pending"] /\ id = Latest + 1
      /\ UNCHANGED <<tickVars, localVars, tableVars, lostTxs, tasks, crashes>>
  BY DEF NewRequest
<1>2. UNCHANGED <<pc, lane, goal, fresh, observed, active, mem, disk, dirty, jobs, backoff,
                  faults, lostTxs, tasks, crashes>>
  BY <1>1 DEF tickVars, localVars, tableVars
<1>3. /\ ChainSound /\ chain \in Chains /\ Latest \in 0 .. MaxRequests /\ id <= MaxRequests
      /\ \A x \in Ids : x \in Nat /\ (chain[x] # "absent" <=> x <= Latest)
  <2>1. ChainSound /\ Latest \in 0 .. MaxRequests
        /\ \A x \in Ids : chain[x] # "absent" <=> x <= Latest
    BY LatestIs DEF RelayerInv
  <2>2. \A x \in Ids : x \in Nat /\ x <= MaxRequests
    BY DEF Ids, RelayerConstants
  <2> QED
    BY <2>1, <2>2 DEF ChainSound
<1>4. Latest + 1 \in 0 .. MaxRequests
  BY <1>1, <1>3 DEF RelayerConstants
<1>5. \A x \in Ids : chain'[x] # "absent" <=> x <= Latest + 1
  BY <1>1, <1>3 DEF Chains
<1>6. ChainSound'
  <2>1. chain' \in Chains /\ lostTxs' \subseteq [id : Ids, success : BOOLEAN]
    BY <1>1, <1>2, <1>3 DEF Chains, ChainSound
  <2> QED
    BY <2>1, <1>4, <1>5 DEF ChainSound
<1>7. On(chain, chain')
  <2>1. chain[id] = "absent"
    BY <1>1, <1>3
  <2> QED
    BY <2>1, <1>1, <1>3 DEF On, Chains
<1> QED
  BY <1>2, <1>6, <1>7, StepKeeps, TableStill, FilesStill, TasksStill, TicksStill, FlagsStill
     DEF RelayerInv, FlagsSound

\* A pending request is settled; the others stay.
LEMMA SettlesOne ==
  ASSUME RelayerInv, NEW id \in Ids, NEW s \in {"succeeded", "failed", "expired"},
         chain' = chain \/ (chain[id] = "pending" /\ chain' = [chain EXCEPT ![id] = s]),
         lostTxs' \subseteq [id : Ids, success : BOOLEAN]
  PROVE  ChainSound' /\ On(chain, chain')
<1>1. chain \in Chains
  BY DEF RelayerInv, ChainSound
<1>2. chain' \in Chains
  BY <1>1 DEF Chains
<1>3. \A x \in Ids : chain'[x] # "absent" <=> chain[x] # "absent"
  BY <1>1 DEF Chains
<1>4. On(chain, chain')
  BY <1>1 DEF On, Chains
<1> QED
  BY <1>2, <1>3, <1>4 DEF ChainSound, RelayerInv

LEMMA SettledIs ==
  ASSUME NEW id, NEW success \in BOOLEAN
  PROVE  \/ Settled(id, success) = chain
         \/ /\ chain[id] = "pending"
            /\ Settled(id, success) =
                 [chain EXCEPT ![id] = IF success THEN "succeeded" ELSE "failed"]
BY DEF Settled

LEMMA ExpireKeeps ==
  ASSUME RelayerInv, NEW id \in Ids, ExpireRequest(id)
  PROVE  RelayerInv'
<1>1. /\ chain[id] = "pending" /\ chain' = [chain EXCEPT ![id] = "expired"]
      /\ UNCHANGED <<pc, lane, goal, fresh, observed, active, mem, disk, dirty, jobs, backoff,
                     faults, lostTxs, tasks, crashes>>
  BY DEF ExpireRequest, tickVars, localVars, tableVars
<1>2. ChainSound' /\ On(chain, chain')
  BY <1>1, SettlesOne DEF RelayerInv, ChainSound
<1> QED
  BY <1>1, <1>2, StepKeeps, TableStill, FilesStill, TasksStill, TicksStill, FlagsStill
     DEF RelayerInv, FlagsSound

LEMMA MineLostKeeps ==
  ASSUME RelayerInv, NEW x \in lostTxs, MineLostTx(x)
  PROVE  RelayerInv'
<1>1. /\ chain' = Settled(x.id, x.success) /\ lostTxs' = lostTxs \ {x}
      /\ UNCHANGED <<pc, lane, goal, fresh, observed, active, mem, disk, dirty, jobs, backoff,
                     faults, tasks, crashes>>
  BY DEF MineLostTx, tickVars, localVars, tableVars
<1>2. x \in [id : Ids, success : BOOLEAN] /\ lostTxs' \subseteq [id : Ids, success : BOOLEAN]
  BY <1>1 DEF RelayerInv, ChainSound
<1>3. x.id \in Ids /\ x.success \in BOOLEAN
  BY <1>2
<1>4. (IF x.success THEN "succeeded" ELSE "failed") \in {"succeeded", "failed", "expired"}
  OBVIOUS
<1>5. ChainSound' /\ On(chain, chain')
  BY <1>1, <1>2, <1>3, <1>4, SettledIs, SettlesOne
<1> QED
  BY <1>1, <1>5, StepKeeps, TableStill, FilesStill, TasksStill, TicksStill, FlagsStill
     DEF RelayerInv, FlagsSound

\* One task changes.
LEMMA TaskSet ==
  ASSUME RelayerInv, NEW i \in Instances, NEW k \in Keys, NEW t, SetTask(i, k, t),
         t = Null \/ GoodTask(chain', jobs', faults', k, t)
  PROVE  TasksMove
<1>1. /\ tasks \in [Instances -> [Keys -> Task \cup {Null}]]
      /\ tasks' = [tasks EXCEPT ![i][k] = t]
  BY DEF RelayerInv, TasksSound, SetTask
<1>2. tasks' = [j \in Instances |-> [x \in Keys |-> tasks'[j][x]]]
  BY <1>1
<1>3. \A j \in Instances, x \in Keys :
         tasks'[j][x] = IF j = i /\ x = k THEN t ELSE tasks[j][x]
  BY <1>1
<1> QED
  BY <1>2, <1>3 DEF TasksMove

LEMMA MineFulfillmentKeeps ==
  ASSUME RelayerInv, NEW i \in Instances, NEW k \in Keys, MineFulfillment(i, k)
  PROVE  RelayerInv'
<1> DEFINE t == tasks[i][k]
           x == IF chain[k.id] = "pending" THEN "halt" ELSE "fault"
           u == [t EXCEPT !.tx = x]
<1>1. /\ t # Null /\ t.tx = "sent" /\ chain' = Settled(k.id, Success(t))
      /\ SetTask(i, k, u)
      /\ UNCHANGED <<pc, lane, goal, fresh, observed, active, mem, disk, dirty, jobs, backoff,
                     faults, lostTxs, crashes>>
  BY DEF MineFulfillment, tickVars, localVars, tableVars
<1>2. k.id \in Ids /\ chain \in Chains /\ Success(t) \in BOOLEAN
  BY KeyIds DEF RelayerInv, ChainSound, Success
<1>3. GoodTask(chain, jobs, faults, k, t)
  BY <1>1 DEF RelayerInv, TasksSound
<1>4. (IF Success(t) THEN "succeeded" ELSE "failed") \in {"succeeded", "failed", "expired"}
  OBVIOUS
<1>5. ChainSound' /\ On(chain, chain')
  <2>1. lostTxs' \subseteq [id : Ids, success : BOOLEAN]
    BY <1>1 DEF RelayerInv, ChainSound
  <2>2. \/ chain' = chain
        \/ /\ chain[k.id] = "pending"
           /\ chain' = [chain EXCEPT ![k.id] = IF Success(t) THEN "succeeded" ELSE "failed"]
    BY <1>1, <1>2, SettledIs
  <2> QED
    BY <1>2, <1>4, <2>1, <2>2, SettlesOne
<1>6. More(jobs, jobs') /\ faults \in Nat /\ faults' = faults
  BY <1>1 DEF More, RelayerInv, FlagsSound
<1>7. GoodTask(chain', jobs', faults', k, t)
  BY <1>3, <1>5, <1>6, TaskKept
<1>8. /\ u \in Task /\ u.stage = t.stage /\ u.prepared = t.prepared /\ u.finalize = t.finalize
      /\ u.rescue = t.rescue /\ u.attempts = t.attempts /\ u.row = t.row /\ u.tx = x
  BY <1>7 DEF Task, GoodTask
<1>9. /\ x = "halt" => chain'[k.id] = IF Success(t) THEN "succeeded" ELSE "failed"
      /\ x = "fault" => chain'[k.id] \notin {"absent", "pending"}
  <2>1. CASE chain[k.id] = "pending"
    BY <2>1, <1>1, <1>2 DEF Settled, Chains
  <2>2. CASE chain[k.id] # "pending"
    <3>1. chain' = chain
      BY <2>2, <1>1 DEF Settled
    <3> QED
      BY <2>2, <3>1, <1>3 DEF GoodTask
  <2> QED
    BY <2>1, <2>2
<1> HIDE DEF u, x, t
<1>10. GoodTask(chain', jobs', faults', k, u)
  <2>1. Success(u) = Success(t) /\ t.stage = "confirm"
    BY <1>1, <1>7, <1>8 DEF Success, GoodTask
  <2> QED
    BY <2>1, <1>7, <1>8, <1>9 DEF GoodTask
<1>11. TasksMove
  BY <1>1, <1>10, TaskSet
<1> QED
  BY <1>1, <1>5, <1>11, StepKeeps, TableStill, FilesStill, TicksStill, FlagsStill
     DEF RelayerInv, FlagsSound

-----------------------------------------------------------------------------
(* Time and crashes *)

LEMMA NoRowRemoved ==
  ASSUME TableMoves
  PROVE  More(jobs, jobs')
BY NullIsApart DEF More, TableMoves, GoodRow

\* What an instance holds is good in the next state too.
LEMMA StillGood ==
  ASSUME RelayerInv, NEW i \in Instances, On(chain, chain'), TableMoves,
         faults' \in Nat, faults <= faults'
  PROVE  /\ GoodFile(chain', jobs', faults', mem[i])
         /\ GoodFile(chain', jobs', faults', disk[i])
         /\ \A k \in Keys : tasks[i][k] # Null =>
               GoodTask(chain', jobs', faults', k, tasks[i][k])
         /\ GoodTick(chain', jobs', faults', pc[i], lane[i], goal[i], fresh[i], observed[i])
<1>1. More(jobs, jobs') /\ faults \in Nat
  BY NoRowRemoved DEF RelayerInv, FlagsSound
<1> QED
  BY <1>1, FileKept, TaskKept, TickKept DEF RelayerInv, FilesSound, TasksSound, TicksSound

LEMMA FlushKeeps ==
  ASSUME RelayerInv, NEW i \in Instances, FlushTimer(i)
  PROVE  RelayerInv'
<1>1. /\ disk' = [disk EXCEPT ![i] = mem[i]] /\ dirty' = [dirty EXCEPT ![i] = FALSE]
      /\ UNCHANGED <<pc, lane, goal, fresh, observed, active, mem, jobs, backoff, faults,
                     chain, lostTxs, tasks, crashes>>
  BY DEF FlushTimer, tickVars, tableVars, chainVars
<1>2. FilesMove
  BY <1>1 DEF FilesMove, RelayerInv, FilesSound
<1>3. dirty' \in [Instances -> BOOLEAN] /\ active' \in [Instances -> BOOLEAN] /\ crashes' \in Nat
  BY <1>1 DEF RelayerInv, FlagsSound
<1> QED
  BY <1>1, <1>2, <1>3, StepKeeps, ChainStill, TableStill, TasksStill, TicksStill, FlagsStill

LEMMA FallDueKeeps ==
  ASSUME RelayerInv, NEW i \in Instances, RetriesFallDue(i)
  PROVE  RelayerInv'
<1>1. /\ mem' = [mem EXCEPT ![i] = MadeDue(mem[i])]
      /\ disk' = [disk EXCEPT ![i] = MadeDue(disk[i])]
      /\ UNCHANGED <<pc, lane, goal, fresh, observed, active, dirty, jobs, backoff, faults,
                     chain, lostTxs, tasks, crashes>>
  BY DEF RetriesFallDue, tickVars, tableVars, chainVars
<1>2. /\ GoodFile(chain', jobs', faults', MadeDue(mem[i]))
      /\ GoodFile(chain', jobs', faults', MadeDue(disk[i]))
  BY <1>1, MadeDueGood DEF RelayerInv, FilesSound
<1>3. FilesMove
  <2>1. mem \in [Instances -> LocalState] /\ disk \in [Instances -> LocalState]
    BY DEF RelayerInv, FilesSound
  <2> QED
    BY <1>1, <1>2, <2>1 DEF FilesMove
<1>4. dirty' \in [Instances -> BOOLEAN] /\ active' \in [Instances -> BOOLEAN] /\ crashes' \in Nat
  BY <1>1 DEF RelayerInv, FlagsSound
<1> QED
  BY <1>1, <1>3, <1>4, StepKeeps, ChainStill, TableStill, TasksStill, TicksStill, FlagsStill

LEMMA BackoffKeeps ==
  ASSUME RelayerInv, NEW i \in Instances, BackoffEnds(i)
  PROVE  RelayerInv'
<1>1. /\ backoff' = [backoff EXCEPT ![i] = FALSE]
      /\ UNCHANGED <<pc, lane, goal, fresh, observed, active, mem, disk, dirty, jobs, faults,
                     chain, lostTxs, tasks, crashes>>
  BY DEF BackoffEnds, tickVars, localVars, chainVars
<1>2. FlagsSound' /\ faults <= faults'
  BY <1>1 DEF RelayerInv, FlagsSound
<1> QED
  BY <1>1, <1>2, StepKeeps, ChainStill, TableStill, FilesStill, TasksStill, TicksStill

LEMMA RipensKeeps ==
  ASSUME RelayerInv, NEW k \in Keys, JobRipens(k)
  PROVE  RelayerInv'
<1> DEFINE row == [jobs[k] EXCEPT !.ripe = TRUE]
<1>1. /\ jobs[k] # Null /\ jobs' = [jobs EXCEPT ![k] = row]
      /\ UNCHANGED <<pc, lane, goal, fresh, observed, active, mem, disk, dirty, backoff, faults,
                     chain, lostTxs, tasks, crashes>>
  BY DEF JobRipens, tickVars, localVars, chainVars
<1>2. GoodRow(chain, k, jobs[k]) /\ jobs \in Tables
  BY <1>1 DEF RelayerInv, TableSound
<1>3. row \in Row /\ row.status = jobs[k].status /\ row.attempts = jobs[k].attempts
  BY <1>2 DEF GoodRow, Row
<1> HIDE DEF row
<1>4. GoodRow(chain', k, row)
  BY <1>1, <1>2, <1>3 DEF GoodRow
<1>5. TableMoves
  BY <1>1, <1>2, <1>4 DEF TableMoves, Tables
<1>6. dirty' \in [Instances -> BOOLEAN] /\ active' \in [Instances -> BOOLEAN] /\ crashes' \in Nat
  BY <1>1 DEF RelayerInv, FlagsSound
<1> QED
  BY <1>1, <1>5, <1>6, StepKeeps, ChainStill, FilesStill, TasksStill, TicksStill, FlagsStill

\* An idle instance with nothing at hand.
LEMMA IdleTick ==
  ASSUME NEW c, NEW w, NEW f, NEW l \in Lanes
  PROVE  GoodTick(c, w, f, "idle", l, 0, {}, {})
BY DEF GoodTick, PC, Reached

LEMMA CrashKeeps ==
  ASSUME RelayerInv, NEW i \in Instances, Crash(i)
  PROVE  RelayerInv'
<1> DEFINE gone == {x \in Keys : tasks[i][x] # Null /\ tasks[i][x].tx = "sent"}
<1>1. /\ crashes' = crashes + 1 /\ pc' = [pc EXCEPT ![i] = "idle"]
      /\ goal' = [goal EXCEPT ![i] = 0] /\ fresh' = [fresh EXCEPT ![i] = {}]
      /\ observed' = [observed EXCEPT ![i] = {}] /\ active' = [active EXCEPT ![i] = FALSE]
      /\ mem' = [mem EXCEPT ![i] = disk[i]] /\ dirty' = [dirty EXCEPT ![i] = FALSE]
      /\ backoff' = [backoff EXCEPT ![i] = FALSE]
      /\ tasks' = [tasks EXCEPT ![i] = [k \in Keys |-> Null]]
      /\ UNCHANGED <<lane, disk, jobs, faults, chain>>
  BY DEF Crash, DropTickState
<1>2. lostTxs' = lostTxs \cup {[id |-> k.id, success |-> Success(tasks[i][k])] : k \in gone}
  BY DEF Crash
<1>3. ChainSound' /\ On(chain, chain')
  <2>1. \A k \in gone : [id |-> k.id, success |-> Success(tasks[i][k])]
                          \in [id : Ids, success : BOOLEAN]
    BY KeyIds DEF Success
  <2>2. lostTxs' \subseteq [id : Ids, success : BOOLEAN]
    BY <1>2, <2>1 DEF RelayerInv, ChainSound
  <2> QED
    BY <2>2, <1>1, ChainStill DEF RelayerInv, ChainSound
<1>4. FilesMove
  BY <1>1 DEF FilesMove, RelayerInv, FilesSound
<1>5. TasksMove
  <2>1. tasks \in [Instances -> [Keys -> Task \cup {Null}]]
    BY DEF RelayerInv, TasksSound
  <2>2. \A j \in Instances : tasks'[j] = IF j = i THEN [k \in Keys |-> Null] ELSE tasks[j]
    BY <1>1, <2>1
  <2>3. tasks' = [j \in Instances |-> [k \in Keys |-> tasks'[j][k]]]
    BY <1>1, <2>1
  <2>4. \A j \in Instances, k \in Keys : tasks'[j][k] \in {tasks[j][k], Null}
    BY <2>2
  <2> QED
    BY <2>3, <2>4 DEF TasksMove
<1>6. TicksMove
  <2>1. /\ pc \in [Instances -> PC] /\ lane \in [Instances -> Lanes] /\ goal \in [Instances -> Nat]
        /\ fresh \in [Instances -> SUBSET Ids] /\ observed \in [Instances -> SUBSET Ids]
    BY DEF RelayerInv, TicksSound
  <2>2. \A j \in Instances : j # i =>
          /\ pc'[j] = pc[j] /\ lane'[j] = lane[j] /\ goal'[j] = goal[j]
          /\ fresh'[j] = fresh[j] /\ observed'[j] = observed[j]
    BY <1>1, <2>1
  <2>3. /\ pc'[i] = "idle" /\ goal'[i] = 0 /\ fresh'[i] = {} /\ observed'[i] = {}
        /\ lane'[i] \in Lanes
    BY <1>1, <2>1
  <2>4. GoodTick(chain', jobs', faults', pc'[i], lane'[i], goal'[i], fresh'[i], observed'[i])
    BY <2>3, IdleTick
  <2>5. /\ pc' = [j \in Instances |-> pc'[j]] /\ lane' = [j \in Instances |-> lane'[j]]
        /\ goal' = [j \in Instances |-> goal'[j]] /\ fresh' = [j \in Instances |-> fresh'[j]]
        /\ observed' = [j \in Instances |-> observed'[j]]
    BY <1>1, <2>1
  <2> QED
    BY <2>2, <2>4, <2>5 DEF TicksMove
<1>7. FlagsSound' /\ faults <= faults'
  BY <1>1 DEF RelayerInv, FlagsSound
<1> QED
  BY <1>1, <1>3, <1>4, <1>5, <1>6, <1>7, StepKeeps, TableStill

-----------------------------------------------------------------------------
(* The tick *)

\* A function of the instances changes at most at instance i.
OnlyAt(f, g, i) ==
  /\ g = [j \in Instances |-> g[j]]
  /\ \A j \in Instances : j # i => g[j] = f[j]

LEMMA TickSet ==
  ASSUME RelayerInv, NEW i \in Instances, OnlyAt(pc, pc', i), OnlyAt(lane, lane', i),
         OnlyAt(goal, goal', i), OnlyAt(fresh, fresh', i), OnlyAt(observed, observed', i),
         GoodTick(chain', jobs', faults', pc'[i], lane'[i], goal'[i], fresh'[i], observed'[i])
  PROVE  TicksMove
BY DEF TicksMove, OnlyAt

LEMMA TickTypes ==
  ASSUME RelayerInv
  PROVE  /\ pc \in [Instances -> PC] /\ lane \in [Instances -> Lanes]
         /\ goal \in [Instances -> Nat] /\ fresh \in [Instances -> SUBSET Ids]
         /\ observed \in [Instances -> SUBSET Ids]
         /\ active \in [Instances -> BOOLEAN] /\ dirty \in [Instances -> BOOLEAN]
         /\ backoff \in [Instances -> BOOLEAN] /\ faults \in Nat /\ crashes \in Nat
         /\ mem \in [Instances -> LocalState] /\ disk \in [Instances -> LocalState]
BY DEF RelayerInv, TicksSound, FlagsSound, FilesSound

\* Outside a scan a tick promises nothing about its range.
LEMMA TickOutside ==
  ASSUME NEW c, NEW w, NEW f, NEW p, NEW l, NEW g, NEW new, NEW seen,
         GoodTick(c, w, f, p, l, g, new, seen),
         NEW q \in PC \ {"persist", "defer", "work"}, NEW k \in Lanes, NEW s \in {seen, {}}
  PROVE  GoodTick(c, w, f, q, k, g, new, s)
BY DEF GoodTick

\* The end of a tick, or of a part of it.
LEMMA EndsTyped ==
  ASSUME RelayerInv, NEW i \in Instances, NEW ends, DropTickState(i, ends)
  PROVE  /\ OnlyAt(observed, observed', i) /\ observed'[i] \in {observed[i], {}}
         /\ active' \in [Instances -> BOOLEAN]
BY TickTypes DEF DropTickState, OnlyAt

LEMMA TickEndFiles ==
  ASSUME RelayerInv, NEW i \in Instances, NEW ends, TickEndIf(i, ends),
         mem' = mem \/ mem' = [mem EXCEPT ![i] = mem'[i]],
         GoodFile(chain', jobs', faults', mem'[i])
  PROVE  /\ FilesMove /\ dirty' \in [Instances -> BOOLEAN]
         /\ OnlyAt(observed, observed', i) /\ observed'[i] \in {observed[i], {}}
         /\ active' \in [Instances -> BOOLEAN]
<1>1. \/ disk' = [disk EXCEPT ![i] = mem'[i]] /\ dirty' = [dirty EXCEPT ![i] = FALSE]
      \/ UNCHANGED <<disk, dirty>>
  BY DEF TickEndIf, TickEnd
<1>2. dirty' \in [Instances -> BOOLEAN]
  BY <1>1, TickTypes
<1>3. FilesMove
  <2>1. mem' = [j \in Instances |-> mem'[j]] /\ \A j \in Instances : j # i => mem'[j] = mem[j]
    BY TickTypes
  <2>2. /\ disk' = [j \in Instances |-> disk'[j]]
        /\ \A j \in Instances : j # i => disk'[j] = disk[j]
        /\ disk'[i] \in {disk[i], mem'[i]}
    BY <1>1, TickTypes
  <2> QED
    BY <2>1, <2>2 DEF FilesMove
<1> QED
  BY <1>2, <1>3, EndsTyped DEF TickEndIf

LEMMA StartTickKeeps ==
  ASSUME RelayerConstants, RelayerInv, NEW i \in Instances, StartTick(i)
  PROVE  RelayerInv'
<1>1. /\ mem' = [mem EXCEPT ![i] = disk[i]] /\ pc' = [pc EXCEPT ![i] = "hydrate"]
      /\ lane' = [lane EXCEPT ![i] = MainLane]
      /\ UNCHANGED <<goal, fresh, observed, active, disk, dirty, jobs, backoff, faults, chain,
                     lostTxs, tasks, crashes>>
  BY DEF StartTick, tableVars, chainVars
<1>2. FilesMove
  BY <1>1 DEF FilesMove, RelayerInv, FilesSound
<1>3. TicksMove
  <2>1. /\ OnlyAt(pc, pc', i) /\ OnlyAt(lane, lane', i) /\ OnlyAt(goal, goal', i)
        /\ OnlyAt(fresh, fresh', i) /\ OnlyAt(observed, observed', i)
        /\ pc'[i] = "hydrate" /\ lane'[i] = MainLane
    BY <1>1, TickTypes DEF OnlyAt
  <2>2. MainLane \in Lanes /\ "hydrate" \in PC \ {"persist", "defer", "work"}
    BY DEF RelayerConstants, Lanes, PC
  <2>3. GoodTick(chain', jobs', faults', pc[i], lane[i], goal[i], fresh[i], observed[i])
    BY <1>1 DEF RelayerInv, TicksSound
  <2>4. GoodTick(chain', jobs', faults', "hydrate", MainLane, goal[i], fresh[i], observed[i])
    BY <2>2, <2>3, TickOutside
  <2> QED
    BY <1>1, <2>1, <2>4, TickSet
<1> QED
  BY <1>1, <1>2, <1>3, StepKeeps, ChainStill, TableStill, TasksStill, FlagsStill, TickTypes

LEMMA HydrateKeeps ==
  ASSUME RelayerInv, NEW i \in Instances, HydrateDurableQueue(i)
  PROVE  RelayerInv'
<1>1. /\ pc' = [pc EXCEPT ![i] = "discover"]
      /\ UNCHANGED <<lane, goal, fresh, observed, active, jobs, chain, lostTxs, tasks, crashes>>
      /\ CallFails(i) \/ CallSucceeds(i) \/ UNCHANGED <<backoff, faults>>
  BY DEF HydrateDurableQueue, chainVars
<1>2. FilesMove /\ dirty' \in [Instances -> BOOLEAN]
  <2>1. CASE UNCHANGED localVars
    BY <2>1, FilesStill, TickTypes DEF localVars
  <2>2. CASE CallSucceeds(i) /\ PersistState(i, Hydrated(mem[i]))
    <3>1. GoodFile(chain', jobs', faults', Hydrated(mem[i]))
      BY <1>1, <2>2, HydratedGood DEF CallSucceeds, RelayerInv, FilesSound
    <3> QED
      BY <2>2, <3>1, Persisted
  <2> QED
    BY <2>1, <2>2 DEF HydrateDurableQueue
<1>3. FlagsSound' /\ faults <= faults' /\ faults' \in Nat
  <2>1. FlagsSound' /\ faults <= faults'
    BY <1>1, <1>2, CallTyped, TickTypes
  <2> QED
    BY <2>1 DEF FlagsSound
<1>4. On(chain, chain') /\ TableMoves /\ ChainSound'
  BY <1>1, ChainStill, TableStill
<1>5. TicksMove
  <2>1. /\ OnlyAt(pc, pc', i) /\ OnlyAt(lane, lane', i) /\ OnlyAt(goal, goal', i)
        /\ OnlyAt(fresh, fresh', i) /\ OnlyAt(observed, observed', i)
        /\ pc'[i] = "discover"
    BY <1>1, TickTypes DEF OnlyAt
  <2>2. lane[i] \in Lanes /\ "discover" \in PC \ {"persist", "defer", "work"}
    BY TickTypes DEF PC
  <2>3. GoodTick(chain', jobs', faults', pc[i], lane[i], goal[i], fresh[i], observed[i])
    BY <1>3, <1>4, StillGood
  <2>4. GoodTick(chain', jobs', faults', "discover", lane[i], goal[i], fresh[i], observed[i])
    BY <2>2, <2>3, TickOutside
  <2> QED
    BY <1>1, <2>1, <2>4, TickSet
<1> QED
  BY <1>1, <1>2, <1>3, <1>4, <1>5, StepKeeps, TasksStill

\* A scan that finds nothing to do, or fails: the tick goes on after the scan.
LEMMA ScanEnds ==
  ASSUME RelayerConstants, RelayerInv, NEW i \in Instances,
         pc' = [pc EXCEPT ![i] = AfterScan(i)], TickEndIf(i, AfterScan(i) = "idle"),
         mem' = mem \/ mem' = [mem EXCEPT ![i] = mem'[i]],
         GoodFile(chain', jobs', faults', mem'[i]),
         UNCHANGED <<lane, goal, fresh, jobs, backoff, chain, lostTxs, tasks, crashes>>,
         faults' \in {faults, faults + 1}
  PROVE  RelayerInv'
<1>1. /\ FilesMove /\ dirty' \in [Instances -> BOOLEAN]
      /\ OnlyAt(observed, observed', i) /\ observed'[i] \in {observed[i], {}}
      /\ active' \in [Instances -> BOOLEAN]
  BY TickEndFiles
<1>2. FlagsSound' /\ faults <= faults' /\ faults' \in Nat
  BY <1>1, TickTypes DEF FlagsSound, RelayerInv
<1>3. On(chain, chain') /\ TableMoves /\ ChainSound'
  BY ChainStill, TableStill
<1>4. TicksMove
  <2>1. /\ OnlyAt(pc, pc', i) /\ OnlyAt(lane, lane', i) /\ OnlyAt(goal, goal', i)
        /\ OnlyAt(fresh, fresh', i) /\ pc'[i] = AfterScan(i)
    BY TickTypes DEF OnlyAt
  <2>2. lane[i] \in Lanes /\ AfterScan(i) \in PC \ {"persist", "defer", "work"}
    BY TickTypes DEF PC, AfterScan
  <2>3. GoodTick(chain', jobs', faults', pc[i], lane[i], goal[i], fresh[i], observed[i])
    BY <1>2, <1>3, StillGood
  <2>4. GoodTick(chain', jobs', faults', AfterScan(i), lane[i], goal[i], fresh[i], observed'[i])
    <3>1. observed'[i] \in {observed[i], {}}
      BY <1>1
    <3> QED
      BY ONLY <2>2, <2>3, <3>1 DEF GoodTick
  <2> QED
    BY <1>1, <2>1, <2>4, TickSet
<1> QED
  BY <1>1, <1>2, <1>3, <1>4, StepKeeps, TasksStill

LEMMA DiscoverFailsKeeps ==
  ASSUME RelayerConstants, RelayerInv, NEW i \in Instances, DiscoverFails(i)
  PROVE  RelayerInv'
<1>1. /\ faults' = faults + 1 /\ pc' = [pc EXCEPT ![i] = AfterScan(i)] /\ mem' = mem
      /\ TickEndIf(i, AfterScan(i) = "idle")
      /\ UNCHANGED <<lane, goal, fresh, jobs, backoff, chain, lostTxs, tasks, crashes>>
  BY DEF DiscoverFails, chainVars
<1>2. faults' \in Nat /\ faults <= faults'
  BY <1>1, TickTypes
<1>3. GoodFile(chain', jobs', faults', mem'[i])
  BY <1>1, <1>2, StillGood, ChainStill, TableStill
<1> QED
  BY <1>1, <1>3, ScanEnds

\* The ids of a scan are behind the chain.  Before the first fault, each
\* pending one has a row already or is among the scan's new events.
LEMMA ScanGood ==
  ASSUME RelayerConstants, RelayerInv, NEW i \in Instances, NEW seen \in Nat, seen <= Latest,
         NEW from, from = ScanFrom(mem[i], lane[i], seen), from <= seen,
         NEW to, to = IF seen < from + MaxBlocksPerTick - 1 THEN seen
                      ELSE from + MaxBlocksPerTick - 1
  PROVE  GoodTick(chain, jobs, faults, "persist", lane[i], to,
                  NewEvents(i, Scanned(lane[i], from, to)), observed[i])
<1> DEFINE l == lane[i]
           m == Rewound(mem[i], l, seen)
           new == NewEvents(i, Scanned(l, from, to))
<1>1. l \in Lanes /\ GoodFile(chain, jobs, faults, mem[i]) /\ observed[i] \subseteq Ids
  BY TickTypes DEF RelayerInv, FilesSound
<1>2. GoodFile(chain, jobs, faults, m)
  BY <1>1, RewoundGood
<1>3. m.last[l] \in Nat /\ from = m.last[l] + 1
  BY <1>1, <1>2 DEF GoodFile, LocalState, ScanFrom
<1>4. to \in Nat /\ from \in Nat /\ 1 <= from /\ to <= seen
  <2>1. MaxBlocksPerTick \in Nat \ {0}
    BY DEF RelayerConstants
  <2> QED
    BY <2>1, <1>3
<1>5. Latest \in Nat
  BY LatestIs DEF RelayerInv, RelayerConstants
<1>6. Reached(chain, to)
  BY <1>4, <1>5, LatestReached DEF RelayerInv
<1>7. new \subseteq from .. to
  BY DEF NewEvents, Scanned
<1>8. \A id \in from .. to : id \in 1 .. to
  BY <1>4
<1>9. new \subseteq Ids /\ \A id \in new : chain[id] # "absent"
  BY <1>6, <1>7, <1>8 DEF Reached
<1>10. ASSUME faults = 0, NEW id \in 1 .. to, chain[id] = "pending"
       PROVE  Rowed(jobs, id) \/ id \in new
  <2>1. CASE id < from
    <3>1. id \in 1 .. m.last[l]
      BY <1>3, <2>1
    <3> QED
      BY <1>1, <1>2, <1>10, <3>1 DEF GoodFile, Covered
  <2>2. CASE from <= id
    <3>1. id \in Scanned(l, from, to) /\ id \in Ids
      BY <1>4, <1>6, <1>10, <2>2 DEF Scanned, Reached
    <3>2. CASE Tracked(mem[i], [id |-> id, lane |-> l])
      <4> DEFINE k == [id |-> id, lane |-> l]
      <4>1. k \in Keys /\ k.id = id
        BY <1>1, <3>1 DEF Keys
      <4>2. jobs[k] # Null
        BY <1>1, <1>10, <3>2, <4>1 DEF GoodFile
      <4> QED
        BY <4>1, <4>2 DEF Rowed
    <3>3. CASE id \in observed[i]
      BY <1>10, <3>3 DEF RelayerInv, TicksSound, GoodTick
    <3>4. CASE id \in ActiveRequestIds(mem[i])
      <4>1. PICK k \in Keys : k.id = id /\ Tracked(mem[i], k)
        BY <3>4 DEF ActiveRequestIds
      <4>2. jobs[k] # Null
        BY <1>1, <1>10, <4>1 DEF GoodFile
      <4> QED
        BY <4>1, <4>2 DEF Rowed
    <3>5. CASE /\ ~Tracked(mem[i], [id |-> id, lane |-> l])
               /\ id \notin observed[i] \cup ActiveRequestIds(mem[i])
      BY <3>1, <3>5 DEF NewEvents
    <3> QED
      BY <3>2, <3>3, <3>4, <3>5
  <2>3. id \in Nat
    BY <1>4
  <2> QED
    BY <1>4, <2>1, <2>2, <2>3
<1>11. faults = 0 => \A id \in observed[i] : Rowed(jobs, id)
  BY DEF RelayerInv, TicksSound, GoodTick
<1> HIDE DEF new, l
<1>12. GoodTick(chain, jobs, faults, "persist", l, to, new, observed[i])
  BY <1>1, <1>4, <1>6, <1>9, <1>10, <1>11 DEF GoodTick, PC
<1> QED
  BY <1>12 DEF new, l

LEMMA DiscoverKeeps ==
  ASSUME RelayerConstants, RelayerInv, NEW i \in Instances, NEW seen \in Nat, seen <= Latest,
         Discover(i, seen)
  PROVE  RelayerInv'
<1> DEFINE from == ScanFrom(mem[i], lane[i], seen)
           to == IF seen < from + MaxBlocksPerTick - 1 THEN seen ELSE from + MaxBlocksPerTick - 1
<1>1. /\ mem' = [mem EXCEPT ![i] = Rewound(mem[i], lane[i], seen)]
      /\ faults' = (IF seen < Latest THEN faults + 1 ELSE faults)
      /\ UNCHANGED <<lane, jobs, backoff, chain, lostTxs, tasks, crashes>>
  BY DEF Discover, chainVars
<1>2. /\ mem'[i] = Rewound(mem[i], lane[i], seen) /\ mem' = [mem EXCEPT ![i] = mem'[i]]
      /\ faults' \in {faults, faults + 1} /\ faults' \in Nat /\ faults <= faults'
  BY <1>1, TickTypes
<1>3. On(chain, chain') /\ TableMoves /\ ChainSound'
  BY <1>1, ChainStill, TableStill
<1>4. GoodFile(chain', jobs', faults', mem'[i])
  <2>1. GoodFile(chain', jobs', faults', mem[i]) /\ lane[i] \in Lanes
    BY <1>2, <1>3, StillGood, TickTypes
  <2> QED
    BY <1>2, <2>1, RewoundGood
<1>5. CASE /\ pc' = [pc EXCEPT ![i] = AfterScan(i)]
           /\ TickEndIf(i, AfterScan(i) = "idle")
           /\ UNCHANGED <<goal, fresh>>
  BY <1>1, <1>2, <1>4, <1>5, ScanEnds
<1>6. CASE /\ from <= seen /\ pc' = [pc EXCEPT ![i] = "persist"]
           /\ goal' = [goal EXCEPT ![i] = to]
           /\ fresh' = [fresh EXCEPT ![i] = NewEvents(i, Scanned(lane[i], from, to))]
           /\ TickEndIf(i, FALSE)
  <2> DEFINE new == NewEvents(i, Scanned(lane[i], from, to))
  <2>1. GoodTick(chain, jobs, faults, "persist", lane[i], to, new, observed[i])
    BY <1>6, ScanGood
  <2>2. /\ FilesMove /\ dirty' \in [Instances -> BOOLEAN] /\ active' \in [Instances -> BOOLEAN]
    BY <1>2, <1>4, <1>6, TickEndFiles
  <2>3. UNCHANGED observed
    BY <1>6 DEF TickEndIf, DropTickState
  <2>4. More(jobs, jobs') /\ faults \in Nat
    BY <1>3, NoRowRemoved, TickTypes
  <2> HIDE DEF new, to, from
  <2>5. GoodTick(chain', jobs', faults', "persist", lane[i], to, new, observed[i])
    BY <1>2, <1>3, <2>1, <2>4, TickKept
  <2>6. fresh' = [fresh EXCEPT ![i] = new]
    BY <1>6 DEF new
  <2>7. /\ OnlyAt(pc, pc', i) /\ OnlyAt(lane, lane', i) /\ OnlyAt(goal, goal', i)
        /\ OnlyAt(fresh, fresh', i) /\ OnlyAt(observed, observed', i)
        /\ pc'[i] = "persist" /\ lane'[i] = lane[i] /\ goal'[i] = to /\ fresh'[i] = new
        /\ observed'[i] = observed[i]
    BY <1>1, <1>6, <2>3, <2>6, TickTypes DEF OnlyAt
  <2>8. TicksMove
    BY <2>5, <2>7, TickSet
  <2>9. FlagsSound'
    BY <1>1, <1>2, <2>2, TickTypes DEF FlagsSound, RelayerInv
  <2> QED
    BY <1>1, <1>2, <1>3, <2>2, <2>8, <2>9, StepKeeps, TasksStill
<1>7. from > seen \/ from <= seen
  <2>1. GoodFile(chain, jobs, faults, Rewound(mem[i], lane[i], seen)) /\ lane[i] \in Lanes
    BY RewoundGood, TickTypes DEF RelayerInv, FilesSound
  <2>2. from \in Nat
    BY <2>1 DEF GoodFile, LocalState, ScanFrom
  <2> QED
    BY <2>2
<1> QED
  BY <1>5, <1>6, <1>7 DEF Discover

\* A new row within the ceilings that records no outcome.
LEMMA OpenRow ==
  ASSUME RelayerConstants, NEW c, NEW k \in Keys, c[k.id] # "absent",
         NEW status \in OpenStatus, NEW attempts \in Nat, Bound(attempts),
         NEW prepared \in Prepared, NEW finalize \in BOOLEAN
  PROVE  GoodRow(c, k, NewRow(status, attempts, prepared, finalize))
<1> DEFINE row == NewRow(status, attempts, prepared, finalize)
<1>1. row \in Row /\ row.status = status /\ row.attempts = attempts
  BY DEF NewRow, Row
<1>2. status \notin {"fulfilled", "failed", "settled"}
  BY DEF OpenStatus, WaitingStatus, WorkingStatus, QueuedStatus
<1> HIDE DEF row
<1>3. GoodRow(c, k, row)
  BY <1>1, <1>2 DEF GoodRow, Outcome
<1> QED
  BY <1>3 DEF row

LEMMA ZeroBound == RelayerConstants => Bound(0)
BY DEF Bound, RelayerConstants

\* The keys of an instance's new events are on the chain.
LEMMA FreshKnown ==
  ASSUME RelayerInv, NEW i \in Instances
  PROVE  /\ FreshKeys(i) \subseteq Keys
         /\ \A k \in FreshKeys(i) : chain[k.id] # "absent" /\ k.id \in fresh[i]
<1>1. fresh[i] \subseteq Ids /\ lane[i] \in Lanes /\ \A id \in fresh[i] : chain[id] # "absent"
  BY TickTypes DEF RelayerInv, TicksSound, GoodTick
<1> QED
  BY <1>1 DEF FreshKeys, Keys

LEMMA PersistFreshKeeps ==
  ASSUME RelayerConstants, RelayerInv, NEW i \in Instances, PersistFreshEvents(i)
  PROVE  RelayerInv'
<1>1. /\ pc[i] = "persist" /\ pc' = [pc EXCEPT ![i] = "defer"]
      /\ UNCHANGED <<lane, goal, fresh, observed, active, mem, disk, dirty, chain, lostTxs,
                     tasks, crashes>>
  BY DEF PersistFreshEvents, localVars, chainVars
<1>2. \/ backoff[i] /\ UNCHANGED <<jobs, backoff, faults>>
      \/ CallSucceeds(i) /\ jobs' = Inserted(FreshKeys(i))
      \/ CallFails(i) /\ \E ks \in SUBSET FreshKeys(i) : jobs' = Inserted(ks)
  BY DEF PersistFreshEvents, tableVars
<1>3. FlagsSound' /\ faults <= faults' /\ faults' \in Nat
  <2>1. FlagsSound' /\ faults <= faults'
    BY <1>1, <1>2, CallTyped, TickTypes
  <2> QED
    BY <2>1 DEF FlagsSound
<1>4. ChainSound' /\ On(chain, chain')
  BY <1>1, ChainStill
<1>5. jobs \in Tables
  BY DEF RelayerInv, TableSound
<1>6. ASSUME NEW ks \in SUBSET FreshKeys(i), jobs' = Inserted(ks)
      PROVE  TableMoves /\ \A k \in ks : jobs'[k] # Null
  <2>1. \A k \in ks : k \in Keys /\ GoodRow(chain', k, NewRow("queued", 0, "none", FALSE))
    BY <1>1, FreshKnown, OpenRow, ZeroBound DEF OpenStatus, QueuedStatus, Prepared
  <2>2. \A k \in Keys : jobs'[k] = IF k \in ks /\ jobs[k] = Null
                                   THEN NewRow("queued", 0, "none", FALSE) ELSE jobs[k]
    BY <1>6 DEF Inserted
  <2>3. jobs' = [k \in Keys |-> jobs'[k]]
    BY <1>6 DEF Inserted
  <2>4. \A k \in ks : jobs'[k] # Null
    BY <2>1, <2>2, NullIsApart DEF GoodRow
  <2> QED
    BY <2>1, <2>2, <2>3, <2>4 DEF TableMoves
<1>7. TableMoves
  BY <1>2, <1>6, TableStill
<1>8. faults' = 0 => \A k \in FreshKeys(i) : jobs'[k] # Null
  <2>1. ASSUME faults' = 0 PROVE CallSucceeds(i) /\ jobs' = Inserted(FreshKeys(i))
    <3>1. faults = 0 /\ faults \in Nat
      BY <1>3, <2>1, TickTypes
    <3>2. ~backoff[i] /\ ~CallFails(i)
      BY <2>1, <3>1 DEF RelayerInv, FlagsSound, CallFails
    <3> QED
      BY <1>2, <3>2
  <2> QED
    BY <2>1, <1>6
<1>9. GoodTick(chain', jobs', faults', pc[i], lane[i], goal[i], fresh[i], observed[i])
  BY <1>3, <1>4, <1>7, StillGood
<1>10. GoodTick(chain', jobs', faults', "defer", lane[i], goal[i], fresh[i], observed[i])
  <2>1. ASSUME faults' = 0
        PROVE  /\ Covered(chain', jobs', goal[i])
               /\ \A k \in [id : fresh[i], lane : {lane[i]}] : jobs'[k] # Null
    <3>1. \A k \in [id : fresh[i], lane : {lane[i]}] : jobs'[k] # Null /\ k \in Keys
      BY <1>8, <2>1, FreshKnown DEF FreshKeys
    <3>2. \A id \in fresh[i] : Rowed(jobs', id)
      <4> TAKE id \in fresh[i]
      <4> DEFINE k == [id |-> id, lane |-> lane[i]]
      <4>1. k \in [id : fresh[i], lane : {lane[i]}] /\ k.id = id
        OBVIOUS
      <4> HIDE DEF k
      <4> QED
        BY <3>1, <4>1 DEF Rowed
    <3> QED
      BY <1>1, <1>9, <2>1, <3>1, <3>2 DEF GoodTick, Covered
  <2>2. "defer" \in PC
    BY DEF PC
  <2> QED
    BY <1>9, <2>1, <2>2 DEF GoodTick
<1>11. TicksMove
  <2>1. /\ OnlyAt(pc, pc', i) /\ OnlyAt(lane, lane', i) /\ OnlyAt(goal, goal', i)
        /\ OnlyAt(fresh, fresh', i) /\ OnlyAt(observed, observed', i) /\ pc'[i] = "defer"
    BY <1>1, TickTypes DEF OnlyAt
  <2> QED
    BY <1>1, <1>10, <2>1, TickSet
<1> QED
  BY <1>1, <1>3, <1>4, <1>7, <1>11, StepKeeps, FilesStill, TasksStill

\* A task that was just started.
LEMMA NewTaskGood ==
  ASSUME NEW c, NEW w, NEW f, NEW k \in Keys, c[k.id] # "absent", f = 0 => w[k] # Null,
         NEW retry \in BOOLEAN, NEW attempts \in Nat, Bound(attempts),
         NEW prepared \in Prepared, NEW finalize \in BOOLEAN, NEW claimed \in BOOLEAN
  PROVE  GoodTask(c, w, f, k, NewTask(retry, attempts, prepared, finalize, claimed))
<1> DEFINE t == NewTask(retry, attempts, prepared, finalize, claimed)
<1>1. /\ t \in Task /\ t.stage = "claim" /\ t.attempts = attempts /\ t.rescue = FALSE
      /\ t.tx = "none"
  BY DEF NewTask, Task
<1> HIDE DEF t
<1>2. GoodTask(c, w, f, k, t)
  BY <1>1 DEF GoodTask
<1> QED
  BY <1>2 DEF t

\* The tasks of one instance are replaced.
LEMMA TasksSet ==
  ASSUME RelayerInv, NEW i \in Instances, NEW ts, tasks' = [tasks EXCEPT ![i] = ts],
         ts = [k \in Keys |-> ts[k]],
         \A k \in Keys : ts[k] = Null \/ GoodTask(chain', jobs', faults', k, ts[k])
  PROVE  TasksMove
<1>1. tasks \in [Instances -> [Keys -> Task \cup {Null}]]
  BY DEF RelayerInv, TasksSound
<1>2. \A j \in Instances : tasks'[j] = IF j = i THEN ts ELSE tasks[j]
  BY <1>1
<1>3. \A j \in Instances : tasks'[j] = [k \in Keys |-> tasks'[j][k]]
  BY <1>1, <1>2
<1>4. tasks' = [j \in Instances |-> [k \in Keys |-> tasks'[j][k]]]
  <2>1. tasks' = [j \in Instances |-> tasks'[j]]
    BY <1>1
  <2> QED
    BY <2>1, <1>3
<1> QED
  BY <1>2, <1>4 DEF TasksMove

\* The events left for later, and those that are processed now.
LEMMA DeferKeeps ==
  ASSUME RelayerConstants, RelayerInv, NEW i \in Instances, DeferAndProcess(i)
  PROVE  RelayerInv'
<1> DEFINE now == FreshKeys(i) \ Deferred(i)
           ts == [k \in Keys |-> IF k \in now THEN NewTask(FALSE, 0, "none", FALSE, FALSE) ELSE Null]
<1>1. /\ pc[i] = "defer" /\ pc' = [pc EXCEPT ![i] = "work"]
      /\ fresh' = [fresh EXCEPT ![i] = {}]
      /\ observed' = [observed EXCEPT ![i] = observed[i] \cup {k.id : k \in now}]
      /\ active' = [active EXCEPT ![i] = active[i] \/ fresh[i] # {}]
      /\ tasks' = [tasks EXCEPT ![i] = ts]
      /\ UNCHANGED <<lane, goal, chain, lostTxs, crashes>>
  BY DEF DeferAndProcess, chainVars
<1>2. \/ UNCHANGED <<jobs, backoff, faults>>
      \/ CallSucceeds(i) /\ jobs' = RowsDeferred(Deferred(i))
      \/ CallFails(i) /\ \E ks \in SUBSET Deferred(i) : jobs' = RowsDeferred(ks)
  BY DEF DeferAndProcess, tableVars
<1>3. \/ UNCHANGED <<mem, disk, dirty>>
      \/ \E m \in Enqueue(mem[i], Deferred(i), NewItem(0, "none", FALSE, FALSE)) :
            PersistState(i, m)
  BY DEF DeferAndProcess, localVars
<1>4. /\ Deferred(i) \subseteq FreshKeys(i) /\ FreshKeys(i) \subseteq Keys
      /\ \A k \in FreshKeys(i) : chain'[k.id] # "absent" /\ k.id \in fresh[i]
  BY <1>1, FreshKnown DEF Deferred
<1>5. ChainSound' /\ On(chain, chain')
  BY <1>1, ChainStill
<1>6. faults <= faults' /\ faults' \in Nat /\ faults \in Nat
  BY <1>2, TickTypes DEF CallSucceeds, CallFails
<1>7. TableMoves
  <2>1. ASSUME NEW ks \in SUBSET Deferred(i), jobs' = RowsDeferred(ks)
        PROVE  TableMoves
    <3>1. \A k \in ks : GoodRow(chain', k, NewRow("queued_backpressure", 0, "none", FALSE))
      BY <1>4, OpenRow, ZeroBound DEF OpenStatus, QueuedStatus, Prepared
    <3>2. \A k \in Keys : jobs'[k] = IF k \in ks THEN NewRow("queued_backpressure", 0, "none", FALSE)
                                     ELSE jobs[k]
      BY <2>1 DEF RowsDeferred
    <3>3. jobs' = [k \in Keys |-> jobs'[k]]
      BY <2>1 DEF RowsDeferred
    <3> QED
      BY <3>1, <3>2, <3>3 DEF TableMoves
  <2> QED
    BY <1>2, <2>1, TableStill
<1>8. /\ GoodFile(chain', jobs', faults', mem[i])
      /\ GoodTick(chain', jobs', faults', "defer", lane[i], goal[i], fresh[i], observed[i])
  BY <1>1, <1>5, <1>6, <1>7, StillGood
<1>9. faults' = 0 => \A k \in FreshKeys(i) : jobs'[k] # Null
  BY <1>8 DEF GoodTick, FreshKeys
<1>10. FilesMove /\ dirty' \in [Instances -> BOOLEAN]
  <2>1. CASE UNCHANGED <<mem, disk, dirty>>
    BY <2>1, FilesStill, TickTypes
  <2>2. ASSUME NEW m \in Enqueue(mem[i], Deferred(i), NewItem(0, "none", FALSE, FALSE)),
               PersistState(i, m)
        PROVE  FilesMove /\ dirty' \in [Instances -> BOOLEAN]
    <3> DEFINE item == NewItem(0, "none", FALSE, FALSE)
    <3>1. item \in Item /\ item.attempts = 0
      BY DEF NewItem, Item, Prepared
    <3>2. Bound(item.attempts)
      BY <3>1, ZeroBound
    <3> HIDE DEF item
    <3>3. Deferred(i) \in SUBSET Keys /\ m \in Enqueue(mem[i], Deferred(i), item)
      BY <1>4 DEF item
    <3>4. \A k \in Deferred(i) : chain'[k.id] # "absent" /\ (faults' = 0 => jobs'[k] # Null)
      BY <1>4, <1>9
    <3>5. GoodFile(chain', jobs', faults', m)
      BY <1>8, <3>1, <3>2, <3>3, <3>4, EnqueueGood
    <3> QED
      BY <2>2, <3>5, Persisted
  <2> QED
    BY <1>3, <2>1, <2>2
<1>11. TasksMove
  <2>1. ts = [k \in Keys |-> ts[k]]
    OBVIOUS
  <2>2. ASSUME NEW k \in Keys PROVE ts[k] = Null \/ GoodTask(chain', jobs', faults', k, ts[k])
    <3>1. CASE k \in now
      <4>1. GoodTask(chain', jobs', faults', k, NewTask(FALSE, 0, "none", FALSE, FALSE))
        BY <3>1, <1>4, <1>9, ZeroBound, NewTaskGood DEF Prepared
      <4> QED
        BY <3>1, <4>1
    <3> QED
      BY <3>1
  <2> HIDE DEF ts
  <2> QED
    BY <1>1, <2>1, <2>2, TasksSet
<1>12. FlagsSound'
  <2>1. active' \in [Instances -> BOOLEAN] /\ crashes' \in Nat
    BY <1>1, TickTypes
  <2> QED
    BY <1>2, <1>10, <2>1, CallTyped
<1>13. GoodTick(chain', jobs', faults', "work", lane[i], goal[i], {},
                observed[i] \cup {k.id : k \in now})
  <2>1. faults' = 0 => \A id \in {k.id : k \in now} : Rowed(jobs', id)
    BY <1>4, <1>9 DEF Rowed
  <2>2. {k.id : k \in now} \subseteq Ids
    BY <1>4, KeyIds
  <2> HIDE DEF now
  <2> QED
    BY <1>8, <2>1, <2>2 DEF GoodTick, PC
<1>14. TicksMove
  <2> HIDE DEF now
  <2>1. /\ OnlyAt(pc, pc', i) /\ OnlyAt(lane, lane', i) /\ OnlyAt(goal, goal', i)
        /\ OnlyAt(fresh, fresh', i) /\ OnlyAt(observed, observed', i)
        /\ pc'[i] = "work" /\ fresh'[i] = {} /\ lane'[i] = lane[i] /\ goal'[i] = goal[i]
        /\ observed'[i] = observed[i] \cup {k.id : k \in now}
    BY <1>1, TickTypes DEF OnlyAt
  <2> QED
    BY <1>13, <2>1, TickSet
<1> QED
  BY <1>5, <1>6, <1>7, <1>10, <1>11, <1>12, <1>14, StepKeeps

\* The checkpoint moves to the end of a range whose pending requests are in
\* the table.
LEMMA AdvanceKeeps ==
  ASSUME RelayerConstants, RelayerInv, NEW i \in Instances, AdvanceCheckpoint(i)
  PROVE  RelayerInv'
<1> DEFINE m == [mem[i] EXCEPT !.last[lane[i]] = goal[i]]
<1>1. /\ pc[i] = "work" /\ PersistState(i, m) /\ pc' = [pc EXCEPT ![i] = AfterScan(i)]
      /\ goal' = [goal EXCEPT ![i] = 0] /\ DropTickState(i, AfterScan(i) = "idle")
      /\ UNCHANGED <<lane, fresh, jobs, backoff, faults, chain, lostTxs, tasks, crashes>>
  BY DEF AdvanceCheckpoint, tableVars, chainVars
<1>2. /\ GoodTick(chain', jobs', faults', "work", lane[i], goal[i], fresh[i], observed[i])
      /\ GoodFile(chain', jobs', faults', mem[i])
  BY <1>1 DEF RelayerInv, TicksSound, FilesSound
<1>3. GoodFile(chain', jobs', faults', m)
  <2>1. lane[i] \in Lanes /\ goal[i] \in Nat /\ Reached(chain', goal[i])
        /\ (faults' = 0 => Covered(chain', jobs', goal[i]))
    BY <1>2 DEF GoodTick
  <2> QED
    BY <1>2, <2>1, AdvancedGood
<1> HIDE DEF m
<1>4. FilesMove /\ dirty' \in [Instances -> BOOLEAN]
  BY <1>1, <1>3, Persisted
<1>5. /\ OnlyAt(observed, observed', i) /\ observed'[i] \in {observed[i], {}}
      /\ active' \in [Instances -> BOOLEAN]
  BY <1>1, EndsTyped
<1>6. TicksMove
  <2>1. /\ OnlyAt(pc, pc', i) /\ OnlyAt(lane, lane', i) /\ OnlyAt(goal, goal', i)
        /\ OnlyAt(fresh, fresh', i) /\ pc'[i] = AfterScan(i) /\ goal'[i] = 0
    BY <1>1, TickTypes DEF OnlyAt
  <2>2. lane[i] \in Lanes /\ AfterScan(i) \in PC \ {"persist", "defer", "work"}
    BY TickTypes DEF PC, AfterScan
  <2>3. GoodTick(chain', jobs', faults', AfterScan(i), lane[i], goal[i], fresh[i], observed'[i])
    BY <1>2, <1>5, <2>2, TickOutside
  <2>4. GoodTick(chain', jobs', faults', AfterScan(i), lane[i], 0, fresh[i], observed'[i])
    BY <2>2, <2>3 DEF GoodTick, Reached
  <2> QED
    BY <1>1, <1>5, <2>1, <2>4, TickSet
<1> QED
  BY <1>1, <1>4, <1>5, <1>6, StepKeeps, ChainStill, TableStill, TasksStill, FlagsStill, TickTypes

LEMMA RetriesKeeps ==
  ASSUME RelayerConstants, RelayerInv, NEW i \in Instances, RunDueRetries(i)
  PROVE  RelayerInv'
<1> DEFINE task(t) == NewTask(TRUE, t.attempts, t.prepared, t.finalize, t.claimed)
           ts(batch) == [k \in Keys |-> IF k \in batch THEN task(mem[i].queue[k]) ELSE Null]
           due == {k \in Keys : mem[i].queue[k] # Null /\ mem[i].queue[k].due}
<1>1. /\ pc' = [pc EXCEPT ![i] = "retrying"]
      /\ active' = [active EXCEPT ![i] = active[i] \/ due # {}]
      /\ UNCHANGED <<lane, goal, fresh, observed, mem, disk, dirty, jobs, backoff, faults, chain,
                     lostTxs, crashes>>
  BY DEF RunDueRetries, localVars, tableVars, chainVars
<1>2. PICK batch \in SUBSET due : tasks' = [tasks EXCEPT ![i] = ts(batch)]
  BY DEF RunDueRetries
<1>3. GoodFile(chain', jobs', faults', mem[i])
  BY <1>1 DEF RelayerInv, FilesSound
<1>4. ASSUME NEW k \in batch
      PROVE  k \in Keys /\ GoodTask(chain', jobs', faults', k, task(mem[i].queue[k]))
  <2> DEFINE t == mem[i].queue[k]
  <2>1. k \in Keys /\ t # Null
    BY <1>2
  <2>2. t \in Item
    BY <1>3, <2>1 DEF GoodFile, LocalState
  <2>3. /\ t.attempts \in Nat /\ t.prepared \in Prepared /\ t.finalize \in BOOLEAN
        /\ t.claimed \in BOOLEAN
    BY <2>2 DEF Item
  <2>4. Bound(t.attempts) /\ chain'[k.id] # "absent" /\ (faults' = 0 => jobs'[k] # Null)
    BY <1>3, <2>1 DEF GoodFile, Tracked
  <2> HIDE DEF t
  <2>5. GoodTask(chain', jobs', faults', k, NewTask(TRUE, t.attempts, t.prepared, t.finalize, t.claimed))
    BY <2>1, <2>3, <2>4, NewTaskGood
  <2> QED
    BY <2>1, <2>5 DEF t
<1>5. TasksMove
  <2> HIDE DEF task
  <2>1. ts(batch) = [k \in Keys |-> ts(batch)[k]]
    OBVIOUS
  <2>2. \A k \in Keys : ts(batch)[k] = Null \/ GoodTask(chain', jobs', faults', k, ts(batch)[k])
    BY <1>4
  <2> HIDE DEF ts
  <2> QED
    BY <1>2, <2>1, <2>2, TasksSet
<1>6. TicksMove
  <2>1. /\ OnlyAt(pc, pc', i) /\ OnlyAt(lane, lane', i) /\ OnlyAt(goal, goal', i)
        /\ OnlyAt(fresh, fresh', i) /\ OnlyAt(observed, observed', i) /\ pc'[i] = "retrying"
    BY <1>1, TickTypes DEF OnlyAt
  <2>2. lane[i] \in Lanes /\ "retrying" \in PC \ {"persist", "defer", "work"}
    BY TickTypes DEF PC
  <2>3. GoodTick(chain', jobs', faults', pc[i], lane[i], goal[i], fresh[i], observed[i])
    BY <1>1 DEF RelayerInv, TicksSound
  <2>4. GoodTick(chain', jobs', faults', "retrying", lane[i], goal[i], fresh[i], observed[i])
    BY <2>2, <2>3, TickOutside
  <2> QED
    BY <1>1, <2>1, <2>4, TickSet
<1>7. active' \in [Instances -> BOOLEAN] /\ dirty' \in [Instances -> BOOLEAN] /\ crashes' \in Nat
  BY <1>1, TickTypes
<1> QED
  BY <1>1, <1>5, <1>6, <1>7, StepKeeps, ChainStill, TableStill, FilesStill, FlagsStill

LEMMA RetriesDoneKeeps ==
  ASSUME RelayerConstants, RelayerInv, NEW i \in Instances, RetriesDone(i)
  PROVE  RelayerInv'
<1> DEFINE p == IF MainLane = "block" THEN "discover" ELSE "idle"
<1>1. /\ lane' = [lane EXCEPT ![i] = "cursor"] /\ pc' = [pc EXCEPT ![i] = p]
      /\ TickEndIf(i, MainLane = "cursor")
      /\ UNCHANGED <<mem, goal, fresh, jobs, backoff, faults, chain, lostTxs, tasks, crashes>>
  BY DEF RetriesDone, tableVars, chainVars
<1>2. /\ GoodTick(chain', jobs', faults', pc[i], lane[i], goal[i], fresh[i], observed[i])
      /\ GoodFile(chain', jobs', faults', mem'[i])
  BY <1>1 DEF RelayerInv, TicksSound, FilesSound
<1>3. /\ FilesMove /\ dirty' \in [Instances -> BOOLEAN]
      /\ OnlyAt(observed, observed', i) /\ observed'[i] \in {observed[i], {}}
      /\ active' \in [Instances -> BOOLEAN]
  BY <1>1, <1>2, TickEndFiles
<1>4. "cursor" \in Lanes /\ p \in PC \ {"persist", "defer", "work"}
  BY DEF PC, Lanes
<1> HIDE DEF p
<1>5. TicksMove
  <2>1. /\ OnlyAt(pc, pc', i) /\ OnlyAt(lane, lane', i) /\ OnlyAt(goal, goal', i)
        /\ OnlyAt(fresh, fresh', i) /\ pc'[i] = p /\ lane'[i] = "cursor"
    BY <1>1, TickTypes DEF OnlyAt
  <2>2. GoodTick(chain', jobs', faults', p, "cursor", goal[i], fresh[i], observed'[i])
    BY <1>2, <1>3, <1>4, TickOutside
  <2> QED
    BY <1>1, <1>3, <2>1, <2>2, TickSet
<1> QED
  BY <1>1, <1>3, <1>5, StepKeeps, ChainStill, TableStill, TasksStill, FlagsStill, TickTypes

-----------------------------------------------------------------------------
(* processEvent *)

LEMMA TaskStepKeeps ==
  ASSUME RelayerInv, NEW i \in Instances, TableMoves, FilesMove, TasksMove,
         dirty' \in [Instances -> BOOLEAN],
         CallFails(i) \/ CallSucceeds(i) \/ UNCHANGED <<backoff, faults>>,
         UNCHANGED <<chain, tickVars, crashes>>,
         lostTxs' \subseteq [id : Ids, success : BOOLEAN]
  PROVE  RelayerInv'
<1>1. UNCHANGED <<pc, lane, goal, fresh, observed, active>>
  BY DEF tickVars
<1>2. FlagsSound' /\ faults <= faults'
  BY <1>1, CallTyped, TickTypes
<1>3. On(chain, chain') /\ ChainSound'
  BY ChainStill DEF RelayerInv, ChainSound
<1> QED
  BY <1>1, <1>2, <1>3, StepKeeps, TicksStill

\* maybeUpsertJob with a good row.
LEMMA Upserted ==
  ASSUME RelayerInv, NEW i \in Instances, NEW k \in Keys, NEW row, UpsertJob(i, k, row),
         GoodRow(chain', k, row)
  PROVE  /\ TableMoves /\ faults <= faults' /\ faults' \in Nat
         /\ CallFails(i) \/ CallSucceeds(i) \/ UNCHANGED <<backoff, faults>>
<1>1. CallFails(i) \/ CallSucceeds(i) \/ UNCHANGED <<backoff, faults>>
  BY DEF UpsertJob, tableVars
<1>2. jobs' = jobs \/ jobs' = [jobs EXCEPT ![k] = row]
  BY DEF UpsertJob, tableVars
<1>3. jobs \in Tables /\ faults \in Nat
  BY TickTypes DEF RelayerInv, TableSound
<1>4. TableMoves
  BY <1>2, <1>3 DEF TableMoves, Tables
<1> QED
  BY <1>1, <1>3, <1>4 DEF CallFails, CallSucceeds

\* A task at hand, and what it says of the request.
LEMMA AtHand ==
  ASSUME RelayerInv, NEW i \in Instances, NEW k \in Keys, tasks[i][k] # Null
  PROVE  GoodTask(chain, jobs, faults, k, tasks[i][k])
BY DEF RelayerInv, TasksSound

LEMMA RowOf ==
  ASSUME NEW status, NEW attempts, NEW prepared, NEW finalize
  PROVE  /\ NewRow(status, attempts, prepared, finalize).status = status
         /\ NewRow(status, attempts, prepared, finalize).attempts = attempts
BY DEF NewRow

\* The row of a closed job.
LEMMA ClosedRow ==
  ASSUME NEW c, NEW k \in Keys, c[k.id] # "absent", NEW status \in ClosedStatus,
         Outcome(c, k.id, status), NEW attempts \in Nat
  PROVE  GoodRow(c, k, NewRow(status, attempts, "none", FALSE))
<1> DEFINE row == NewRow(status, attempts, "none", FALSE)
<1>1. row \in Row /\ row.status = status
  BY DEF NewRow, Row, Prepared
<1>2. status \notin OpenStatus
  BY DEF ClosedStatus, ProcessedStatus, OpenStatus, WaitingStatus, WorkingStatus, QueuedStatus
<1> HIDE DEF row
<1>3. GoodRow(c, k, row)
  BY <1>1, <1>2 DEF GoodRow
<1> QED
  BY <1>3 DEF row

LEMMA CloseTaskGood ==
  ASSUME RelayerConstants, NEW c, NEW w, NEW f, NEW k \in Keys, NEW row, GoodRow(c, k, row),
         f = 0 => w[k] # Null
  PROVE  GoodTask(c, w, f, k, CloseTask(row))
<1> DEFINE t == CloseTask(row)
<1>1. row \in Row /\ c[k.id] # "absent"
  BY DEF GoodRow
<1>2. /\ t \in Task /\ t.stage = "close" /\ t.attempts = 0 /\ t.rescue = FALSE /\ t.tx = "none"
      /\ t.row = row
  BY <1>1 DEF CloseTask, NewTask, Task, Prepared
<1> HIDE DEF t
<1>3. GoodTask(c, w, f, k, t)
  BY <1>1, <1>2, ZeroBound DEF GoodTask
<1> QED
  BY <1>3 DEF t

LEMMA ItemGood ==
  ASSUME NEW attempts \in Nat, NEW prepared \in Prepared, NEW finalize \in BOOLEAN,
         NEW claimed \in BOOLEAN
  PROVE  /\ NewItem(attempts, prepared, finalize, claimed) \in Item
         /\ NewItem(attempts, prepared, finalize, claimed).attempts = attempts
BY DEF NewItem, Item

\* A task's own key is put on the retry queue.
LEMMA Requeued ==
  ASSUME RelayerInv, NEW i \in Instances, NEW k \in Keys, tasks[i][k] # Null,
         UNCHANGED <<chain, jobs, faults>>,
         NEW attempts \in Nat, Bound(attempts), NEW prepared \in Prepared,
         NEW finalize \in BOOLEAN, NEW claimed \in BOOLEAN,
         \E m \in Enqueue(mem[i], {k}, NewItem(attempts, prepared, finalize, claimed)) :
            PersistState(i, m)
  PROVE  FilesMove /\ dirty' \in [Instances -> BOOLEAN]
<1> DEFINE item == NewItem(attempts, prepared, finalize, claimed)
<1>1. item \in Item /\ Bound(item.attempts)
  BY ItemGood
<1>2. PICK m \in Enqueue(mem[i], {k}, item) : PersistState(i, m)
  OBVIOUS
<1> HIDE DEF item
<1>3. \A x \in {k} : chain'[x.id] # "absent" /\ (faults' = 0 => jobs'[x] # Null)
  BY AtHand DEF GoodTask
<1>4. GoodFile(chain', jobs', faults', mem[i])
  BY DEF RelayerInv, FilesSound
<1>5. GoodFile(chain', jobs', faults', m)
  BY <1>1, <1>3, <1>4, EnqueueGood
<1> QED
  BY <1>2, <1>5, Persisted

\* What processEvent may leave: good files and a good task.
Leaves == FilesMove /\ TasksMove /\ dirty' \in [Instances -> BOOLEAN]

LEMMA RecordLeaves ==
  ASSUME RelayerConstants, RelayerInv, NEW i \in Instances, NEW k \in Keys, tasks[i][k] # Null,
         UNCHANGED <<chain, jobs, faults>>,
         NEW local \in ProcessedStatus, NEW durable \in ClosedStatus, NEW attempts \in Nat,
         Outcome(chain, k.id, local), Outcome(chain, k.id, durable),
         RecordOutcome(i, k, local, durable, attempts)
  PROVE  Leaves
<1> DEFINE row == NewRow(durable, attempts, "none", FALSE)
<1>1. chain'[k.id] # "absent" /\ (faults' = 0 => jobs'[k] # Null)
  BY AtHand DEF GoodTask
<1>2. GoodFile(chain', jobs', faults', mem[i])
  BY DEF RelayerInv, FilesSound
<1>3. GoodFile(chain', jobs', faults', RecordProcessedEvent(mem[i], k, local))
  BY <1>1, <1>2, RecordGood
<1>4. FilesMove /\ dirty' \in [Instances -> BOOLEAN]
  BY <1>3, Persisted DEF RecordOutcome
<1>5. GoodRow(chain', k, row)
  BY <1>1, ClosedRow
<1>6. SetTask(i, k, CloseTask(row))
  BY DEF RecordOutcome
<1> HIDE DEF row
<1>7. GoodTask(chain', jobs', faults', k, CloseTask(row))
  BY <1>1, <1>5, CloseTaskGood
<1> QED
  BY <1>4, <1>6, <1>7, TaskSet DEF Leaves

LEMMA CallbackRetryLeaves ==
  ASSUME RelayerConstants, RelayerInv, NEW i \in Instances, NEW k \in Keys, tasks[i][k] # Null,
         UNCHANGED <<chain, jobs, faults>>,
         NEW attempts \in Nat, Bound(attempts), NEW prepared \in Prepared, NEW finalize \in BOOLEAN,
         ScheduleCallbackRetry(i, k, attempts, prepared, finalize)
  PROVE  Leaves
<1> DEFINE status == IF finalize THEN "failure_callback_retry_scheduled"
                     ELSE "callback_retry_scheduled"
           row == NewRow(status, attempts, prepared, finalize)
<1>1. chain'[k.id] # "absent" /\ (faults' = 0 => jobs'[k] # Null)
  BY AtHand DEF GoodTask
<1>2. FilesMove /\ dirty' \in [Instances -> BOOLEAN]
  BY Requeued DEF ScheduleCallbackRetry
<1>3. status \in OpenStatus
  BY DEF OpenStatus, WaitingStatus
<1>4. SetTask(i, k, CloseTask(row))
  BY DEF ScheduleCallbackRetry
<1> HIDE DEF status
<1>5. GoodRow(chain', k, row)
  BY <1>1, <1>3, OpenRow
<1> HIDE DEF row
<1>6. GoodTask(chain', jobs', faults', k, CloseTask(row))
  BY <1>1, <1>5, CloseTaskGood
<1> QED
  BY <1>2, <1>4, <1>6, TaskSet DEF Leaves

\* A delivery that fails is retried within the ceiling, or given up.
LEMMA DeliveryFailsLeaves ==
  ASSUME RelayerConstants, RelayerInv, NEW i \in Instances, NEW k \in Keys, tasks[i][k] # Null,
         UNCHANGED <<chain, jobs, faults>>, NEW e,
         NEW attempts \in Nat, NEW prepared \in Prepared, NEW finalize \in BOOLEAN,
         DeliveryFails(i, k, e, attempts, prepared, finalize)
  PROVE  Leaves
<1>1. CASE attempts > Ceiling \/ e \in {"permanent", "config"}
  <2>1. RecordOutcome(i, k, "exhausted", "exhausted", attempts)
    BY <1>1 DEF DeliveryFails, Exhaust
  <2>2. /\ "exhausted" \in ProcessedStatus /\ "exhausted" \in ClosedStatus
        /\ Outcome(chain, k.id, "exhausted")
    BY DEF ProcessedStatus, ClosedStatus, Outcome
  <2> QED
    BY <2>1, <2>2, RecordLeaves
<1>2. CASE ~(attempts > Ceiling \/ e \in {"permanent", "config"})
  <2>1. ScheduleCallbackRetry(i, k, attempts, prepared, finalize)
    BY <1>2 DEF DeliveryFails
  <2>2. Bound(attempts)
    BY <1>2 DEF Bound, RelayerConstants
  <2> QED
    BY <2>1, <2>2, CallbackRetryLeaves
<1> QED
  BY <1>1, <1>2

\* A failure is delivered instead: the task has no transaction yet.
LEMMA RescueLeaves ==
  ASSUME RelayerInv, NEW i \in Instances, NEW k \in Keys, tasks[i][k] # Null,
         tasks[i][k].tx = "none",
         UNCHANGED <<chain, jobs, faults>>, NEW attempts \in Nat, Rescue(i, k, attempts)
  PROVE  TasksMove
<1> DEFINE t == tasks[i][k]
           u == [t EXCEPT !.stage = "deliver", !.rescue = TRUE, !.attempts = attempts]
<1>1. GoodTask(chain', jobs', faults', k, t)
  BY AtHand
<1>2. /\ u \in Task /\ u.stage = "deliver" /\ u.rescue = TRUE /\ u.tx = t.tx
  BY <1>1 DEF GoodTask, Task
<1>3. SetTask(i, k, u)
  BY DEF Rescue
<1> HIDE DEF u
<1>4. GoodTask(chain', jobs', faults', k, u)
  BY <1>1, <1>2 DEF GoodTask
<1> QED
  BY <1>3, <1>4, TaskSet

LEMMA RetryLeaves ==
  ASSUME RelayerConstants, RelayerInv, NEW i \in Instances, NEW k \in Keys, tasks[i][k] # Null,
         tasks[i][k].tx = "none",
         UNCHANGED <<chain, jobs, faults>>, ScheduleRetry(i, k)
  PROVE  Leaves
<1> DEFINE old == mem[i].queue[k]
           attempts == IF old = Null THEN 1 ELSE old.attempts + 1
           row == NewRow("retry_scheduled", attempts, "none", FALSE)
<1>1. GoodFile(chain', jobs', faults', mem[i])
  BY DEF RelayerInv, FilesSound
<1>2. chain'[k.id] # "absent" /\ (faults' = 0 => jobs'[k] # Null)
  BY AtHand DEF GoodTask
<1>3. attempts \in Nat
  <2>1. old \in Item \cup {Null}
    BY <1>1 DEF GoodFile, LocalState
  <2>2. old # Null => old.attempts \in Nat
    BY <2>1 DEF Item
  <2> QED
    BY <2>2
<1>4. CASE attempts > MaxRetries
  <2>1. /\ mem' = [mem EXCEPT ![i] = ClearRetryItem(mem[i], k)] /\ disk' = disk /\ dirty' = dirty
        /\ Rescue(i, k, attempts)
    BY <1>4 DEF ScheduleRetry
  <2>2. GoodFile(chain', jobs', faults', ClearRetryItem(mem[i], k))
    BY <1>1, ClearGood
  <2>3. FilesMove /\ dirty' \in [Instances -> BOOLEAN]
    <3>1. /\ mem' = [j \in Instances |-> mem'[j]] /\ disk' = [j \in Instances |-> disk'[j]]
          /\ \A j \in Instances : j # i => mem'[j] = mem[j]
          /\ mem'[i] = ClearRetryItem(mem[i], k)
      BY <2>1, TickTypes
    <3> QED
      BY <2>1, <2>2, <3>1, TickTypes DEF FilesMove
  <2> HIDE DEF attempts
  <2>4. TasksMove
    BY <1>3, <2>1, RescueLeaves
  <2> QED
    BY <2>3, <2>4 DEF Leaves
<1>5. CASE ~(attempts > MaxRetries)
  <2>1. /\ \E m \in Enqueue(mem[i], {k}, NewItem(attempts, "none", FALSE, FALSE)) : PersistState(i, m)
        /\ SetTask(i, k, CloseTask(row))
    BY <1>5 DEF ScheduleRetry
  <2> HIDE DEF attempts
  <2>2. Bound(attempts)
    BY <1>3, <1>5 DEF Bound, RelayerConstants
  <2>3. FilesMove /\ dirty' \in [Instances -> BOOLEAN]
    BY <1>3, <2>1, <2>2, Requeued DEF Prepared
  <2>4. GoodRow(chain', k, row)
    BY <1>2, <1>3, <2>2, OpenRow DEF OpenStatus, WaitingStatus, Prepared
  <2> HIDE DEF row
  <2>5. GoodTask(chain', jobs', faults', k, CloseTask(row))
    BY <1>2, <2>4, CloseTaskGood
  <2> QED
    BY <2>1, <2>3, <2>5, TaskSet DEF Leaves
<1> QED
  BY <1>4, <1>5

\* The catch block: "settled" is only said of a request that is.
LEMMA FailsLeaves ==
  ASSUME RelayerConstants, RelayerInv, NEW i \in Instances, NEW k \in Keys, tasks[i][k] # Null,
         tasks[i][k].stage \in {"prepare", "deliver", "confirm"},
         UNCHANGED <<chain, jobs, faults>>, NEW e,
         e = "settled" => chain[k.id] \notin {"absent", "pending"},
         ProcessingFails(i, k, e)
  PROVE  Leaves
<1> DEFINE t == tasks[i][k]
<1>1. GoodTask(chain, jobs, faults, k, t)
  BY AtHand
<1>2. t.attempts \in Nat /\ t.prepared \in Prepared /\ t.finalize \in BOOLEAN
  BY <1>1 DEF GoodTask, Task
<1>3. t.attempts + 1 \in Nat
  BY <1>2
<1>4. t.prepared = "none" /\ ~t.finalize /\ ~t.rescue => t.tx = "none"
  BY <1>1 DEF GoodTask
<1> HIDE DEF t
<1>5. CASE t.rescue /\ DeliveryFails(i, k, e, t.attempts + 1, "none", TRUE)
  BY <1>3, <1>5, DeliveryFailsLeaves DEF Prepared
<1>6. CASE e = "settled" /\ RecordOutcome(i, k, "settled", "settled", t.attempts)
  <2>1. /\ "settled" \in ProcessedStatus /\ "settled" \in ClosedStatus
        /\ Outcome(chain, k.id, "settled")
    BY <1>6 DEF ProcessedStatus, ClosedStatus, Outcome
  <2> QED
    BY <1>2, <1>6, <2>1, RecordLeaves
<1>7. CASE RecordOutcome(i, k, "exhausted", "failed_config", t.attempts)
  <2>1. /\ "exhausted" \in ProcessedStatus /\ "failed_config" \in ClosedStatus
        /\ Outcome(chain, k.id, "exhausted") /\ Outcome(chain, k.id, "failed_config")
    BY DEF ProcessedStatus, ClosedStatus, Outcome
  <2> QED
    BY <1>2, <1>7, <2>1, RecordLeaves
<1>8. CASE DeliveryFails(i, k, e, t.attempts + 1, t.prepared, t.finalize)
  BY <1>2, <1>3, <1>8, DeliveryFailsLeaves
<1>9. CASE /\ ~t.rescue /\ t.prepared = "none" /\ ~t.finalize /\ Rescue(i, k, t.attempts + 1)
           /\ UNCHANGED localVars
  <2>1. TasksMove
    BY <1>3, <1>4, <1>9, RescueLeaves DEF t
  <2>2. FilesMove /\ dirty' \in [Instances -> BOOLEAN]
    BY <1>9, FilesStill, TickTypes DEF localVars
  <2> QED
    BY <2>1, <2>2 DEF Leaves
<1>10. CASE ~t.rescue /\ t.prepared = "none" /\ ~t.finalize /\ ScheduleRetry(i, k)
  BY <1>4, <1>10, RetryLeaves DEF t
<1> QED
  BY <1>5, <1>6, <1>7, <1>8, <1>9, <1>10 DEF ProcessingFails, t

\* A task without a transaction goes on to another stage.
LEMMA StageGood ==
  ASSUME NEW c, NEW w, NEW f, NEW k \in Keys, NEW t, GoodTask(c, w, f, k, t),
         t.tx = "none", ~t.rescue, NEW s \in {"mark", "prepare", "deliver"},
         s = "deliver" => t.prepared # "none" \/ t.finalize
  PROVE  GoodTask(c, w, f, k, [t EXCEPT !.stage = s])
<1> DEFINE u == [t EXCEPT !.stage = s]
<1>1. /\ u \in Task /\ u.stage = s /\ u.tx = t.tx /\ u.rescue = t.rescue
      /\ u.prepared = t.prepared /\ u.finalize = t.finalize /\ u.attempts = t.attempts
  BY DEF GoodTask, Task
<1> HIDE DEF u
<1>2. GoodTask(c, w, f, k, u)
  BY <1>1 DEF GoodTask
<1> QED
  BY <1>2 DEF u

\* The row a claim leaves.
LEMMA ClaimedRowGood ==
  ASSUME RelayerConstants, NEW c, NEW w, NEW f, NEW k \in Keys, NEW t, GoodTask(c, w, f, k, t),
         ~t.rescue
  PROVE  /\ GoodRow(c, k, ClaimedRow(t))
         /\ GoodRow(c, k, [ClaimedRow(t) EXCEPT !.finalize = FALSE])
<1> DEFINE status == IF t.retry THEN "retrying" ELSE "processing"
<1>1. t.attempts \in Nat /\ Bound(t.attempts) /\ t.finalize \in BOOLEAN /\ c[k.id] # "absent"
  BY DEF GoodTask, Task
<1>2. status \in OpenStatus
  BY DEF OpenStatus, WorkingStatus
<1> HIDE DEF status
<1>3. \A finalize \in BOOLEAN : GoodRow(c, k, NewRow(status, t.attempts, "none", finalize))
  BY <1>1, <1>2, OpenRow DEF Prepared
<1>4. ClaimedRow(t) = NewRow(status, t.attempts, "none", t.finalize)
  BY DEF ClaimedRow, status
<1>5. GoodRow(c, k, ClaimedRow(t))
  BY <1>1, <1>3, <1>4
<1> DEFINE row == ClaimedRow(t)
           new == [row EXCEPT !.finalize = FALSE]
<1> HIDE DEF row
<1>6. new \in Row /\ new.status = row.status /\ new.attempts = row.attempts
  BY <1>5 DEF GoodRow, Row, row
<1> HIDE DEF new
<1>7. GoodRow(c, k, new)
  BY <1>5, <1>6 DEF GoodRow, row
<1> QED
  BY <1>5, <1>7 DEF new, row

LEMMA ClaimKeeps ==
  ASSUME RelayerConstants, RelayerInv, NEW i \in Instances, NEW k \in Keys, tasks[i][k] # Null,
         ClaimDurableJob(i, k), UNCHANGED <<tickVars, crashes>>
  PROVE  RelayerInv'
<1> DEFINE t == tasks[i][k]
           u == [t EXCEPT !.stage = "mark"]
           rows == [jobs EXCEPT ![k] = ClaimedRow(t)]
<1>1. UNCHANGED <<chain, lostTxs>> /\ t.stage = "claim"
  BY DEF ClaimDurableJob, chainVars
<1>2. GoodTask(chain, jobs, faults, k, t)
  BY AtHand
<1>3. ~t.rescue /\ t.tx = "none" /\ t.attempts \in Nat /\ Bound(t.attempts)
  BY <1>1, <1>2 DEF GoodTask, Task
<1>4. lostTxs' \subseteq [id : Ids, success : BOOLEAN] /\ On(chain, chain')
  BY <1>1, ChainStill DEF RelayerInv, ChainSound
<1>5. ASSUME SetTask(i, k, u), UNCHANGED localVars, jobs' \in {jobs, rows},
             CallFails(i) \/ CallSucceeds(i) \/ UNCHANGED <<backoff, faults>>
      PROVE  RelayerInv'
  <2>1. GoodRow(chain', k, ClaimedRow(t))
    BY <1>1, <1>2, <1>3, ClaimedRowGood
  <2>2. jobs \in Tables
    BY DEF RelayerInv, TableSound
  <2>3. TableMoves
    <3> HIDE DEF t
    <3>1. jobs' = [x \in Keys |-> jobs'[x]] /\ \A x \in Keys : x # k => jobs'[x] = jobs[x]
      BY <1>5, <2>2 DEF Tables
    <3>2. jobs'[k] \in {jobs[k], ClaimedRow(t)}
      BY <1>5, <2>2 DEF Tables
    <3> QED
      BY <2>1, <3>1, <3>2 DEF TableMoves
  <2>4. faults <= faults' /\ faults' \in Nat
    BY <1>5, TickTypes DEF CallFails, CallSucceeds
  <2>5. GoodTask(chain', jobs', faults', k, t)
    BY <1>4, <2>3, <2>4, StillGood
  <2> HIDE DEF t
  <2>6. GoodTask(chain', jobs', faults', k, u)
    BY <1>3, <2>5, StageGood
  <2>7. TasksMove
    BY <1>5, <2>6, TaskSet
  <2>8. FilesMove /\ dirty' \in [Instances -> BOOLEAN]
    BY <1>5, FilesStill, TickTypes DEF localVars
  <2> QED
    BY <1>1, <1>4, <1>5, <2>3, <2>7, <2>8, TaskStepKeeps
<1>6. CASE SetTask(i, k, u) /\ UNCHANGED <<localVars, tableVars>>
  BY <1>5, <1>6 DEF tableVars
<1>7. CASE RetainWork(i, k)
  <2>1. UNCHANGED <<jobs, backoff, faults>> /\ SetTask(i, k, Null)
    BY <1>7 DEF RetainWork, tableVars
  <2>2. \/ UNCHANGED localVars
        \/ \E m \in Enqueue(mem[i], {k}, NewItem(t.attempts, "none", FALSE, FALSE)) : PersistState(i, m)
    BY <1>7 DEF RetainWork
  <2>3. FilesMove /\ dirty' \in [Instances -> BOOLEAN]
    <3>1. CASE UNCHANGED localVars
      BY <3>1, FilesStill, TickTypes DEF localVars
    <3>2. CASE \E m \in Enqueue(mem[i], {k}, NewItem(t.attempts, "none", FALSE, FALSE)) :
                  PersistState(i, m)
      BY <1>1, <1>3, <2>1, <3>2, Requeued DEF Prepared
    <3> QED
      BY <2>2, <3>1, <3>2
  <2>4. TasksMove /\ TableMoves
    BY <2>1, TaskSet, TableStill
  <2> QED
    BY <1>1, <1>4, <2>1, <2>3, <2>4, TaskStepKeeps
<1>8. CASE ClaimInTable(i, k)
  <2>1. CASE /\ CallFails(i) \/ CallSucceeds(i)
             /\ jobs' \in {jobs, rows} /\ SetTask(i, k, u) /\ UNCHANGED localVars
    BY <1>5, <2>1
  <2>2. CASE /\ CallSucceeds(i) /\ UNCHANGED jobs /\ SetTask(i, k, Null)
             /\ PersistState(i, ClearRetryItem(mem[i], k))
    <3>1. UNCHANGED <<backoff, faults>>
      BY <2>2 DEF CallSucceeds
    <3>2. GoodFile(chain', jobs', faults', ClearRetryItem(mem[i], k))
      BY <1>1, <2>2, <3>1, ClearGood DEF RelayerInv, FilesSound
    <3>3. FilesMove /\ dirty' \in [Instances -> BOOLEAN]
      BY <2>2, <3>2, Persisted
    <3>4. TasksMove /\ TableMoves
      BY <2>2, TaskSet, TableStill
    <3> QED
      BY <1>1, <1>4, <2>2, <3>3, <3>4, TaskStepKeeps
  <2> QED
    BY <1>8, <2>1, <2>2 DEF ClaimInTable
<1> QED
  BY <1>6, <1>7, <1>8 DEF ClaimDurableJob

\* A step that writes one row and sets one task.
LEMMA UpsertStep ==
  ASSUME RelayerInv, NEW i \in Instances, NEW k \in Keys, tasks[i][k] # Null,
         NEW row, NEW u, GoodRow(chain, k, row), UpsertJob(i, k, row), SetTask(i, k, u),
         \A w, f : GoodTask(chain, w, f, k, tasks[i][k]) => u = Null \/ GoodTask(chain, w, f, k, u),
         UNCHANGED <<localVars, chainVars, tickVars, crashes>>
  PROVE  RelayerInv'
<1>1. UNCHANGED <<mem, disk, dirty, chain, lostTxs>>
  BY DEF localVars, chainVars
<1>2. /\ TableMoves /\ faults <= faults' /\ faults' \in Nat
      /\ CallFails(i) \/ CallSucceeds(i) \/ UNCHANGED <<backoff, faults>>
  BY <1>1, Upserted
<1>3. On(chain, chain') /\ lostTxs' \subseteq [id : Ids, success : BOOLEAN]
  BY <1>1, ChainStill DEF RelayerInv, ChainSound
<1>4. GoodTask(chain', jobs', faults', k, tasks[i][k])
  BY <1>2, <1>3, StillGood
<1>5. u = Null \/ GoodTask(chain', jobs', faults', k, u)
  BY <1>1, <1>4
<1>6. TasksMove
  BY <1>5, TaskSet
<1>7. FilesMove /\ dirty' \in [Instances -> BOOLEAN]
  BY <1>1, FilesStill, TickTypes
<1> QED
  BY <1>1, <1>2, <1>3, <1>6, <1>7, TaskStepKeeps

LEMMA MarkKeeps ==
  ASSUME RelayerConstants, RelayerInv, NEW i \in Instances, NEW k \in Keys, tasks[i][k] # Null,
         MarkJob(i, k), UNCHANGED <<tickVars, crashes>>
  PROVE  RelayerInv'
<1> DEFINE t == tasks[i][k]
           s == IF t.finalize \/ t.prepared # "none" THEN "deliver" ELSE "prepare"
           row == [ClaimedRow(t) EXCEPT !.finalize = FALSE]
<1>1. /\ t.stage = "mark" /\ UpsertJob(i, k, row) /\ SetTask(i, k, [t EXCEPT !.stage = s])
      /\ UNCHANGED <<localVars, chainVars>>
  BY DEF MarkJob
<1>2. GoodTask(chain, jobs, faults, k, t)
  BY AtHand
<1>3. ~t.rescue /\ t.tx = "none"
  BY <1>1, <1>2 DEF GoodTask, Task
<1>4. GoodRow(chain, k, row)
  BY <1>2, <1>3, ClaimedRowGood
<1>5. s \in {"mark", "prepare", "deliver"} /\ (s = "deliver" => t.prepared # "none" \/ t.finalize)
  OBVIOUS
<1> HIDE DEF s, row
<1>6. ASSUME NEW w, NEW f, GoodTask(chain, w, f, k, t)
      PROVE  GoodTask(chain, w, f, k, [t EXCEPT !.stage = s])
  BY <1>3, <1>5, <1>6, StageGood
<1> QED
  BY <1>1, <1>4, <1>6, UpsertStep

LEMMA CheckpointKeeps ==
  ASSUME RelayerConstants, RelayerInv, NEW i \in Instances, NEW k \in Keys, tasks[i][k] # Null,
         CheckpointPrepared(i, k), UNCHANGED <<tickVars, crashes>>
  PROVE  RelayerInv'
<1> DEFINE t == tasks[i][k]
           row == NewRow("callback_pending", t.attempts, t.prepared, FALSE)
<1>1. /\ t.stage = "checkpoint" /\ UpsertJob(i, k, row)
      /\ SetTask(i, k, [t EXCEPT !.stage = "deliver"])
      /\ UNCHANGED <<localVars, chainVars>>
  BY DEF CheckpointPrepared
<1>2. GoodTask(chain, jobs, faults, k, t)
  BY AtHand
<1>3. /\ ~t.rescue /\ t.tx = "none" /\ (t.prepared # "none" \/ t.finalize)
      /\ t.attempts \in Nat /\ Bound(t.attempts) /\ t.prepared \in Prepared
      /\ chain[k.id] # "absent"
  BY <1>1, <1>2 DEF GoodTask, Task
<1>4. GoodRow(chain, k, row)
  BY <1>3, OpenRow DEF OpenStatus, WorkingStatus
<1> HIDE DEF row
<1>5. ASSUME NEW w, NEW f, GoodTask(chain, w, f, k, t)
      PROVE  GoodTask(chain, w, f, k, [t EXCEPT !.stage = "deliver"])
  BY <1>3, <1>5, StageGood
<1> QED
  BY <1>1, <1>4, <1>5, UpsertStep

LEMMA CloseKeeps ==
  ASSUME RelayerConstants, RelayerInv, NEW i \in Instances, NEW k \in Keys, tasks[i][k] # Null,
         CloseJob(i, k), UNCHANGED <<tickVars, crashes>>
  PROVE  RelayerInv'
<1>1. /\ tasks[i][k].stage = "close" /\ UpsertJob(i, k, tasks[i][k].row)
      /\ SetTask(i, k, Null) /\ UNCHANGED <<localVars, chainVars>>
  BY DEF CloseJob
<1>2. GoodRow(chain, k, tasks[i][k].row)
  BY <1>1, AtHand DEF GoodTask
<1> QED
  BY <1>1, <1>2, UpsertStep

\* A step that touches neither the table nor the chain.
LEMMA LocalStep ==
  ASSUME RelayerInv, NEW i \in Instances, Leaves, UNCHANGED <<tableVars, chain, tickVars, crashes>>,
         lostTxs' \subseteq [id : Ids, success : BOOLEAN]
  PROVE  RelayerInv'
<1>1. UNCHANGED <<jobs, backoff, faults, chain>>
  BY DEF tableVars
<1> QED
  BY <1>1, TaskStepKeeps, TableStill DEF Leaves

LEMMA PrepareKeeps ==
  ASSUME RelayerConstants, RelayerInv, NEW i \in Instances, NEW k \in Keys, tasks[i][k] # Null,
         PrepareFulfillment(i, k), UNCHANGED <<tickVars, crashes>>
  PROVE  RelayerInv'
<1> DEFINE t == tasks[i][k]
           u(a) == [t EXCEPT !.stage = "checkpoint", !.prepared = a]
<1>1. /\ t.stage = "prepare" /\ UNCHANGED <<jobs, backoff, faults, chain, lostTxs>>
      /\ UNCHANGED <<tableVars, chain>>
  BY DEF PrepareFulfillment, tableVars, chainVars
<1>2. lostTxs' \subseteq [id : Ids, success : BOOLEAN]
  BY <1>1 DEF RelayerInv, ChainSound
<1>3. GoodTask(chain', jobs', faults', k, t)
  BY <1>1, AtHand
<1>4. /\ ~t.rescue /\ t.tx = "none" /\ t.attempts \in Nat /\ Bound(t.attempts)
      /\ t.claimed \in BOOLEAN
  BY <1>1, <1>3 DEF GoodTask, Task
<1>5. ASSUME NEW a \in Answers, SetTask(i, k, u(a)),
             \E m \in Enqueue(mem[i], {k}, NewItem(t.attempts, a, FALSE, t.claimed)) :
                PersistState(i, m)
      PROVE  Leaves
  <2>1. a \in Prepared /\ a # "none"
    BY DEF RelayerConstants, Prepared
  <2>2. FilesMove /\ dirty' \in [Instances -> BOOLEAN]
    BY <1>1, <1>4, <1>5, <2>1, Requeued
  <2>3. /\ u(a) \in Task /\ u(a).stage = "checkpoint" /\ u(a).prepared = a /\ u(a).tx = t.tx
        /\ u(a).rescue = t.rescue /\ u(a).attempts = t.attempts
    BY <1>3, <2>1 DEF GoodTask, Task
  <2> HIDE DEF u
  <2>4. GoodTask(chain', jobs', faults', k, u(a))
    BY <1>3, <1>4, <2>1, <2>3 DEF GoodTask
  <2>5. TasksMove
    BY <1>5, <2>4, TaskSet
  <2> QED
    BY <2>2, <2>5 DEF Leaves
<1>6. ASSUME NEW e \in Errors, ProcessingFails(i, k, e) PROVE Leaves
  <2>1. e # "settled"
    BY DEF RelayerConstants
  <2> QED
    BY <1>1, <1>6, <2>1, FailsLeaves
<1>7. Leaves
  BY <1>5, <1>6 DEF PrepareFulfillment
<1> QED
  BY <1>1, <1>2, <1>7, LocalStep

LEMMA DeliverKeeps ==
  ASSUME RelayerConstants, RelayerInv, NEW i \in Instances, NEW k \in Keys, tasks[i][k] # Null,
         DeliverFulfillment(i, k), UNCHANGED <<tickVars, crashes>>
  PROVE  RelayerInv'
<1> DEFINE t == tasks[i][k]
           u == [t EXCEPT !.stage = "confirm", !.tx = "sent"]
<1>1. /\ t.stage = "deliver" /\ UNCHANGED <<jobs, backoff, faults, chain, lostTxs>>
      /\ UNCHANGED <<tableVars, chain>>
  BY DEF DeliverFulfillment, tableVars, chainVars
<1>2. lostTxs' \subseteq [id : Ids, success : BOOLEAN]
  BY <1>1 DEF RelayerInv, ChainSound
<1>3. GoodTask(chain', jobs', faults', k, t) /\ chain[k.id] # "absent"
  BY <1>1, AtHand DEF GoodTask
<1>4. ASSUME SetTask(i, k, u), UNCHANGED localVars PROVE Leaves
  <2>1. /\ u \in Task /\ u.stage = "confirm" /\ u.tx = "sent" /\ u.prepared = t.prepared
        /\ u.finalize = t.finalize /\ u.rescue = t.rescue /\ u.attempts = t.attempts
    BY <1>3 DEF GoodTask, Task
  <2> HIDE DEF u
  <2>2. GoodTask(chain', jobs', faults', k, u)
    BY <1>1, <1>3, <2>1 DEF GoodTask
  <2>3. TasksMove
    BY <1>4, <2>2, TaskSet
  <2>4. FilesMove /\ dirty' \in [Instances -> BOOLEAN]
    BY <1>4, FilesStill, TickTypes DEF localVars
  <2> QED
    BY <2>3, <2>4 DEF Leaves
<1>5. ASSUME chain[k.id] # "pending", ProcessingFails(i, k, "settled") PROVE Leaves
  BY <1>1, <1>3, <1>5, FailsLeaves
<1>6. ASSUME NEW e \in Errors, ProcessingFails(i, k, e) PROVE Leaves
  <2>1. e # "settled"
    BY DEF RelayerConstants
  <2> QED
    BY <1>1, <1>6, <2>1, FailsLeaves
<1>7. Leaves
  BY <1>4, <1>5, <1>6 DEF DeliverFulfillment
<1> QED
  BY <1>1, <1>2, <1>7, LocalStep

\* The outcome that is recorded is the one the transaction had.
LEMMA ConfirmKeeps ==
  ASSUME RelayerConstants, RelayerInv, NEW i \in Instances, NEW k \in Keys, tasks[i][k] # Null,
         ConfirmFulfillment(i, k), UNCHANGED <<tickVars, crashes>>
  PROVE  RelayerInv'
<1> DEFINE t == tasks[i][k]
           status == IF Success(t) THEN "fulfilled" ELSE "failed"
<1>1. /\ t.stage = "confirm" /\ UNCHANGED <<jobs, backoff, faults, chain>>
      /\ UNCHANGED <<tableVars, chain>>
  BY DEF ConfirmFulfillment, tableVars
<1>2. lostTxs' \subseteq [id : Ids, success : BOOLEAN]
  <2>1. [id |-> k.id, success |-> Success(t)] \in [id : Ids, success : BOOLEAN]
    BY KeyIds DEF Success
  <2>2. lostTxs' = lostTxs \/ lostTxs' = lostTxs \cup {[id |-> k.id, success |-> Success(t)]}
    BY DEF ConfirmFulfillment
  <2> QED
    BY <2>1, <2>2 DEF RelayerInv, ChainSound
<1>3. GoodTask(chain, jobs, faults, k, t)
  BY AtHand
<1>4. ASSUME t.tx = "halt", RecordDelivered(i, k) PROVE Leaves
  <2>1. chain[k.id] = IF Success(t) THEN "succeeded" ELSE "failed"
    BY <1>3, <1>4 DEF GoodTask
  <2>2. status \in ProcessedStatus /\ status \in ClosedStatus /\ Outcome(chain, k.id, status)
    BY <2>1 DEF ProcessedStatus, ClosedStatus, Outcome
  <2>3. RecordOutcome(i, k, status, status, t.attempts) /\ t.attempts \in Nat
    BY <1>3, <1>4 DEF RecordDelivered, GoodTask, Task
  <2> HIDE DEF status
  <2> QED
    BY <1>1, <2>2, <2>3, RecordLeaves
<1>5. ASSUME t.tx = "fault", ProcessingFails(i, k, "settled") PROVE Leaves
  <2>1. chain[k.id] \notin {"absent", "pending"}
    BY <1>3, <1>5 DEF GoodTask
  <2> QED
    BY <1>1, <1>5, <2>1, FailsLeaves
<1>6. ASSUME ProcessingFails(i, k, "transient") PROVE Leaves
  BY <1>1, <1>6, FailsLeaves
<1>7. Leaves
  BY <1>4, <1>5, <1>6 DEF ConfirmFulfillment
<1> QED
  BY <1>1, <1>2, <1>7, LocalStep

-----------------------------------------------------------------------------
(* The theorems *)

LEMMA InitSound == RelayerConstants /\ Init => RelayerInv
<1> SUFFICES ASSUME RelayerConstants, Init PROVE RelayerInv
  OBVIOUS
<1>1. MainLane \in Lanes /\ MaxRequests \in Nat
  BY DEF RelayerConstants, Lanes
<1>2. ChainSound
  <2>1. chain \in Chains /\ lostTxs \subseteq [id : Ids, success : BOOLEAN]
    BY DEF Init, Chains
  <2>2. \A id \in Ids : chain[id] # "absent" <=> id <= 0
    BY <1>1 DEF Init, Ids
  <2> QED
    BY <1>1, <2>1, <2>2 DEF ChainSound
<1>3. TableSound
  BY DEF Init, TableSound, Tables
<1>4. FilesSound
  <2>1. EmptyState \in LocalState
    BY DEF EmptyState, LocalState
  <2>2. /\ \A k \in Keys : EmptyState.queue[k] = Null /\ EmptyState.processed[k] = Null
        /\ \A l \in Lanes : EmptyState.last[l] = 0
    BY DEF EmptyState
  <2>3. \A k \in Keys : Outcome(chain, k.id, Null)
    BY NullIsApart DEF Outcome, ProcessedStatus
  <2>4. Reached(chain, 0) /\ Covered(chain, jobs, 0)
    BY DEF Reached, Covered
  <2>5. GoodFile(chain, jobs, faults, EmptyState)
    BY <2>1, <2>2, <2>3, <2>4 DEF GoodFile, Tracked
  <2> QED
    BY <2>1, <2>5 DEF Init, FilesSound
<1>5. TasksSound
  BY DEF Init, TasksSound
<1>6. TicksSound
  <2>1. \A i \in Instances : GoodTick(chain, jobs, faults, "idle", MainLane, 0, {}, {})
    BY <1>1, IdleTick
  <2> QED
    BY <1>1, <2>1 DEF Init, TicksSound, PC
<1>7. FlagsSound
  BY DEF Init, FlagsSound
<1> QED
  BY <1>2, <1>3, <1>4, <1>5, <1>6, <1>7 DEF RelayerInv

LEMMA TickStepKeeps ==
  ASSUME RelayerConstants, RelayerInv, NEW i \in Instances, TickStep(i)
  PROVE  RelayerInv'
<1>1. Latest \in Nat
  BY LatestIs DEF RelayerInv, RelayerConstants
<1>2. CASE Discover(i, Latest)
  BY <1>1, <1>2, DiscoverKeeps
<1>3. CASE Latest > 0 /\ Discover(i, Latest - 1)
  <2>1. Latest - 1 \in Nat /\ Latest - 1 <= Latest
    BY <1>1, <1>3
  <2> QED
    BY <1>3, <2>1, DiscoverKeeps
<1> QED
  BY <1>2, <1>3, StartTickKeeps, HydrateKeeps, DiscoverFailsKeeps, PersistFreshKeeps, DeferKeeps,
     AdvanceKeeps, RetriesKeeps, RetriesDoneKeeps DEF TickStep

LEMMA TaskStepSound ==
  ASSUME RelayerConstants, RelayerInv, NEW i \in Instances, NEW k \in Keys, TaskStep(i, k)
  PROVE  RelayerInv'
BY ClaimKeeps, MarkKeeps, PrepareKeeps, CheckpointKeeps, DeliverKeeps, ConfirmKeeps, CloseKeeps
   DEF TaskStep

LEMMA StutterKeeps ==
  ASSUME RelayerInv, UNCHANGED vars
  PROVE  RelayerInv'
<1>1. UNCHANGED <<pc, lane, goal, fresh, observed, active, mem, disk, dirty, jobs, backoff, faults,
                  chain, lostTxs, tasks, crashes>>
  BY DEF vars, tickVars, localVars, tableVars, chainVars
<1> QED
  BY <1>1, StepKeeps, ChainStill, TableStill, FilesStill, TasksStill, TicksStill, FlagsStill,
     TickTypes

LEMMA NextKeeps == RelayerConstants /\ RelayerInv /\ [Next]_vars => RelayerInv'
<1> SUFFICES ASSUME RelayerConstants, RelayerInv, [Next]_vars PROVE RelayerInv'
  OBVIOUS
<1>1. ASSUME NEW i \in Instances, Step(i) PROVE RelayerInv'
  BY <1>1, TickStepKeeps, TaskStepSound DEF Step
<1>2. ASSUME NEW i \in Instances, FlushTimer(i) \/ RetriesFallDue(i) \/ BackoffEnds(i) \/ Crash(i)
      PROVE  RelayerInv'
  BY <1>2, FlushKeeps, FallDueKeeps, BackoffKeeps, CrashKeeps
<1>3. ASSUME NEW i \in Instances, NEW k \in Keys, MineFulfillment(i, k) PROVE RelayerInv'
  BY <1>3, MineFulfillmentKeeps
<1>4. ASSUME NEW k \in Keys, JobRipens(k) PROVE RelayerInv'
  BY <1>4, RipensKeeps
<1>5. ASSUME NEW id \in Ids, NewRequest(id) \/ ExpireRequest(id) PROVE RelayerInv'
  BY <1>5, NewRequestKeeps, ExpireKeeps
<1>6. ASSUME NEW x \in lostTxs, MineLostTx(x) PROVE RelayerInv'
  BY <1>6, MineLostKeeps
<1> QED
  BY <1>1, <1>2, <1>3, <1>4, <1>5, <1>6, StutterKeeps DEF Next

LEMMA RelayerAlways == Spec => []RelayerInv
BY InitSound, NextKeeps, RelayerConstants, PTL DEF Spec

\* Every variable of the relayer stays in its type, whatever fails.
THEOREM RelayerTypes == Spec => []TypeOK
<1>1. RelayerInv => TypeOK
  BY DEF RelayerInv, ChainSound, TableSound, FilesSound, TasksSound, TicksSound, FlagsSound,
         TypeOK, Chains, Tables
<1> QED
  BY <1>1, RelayerAlways, PTL

\* What the state files and the table record as fulfilled, failed or settled is
\* so on the chain, for any number of instances and requests, whichever of the
\* transactions sent for a request is mined, and whatever calls fail and
\* processes crash (processEvent, recordProcessedEvent, maybeUpsertJob).
THEOREM RecordsMatchChain == Spec => []RecordsTrue
<1>1. RelayerInv => RecordsTrue
  BY DEF RelayerInv, TableSound, FilesSound, GoodFile, GoodRow, RecordsTrue, OutcomeOnChain,
         Outcome
<1> QED
  BY <1>1, RelayerAlways, PTL

\* The attempts counted for an item or an open job never exceed both ceilings,
\* although the count travels between state files, the table and tasks, and
\* one instance takes it over from another (scheduleRetry,
\* resolveDeliveryRetryOrExhaust, hydrateDurableQueue).
THEOREM RetriesWithinCeilings == Spec => []AttemptsBounded
<1>1. RelayerInv => AttemptsBounded
  BY DEF RelayerInv, TableSound, FilesSound, GoodFile, GoodRow, AttemptsBounded, Bound
<1> QED
  BY <1>1, RelayerAlways, PTL

\* Until a call to the table or a scan fails, no checkpoint is saved beyond a
\* pending request that nothing accounts for: whatever the interleaving of the
\* instances and however often they crash, every pending request below a saved
\* checkpoint has a visible job (persistFreshEvents before advanceCheckpoint).
\* Once a call has failed the rows may be missing, which is the price of going
\* on with the local state.
THEOREM CheckpointsCoverRequests == Spec => []CoveredUntilFault
<1>1. ASSUME RelayerInv, faults = 0 PROVE CheckpointCovered
  <2> SUFFICES ASSUME NEW i \in Instances, NEW l \in Lanes, NEW id \in 1 .. disk[i].last[l],
                      chain[id] = "pending"
               PROVE  \E k \in Keys : k.id = id /\ VisibleJob(k)
    BY DEF CheckpointCovered
  <2>1. PICK k \in Keys : k.id = id /\ jobs[k] # Null
    BY <1>1 DEF RelayerInv, FilesSound, GoodFile, Covered, Rowed
  <2>2. GoodRow(chain, k, jobs[k])
    BY <1>1, <2>1 DEF RelayerInv, TableSound
  <2>3. jobs[k].status \in OpenStatus \cup ClosedStatus
    BY <2>2 DEF GoodRow, Row
  <2>4. jobs[k].status \notin {"fulfilled", "failed", "settled"}
    BY <2>1, <2>2 DEF GoodRow, Outcome
  <2>5. VisibleJob(k)
    BY <2>1, <2>3, <2>4 DEF VisibleJob, ClosedStatus, ProcessedStatus
  <2> QED
    BY <2>1, <2>5
<1>2. RelayerInv => CoveredUntilFault
  BY <1>1 DEF CoveredUntilFault
<1> QED
  BY <1>2, RelayerAlways, PTL
=============================================================================
