--------------------------- MODULE FeedPublication ---------------------------
(***************************************************************************)
(* The price publisher of the Nitro worker (handleOracleFeed) composed     *)
(* with the DataFeed contract.  The worker acknowledges a tick and works   *)
(* on it in the background, so ticks overlap, those of one caller too, and *)
(* share one in-memory map of records.  The relayer's ask for the on-chain *)
(* baseline, those of other callers do not.  A tick broadcasts without     *)
(* waiting for the block, so its transaction may land late, fail in the    *)
(* block, or never land.                                                   *)
(***************************************************************************)
EXTENDS DataFeed, FiniteSets

CONSTANTS
  Ticks,          \* numbers of the ticks that may be under way at a time
  Deployments,    \* the configurations: symbols, the pairs in the order a tick
                  \* visits them; signer, the oracle_verifier key (Null when
                  \* none is available); stamps, the timestamps a provider
                  \* reports; and two bounds: pending, the transactions that
                  \* outlive minUpdateIntervalMs, and events, below
  Worker,         \* the account the worker signs transactions with
  FirstRounds     \* the clock readings used as a pair's first round

\* What an update was decided against: nothing, a local or an on-chain record.
Bases == [from : {"none", "chain", "local"}, round : Nat, price : Nat]

ASSUME PublicationConstants ==
  /\ FirstRounds \subseteq Nat \ {0} /\ Ticks \subseteq Nat
  /\ \A d \in Deployments :
        /\ d.symbols \in Seq(Pairs) /\ d.symbols # <<>>
        /\ d.signer \in FeedKeys \cup {Null} /\ d.stamps \subseteq Nat
        /\ d.pending \in Nat /\ d.events \in Nat
  /\ Null \notin [round : Nat, price : Nat, time : Nat, note : Bases]

VARIABLES
  deploy,     \* the configuration, which stays as it is
  quote,      \* external: the provider's price of each pair
  local,      \* state.records of the process, Null when there is none
  stateFile,  \* what a new process loads: the state file or, when that has no
              \* records, the latest rows of morpheus_feed_snapshots
  age,        \* of a record's last_submitted_at_ms: fresh (less than
              \* minUpdateIntervalMs ago), settled, or stale (staleAfterMs)
  tick,       \* the ticks under way, Null where there is none
  txs,        \* external: broadcast transactions that have not landed
  events,     \* bounded: price moves, faults, admin calls, refreshes, ticks
              \* without a baseline or while another is under way
  resets      \* how many of them were AdminResetFeed

tickVars == <<quote, local, stateFile, age, tick, txs>>
pubVars  == <<feedVars, tickVars, deploy, events, resets>>

\* The pairs the worker publishes.
Tracked == {deploy.symbols[i] : i \in 1 .. Len(deploy.symbols)}

\* The record of a pair that was observed and never submitted: it has no round
\* and no price, so it counts as far as the map is not empty.  A record is
\* dated when it carries the time of a submission.
Observed == [round |-> 0, price |-> -1, time |-> 0, from |-> "none", dated |-> FALSE]

NoBasis == [from |-> "none", round |-> 0, price |-> 0]

\* A deployment whose admin has made the worker the updater.
PubInit ==
  /\ feedAdmin = FeedDeployer /\ updater = Worker /\ verificationKey = Null
  /\ feed = [p \in Pairs |-> Null] /\ pairIndex = <<>> /\ batch = Null
  /\ quote = [p \in Pairs |-> 0]
  /\ local = [p \in Pairs |-> Null] /\ stateFile = [p \in Pairs |-> Null]
  /\ age = [p \in Pairs |-> "settled"]
  /\ tick = [t \in Ticks |-> Null]
  /\ txs = {}
  /\ deploy \in Deployments
  /\ events = 0 /\ resets = 0

Larger(a, b) == IF a >= b THEN a ELSE b

\* What the instance has a bounded number of.
Event == events < deploy.events /\ events' = events + 1

NothingLocal == \A p \in Pairs : local[p] = Null

\* shouldLoadOnchainFeedBaseline
LoadsBaseline(refresh) == refresh \/ NothingLocal

\* A new tick takes the first free number.
FirstFree(t) == tick[t] = Null /\ \A u \in Ticks : u < t => tick[u] # Null

Alone == \A u \in Ticks : tick[u] = Null

Start(t, refresh) ==
  /\ FirstFree(t)
  /\ IF refresh /\ Alone THEN UNCHANGED events ELSE Event
  /\ \E chain \in {IF LoadsBaseline(refresh) THEN feed ELSE [p \in Pairs |-> Null]} :
        tick' = [tick EXCEPT ![t] =
          [pc |-> "fetch", chain |-> chain, next |-> 1, seen |-> 0, updates |-> <<>>]]
  /\ UNCHANGED <<feedVars, quote, local, stateFile, age, txs, resets>>

\* The baseline cannot be read: the tick goes on from the local records, and
\* with none of those it answers 503 (it ends at once, nothing to model).
StartBlind(t) ==
  /\ FirstFree(t)
  /\ ~NothingLocal
  /\ Event
  /\ tick' = [tick EXCEPT ![t] =
       [pc |-> "fetch", chain |-> [p \in Pairs |-> Null], next |-> 1, seen |-> 0,
        updates |-> <<>>]]
  /\ UNCHANGED <<feedVars, quote, local, stateFile, age, txs, resets>>

Pair(t) == deploy.symbols[tick[t].next]

\* Past the last symbol the tick goes on to the submission.
Advanced(r) ==
  [r EXCEPT !.next = @ + 1, !.seen = 0,
            !.pc = IF r.next = Len(deploy.symbols) THEN "submit" ELSE "fetch"]

FetchQuote(t) ==
  /\ tick[t] # Null /\ tick[t].pc = "fetch"
  /\ tick' = [tick EXCEPT ![t].pc = "decide", ![t].seen = quote[Pair(t)]]
  /\ UNCHANGED <<feedVars, quote, local, stateFile, age, txs, events, resets>>

\* No provider answered: the symbol is reported and skipped.
FetchNothing(t) ==
  /\ tick[t] # Null /\ tick[t].pc = "fetch"
  /\ Event
  /\ tick' = [tick EXCEPT ![t] = Advanced(@)]
  /\ UNCHANGED <<feedVars, quote, local, stateFile, age, txs, resets>>

Dated(v) == v # Null /\ v.dated

\* Mutant of Previous: the round of a submission that has not landed counts.
PreviousAhead(t, p) ==
  LET c == tick[t].chain[p]
  IN  IF c = Null THEN local[p]
      ELSE [round |-> IF local[p] = Null THEN c.round ELSE Larger(c.round, local[p].round),
            price |-> c.price, time |-> c.time, from |-> "chain", dated |-> Dated(local[p])]

\* The local record, overridden by the baseline's round, price and timestamp.
Previous(t, p) ==
  LET c == tick[t].chain[p]
  IN  IF c = Null THEN local[p]
      ELSE [round |-> c.round, price |-> c.price, time |-> c.time, from |-> "chain",
            dated |-> Dated(local[p])]

\* buildRoundId
NextRounds(prev) ==
  IF prev = Null \/ prev.round = 0 THEN FirstRounds ELSE {prev.round + 1}

\* clampFeedTimestampSec, for a stamp within the tolerated skew.
ClampFeedTimestamp(prev, stamp) ==
  Larger((IF prev = Null THEN 0 ELSE prev.time) + 1, stamp)

\* Mutant of Held: a record is never refreshed for its age alone.
HeldHoweverStale(p, prev, seen) ==
  prev # Null /\ (age[p] = "fresh" \/ prev.price = seen)

\* shouldSubmitFeed does not allow it: there is a record and it is too soon,
\* or the record is not stale and the change is below the threshold.
Held(p, prev, seen) ==
  prev # Null /\ (age[p] = "fresh" \/ (age[p] = "settled" /\ prev.price = seen))

Basis(prev) ==
  IF prev = Null \/ prev.from = "none" THEN NoBasis
  ELSE [from |-> prev.from, round |-> prev.round, price |-> prev.price]

\* A skipped pair keeps what the tick took for its record, which may by now
\* be older than what another tick has stored.
Skip(t) ==
  LET p == Pair(t)
      prev == Previous(t, p)
  IN  /\ tick[t] # Null /\ tick[t].pc = "decide"
      /\ Held(p, prev, tick[t].seen)
      /\ local' = [local EXCEPT ![p] = prev]
      /\ tick' = [tick EXCEPT ![t] = Advanced(@)]
      /\ UNCHANGED <<feedVars, quote, stateFile, age, txs, events, resets>>

\* A timestamp too far in the future is not anchored: the pair is skipped.
RejectStamp(t) ==
  LET p == Pair(t)
      prev == Previous(t, p)
  IN  /\ tick[t] # Null /\ tick[t].pc = "decide"
      /\ Event
      /\ local' = [local EXCEPT ![p] = IF prev = Null THEN Observed ELSE prev]
      /\ tick' = [tick EXCEPT ![t] = Advanced(@)]
      /\ UNCHANGED <<feedVars, quote, stateFile, age, txs, resets>>

\* A record that is not dated is as old as the timestamp it has from the chain,
\* which a provider that lags makes old at once.
QueueUpdate(t) ==
  LET p == Pair(t)
      prev == Previous(t, p)
  IN  /\ tick[t] # Null /\ tick[t].pc = "decide"
      /\ \/ ~Held(p, prev, tick[t].seen) /\ UNCHANGED events
         \/ prev # Null /\ ~Dated(prev) /\ prev.from = "chain" /\ Event
      /\ \E round \in NextRounds(prev), stamp \in deploy.stamps :
            tick' = [tick EXCEPT ![t] = Advanced([tick[t] EXCEPT !.updates =
              Append(tick[t].updates, [pair |-> p, round |-> round, price |-> tick[t].seen,
                         time |-> ClampFeedTimestamp(prev, stamp),
                         note |-> Basis(prev), signer |-> deploy.signer])])]
      /\ UNCHANGED <<feedVars, quote, local, stateFile, age, txs, resets>>

\* With a signing key every pair is submitted on its own.  All of them carry
\* the request id of the tick, so the worker's replay guard refuses the second
\* with 409 and the tick fails there.
Sent(us) == IF deploy.signer = Null THEN us ELSE <<us[1]>>

\* The simulation of the call on the current chain state.
Simulates(us) ==
  /\ updater = Worker
  /\ \A i \in 1 .. Len(us) : Accepted(feed, us[i])

Submit(t) ==
  /\ tick[t] # Null /\ tick[t].pc = "submit"
  /\ LET us == tick[t].updates
     IN  \/ /\ us = <<>>
            /\ tick' = [tick EXCEPT ![t].pc = "save"]
            /\ UNCHANGED txs
         \/ /\ us # <<>> /\ Simulates(Sent(us))
            /\ txs' = txs \cup {Sent(us)}
            /\ tick' = [tick EXCEPT ![t] =
                 IF Sent(us) = us THEN [@ EXCEPT !.pc = "save"] ELSE Null]
         \/ /\ us # <<>> /\ ~Simulates(Sent(us))
            /\ tick' = [tick EXCEPT ![t] = Null]
            /\ UNCHANGED txs
  /\ UNCHANGED <<feedVars, quote, local, stateFile, age, events, resets>>

\* The RPC fails: before the broadcast, or after it without an answer.  The
\* tick throws and records nothing.
SubmitFails(t) ==
  /\ tick[t] # Null /\ tick[t].pc = "submit" /\ tick[t].updates # <<>>
  /\ Event
  /\ \/ UNCHANGED txs
     \/ Simulates(Sent(tick[t].updates)) /\ txs' = txs \cup {Sent(tick[t].updates)}
  /\ tick' = [tick EXCEPT ![t] = Null]
  /\ UNCHANGED <<feedVars, quote, local, stateFile, age, resets>>

\* The record of a submitted pair does not keep the anchored timestamp.
Stored(us) ==
  [p \in Pairs |->
     IF \E i \in 1 .. Len(us) : us[i].pair = p
     THEN LET u == us[CHOOSE i \in 1 .. Len(us) : us[i].pair = p]
          IN  [round |-> u.round, price |-> u.price, time |-> 0, from |-> "local",
               dated |-> TRUE]
     ELSE local[p]]

\* The submitted records; saveFeedState writes the state file and then the rows
\* of the snapshot table are inserted.  Either may fail, and the error is
\* swallowed, or be overtaken by an older write.
Save(t) ==
  /\ tick[t] # Null /\ tick[t].pc = "save"
  /\ LET us == tick[t].updates
     IN  /\ local' = Stored(us)
         /\ age' = [p \in Pairs |->
              IF \E i \in 1 .. Len(us) : us[i].pair = p THEN "fresh" ELSE age[p]]
         /\ \/ stateFile' = Stored(us) /\ UNCHANGED events
            \/ UNCHANGED stateFile /\ Event
  /\ tick' = [tick EXCEPT ![t] = Null]
  /\ UNCHANGED <<feedVars, quote, txs, resets>>

\* Time passes.  At most deploy.pending transactions outlive minUpdateIntervalMs;
\* nothing keeps one of those from outliving staleAfterMs.
\* The refresh of a price that the chain shows already only moves its round;
\* the budget of events bounds how often a record ages into one.
Elapse(p) ==
  /\ \/ /\ age[p] = "fresh" /\ Cardinality(txs) <= deploy.pending
        /\ age' = [age EXCEPT ![p] = "settled"]
        /\ UNCHANGED events
     \/ /\ age[p] = "settled" /\ Dated(local[p])
        /\ age' = [age EXCEPT ![p] = "stale"]
        /\ IF feed[p] # Null /\ feed[p].price = quote[p]
           THEN Event ELSE UNCHANGED events
  /\ UNCHANGED <<feedVars, quote, local, stateFile, tick, txs, resets>>

\* A row of the snapshot table fills a missing price with the observed one.
Adopted(p) ==
  IF stateFile[p] = Observed THEN [Observed EXCEPT !.price = quote[p]] ELSE stateFile[p]

\* The ages a restart may find: those of the memory that is lost for a record
\* that was saved, older ones for a record that is older.
AgesOf(new, p) ==
  CASE new[p] = local[p] -> {age[p]}
    [] ~Dated(new[p])    -> {"settled"}
    [] age[p] = "stale"  -> {"stale"}
    [] OTHER             -> {"settled", "stale"}

\* The worker process restarts.  It loads the state file, which may be older
\* than the memory was; without a file the rows of the table; or nothing.
Restart ==
  /\ Event
  /\ tick' = [t \in Ticks |-> Null]
  /\ \E new \in {stateFile, [p \in Pairs |-> Adopted(p)], [p \in Pairs |-> Null]} :
        /\ local' = new
        /\ age' \in {f \in [Pairs -> {"fresh", "settled", "stale"}] :
                       \A p \in Pairs : f[p] \in AgesOf(new, p)}
  /\ UNCHANGED <<feedVars, quote, stateFile, txs, resets>>

MovePrice(p) ==
  /\ Event
  /\ quote' = [quote EXCEPT ![p] = @ + 1]
  /\ UNCHANGED <<feedVars, local, stateFile, age, tick, txs, resets>>

\* A transaction is included in a block and executed.
Land(us) ==
  /\ us \in txs
  /\ txs' = txs \ {us}
  /\ IF deploy.signer = Null
     THEN IF updater = Worker THEN UpdateFeeds({Worker}, us) ELSE UNCHANGED feedVars
     ELSE IF updater = Worker /\ Accepted(feed, us[1])
          THEN UpdateFeedSigned({Worker}, us[1]) ELSE UNCHANGED feedVars
  /\ UNCHANGED <<quote, local, stateFile, age, tick, events, resets>>

\* A transaction expires before any block includes it.
Expire(us) ==
  /\ us \in txs
  /\ Event
  /\ txs' = txs \ {us}
  /\ UNCHANGED <<feedVars, quote, local, stateFile, age, tick, resets>>

AdminCall ==
  /\ Event
  /\ \/ /\ UNCHANGED resets
        /\ \/ \E x \in FeedAccounts :
                \/ x # feedAdmin /\ SetAdmin({feedAdmin}, x)
                \/ x # updater /\ SetUpdater({feedAdmin}, x)
           \/ \E k \in FeedKeys :
                k # verificationKey /\ SetOracleVerificationKey({feedAdmin}, k)
           \/ verificationKey # Null /\ ClearOracleVerificationKey({feedAdmin})
     \/ /\ resets' = resets + 1
        /\ \E p \in Tracked, round \in FirstRounds :
             AdminResetFeed({feedAdmin},
               [pair |-> p, round |-> round, price |-> 0, time |-> 0,
                note |-> NoBasis, signer |-> Null])
  /\ UNCHANGED tickVars

\* The execution of a block is atomic to everything outside the chain.
PubStep ==
  \/ \E t \in Ticks :
        \/ \E refresh \in BOOLEAN : Start(t, refresh)
        \/ StartBlind(t) \/ FetchQuote(t) \/ FetchNothing(t)
        \/ Skip(t) \/ RejectStamp(t) \/ QueueUpdate(t)
        \/ Submit(t) \/ SubmitFails(t) \/ Save(t)
  \/ \E p \in Tracked : Elapse(p) \/ MovePrice(p)
  \/ Restart
  \/ \E us \in txs : Land(us) \/ Expire(us)
  \/ AdminCall

PubNext ==
  \/ batch = Null /\ PubStep /\ UNCHANGED deploy
  \/ BatchStep /\ UNCHANGED <<tickVars, deploy, events, resets>>

PubSpec == PubInit /\ [][PubNext]_pubVars

Continue(t) == FetchQuote(t) \/ Skip(t) \/ QueueUpdate(t) \/ Submit(t) \/ Save(t)

\* The relayer's loop starts a tick again and again; a tick that is under way
\* goes on, blocks are produced, and time passes.
PubFairness ==
  /\ \A t \in Ticks : WF_pubVars(batch = Null /\ UNCHANGED deploy /\ Continue(t))
  /\ WF_pubVars(batch = Null /\ UNCHANGED deploy /\ \E t \in Ticks : Start(t, TRUE))
  /\ \A p \in Pairs : WF_pubVars(batch = Null /\ UNCHANGED deploy /\ Elapse(p))
  /\ WF_pubVars(batch = Null /\ UNCHANGED deploy /\ \E us \in txs : Land(us))
  /\ WF_pubVars(BatchStep /\ UNCHANGED <<tickVars, deploy, events, resets>>)

FairPubSpec == PubSpec /\ PubFairness
-----------------------------------------------------------------------------
\* Type correctness of the publisher and of the contract; timestamps and rounds
\* stay naturals whatever a provider reports.
PubTypeOK ==
  /\ FeedTypeOK
  /\ \A p \in Pairs : quote[p] \in 0 .. events
  /\ age \in [Pairs -> {"fresh", "settled", "stale"}]
  /\ \A us \in txs : us # <<>> /\ \A i \in 1 .. Len(us) : us[i] \in Updates
  /\ resets <= events

\* The round works as a compare-and-swap.  An update that was decided against
\* an on-chain record replaces exactly that record: no other tick's write can
\* come between the comparison and the landing, however long the transaction
\* waited and however the local records were rewritten meanwhile.  An
\* AdminResetFeed, which takes rounds back, ends the guarantee.
ReplacesItsBaseline ==
  [][resets = 0 =>
       \A p \in Pairs :
          LET r == feed'[p]
          IN  (r # feed[p] /\ r.note.from = "chain") =>
                 feed[p] # Null /\ feed[p].round = r.note.round
                                /\ feed[p].price = r.note.price]_pubVars

Publishable == updater = Worker /\ verificationKey \in {Null, deploy.signer}

\* The chain shows the market's price of a published pair.
Shown(p) == p \in Tracked => feed[p] # Null /\ feed[p].price = quote[p]

\* A pair without a record on chain whose observed price was taken, at a
\* restart, for its last one: it is not published until the price moves.
Misled(p) == feed[p] = Null /\ local[p] # Null /\ local[p].from = "none" /\ local[p].price >= 0

\* Once the worker is the updater for good, and holds the registered key if
\* there is one, the chain comes to show the market's price of every pair and
\* keeps showing it: lost transactions, stale and forgotten local records,
\* overlapping and failed ticks, and timestamps behind the chain are all
\* repaired by later ticks.  That holds when a tick sends all it selects in one
\* transaction, not for several pairs with a signing key (see Sent), and but
\* for a pair that Misled describes.
CatchesUp ==
  <>[]Publishable /\ (deploy.signer = Null \/ Len(deploy.symbols) = 1) =>
     \A p \in Pairs : <>[](Shown(p) \/ Misled(p))
=============================================================================
