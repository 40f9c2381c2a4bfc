---------------------------- MODULE MCFeedSigned ----------------------------
(***************************************************************************)
(* The publisher with a signing key and two pairs, one tick at a time, for *)
(* TLC.  A history variable counts how often a selected pair is left out.  *)
(***************************************************************************)
EXTENDS FeedPublication

CONSTANTS none, root, worker, neo, gas, k1

VARIABLE passed   \* per pair: how often a tick selected it and sent only others,
                  \* with no earlier transaction pending, since the pair's
                  \* record on chain last changed

MCDeployments ==
  {[symbols |-> <<neo, gas>>, signer |-> k1, stamps |-> {0}, pending |-> 0, events |-> 2]}

MCNotes == [from : {"none", "chain", "local"}, round : 0 .. 9, price : 0 .. 2]

\* A tick sends, and leaves out the pair p that it selected.
PassesOver(p) ==
  /\ txs = {} /\ txs' # {}
  /\ \E t \in Ticks :
        /\ tick[t] # Null /\ tick[t].pc = "submit"
        /\ \E i \in 1 .. Len(tick[t].updates) : tick[t].updates[i].pair = p
        /\ \A us \in txs' : \A i \in 1 .. Len(us) : us[i].pair # p

CountingInit == PubInit /\ passed = [p \in Pairs |-> 0]

CountingNext ==
  /\ PubNext
  /\ passed' = [p \in Pairs |-> CASE feed'[p] # feed[p] -> 0
                                  [] PassesOver(p) -> passed[p] + 1
                                  [] OTHER -> passed[p]]

CountingSpec == CountingInit /\ [][CountingNext]_<<pubVars, passed>>

\* docs/EXAMPLES.md has the pairs that are selected "grouped into one batch
\* transaction per chain".  Were they sent one by one, a pair that every tick
\* selects would still be sent once the others had their turn, or one turn more
\* for every price that moves and every transaction or answer that is lost.
EveryPairGetsItsTurn == \A p \in Tracked : passed[p] < Len(deploy.symbols) + events
=============================================================================
