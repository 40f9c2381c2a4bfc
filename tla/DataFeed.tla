------------------------------ MODULE DataFeed ------------------------------
(***************************************************************************)
(* The MorpheusDataFeed contract: one record per pair, written by the      *)
(* updater, in rounds and timestamps that do not go back, and an index     *)
(* that enumerates the pairs.  A batch is one transaction: its writes see  *)
(* each other in the execution snapshot and all of them are lost when one  *)
(* of them is refused.                                                     *)
(***************************************************************************)
EXTENDS Integers, Sequences

CONSTANTS
  Pairs,          \* non-empty symbols; none contains the reserved '|'
  FeedAccounts,
  FeedKeys,       \* ECDSA public keys
  Null,
  FeedDeployer,   \* the sender of the transaction that deployed the contract
  Notes           \* attestation hashes, opaque to the contract

VARIABLES
  feedAdmin,        \* PREFIX_ADMIN
  updater,          \* PREFIX_UPDATER, Null until SetUpdater
  verificationKey,  \* PREFIX_VERIFICATION_KEY, Null when unset
  feed,             \* PREFIX_FEED: pair -> record, Null when there is none
  pairIndex,        \* PREFIX_PAIR_INDEX and PREFIX_PAIR_COUNT
  batch             \* the running UpdateFeeds: what is left and its snapshot

feedRoles == <<feedAdmin, updater, verificationKey>>
feedStore == <<feed, pairIndex>>
feedVars  == <<feedRoles, feedStore, batch>>

Records == [round : Nat, price : Nat, time : Nat, note : Notes]

\* The arguments of one write; signer is the key whose signature over the
\* message of exactly these fields comes with it, Null on the unsigned path.
Updates == [pair : Pairs, round : Nat, price : Nat, time : Nat, note : Notes,
            signer : FeedKeys \cup {Null}]

ASSUME FeedConstants ==
  /\ FeedDeployer \in FeedAccounts
  /\ Null \notin FeedAccounts \cup FeedKeys
  /\ Null \notin Records

FeedInit ==
  /\ feedAdmin = FeedDeployer
  /\ updater = Null
  /\ verificationKey = Null
  /\ feed = [p \in Pairs |-> Null]
  /\ pairIndex = <<>>
  /\ batch = Null

ValidateAdmin(ws)   == feedAdmin \in ws
ValidateUpdater(ws) == updater # Null /\ updater \in ws

SetAdmin(ws, newAdmin) ==
  /\ batch = Null /\ ValidateAdmin(ws)
  /\ feedAdmin' = newAdmin
  /\ UNCHANGED <<updater, verificationKey, feedStore, batch>>

SetUpdater(ws, newUpdater) ==
  /\ batch = Null /\ ValidateAdmin(ws)
  /\ updater' = newUpdater
  /\ UNCHANGED <<feedAdmin, verificationKey, feedStore, batch>>

SetOracleVerificationKey(ws, key) ==
  /\ batch = Null /\ ValidateAdmin(ws)
  /\ verificationKey' = key
  /\ UNCHANGED <<feedAdmin, updater, feedStore, batch>>

ClearOracleVerificationKey(ws) ==
  /\ batch = Null /\ ValidateAdmin(ws)
  /\ verificationKey' = Null
  /\ UNCHANGED <<feedAdmin, updater, feedStore, batch>>

\* Once a key is registered every updater write carries its signature.
VerifyFeedSignature(signer) == verificationKey # Null => signer = verificationKey

\* "stale round" and "stale timestamp".
NotStale(f, u) ==
  f[u.pair] # Null => u.round > f[u.pair].round /\ u.time >= f[u.pair].time

\* Mutant of IndexPairIfNeeded: every write indexes its pair.
IndexPairAlways(f, index, p) == Append(index, p)

\* The pair is indexed by the write that creates its record.
IndexPairIfNeeded(f, index, p) == IF f[p] # Null THEN index ELSE Append(index, p)

WriteFeedRecord(f, u) ==
  [f EXCEPT ![u.pair] =
     [round |-> u.round, price |-> u.price, time |-> u.time, note |-> u.note]]

Accepted(f, u) == VerifyFeedSignature(u.signer) /\ NotStale(f, u)

UpdateFeedInternal(u) ==
  /\ Accepted(feed, u)
  /\ pairIndex' = IndexPairIfNeeded(feed, pairIndex, u.pair)
  /\ feed' = WriteFeedRecord(feed, u)
  /\ UNCHANGED <<feedRoles, batch>>

\* The entry points without a signature argument.
Unsigned(u) ==
  [pair |-> u.pair, round |-> u.round, price |-> u.price, time |-> u.time,
   note |-> u.note, signer |-> Null]

\* UpdateResource is the same entry point under another name.
UpdateFeed(ws, u) ==
  /\ batch = Null /\ ValidateUpdater(ws)
  /\ UpdateFeedInternal(Unsigned(u))

UpdateFeedSigned(ws, u) ==
  /\ batch = Null /\ ValidateUpdater(ws)
  /\ UpdateFeedInternal(u)

\* The forced write that skips the monotonicity checks.
AdminResetFeed(ws, u) ==
  /\ batch = Null /\ ValidateAdmin(ws)
  /\ pairIndex' = IndexPairIfNeeded(feed, pairIndex, u.pair)
  /\ feed' = WriteFeedRecord(feed, u)
  /\ UNCHANGED <<feedRoles, batch>>

\* UpdateFeeds (and UpdateResources): the call, one step per loop iteration,
\* the revert at the first refused write, and the commit of the snapshot.
UpdateFeeds(ws, us) ==
  /\ batch = Null /\ ValidateUpdater(ws)
  /\ us # <<>>
  /\ batch' = [left |-> us, feed |-> feed, index |-> pairIndex]
  /\ UNCHANGED <<feedRoles, feedStore>>

BatchEntry == Unsigned(Head(batch.left))

BatchWrite ==
  /\ batch # Null
  /\ batch.left # <<>>
  /\ Accepted(batch.feed, BatchEntry)
  /\ batch' = [left  |-> Tail(batch.left),
               feed  |-> WriteFeedRecord(batch.feed, BatchEntry),
               index |-> IndexPairIfNeeded(batch.feed, batch.index, BatchEntry.pair)]
  /\ UNCHANGED <<feedRoles, feedStore>>

BatchRevert ==
  /\ batch # Null
  /\ batch.left # <<>>
  /\ ~Accepted(batch.feed, BatchEntry)
  /\ batch' = Null
  /\ UNCHANGED <<feedRoles, feedStore>>

BatchCommit ==
  /\ batch # Null
  /\ batch.left = <<>>
  /\ feed' = batch.feed
  /\ pairIndex' = batch.index
  /\ batch' = Null
  /\ UNCHANGED feedRoles

BatchStep == BatchWrite \/ BatchRevert \/ BatchCommit

FeedCall(ws) ==
  \/ \E x \in FeedAccounts : SetAdmin(ws, x) \/ SetUpdater(ws, x)
  \/ \E k \in FeedKeys : SetOracleVerificationKey(ws, k)
  \/ ClearOracleVerificationKey(ws)
  \/ \E u \in Updates :
        UpdateFeed(ws, u) \/ UpdateFeedSigned(ws, u) \/ AdminResetFeed(ws, u)
  \/ \E us \in Seq(Updates) : UpdateFeeds(ws, us)

FeedNext == BatchStep \/ \E ws \in SUBSET FeedAccounts : FeedCall(ws)

FeedSpec == FeedInit /\ [][FeedNext]_feedVars
-----------------------------------------------------------------------------
\* Type correctness of the contract.
FeedTypeOK ==
  /\ feedAdmin \in FeedAccounts
  /\ updater \in FeedAccounts \cup {Null}
  /\ verificationKey \in FeedKeys \cup {Null}
  /\ feed \in [Pairs -> Records \cup {Null}]
  /\ pairIndex \in Seq(Pairs)
  /\ batch = Null \/
       batch \in [left : Seq(Updates), feed : [Pairs -> Records \cup {Null}],
                  index : Seq(Pairs)]

Enumerates(f, index) ==
  /\ \A i, j \in 1 .. Len(index) : index[i] = index[j] => i = j
  /\ \A p \in Pairs : f[p] # Null <=> \E i \in 1 .. Len(index) : index[i] = p

\* GetAllPairs lists every pair that has a record exactly once, whatever mix
\* of single writes, resets and batches created the records, a batch that
\* names a new pair twice and a batch that reverts half-way included.
IndexExact == Enumerates(feed, pairIndex)
=============================================================================
