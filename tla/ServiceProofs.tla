--------------------------- MODULE ServiceProofs ----------------------------
(***************************************************************************)
(* Proofs about the price feed and NeoDID, for any pairs, identities,      *)
(* accounts, networks and keys.  The index of MorpheusDataFeed enumerates  *)
(* its records; a price update replaces the record it was decided against; *)
(* a nullifier is accepted once and only on the worker's signature, and    *)
(* the events of the registry tell the stored bindings.                    *)
(***************************************************************************)
EXTENDS FeedPublication, NeoDIDRegistry, TLAPS

-----------------------------------------------------------------------------
(* The DataFeed contract *)

\* What a running batch has built so far is as well indexed as the store.
FeedInv ==
  /\ FeedTypeOK
  /\ IndexExact
  /\ batch # Null => Enumerates(batch.feed, batch.index)

Stores == [Pairs -> Records \cup {Null}]

\* A write keeps the record map a record map.
LEMMA WriteType ==
  ASSUME NEW f \in Stores, NEW index \in Seq(Pairs), NEW u \in Updates
  PROVE  /\ WriteFeedRecord(f, u) \in Stores
         /\ IndexPairIfNeeded(f, index, u.pair) \in Seq(Pairs)
BY DEF Stores, Updates, Records, WriteFeedRecord, IndexPairIfNeeded

\* The written pair has a record afterwards and no other pair changes.
LEMMA WriteEffect ==
  ASSUME NEW f \in Stores, NEW u \in Updates, NEW p \in Pairs
  PROVE  WriteFeedRecord(f, u)[p] # Null <=> (p = u.pair \/ f[p] # Null)
<1> DEFINE r == [round |-> u.round, price |-> u.price, time |-> u.time, note |-> u.note]
<1>1. r \in Records
  BY DEF Updates, Records
<1>2. r # Null
  BY <1>1, FeedConstants
<1>3. WriteFeedRecord(f, u)[p] = IF p = u.pair THEN r ELSE f[p]
  BY DEF WriteFeedRecord, Stores, Updates
<1> QED
  BY <1>2, <1>3

\* A write keeps the index an enumeration: it appends the pair exactly when
\* the pair had no record.
LEMMA IndexedWrite ==
  ASSUME NEW f, NEW index \in Seq(Pairs), NEW u, u.pair \in Pairs, Enumerates(f, index),
         \A p \in Pairs : WriteFeedRecord(f, u)[p] # Null <=> (p = u.pair \/ f[p] # Null)
  PROVE  Enumerates(WriteFeedRecord(f, u), IndexPairIfNeeded(f, index, u.pair))
<1> DEFINE g == WriteFeedRecord(f, u)
           k == IndexPairIfNeeded(f, index, u.pair)
<1>p. u.pair \in Pairs
  OBVIOUS
<1>e. \A p \in Pairs : g[p] # Null <=> (p = u.pair \/ f[p] # Null)
  OBVIOUS
<1>1. CASE f[u.pair] # Null
  <2>1. k = index
    BY <1>1 DEF IndexPairIfNeeded
  <2> QED
    BY <1>1, <1>e, <1>p, <2>1 DEF Enumerates
<1>2. CASE f[u.pair] = Null
  <2>1. k = Append(index, u.pair)
    BY <1>2 DEF IndexPairIfNeeded
  <2>2. /\ Len(k) = Len(index) + 1
        /\ \A i \in 1 .. Len(index) : k[i] = index[i]
        /\ k[Len(index) + 1] = u.pair
    BY <1>p, <2>1
  <2>3. \A i \in 1 .. Len(index) : index[i] # u.pair
    BY <1>2, <1>p DEF Enumerates
  <2>4. \A i, j \in 1 .. Len(k) : k[i] = k[j] => i = j
    BY <2>2, <2>3 DEF Enumerates
  <2>5. ASSUME NEW p \in Pairs
        PROVE  g[p] # Null <=> \E i \in 1 .. Len(k) : k[i] = p
    <3>1. CASE p = u.pair
      <4>1. Len(index) + 1 \in 1 .. Len(k)
        BY <2>2
      <4> QED
        BY <1>e, <2>2, <3>1, <4>1
    <3>2. CASE p # u.pair
      <4>1. g[p] # Null <=> f[p] # Null
        BY <1>e, <3>2
      <4>2. f[p] # Null <=> \E i \in 1 .. Len(index) : index[i] = p
        BY DEF Enumerates
      <4>3. (\E i \in 1 .. Len(index) : index[i] = p) <=> (\E i \in 1 .. Len(k) : k[i] = p)
        BY <2>2, <3>2
      <4> QED
        BY <4>1, <4>2, <4>3
    <3> QED
      BY <3>1, <3>2
  <2> QED
    BY <2>4, <2>5 DEF Enumerates
<1> QED
  BY <1>1, <1>2

LEMMA WriteEnumerates ==
  ASSUME NEW f \in Stores, NEW index \in Seq(Pairs), NEW u \in Updates,
         Enumerates(f, index)
  PROVE  Enumerates(WriteFeedRecord(f, u), IndexPairIfNeeded(f, index, u.pair))
<1>1. u.pair \in Pairs
  BY DEF Updates
<1> QED
  BY <1>1, WriteEffect, IndexedWrite

LEMMA FeedInitInv == FeedInit => FeedInv
BY FeedConstants DEF FeedInit, FeedInv, FeedTypeOK, IndexExact, Enumerates

\* A direct write, of the updater or of the admin.
LEMMA DirectWrite ==
  ASSUME FeedInv, NEW u \in Updates,
         pairIndex' = IndexPairIfNeeded(feed, pairIndex, u.pair),
         feed' = WriteFeedRecord(feed, u),
         UNCHANGED <<feedRoles, batch>>
  PROVE  FeedInv'
<1>1. feed \in Stores /\ pairIndex \in Seq(Pairs)
  BY DEF FeedInv, FeedTypeOK, Stores
<1>2. feed' \in Stores /\ pairIndex' \in Seq(Pairs)
  BY <1>1, WriteType
<1>3. Enumerates(feed', pairIndex')
  BY <1>1, WriteEnumerates DEF FeedInv, IndexExact
<1> QED
  BY <1>2, <1>3 DEF FeedInv, FeedTypeOK, IndexExact, Enumerates, feedRoles, Stores

\* A call that leaves the records alone.
LEMMA RoleCall ==
  ASSUME FeedInv, UNCHANGED <<feedStore, batch>>,
         feedAdmin' \in FeedAccounts,
         updater' \in FeedAccounts \cup {Null},
         verificationKey' \in FeedKeys \cup {Null}
  PROVE  FeedInv'
BY DEF FeedInv, FeedTypeOK, IndexExact, Enumerates, feedStore

LEMMA FeedStepInv == FeedInv /\ [FeedNext]_feedVars => FeedInv'
<1> SUFFICES ASSUME FeedInv, [FeedNext]_feedVars PROVE FeedInv'
  OBVIOUS
<1>t. /\ feedAdmin \in FeedAccounts /\ updater \in FeedAccounts \cup {Null}
      /\ verificationKey \in FeedKeys \cup {Null}
  BY DEF FeedInv, FeedTypeOK
<1>s. feed \in Stores /\ pairIndex \in Seq(Pairs) /\ Enumerates(feed, pairIndex)
  BY DEF FeedInv, FeedTypeOK, IndexExact, Stores
<1>b. batch # Null =>
        /\ batch \in [left : Seq(Updates), feed : Stores, index : Seq(Pairs)]
        /\ Enumerates(batch.feed, batch.index)
  BY DEF FeedInv, FeedTypeOK, Stores
<1>1. ASSUME NEW ws, NEW x \in FeedAccounts, SetAdmin(ws, x) PROVE FeedInv'
  BY <1>1, <1>t, RoleCall DEF SetAdmin
<1>2. ASSUME NEW ws, NEW x \in FeedAccounts, SetUpdater(ws, x) PROVE FeedInv'
  BY <1>2, <1>t, RoleCall DEF SetUpdater
<1>3. ASSUME NEW ws, NEW k \in FeedKeys, SetOracleVerificationKey(ws, k) PROVE FeedInv'
  BY <1>3, <1>t, RoleCall DEF SetOracleVerificationKey
<1>4. ASSUME NEW ws, ClearOracleVerificationKey(ws) PROVE FeedInv'
  BY <1>4, <1>t, RoleCall DEF ClearOracleVerificationKey
<1>5. ASSUME NEW ws, NEW u \in Updates, UpdateFeed(ws, u) PROVE FeedInv'
  <2> DEFINE v == Unsigned(u)
  <2>1. v \in Updates
    BY DEF Unsigned, Updates
  <2>2. /\ pairIndex' = IndexPairIfNeeded(feed, pairIndex, v.pair)
        /\ feed' = WriteFeedRecord(feed, v)
        /\ UNCHANGED <<feedRoles, batch>>
    BY <1>5 DEF UpdateFeed, UpdateFeedInternal
  <2> HIDE DEF v
  <2> QED
    BY <2>1, <2>2, DirectWrite
<1>6. ASSUME NEW ws, NEW u \in Updates, UpdateFeedSigned(ws, u) PROVE FeedInv'
  BY <1>6, DirectWrite DEF UpdateFeedSigned, UpdateFeedInternal
<1>7. ASSUME NEW ws, NEW u \in Updates, AdminResetFeed(ws, u) PROVE FeedInv'
  BY <1>7, DirectWrite DEF AdminResetFeed
<1>8. ASSUME NEW ws, NEW us \in Seq(Updates), UpdateFeeds(ws, us) PROVE FeedInv'
  <2>1. /\ UNCHANGED <<feedRoles, feedStore>>
        /\ batch' = [left |-> us, feed |-> feed, index |-> pairIndex]
    BY <1>8 DEF UpdateFeeds
  <2>2. batch' \in [left : Seq(Updates), feed : Stores, index : Seq(Pairs)]
    BY <2>1, <1>s
  <2>3. Enumerates(batch'.feed, batch'.index)
    BY <2>1, <1>s
  <2> QED
    BY <2>1, <2>2, <2>3, <1>t, <1>s
    DEF FeedInv, FeedTypeOK, IndexExact, Enumerates, feedRoles, feedStore, Stores
<1>9. CASE BatchWrite
  <2> DEFINE e == BatchEntry
  <2>1. /\ batch # Null /\ batch.left # <<>>
        /\ UNCHANGED <<feedRoles, feedStore>>
        /\ batch' = [left  |-> Tail(batch.left),
                     feed  |-> WriteFeedRecord(batch.feed, e),
                     index |-> IndexPairIfNeeded(batch.feed, batch.index, e.pair)]
    BY <1>9 DEF BatchWrite
  <2>2. /\ batch.left \in Seq(Updates) /\ batch.feed \in Stores
        /\ batch.index \in Seq(Pairs) /\ Enumerates(batch.feed, batch.index)
    BY <2>1, <1>b
  <2>3. Head(batch.left) \in Updates /\ Tail(batch.left) \in Seq(Updates)
    BY <2>1, <2>2
  <2>4. e \in Updates
    BY <2>3 DEF BatchEntry, Unsigned, Updates
  <2> HIDE DEF e
  <2>5. batch' \in [left : Seq(Updates), feed : Stores, index : Seq(Pairs)]
    BY <2>1, <2>2, <2>3, <2>4, WriteType
  <2>6. Enumerates(batch'.feed, batch'.index)
    BY <2>1, <2>2, <2>4, WriteEnumerates
  <2> QED
    BY <2>1, <2>5, <2>6, <1>t, <1>s
    DEF FeedInv, FeedTypeOK, IndexExact, Enumerates, feedRoles, feedStore, Stores
<1>10. CASE BatchRevert
  BY <1>10, <1>t, <1>s DEF BatchRevert, FeedInv, FeedTypeOK, IndexExact, Enumerates,
     feedRoles, feedStore, Stores
<1>11. CASE BatchCommit
  <2>1. /\ batch # Null /\ batch' = Null /\ UNCHANGED feedRoles
        /\ feed' = batch.feed /\ pairIndex' = batch.index
    BY <1>11 DEF BatchCommit
  <2>2. feed' \in Stores /\ pairIndex' \in Seq(Pairs) /\ Enumerates(feed', pairIndex')
    BY <2>1, <1>b
  <2> QED
    BY <2>1, <2>2, <1>t DEF FeedInv, FeedTypeOK, IndexExact, Enumerates, feedRoles, Stores
<1>12. CASE UNCHANGED feedVars
  <2>1. UNCHANGED <<feedAdmin, updater, verificationKey, feed, pairIndex, batch>>
    BY <1>12 DEF feedVars, feedRoles, feedStore
  <2>2. FeedTypeOK'
    BY <2>1 DEF FeedInv, FeedTypeOK
  <2>3. IndexExact' /\ (batch' # Null => Enumerates(batch'.feed, batch'.index))
    BY <2>1 DEF FeedInv, IndexExact, Enumerates
  <2> QED
    BY <2>2, <2>3 DEF FeedInv, Enumerates
<1> QED
  BY <1>1, <1>2, <1>3, <1>4, <1>5, <1>6, <1>7, <1>8, <1>9, <1>10, <1>11, <1>12
  DEF FeedNext, FeedCall, BatchStep

\* The contract's storage keeps its types under every call of MorpheusDataFeed.
THEOREM FeedTypes == FeedSpec => []FeedTypeOK
<1>1. FeedInv => FeedTypeOK
  BY DEF FeedInv
<1> QED
  BY <1>1, FeedInitInv, FeedStepInv, PTL DEF FeedSpec

\* GetAllPairs of MorpheusDataFeed lists every pair with a record exactly once.
THEOREM FeedIndexed == FeedSpec => []IndexExact
<1>1. FeedInv => IndexExact
  BY DEF FeedInv
<1> QED
  BY <1>1, FeedInitInv, FeedStepInv, PTL DEF FeedSpec

-----------------------------------------------------------------------------
(* The NeoDID registry *)

BindTickets == [binding : BindingKeys, nullifier : Nullifiers, network : Networks, key : DidKeys]

ActionNullifiers == [provider : Providers, uid : Uids, action : Actions]

Uses == [account : DidAccounts, action : Actions]

\* Events about bindings and events about uses.
BindingEvents == [kind : {"registered", "revoked"}, about : BindingKeys, nullifier : Nullifiers]
UseEvents     == [kind : {"used"}, about : Uses, nullifier : ActionNullifiers]

\* A ticket carries the nullifier of its own action.
ActionTicketsOK ==
  \A t \in actionTickets :
     /\ t.account \in DidAccounts /\ t.action \in Actions
     /\ t.nullifier \in ActionNullifiers /\ t.nullifier.action = t.action

TypesInv ==
  /\ DidTypeOK
  /\ bindTickets \subseteq BindTickets
  /\ ActionTicketsOK
  /\ didLog \in Seq(BindingEvents \cup UseEvents)

\* What the log has accepted is spent, and nothing in the log was accepted twice.
LogInv ==
  \A i \in 1 .. Len(didLog) :
     /\ Registered(i) => didLog[i].nullifier \in masterNullifiers
     /\ didLog[i].kind = "used" =>
          /\ didLog[i].nullifier \in actionNullifiers
          /\ didLog[i].nullifier.action = didLog[i].about.action
     /\ \A j \in 1 .. Len(didLog) :
          /\ didLog[i].kind = didLog[j].kind
          /\ didLog[i].kind # "revoked"
          /\ didLog[i].nullifier = didLog[j].nullifier
          => i = j

DidInv == TypesInv /\ LogInv /\ EventsTellBindings

\* The log after one more event.
LEMMA LogAppend ==
  ASSUME TypesInv, NEW e, didLog' = Append(didLog, e)
  PROVE  /\ Len(didLog') = Len(didLog) + 1
         /\ Len(didLog) \in Nat
         /\ \A i \in 1 .. Len(didLog) : didLog'[i] = didLog[i]
         /\ didLog'[Len(didLog) + 1] = e
BY DEF TypesInv

\* An event about something else leaves the last event about k where it is.
LEMMA LastOther ==
  ASSUME TypesInv, NEW e, didLog' = Append(didLog, e), NEW k, e.about # k
  PROVE  /\ \A n \in Nat : LastAbout(k, n)' <=> LastAbout(k, n)
         /\ (\E n \in 1 .. Len(didLog') : didLog'[n].about = k)
              <=> (\E n \in 1 .. Len(didLog) : didLog[n].about = k)
BY LogAppend DEF LastAbout

\* An event about k is the last one about k.
LEMMA LastSame ==
  ASSUME TypesInv, NEW e, didLog' = Append(didLog, e), NEW k, e.about = k
  PROVE  \A n \in Nat : LastAbout(k, n)' <=> n = Len(didLog) + 1
BY LogAppend DEF LastAbout

\* EventsTellBindings for one binding.
Told(k) ==
  /\ bindings[k].active <=> \E n \in 1 .. Len(didLog) : LastAbout(k, n) /\ Registered(n)
  /\ bindings[k].nullifier # Unset <=> \E n \in 1 .. Len(didLog) : didLog[n].about = k
  /\ \A n \in 1 .. Len(didLog) : LastAbout(k, n) => bindings[k].nullifier = didLog[n].nullifier

LEMMA ToldOther ==
  ASSUME TypesInv, NEW e, didLog' = Append(didLog, e), NEW k, e.about # k,
         bindings'[k] = bindings[k], Told(k)
  PROVE  Told(k)'
<1> DEFINE n == Len(didLog)
<1>1. /\ Len(didLog') = n + 1 /\ n \in Nat
      /\ \A i \in 1 .. n : didLog'[i] = didLog[i]
  BY LogAppend
<1>2. /\ \A i \in Nat : LastAbout(k, i)' <=> LastAbout(k, i)
      /\ (\E i \in 1 .. Len(didLog') : didLog'[i].about = k)
              <=> (\E i \in 1 .. Len(didLog) : didLog[i].about = k)
  BY LastOther
<1>3. \A i \in Nat : LastAbout(k, i) => i \in 1 .. n
  BY DEF LastAbout
<1>4. (\E i \in 1 .. Len(didLog') : LastAbout(k, i)' /\ Registered(i)')
        <=> (\E i \in 1 .. Len(didLog) : LastAbout(k, i) /\ Registered(i))
  BY <1>1, <1>2, <1>3 DEF Registered
<1>5. \A i \in 1 .. Len(didLog') : LastAbout(k, i)' => bindings'[k].nullifier = didLog'[i].nullifier
  BY <1>1, <1>2, <1>3 DEF Told
<1> QED
  BY <1>2, <1>4, <1>5 DEF Told

LEMMA ToldSame ==
  ASSUME TypesInv, NEW e, didLog' = Append(didLog, e), NEW k, e.about = k,
         bindings'[k].nullifier = e.nullifier, e.nullifier # Unset,
         bindings'[k].active <=> e.kind = "registered"
  PROVE  Told(k)'
<1> DEFINE n == Len(didLog)
<1>1. /\ Len(didLog') = n + 1 /\ n \in Nat
      /\ didLog'[n + 1] = e
  BY LogAppend
<1>2. \A i \in Nat : LastAbout(k, i)' <=> i = n + 1
  BY LastSame
<1>3. n + 1 \in 1 .. Len(didLog')
  BY <1>1
<1>4. (\E i \in 1 .. Len(didLog') : LastAbout(k, i)' /\ Registered(i)') <=> e.kind = "registered"
  BY <1>1, <1>2, <1>3 DEF Registered
<1>5. \A i \in 1 .. Len(didLog') : LastAbout(k, i)' => bindings'[k].nullifier = didLog'[i].nullifier
  BY <1>1, <1>2
<1>6. \E i \in 1 .. Len(didLog') : didLog'[i].about = k
  BY <1>1, <1>3
<1> QED
  BY <1>4, <1>5, <1>6 DEF Told

LEMMA DidInitInv == DidInit => DidInv
BY DidConstants DEF DidInit, DidInv, TypesInv, DidTypeOK, LogInv,
   ActionTicketsOK, BindTickets, EventsTellBindings, LastAbout, Registered

\* The steps that leave the log alone.
LEMMA Silent ==
  ASSUME DidInv, TypesInv',
         UNCHANGED <<didLog, bindings, masterNullifiers, actionNullifiers>>
  PROVE  DidInv'
<1>1. LogInv'
  BY DEF DidInv, LogInv, Registered
<1>2. EventsTellBindings'
  BY DEF DidInv, EventsTellBindings, LastAbout, Registered
<1> QED
  BY <1>1, <1>2 DEF DidInv

LEMMA RegisterInv ==
  ASSUME DidInv, NEW ws, NEW t \in bindTickets, RegisterBinding(ws, t)
  PROVE  DidInv'
<1> DEFINE e == DidEvent("registered", t.binding, t.nullifier)
           n == Len(didLog)
<1>t. t \in BindTickets
  BY DEF DidInv, TypesInv
<1>e. /\ e.kind = "registered" /\ e.about = t.binding /\ e.nullifier = t.nullifier
      /\ e \in BindingEvents
  BY <1>t DEF DidEvent, BindTickets, BindingEvents
<1>r. /\ didLog' = Append(didLog, e)
      /\ t.nullifier \notin masterNullifiers /\ VerifySignature(t)
      /\ bindings' = [bindings EXCEPT ![t.binding] = [nullifier |-> t.nullifier, active |-> TRUE]]
      /\ masterNullifiers' = masterNullifiers \cup {t.nullifier}
      /\ UNCHANGED <<didAdmin, verifier, actionNullifiers, bindTickets, actionTickets>>
  BY DEF RegisterBinding, SpentNullifiers, tickets
<1> HIDE DEF e
<1>l. /\ Len(didLog') = n + 1 /\ n \in Nat
      /\ \A i \in 1 .. n : didLog'[i] = didLog[i]
      /\ didLog'[n + 1] = e
  BY <1>r, LogAppend DEF DidInv
<1>1. TypesInv'
  <2>1. DidTypeOK'
    BY <1>r, <1>t DEF DidInv, TypesInv, DidTypeOK, BindTickets
  <2>2. didLog' \in Seq(BindingEvents \cup UseEvents)
    BY <1>r, <1>e DEF DidInv, TypesInv
  <2> QED
    BY <2>1, <2>2, <1>r DEF DidInv, TypesInv, ActionTicketsOK
<1>2. LogInv'
  <2>1. ASSUME NEW i \in 1 .. n + 1
        PROVE  /\ (didLog'[i].kind = "registered" => didLog'[i].nullifier \in masterNullifiers')
               /\ didLog'[i].kind = "used" =>
                    /\ didLog'[i].nullifier \in actionNullifiers'
                    /\ didLog'[i].nullifier.action = didLog'[i].about.action
    BY <1>l, <1>e, <1>r DEF DidInv, LogInv, Registered
  <2>2. ASSUME NEW i \in 1 .. n + 1, NEW j \in 1 .. n + 1,
               didLog'[i].kind = didLog'[j].kind, didLog'[i].kind # "revoked",
               didLog'[i].nullifier = didLog'[j].nullifier
        PROVE  i = j
    <3>1. \A m \in 1 .. n : didLog[m].kind = "registered" => didLog[m].nullifier # e.nullifier
      BY <1>e, <1>r DEF DidInv, LogInv, Registered
    <3> QED
      BY <2>2, <3>1, <1>l, <1>e DEF DidInv, LogInv
  <2> QED
    BY <2>1, <2>2, <1>l DEF LogInv, Registered
<1>3. EventsTellBindings'
  <2>0. t.binding \in BindingKeys /\ t.nullifier \in Nullifiers
    BY <1>t DEF BindTickets
  <2> SUFFICES ASSUME NEW k \in BindingKeys PROVE Told(k)'
    BY DEF EventsTellBindings, Told
  <2>1. TypesInv /\ Told(k)
    BY DEF DidInv, EventsTellBindings, Told
  <2>2. CASE k = t.binding
    <3>1. bindings'[k] = [nullifier |-> t.nullifier, active |-> TRUE]
      BY <2>0, <2>2, <1>r DEF DidInv, TypesInv, DidTypeOK
    <3>2. t.nullifier # Unset
      BY <2>0, DidConstants DEF Nullifiers, Identities
    <3> QED
      BY <2>1, <2>2, <3>1, <3>2, <1>e, <1>r, ToldSame
  <2>3. CASE k # t.binding
    <3>1. bindings'[k] = bindings[k]
      BY <2>0, <2>3, <1>r DEF DidInv, TypesInv, DidTypeOK
    <3> QED
      BY <2>1, <2>3, <3>1, <1>e, <1>r, ToldOther
  <2> QED
    BY <2>2, <2>3
<1> QED
  BY <1>1, <1>2, <1>3 DEF DidInv

LEMMA RevokeInv ==
  ASSUME DidInv, NEW ws, NEW k \in BindingKeys, RevokeBinding(ws, k)
  PROVE  DidInv'
<1> DEFINE e == DidEvent("revoked", k, bindings[k].nullifier)
           n == Len(didLog)
<1>a. bindings[k].nullifier \in Nullifiers
  <2>1. bindings[k].active /\ bindings[k] \in [nullifier : Nullifiers \cup {Unset}, active : BOOLEAN]
    BY DEF RevokeBinding, DidInv, TypesInv, DidTypeOK
  <2>2. bindings[k].nullifier # Unset
    BY <2>1 DEF DidInv, EventsTellBindings, LastAbout
  <2> QED
    BY <2>1, <2>2
<1>e. /\ e.kind = "revoked" /\ e.about = k /\ e.nullifier = bindings[k].nullifier
      /\ e \in BindingEvents
  BY <1>a DEF DidEvent, BindingEvents
<1>r. /\ didLog' = Append(didLog, e)
      /\ bindings' = [bindings EXCEPT ![k] = Revoked(bindings[k])]
      /\ UNCHANGED <<didAdmin, verifier, masterNullifiers, actionNullifiers, bindTickets, actionTickets>>
  BY DEF RevokeBinding, tickets
<1> HIDE DEF e
<1>l. /\ Len(didLog') = n + 1 /\ n \in Nat
      /\ \A i \in 1 .. n : didLog'[i] = didLog[i]
      /\ didLog'[n + 1] = e
  BY <1>r, LogAppend DEF DidInv
<1>1. TypesInv'
  <2>1. DidTypeOK'
    BY <1>r DEF DidInv, TypesInv, DidTypeOK, Revoked
  <2>2. didLog' \in Seq(BindingEvents \cup UseEvents)
    BY <1>r, <1>e DEF DidInv, TypesInv
  <2> QED
    BY <2>1, <2>2, <1>r DEF DidInv, TypesInv, ActionTicketsOK
<1>2. LogInv'
  BY <1>l, <1>e, <1>r DEF DidInv, LogInv, Registered
<1>3. EventsTellBindings'
  <2> SUFFICES ASSUME NEW b \in BindingKeys PROVE Told(b)'
    BY DEF EventsTellBindings, Told
  <2>1. TypesInv /\ Told(b)
    BY DEF DidInv, EventsTellBindings, Told
  <2>2. CASE b = k
    <3>1. bindings'[b] = [nullifier |-> bindings[k].nullifier, active |-> FALSE]
      BY <2>2, <1>r DEF DidInv, TypesInv, DidTypeOK, Revoked
    <3>2. bindings[k].nullifier # Unset
      BY <1>a, DidConstants DEF Nullifiers, Identities
    <3> QED
      BY <2>1, <2>2, <3>1, <3>2, <1>e, <1>r, ToldSame
  <2>3. CASE b # k
    <3>1. bindings'[b] = bindings[b]
      BY <2>3, <1>r DEF DidInv, TypesInv, DidTypeOK
    <3> QED
      BY <2>1, <2>3, <3>1, <1>e, <1>r, ToldOther
  <2> QED
    BY <2>2, <2>3
<1> QED
  BY <1>1, <1>2, <1>3 DEF DidInv

LEMMA UseInv ==
  ASSUME DidInv, NEW ws, NEW t \in actionTickets, UseActionTicket(ws, t)
  PROVE  DidInv'
<1> DEFINE u == [account |-> t.account, action |-> t.action]
           e == DidEvent("used", u, t.nullifier)
           n == Len(didLog)
<1>t. /\ t.account \in DidAccounts /\ t.action \in Actions
      /\ t.nullifier \in ActionNullifiers /\ t.nullifier.action = t.action
  BY DEF DidInv, TypesInv, ActionTicketsOK
<1>u. u \in Uses /\ u.action = t.action
  BY <1>t DEF Uses
<1>e. /\ e.kind = "used" /\ e.about = u /\ e.nullifier = t.nullifier
      /\ e \in UseEvents
  BY <1>t, <1>u DEF DidEvent, UseEvents
<1>r. /\ didLog' = Append(didLog, e)
      /\ t.nullifier \notin actionNullifiers /\ VerifySignature(t)
      /\ actionNullifiers' = actionNullifiers \cup {t.nullifier}
      /\ UNCHANGED <<didAdmin, verifier, bindings, masterNullifiers, bindTickets, actionTickets>>
  BY DEF UseActionTicket, tickets
<1> HIDE DEF e
<1>l. /\ Len(didLog') = n + 1 /\ n \in Nat
      /\ \A i \in 1 .. n : didLog'[i] = didLog[i]
      /\ didLog'[n + 1] = e
  BY <1>r, LogAppend DEF DidInv
<1>1. TypesInv'
  <2>1. didLog' \in Seq(BindingEvents \cup UseEvents)
    BY <1>r, <1>e DEF DidInv, TypesInv
  <2> QED
    BY <2>1, <1>r DEF DidInv, TypesInv, DidTypeOK, ActionTicketsOK
<1>2. LogInv'
  <2>1. ASSUME NEW i \in 1 .. n + 1
        PROVE  /\ (didLog'[i].kind = "registered" => didLog'[i].nullifier \in masterNullifiers')
               /\ didLog'[i].kind = "used" =>
                    /\ didLog'[i].nullifier \in actionNullifiers'
                    /\ didLog'[i].nullifier.action = didLog'[i].about.action
    <3>1. CASE i = n + 1
      BY <3>1, <1>l, <1>e, <1>r, <1>t, <1>u
    <3>2. CASE i \in 1 .. n
      BY <3>2, <1>l, <1>r DEF DidInv, LogInv, Registered
    <3> QED
      BY <3>1, <3>2, <1>l
  <2>2. ASSUME NEW i \in 1 .. n + 1, NEW j \in 1 .. n + 1,
               didLog'[i].kind = didLog'[j].kind, didLog'[i].kind # "revoked",
               didLog'[i].nullifier = didLog'[j].nullifier
        PROVE  i = j
    <3>1. \A m \in 1 .. n : didLog[m].kind = "used" => didLog[m].nullifier # e.nullifier
      BY <1>e, <1>r DEF DidInv, LogInv
    <3> QED
      BY <2>2, <3>1, <1>l, <1>e DEF DidInv, LogInv
  <2> QED
    BY <2>1, <2>2, <1>l DEF LogInv, Registered
<1>3. EventsTellBindings'
  <2> SUFFICES ASSUME NEW k \in BindingKeys PROVE Told(k)'
    BY DEF EventsTellBindings, Told
  <2>1. TypesInv /\ Told(k)
    BY DEF DidInv, EventsTellBindings, Told
  <2>2. u # k
    BY DEF BindingKeys
  <2> QED
    BY <2>1, <2>2, <1>e, <1>r, ToldOther
<1> QED
  BY <1>1, <1>2, <1>3 DEF DidInv

LEMMA DidStepInv == DidInv /\ [DidNext]_didVars => DidInv'
<1> SUFFICES ASSUME DidInv, [DidNext]_didVars PROVE DidInv'
  OBVIOUS
<1>1. ASSUME NEW id \in Identities, NEW x \in DidAccounts, NEW c \in ClaimTypes,
             NEW net \in Networks, NEW key \in DidKeys, HandleBind(id, x, c, net, key)
      PROVE  DidInv'
  <2> DEFINE k == [vault |-> x, provider |-> id.provider, claimType |-> c]
             t == [binding |-> k, nullifier |-> MasterNullifier(id), network |-> net, key |-> key]
  <2>1. k \in BindingKeys /\ MasterNullifier(id) \in Nullifiers
    BY DEF BindingKeys, MasterNullifier, Nullifiers, Identities
  <2>2. t \in BindTickets
    BY <2>1 DEF BindTickets
  <2>3. /\ bindTickets' = bindTickets \cup {t}
        /\ UNCHANGED <<didAdmin, verifier, bindings, masterNullifiers, actionNullifiers, didLog, actionTickets>>
    BY <1>1 DEF HandleBind, didStore
  <2> HIDE DEF t
  <2>4. TypesInv'
    BY <2>2, <2>3 DEF DidInv, TypesInv, DidTypeOK, ActionTicketsOK
  <2> QED
    BY <2>3, <2>4, Silent
<1>2. ASSUME NEW id \in Identities, NEW x \in DidAccounts, NEW a \in Actions,
             NEW net \in Networks, NEW key \in DidKeys, HandleActionTicket(id, x, a, net, key)
      PROVE  DidInv'
  <2> DEFINE t == [account |-> x, action |-> a, nullifier |-> ActionNullifier(id, a, x),
                   network |-> net, key |-> key]
  <2>1. /\ ActionNullifier(id, a, x) \in ActionNullifiers
        /\ ActionNullifier(id, a, x).action = a
    BY DEF ActionNullifier, ActionNullifiers, Identities
  <2>2. /\ t.account \in DidAccounts /\ t.action \in Actions
        /\ t.nullifier \in ActionNullifiers /\ t.nullifier.action = t.action
    BY <2>1
  <2>3. /\ actionTickets' = actionTickets \cup {t}
        /\ UNCHANGED <<didAdmin, verifier, bindings, masterNullifiers, actionNullifiers, didLog, bindTickets>>
    BY <1>2 DEF HandleActionTicket, didStore
  <2> HIDE DEF t
  <2>4. TypesInv'
    BY <2>2, <2>3 DEF DidInv, TypesInv, DidTypeOK, ActionTicketsOK
  <2> QED
    BY <2>3, <2>4, Silent
<1>3. ASSUME NEW ws, NEW x \in DidAccounts, SetDidAdmin(ws, x) PROVE DidInv'
  <2>1. /\ didAdmin' = x
        /\ UNCHANGED <<verifier, bindings, masterNullifiers, actionNullifiers, didLog, bindTickets, actionTickets>>
    BY <1>3 DEF SetDidAdmin, didStore, tickets
  <2>2. TypesInv'
    BY <2>1 DEF DidInv, TypesInv, DidTypeOK, ActionTicketsOK
  <2> QED
    BY <2>1, <2>2, Silent
<1>4. ASSUME NEW ws, NEW key \in DidKeys, SetVerifier(ws, key) PROVE DidInv'
  <2>1. /\ verifier' = key
        /\ UNCHANGED <<didAdmin, bindings, masterNullifiers, actionNullifiers, didLog, bindTickets, actionTickets>>
    BY <1>4 DEF SetVerifier, didStore, tickets
  <2>2. TypesInv'
    BY <2>1 DEF DidInv, TypesInv, DidTypeOK, ActionTicketsOK
  <2> QED
    BY <2>1, <2>2, Silent
<1>5. CASE UNCHANGED didVars
  <2>1. UNCHANGED <<didAdmin, verifier, bindings, masterNullifiers, actionNullifiers, didLog, bindTickets, actionTickets>>
    BY <1>5 DEF didVars, didStore, tickets
  <2>2. TypesInv'
    BY <2>1 DEF DidInv, TypesInv, DidTypeOK, ActionTicketsOK
  <2> QED
    BY <2>1, <2>2, Silent
<1> QED
  BY <1>1, <1>2, <1>3, <1>4, <1>5, RegisterInv, RevokeInv, UseInv DEF DidNext

LEMMA DidInvariant == DidSpec => []DidInv
BY DidInitInv, DidStepInv, PTL DEF DidSpec

\* The storage of NeoDIDRegistry keeps its types under every call.
THEOREM DidTypes == DidSpec => []DidTypeOK
<1>1. DidInv => DidTypeOK
  BY DEF DidInv, TypesInv
<1> QED
  BY <1>1, DidInvariant, PTL

\* RegisterBinding accepts a binding of an identity once, for ever: a revoked
\* binding, another vault or another claim type does not buy a second one.
THEOREM OneBinding == DidSpec => []OneBindingPerIdentity
<1>1. DidInv => OneBindingPerIdentity
  BY DEF DidInv, LogInv, OneBindingPerIdentity, Registered
<1> QED
  BY <1>1, DidInvariant, PTL

\* UseActionTicket accepts one use of an action by an identity, whatever
\* disposable accounts the worker signed tickets for.
THEOREM OneUse == DidSpec => []OneUsePerAction
<1>1. DidInv => OneUsePerAction
  <2> SUFFICES ASSUME DidInv, NEW i \in 1 .. Len(didLog), NEW j \in 1 .. Len(didLog),
                      didLog[i].kind = "used", didLog[j].kind = "used",
                      didLog[i].about.action = didLog[j].about.action,
                      didLog[i].nullifier.uid = didLog[j].nullifier.uid,
                      didLog[i].nullifier.provider = didLog[j].nullifier.provider
               PROVE  i = j
    BY DEF OneUsePerAction
  <2>1. didLog[i] \in UseEvents /\ didLog[j] \in UseEvents
    BY DEF DidInv, TypesInv, BindingEvents, UseEvents
  <2>2. didLog[i].nullifier \in ActionNullifiers /\ didLog[j].nullifier \in ActionNullifiers
    BY <2>1 DEF UseEvents
  <2>3. didLog[i].nullifier.action = didLog[j].nullifier.action
    BY DEF DidInv, LogInv
  <2>4. didLog[i].nullifier = didLog[j].nullifier
    BY <2>2, <2>3 DEF ActionNullifiers
  <2> QED
    BY <2>4 DEF DidInv, LogInv
<1> QED
  BY <1>1, DidInvariant, PTL

\* A step of the registry accepts nothing but what AcceptedUnderVerifier allows.
LEMMA SignedStep ==
  ASSUME DidInv, [DidNext]_didVars
  PROVE  /\ \A k \in BindingKeys : bindings'[k].active /\ ~bindings[k].active =>
              \E t \in bindTickets :
                 /\ t.binding = k /\ t.nullifier = bindings'[k].nullifier
                 /\ t.network = HomeNetwork /\ t.key = verifier
         /\ \A n \in actionNullifiers' \ actionNullifiers :
              \E t \in actionTickets :
                 t.nullifier = n /\ t.network = HomeNetwork /\ t.key = verifier
<1>f. bindings \in [BindingKeys -> [nullifier : Nullifiers \cup {Unset}, active : BOOLEAN]]
  BY DEF DidInv, TypesInv, DidTypeOK
<1>1. CASE UNCHANGED <<bindings, actionNullifiers>>
  BY <1>1
<1>2. ASSUME NEW ws, NEW t \in bindTickets, RegisterBinding(ws, t)
      PROVE  /\ \A k \in BindingKeys : bindings'[k].active /\ ~bindings[k].active =>
                  /\ t.binding = k /\ t.nullifier = bindings'[k].nullifier
                  /\ t.network = HomeNetwork /\ t.key = verifier
             /\ UNCHANGED actionNullifiers
  BY <1>2, <1>f DEF RegisterBinding, VerifySignature
<1>3. ASSUME NEW ws, NEW j \in BindingKeys, RevokeBinding(ws, j)
      PROVE  /\ \A k \in BindingKeys : bindings'[k].active => bindings[k].active
             /\ UNCHANGED actionNullifiers
  BY <1>3, <1>f DEF RevokeBinding, Revoked
<1>4. ASSUME NEW ws, NEW t \in actionTickets, UseActionTicket(ws, t)
      PROVE  /\ UNCHANGED bindings
             /\ \A n \in actionNullifiers' \ actionNullifiers :
                  t.nullifier = n /\ t.network = HomeNetwork /\ t.key = verifier
  BY <1>4 DEF UseActionTicket, VerifySignature
<1>5. ASSUME NEW id \in Identities, NEW x \in DidAccounts, NEW net \in Networks, NEW key \in DidKeys,
             \/ \E c \in ClaimTypes : HandleBind(id, x, c, net, key)
             \/ \E a \in Actions : HandleActionTicket(id, x, a, net, key)
      PROVE  UNCHANGED <<bindings, actionNullifiers>>
  BY <1>5 DEF HandleBind, HandleActionTicket, didStore
<1>6. ASSUME NEW ws, \/ \E x \in DidAccounts : SetDidAdmin(ws, x)
                    \/ \E key \in DidKeys : SetVerifier(ws, key)
      PROVE  UNCHANGED <<bindings, actionNullifiers>>
  BY <1>6 DEF SetDidAdmin, SetVerifier, didStore
<1>7. UNCHANGED didVars => UNCHANGED <<bindings, actionNullifiers>>
  BY DEF didVars, didStore
<1> QED
  BY <1>1, <1>2, <1>3, <1>4, <1>5, <1>6, <1>7 DEF DidNext

\* Whatever RegisterBinding and UseActionTicket accept, the worker signed it
\* for this network, for exactly that binding or action, and under the key
\* that is the verifier at that moment, through every rotation.
THEOREM OnlySigned == DidSpec => AcceptedUnderVerifier
<1>1. DidInv /\ [DidNext]_didVars =>
        [/\ \A k \in BindingKeys : bindings'[k].active /\ ~bindings[k].active =>
               \E t \in bindTickets :
                  /\ t.binding = k /\ t.nullifier = bindings'[k].nullifier
                  /\ t.network = HomeNetwork /\ t.key = verifier
         /\ \A n \in actionNullifiers' \ actionNullifiers :
               \E t \in actionTickets :
                  t.nullifier = n /\ t.network = HomeNetwork /\ t.key = verifier]_didVars
  BY SignedStep
<1> QED
  BY <1>1, DidInvariant, PTL DEF DidSpec, AcceptedUnderVerifier

\* The events of the contract determine its stored bindings.
THEOREM EventsTold == DidSpec => []EventsTellBindings
<1>1. DidInv => EventsTellBindings
  BY DEF DidInv
<1> QED
  BY <1>1, DidInvariant, PTL

-----------------------------------------------------------------------------
(* The price publisher.  The parts of the invariant are stated over a      *)
(* record map f and a number n of resets.                                  *)

PubRecords == [round : Nat \ {0}, price : Nat, time : Nat, note : Bases]

PubUpdates ==
  [pair : Pairs, round : Nat \ {0}, price : Nat, time : Nat, note : Bases,
   signer : FeedKeys \cup {Null}]

PubStores == [Pairs -> PubRecords \cup {Null}]

LocalRecords ==
  [round : Nat, price : Int, time : Nat, from : {"none", "chain", "local"}, dated : BOOLEAN]

PubTicks ==
  [pc : {"fetch", "decide", "submit", "save"}, chain : PubStores, next : Nat \ {0}, seen : Nat,
   updates : Seq(PubUpdates)]

\* The pair's record of round r had price q: the record is that one or a later.
Was(f, p, r, q) == f[p] # Null /\ (f[p].round > r \/ (f[p].round = r /\ f[p].price = q))

GoodLocal(f, n, p, v) ==
  /\ v \in LocalRecords
  /\ v.from # "none" => v.price \in Nat
  /\ v.from = "chain" => v.round # 0 /\ (n = 0 => Was(f, p, v.round, v.price))

\* An update decided against an on-chain record is for the round after it.
GoodUpdate(f, n, u) ==
  /\ u \in PubUpdates
  /\ u.note.from = "chain" =>
       /\ u.round = u.note.round + 1
       /\ n = 0 => Was(f, u.pair, u.note.round, u.note.price)

GoodUpdates(f, n, us) ==
  us \in Seq(PubUpdates) /\ \A i \in 1 .. Len(us) : GoodUpdate(f, n, us[i])

\* A tick's baseline holds records that were on chain.
GoodBaseline(f, n, c) ==
  n = 0 => \A p \in Pairs : c[p] # Null => Was(f, p, c[p].round, c[p].price)

GoodTick(f, n, s, r) ==
  /\ r \in PubTicks /\ GoodBaseline(f, n, r.chain) /\ GoodUpdates(f, n, r.updates)
  /\ r.pc \in {"fetch", "decide"} => r.next \in 1 .. Len(s)

\* A record that may come after f[p].
Replaces(f, n, p, r) ==
  /\ r \in PubRecords
  /\ f[p] # Null => r.round > f[p].round
  /\ n = 0 /\ r.note.from = "chain" =>
       f[p] # Null /\ f[p].round = r.note.round /\ f[p].price = r.note.price

\* A running batch has replaced some of the records, and what is left of it
\* was decided against the records as they are without it.
GoodBatch(f, n, b) ==
  /\ b.feed \in PubStores
  /\ \A p \in Pairs : b.feed[p] = f[p] \/ Replaces(f, n, p, b.feed[p])
  /\ GoodUpdates(f, n, b.left)

PubInv ==
  /\ deploy \in Deployments /\ resets \in Nat /\ quote \in [Pairs -> Nat] /\ feed \in PubStores
  /\ local = [p \in Pairs |-> local[p]] /\ stateFile = [p \in Pairs |-> stateFile[p]]
  /\ \A p \in Pairs : local[p] # Null => GoodLocal(feed, resets, p, local[p])
  /\ \A p \in Pairs : stateFile[p] # Null => GoodLocal(feed, resets, p, stateFile[p])
  /\ tick = [t \in Ticks |-> tick[t]]
  /\ \A t \in Ticks : tick[t] # Null => GoodTick(feed, resets, deploy.symbols, tick[t])
  /\ \A us \in txs : us # <<>> /\ GoodUpdates(feed, resets, us)
  /\ batch # Null => GoodBatch(feed, resets, batch)

\* Unless the admin resets a record, rounds only go up.
Rises(f, g) ==
  \A p \in Pairs : f[p] # Null => g[p] # Null /\ (g[p] = f[p] \/ g[p].round > f[p].round)

LEMMA WasKept ==
  ASSUME NEW f \in PubStores, NEW g \in PubStores, Rises(f, g), NEW p \in Pairs,
         NEW r \in Nat, NEW q, Was(f, p, r, q)
  PROVE  Was(g, p, r, q)
<1>1. f[p] \in PubRecords /\ g[p] \in PubRecords
  BY DEF Was, Rises, PubStores
<1>2. f[p].round \in Nat /\ g[p].round \in Nat
  BY <1>1 DEF PubRecords
<1> QED
  BY <1>2 DEF Was, Rises

LEMMA UpdatesKept ==
  ASSUME NEW f \in PubStores, NEW g \in PubStores, NEW n, NEW m,
         m = 0 => n = 0 /\ Rises(f, g), NEW us, GoodUpdates(f, n, us)
  PROVE  GoodUpdates(g, m, us)
<1> SUFFICES ASSUME NEW i \in 1 .. Len(us) PROVE GoodUpdate(g, m, us[i])
  BY DEF GoodUpdates
<1> DEFINE u == us[i]
<1>1. GoodUpdate(f, n, u)
  BY DEF GoodUpdates
<1>2. u \in PubUpdates /\ u.pair \in Pairs /\ u.note.round \in Nat
  BY <1>1 DEF GoodUpdate, PubUpdates, Bases
<1> HIDE DEF u
<1>3. ASSUME u.note.from = "chain", m = 0 PROVE Was(g, u.pair, u.note.round, u.note.price)
  BY <1>1, <1>2, <1>3, WasKept DEF GoodUpdate
<1>4. GoodUpdate(g, m, u)
  BY <1>1, <1>2, <1>3 DEF GoodUpdate
<1> QED
  BY <1>4 DEF u

LEMMA LocalKept ==
  ASSUME NEW f \in PubStores, NEW g \in PubStores, NEW n, NEW m,
         m = 0 => n = 0 /\ Rises(f, g), NEW p \in Pairs, NEW v, GoodLocal(f, n, p, v)
  PROVE  GoodLocal(g, m, p, v)
<1>1. v \in LocalRecords /\ v.round \in Nat
  BY DEF GoodLocal, LocalRecords
<1>2. ASSUME v.from = "chain", m = 0 PROVE Was(g, p, v.round, v.price)
  BY <1>1, <1>2, WasKept DEF GoodLocal
<1> QED
  BY <1>1, <1>2 DEF GoodLocal

LEMMA BaselineKept ==
  ASSUME NEW f \in PubStores, NEW g \in PubStores, NEW n, NEW m,
         m = 0 => n = 0 /\ Rises(f, g), NEW c \in PubStores, GoodBaseline(f, n, c)
  PROVE  GoodBaseline(g, m, c)
<1> SUFFICES ASSUME m = 0, NEW p \in Pairs, c[p] # Null
             PROVE  Was(g, p, c[p].round, c[p].price)
  BY DEF GoodBaseline
<1>1. c[p] \in PubRecords
  BY DEF PubStores
<1>2. c[p].round \in Nat
  BY <1>1 DEF PubRecords
<1> QED
  BY <1>2, WasKept DEF GoodBaseline

LEMMA TickKept ==
  ASSUME NEW f \in PubStores, NEW g \in PubStores, NEW n, NEW m,
         m = 0 => n = 0 /\ Rises(f, g), NEW s, NEW r, GoodTick(f, n, s, r)
  PROVE  GoodTick(g, m, s, r)
<1>1. r \in PubTicks /\ r.chain \in PubStores
  BY DEF GoodTick, PubTicks
<1>2. GoodBaseline(g, m, r.chain)
  BY <1>1, BaselineKept DEF GoodTick
<1>3. GoodUpdates(g, m, r.updates)
  BY UpdatesKept DEF GoodTick
<1> QED
  BY <1>1, <1>2, <1>3 DEF GoodTick

\* A step of the publisher: every record in memory and on file, tick and
\* transaction is one that was there or a good new one.
Recalled(new) ==
  /\ new = [p \in Pairs |-> new[p]]
  /\ \A p \in Pairs : \/ new[p] \in {local[p], stateFile[p], Null}
                      \/ GoodLocal(feed', resets', p, new[p])

LocalsMove == Recalled(local') /\ Recalled(stateFile')

TicksMove ==
  /\ tick' = [t \in Ticks |-> tick'[t]]
  /\ \A t \in Ticks : tick'[t] \in {tick[t], Null}
                      \/ GoodTick(feed', resets', deploy'.symbols, tick'[t])

TxsMove ==
  \A us \in txs' : us \in txs \/ (us # <<>> /\ GoodUpdates(feed', resets', us))

LEMMA PubStepKeeps ==
  ASSUME PubInv, deploy' = deploy, resets' \in Nat, resets <= resets',
         quote' \in [Pairs -> Nat], feed' \in PubStores, resets' = 0 => Rises(feed, feed'),
         LocalsMove, TicksMove, TxsMove, batch' # Null => GoodBatch(feed', resets', batch')
  PROVE  PubInv'
<1>1. feed \in PubStores /\ resets \in Nat /\ deploy \in Deployments
  BY DEF PubInv
<1>2. resets' = 0 => resets = 0 /\ Rises(feed, feed')
  BY <1>1
<1>3. ASSUME NEW p \in Pairs
      PROVE  /\ local'[p] # Null => GoodLocal(feed', resets', p, local'[p])
             /\ stateFile'[p] # Null => GoodLocal(feed', resets', p, stateFile'[p])
  <2>1. local[p] # Null => GoodLocal(feed', resets', p, local[p])
    BY <1>1, <1>2, LocalKept DEF PubInv
  <2>2. stateFile[p] # Null => GoodLocal(feed', resets', p, stateFile[p])
    BY <1>1, <1>2, LocalKept DEF PubInv
  <2> QED
    BY <2>1, <2>2 DEF LocalsMove, Recalled
<1>4. ASSUME NEW t \in Ticks, tick'[t] # Null
      PROVE  GoodTick(feed', resets', deploy'.symbols, tick'[t])
  <2>1. tick[t] # Null => GoodTick(feed', resets', deploy'.symbols, tick[t])
    BY <1>1, <1>2, TickKept DEF PubInv
  <2> QED
    BY <1>4, <2>1 DEF TicksMove
<1>5. ASSUME NEW us \in txs' PROVE us # <<>> /\ GoodUpdates(feed', resets', us)
  <2>1. us \in txs => us # <<>> /\ GoodUpdates(feed', resets', us)
    BY <1>1, <1>2, UpdatesKept DEF PubInv
  <2> QED
    BY <1>5, <2>1 DEF TxsMove
<1>6. /\ local' = [p \in Pairs |-> local'[p]] /\ stateFile' = [p \in Pairs |-> stateFile'[p]]
      /\ tick' = [t \in Ticks |-> tick'[t]]
  BY DEF LocalsMove, Recalled, TicksMove
<1> QED
  BY <1>1, <1>3, <1>4, <1>5, <1>6 DEF PubInv

\* The record an update writes.
Written(u) == [round |-> u.round, price |-> u.price, time |-> u.time, note |-> u.note]

LEMMA WrittenIs ==
  ASSUME NEW u \in PubUpdates
  PROVE  /\ Written(u) \in PubRecords /\ Written(u) # Null
         /\ Written(u).round = u.round /\ Written(u).note = u.note
<1>1. Written(u) \in PubRecords /\ Written(u).round = u.round /\ Written(u).note = u.note
  BY DEF PubUpdates, PubRecords, Written
<1>2. Written(u) \in [round : Nat, price : Nat, time : Nat, note : Bases]
  BY <1>1 DEF PubRecords
<1> QED
  BY <1>1, <1>2, PublicationConstants

LEMMA WriteIs ==
  ASSUME NEW f \in PubStores, NEW u \in PubUpdates
  PROVE  /\ WriteFeedRecord(f, u) \in PubStores
         /\ \A p \in Pairs : WriteFeedRecord(f, u)[p] = IF p = u.pair THEN Written(u) ELSE f[p]
<1>1. u.pair \in Pairs /\ Written(u) \in PubRecords
  BY WrittenIs DEF PubUpdates
<1>2. WriteFeedRecord(f, u) = [f EXCEPT ![u.pair] = Written(u)]
  BY DEF WriteFeedRecord, Written
<1> QED
  BY <1>1, <1>2 DEF PubStores

\* The compare-and-swap.  g is f with some records replaced.  An update that
\* the contract accepts on g and that was decided against an on-chain record
\* finds that record, in f and still in g.
LEMMA SwapReplaces ==
  ASSUME NEW f \in PubStores, NEW g \in PubStores, NEW n, NEW u, GoodUpdate(f, n, u),
         g[u.pair] = f[u.pair] \/ Replaces(f, n, u.pair, g[u.pair]), NotStale(g, u)
  PROVE  Replaces(f, n, u.pair, Written(u))
<1> DEFINE p == u.pair
<1>1. u \in PubUpdates /\ p \in Pairs /\ u.round \in Nat
  BY DEF GoodUpdate, PubUpdates
<1>2. /\ Written(u) \in PubRecords /\ Written(u).round = u.round /\ Written(u).note = u.note
  BY <1>1, WrittenIs
<1>3. f[p] # Null => f[p].round \in Nat
  <2>1. f[p] # Null => f[p] \in PubRecords
    BY <1>1 DEF PubStores
  <2> QED
    BY <2>1 DEF PubRecords
<1>4. g[p] = f[p] \/ (g[p] # Null /\ g[p].round \in Nat /\ (f[p] # Null => g[p].round > f[p].round))
  <2>1. ASSUME Replaces(f, n, p, g[p])
        PROVE  g[p] # Null /\ g[p].round \in Nat /\ (f[p] # Null => g[p].round > f[p].round)
    <3>1. g[p] \in PubRecords
      BY <2>1 DEF Replaces
    <3>2. g[p] \in [round : Nat, price : Nat, time : Nat, note : Bases] /\ g[p].round \in Nat
      BY <3>1 DEF PubRecords
    <3> QED
      BY <2>1, <3>2, PublicationConstants DEF Replaces
  <2> QED
    BY <2>1
<1>5. f[p] # Null => u.round > f[p].round
  BY <1>1, <1>3, <1>4 DEF NotStale
<1>6. ASSUME n = 0, u.note.from = "chain"
      PROVE  f[p] # Null /\ f[p].round = u.note.round /\ f[p].price = u.note.price
  <2>1. u.round = u.note.round + 1 /\ Was(f, p, u.note.round, u.note.price) /\ u.note.round \in Nat
    BY <1>1, <1>6 DEF GoodUpdate, PubUpdates, Bases
  <2> QED
    BY <1>3, <1>5, <2>1 DEF Was
<1> QED
  BY <1>2, <1>5, <1>6 DEF Replaces

\* A step that does not touch the contract.
LEMMA QuietStep ==
  ASSUME PubInv, UNCHANGED <<feedVars, resets, deploy>>, quote' \in [Pairs -> Nat],
         LocalsMove, TicksMove, TxsMove
  PROVE  PubInv'
<1>1. UNCHANGED <<feed, batch>> /\ resets' \in Nat /\ resets <= resets' /\ feed' \in PubStores
  BY DEF feedVars, feedStore, PubInv
<1>2. Rises(feed, feed')
  BY <1>1 DEF Rises
<1>3. batch' # Null => GoodBatch(feed', resets', batch')
  BY <1>1 DEF PubInv
<1> QED
  BY <1>1, <1>2, <1>3, PubStepKeeps

LEMMA LocalsStill == PubInv /\ UNCHANGED <<local, stateFile>> => LocalsMove
BY DEF PubInv, LocalsMove, Recalled

LEMMA TicksStill == PubInv /\ UNCHANGED tick => TicksMove
BY DEF PubInv, TicksMove

LEMMA TxsStill == txs' \subseteq txs => TxsMove
BY DEF TxsMove

LEMMA TickSet ==
  ASSUME PubInv, NEW t \in Ticks, NEW r, tick' = [tick EXCEPT ![t] = r],
         r = Null \/ GoodTick(feed', resets', deploy'.symbols, r)
  PROVE  TicksMove
<1>1. tick = [x \in Ticks |-> tick[x]]
  BY DEF PubInv
<1>2. tick' = [x \in Ticks |-> tick'[x]] /\ tick'[t] = r /\ \A x \in Ticks : x # t => tick'[x] = tick[x]
  BY <1>1
<1> QED
  BY <1>2 DEF TicksMove

LEMMA LocalSet ==
  ASSUME PubInv, NEW p \in Pairs, NEW v, local' = [local EXCEPT ![p] = v],
         UNCHANGED stateFile, v = Null \/ GoodLocal(feed', resets', p, v)
  PROVE  LocalsMove
<1>1. local = [x \in Pairs |-> local[x]]
  BY DEF PubInv
<1>2. /\ local' = [x \in Pairs |-> local'[x]] /\ local'[p] = v
      /\ \A x \in Pairs : x # p => local'[x] = local[x]
  BY <1>1
<1> QED
  BY <1>2 DEF LocalsMove, Recalled, PubInv

LEMMA TickAtHand ==
  ASSUME PubInv, NEW t \in Ticks, tick[t] # Null
  PROVE  /\ GoodTick(feed, resets, deploy.symbols, tick[t])
         /\ tick[t].pc \in {"fetch", "decide"} => Pair(t) \in Pairs
<1>1. GoodTick(feed, resets, deploy.symbols, tick[t]) /\ deploy \in Deployments
  BY DEF PubInv
<1>2. deploy.symbols \in Seq(Pairs)
  BY <1>1, PublicationConstants
<1> QED
  BY <1>1, <1>2 DEF GoodTick, Pair

\* The record a tick goes by is a local one or its baseline.
LEMMA PreviousGood ==
  ASSUME PubInv, NEW t \in Ticks, tick[t] # Null, NEW p \in Pairs, Previous(t, p) # Null
  PROVE  GoodLocal(feed, resets, p, Previous(t, p))
<1> DEFINE c == tick[t].chain[p]
           v == [round |-> c.round, price |-> c.price, time |-> c.time, from |-> "chain",
                 dated |-> Dated(local[p])]
<1>1. CASE c = Null
  BY <1>1 DEF Previous, PubInv
<1>2. CASE c # Null
  <2>1. GoodTick(feed, resets, deploy.symbols, tick[t])
    BY TickAtHand
  <2>2. tick[t].chain \in PubStores /\ GoodBaseline(feed, resets, tick[t].chain)
    BY <2>1 DEF GoodTick, PubTicks
  <2>3. c \in PubRecords
    BY <1>2, <2>2 DEF PubStores
  <2>4. c.round \in Nat \ {0} /\ c.price \in Nat /\ c.time \in Nat
    BY <2>3 DEF PubRecords
  <2>5. resets = 0 => Was(feed, p, c.round, c.price)
    BY <1>2, <2>2 DEF GoodBaseline
  <2>6. v \in LocalRecords /\ v.round = c.round /\ v.price = c.price /\ v.from = "chain"
    <3>1. Dated(local[p]) \in BOOLEAN
      BY DEF Dated, PubInv, GoodLocal, LocalRecords
    <3> QED
      BY <2>4, <3>1 DEF LocalRecords
  <2>7. Previous(t, p) = v
    BY <1>2 DEF Previous
  <2> HIDE DEF v, c
  <2>8. GoodLocal(feed, resets, p, v)
    BY <2>4, <2>5, <2>6 DEF GoodLocal
  <2> QED
    BY <2>7, <2>8
<1> QED
  BY <1>1, <1>2

LEMMA AdvancedGood ==
  ASSUME NEW f, NEW n, NEW r, GoodTick(f, n, deploy.symbols, r), r.pc \in {"fetch", "decide"},
         deploy.symbols \in Seq(Pairs)
  PROVE  GoodTick(f, n, deploy.symbols, Advanced(r))
<1> DEFINE pc == IF r.next = Len(deploy.symbols) THEN "submit" ELSE "fetch"
           v == [r EXCEPT !.next = r.next + 1, !.seen = 0, !.pc = pc]
<1>1. r \in PubTicks /\ r.next \in 1 .. Len(deploy.symbols) /\ Len(deploy.symbols) \in Nat
  BY DEF GoodTick
<1>2. r.next + 1 \in Nat \ {0} /\ (pc = "fetch" => r.next + 1 \in 1 .. Len(deploy.symbols))
  BY <1>1
<1>3. pc \in {"fetch", "submit"}
  OBVIOUS
<1>4. Advanced(r) = v
  BY DEF Advanced
<1> HIDE DEF pc
<1>5. v \in PubTicks /\ v.chain = r.chain /\ v.updates = r.updates /\ v.next = r.next + 1 /\ v.pc = pc
  BY <1>1, <1>2, <1>3 DEF PubTicks
<1> HIDE DEF v
<1>6. GoodTick(f, n, deploy.symbols, v)
  BY <1>2, <1>3, <1>5 DEF GoodTick
<1> QED
  BY <1>4, <1>6

LEMMA SymbolsTyped == PubInv => deploy.symbols \in Seq(Pairs) /\ deploy.symbols # <<>>
BY PublicationConstants DEF PubInv

\* A new tick, with a baseline that is the chain's or none.
LEMMA NewTickGood ==
  ASSUME PubInv, NEW c \in {feed, [p \in Pairs |-> Null]}
  PROVE  GoodTick(feed, resets, deploy.symbols,
                  [pc |-> "fetch", chain |-> c, next |-> 1, seen |-> 0, updates |-> <<>>])
<1> DEFINE r == [pc |-> "fetch", chain |-> c, next |-> 1, seen |-> 0, updates |-> <<>>]
<1>1. c \in PubStores
  BY DEF PubInv, PubStores
<1>2. GoodBaseline(feed, resets, c)
  <2>1. CASE c = feed
    <3>1. \A p \in Pairs : feed[p] # Null => Was(feed, p, feed[p].round, feed[p].price)
      BY DEF Was
    <3> QED
      BY <2>1, <3>1 DEF GoodBaseline
  <2>2. CASE c = [p \in Pairs |-> Null]
    BY <2>2 DEF GoodBaseline
  <2> QED
    BY <2>1, <2>2
<1>3. r \in PubTicks /\ r.chain = c /\ r.updates = <<>> /\ r.next = 1
  BY <1>1 DEF PubTicks
<1>4. 1 \in 1 .. Len(deploy.symbols)
  BY SymbolsTyped
<1>5. GoodUpdates(feed, resets, <<>>)
  BY DEF GoodUpdates
<1> HIDE DEF r
<1>6. GoodTick(feed, resets, deploy.symbols, r)
  BY <1>2, <1>3, <1>4, <1>5 DEF GoodTick
<1> QED
  BY <1>6 DEF r

LEMMA StartKeeps ==
  ASSUME PubInv, NEW t \in Ticks, (\E refresh \in BOOLEAN : Start(t, refresh)) \/ StartBlind(t),
         UNCHANGED deploy
  PROVE  PubInv'
<1>1. PICK c \in {feed, [p \in Pairs |-> Null]} :
        tick' = [tick EXCEPT ![t] =
                   [pc |-> "fetch", chain |-> c, next |-> 1, seen |-> 0, updates |-> <<>>]]
  BY DEF Start, StartBlind
<1>2. UNCHANGED <<feedVars, quote, local, stateFile, txs, resets>> /\ UNCHANGED feed
  BY DEF Start, StartBlind, feedVars, feedStore
<1>3. TicksMove
  BY <1>1, <1>2, NewTickGood, TickSet
<1> QED
  BY <1>2, <1>3, QuietStep, LocalsStill, TxsStill DEF PubInv

LEMMA FetchKeeps ==
  ASSUME PubInv, NEW t \in Ticks, FetchQuote(t) \/ FetchNothing(t), UNCHANGED deploy
  PROVE  PubInv'
<1> DEFINE r == tick[t]
           v == [r EXCEPT !.pc = "decide", !.seen = quote[Pair(t)]]
<1>1. /\ tick[t] # Null /\ r.pc = "fetch" /\ UNCHANGED <<feedVars, quote, local, stateFile, txs, resets>>
      /\ UNCHANGED feed
  BY DEF FetchQuote, FetchNothing, feedVars, feedStore
<1>2. GoodTick(feed, resets, deploy.symbols, r) /\ Pair(t) \in Pairs
  BY <1>1, TickAtHand
<1>3. tick = [x \in Ticks |-> tick[x]]
  BY DEF PubInv
<1>4. CASE FetchQuote(t)
  <2>1. tick' = [tick EXCEPT ![t] = v]
    BY <1>3, <1>4 DEF FetchQuote
  <2>2. quote[Pair(t)] \in Nat
    BY <1>2 DEF PubInv
  <2>3. v \in PubTicks /\ v.chain = r.chain /\ v.updates = r.updates /\ v.next = r.next
    BY <1>2, <2>2 DEF GoodTick, PubTicks
  <2> HIDE DEF v
  <2>4. GoodTick(feed', resets', deploy'.symbols, v)
    BY <1>1, <1>2, <2>3 DEF GoodTick
  <2>5. TicksMove
    BY <2>1, <2>4, TickSet
  <2> QED
    BY <1>1, <2>5, QuietStep, LocalsStill, TxsStill DEF PubInv
<1>5. CASE FetchNothing(t)
  <2>1. tick' = [tick EXCEPT ![t] = Advanced(r)]
    BY <1>5 DEF FetchNothing
  <2>2. GoodTick(feed', resets', deploy'.symbols, Advanced(r))
    BY <1>1, <1>2, AdvancedGood, SymbolsTyped
  <2>3. TicksMove
    BY <2>1, <2>2, TickSet
  <2> QED
    BY <1>1, <2>3, QuietStep, LocalsStill, TxsStill DEF PubInv
<1> QED
  BY <1>4, <1>5

LEMMA SkipKeeps ==
  ASSUME PubInv, NEW t \in Ticks, Skip(t) \/ RejectStamp(t), UNCHANGED deploy
  PROVE  PubInv'
<1> DEFINE r == tick[t]
           prev == Previous(t, Pair(t))
<1>1. /\ tick[t] # Null /\ r.pc = "decide"
      /\ UNCHANGED <<feedVars, quote, stateFile, txs, resets>> /\ UNCHANGED feed
      /\ tick' = [tick EXCEPT ![t] = Advanced(r)]
      /\ \/ local' = [local EXCEPT ![Pair(t)] = prev]
         \/ local' = [local EXCEPT ![Pair(t)] = Observed]
  BY DEF Skip, RejectStamp, feedVars, feedStore
<1>2. GoodTick(feed, resets, deploy.symbols, r) /\ Pair(t) \in Pairs
  BY <1>1, TickAtHand
<1>3. prev = Null \/ GoodLocal(feed', resets', Pair(t), prev)
  BY <1>1, <1>2, PreviousGood
<1>4. GoodLocal(feed', resets', Pair(t), Observed)
  BY DEF GoodLocal, Observed, LocalRecords
<1> HIDE DEF prev
<1>5. LocalsMove
  BY <1>1, <1>2, <1>3, <1>4, LocalSet
<1>6. GoodTick(feed', resets', deploy'.symbols, Advanced(r))
  BY <1>1, <1>2, AdvancedGood, SymbolsTyped
<1>7. TicksMove
  BY <1>1, <1>6, TickSet
<1> QED
  BY <1>1, <1>5, <1>7, QuietStep, TxsStill DEF PubInv

\* The round and the note of an update come from the same record.
LEMMA NewUpdateGood ==
  ASSUME PubInv, NEW p \in Pairs, NEW prev, prev = Null \/ GoodLocal(feed, resets, p, prev),
         NEW round \in NextRounds(prev), NEW stamp \in deploy.stamps, NEW price \in Nat
  PROVE  GoodUpdate(feed, resets,
           [pair |-> p, round |-> round, price |-> price,
            time |-> ClampFeedTimestamp(prev, stamp), note |-> Basis(prev),
            signer |-> deploy.signer])
<1> DEFINE u == [pair |-> p, round |-> round, price |-> price,
                 time |-> ClampFeedTimestamp(prev, stamp), note |-> Basis(prev),
                 signer |-> deploy.signer]
<1>1. /\ stamp \in Nat /\ deploy.signer \in FeedKeys \cup {Null} /\ FirstRounds \subseteq Nat \ {0}
  BY PublicationConstants DEF PubInv
<1>2. prev # Null => /\ prev.round \in Nat /\ prev.time \in Nat
                     /\ prev.from \in {"none", "chain", "local"}
                     /\ prev.from # "none" => prev.price \in Nat
  BY DEF GoodLocal, LocalRecords
<1>3. round \in Nat \ {0}
  BY <1>1, <1>2 DEF NextRounds
<1>4. ClampFeedTimestamp(prev, stamp) \in Nat
  BY <1>1, <1>2 DEF ClampFeedTimestamp, Larger
<1>5. Basis(prev) \in Bases
  BY <1>2 DEF Basis, NoBasis, Bases
<1>6. ASSUME Basis(prev).from = "chain"
      PROVE  /\ prev # Null /\ prev.from = "chain" /\ Basis(prev).round = prev.round
             /\ Basis(prev).price = prev.price
  BY <1>6 DEF Basis, NoBasis
<1>7. ASSUME Basis(prev).from = "chain"
      PROVE  /\ round = Basis(prev).round + 1
             /\ resets = 0 => Was(feed, p, Basis(prev).round, Basis(prev).price)
  BY <1>6, <1>7 DEF GoodLocal, NextRounds
<1>8. u \in PubUpdates
  BY <1>1, <1>3, <1>4, <1>5 DEF PubUpdates
<1>9. u.pair = p /\ u.round = round /\ u.note = Basis(prev)
  OBVIOUS
<1> HIDE DEF u
<1>10. GoodUpdate(feed, resets, u)
  BY <1>7, <1>8, <1>9 DEF GoodUpdate
<1> QED
  BY <1>10 DEF u

LEMMA QueueKeeps ==
  ASSUME PubInv, NEW t \in Ticks, QueueUpdate(t), UNCHANGED deploy
  PROVE  PubInv'
<1> DEFINE r == tick[t]
           p == Pair(t)
           prev == Previous(t, p)
           u(round, stamp) == [pair |-> p, round |-> round, price |-> r.seen,
                               time |-> ClampFeedTimestamp(prev, stamp), note |-> Basis(prev),
                               signer |-> deploy.signer]
<1>1. /\ r # Null /\ r.pc = "decide" /\ UNCHANGED <<feedVars, quote, local, stateFile, txs, resets>>
      /\ UNCHANGED feed
  BY DEF QueueUpdate, feedVars, feedStore
<1>2. PICK round \in NextRounds(prev), stamp \in deploy.stamps :
        tick' = [tick EXCEPT ![t] =
                   Advanced([r EXCEPT !.updates = Append(r.updates, u(round, stamp))])]
  BY DEF QueueUpdate
<1>3. GoodTick(feed, resets, deploy.symbols, r) /\ p \in Pairs
  BY <1>1, TickAtHand
<1>4. prev = Null \/ GoodLocal(feed, resets, p, prev)
  BY <1>1, <1>3, PreviousGood
<1>5. r \in PubTicks /\ r.seen \in Nat /\ r.updates \in Seq(PubUpdates)
      /\ GoodUpdates(feed, resets, r.updates)
  BY <1>3 DEF GoodTick, PubTicks
<1> DEFINE new == u(round, stamp)
           us == Append(r.updates, new)
           v == [r EXCEPT !.updates = us]
<1>6. GoodUpdate(feed, resets, new)
  <2> HIDE DEF p, prev
  <2> QED
    BY <1>3, <1>4, <1>5, NewUpdateGood
<1> HIDE DEF new
<1>7. GoodUpdates(feed, resets, us)
  <2>1. new \in PubUpdates
    BY <1>6 DEF GoodUpdate
  <2>2. us \in Seq(PubUpdates) /\ Len(us) = Len(r.updates) + 1 /\ us[Len(us)] = new
        /\ \A i \in 1 .. Len(r.updates) : us[i] = r.updates[i]
    BY <1>5, <2>1
  <2>3. ASSUME NEW i \in 1 .. Len(us) PROVE GoodUpdate(feed, resets, us[i])
    <3>1. i \in 1 .. Len(r.updates) \/ i = Len(us)
      BY <1>5, <2>2
    <3> QED
      BY <1>5, <1>6, <2>2, <3>1 DEF GoodUpdates
  <2> QED
    BY <2>2, <2>3 DEF GoodUpdates
<1>8. us \in Seq(PubUpdates)
  BY <1>7 DEF GoodUpdates
<1> HIDE DEF us
<1>9. v \in PubTicks /\ v.chain = r.chain /\ v.updates = us /\ v.next = r.next /\ v.pc = r.pc
  BY <1>5, <1>8 DEF PubTicks
<1>10. tick' = [tick EXCEPT ![t] = Advanced(v)]
  BY <1>2 DEF us, new
<1> HIDE DEF v
<1>11. GoodTick(feed', resets', deploy'.symbols, Advanced(v))
  <2>1. GoodTick(feed, resets, deploy.symbols, v)
    BY <1>3, <1>7, <1>9 DEF GoodTick
  <2> QED
    BY <1>1, <1>9, <2>1, AdvancedGood, SymbolsTyped
<1>12. TicksMove
  BY <1>10, <1>11, TickSet
<1> QED
  BY <1>1, <1>12, QuietStep, LocalsStill, TxsStill DEF PubInv

LEMMA SubmitKeeps ==
  ASSUME PubInv, NEW t \in Ticks, Submit(t) \/ SubmitFails(t), UNCHANGED deploy
  PROVE  PubInv'
<1> DEFINE r == tick[t]
           us == r.updates
           v == [r EXCEPT !.pc = "save"]
<1>1. /\ r # Null /\ UNCHANGED <<feedVars, quote, local, stateFile, resets>> /\ UNCHANGED feed
      /\ txs' = txs \/ (us # <<>> /\ txs' = txs \cup {Sent(us)})
  BY DEF Submit, SubmitFails, feedVars, feedStore
<1>2. GoodTick(feed, resets, deploy.symbols, r)
  BY <1>1, TickAtHand
<1>3. tick = [x \in Ticks |-> tick[x]]
  BY DEF PubInv
<1>4. tick' = [tick EXCEPT ![t] = v] \/ tick' = [tick EXCEPT ![t] = Null]
  BY <1>3 DEF Submit, SubmitFails
<1>5. v \in PubTicks /\ v.chain = r.chain /\ v.updates = us /\ v.next = r.next /\ v.pc = "save"
  BY <1>2 DEF GoodTick, PubTicks
<1> HIDE DEF v
<1>6. GoodTick(feed', resets', deploy'.symbols, v)
  BY <1>1, <1>2, <1>5 DEF GoodTick
<1>7. TicksMove
  BY <1>4, <1>6, TickSet
<1>8. ASSUME us # <<>> PROVE Sent(us) # <<>> /\ GoodUpdates(feed', resets', Sent(us))
  <2>1. GoodUpdates(feed, resets, us) /\ us \in Seq(PubUpdates)
    BY <1>2 DEF GoodTick, GoodUpdates
  <2>2. CASE Sent(us) = us
    BY <1>1, <1>8, <2>1, <2>2
  <2>3. CASE Sent(us) = <<us[1]>>
    <3>1. 1 \in 1 .. Len(us) /\ us[1] \in PubUpdates
      BY <1>8, <2>1
    <3>2. GoodUpdate(feed, resets, us[1])
      BY <2>1, <3>1 DEF GoodUpdates
    <3>3. <<us[1]>> \in Seq(PubUpdates) /\ Len(<<us[1]>>) = 1 /\ <<us[1]>>[1] = us[1]
      BY <3>1
    <3> QED
      BY <1>1, <2>3, <3>2, <3>3 DEF GoodUpdates
  <2> QED
    BY <2>2, <2>3 DEF Sent
<1>9. TxsMove
  BY <1>1, <1>8 DEF TxsMove
<1> QED
  BY <1>1, <1>7, <1>9, QuietStep, LocalsStill DEF PubInv

LEMMA SaveKeeps ==
  ASSUME PubInv, NEW t \in Ticks, Save(t), UNCHANGED deploy
  PROVE  PubInv'
<1> DEFINE us == tick[t].updates
<1>1. /\ tick[t] # Null /\ UNCHANGED <<feedVars, quote, txs, resets>> /\ UNCHANGED feed
      /\ tick' = [tick EXCEPT ![t] = Null] /\ local' = Stored(us)
      /\ stateFile' \in {stateFile, Stored(us)}
  BY DEF Save, feedVars, feedStore
<1>2. us \in Seq(PubUpdates)
  BY <1>1, TickAtHand DEF GoodTick, PubTicks
<1>3. ASSUME NEW p \in Pairs
      PROVE  Stored(us)[p] = local[p] \/ GoodLocal(feed', resets', p, Stored(us)[p])
  <2>1. CASE \E i \in 1 .. Len(us) : us[i].pair = p
    <3> DEFINE k == CHOOSE i \in 1 .. Len(us) : us[i].pair = p
               v == [round |-> us[k].round, price |-> us[k].price, time |-> 0, from |-> "local",
                     dated |-> TRUE]
    <3>1. k \in 1 .. Len(us)
      BY <2>1
    <3>2. us[k] \in PubUpdates
      <4>1. \A i \in 1 .. Len(us) : us[i] \in PubUpdates
        BY <1>2
      <4> HIDE DEF k, us
      <4> QED
        BY <3>1, <4>1
    <3>3. us[k].round \in Nat /\ us[k].price \in Nat
      BY <3>2 DEF PubUpdates
    <3>4. Stored(us)[p] = v
      BY <2>1 DEF Stored
    <3> HIDE DEF k
    <3>5. v \in LocalRecords /\ v.from = "local" /\ v.price \in Nat
      BY <3>3 DEF LocalRecords
    <3> HIDE DEF v
    <3> QED
      BY <3>4, <3>5 DEF GoodLocal
  <2>2. CASE ~\E i \in 1 .. Len(us) : us[i].pair = p
    BY <2>2 DEF Stored
  <2> QED
    BY <2>1, <2>2
<1>4. Stored(us) = [p \in Pairs |-> Stored(us)[p]]
  BY DEF Stored
<1>5. LocalsMove
  BY <1>1, <1>3, <1>4 DEF LocalsMove, Recalled, PubInv
<1>6. TicksMove
  BY <1>1, TickSet
<1> QED
  BY <1>1, <1>5, <1>6, QuietStep, TxsStill DEF PubInv

\* Time, prices, restarts and transactions that expire.
LEMMA OutsideKeeps ==
  ASSUME PubInv, UNCHANGED deploy,
         \/ \E p \in Pairs : Elapse(p) \/ MovePrice(p)
         \/ Restart
         \/ \E us \in txs : Expire(us)
  PROVE  PubInv'
<1>1. ASSUME NEW p \in Pairs, Elapse(p) PROVE PubInv'
  BY <1>1, QuietStep, LocalsStill, TicksStill, TxsStill DEF Elapse, PubInv
<1>2. ASSUME NEW p \in Pairs, MovePrice(p) PROVE PubInv'
  <2>1. quote' \in [Pairs -> Nat] /\ UNCHANGED <<feedVars, local, stateFile, tick, txs, resets>>
    BY <1>2 DEF MovePrice, PubInv
  <2> QED
    BY <2>1, QuietStep, LocalsStill, TicksStill, TxsStill
<1>3. CASE Restart
  <2>1. /\ UNCHANGED <<feedVars, quote, stateFile, txs, resets>> /\ tick' = [t \in Ticks |-> Null]
        /\ local' \in {stateFile, [p \in Pairs |-> Adopted(p)], [p \in Pairs |-> Null]}
    BY <1>3 DEF Restart
  <2>2. ASSUME NEW p \in Pairs
        PROVE  Adopted(p) = stateFile[p] \/ GoodLocal(feed', resets', p, Adopted(p))
    <3>1. quote[p] \in Int
      BY DEF PubInv
    <3> QED
      BY <3>1 DEF Adopted, Observed, GoodLocal, LocalRecords
  <2>3. Recalled(local')
    <3> DEFINE adopted == [p \in Pairs |-> Adopted(p)]
    <3>1. CASE local' = stateFile
      BY <3>1 DEF Recalled, PubInv
    <3>2. CASE local' = adopted
      BY <2>2, <3>2 DEF Recalled
    <3>3. CASE local' = [p \in Pairs |-> Null]
      BY <3>3 DEF Recalled
    <3> QED
      BY <2>1, <3>1, <3>2, <3>3
  <2>4. LocalsMove /\ TicksMove
    BY <2>1, <2>3 DEF LocalsMove, Recalled, TicksMove, PubInv
  <2> QED
    BY <2>1, <2>4, QuietStep, TxsStill DEF PubInv
<1>4. ASSUME NEW us \in txs, Expire(us) PROVE PubInv'
  <2>1. UNCHANGED <<feedVars, quote, local, stateFile, tick, resets>> /\ txs' \subseteq txs
    BY <1>4 DEF Expire
  <2> QED
    BY <2>1, QuietStep, LocalsStill, TicksStill, TxsStill DEF PubInv
<1> QED
  BY <1>1, <1>2, <1>3, <1>4

\* The entry points without a signature keep what an update was decided on.
LEMMA UnsignedGood ==
  ASSUME NEW f, NEW n, NEW u, GoodUpdate(f, n, u)
  PROVE  GoodUpdate(f, n, Unsigned(u)) /\ Unsigned(u).pair = u.pair
<1> DEFINE v == Unsigned(u)
<1>1. u \in PubUpdates
  BY DEF GoodUpdate
<1>2. v \in PubUpdates /\ v.pair = u.pair /\ v.round = u.round /\ v.note = u.note
  BY <1>1 DEF PubUpdates, Unsigned
<1> HIDE DEF v
<1>3. GoodUpdate(f, n, v)
  BY <1>2 DEF GoodUpdate
<1> QED
  BY <1>2, <1>3 DEF v

\* A record map in which some records were replaced.
LEMMA ReplacedRises ==
  ASSUME NEW f \in PubStores, NEW g \in PubStores, NEW n,
         \A p \in Pairs : g[p] = f[p] \/ Replaces(f, n, p, g[p])
  PROVE  Rises(f, g)
<1> SUFFICES ASSUME NEW p \in Pairs, f[p] # Null
             PROVE  g[p] # Null /\ (g[p] = f[p] \/ g[p].round > f[p].round)
  BY DEF Rises
<1>1. CASE Replaces(f, n, p, g[p])
  <2>1. g[p] \in [round : Nat, price : Nat, time : Nat, note : Bases]
    BY <1>1 DEF Replaces, PubRecords
  <2> QED
    BY <1>1, <2>1, PublicationConstants DEF Replaces
<1> QED
  BY <1>1

\* One record is replaced, in f or in a copy g of it.
LEMMA WriteReplaces ==
  ASSUME NEW f \in PubStores, NEW g \in PubStores, NEW n, NEW u, GoodUpdate(f, n, u), NotStale(g, u),
         \A p \in Pairs : g[p] = f[p] \/ Replaces(f, n, p, g[p])
  PROVE  /\ WriteFeedRecord(g, u) \in PubStores
         /\ \A p \in Pairs : LET h == WriteFeedRecord(g, u)
                             IN  h[p] = f[p] \/ Replaces(f, n, p, h[p])
<1>1. u \in PubUpdates /\ u.pair \in Pairs
  BY DEF GoodUpdate, PubUpdates
<1>2. Replaces(f, n, u.pair, Written(u))
  BY <1>1, SwapReplaces
<1> QED
  BY <1>1, <1>2, WriteIs

\* The step replaces records that may be replaced.
Swaps == \A p \in Pairs : feed'[p] = feed[p] \/ Replaces(feed, resets, p, feed'[p])

LEMMA LandKeeps ==
  ASSUME PubInv, batch = Null, NEW us \in txs, Land(us), UNCHANGED deploy
  PROVE  PubInv' /\ Swaps
<1>1. /\ txs' \subseteq txs /\ UNCHANGED <<quote, local, stateFile, tick, resets>> /\ feed \in PubStores
  BY DEF Land, PubInv
<1>2. us # <<>> /\ GoodUpdates(feed, resets, us) /\ us \in Seq(PubUpdates)
  BY DEF PubInv, GoodUpdates
<1>3. LocalsMove /\ TicksMove /\ TxsMove /\ quote' \in [Pairs -> Nat] /\ resets' \in Nat
      /\ resets <= resets'
  BY <1>1, LocalsStill, TicksStill, TxsStill DEF PubInv
<1>4. CASE UNCHANGED feedVars
  <2>1. UNCHANGED feed
    BY <1>4 DEF feedVars, feedStore
  <2> QED
    BY <1>1, <1>3, <1>4, <2>1, QuietStep DEF Swaps
<1>5. CASE UpdateFeeds({Worker}, us)
  <2>1. /\ UNCHANGED feed /\ batch' = [left |-> us, feed |-> feed, index |-> pairIndex]
    BY <1>5 DEF UpdateFeeds, feedStore
  <2>2. batch'.left = us /\ batch'.feed = feed
    BY <2>1
  <2>3. GoodBatch(feed', resets', batch')
    BY <1>1, <1>2, <2>1, <2>2 DEF GoodBatch
  <2>4. Rises(feed, feed') /\ feed' \in PubStores
    BY <1>1, <2>1 DEF Rises
  <2> QED
    BY <1>3, <2>1, <2>3, <2>4, PubStepKeeps DEF Swaps
<1>6. CASE Accepted(feed, us[1]) /\ UpdateFeedSigned({Worker}, us[1])
  <2>1. feed' = WriteFeedRecord(feed, us[1]) /\ UNCHANGED batch /\ NotStale(feed, us[1])
    BY <1>6 DEF UpdateFeedSigned, UpdateFeedInternal, Accepted
  <2>2. GoodUpdate(feed, resets, us[1])
    <3>1. 1 \in 1 .. Len(us)
      BY <1>2
    <3> QED
      BY <1>2, <3>1 DEF GoodUpdates
  <2>3. feed' \in PubStores /\ Swaps
    BY <1>1, <2>1, <2>2, WriteReplaces DEF Swaps
  <2>4. Rises(feed, feed')
    BY <1>1, <2>3, ReplacedRises DEF Swaps
  <2> QED
    BY <1>3, <2>1, <2>3, <2>4, PubStepKeeps
<1> QED
  BY <1>4, <1>5, <1>6 DEF Land

\* A reset counts as one, and its record was decided against nothing.
LEMMA AdminKeeps ==
  ASSUME PubInv, batch = Null, AdminCall, UNCHANGED deploy
  PROVE  /\ PubInv'
         /\ \A p \in Pairs : feed'[p] = feed[p] \/ feed'[p].note.from = "none"
<1>1. UNCHANGED <<quote, local, stateFile, tick, txs>>
  BY DEF AdminCall, tickVars
<1>2. LocalsMove /\ TicksMove /\ TxsMove /\ quote' \in [Pairs -> Nat]
  BY <1>1, LocalsStill, TicksStill, TxsStill DEF PubInv
<1>3. feed \in PubStores /\ resets \in Nat
  BY DEF PubInv
<1>4. CASE UNCHANGED <<resets, feedStore, batch>>
  <2>1. UNCHANGED <<feed, batch, resets>>
    BY <1>4 DEF feedStore
  <2>2. Rises(feed, feed') /\ feed' \in PubStores /\ resets' \in Nat /\ resets <= resets'
    BY <1>3, <2>1 DEF Rises
  <2> QED
    BY <1>2, <2>1, <2>2, PubStepKeeps
<1>5. ASSUME NEW q \in Tracked, NEW round \in FirstRounds, resets' = resets + 1,
             AdminResetFeed({feedAdmin}, [pair |-> q, round |-> round, price |-> 0, time |-> 0,
                                          note |-> NoBasis, signer |-> Null])
      PROVE  /\ PubInv'
             /\ \A p \in Pairs : feed'[p] = feed[p] \/ feed'[p].note.from = "none"
  <2> DEFINE u == [pair |-> q, round |-> round, price |-> 0, time |-> 0,
                   note |-> NoBasis, signer |-> Null]
  <2>1. feed' = WriteFeedRecord(feed, u) /\ UNCHANGED batch
    BY <1>5 DEF AdminResetFeed
  <2>2. q \in Pairs
    BY SymbolsTyped DEF Tracked
  <2>3. u \in PubUpdates /\ u.note.from = "none"
    BY <2>2, PublicationConstants DEF PubUpdates, NoBasis, Bases
  <2> HIDE DEF u
  <2>4. feed' \in PubStores /\ \A p \in Pairs : feed'[p] = IF p = u.pair THEN Written(u) ELSE feed[p]
    BY <1>3, <2>1, <2>3, WriteIs
  <2>5. Written(u).note.from = "none"
    BY <2>3, WrittenIs
  <2>6. resets' \in Nat /\ resets <= resets' /\ resets' # 0
    BY <1>3, <1>5
  <2>7. PubInv'
    BY <1>2, <2>1, <2>4, <2>6, PubStepKeeps
  <2> QED
    BY <2>4, <2>5, <2>7
<1> QED
  BY <1>4, <1>5 DEF AdminCall, SetAdmin, SetUpdater, SetOracleVerificationKey,
     ClearOracleVerificationKey

LEMMA BatchKeeps ==
  ASSUME PubInv, BatchStep, UNCHANGED <<tickVars, deploy, resets>>
  PROVE  PubInv' /\ Swaps
<1>1. UNCHANGED <<quote, local, stateFile, tick, txs>>
  BY DEF tickVars
<1>2. LocalsMove /\ TicksMove /\ TxsMove /\ quote' \in [Pairs -> Nat] /\ resets' \in Nat
      /\ resets <= resets'
  BY <1>1, LocalsStill, TicksStill, TxsStill DEF PubInv
<1>3. batch # Null /\ feed \in PubStores
  BY DEF BatchStep, BatchWrite, BatchRevert, BatchCommit, PubInv
<1>4. /\ batch.feed \in PubStores
      /\ \A p \in Pairs : batch.feed[p] = feed[p] \/ Replaces(feed, resets, p, batch.feed[p])
      /\ GoodUpdates(feed, resets, batch.left) /\ batch.left \in Seq(PubUpdates)
  BY <1>3 DEF PubInv, GoodBatch, GoodUpdates
<1>5. CASE BatchWrite
  <2> DEFINE u == BatchEntry
  <2>1. /\ UNCHANGED feed /\ batch.left # <<>> /\ NotStale(batch.feed, u)
        /\ batch' = [left  |-> Tail(batch.left), feed  |-> WriteFeedRecord(batch.feed, u),
                     index |-> IndexPairIfNeeded(batch.feed, batch.index, u.pair)]
    BY <1>5 DEF BatchWrite, Accepted, feedStore
  <2>2. batch'.left = Tail(batch.left) /\ batch'.feed = WriteFeedRecord(batch.feed, u)
    BY <2>1
  <2>3. GoodUpdate(feed, resets, u)
    <3>1. Head(batch.left) = batch.left[1] /\ 1 \in 1 .. Len(batch.left)
      BY <1>4, <2>1
    <3>2. GoodUpdate(feed, resets, Head(batch.left))
      BY <1>4, <3>1 DEF GoodUpdates
    <3> QED
      BY <3>2, UnsignedGood DEF BatchEntry
  <2>4. GoodUpdates(feed, resets, Tail(batch.left))
    <3>1. /\ Tail(batch.left) \in Seq(PubUpdates) /\ Len(Tail(batch.left)) = Len(batch.left) - 1
          /\ \A i \in 1 .. Len(Tail(batch.left)) :
                Tail(batch.left)[i] = batch.left[i + 1] /\ i + 1 \in 1 .. Len(batch.left)
      BY <1>4, <2>1
    <3> QED
      BY <1>4, <3>1 DEF GoodUpdates
  <2> HIDE DEF u
  <2>5. GoodBatch(feed', resets', batch')
    <3>1. /\ WriteFeedRecord(batch.feed, u) \in PubStores
          /\ \A p \in Pairs : LET h == WriteFeedRecord(batch.feed, u)
                              IN  h[p] = feed[p] \/ Replaces(feed, resets, p, h[p])
      BY <1>3, <1>4, <2>1, <2>3, WriteReplaces
    <3> QED
      BY <1>2, <2>1, <2>2, <2>4, <3>1 DEF GoodBatch
  <2>6. Rises(feed, feed') /\ feed' \in PubStores /\ Swaps
    BY <1>3, <2>1 DEF Rises, Swaps
  <2> QED
    BY <1>2, <2>5, <2>6, PubStepKeeps
<1>6. CASE BatchRevert
  <2>1. UNCHANGED feed /\ batch' = Null
    BY <1>6 DEF BatchRevert, feedStore
  <2>2. Rises(feed, feed') /\ feed' \in PubStores /\ Swaps
    BY <1>3, <2>1 DEF Rises, Swaps
  <2> QED
    BY <1>2, <2>1, <2>2, PubStepKeeps
<1>7. CASE BatchCommit
  <2>1. feed' = batch.feed /\ batch' = Null
    BY <1>7 DEF BatchCommit
  <2>2. Swaps /\ feed' \in PubStores
    BY <1>4, <2>1 DEF Swaps
  <2>3. Rises(feed, feed')
    BY <1>3, <2>2, ReplacedRises DEF Swaps
  <2> QED
    BY <1>2, <2>1, <2>2, <2>3, PubStepKeeps
<1> QED
  BY <1>5, <1>6, <1>7 DEF BatchStep

LEMMA PubInitInv == PubInit => PubInv
<1> SUFFICES ASSUME PubInit PROVE PubInv
  OBVIOUS
<1>1. feed \in PubStores /\ quote \in [Pairs -> Nat] /\ deploy \in Deployments
  BY DEF PubInit, PubStores
<1> QED
  BY <1>1 DEF PubInit, PubInv

\* What one step of the system may do to the records.
Replacing ==
  \A p \in Pairs : \/ feed'[p] = feed[p] \/ feed'[p].note.from = "none"
                   \/ Replaces(feed, resets, p, feed'[p])

LEMMA PubNextInv == PubInv /\ [PubNext]_pubVars => PubInv' /\ Replacing
<1> SUFFICES ASSUME PubInv, [PubNext]_pubVars PROVE PubInv' /\ Replacing
  OBVIOUS
<1>1. CASE batch = Null /\ PubStep /\ UNCHANGED deploy
  <2>1. ASSUME NEW t \in Ticks,
               \/ \E refresh \in BOOLEAN : Start(t, refresh)
               \/ StartBlind(t) \/ FetchQuote(t) \/ FetchNothing(t)
               \/ Skip(t) \/ RejectStamp(t) \/ QueueUpdate(t)
               \/ Submit(t) \/ SubmitFails(t) \/ Save(t)
        PROVE  PubInv' /\ Replacing
    <3>1. PubInv'
      BY <1>1, <2>1, StartKeeps, FetchKeeps, SkipKeeps, QueueKeeps, SubmitKeeps, SaveKeeps
    <3>2. UNCHANGED feed
      BY <2>1 DEF Start, StartBlind, FetchQuote, FetchNothing, Skip, RejectStamp, QueueUpdate,
                  Submit, SubmitFails, Save, feedVars, feedStore
    <3> QED
      BY <3>1, <3>2 DEF Replacing
  <2>2. ASSUME \/ \E p \in Tracked : Elapse(p) \/ MovePrice(p)
               \/ Restart \/ \E us \in txs : Expire(us)
        PROVE  PubInv' /\ Replacing
    <3>1. Tracked \subseteq Pairs
      BY SymbolsTyped DEF Tracked
    <3>2. PubInv'
      BY <1>1, <2>2, <3>1, OutsideKeeps
    <3>3. UNCHANGED feed
      BY <2>2 DEF Elapse, MovePrice, Restart, Expire, feedVars, feedStore
    <3> QED
      BY <3>2, <3>3 DEF Replacing
  <2>3. ASSUME NEW us \in txs, Land(us) PROVE PubInv' /\ Replacing
    BY <1>1, <2>3, LandKeeps DEF Swaps, Replacing
  <2>4. CASE AdminCall
    BY <1>1, <2>4, AdminKeeps DEF Replacing
  <2> QED
    BY <1>1, <2>1, <2>2, <2>3, <2>4 DEF PubStep
<1>2. CASE BatchStep /\ UNCHANGED <<tickVars, deploy, events, resets>>
  BY <1>2, BatchKeeps DEF Swaps, Replacing
<1>3. CASE UNCHANGED pubVars
  <2>1. UNCHANGED <<feedVars, resets, deploy, quote, local, stateFile, tick, txs, feed>>
    BY <1>3 DEF pubVars, tickVars, feedVars, feedStore
  <2>2. PubInv'
    BY <2>1, QuietStep, LocalsStill, TicksStill, TxsStill DEF PubInv
  <2> QED
    BY <2>1, <2>2 DEF Replacing
<1> QED
  BY <1>1, <1>2, <1>3 DEF PubNext

\* The round of a price record works as a compare-and-swap: until the admin
\* resets a record, an update that the worker decided against an on-chain
\* record replaces exactly that record, for any number of ticks and pending
\* transactions, in any order of landing (buildRoundId in the worker, the
\* "stale round" check of the contract).
THEOREM UpdatesReplaceBaselines == PubSpec => ReplacesItsBaseline
<1> DEFINE Swap ==
      resets = 0 =>
        \A p \in Pairs :
           LET r == feed'[p]
           IN  (r # feed[p] /\ r.note.from = "chain") =>
                  feed[p] # Null /\ feed[p].round = r.note.round
                                 /\ feed[p].price = r.note.price
<1>1. PubInv /\ [PubNext]_pubVars => PubInv'
  BY PubNextInv
<1>2. PubInv /\ [PubNext]_pubVars => Swap
  BY PubNextInv DEF Replacing, Replaces
<1>3. PubInv /\ [PubNext]_pubVars => [Swap]_pubVars
  BY <1>2
<1> HIDE DEF Swap
<1>4. PubSpec => [][Swap]_pubVars
  BY <1>1, <1>3, PubInitInv, PTL DEF PubSpec
<1> QED
  BY <1>4 DEF ReplacesItsBaseline, Swap

-----------------------------------------------------------------------------
(* The pair index while the publisher drives the contract *)

PubIndexed ==
  /\ pairIndex \in Seq(Pairs) /\ IndexExact
  /\ batch # Null => batch.index \in Seq(Pairs) /\ Enumerates(batch.feed, batch.index)

\* A write of the publisher or of the admin keeps an index an enumeration.
LEMMA PubWriteEnumerates ==
  ASSUME NEW f \in PubStores, NEW index \in Seq(Pairs), NEW u \in PubUpdates,
         Enumerates(f, index)
  PROVE  /\ IndexPairIfNeeded(f, index, u.pair) \in Seq(Pairs)
         /\ Enumerates(WriteFeedRecord(f, u), IndexPairIfNeeded(f, index, u.pair))
<1>1. u.pair \in Pairs
  BY DEF PubUpdates
<1>2. \A p \in Pairs : WriteFeedRecord(f, u)[p] = IF p = u.pair THEN Written(u) ELSE f[p]
  BY WriteIs
<1>3. Written(u) # Null
  BY WrittenIs
<1>4. \A p \in Pairs : WriteFeedRecord(f, u)[p] # Null <=> (p = u.pair \/ f[p] # Null)
  BY <1>2, <1>3
<1>5. IndexPairIfNeeded(f, index, u.pair) \in Seq(Pairs)
  BY <1>1 DEF IndexPairIfNeeded
<1> QED
  BY <1>1, <1>4, <1>5, IndexedWrite

LEMMA PubDirectWrite ==
  ASSUME PubInv, PubIndexed, batch = Null, UNCHANGED batch, NEW u \in PubUpdates,
         pairIndex' = IndexPairIfNeeded(feed, pairIndex, u.pair),
         feed' = WriteFeedRecord(feed, u)
  PROVE  PubIndexed'
<1>1. feed \in PubStores
  BY DEF PubInv
<1>2. pairIndex' \in Seq(Pairs) /\ Enumerates(feed', pairIndex')
  BY <1>1, PubWriteEnumerates DEF PubIndexed, IndexExact
<1> QED
  BY <1>2 DEF PubIndexed, IndexExact, Enumerates

LEMMA PubIndexStill == PubIndexed /\ UNCHANGED <<feed, pairIndex, batch>> => PubIndexed'
BY DEF PubIndexed, IndexExact, Enumerates

LEMMA LandIndexes ==
  ASSUME PubInv, PubIndexed, batch = Null, NEW us \in txs, Land(us)
  PROVE  PubIndexed'
<1>1. us # <<>> /\ us \in Seq(PubUpdates)
  BY DEF PubInv, GoodUpdates
<1>2. CASE UNCHANGED feedVars
  BY <1>2, PubIndexStill DEF feedVars, feedStore
<1>3. CASE UpdateFeeds({Worker}, us)
  <2>1. /\ UNCHANGED <<feed, pairIndex>>
        /\ batch' = [left |-> us, feed |-> feed, index |-> pairIndex]
    BY <1>3 DEF UpdateFeeds, feedStore
  <2>2. batch'.feed = feed /\ batch'.index = pairIndex
    BY <2>1
  <2> QED
    BY <2>1, <2>2 DEF PubIndexed, IndexExact, Enumerates
<1>4. CASE UpdateFeedSigned({Worker}, us[1])
  <2>1. us[1] \in PubUpdates
    BY <1>1
  <2>2. /\ pairIndex' = IndexPairIfNeeded(feed, pairIndex, us[1].pair)
        /\ feed' = WriteFeedRecord(feed, us[1]) /\ UNCHANGED batch
    BY <1>4 DEF UpdateFeedSigned, UpdateFeedInternal
  <2> QED
    BY <2>1, <2>2, PubDirectWrite
<1> QED
  BY <1>2, <1>3, <1>4 DEF Land

LEMMA AdminIndexes ==
  ASSUME PubInv, PubIndexed, batch = Null, AdminCall
  PROVE  PubIndexed'
<1>1. CASE UNCHANGED <<feedStore, batch>>
  BY <1>1, PubIndexStill DEF feedStore
<1>2. ASSUME NEW q \in Tracked, NEW round \in FirstRounds,
             AdminResetFeed({feedAdmin}, [pair |-> q, round |-> round, price |-> 0, time |-> 0,
                                          note |-> NoBasis, signer |-> Null])
      PROVE  PubIndexed'
  <2> DEFINE u == [pair |-> q, round |-> round, price |-> 0, time |-> 0,
                   note |-> NoBasis, signer |-> Null]
  <2>1. /\ pairIndex' = IndexPairIfNeeded(feed, pairIndex, u.pair)
        /\ feed' = WriteFeedRecord(feed, u) /\ UNCHANGED batch
    BY <1>2 DEF AdminResetFeed
  <2>2. q \in Pairs
    BY SymbolsTyped DEF Tracked
  <2>3. u \in PubUpdates
    BY <2>2, PublicationConstants DEF PubUpdates, NoBasis, Bases
  <2> HIDE DEF u
  <2> QED
    BY <2>1, <2>3, PubDirectWrite
<1> QED
  BY <1>1, <1>2 DEF AdminCall, SetAdmin, SetUpdater, SetOracleVerificationKey,
     ClearOracleVerificationKey

LEMMA BatchIndexes ==
  ASSUME PubInv, PubIndexed, BatchStep
  PROVE  PubIndexed'
<1>1. batch # Null /\ batch.index \in Seq(Pairs) /\ Enumerates(batch.feed, batch.index)
  BY DEF BatchStep, BatchWrite, BatchRevert, BatchCommit, PubIndexed
<1>2. batch.feed \in PubStores /\ batch.left \in Seq(PubUpdates)
  BY <1>1 DEF PubInv, GoodBatch, GoodUpdates
<1>3. CASE BatchWrite
  <2> DEFINE u == BatchEntry
  <2>1. /\ UNCHANGED <<feed, pairIndex>> /\ batch.left # <<>>
        /\ batch' = [left  |-> Tail(batch.left), feed  |-> WriteFeedRecord(batch.feed, u),
                     index |-> IndexPairIfNeeded(batch.feed, batch.index, u.pair)]
    BY <1>3 DEF BatchWrite, feedStore
  <2>2. Head(batch.left) \in PubUpdates
    BY <1>2, <2>1
  <2>3. u \in PubUpdates
    BY <2>2 DEF BatchEntry, Unsigned, PubUpdates
  <2>4. /\ batch'.feed = WriteFeedRecord(batch.feed, u)
        /\ batch'.index = IndexPairIfNeeded(batch.feed, batch.index, u.pair)
    BY <2>1
  <2> HIDE DEF u
  <2>5. batch'.index \in Seq(Pairs) /\ Enumerates(batch'.feed, batch'.index)
    BY <1>1, <1>2, <2>3, <2>4, PubWriteEnumerates
  <2>6. pairIndex' \in Seq(Pairs) /\ IndexExact'
    BY <2>1 DEF PubIndexed, IndexExact, Enumerates
  <2> QED
    BY <2>5, <2>6 DEF PubIndexed
<1>4. CASE BatchRevert
  BY <1>4 DEF BatchRevert, feedStore, PubIndexed, IndexExact, Enumerates
<1>5. CASE BatchCommit
  BY <1>1, <1>5 DEF BatchCommit, PubIndexed, IndexExact, Enumerates
<1> QED
  BY <1>3, <1>4, <1>5 DEF BatchStep

LEMMA PubIndexStep == PubInv /\ PubIndexed /\ [PubNext]_pubVars => PubIndexed'
<1> SUFFICES ASSUME PubInv, PubIndexed, [PubNext]_pubVars PROVE PubIndexed'
  OBVIOUS
<1>1. CASE UNCHANGED feedVars
  BY <1>1, PubIndexStill DEF feedVars, feedStore
<1>2. ASSUME batch = Null, NEW us \in txs, Land(us) PROVE PubIndexed'
  BY <1>2, LandIndexes
<1>3. ASSUME batch = Null, AdminCall PROVE PubIndexed'
  BY <1>3, AdminIndexes
<1>4. CASE BatchStep
  BY <1>4, BatchIndexes
<1>5. CASE batch = Null /\ PubStep
  <2>1. \/ UNCHANGED feedVars
        \/ \E us \in txs : Land(us)
        \/ AdminCall
    BY <1>5 DEF PubStep, Start, StartBlind, FetchQuote, FetchNothing, Skip, RejectStamp,
       QueueUpdate, Submit, SubmitFails, Save, Elapse, MovePrice, Restart, Expire
  <2> QED
    BY <1>1, <1>2, <1>3, <1>5, <2>1
<1> QED
  BY <1>1, <1>4, <1>5 DEF PubNext, pubVars

\* While the worker publishes, in batches that revert and in single signed
\* writes, and the admin resets records between them, GetAllPairs lists every
\* pair that has a record exactly once.
THEOREM PublishedIndexed == PubSpec => []IndexExact
<1>1. PubInit => PubIndexed
  BY DEF PubInit, PubIndexed, IndexExact, Enumerates
<1>2. PubIndexed => IndexExact
  BY DEF PubIndexed
<1> QED
  BY <1>1, <1>2, PubInitInv, PubNextInv, PubIndexStep, PTL DEF PubSpec
=============================================================================
