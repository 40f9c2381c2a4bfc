--------------------------- MODULE NeoDIDRegistry ---------------------------
(***************************************************************************)
(* The NeoDIDRegistry contract and the Nitro worker that signs the tickets *)
(* it accepts.  The worker signs, for a vault account or a disposable      *)
(* account, a ticket that carries a nullifier derived from an identity     *)
(* alone.  It verifies the identity for one provider (web3auth); for the   *)
(* others it signs, by default, for the identity the caller names.  The    *)
(* contract accepts a nullifier once.                                      *)
(***************************************************************************)
EXTENDS Integers, Sequences, FiniteSets

CONSTANTS
  DidAccounts,
  Providers, Uids,      \* an identity is a uid at a provider
  ClaimTypes, Actions,
  DidKeys,              \* keys the worker has signed with
  Networks, HomeNetwork,\* Neo networks; the one of this deployment
  Unset,
  DidDeployer,
  MaxTickets            \* bound on the tickets signed

Identities == [provider : Providers, uid : Uids]

\* The storage key of a binding.
BindingKeys == [vault : DidAccounts, provider : Providers, claimType : ClaimTypes]

ASSUME DidConstants ==
  /\ DidDeployer \in DidAccounts
  /\ HomeNetwork \in Networks
  /\ Unset \notin DidAccounts \cup DidKeys
  /\ Unset \notin Identities

VARIABLES
  didAdmin,           \* PREFIX_ADMIN
  verifier,           \* PREFIX_VERIFIER, Unset until SetVerifier
  bindings,           \* PREFIX_BINDING: [nullifier, active]; Unset nullifier: none
  masterNullifiers,   \* PREFIX_MASTER_NULLIFIER
  actionNullifiers,   \* PREFIX_ACTION_NULLIFIER
  didLog,             \* the events of the contract, in order
  bindTickets, actionTickets   \* the tickets the worker has signed

didStore == <<bindings, masterNullifiers, actionNullifiers, didLog>>
tickets  == <<bindTickets, actionTickets>>
didVars  == <<didAdmin, verifier, didStore, tickets>>

\* The two hashes, which collide for no two inputs; the salt never changes.
MasterNullifier(id) == [provider |-> id.provider, uid |-> id.uid]

\* Mutant of ActionNullifier: the disposable account goes into the hash.
ActionNullifierOfAccount(id, action, account) ==
  [provider |-> id.provider, uid |-> id.uid, action |-> <<action, account>>]

ActionNullifier(id, action, account) ==
  [provider |-> id.provider, uid |-> id.uid, action |-> action]

DidEvent(kind, about, nullifier) == [kind |-> kind, about |-> about, nullifier |-> nullifier]

DidInit ==
  /\ didAdmin = DidDeployer
  /\ verifier = Unset
  /\ bindings = [k \in BindingKeys |-> [nullifier |-> Unset, active |-> FALSE]]
  /\ masterNullifiers = {} /\ actionNullifiers = {}
  /\ didLog = <<>>
  /\ bindTickets = {} /\ actionTickets = {}

MoreTickets == Cardinality(bindTickets) + Cardinality(actionTickets) < MaxTickets

\* handleNeoDidBind: the caller names the vault, the claim and the network, and
\* at most providers the identity too (resolveVerifiedProviderUid), so that any
\* caller may obtain a ticket for any identity.
HandleBind(id, vault, claimType, network, key) ==
  /\ MoreTickets
  /\ bindTickets' = bindTickets \cup
       {[binding |-> [vault |-> vault, provider |-> id.provider, claimType |-> claimType],
         nullifier |-> MasterNullifier(id), network |-> network, key |-> key]}
  /\ UNCHANGED <<didAdmin, verifier, didStore, actionTickets>>

HandleActionTicket(id, account, action, network, key) ==
  /\ MoreTickets
  /\ actionTickets' = actionTickets \cup
       {[account |-> account, action |-> action,
         nullifier |-> ActionNullifier(id, action, account),
         network |-> network, key |-> key]}
  /\ UNCHANGED <<didAdmin, verifier, didStore, bindTickets>>

SetDidAdmin(ws, newAdmin) ==
  /\ didAdmin \in ws
  /\ didAdmin' = newAdmin
  /\ UNCHANGED <<verifier, didStore, tickets>>

SetVerifier(ws, key) ==
  /\ didAdmin \in ws
  /\ verifier' = key
  /\ UNCHANGED <<didAdmin, didStore, tickets>>

\* Mutant of VerifySignature: the digest leaves the network out.
VerifyOnAnyNetwork(t) == verifier # Unset /\ t.key = verifier

\* The digest the contract recomputes ends in its own network magic.
VerifySignature(t) == verifier # Unset /\ t.key = verifier /\ t.network = HomeNetwork

\* The vault's owner or the admin.
OwnerOrAdmin(ws, vault) == vault \in ws \/ didAdmin \in ws

\* Mutant of SpentNullifiers: a revocation frees the nullifier.
NullifiersOfActive == {n \in masterNullifiers :
  \E k \in BindingKeys : bindings[k].active /\ bindings[k].nullifier = n}

\* IsMasterNullifierUsed
SpentNullifiers == masterNullifiers

RegisterBinding(ws, t) ==
  /\ t \in bindTickets
  /\ OwnerOrAdmin(ws, t.binding.vault)
  /\ t.nullifier \notin SpentNullifiers
  /\ ~bindings[t.binding].active
  /\ VerifySignature(t)
  /\ bindings' = [bindings EXCEPT ![t.binding] = [nullifier |-> t.nullifier, active |-> TRUE]]
  /\ masterNullifiers' = masterNullifiers \cup {t.nullifier}
  /\ didLog' = Append(didLog, DidEvent("registered", t.binding, t.nullifier))
  /\ UNCHANGED <<didAdmin, verifier, actionNullifiers, tickets>>

\* Mutant of Revoked: the record is cleared.
RevokedBlank(r) == [nullifier |-> Unset, active |-> FALSE]

\* The record stays, with the nullifier it was registered under.
Revoked(r) == [nullifier |-> r.nullifier, active |-> FALSE]

RevokeBinding(ws, k) ==
  /\ OwnerOrAdmin(ws, k.vault)
  /\ bindings[k].active
  /\ bindings' = [bindings EXCEPT ![k] = Revoked(@)]
  /\ didLog' = Append(didLog, DidEvent("revoked", k, bindings[k].nullifier))
  /\ UNCHANGED <<didAdmin, verifier, masterNullifiers, actionNullifiers, tickets>>

UseActionTicket(ws, t) ==
  /\ t \in actionTickets
  /\ t.account \in ws
  /\ t.nullifier \notin actionNullifiers
  /\ VerifySignature(t)
  /\ actionNullifiers' = actionNullifiers \cup {t.nullifier}
  /\ didLog' = Append(didLog, DidEvent("used", [account |-> t.account, action |-> t.action], t.nullifier))
  /\ UNCHANGED <<didAdmin, verifier, bindings, masterNullifiers, tickets>>

DidNext ==
  \/ \E id \in Identities, x \in DidAccounts, net \in Networks, key \in DidKeys :
        \/ \E c \in ClaimTypes : HandleBind(id, x, c, net, key)
        \/ \E a \in Actions : HandleActionTicket(id, x, a, net, key)
  \/ \E ws \in SUBSET DidAccounts :
        \/ \E x \in DidAccounts : SetDidAdmin(ws, x)
        \/ \E key \in DidKeys : SetVerifier(ws, key)
        \/ \E t \in bindTickets : RegisterBinding(ws, t)
        \/ \E k \in BindingKeys : RevokeBinding(ws, k)
        \/ \E t \in actionTickets : UseActionTicket(ws, t)

DidSpec == DidInit /\ [][DidNext]_didVars
-----------------------------------------------------------------------------
Nullifiers == [provider : Providers, uid : Uids]

\* Type correctness.
DidTypeOK ==
  /\ didAdmin \in DidAccounts
  /\ verifier \in DidKeys \cup {Unset}
  /\ bindings \in [BindingKeys -> [nullifier : Nullifiers \cup {Unset}, active : BOOLEAN]]
  /\ masterNullifiers \subseteq Nullifiers

Registered(i) == didLog[i].kind = "registered"

\* One identity backs at most one binding, ever: whatever vaults, claim types
\* and networks it asked tickets for, and although its binding was revoked.
OneBindingPerIdentity ==
  \A id \in Identities, i, j \in 1 .. Len(didLog) :
     /\ Registered(i) /\ didLog[i].nullifier = MasterNullifier(id)
     /\ Registered(j) /\ didLog[j].nullifier = MasterNullifier(id)
     => i = j

\* One identity takes an action at most once, whatever disposable accounts it
\* holds tickets for.
OneUsePerAction ==
  \A i, j \in 1 .. Len(didLog) :
     /\ didLog[i].kind = "used" /\ didLog[j].kind = "used"
     /\ didLog[i].about.action = didLog[j].about.action
     /\ didLog[i].nullifier.uid = didLog[j].nullifier.uid
     /\ didLog[i].nullifier.provider = didLog[j].nullifier.provider
     => i = j

\* The last event about a binding, 0 when there is none.
LastAbout(k, n) ==
  /\ n \in 1 .. Len(didLog) /\ didLog[n].about = k
  /\ \A m \in n + 1 .. Len(didLog) : didLog[m].about # k

\* What an indexer reads off the events is what the contract stores: a binding
\* is active exactly when the last event about it is its registration, and a
\* stored nullifier is the one of that event.
EventsTellBindings ==
  \A k \in BindingKeys :
     /\ bindings[k].active <=> \E n \in 1 .. Len(didLog) : LastAbout(k, n) /\ Registered(n)
     /\ bindings[k].nullifier # Unset <=> \E n \in 1 .. Len(didLog) : didLog[n].about = k
     /\ \A n \in 1 .. Len(didLog) : LastAbout(k, n) => bindings[k].nullifier = didLog[n].nullifier

\* A binding becomes active, and an action counts as taken, only by a ticket
\* signed for exactly that, on the network they were signed for, and under
\* the key in force at that moment: a ticket of a key that was rotated out is
\* of no use until the admin brings that key back.
AcceptedUnderVerifier ==
  [][/\ \A k \in BindingKeys : bindings'[k].active /\ ~bindings[k].active =>
          \E t \in bindTickets :
             /\ t.binding = k /\ t.nullifier = bindings'[k].nullifier
             /\ t.network = HomeNetwork /\ t.key = verifier
     /\ \A n \in actionNullifiers' \ actionNullifiers :
          \E t \in actionTickets :
             t.nullifier = n /\ t.network = HomeNetwork /\ t.key = verifier]_didVars
=============================================================================
