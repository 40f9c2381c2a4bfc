----------------------------- MODULE MCServices -----------------------------
(***************************************************************************)
(* Small instances for TLC of three services with the contracts they       *)
(* serve: price publication, NeoDID and the Neo X fulfiller.  They share   *)
(* no state, so a behaviour exercises one of them, not their product.      *)
(***************************************************************************)
EXTENDS FeedPublication, NeoDIDRegistry, NeoXFulfiller

CONSTANTS none, root, worker, owner, neo, gas, k1, k2, dice, ann

VARIABLE service

allVars == <<pubVars, didVars, neoxVars, service>>

D(symbols, signer, stamps, pending, n) ==
  [symbols |-> symbols, signer |-> signer, stamps |-> stamps,
   pending |-> pending, events |-> n]

\* One pair with timestamps behind and ahead of the chain's; one with a signing
\* key; one, with a key or without, with transactions that land late; two in a
\* batch; two with a signing key.
MCDeployments ==
  {D(<<neo>>, none, {0, 2}, 0, 2), D(<<neo>>, k1, {0}, 0, 2),
   D(<<neo>>, none, {0}, 1, 1), D(<<neo>>, k1, {0}, 1, 1),
   D(<<neo, gas>>, none, {0}, 0, 1), D(<<neo, gas>>, k1, {0}, 0, 1)}

MCNotes == [from : {"none", "chain", "local"}, round : 0 .. 9, price : 0 .. 2]

\* The registry and the owner of the game; the fees, answered by the relayer; the game with the
\* relayer, without and with players that refuse payments; requests with the
\* fulfiller; requests while the kernel changes hands.
MCScenes ==
  {{"registry"}, {"fees", "relayer"}, {"dice", "relayer"}, {"dice", "relayer", "refusals"},
   {"requests", "fulfiller"}, {"requests", "relayer", "roles"}}

MCFirstCallback == [a \in {"dice"} |-> dice]

MCDefaultStakes == <<1, 2>>

MCStakeLimits == {<<1, 2>>, <<2, 2>>}

\* Of the two services that do not run only one initial state is taken.
MCInit ==
  /\ PubInit
  /\ DidInit
  /\ EvmInit /\ DiceInit /\ FulInit
  /\ service \in {"feeds", "neodid", "neox"}
  /\ service # "feeds" => deploy.signer = k1 /\ Len(deploy.symbols) = 2
  /\ service # "neox" => scene = {"registry"}

MCNext ==
  \/ service = "feeds" /\ PubNext /\ UNCHANGED <<didVars, neoxVars, service>>
  \/ service = "neodid" /\ DidNext /\ UNCHANGED <<pubVars, neoxVars, service>>
  \/ service = "neox" /\ FulNext /\ UNCHANGED <<pubVars, didVars, service>>

\* The service of a behaviour stays the same, so []<> asks for no more than its
\* value at the start.  The fulfiller's fairness is conditional on its scene.
MCSpec ==
  /\ MCInit
  /\ [][MCNext]_allVars
  /\ []<>(service # "feeds") \/ PubFairness
  /\ FulFairness

\* CatchesUp, in the behaviours that publish.
FeedsCatchUp == []<>(service # "feeds") \/ CatchesUp
=============================================================================
