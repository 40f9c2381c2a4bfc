------------------------- MODULE MCCallbackDelivery -------------------------
(***************************************************************************)
(* Small instances of the kernel with a callback consumer for TLC.  A      *)
(* behaviour plays one of two scenes, which keeps the product of the two   *)
(* contracts small: in "fees" the consumer points at no kernel, and the    *)
(* app's administration, its sponsor and the fee account are at work; in   *)
(* "consumer" these rest and the consumer is pointed at kernels and called.*)
(***************************************************************************)
EXTENDS CallbackDelivery

CONSTANTS root, dev, user, hook, kernel, kernel2, zero, none, app1

VARIABLE scene

MCOutcomes ==
  {[success |-> TRUE, result |-> "r1", error |-> ""],
   [success |-> FALSE, result |-> "", error |-> "failed"]}

MCGrants == {<<app1, "oracle.fetch">>}

\* An app of dev, who pays for it, with an integration contract.
MCSponsoredApp ==
  << [app |-> app1, admin |-> dev, feePayer |-> dev, callback |-> hook] >>

MCInit ==
  /\ DeliveryInit
  /\ scene \in {"fees", "consumer"}
  /\ scene = "fees" => rich

MCNext ==
  /\ DeliveryNext
  /\ scene = "fees" => UNCHANGED hookVars
  /\ scene = "consumer" =>
       /\ UNCHANGED <<apps, gated, allowed, cap, withdrawals>>
       /\ credit'[dev] = 0 /\ gas' <= 2
  /\ UNCHANGED scene

MCSpec == MCInit /\ [][MCNext]_<<deliveryVars, scene>>
=============================================================================
