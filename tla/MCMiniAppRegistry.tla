------------------------- MODULE MCMiniAppRegistry --------------------------
(***************************************************************************)
(* Small instances of the registry for TLC.                                *)
(***************************************************************************)
EXTENDS MiniAppRegistry

CONSTANTS root, dev, hook1, hook2, zero, none, app1, app2

MCAccounts == {root, dev, hook1, hook2, zero}
MCCallbacks == {hook1, hook2, none}
MCNoLegacy == <<>>

\* Two records of an older version that share a callback contract.
MCLegacy ==
  << [app |-> app1, admin |-> dev, feePayer |-> zero, callback |-> hook1],
     [app |-> app2, admin |-> root, feePayer |-> dev, callback |-> hook1] >>
=============================================================================
