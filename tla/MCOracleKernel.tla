--------------------------- MODULE MCOracleKernel ---------------------------
(***************************************************************************)
(* Small instances of the kernel for TLC.                                  *)
(***************************************************************************)
EXTENDS OracleKernel

CONSTANTS root, dev, user, hook, kernel, zero, none, app1

MCOneOutcome == {[success |-> TRUE, result |-> "r1", error |-> ""]}

MCGrants == {<<app1, "oracle.fetch">>}

\* An app of dev, who pays for it, with an integration contract.
MCSponsoredApp ==
  << [app |-> app1, admin |-> dev, feePayer |-> dev, callback |-> hook] >>
=============================================================================
