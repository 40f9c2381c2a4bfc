--------------------------- MODULE MCControlPlane ---------------------------
(* Instances of ControlPlane for TLC. *)
EXTENDS ControlPlane

\* A queue job with the cron, or a workflow job with the cron and the operator:
\* jobs of different lanes only share the pass, which takes them one by one.
EitherLane == {[jobs |-> QueueJobs, passes |-> {"cron"}],
               [jobs |-> WorkflowJobs, passes |-> Recoverers]}

Everything == {[jobs |-> Jobs, passes |-> Recoverers]}
=============================================================================
