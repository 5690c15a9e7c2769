-------------------------- MODULE MCNodeGroupLive --------------------------
(* NodeGroupLive for TLC.                                                   *)
EXTENDS NodeGroupLive

\* A pair of workers whose group is scaled once and deleted.
MCCourses == {[replicas |-> 2, edits |-> 1, crash |-> 0, gateways |-> FALSE]}
=============================================================================
