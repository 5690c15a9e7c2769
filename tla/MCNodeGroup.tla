----------------------------- MODULE MCNodeGroup -----------------------------
(* NodeGroup for TLC.                                                       *)
EXTENDS NodeGroup

\* A pair of workers whose group is scaled once and deleted.
Pair == [replicas |-> 2, edits |-> 1, crash |-> 0, gateways |-> FALSE]

\* A single slot that is created, drained and created again, with gateway
\* requests and with a restart that leaves a creation behind.
Single == [replicas |-> 1, edits |-> 2, crash |-> 1, gateways |-> TRUE]

MCCourses == {Pair, Single}
=============================================================================
