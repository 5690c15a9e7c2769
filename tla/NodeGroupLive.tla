--------------------------- MODULE NodeGroupLive ---------------------------
(***************************************************************************)
(* Progress of NodeGroup.  The controllers requeue what they could not     *)
(* finish.  While the group is live, a pass of the group or the claim      *)
(* controller may fail at any point; once it is being deleted, and in the  *)
(* join controller, a pass ends without its write only when the code       *)
(* refuses it.  A claim pass that cannot write anything is left out, and   *)
(* so is the deletion of a child behind its group's back: the group waits  *)
(* for such a child, and the child for its group.                          *)
(***************************************************************************)
EXTENDS NodeGroup

GroupGoesOn == GroupStep \/ (GroupAbandon /\ (Live \/ ~ENABLED GroupStep))
ClaimGoesOn ==
    \/ \E s \in Slot : ClaimRead(s) /\ (claim[s].fin \/ Live)
    \/ groupAllowsProvisioning \/ ClaimAdmit \/ ClaimInfra \/ ClaimMachine
    \/ TeardownStep
    \/ ClaimAbandon /\ (Live \/ ~ENABLED ClaimStep)
JoinGoesOn == JoinStep \/ (JoinAbandon /\ ~ENABLED JoinStep)

LiveNext == GroupGoesOn \/ ClaimGoesOn \/ JoinGoesOn \/ Environment

\* Every controller's queue is served; Cluster API, the instances, the agents
\* and the garbage collector do what they were asked for.
FairSpec ==
    /\ Init /\ [][LiveNext]_vars
    /\ WF_vars(GroupGoesOn) /\ WF_vars(ClaimGoesOn) /\ WF_vars(JoinGoesOn)
    /\ \A s \in Slot :
         /\ WF_vars(Launch(s)) /\ WF_vars(Register(s))
         /\ WF_vars(MachineGone(s)) /\ WF_vars(InfraGone(s)) /\ WF_vars(PodExit(s))
    /\ \A n \in Consumer : WF_vars(ApplyPeers(n)) /\ WF_vars(AckPeers(n))

\* A deleted group goes, with every worker it still had.
\* (docs/node-groups.md: "A child that has not acquired the claim controller's
\* lifecycle finalizer is deleted with UID and resource-version preconditions.")
DeletionCompletes == group.phase = "deleting" ~> group.phase = "gone"

\* The group had chosen to drain a child that was not admitted yet, and is
\* deleted: the child is then neither admitted nor cancelled.
Stranded == Pending.type = "Drain" /\ TargetHeld /\ ~claim[Pending.slot].fin

\* Any other deleted group goes: whatever step its action was at, none of the
\* waits of drain, withdrawal, acknowledgement, cancellation and teardown
\* waits for another for ever.
AdmittedDeletionCompletes ==
    group.phase = "deleting" /\ ~Stranded ~> group.phase = "gone"
=============================================================================
