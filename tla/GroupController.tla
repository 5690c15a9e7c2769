-------------------------- MODULE GroupController --------------------------
(***************************************************************************)
(* The node-group controller.  A pass reads the group and lists its        *)
(* children, and then makes at most one write: it cancels an unstarted     *)
(* child, labels a Node, reports status, or advances the one pending       *)
(* action.  Writes of the group are conditional on the version read, and   *)
(* the objects a step concerns are read again by the step.                 *)
(***************************************************************************)
EXTENDS Provisioning

Pending == group.action
Target(s) == Pending.type = "Drain" /\ Pending.slot = s /\ Pending.child = claim[s].uid
Listed == {s \in Slot : claim[s].here}
Unstarted == {s \in Listed : ~claim[s].del /\ ~claim[s].fin /\ ~Target(s)}

GroupFinalizer ==
    /\ g.pc = "idle" /\ Live /\ ~group.fin
    /\ group' = [group EXCEPT !.fin = TRUE]
    /\ UNCHANGED <<claim, infra, machine, secret, mesh, node, gateway, applied, ack,
                   g, c, j, late, used>>

GroupRead ==
    /\ g.pc = "idle" /\ group.phase # "gone" /\ group.fin
    /\ g' = [pc |-> "read", del |-> ~Live, want |-> IF Live THEN group.replicas ELSE 0,
             listed |-> Listed, ending |-> {s \in Listed : claim[s].del},
             unstarted |-> IF Live THEN {} ELSE Unstarted,
             group |-> TRUE, claims |-> Listed]
    /\ UNCHANGED <<objects, applied, ack, c, j, late, used>>

\* An error, a refused write or nothing to do ends the pass.  A creation whose
\* sender stops may still be carried out.
GroupAbandon ==
    /\ g.pc # "idle"
    /\ g' = IdleG
    /\ UNCHANGED <<objects, applied, ack, c, j, late, used>>

GroupCrash ==
    /\ g.pc = "create" /\ used.crash < used.course.crash
    /\ g' = IdleG
    /\ late' = late \cup {<<Pending.slot, Pending.id>>}
    /\ used' = [used EXCEPT !.crash = @ + 1]
    /\ UNCHANGED <<objects, applied, ack, c, j>>

\* The child as a deletion under its uid and version leaves it.
Deleted(s) ==
    [claim EXCEPT ![s] = IF @.fin THEN [@ EXCEPT !.del = TRUE] ELSE NoClaim(@.uid)]

cancelUnstartedChildren(s) ==
    /\ g.pc = "read" /\ s \in g.unstarted /\ s \in g.claims
    /\ claim' = Deleted(s)
    /\ g' = IdleG
    /\ c' = ForgetC(c, {ClaimKey(s)})
    /\ UNCHANGED <<group, infra, machine, secret, mesh, node, gateway, applied, ack,
                   j, late, used>>
-----------------------------------------------------------------------------
(* Node labels and status.                                                  *)

Resolved(s) == machine[s].ref /\ machine[s].provider /\ node[s].here
Staying(s) ==
    /\ s \in g.listed \ g.ending /\ ~Target(s)
    /\ machine[s].here /\ machine[s].uid = claim[s].uid
    /\ ~machine[s].del /\ machine[s].drain = 0 /\ Resolved(s)
NeedsLabel(s) == ~g.del /\ Staying(s) /\ ~node[s].label

labelNodes(s) ==
    /\ g.pc = "read" /\ g.unstarted = {} /\ g.group /\ s \in g.claims /\ NeedsLabel(s)
    /\ node' = [node EXCEPT ![s].label = TRUE]
    /\ g' = IdleG
    /\ UNCHANGED <<group, claim, infra, machine, secret, mesh, gateway, applied, ack,
                   c, j, late, used>>

readyChild(s) ==
    /\ Staying(s) /\ ~node[s].cordon /\ mesh[s] # 0
    /\ ack[s] = Published \ {s}

readyChildren == Cardinality({s \in g.listed : readyChild(s)})
StatusTrue == group.count = Cardinality(g.listed) /\ group.ready = readyChildren

GroupStatus ==
    /\ g.pc = "read" /\ g.unstarted = {} /\ ~(\E s \in Slot : NeedsLabel(s))
    /\ g.group /\ ~StatusTrue
    /\ group' = [group EXCEPT !.count = Cardinality(g.listed), !.ready = readyChildren]
    /\ g' = IdleG
    /\ UNCHANGED <<claim, infra, machine, secret, mesh, node, gateway, applied, ack,
                   c, j, late, used>>

\* The pass has come as far as its pending action, or as its plan.
Advancing(type) ==
    /\ g.pc = "read" /\ g.unstarted = {} /\ ~(\E s \in Slot : NeedsLabel(s))
    /\ StatusTrue /\ Pending.type = type

\* A write of the pending action, under the version read, that ends the pass.
RecordAction(a) ==
    /\ g.group
    /\ group' = [group EXCEPT !.action = a]
    /\ g' = IdleG
    /\ UNCHANGED <<claim, infra, machine, secret, mesh, node, gateway, applied, ack, c, j, late>>
-----------------------------------------------------------------------------
(* Planning: one operation at a time.                                       *)

Surplus(n) == Cardinality(g.listed) > n
Lowest(S) == CHOOSE s \in S : \A t \in S : s <= t
Highest(S) == CHOOSE s \in S : \A t \in S : t <= s

\* The action Next proposes, or none.
ProposeAction(id) ==
    CASE g.ending # {} -> NoAction
      [] g.ending = {} /\ Surplus(g.want) ->
           LET s == Highest(g.listed) IN
           [NoAction EXCEPT !.type = "Drain", !.id = id, !.slot = s, !.child = claim[s].uid]
      [] g.ending = {} /\ Cardinality(g.listed) < g.want ->
           [NoAction EXCEPT !.type = "Create", !.id = id, !.slot = Lowest(Slot \ g.listed)]
      [] OTHER -> NoAction

ReserveAction ==
    /\ Advancing("none") /\ ~(g.del /\ g.listed = {})
    /\ used.actions < MaxActions
    /\ LET a == ProposeAction(used.actions + 1) IN
       /\ a # NoAction
       /\ RecordAction(a)
    /\ used' = [used EXCEPT !.actions = @ + 1]

\* A deleting group without children loses its finalizer and goes.
GroupRelease ==
    /\ Advancing("none") /\ g.del /\ g.listed = {} /\ g.group
    /\ group' = [group EXCEPT !.phase = "gone", !.fin = FALSE]
    /\ g' = IdleG
    /\ UNCHANGED <<claim, infra, machine, secret, mesh, node, gateway, applied, ack,
                   c, j, late, used>>
-----------------------------------------------------------------------------
(* Creation.                                                                *)

\* The child of the pending creation exists as it was intended.
Fulfilled == claim[Pending.slot].here /\ claim[Pending.slot].act = Pending.id
             /\ ~claim[Pending.slot].del

CancelUnfulfilledCreation ==
    /\ Advancing("Create") /\ g.del /\ ~claim[Pending.slot].here
    /\ RecordAction(NoAction) /\ UNCHANGED used

\* Intent is read again from the API; a deleting group creates nothing.
ResumeCreation ==
    /\ Advancing("Create") /\ ~(g.del /\ ~claim[Pending.slot].here)
    /\ \/ Fulfilled /\ g' = [g EXCEPT !.pc = "complete"]
       \/ ~claim[Pending.slot].here /\ Live /\ g' = [g EXCEPT !.pc = "create"]
    /\ UNCHANGED <<objects, applied, ack, c, j, late, used>>

\* The creation is sent; a child that is already there must be the one meant.
CreateChild ==
    /\ g.pc = "create"
    /\ \/ /\ ~claim[Pending.slot].here /\ claim[Pending.slot].uid < MaxUid
          /\ claim' = [claim EXCEPT ![Pending.slot] = Child(Pending.slot, Pending.id)]
       \/ Fulfilled /\ UNCHANGED claim
    /\ g' = [g EXCEPT !.pc = "complete"]
    /\ UNCHANGED <<group, infra, machine, secret, mesh, node, gateway, applied, ack,
                   c, j, late, used>>

CompleteCreation ==
    /\ g.pc = "complete" /\ Fulfilled
    /\ RecordAction(NoAction) /\ UNCHANGED used
-----------------------------------------------------------------------------
(* Binding the worker to drain, and cancellation before bootstrap.          *)

TargetHeld == claim[Pending.slot].here /\ claim[Pending.slot].uid = Pending.child
MachineHeld == machine[Pending.slot].here /\ machine[Pending.slot].uid = Pending.child

\* The drain before it is committed to removal or cancellation.
Draining ==
    /\ Advancing("Drain") /\ ~Pending.cancel /\ ~Pending.removing
    /\ TargetHeld /\ ~claim[Pending.slot].del
    /\ MachineHeld /\ ~machine[Pending.slot].del

\* The Machine is recorded when its Node is not known yet; the pass goes on.
BindMachine ==
    /\ Draining /\ ~Resolved(Pending.slot) /\ ~Pending.node /\ ~Pending.machine
    /\ g.group
    /\ group' = [group EXCEPT !.action.machine = TRUE]
    /\ UNCHANGED <<claim, infra, machine, secret, mesh, node, gateway, applied, ack,
                   g, c, j, late, used>>

BindDrainNode ==
    /\ Draining /\ Resolved(Pending.slot) /\ ~Pending.node
    /\ RecordAction([Pending EXCEPT !.machine = TRUE, !.node = TRUE]) /\ UNCHANGED used

\* Nothing of the worker has been published: the join controller's writes come
\* in the order address, peer, Secret.  A fenced Machine may get a provider.
bootstrapUnpublished(s) ==
    /\ machine[s].here =>
         /\ ~machine[s].ref /\ machine[s].addr = 0
         /\ machine[s].provider => machine[s].cancel = Pending.id
    /\ secret[s].uid = 0 /\ mesh[s] = 0 /\ ~node[s].here

\* The fence is both marks in one conditional write of the Machine.
beginBootstrapCancellation ==
    /\ Draining /\ ~Resolved(Pending.slot) /\ Pending.machine /\ ~Pending.node
    /\ g.group /\ bootstrapUnpublished(Pending.slot)
    /\ \/ /\ machine[Pending.slot].cancel = 0 /\ machine[Pending.slot].drain = 0
          /\ machine' = [machine EXCEPT ![Pending.slot].cancel = Pending.id,
                                        ![Pending.slot].drain = Pending.id]
          /\ g' = IdleG
          /\ j' = ForgetJ(j, {MachineKey(Pending.slot)})
          /\ UNCHANGED <<group, claim, infra, secret, mesh, node, gateway, applied, ack,
                         c, late, used>>
       \/ /\ machine[Pending.slot].cancel = Pending.id
          /\ RecordAction([Pending EXCEPT !.cancel = TRUE]) /\ UNCHANGED used

\* The child of a committed removal is deleted under its uid and version.
DeleteTarget ==
    /\ TargetHeld /\ ~claim[Pending.slot].del
    /\ claim' = Deleted(Pending.slot)
    /\ g' = IdleG
    /\ c' = ForgetC(c, {ClaimKey(Pending.slot)})
    /\ UNCHANGED <<group, infra, machine, secret, mesh, node, gateway, applied, ack,
                   j, late, used>>

resumeBootstrapCancellation ==
    /\ Advancing("Drain") /\ Pending.cancel /\ g.group
    /\ machine[Pending.slot].here => MachineHeld /\ machine[Pending.slot].cancel = Pending.id
    /\ bootstrapUnpublished(Pending.slot)
    /\ \/ DeleteTarget
       \/ /\ ~claim[Pending.slot].here /\ ~machine[Pending.slot].here
          /\ RecordAction(NoAction) /\ UNCHANGED used
-----------------------------------------------------------------------------
(* Drain and withdrawal of a registered worker.                             *)

Bound == Draining /\ Pending.node /\ Resolved(Pending.slot)

\* At most one change of the Node for each pass.
DrainNode ==
    /\ Bound
    /\ \/ /\ ~node[Pending.slot].cordon
          /\ node' = [node EXCEPT ![Pending.slot].cordon = TRUE]
       \/ /\ node[Pending.slot].cordon /\ node[Pending.slot].pods = "running"
          /\ node' = [node EXCEPT ![Pending.slot].pods = "leaving"]
    /\ g' = IdleG
    /\ UNCHANGED <<group, claim, infra, machine, secret, mesh, gateway, applied, ack,
                   c, j, late, used>>

Empty == Bound /\ node[Pending.slot].cordon /\ node[Pending.slot].pods = "none"
WorkerRequests(s) == gateway[s] \in {"live", "retiring"}

CaptureGatewayInventory ==
    /\ Empty /\ Pending.gateways = "unknown"
    /\ RecordAction([Pending EXCEPT !.gateways =
                       IF WorkerRequests(Pending.slot) THEN "some" ELSE "none"])
    /\ UNCHANGED used

FreezeGatewayAttachments ==
    /\ Empty /\ Pending.gateways # "unknown" /\ machine[Pending.slot].drain = 0
    /\ machine' = [machine EXCEPT ![Pending.slot].drain = Pending.id]
    /\ g' = IdleG
    /\ j' = ForgetJ(j, {MachineKey(Pending.slot)})
    /\ UNCHANGED <<group, claim, infra, secret, mesh, node, gateway, applied, ack,
                   c, late, used>>

Frozen == Empty /\ Pending.gateways # "unknown" /\ machine[Pending.slot].drain = Pending.id

\* Only the captured requests are retired; another one stops the drain.
RetireGatewayInventory ==
    /\ Frozen /\ Pending.gateways = "some" /\ gateway[Pending.slot] = "live"
    /\ gateway' = [gateway EXCEPT ![Pending.slot] = "retiring"]
    /\ g' = IdleG
    /\ UNCHANGED <<group, claim, infra, machine, secret, mesh, node, applied, ack,
                   c, j, late, used>>

Retired == Frozen /\ ~WorkerRequests(Pending.slot)

\* Every published participant must have a Node before it can be named.
PublishedConsumers == {Site} \cup (Published \ {Pending.slot})
Resolvable == \A t \in Published : Resolved(t)

CapturePeerWithdrawal ==
    /\ Retired /\ Pending.consumers = {} /\ Resolvable /\ mesh[Pending.slot] # 0
    /\ RecordAction([Pending EXCEPT !.consumers = PublishedConsumers]) /\ UNCHANGED used

ExtendPeerWithdrawal ==
    /\ Retired /\ Pending.consumers # {} /\ Resolvable
    /\ ~(PublishedConsumers \subseteq Pending.consumers)
    /\ RecordAction([Pending EXCEPT !.consumers = @ \cup PublishedConsumers])
    /\ UNCHANGED used

Captured == Retired /\ Pending.consumers # {} /\ PublishedConsumers \subseteq Pending.consumers

\* The peer leaves the mesh Secret; the write is conditional on the reading.
PublishRemoteWithdrawal ==
    /\ Captured /\ g.group /\ mesh[Pending.slot] # 0
    /\ mesh' = [mesh EXCEPT ![Pending.slot] = 0]
    /\ j' = ForgetJ(j, {MeshKey})
    /\ UNCHANGED <<group, claim, infra, machine, secret, node, gateway, applied, ack,
                   g, c, late, used>>

\* Acknowledgement of the site alone.
AppliedAtSite == ack[Site] = Published

\* Every captured consumer acknowledges exactly the mesh without the peer.
Applied ==
    \A n \in Pending.consumers :
        n \in {Site} \cup {s \in Slot : node[s].here} /\ ack[n] = Published \ {n}

BeginRemoval ==
    /\ Captured /\ mesh[Pending.slot] = 0 /\ Applied
    /\ RecordAction([Pending EXCEPT !.removing = TRUE]) /\ UNCHANGED used

\* The action ends when claim, Machine and Node are all gone.
ResumeRemoval ==
    /\ Advancing("Drain") /\ Pending.removing /\ g.group
    /\ claim[Pending.slot].here => TargetHeld
    /\ machine[Pending.slot].here => MachineHeld
    /\ \/ DeleteTarget
       \/ /\ ~claim[Pending.slot].here /\ ~machine[Pending.slot].here /\ ~node[Pending.slot].here
          /\ RecordAction(NoAction) /\ UNCHANGED used

GroupStep ==
    \/ GroupFinalizer \/ GroupRead
    \/ \E s \in Slot : cancelUnstartedChildren(s) \/ labelNodes(s)
    \/ GroupStatus \/ ReserveAction \/ GroupRelease
    \/ CancelUnfulfilledCreation \/ ResumeCreation \/ CreateChild \/ CompleteCreation
    \/ BindMachine \/ BindDrainNode \/ beginBootstrapCancellation \/ resumeBootstrapCancellation
    \/ DrainNode \/ CaptureGatewayInventory \/ FreezeGatewayAttachments \/ RetireGatewayInventory
    \/ CapturePeerWithdrawal \/ ExtendPeerWithdrawal \/ PublishRemoteWithdrawal
    \/ BeginRemoval \/ ResumeRemoval
GroupNext == GroupStep \/ GroupAbandon \/ GroupCrash
=============================================================================
