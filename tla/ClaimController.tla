-------------------------- MODULE ClaimController --------------------------
(***************************************************************************)
(* The claim controller for children of a group: admission under the       *)
(* claim's finalizer, the provider machine and the CAPI Machine, and the   *)
(* teardown of a deleted claim in dependency order.                        *)
(***************************************************************************)
EXTENDS Provisioning

ClaimRead(s) ==
    /\ c.pc = "idle" /\ claim[s].here /\ ~claim[s].del
    /\ claim[s].fin => infra[s] = "none" \/ ~machine[s].here
    /\ c' = [pc |-> IF claim[s].fin THEN "infra" ELSE "read", slot |-> s,
             uid |-> claim[s].uid, claim |-> TRUE]
    /\ UNCHANGED <<objects, applied, ack, g, j, late, used>>

\* Admission that does not ask for the parent.
allowsAlways ==
    /\ c.pc = "read"
    /\ c' = [c EXCEPT !.pc = "admit"]
    /\ UNCHANGED <<objects, applied, ack, g, j, late, used>>

\* The parent is read through the API, not from the cache.
groupAllowsProvisioning ==
    /\ c.pc = "read" /\ Live
    /\ c' = [c EXCEPT !.pc = "admit"]
    /\ UNCHANGED <<objects, applied, ack, g, j, late, used>>

\* The finalizer is installed under the version the pass read.
ClaimAdmit ==
    /\ c.pc = "admit" /\ c.claim
    /\ claim' = [claim EXCEPT ![c.slot].fin = TRUE]
    /\ c' = [c EXCEPT !.pc = "infra"]
    /\ g' = ForgetG(g, {ClaimKey(c.slot)})
    /\ UNCHANGED <<group, infra, machine, secret, mesh, node, gateway, applied, ack,
                   j, late, used>>

\* Provider machine first; an existing one is left alone.
ClaimInfra ==
    /\ c.pc = "infra"
    /\ infra' = [infra EXCEPT ![c.slot] = IF @ = "none" THEN "live" ELSE @]
    /\ c' = [c EXCEPT !.pc = "machine"]
    /\ UNCHANGED <<group, claim, machine, secret, mesh, node, gateway, applied, ack,
                   g, j, late, used>>

ClaimMachine ==
    /\ c.pc = "machine"
    /\ machine' = [machine EXCEPT ![c.slot] =
                     IF @.here THEN @ ELSE [NoMachine EXCEPT !.here = TRUE, !.uid = c.uid]]
    /\ c' = IdleC
    /\ j' = ForgetJ(j, {MachineKey(c.slot)})
    /\ UNCHANGED <<group, claim, infra, secret, mesh, node, gateway, applied, ack,
                   g, late, used>>

\* A failure, a wait for the site network, a refused write or a restart.
ClaimAbandon ==
    /\ c.pc # "idle"
    /\ c' = IdleC
    /\ UNCHANGED <<objects, applied, ack, g, j, late, used>>
-----------------------------------------------------------------------------
(* Teardown of a deleted claim.                                             *)

MachineOwnedByClaim(s) == machine[s].here /\ machine[s].uid = claim[s].uid

\* A parent that only needs to have reserved the drain.
drainReserved(s) ==
    /\ group.phase # "gone" /\ MachineOwnedByClaim(s)
    /\ group.action.type = "Drain" /\ group.action.slot = s
    /\ group.action.child = claim[s].uid

\* A parent's removal only, without its cancellation before bootstrap.
removalCommitted(s) ==
    LET a == group.action IN
    /\ group.phase # "gone" /\ MachineOwnedByClaim(s)
    /\ a.type = "Drain" /\ a.slot = s /\ a.child = claim[s].uid /\ a.machine
    /\ machine[s].drain = a.id /\ a.removing /\ a.consumers # {}

\* The parent's committed removal, or its cancellation before bootstrap.
groupReceiveDeletionCommitted(s) ==
    LET a == group.action IN
    /\ group.phase # "gone" /\ MachineOwnedByClaim(s)
    /\ a.type = "Drain" /\ a.slot = s /\ a.child = claim[s].uid /\ a.machine
    /\ machine[s].drain = a.id
    /\ \/ a.removing /\ a.consumers # {}
       \/ /\ a.cancel /\ machine[s].cancel = a.id
          /\ ~a.removing /\ a.consumers = {} /\ ~a.node
          /\ ~machine[s].ref /\ machine[s].addr = 0

TeardownMachine(s) ==
    /\ c.pc = "idle" /\ claim[s].here /\ claim[s].del
    /\ machine[s].here /\ ~machine[s].del
    /\ groupReceiveDeletionCommitted(s)
    /\ machine' = [machine EXCEPT ![s].del = TRUE]
    /\ j' = ForgetJ(j, {MachineKey(s)})
    /\ UNCHANGED <<group, claim, infra, secret, mesh, node, gateway, applied, ack,
                   g, c, late, used>>

TeardownInfra(s) ==
    /\ c.pc = "idle" /\ claim[s].here /\ claim[s].del
    /\ ~machine[s].here /\ infra[s] = "live"
    /\ infra' = [infra EXCEPT ![s] = "deleting"]
    /\ UNCHANGED <<group, claim, machine, secret, mesh, node, gateway, applied, ack,
                   g, c, j, late, used>>

deleteClaimedNodes(s) ==
    /\ c.pc = "idle" /\ claim[s].here /\ claim[s].del
    /\ ~machine[s].here /\ infra[s] = "none" /\ node[s].here
    /\ node' = [node EXCEPT ![s] = NoNode]
    /\ UNCHANGED <<group, claim, infra, machine, secret, mesh, gateway, applied, ack,
                   g, c, j, late, used>>

\* A release that does not wait for the provider machine.
ReleaseEarly(s) ==
    /\ c.pc = "idle" /\ claim[s].here /\ claim[s].del
    /\ ~machine[s].here /\ ~node[s].here
    /\ claim' = [claim EXCEPT ![s] = NoClaim(@.uid)]
    /\ g' = ForgetG(g, {ClaimKey(s)})
    /\ UNCHANGED <<group, infra, machine, secret, mesh, node, gateway, applied, ack,
                   c, j, late, used>>

ReleaseClaim(s) ==
    /\ c.pc = "idle" /\ claim[s].here /\ claim[s].del
    /\ ~machine[s].here /\ infra[s] = "none" /\ ~node[s].here
    /\ claim' = [claim EXCEPT ![s] = NoClaim(@.uid)]
    /\ g' = ForgetG(g, {ClaimKey(s)})
    /\ UNCHANGED <<group, infra, machine, secret, mesh, node, gateway, applied, ack,
                   c, j, late, used>>

ClaimStep ==
    \/ \E s \in Slot : ClaimRead(s)
    \/ groupAllowsProvisioning \/ ClaimAdmit \/ ClaimInfra \/ ClaimMachine
TeardownStep ==
    \E s \in Slot : \/ TeardownMachine(s) \/ TeardownInfra(s)
                    \/ deleteClaimedNodes(s) \/ ReleaseClaim(s)
ClaimNext == ClaimStep \/ TeardownStep \/ ClaimAbandon
=============================================================================
