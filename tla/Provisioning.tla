---------------------------- MODULE Provisioning ----------------------------
(***************************************************************************)
(* The API objects through which the node-group, claim and join            *)
(* controllers work, and the parts of the system they wait for: the        *)
(* operator, Cluster API, the instances, the peer agents, the gateway      *)
(* attachments and the garbage collector.                                  *)
(*                                                                         *)
(* A slot is an ordinal of the group: the child claim, its Machine, its    *)
(* bootstrap Secret and its peer entry in the mesh Secret all carry the    *)
(* name of the slot.  An incarnation is told apart by its uid.  A resource *)
(* version is kept as its use: a controller's pass in flight remembers     *)
(* which of the objects it read are unchanged, and a write under a version *)
(* precondition needs the object unchanged.                                *)
(***************************************************************************)
EXTENDS Integers, FiniteSets

CONSTANTS
    Slots,       \* number of ordinals
    MaxUid,      \* bound: incarnations of one child claim
    MaxActions,  \* bound: actions the group reserves
    MaxAddress,  \* bound: tunnel addresses of the range
    Courses,     \* what may happen: a behaviour follows one of these
    PromptGC,    \* whether an owned object goes together with its owner
    PromptAck    \* whether an agent's receipt always follows before the next change

Slot == 0 .. Slots - 1
Site == Slots
Consumer == Slot \cup {Site}

ASSUME ProvisioningAssumption ==
    /\ Slots \in Nat \ {0}
    /\ {MaxUid, MaxActions, MaxAddress} \subseteq Nat
    /\ Courses \subseteq
          [replicas : 0 .. Slots,  \* the largest number of workers asked for
           edits : Nat,            \* changes of spec.replicas, and deletions of one child
           crash : Nat,            \* controller restarts in mid-pass
           gateways : BOOLEAN]     \* whether gateway requests are made
    /\ {PromptGC, PromptAck} \subseteq BOOLEAN

VARIABLES
    group,    \* the ProvisionedNodeGroupClaim
    claim,    \* the child ProvisionedNodeClaim of each slot
    infra,    \* the provider machine of each slot
    machine,  \* the CAPI Machine of each slot
    secret,   \* the bootstrap Secret of each slot
    mesh,     \* the mesh Secret: tunnel address of each published worker
    node,     \* the workload Node of each slot
    gateway,  \* gateway requests of each slot's worker
    applied,  \* peers in each consumer's tunnel
    ack,      \* peers each consumer has acknowledged
    g, c, j,  \* passes in flight: group, claim and join controller
    late,     \* child creations whose sender restarted
    used      \* the course of events, and what is spent of its bounds

objects == <<group, claim, infra, machine, secret, mesh, node, gateway>>
vars == <<group, claim, infra, machine, secret, mesh, node, gateway,
          applied, ack, g, c, j, late, used>>

NoAction ==
    [type |-> "none", id |-> 0, slot |-> 0, child |-> 0, machine |-> FALSE,
     node |-> FALSE, gateways |-> "unknown", consumers |-> {},
     removing |-> FALSE, cancel |-> FALSE]
Action ==
    [type : {"none", "Create", "Drain"}, id : 0 .. MaxActions, slot : Slot,
     child : 0 .. MaxUid, machine : BOOLEAN, node : BOOLEAN,
     gateways : {"unknown", "none", "some"}, consumers : SUBSET Consumer,
     removing : BOOLEAN, cancel : BOOLEAN]
NoClaim(uid) ==
    [here |-> FALSE, uid |-> uid, fin |-> FALSE, del |-> FALSE, act |-> 0]
NoMachine ==
    [here |-> FALSE, uid |-> 0, del |-> FALSE, drain |-> 0, cancel |-> 0,
     addr |-> 0, provider |-> FALSE, ref |-> FALSE]
NoSecret == [uid |-> 0, peers |-> {}]
NoReceipt == Consumer
NoNode == [here |-> FALSE, cordon |-> FALSE, label |-> FALSE, pods |-> "none"]
IdleG ==
    [pc |-> "idle", del |-> FALSE, want |-> 0, listed |-> {}, ending |-> {},
     unstarted |-> {}, group |-> FALSE, claims |-> {}]
IdleC == [pc |-> "idle", slot |-> 0, uid |-> 0, claim |-> FALSE]
IdleJ ==
    [pc |-> "idle", slot |-> 0, uid |-> 0, addr |-> 0, peers |-> {},
     machine |-> FALSE, mesh |-> FALSE]

\* Every variable keeps its type.
TypeOK ==
    /\ group \in [phase : {"live", "deleting", "gone"}, fin : BOOLEAN,
                  replicas : 0 .. Slots, action : Action,
                  count : 0 .. Slots, ready : 0 .. Slots]
    /\ claim \in [Slot -> [here : BOOLEAN, uid : 0 .. MaxUid, fin : BOOLEAN,
                           del : BOOLEAN, act : 0 .. MaxActions]]
    /\ infra \in [Slot -> {"none", "live", "deleting"}]
    /\ machine \in [Slot -> [here : BOOLEAN, uid : 0 .. MaxUid, del : BOOLEAN,
                             drain : 0 .. MaxActions, cancel : 0 .. MaxActions,
                             addr : 0 .. MaxAddress, provider : BOOLEAN, ref : BOOLEAN]]
    /\ secret \in [Slot -> [uid : 0 .. MaxUid, peers : SUBSET Slot]]
    /\ mesh \in [Slot -> 0 .. MaxAddress]
    /\ node \in [Slot -> [here : BOOLEAN, cordon : BOOLEAN, label : BOOLEAN,
                          pods : {"none", "running", "leaving"}]]
    /\ gateway \in [Slot -> {"none", "live", "retiring", "gone"}]
    /\ applied \in [Consumer -> SUBSET Slot]
    /\ ack \in [Consumer -> SUBSET Consumer]
    /\ g \in [pc : {"idle", "read", "create", "complete"}, del : BOOLEAN,
              want : 0 .. Slots, listed : SUBSET Slot, ending : SUBSET Slot,
              unstarted : SUBSET Slot, group : BOOLEAN, claims : SUBSET Slot]
    /\ c \in [pc : {"idle", "read", "admit", "infra", "machine"}, slot : Slot,
              uid : 0 .. MaxUid, claim : BOOLEAN]
    /\ j \in [pc : {"idle", "reserve", "check", "publish", "commit"}, slot : Slot,
              uid : 0 .. MaxUid, addr : 0 .. MaxAddress, peers : SUBSET Slot,
              machine : BOOLEAN, mesh : BOOLEAN]
    /\ late \subseteq Slot \X (1 .. MaxActions)
    /\ used \in [course : Courses, actions : 0 .. MaxActions, edits : Nat, crash : Nat]

Init ==
    /\ group = [phase |-> "live", fin |-> FALSE, replicas |-> 1, action |-> NoAction,
                count |-> 0, ready |-> 0]
    /\ claim = [s \in Slot |-> NoClaim(0)]
    /\ infra = [s \in Slot |-> "none"]
    /\ machine = [s \in Slot |-> NoMachine]
    /\ secret = [s \in Slot |-> NoSecret]
    /\ mesh = [s \in Slot |-> 0]
    /\ node = [s \in Slot |-> NoNode]
    /\ gateway = [s \in Slot |-> "none"]
    /\ applied = [n \in Consumer |-> {}]
    /\ ack = [n \in Consumer |-> IF n = Site THEN {} ELSE NoReceipt]
    /\ g = IdleG
    /\ c = IdleC
    /\ j = IdleJ
    /\ late = {}
    /\ used \in [course : Courses, actions : {0}, edits : {0}, crash : {0}]
-----------------------------------------------------------------------------
(* Writes of one object, and the passes that had read it.                   *)

Published == {s \in Slot : mesh[s] # 0}
Live == group.phase = "live"

\* The passes after the objects in the set ks were written.
GroupKey == <<"group", 0>>
MeshKey == <<"mesh", 0>>
ClaimKey(s) == <<"claim", s>>
MachineKey(s) == <<"machine", s>>
ForgetG(p, ks) ==
    [p EXCEPT !.group = @ /\ GroupKey \notin ks,
              !.claims = {s \in @ : ClaimKey(s) \notin ks}]
ForgetC(p, ks) == [p EXCEPT !.claim = @ /\ ClaimKey(p.slot) \notin ks]
ForgetJ(p, ks) ==
    [p EXCEPT !.machine = @ /\ MachineKey(p.slot) \notin ks,
              !.mesh = @ /\ MeshKey \notin ks]

\* A write by somebody outside the three controllers.
Others(ks) ==
    /\ g' = ForgetG(g, ks)
    /\ c' = ForgetC(c, ks)
    /\ j' = ForgetJ(j, ks)

\* The child of an action, as it is created.
Child(s, id) == [here |-> TRUE, uid |-> claim[s].uid + 1, fin |-> FALSE,
                 del |-> FALSE, act |-> id]
-----------------------------------------------------------------------------
(* The operator.                                                            *)

Scale(n) ==
    /\ Live /\ n # group.replicas /\ n <= used.course.replicas
    /\ used.edits < used.course.edits
    /\ group' = [group EXCEPT !.replicas = n]
    /\ used' = [used EXCEPT !.edits = @ + 1]
    /\ Others({GroupKey})
    /\ UNCHANGED <<claim, infra, machine, secret, mesh, node, gateway, applied, ack, late>>

DeleteGroup ==
    /\ Live
    /\ group' = [group EXCEPT !.phase = IF group.fin THEN "deleting" ELSE "gone"]
    /\ Others({GroupKey})
    /\ UNCHANGED <<claim, infra, machine, secret, mesh, node, gateway, applied, ack, late, used>>

\* A child deleted behind its group's back.
DeleteClaim(s) ==
    /\ claim[s].here /\ ~claim[s].del /\ used.edits < used.course.edits
    /\ claim' = [claim EXCEPT ![s] = IF @.fin THEN [@ EXCEPT !.del = TRUE]
                                              ELSE NoClaim(@.uid)]
    /\ used' = [used EXCEPT !.edits = @ + 1]
    /\ Others({ClaimKey(s)})
    /\ UNCHANGED <<group, infra, machine, secret, mesh, node, gateway, applied, ack, late>>
-----------------------------------------------------------------------------
(* Cluster API and the infrastructure provider.                             *)

\* An instance starts from whatever bootstrap Secret has the Machine's name.
Launch(s) ==
    /\ machine[s].here /\ ~machine[s].del /\ ~machine[s].provider
    /\ infra[s] = "live" /\ secret[s].uid # 0
    /\ machine' = [machine EXCEPT ![s].provider = TRUE]
    /\ Others({MachineKey(s)})
    /\ UNCHANGED <<group, claim, infra, secret, mesh, node, gateway, applied, ack, late, used>>

\* A launched instance reaches the API through its tunnel and registers.
Register(s) ==
    /\ machine[s].here /\ ~machine[s].del /\ machine[s].provider /\ ~node[s].here
    /\ secret[s].uid = machine[s].uid /\ mesh[s] # 0
    /\ node' = [node EXCEPT ![s] = [NoNode EXCEPT !.here = TRUE]]
    /\ machine' = [machine EXCEPT ![s].ref = TRUE]
    /\ applied' = [applied EXCEPT ![s] = secret[s].peers]
    /\ Others({MachineKey(s)})
    /\ UNCHANGED <<group, claim, infra, secret, mesh, gateway, ack, late, used>>

\* A deleted Machine goes once no gateway attachment holds it, and takes the
\* instance and the provider machine with it.
MachineGone(s) ==
    /\ machine[s].here /\ machine[s].del /\ gateway[s] \notin {"live", "retiring"}
    /\ machine' = [machine EXCEPT ![s] = NoMachine]
    /\ infra' = [infra EXCEPT ![s] = "none"]
    /\ gateway' = [gateway EXCEPT ![s] = "none"]
    /\ applied' = [applied EXCEPT ![s] = {}]
    /\ ack' = [ack EXCEPT ![s] = NoReceipt]
    /\ secret' = IF PromptGC THEN [secret EXCEPT ![s] = NoSecret] ELSE secret
    /\ Others({MachineKey(s)})
    /\ UNCHANGED <<group, claim, mesh, node, late, used>>

InfraGone(s) ==
    /\ infra[s] = "deleting" /\ ~machine[s].here
    /\ infra' = [infra EXCEPT ![s] = "none"]
    /\ UNCHANGED <<group, claim, machine, secret, mesh, node, gateway, applied, ack,
                   g, c, j, late, used>>
-----------------------------------------------------------------------------
(* The workload cluster, the peer agents and the gateway attachments.       *)

PodStart(s) ==
    /\ node[s].here /\ node[s].label /\ ~node[s].cordon /\ node[s].pods = "none"
    /\ node' = [node EXCEPT ![s].pods = "running"]
    /\ UNCHANGED <<group, claim, infra, machine, secret, mesh, gateway, applied, ack,
                   g, c, j, late, used>>

PodExit(s) ==
    /\ node[s].pods = "leaving"
    /\ node' = [node EXCEPT ![s].pods = "none"]
    /\ UNCHANGED <<group, claim, infra, machine, secret, mesh, gateway, applied, ack,
                   g, c, j, late, used>>

Running(n) == n \in {Site} \cup {s \in Slot : node[s].here /\ machine[s].here}

\* An agent brings its tunnel to the published peers.
ApplyPeers(n) ==
    /\ Running(n) /\ applied[n] # Published \ {n}
    /\ applied' = [applied EXCEPT ![n] = Published \ {n}]
    /\ ack' = IF PromptAck THEN [ack EXCEPT ![n] = Published \ {n}] ELSE ack
    /\ UNCHANGED <<objects, g, c, j, late, used>>

\* A receipt is the hash of the peers applied, and is refused once they are
\* not the published ones.
AckPeers(n) ==
    /\ Running(n) /\ ack[n] # applied[n] /\ applied[n] = Published \ {n}
    /\ ack' = [ack EXCEPT ![n] = applied[n]]
    /\ UNCHANGED <<objects, applied, g, c, j, late, used>>

\* A request for a worker's gateway is refused once its Machine is marked.
GatewayRequest(s) ==
    /\ used.course.gateways /\ node[s].here /\ machine[s].here /\ machine[s].drain = 0
    /\ gateway[s] = "none"
    /\ gateway' = [gateway EXCEPT ![s] = "live"]
    /\ UNCHANGED <<group, claim, infra, machine, secret, mesh, node, applied, ack,
                   g, c, j, late, used>>

\* The operator deletes a request; the attachment controller completes it.
GatewayDelete(s) ==
    /\ gateway[s] = "live"
    /\ gateway' = [gateway EXCEPT ![s] = "retiring"]
    /\ UNCHANGED <<group, claim, infra, machine, secret, mesh, node, applied, ack,
                   g, c, j, late, used>>

GatewayComplete(s) ==
    /\ gateway[s] = "retiring"
    /\ gateway' = [gateway EXCEPT ![s] = "gone"]
    /\ UNCHANGED <<group, claim, infra, machine, secret, mesh, node, applied, ack,
                   g, c, j, late, used>>
-----------------------------------------------------------------------------
(* Kubernetes: owned objects follow their owner, and a request of a process *)
(* that has restarted may still be carried out.                             *)

CollectSecret(s) ==
    /\ secret[s].uid # 0 /\ (~machine[s].here \/ machine[s].uid # secret[s].uid)
    /\ secret' = [secret EXCEPT ![s] = NoSecret]
    /\ UNCHANGED <<group, claim, infra, machine, mesh, node, gateway, applied, ack,
                   g, c, j, late, used>>

CollectClaim(s) ==
    /\ group.phase = "gone" /\ claim[s].here /\ ~claim[s].del
    /\ claim' = [claim EXCEPT ![s] = IF @.fin THEN [@ EXCEPT !.del = TRUE]
                                              ELSE NoClaim(@.uid)]
    /\ Others({ClaimKey(s)})
    /\ UNCHANGED <<group, infra, machine, secret, mesh, node, gateway, applied, ack, late, used>>

LateCreate(s, id) ==
    /\ <<s, id>> \in late
    /\ late' = late \ {<<s, id>>}
    /\ claim' = IF claim[s].here \/ claim[s].uid = MaxUid THEN claim
                ELSE [claim EXCEPT ![s] = Child(s, id)]
    /\ Others({ClaimKey(s)})
    /\ UNCHANGED <<group, infra, machine, secret, mesh, node, gateway, applied, ack, used>>

Environment ==
    \/ \E n \in 0 .. Slots : Scale(n)
    \/ DeleteGroup
    \/ \E s \in Slot : \/ Launch(s) \/ Register(s) \/ MachineGone(s) \/ InfraGone(s)
                       \/ PodStart(s) \/ PodExit(s)
                       \/ GatewayRequest(s) \/ GatewayDelete(s) \/ GatewayComplete(s)
                       \/ CollectSecret(s) \/ CollectClaim(s)
    \/ \E n \in Consumer : ApplyPeers(n) \/ AckPeers(n)
    \/ \E s \in Slot, id \in 1 .. MaxActions : LateCreate(s, id)
External == Environment \/ \E s \in Slot : DeleteClaim(s)
=============================================================================
