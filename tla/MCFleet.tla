------------------------------ MODULE MCFleet ------------------------------
(***************************************************************************)
(* Two machines of the fleet for TLC: the gateway attachments of the cloud *)
(* workers and the placement of the site's tunnel endpoints. They share no *)
(* state here, so a behaviour exercises the one `part` names and leaves    *)
(* the other in its initial state.                                         *)
(***************************************************************************)
EXTENDS GatewayAttachment, SiteMesh

CONSTANTS w1, w2, g1, r1

VARIABLE part

MCLease == Worker \X (1 .. MaxLease)
Selections == {{1}, {2, 3}}

mcvars == <<gatewayVars, placementVars, part>>

MCInit ==
    /\ part \in {"gateway", "mesh"} /\ GatewayInit /\ MeshInit
    /\ part = "mesh" => gaClaim = [w \in Worker |-> g1]

Attachments == part = "gateway" /\ GatewayNext /\ UNCHANGED <<placementVars, part>>
Placement == part = "mesh" /\ MeshNext /\ UNCHANGED <<gatewayVars, part>>

MCNext == Attachments \/ Placement

\* Each machine's own fairness, asked of the behaviours that exercise it.
MCFairness ==
    /\ WF_gatewayVars(part = "gateway" /\ GatewayProgress)
    /\ WF_placementVars(part = "mesh" /\ MeshStep)

MCSpec == MCInit /\ [][MCNext]_mcvars /\ MCFairness
=============================================================================
