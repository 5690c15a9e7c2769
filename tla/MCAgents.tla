------------------------------ MODULE MCAgents -----------------------------
(***************************************************************************)
(* Five machines of one host for TLC: the network guard, the neighbour     *)
(* permissions, the boot recovery and the transit guard of a worker, and   *)
(* the receivers of a site node. They share no state in the code, so a     *)
(* behaviour exercises the one `part` names and leaves the others in an    *)
(* initial state.                                                          *)
(***************************************************************************)
EXTENDS NetworkGuard, Neighbors, SiteReceivers, HostBoot, TransitGuard, TLC

CONSTANTS k1, k2, a, b, r1, r2, p1, p2, p3, v4, v6, h1, h2

VARIABLE part

Base == [k \in Key |-> IF k = k1 THEN {a} ELSE {}]
MCRank == r1 :> 1 @@ r2 :> 2
MCFamilyOf == p1 :> v4 @@ p2 :> v4 @@ p3 :> v6

mcvars == <<vars, neighborVars, receiverVars, hostVars, transitVars, part>>

MCInit ==
    /\ part \in {"guard", "neighbors", "receivers", "boot", "transit"}
    /\ Init /\ NeighborInit /\ ReceiverInit /\ HostInit /\ TransitInit
    /\ part # "neighbors" => nbReserved = {}
    /\ part # "receivers" => srProposal = Unbound
    /\ part # "boot" => hbInventory.other = "serving"
    /\ part # "transit" => tgTunnel /\ tgRoutes = Empty

Guard ==
    part = "guard" /\ Next /\ UNCHANGED <<neighborVars, receiverVars, hostVars, transitVars, part>>
OneNeighbors ==
    part = "neighbors" /\ NeighborNext /\ UNCHANGED <<vars, receiverVars, hostVars, transitVars, part>>
Receivers ==
    part = "receivers" /\ ReceiverNext /\ UNCHANGED <<vars, neighborVars, hostVars, transitVars, part>>
Boot ==
    part = "boot" /\ HostNext /\ UNCHANGED <<vars, neighborVars, receiverVars, transitVars, part>>
Transit ==
    part = "transit" /\ TransitNext /\ UNCHANGED <<vars, neighborVars, receiverVars, hostVars, part>>

MCNext == Guard \/ OneNeighbors \/ Receivers \/ Boot \/ Transit

\* Each machine's own fairness, asked of the behaviours that exercise it.
MCFairness ==
    /\ WF_vars(part = "guard" /\ Watch) /\ WF_vars(part = "guard" /\ Tick)
    /\ WF_neighborVars(part = "neighbors" /\ (NeighborStep \/ WithdrawalStep))
    /\ WF_receiverVars(part = "receivers" /\ (PrepareStep \/ RetireStep))
    /\ WF_hostVars(part = "boot" /\ AgentStep)
    /\ WF_hostVars(part = "boot" /\ ServiceStep)
    /\ WF_hostVars(part = "boot" /\ Handshake({"hint"}))
    /\ WF_transitVars(part = "transit" /\ Cleanup)
    /\ WF_transitVars(part = "transit" /\ AgentReplaced)

MCSpec == MCInit /\ [][MCNext]_mcvars /\ MCFairness

\* EventuallySettled of the behaviours that exercise the network guard.
GuardSettles == []<>(part = "guard" => Ended)
=============================================================================
