------------------------------ MODULE Neighbors ------------------------------
(***************************************************************************)
(* The ordinary neighbours of one cloud worker: peers of its root device   *)
(* that no handover journal owns, the two files that record them beside    *)
(* the host lock, and the passes that install, retire and withdraw them    *)
(* (cmd/dialer/receive_neighbors*.go, receive_withdraw_neighbors.go and    *)
(* receive_withdraw_cloud*.go).                                            *)
(*                                                                         *)
(* A pass holds the host lock, so passes do not interleave with each other;*)
(* the publication moves under them, and a crash, an API error or a reboot *)
(* ends them between any two durable writes or kernel changes.             *)
(***************************************************************************)
EXTENDS Naturals, FiniteSets

CONSTANTS
    Key,            \* public keys of the other cloud workers
    Source,         \* prefixes a peer may be authorised for
    LegacyBase,     \* [Key -> SUBSET Source]: peers of the journal's base document
    MaxPublish,     \* bound on changes of the mesh publication
    MaxStop         \* bound on crashes, errors and reboots

ASSUME NeighborsAssumption ==
    /\ LegacyBase \in [Key -> SUBSET Source]
    /\ MaxPublish \in Nat /\ MaxStop \in Nat

VARIABLES
    nbReserved,     \* workers of the base document with a journal of their own
    nbPublished,    \* [Key -> SUBSET Source]: the mesh Secret's remote peers
    nbGone,         \* keys that have left the mesh
    nbWithdrawn,    \* reserved workers under a committed withdrawal
    nbMain,         \* .neighbors.json: recorded variants
    nbSide,         \* .neighbors.json.retiring: peers, retiring, candidates
    nbMarker,       \* .neighbors.json.cloud-legacy-<hash>.json exists
    nbDocs,         \* keys in the bootstrap peers file and in the peer cache
    nbPeers,        \* [Key -> SUBSET Source]: peers of the kernel device
    nbRoutes,       \* prefixes with an owned route through the device
    nbDone,         \* withdrawals this host has completed
    nbPass,         \* the pass that holds the lock
    nbPublishes, nbStops

neighborFiles == <<nbMain, nbSide, nbMarker, nbDocs>>
neighborKernel == <<nbPeers, nbRoutes>>
neighborMesh == <<nbReserved, nbPublished, nbGone, nbWithdrawn, nbPublishes>>
neighborVars == <<neighborFiles, neighborKernel, neighborMesh, nbDone, nbPass, nbStops>>

-----------------------------------------------------------------------------
(* A variant is what neighborPermissionIdentity tells apart: a key and its  *)
(* exact source set.                                                        *)

Variant == Key \X ((SUBSET Source) \ {{}})

VariantsOf(peers) == {<<k, peers[k]>> : k \in {j \in Key : peers[j] # {}}}

KeysOf(variants) == {v[1] : v \in variants}

SourcesOf(variants) == UNION {v[2] : v \in variants}

Without(variants, k) == {v \in variants : v[1] # k}

\* Each loop of reconcileNode dispatches withdrawals before the neighbours.
Rest(turn) == [pc |-> "idle", turn |-> turn, want |-> {}, retiring |-> {}, candidates |-> {},
               key |-> {}, left |-> {}, fresh |-> FALSE]

\* A loop that returns to the neighbours after each pass.
neighborsAgain == "neighbors"

AfterPass == IF nbPass.key # {} THEN "neighbors" ELSE "dispatch"

NeighborInit ==
    /\ nbPublished = LegacyBase
    /\ nbGone = {} /\ nbWithdrawn = {} /\ nbDone = {}
    /\ nbMain = {} /\ nbSide = [peers |-> {}, retiring |-> {}, candidates |-> {}]
    /\ nbMarker = FALSE
    /\ nbDocs = [d \in {"bootstrap", "cache"} |-> KeysOf(VariantsOf(LegacyBase))]
    /\ nbPeers = LegacyBase
    /\ nbRoutes = SourcesOf(VariantsOf(LegacyBase))
    /\ nbPass = Rest("dispatch")
    /\ nbReserved \in SUBSET KeysOf(VariantsOf(LegacyBase))
    /\ nbPublishes = 0 /\ nbStops = 0

-----------------------------------------------------------------------------
(* The controller's side.  A key that left the mesh does not come back.     *)

Disjoint(peers) ==
    \A j, k \in Key : j # k => peers[j] \cap peers[k] = {}

PublishPeers(peers) ==
    /\ nbPublishes < MaxPublish
    /\ peers # nbPublished
    /\ Disjoint(peers)
    /\ \A k \in nbGone : peers[k] = {}
    /\ nbPublished' = peers
    /\ nbGone' = nbGone \cup (KeysOf(VariantsOf(nbPublished)) \ KeysOf(VariantsOf(peers)))
    /\ nbPublishes' = nbPublishes + 1
    /\ nbPass' = [nbPass EXCEPT !.fresh = FALSE]
    /\ UNCHANGED <<nbReserved, nbWithdrawn, neighborFiles, neighborKernel, nbDone, nbStops>>

\* A withdrawal removes the worker from the mesh when it is committed.
CommitWithdrawal(k) ==
    /\ nbPublishes < MaxPublish
    /\ k \in nbReserved \ nbWithdrawn /\ nbPublished[k] # {}
    /\ nbGone' = nbGone \cup {k}
    /\ nbWithdrawn' = nbWithdrawn \cup {k}
    /\ nbPublished' = [nbPublished EXCEPT ![k] = {}]
    /\ nbPublishes' = nbPublishes + 1
    /\ nbPass' = [nbPass EXCEPT !.fresh = FALSE]
    /\ UNCHANGED <<nbReserved, neighborFiles, neighborKernel, nbDone, nbStops>>

-----------------------------------------------------------------------------
(* reconcileReceiveNeighbors.                                               *)

\* Peers the journal's base document names, until their import is recorded.
pendingReceiveCloudLegacy == IF nbMarker THEN {} ELSE VariantsOf(LegacyBase)

previousPeers ==
    nbMain \cup nbSide.retiring \cup nbSide.candidates \cup pendingReceiveCloudLegacy

\* No recorded peer may lose a source it is still published for.
validateReceiveNeighborSourceGrowth(previous, peers) ==
    \A v \in previous : peers[v[1]] # {} => v[2] \subseteq peers[v[1]]

\* Every variant of a wanted key that the kernel may hold.
candidatesFor(previous, want) ==
    {v \in previous \cup want : v[1] \in KeysOf(want)}

planReceiveNeighborRetirements(previous, want) ==
    {v \in previous : v[1] \notin KeysOf(want)}

\* Only a reserved worker may own the prefixes its journal protects.
Projected(want) ==
    \A v \in want : \A k \in nbReserved \ (nbDone \cup {v[1]}) : v[2] \cap LegacyBase[k] = {}

\* Variants the bootstrap documents and the journal graphs record.
recordedVariants(k) == {v \in VariantsOf(LegacyBase) : v[1] = k}

withdrawnVariants(k) ==
    {v \in nbMain \cup nbSide.peers \cup nbSide.retiring \cup nbSide.candidates : v[1] = k}
        \cup recordedVariants(k)

\* PlanReceiveWithdrawnNeighborPeers: no published peer overlaps what goes.
Withdrawable(k) ==
    /\ Projected(VariantsOf(nbPublished))
    /\ SourcesOf(withdrawnVariants(k)) \cap SourcesOf(VariantsOf(nbPublished)) = {}

PlanNeighbors ==
    /\ nbPass.pc = "idle"
    /\ nbPass.turn = "neighbors" \/ ~\E k \in nbWithdrawn \ nbDone : Withdrawable(k)
    /\ Projected(VariantsOf(nbPublished))
    /\ validateReceiveNeighborSourceGrowth(previousPeers, nbPublished)
    /\ LET want == VariantsOf(nbPublished) IN
       nbPass' = [Rest("neighbors") EXCEPT !.pc = "side", !.want = want, !.fresh = TRUE,
                     !.retiring = planReceiveNeighborRetirements(previousPeers, want),
                     !.candidates = candidatesFor(previousPeers, want)]
    /\ UNCHANGED <<neighborFiles, neighborKernel, neighborMesh, nbDone, nbStops>>

WriteRetiring ==
    /\ nbPass.pc = "side" /\ nbPass.fresh
    /\ nbSide' = [peers |-> nbPass.want, retiring |-> nbPass.retiring,
                  candidates |-> nbPass.candidates]
    /\ nbPass' = [nbPass EXCEPT !.pc = "main"]
    /\ UNCHANGED <<nbMain, nbMarker, nbDocs, neighborKernel, neighborMesh, nbDone, nbStops>>

WriteNeighbors ==
    /\ nbPass.pc = "main"
    /\ nbMain' = nbPass.want
    /\ nbPass' = [nbPass EXCEPT !.pc = "import"]
    /\ UNCHANGED <<nbSide, nbMarker, nbDocs, neighborKernel, neighborMesh, nbDone, nbStops>>

ImportLegacy ==
    /\ nbPass.pc = "import" /\ nbPass.fresh
    /\ nbMarker' = TRUE
    /\ nbPass' = [nbPass EXCEPT !.pc = "admit"]
    /\ UNCHANGED <<nbMain, nbSide, nbDocs, neighborKernel, neighborMesh, nbDone, nbStops>>

-----------------------------------------------------------------------------
(* retireReceiveNeighbors, shared by both passes: routes drain first, then  *)
(* the exact recorded peers go one at a time.                               *)

admitReceiveNeighborRetirement(retiring) ==
    \A v \in VariantsOf(nbPeers) :
        IF v[1] \in KeysOf(retiring) THEN v \in retiring
        ELSE v[2] \cap SourcesOf(retiring) = {}

AdmitRetirement ==
    /\ nbPass.pc = "admit"
    /\ admitReceiveNeighborRetirement(nbPass.retiring)
    /\ nbPass' = [nbPass EXCEPT !.pc = "drain",
                     !.left = {v[1] : v \in VariantsOf(nbPeers) \cap nbPass.retiring}]
    /\ UNCHANGED <<neighborFiles, neighborKernel, neighborMesh, nbDone, nbStops>>

DrainRoute(s) ==
    /\ nbPass.pc = "drain"
    /\ s \in nbRoutes \cap SourcesOf(nbPass.retiring)
    /\ nbRoutes' = nbRoutes \ {s}
    /\ UNCHANGED <<neighborFiles, nbPeers, neighborMesh, nbDone, nbPass, nbStops>>

RemoveUndrained(k) ==
    /\ nbPass.pc = "drain" /\ k \in nbPass.left
    /\ nbPeers' = [nbPeers EXCEPT ![k] = {}]
    /\ nbPass' = [nbPass EXCEPT !.left = @ \ {k}]
    /\ UNCHANGED <<neighborFiles, nbRoutes, neighborMesh, nbDone, nbStops>>

\* withdrawLegacyReceivePeer refuses while a route overlaps the peer's sources.
RemovePeer(k) ==
    /\ nbPass.pc = "drain" /\ k \in nbPass.left
    /\ nbRoutes \cap SourcesOf(nbPass.retiring) = {}
    /\ nbPeers' = [nbPeers EXCEPT ![k] = {}]
    /\ nbPass' = [nbPass EXCEPT !.left = @ \ {k}]
    /\ UNCHANGED <<neighborFiles, nbRoutes, neighborMesh, nbDone, nbStops>>

Drained ==
    /\ nbPass.pc = "drain" /\ nbPass.left = {}
    /\ nbRoutes \cap SourcesOf(nbPass.retiring) = {}

-----------------------------------------------------------------------------
(* commitRetirement, then reconcileReceiveNeighborPartition.                *)

CommitRetirement ==
    /\ Drained /\ nbPass.key = {} /\ nbPass.fresh
    /\ nbSide' = [peers |-> nbPass.want, retiring |-> {}, candidates |-> nbPass.candidates]
    /\ nbPass' = [nbPass EXCEPT !.pc = "install"]
    /\ UNCHANGED <<nbMain, nbMarker, nbDocs, neighborKernel, neighborMesh, nbDone, nbStops>>

\* A peer grows, and no other live peer owns a source it is given.
Installable ==
    \A v \in nbPass.want :
        /\ nbPeers[v[1]] \subseteq v[2]
        /\ \A j \in Key \ {v[1]} : nbPeers[j] \cap v[2] = {}

InstallPeers ==
    /\ nbPass.pc = "install" /\ Installable
    /\ nbPeers' = [k \in Key |-> IF k \in KeysOf(nbPass.want) THEN SourcesOf({v \in nbPass.want : v[1] = k})
                                                              ELSE nbPeers[k]]
    /\ nbPass' = [nbPass EXCEPT !.pc = "routes"]
    /\ UNCHANGED <<neighborFiles, nbRoutes, neighborMesh, nbDone, nbStops>>

InstallRoute(s) ==
    /\ nbPass.pc = "routes"
    /\ s \in SourcesOf(nbPass.want) \ nbRoutes
    /\ nbRoutes' = nbRoutes \cup {s}
    /\ UNCHANGED <<neighborFiles, nbPeers, neighborMesh, nbDone, nbPass, nbStops>>

\* Readback resolved the ambiguity: no candidate is kept as deletion authority.
FinishNeighbors ==
    /\ nbPass.pc = "routes" /\ nbPass.fresh
    /\ SourcesOf(nbPass.want) \subseteq nbRoutes
    /\ nbSide' = [peers |-> nbPass.want, retiring |-> {}, candidates |-> {}]
    /\ nbPass' = Rest(AfterPass)
    /\ UNCHANGED <<nbMain, nbMarker, nbDocs, neighborKernel, neighborMesh, nbDone, nbStops>>

-----------------------------------------------------------------------------
(* retireAdmittedCloudNeighborLocked and retireWithdrawnNeighborCaches.     *)

PlanWithdrawal(k) ==
    /\ nbPass.pc = "idle" /\ nbPass.turn = "dispatch"
    /\ k \in nbWithdrawn \ nbDone /\ Withdrawable(k)
    /\ nbPass' = [Rest("dispatch") EXCEPT !.pc = "withdraw", !.key = {k}, !.fresh = TRUE,
                     !.retiring = withdrawnVariants(k)]
    /\ UNCHANGED <<neighborFiles, neighborKernel, neighborMesh, nbDone, nbStops>>

WriteWithdrawal ==
    /\ nbPass.pc = "withdraw" /\ nbPass.fresh
    /\ nbSide' = [nbSide EXCEPT !.retiring = @ \cup nbPass.retiring]
    /\ nbPass' = [nbPass EXCEPT !.pc = "admit"]
    /\ UNCHANGED <<nbMain, nbMarker, nbDocs, neighborKernel, neighborMesh, nbDone, nbStops>>

\* The main file goes first; the sidecar keeps the evidence until it has.
DropFromMain ==
    /\ Drained /\ nbPass.key # {} /\ nbPass.fresh
    /\ \E k \in nbPass.key :
          /\ nbPeers[k] = {}
          /\ nbMain' = Without(nbMain, k)
    /\ nbPass' = [nbPass EXCEPT !.pc = "sidecar"]
    /\ UNCHANGED <<nbSide, nbMarker, nbDocs, neighborKernel, neighborMesh, nbDone, nbStops>>

DropFromSide ==
    /\ nbPass.pc = "sidecar"
    /\ \E k \in nbPass.key :
          nbSide' = [peers |-> Without(nbSide.peers, k),
                     retiring |-> Without(nbSide.retiring, k),
                     candidates |-> Without(nbSide.candidates, k)]
    /\ nbPass' = [nbPass EXCEPT !.pc = "docs", !.left = DOMAIN nbDocs]
    /\ UNCHANGED <<nbMain, nbMarker, nbDocs, neighborKernel, neighborMesh, nbDone, nbStops>>

commitWithdrawnCloudCaches(d) ==
    /\ nbPass.pc = "docs" /\ d \in nbPass.left
    /\ nbPass.left = DOMAIN nbDocs => nbPass.fresh
    /\ d = "cache" => nbPass.left = {"cache"}
    /\ nbDocs' = [nbDocs EXCEPT ![d] = @ \ nbPass.key]
    /\ nbPass' = [nbPass EXCEPT !.left = @ \ {d}]
    /\ UNCHANGED <<nbMain, nbSide, nbMarker, neighborKernel, neighborMesh, nbDone, nbStops>>

\* The executor rechecks the withdrawal before it reports completion.
FinishWithdrawal ==
    /\ nbPass.pc = "docs" /\ nbPass.left = {} /\ nbPass.fresh
    /\ nbDone' = nbDone \cup nbPass.key
    /\ nbPass' = Rest(AfterPass)
    /\ UNCHANGED <<neighborFiles, neighborKernel, neighborMesh, nbStops>>

-----------------------------------------------------------------------------
(* Any pass may end: a failed check, an API error, a deadline, a crash.  A  *)
(* reboot also empties the kernel; the boot service does not replay         *)
(* ordinary peers (readReceiveBootNeighborFiles).                           *)

StopPass ==
    /\ nbPass.pc # "idle" /\ nbStops < MaxStop
    /\ \E turn \in {AfterPass, "dispatch"} : nbPass' = Rest(turn)
    /\ nbStops' = nbStops + 1
    /\ UNCHANGED <<neighborFiles, neighborKernel, neighborMesh, nbDone>>

\* A stale or refused pass returns its error and releases the lock.
RefusePass ==
    /\ \/ /\ nbPass.pc \in {"side", "import", "install", "withdraw", "routes", "docs", "drain"}
          /\ ~nbPass.fresh
       \/ /\ nbPass.pc = "admit"
          /\ ~admitReceiveNeighborRetirement(nbPass.retiring)
       \/ nbPass.pc = "install" /\ ~Installable
    /\ nbPass' = Rest(AfterPass)
    /\ UNCHANGED <<neighborFiles, neighborKernel, neighborMesh, nbDone, nbStops>>

HostReboot ==
    /\ nbStops < MaxStop
    /\ nbPeers' = [k \in Key |-> {}] /\ nbRoutes' = {}
    /\ nbPass' = Rest("dispatch") /\ nbStops' = nbStops + 1
    /\ UNCHANGED <<neighborFiles, neighborMesh, nbDone>>

NeighborStep ==
    \/ PlanNeighbors \/ WriteRetiring \/ WriteNeighbors \/ ImportLegacy
    \/ AdmitRetirement \/ (\E s \in Source : DrainRoute(s)) \/ (\E k \in Key : RemovePeer(k))
    \/ CommitRetirement \/ InstallPeers \/ (\E s \in Source : InstallRoute(s)) \/ FinishNeighbors
    \/ RefusePass

WithdrawalStep ==
    \/ \E k \in Key : PlanWithdrawal(k)
    \/ WriteWithdrawal \/ DropFromMain \/ DropFromSide
    \/ \E d \in DOMAIN nbDocs : commitWithdrawnCloudCaches(d)
    \/ FinishWithdrawal

NeighborNext ==
    \/ NeighborStep \/ WithdrawalStep
    \/ \E peers \in [Key -> SUBSET Source] : PublishPeers(peers)
    \/ \E k \in Key : CommitWithdrawal(k)
    \/ StopPass \/ HostReboot

NeighborSpec == NeighborInit /\ [][NeighborNext]_neighborVars

-----------------------------------------------------------------------------
(* Properties.                                                              *)

\* What the kernel holds for ordinary peers is accounted for at every step of
\* every pass: a file records each permission exactly, so that a crash anywhere
\* leaves enough to retire it (receive_neighbors.go:386-415), and each route
\* leads to a peer with that permission, which drains after the route and is
\* installed before it (receive_neighbors_retire.go).  Once a host reported a
\* withdrawal, no file and no kernel state names the worker again, whatever
\* passes, crashes and reboots follow.
NeighborsAccounted ==
    /\ VariantsOf(nbPeers) \subseteq previousPeers
    /\ nbRoutes \subseteq SourcesOf(VariantsOf(nbPeers))
    /\ \A k \in nbDone :
          /\ nbPeers[k] = {}
          /\ k \notin KeysOf(nbMain \cup nbSide.peers \cup nbSide.candidates)
          /\ \A d \in DOMAIN nbDocs : k \notin nbDocs[d]

\* Maintenance and withdrawals, which take the host lock in turn, both come to
\* their end: the kernel comes to hold exactly the publication, unless the
\* planner refuses it (a peer shrinks, or a prefix is a journal's), and every
\* committed withdrawal is completed, unless a published peer claims one of the
\* withdrawn worker's prefixes. No crash leaves an intent that blocks them.
NeighborsSettle ==
    /\ []<>(\/ /\ nbPass.pc = "idle"
               /\ nbPeers = nbPublished /\ nbRoutes = SourcesOf(VariantsOf(nbPublished))
            \/ ~validateReceiveNeighborSourceGrowth(previousPeers, nbPublished)
            \/ ~Projected(VariantsOf(nbPublished)))
    /\ []<>(\A k \in nbWithdrawn : k \in nbDone \/ ~Withdrawable(k))

\* The agent's loop runs and errors do not recur for ever.
NeighborFairness == WF_neighborVars(NeighborStep \/ WithdrawalStep)

=============================================================================
