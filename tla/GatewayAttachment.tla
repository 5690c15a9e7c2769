------------------------- MODULE GatewayAttachment -------------------------
(***************************************************************************)
(* Gateway attachments (pkg/attachment, pkg/attachment/runtime): a worker  *)
(* behind a NAT is reached through a gateway while its attachment is       *)
(* published.  A claim naming a gateway makes a request; the request       *)
(* controller takes each request's record through Preparing, Publishing,   *)
(* Ready, Withdrawing, Releasing and Complete.  A lease holds the Machines *)
(* it needs with CAPI deletion hooks, the EC2 resources with journals, and *)
(* its place in the mesh with a publication record naming the recipients   *)
(* that must acknowledge its withdrawal.                                   *)
(*                                                                         *)
(* Every step is one write, and is derived from what is stored: a pass     *)
(* that stops anywhere, and the one after it, are runs of such steps.      *)
(***************************************************************************)
EXTENDS GatewayResources

CONSTANTS
    Worker,          \* worker Machines; each has one claim and one request
    Site,            \* the site node
    Late,            \* Machines that have not joined at first
    MaxLease,        \* bound: leases of one worker
    MaxEvent,        \* bound: claims changed, Machines deleted, resources drifting
    PromptReceipt    \* whether an agent's receipt follows before the next change

LeaseOf(w, n) == <<w, n>>
Owner(l) == l[1]
Remote == Worker \cup Gateway
Recipient == Remote \cup {Site}
ActivePhase == {"Preparing", "Publishing", "Ready"}

ASSUME GatewayAssumption ==
    /\ Lease = Worker \X (1 .. MaxLease)
    /\ {MaxLease, MaxEvent} \subseteq Nat
    /\ PromptReceipt \in BOOLEAN
    /\ Worker \cap Gateway = {} /\ Site \notin Remote /\ None \notin Gateway
    /\ Late \subseteq Remote /\ Checked \subseteq Gateway

VARIABLES
    gaClaim,       \* gateway each worker's claim names, or None
    gaRequest,     \* the request: stage, lifecycle finalizer, gateway named
    gaRecord,      \* its attachment record: phase, lease number, gateway
    gaMachine,     \* life of each Machine, its Node and its published key
    gaHold,        \* deletion hooks: which leases hold each Machine
    gaIntent,      \* publication record of each lease
    gaProjection,  \* leases projected in the mesh Secret
    gaRetiring,    \* those of them whose worker is told to fall back
    gaView,        \* leases in the configuration each agent runs
    gaReceipt,     \* leases in the configuration it last acknowledged
    gaTransport,   \* lease that owns each worker's native CNI address, or None
    gaEvents       \* such events so far

gatewayVars == <<gaClaim, gaRequest, gaRecord, gaMachine, gaHold, gaIntent, gaProjection,
                 gaRetiring, gaView, gaReceipt, gaTransport, gaEvents, resourceVars>>
meshVars == <<gaProjection, gaRetiring>>
agentVars == <<gaView, gaReceipt>>
userVars == <<gaClaim, gaEvents>>

Event == gaEvents < MaxEvent /\ gaEvents' = gaEvents + 1

NoRequest == [stage |-> "absent", owned |-> FALSE, gateway |-> None]
NoRecord == [phase |-> "none", lease |-> 0, gateway |-> None]
NoIntent == [stage |-> "none", to |-> {}]

GatewayInit ==
    /\ ResourceInit
    /\ gaClaim \in [Worker -> Gateway]
    /\ gaRequest = [w \in Worker |-> NoRequest]
    /\ gaRecord = [w \in Worker |-> NoRecord]
    /\ gaMachine = [m \in Remote |-> IF m \in Late THEN "joining" ELSE "live"]
    /\ gaHold = [m \in Remote |-> {}]
    /\ gaIntent = [l \in Lease |-> NoIntent]
    /\ gaProjection = {} /\ gaRetiring = {}
    /\ gaView = [c \in Recipient |-> {}]
    /\ gaReceipt = [c \in Recipient |-> {}]
    /\ gaTransport = [w \in Worker |-> None]
    /\ gaEvents = 0

(***************************************************************************)
(* Machines.  A deleting Machine stays while a lease holds it; its key     *)
(* leaves the mesh after it (pruneDeletedMachines).                        *)
(***************************************************************************)
Published == {m \in Remote : gaMachine[m] \in {"live", "leaving", "terminated"}}

MachineStep(m) ==
    /\ \/ gaMachine[m] = "joining" /\ gaMachine' = [gaMachine EXCEPT ![m] = "live"]
       \/ /\ gaMachine[m] = "leaving" /\ gaHold[m] = {}
          /\ gaMachine' = [gaMachine EXCEPT ![m] = "terminated"]
       \/ gaMachine[m] = "terminated" /\ gaMachine' = [gaMachine EXCEPT ![m] = "gone"]
    /\ UNCHANGED <<userVars, gaRequest, gaRecord, gaHold, gaIntent, meshVars, agentVars, gaTransport, resourceVars>>

DeleteMachine(m) ==
    /\ Event /\ gaMachine[m] = "live"
    /\ gaMachine' = [gaMachine EXCEPT ![m] = "leaving"]
    /\ UNCHANGED <<gaClaim, gaRequest, gaRecord, gaHold, gaIntent, meshVars, agentVars, gaTransport, resourceVars>>

(***************************************************************************)
(* Agents apply what the mesh renders for them: a worker whose projection  *)
(* is retiring no longer has it, every other recipient still does.         *)
(***************************************************************************)
Rendered(c) == {l \in gaProjection : ~(c = Owner(l) /\ l \in gaRetiring)}
Running == {Site} \cup {m \in Remote : gaMachine[m] \in {"live", "leaving"}}

Apply(c) ==
    /\ c \in Running /\ gaView[c] # Rendered(c)
    /\ gaView' = [gaView EXCEPT ![c] = Rendered(c)]
    /\ gaReceipt' = IF PromptReceipt THEN [gaReceipt EXCEPT ![c] = Rendered(c)] ELSE gaReceipt
    /\ UNCHANGED <<userVars, gaRequest, gaRecord, gaMachine, gaHold, gaIntent, meshVars, gaTransport, resourceVars>>

Acknowledge(c) ==
    /\ c \in Running /\ gaReceipt[c] # gaView[c] /\ gaView[c] = Rendered(c)
    /\ gaReceipt' = [gaReceipt EXCEPT ![c] = gaView[c]]
    /\ UNCHANGED <<userVars, gaRequest, gaRecord, gaMachine, gaHold, gaIntent, meshVars, gaView, gaTransport, resourceVars>>

(***************************************************************************)
(* Claims and requests.                                                    *)
(***************************************************************************)
EditClaim(w) ==
    /\ Event
    /\ \E g \in (Gateway \cup {None}) \ {gaClaim[w]} : gaClaim' = [gaClaim EXCEPT ![w] = g]
    /\ UNCHANGED <<gaRequest, gaRecord, gaMachine, gaHold, gaIntent, meshVars, agentVars, gaTransport, resourceVars>>

\* RequestSource.Request derives a request only from running Machines.
Derivable(w) == gaClaim[w] # None /\ gaMachine[w] = "live" /\ gaMachine[gaClaim[w]] = "live"

\* GatewayClaims.Reconcile: a request of the claim is made, brought up to
\* date, or deleted; deletion waits for the lifecycle finalizer.  A request
\* made again has another UID, hence another record.
GatewayClaims(w) ==
    /\ \/ /\ gaClaim[w] = None /\ gaRequest[w].stage = "present"
          /\ gaRequest' = [gaRequest EXCEPT ![w] =
                IF gaRequest[w].owned THEN [@ EXCEPT !.stage = "deleting"] ELSE NoRequest]
          /\ UNCHANGED gaRecord
       \/ /\ Derivable(w) /\ gaRequest[w].stage = "absent" /\ gaRecord[w].lease < MaxLease
          /\ gaRequest' = [gaRequest EXCEPT ![w] =
                [stage |-> "present", owned |-> FALSE, gateway |-> gaClaim[w]]]
          /\ gaRecord' = [gaRecord EXCEPT ![w] = [NoRecord EXCEPT !.lease = gaRecord[w].lease]]
       \/ /\ Derivable(w) /\ gaRequest[w].stage # "absent" /\ gaRequest[w].gateway # gaClaim[w]
          /\ gaRequest' = [gaRequest EXCEPT ![w].gateway = gaClaim[w]]
          /\ UNCHANGED gaRecord
    /\ UNCHANGED <<userVars, gaMachine, gaHold, gaIntent, meshVars, agentVars, gaTransport, resourceVars>>

(***************************************************************************)
(* The request controller (RequestController.Reconcile, Reconciler.Step).  *)
(***************************************************************************)
Current(w) == LeaseOf(w, gaRecord[w].lease)
Participants(w) == {w, gaRecord[w].gateway}
Held(w) == \E m \in Remote : Current(w) \in gaHold[m]
Protected(w) == \A m \in Participants(w) : Current(w) \in gaHold[m]
Desired(w) == IF gaRequest[w].stage = "present" THEN gaRequest[w].gateway ELSE None
Idle(w) == gaRecord[w].phase \in {"none", "Complete"}

Own(w) ==
    /\ gaRequest[w].stage = "present" /\ ~gaRequest[w].owned
    /\ gaRequest' = [gaRequest EXCEPT ![w].owned = TRUE]
    /\ UNCHANGED <<userVars, gaRecord, gaMachine, gaHold, gaIntent, meshVars, agentVars, gaTransport, resourceVars>>

Begin(w) ==
    /\ gaRequest[w].owned /\ Idle(w) /\ ~Held(w) /\ Desired(w) # None
    /\ gaRecord[w].lease < MaxLease
    /\ gaRecord' = [gaRecord EXCEPT ![w] =
            [phase |-> "Preparing", lease |-> @.lease + 1, gateway |-> Desired(w)]]
    /\ UNCHANGED <<userVars, gaRequest, gaMachine, gaHold, gaIntent, meshVars, agentVars, gaTransport, resourceVars>>

\* The finalizer goes once the record is complete and its hooks are gone.
Finish(w) ==
    /\ gaRequest[w].stage = "deleting" /\ Idle(w) /\ ~Held(w)
    /\ gaRequest' = [gaRequest EXCEPT ![w] = NoRequest]
    /\ UNCHANGED <<userVars, gaRecord, gaMachine, gaHold, gaIntent, meshVars, agentVars, gaTransport, resourceVars>>

\* CAPILifetime.Protect: the participants are held one by one while both are
\* there; once one is leaving the request itself is deleted.
Protect(w) ==
    /\ gaRequest[w].owned /\ gaRecord[w].phase \in ActivePhase /\ Desired(w) = gaRecord[w].gateway
    /\ \/ /\ \E m \in Participants(w) : gaMachine[m] # "live"
          /\ gaRequest' = [gaRequest EXCEPT ![w].stage = "deleting"]
          /\ UNCHANGED gaHold
       \/ /\ \A m \in Participants(w) : gaMachine[m] = "live"
          /\ \E m \in Participants(w) :
                Current(w) \notin gaHold[m] /\ gaHold' = [gaHold EXCEPT ![m] = @ \cup {Current(w)}]
          /\ UNCHANGED gaRequest
    /\ UNCHANGED <<userVars, gaRecord, gaMachine, gaIntent, meshVars, agentVars, gaTransport, resourceVars>>

Transit(w, phase) ==
    /\ gaRecord' = [gaRecord EXCEPT ![w].phase = phase]
    /\ UNCHANGED <<userVars, gaRequest, gaMachine, gaHold, gaIntent, meshVars, agentVars, gaTransport, resourceVars>>

\* Withdrawal is recorded before anything is removed.
BeginWithdraw(w) ==
    /\ gaRequest[w].owned /\ gaRecord[w].phase \in ActivePhase /\ Desired(w) # gaRecord[w].gateway
    /\ Transit(w, "Withdrawing")

\* A pass that has found its Machines protected goes on with what it read of
\* the request, whatever becomes of the request meanwhile.
Ensure(w) ==
    /\ gaRecord[w].phase \in ActivePhase /\ Protected(w)
    /\ EnsureResources(Current(w), gaRecord[w].gateway)
    /\ UNCHANGED <<userVars, gaRequest, gaRecord, gaMachine, gaHold, gaIntent, meshVars, agentVars, gaTransport>>

Prepared(w) ==
    /\ gaRecord[w].phase = "Preparing" /\ Protected(w) /\ Ensured(Current(w), gaRecord[w].gateway)
    /\ Transit(w, "Publishing")

(***************************************************************************)
(* Publication.                                                            *)
(***************************************************************************)
Recipients == Published \cup {Site}

\* (A Machine being deleted that counts as lost although it is held.)
ResolvableLive(w) ==
    Participants(w) \subseteq Published /\ \A m \in Published : gaMachine[m] = "live"

\* MeshConsumerResolver.Resolve: every published participant is there, or is
\* leaving but held.
Resolvable(w) ==
    /\ Participants(w) \subseteq Published
    /\ \A m \in Published : gaMachine[m] = "live" \/ (gaMachine[m] = "leaving" /\ gaHold[m] # {})

\* MeshConsumerResolver.Refresh: a retained recipient is dropped only on proof
\* that it retired.
Refreshed(w) ==
    Resolvable(w) /\ \A c \in gaIntent[Current(w)].to \ Recipients : c # Site /\ gaMachine[c] = "gone"

\* The recipients of a pass, all of them already in the record.
Known(w) == Refreshed(w) /\ Recipients \subseteq gaIntent[Current(w)].to


\* ConsumerVerifier.Applied.
Applied(to) == to \subseteq Running /\ \A c \in to : gaReceipt[c] = Rendered(c)

SetIntent(w, intent) ==
    /\ gaIntent' = [gaIntent EXCEPT ![Current(w)] = intent]
    /\ UNCHANGED <<userVars, gaRequest, gaRecord, gaMachine, gaHold, meshVars, agentVars, gaTransport, resourceVars>>

SetMesh(projection, retiring) ==
    /\ gaProjection' = projection /\ gaRetiring' = retiring
    /\ UNCHANGED <<userVars, gaRequest, gaRecord, gaMachine, gaHold, gaIntent, agentVars, gaTransport, resourceVars>>

SetTransport(w, l) ==
    /\ gaTransport' = [gaTransport EXCEPT ![w] = l]
    /\ UNCHANGED <<userVars, gaRequest, gaRecord, gaMachine, gaHold, gaIntent, meshVars, agentVars, resourceVars>>

\* A new recipient is recorded before its acknowledgement counts.
Extend(w) ==
    /\ Refreshed(w) /\ ~(Recipients \subseteq gaIntent[Current(w)].to)
    /\ SetIntent(w, [gaIntent[Current(w)] EXCEPT !.to = @ \cup Recipients])

Publish(w) ==
    LET l == Current(w)
    IN  /\ gaRecord[w].phase \in {"Publishing", "Ready"} /\ Protected(w)
        /\ Ensured(l, gaRecord[w].gateway)
        /\ \/ /\ gaIntent[l].stage = "none" /\ Resolvable(w)
              /\ SetIntent(w, [stage |-> "live", to |-> Recipients])
           \/ /\ gaIntent[l].stage = "live" /\ l \notin gaProjection
              /\ SetMesh(gaProjection \cup {l}, gaRetiring)
           \/ l \in gaProjection /\ Extend(w)
           \/ /\ l \in gaProjection /\ Known(w) /\ Applied(Recipients)
              /\ \/ gaTransport[w] = None /\ SetTransport(w, l)
                 \/ gaTransport[w] = l /\ gaRecord[w].phase = "Publishing" /\ Transit(w, "Ready")

\* A ready attachment that a pass cannot confirm is published again; so is one
\* whose pass fails.
Confirmed(w) == Ensured(Current(w), gaRecord[w].gateway) /\ Known(w) /\ Applied(Recipients)

Demote(w) ==
    /\ gaRecord[w].phase = "Ready" /\ gaRecord' = [gaRecord EXCEPT ![w].phase = "Publishing"]
    /\ Event \/ (~Confirmed(w) /\ UNCHANGED gaEvents)
    /\ UNCHANGED <<gaClaim, gaRequest, gaMachine, gaHold, gaIntent, meshVars, agentVars, gaTransport, resourceVars>>

\* GatewayPublication.Withdraw: the worker falls back first, then its native
\* address goes, then every other recipient drops the lease.
FellBack(w) == Known(w) /\ Applied({w})

Withdraw(w) ==
    LET l == Current(w)
    IN  /\ gaRecord[w].phase = "Withdrawing"
        /\ \/ gaIntent[l].stage # "live" /\ Transit(w, "Releasing")
           \/ /\ gaIntent[l].stage = "live"
              /\ \/ l \in gaProjection \ gaRetiring /\ SetMesh(gaProjection, gaRetiring \cup {l})
                 \/ l \in gaRetiring /\ Extend(w)
                 \/ /\ l \in gaRetiring /\ FellBack(w)
                    /\ \/ gaTransport[w] = l /\ SetTransport(w, None)
                       \/ gaTransport[w] # l /\ SetMesh(gaProjection \ {l}, gaRetiring \ {l})
                 \/ l \notin gaProjection /\ Extend(w)
                 \/ /\ l \notin gaProjection /\ Known(w) /\ Applied(Recipients)
                    /\ SetIntent(w, [gaIntent[l] EXCEPT !.stage = "retired"])

Release(w) ==
    /\ gaRecord[w].phase = "Releasing"
    /\ \/ /\ ReleaseResources(Current(w), gaRecord[w].gateway)
          /\ UNCHANGED <<userVars, gaRequest, gaRecord, gaMachine, gaHold, gaIntent, meshVars, agentVars, gaTransport>>
       \/ Released(Current(w)) /\ Transit(w, "Complete")

\* CAPILifetime.Release, after completion is recorded.
ReleaseHold(w) ==
    /\ gaRecord[w].phase = "Complete"
    /\ \E m \in Participants(w) :
            /\ Current(w) \in gaHold[m]
            /\ gaHold' = [gaHold EXCEPT ![m] = @ \ {Current(w)}]
    /\ UNCHANGED <<userVars, gaRequest, gaRecord, gaMachine, gaIntent, meshVars, agentVars, gaTransport, resourceVars>>

RequestPass(w) ==
    \/ Own(w) \/ Begin(w) \/ Finish(w) \/ Protect(w) \/ BeginWithdraw(w) \/ Ensure(w)
    \/ Prepared(w) \/ Publish(w) \/ Withdraw(w) \/ Release(w) \/ ReleaseHold(w)

\* Controllers, agents and CAPI go on; each has only finitely much to do after
\* an event, so none can keep the others waiting.
GatewayProgress ==
    \/ \E w \in Worker : GatewayClaims(w) \/ RequestPass(w)
    \/ \E m \in Remote : MachineStep(m)
    \/ \E c \in Recipient : Apply(c) \/ Acknowledge(c)

GatewayNext ==
    \/ GatewayProgress
    \/ \E w \in Worker : EditClaim(w) \/ Demote(w)
    \/ \E m \in Remote : DeleteMachine(m)
    \/ Event /\ Drift /\ UNCHANGED <<gaClaim, gaRequest, gaRecord, gaMachine, gaHold, gaIntent, meshVars, agentVars, gaTransport>>

GatewayFairness == WF_gatewayVars(GatewayProgress)

GatewaySpec == GatewayInit /\ [][GatewayNext]_gatewayVars /\ GatewayFairness

\* What a lease has while it may carry traffic: its journals name it, its
\* route leads to its gateway, and its Machines are there.
Carried(l) ==
    LET w == Owner(l)
        g == gaRecord[w].gateway
    IN  /\ l = Current(w) /\ gaRecord[w].phase \in {"Publishing", "Ready", "Withdrawing"}
        /\ gwBinding[l] = "bound"
        /\ l \in gwCheck[g].leases /\ l \in gwIngress.leases /\ l \in gwRoute.leases
        /\ gwRoute.target = g
        /\ Participants(w) \subseteq Running
        /\ gwDrifted \/ (~gwCloud.check[g] /\ gwCloud.rule /\ gwCloud.route = g)

(***************************************************************************)
(* Properties.                                                             *)
(***************************************************************************)

\* As long as the agent of any running node still routes a worker through its
\* gateway, the gateway's resources and both Machines are kept for that lease
\* (Reconciler.Step releases after GatewayPublication.Withdraw, which waits
\* for every recipient, those that joined since included).
\* When no lease is bound any more the route and the permission are gone and
\* every interface has the check it had before the first lease, whatever was
\* interrupted and however the leases overlapped (unless someone else changed
\* them).  And while a worker's node has its native address, the site still
\* reaches it through the gateway (CalicoTransport.Ensure comes after every
\* recipient has applied the projection, Restore before it is withdrawn).
ForwardingFollowsUse ==
    /\ \A w \in Worker : gaTransport[w] # None => gaTransport[w] \in gaView[Site]
    /\ \A c \in Running : \A l \in gaView[c] : Carried(l)
    /\ (~gwDrifted /\ \A l \in Lease : gwBinding[l] # "bound") =>
          /\ ~gwCloud.rule /\ gwCloud.route = None
          /\ \A g \in Gateway : gwCloud.check[g] <=> g \in Checked

\* A request being deleted goes away: its attachment is withdrawn, its
\* resources are released and its Machines let go.
RequestsRetire ==
    []<>(\A w \in Worker : gaRequest[w].stage # "deleting")
=============================================================================
