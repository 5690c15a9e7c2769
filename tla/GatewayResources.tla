-------------------------- MODULE GatewayResources --------------------------
(***************************************************************************)
(* The EC2 resources that several gateway attachments share               *)
(* (pkg/attachment/aws): the source/destination check of a gateway's       *)
(* interface, one ingress permission and one route of the worker subnet.   *)
(* Each has a journal naming the leases that need it.  The journal is      *)
(* written before the cloud is changed and again after the change has been *)
(* read back.  A handler may stop after any one of its writes and its next *)
(* call starts again from the journals, so every write is a step.          *)
(***************************************************************************)
EXTENDS Naturals, FiniteSets

CONSTANTS
    Lease,      \* attachment leases (Record.LeaseID)
    Gateway,    \* gateway interfaces
    Checked,    \* those of them whose source/destination check is on at first
    None        \* no route

VARIABLES
    gwBinding,  \* binding record of each lease: none, bound, released
    gwCheck,    \* source-check journal of each interface
    gwIngress,  \* journal of the ingress permission
    gwRoute,    \* journal of the route
    gwCloud,    \* what EC2 holds: checks per interface, permission, route
    gwDrifted   \* whether someone else has changed one of them

resourceVars == <<gwBinding, gwCheck, gwIngress, gwRoute, gwCloud, gwDrifted>>

NoJournal == [phase |-> "none", leases |-> {}]

ResourceInit ==
    /\ gwBinding = [l \in Lease |-> "none"]
    /\ gwIngress = NoJournal
    /\ gwRoute = [phase |-> "none", leases |-> {}, target |-> None]
    /\ gwCheck = [g \in Gateway |-> [phase |-> "none", leases |-> {}, original |-> FALSE]]
    /\ gwCloud = [check |-> [g \in Gateway |-> g \in Checked], rule |-> FALSE, route |-> None]
    /\ gwDrifted = FALSE

\* The journals' Save: a write of a record that was read before.  There is one
\* writer at a time (the controller's leader), so the version read is current.
SaveCheck(g, record) == gwCheck' = [gwCheck EXCEPT ![g] = record] /\ UNCHANGED gwCloud
SaveIngress(record) == gwIngress' = record /\ UNCHANGED gwCloud
SaveRoute(record) == gwRoute' = record /\ UNCHANGED gwCloud
SaveBinding(l, stage) ==
    /\ gwBinding' = [gwBinding EXCEPT ![l] = stage]
    /\ UNCHANGED <<gwCheck, gwIngress, gwRoute, gwCloud, gwDrifted>>

(***************************************************************************)
(* Acquiring.                                                              *)
(***************************************************************************)
CheckHeld(l, g) ==
    gwCheck[g].phase = "Active" /\ l \in gwCheck[g].leases /\ ~gwCloud.check[g]

\* SourceChecks.Acquire: the original setting is recorded by the first lease
\* only; a journal being restored is not joined.
AcquireCheck(l, g) ==
    LET j == gwCheck[g]
        observed == gwCloud.check[g]
    IN  /\ ~CheckHeld(l, g) /\ j.phase # "Restoring"
        /\ \/ /\ j.phase \in {"none", "Restored"}
              /\ SaveCheck(g, [phase |-> "Disabling", leases |-> {l}, original |-> observed])
           \/ /\ j.phase \in {"Disabling", "Active"}
              /\ l \notin j.leases \/ (observed /\ j.phase = "Active")
              /\ SaveCheck(g, [j EXCEPT !.leases = @ \cup {l}, !.phase = IF observed THEN "Disabling" ELSE @])
           \/ /\ j.phase = "Disabling" /\ l \in j.leases /\ observed
              /\ gwCloud' = [gwCloud EXCEPT !.check[g] = FALSE]
              /\ UNCHANGED gwCheck
           \/ /\ j.phase = "Disabling" /\ l \in j.leases /\ ~observed
              /\ SaveCheck(g, [j EXCEPT !.phase = "Active"])
        /\ UNCHANGED <<gwBinding, gwIngress, gwRoute, gwDrifted>>

IngressHeld(l) == gwIngress.phase = "Active" /\ l \in gwIngress.leases /\ gwCloud.rule

\* Ingress.Acquire: a permission that exists without a journal is refused.
AcquireIngress(l) ==
    LET j == gwIngress
    IN  /\ ~IngressHeld(l) /\ j.phase # "Deleting"
        /\ \/ /\ j.phase \in {"none", "Absent"} /\ ~gwCloud.rule
              /\ SaveIngress([phase |-> "Creating", leases |-> {l}])
           \/ /\ j.phase \in {"Creating", "Active"} /\ l \notin j.leases
              /\ SaveIngress([j EXCEPT !.leases = @ \cup {l}])
           \/ /\ j.phase = "Active" /\ l \in j.leases /\ ~gwCloud.rule
              /\ SaveIngress([j EXCEPT !.phase = "Creating"])
           \/ /\ j.phase = "Creating" /\ l \in j.leases /\ ~gwCloud.rule
              /\ gwCloud' = [gwCloud EXCEPT !.rule = TRUE]
              /\ UNCHANGED gwIngress
           \/ /\ j.phase = "Creating" /\ l \in j.leases /\ gwCloud.rule
              /\ SaveIngress([j EXCEPT !.phase = "Active"])
        /\ UNCHANGED <<gwBinding, gwCheck, gwRoute, gwDrifted>>

RouteHeld(l, g) ==
    gwRoute.phase = "Active" /\ gwRoute.target = g /\ l \in gwRoute.leases /\ gwCloud.route = g

\* Routes.Acquire: a route journaled for another gateway is refused until it
\* is absent, and so is one that exists without a journal.
AcquireRoute(l, g) ==
    LET j == gwRoute
    IN  /\ ~RouteHeld(l, g) /\ j.phase # "Deleting"
        /\ \/ /\ j.phase \in {"none", "Absent"} /\ gwCloud.route = None
              /\ SaveRoute([phase |-> "Creating", leases |-> {l}, target |-> g])
           \/ /\ j.phase \in {"Creating", "Active"} /\ j.target = g /\ l \notin j.leases
              /\ SaveRoute([j EXCEPT !.leases = @ \cup {l}])
           \/ /\ j.phase = "Active" /\ j.target = g /\ l \in j.leases /\ gwCloud.route = None
              /\ SaveRoute([j EXCEPT !.phase = "Creating"])
           \/ /\ j.phase = "Creating" /\ j.target = g /\ l \in j.leases /\ gwCloud.route = None
              /\ gwCloud' = [gwCloud EXCEPT !.route = g]
              /\ UNCHANGED gwRoute
           \/ /\ j.phase = "Creating" /\ j.target = g /\ l \in j.leases /\ gwCloud.route = g
              /\ SaveRoute([j EXCEPT !.phase = "Active"])
        /\ UNCHANGED <<gwBinding, gwCheck, gwIngress, gwDrifted>>

\* BoundResources.Ensure: the binding is saved before any resource is touched
\* and is never reopened.
Bind(l) == gwBinding[l] = "none" /\ SaveBinding(l, "bound")

\* ForwardingResources.Ensure.
Ensured(l, g) ==
    gwBinding[l] = "bound" /\ CheckHeld(l, g) /\ IngressHeld(l) /\ RouteHeld(l, g)

EnsureResources(l, g) ==
    \/ Bind(l)
    \/ gwBinding[l] = "bound" /\ AcquireCheck(l, g)
    \/ gwBinding[l] = "bound" /\ CheckHeld(l, g) /\ AcquireIngress(l)
    \/ gwBinding[l] = "bound" /\ CheckHeld(l, g) /\ IngressHeld(l) /\ AcquireRoute(l, g)

(***************************************************************************)
(* Releasing.                                                              *)
(***************************************************************************)
IngressReleased(l) ==
    gwIngress.phase \in {"none", "Absent"} \/ (gwIngress.phase # "Deleting" /\ l \notin gwIngress.leases)

\* Ingress.Release: only the last lease deletes, and deletion is journaled first.
ReleaseIngress(l) ==
    LET j == gwIngress
    IN  /\ ~IngressReleased(l)
        /\ \/ /\ j.phase # "Deleting"
              /\ SaveIngress([j EXCEPT !.leases = @ \ {l}, !.phase = IF j.leases = {l} THEN "Deleting" ELSE @])
           \/ /\ j.phase = "Deleting" /\ gwCloud.rule
              /\ gwCloud' = [gwCloud EXCEPT !.rule = FALSE]
              /\ UNCHANGED gwIngress
           \/ /\ j.phase = "Deleting" /\ ~gwCloud.rule
              /\ SaveIngress([j EXCEPT !.phase = "Absent"])
        /\ UNCHANGED <<gwBinding, gwCheck, gwRoute, gwDrifted>>

\* The journal's target is compared before its phase is looked at.
RouteReleased(l, g) ==
    \/ gwRoute.phase = "none"
    \/ /\ gwRoute.target = g
       /\ gwRoute.phase = "Absent" \/ (gwRoute.phase # "Deleting" /\ l \notin gwRoute.leases)

\* (A first lease that takes the route with it.)
ReleaseSharedRoute(l, g) ==
    /\ gwRoute.phase # "Deleting" /\ gwRoute.target = g /\ l \in gwRoute.leases
    /\ gwRoute' = [gwRoute EXCEPT !.leases = {}, !.phase = "Deleting"]
    /\ UNCHANGED <<gwBinding, gwCheck, gwIngress, gwCloud, gwDrifted>>

ReleaseRoute(l, g) ==
    LET j == gwRoute
    IN  /\ ~RouteReleased(l, g) /\ j.target = g
        /\ \/ /\ j.phase # "Deleting"
              /\ SaveRoute([j EXCEPT !.leases = @ \ {l}, !.phase = IF j.leases = {l} THEN "Deleting" ELSE @])
           \/ /\ j.phase = "Deleting" /\ gwCloud.route = g
              /\ gwCloud' = [gwCloud EXCEPT !.route = None]
              /\ UNCHANGED gwRoute
           \/ /\ j.phase = "Deleting" /\ gwCloud.route = None
              /\ SaveRoute([j EXCEPT !.phase = "Absent"])
        /\ UNCHANGED <<gwBinding, gwCheck, gwIngress, gwDrifted>>

CheckReleased(l, g) ==
    \/ gwCheck[g].phase \in {"none", "Restored"}
    \/ gwCheck[g].phase # "Restoring" /\ l \notin gwCheck[g].leases

\* SourceChecks.Release: the recorded setting comes back with the last lease.
ReleaseCheck(l, g) ==
    LET j == gwCheck[g]
    IN  /\ ~CheckReleased(l, g)
        /\ \/ /\ j.phase # "Restoring"
              /\ SaveCheck(g, [j EXCEPT !.leases = @ \ {l}, !.phase = IF j.leases = {l} THEN "Restoring" ELSE @])
           \/ /\ j.phase = "Restoring" /\ j.original /\ ~gwCloud.check[g]
              /\ gwCloud' = [gwCloud EXCEPT !.check[g] = TRUE]
              /\ UNCHANGED gwCheck
           \/ /\ j.phase = "Restoring" /\ ~(j.original /\ ~gwCloud.check[g])
              /\ SaveCheck(g, [j EXCEPT !.phase = "Restored"])
        /\ UNCHANGED <<gwBinding, gwIngress, gwRoute, gwDrifted>>

Released(l) == gwBinding[l] \in {"none", "released"}

\* ForwardingResources.Release: permission and route in any order, forwarding
\* last; then BoundResources.Release closes the binding.
ReleaseResources(l, g) ==
    /\ gwBinding[l] = "bound"
    /\ \/ ReleaseIngress(l)
       \/ ReleaseRoute(l, g)
       \/ IngressReleased(l) /\ RouteReleased(l, g) /\ ReleaseCheck(l, g)
       \/ /\ IngressReleased(l) /\ RouteReleased(l, g) /\ CheckReleased(l, g)
          /\ SaveBinding(l, "released")

\* Someone else removes the route or the permission, or enables the check.
Drift ==
    /\ gwDrifted' = TRUE
    /\ \/ gwCloud.rule /\ gwCloud' = [gwCloud EXCEPT !.rule = FALSE]
       \/ gwCloud.route # None /\ gwCloud' = [gwCloud EXCEPT !.route = None]
       \/ \E g \in Gateway : ~gwCloud.check[g] /\ gwCloud' = [gwCloud EXCEPT !.check[g] = TRUE]
    /\ UNCHANGED <<gwBinding, gwCheck, gwIngress, gwRoute>>
=============================================================================
