--------------------------- MODULE GatewayProofs ---------------------------
(***************************************************************************)
(* A gateway attachment keeps what its traffic needs, proved for any       *)
(* number of workers, gateways, leases and events: as long as any running  *)
(* node routes a worker through its gateway, the journals, the cloud       *)
(* resources and both Machines are kept for that lease.                    *)
(*                                                                         *)
(* The inductive invariant ties the four layers together.  A node runs     *)
(* only leases whose publication record is live; a live publication has a  *)
(* record not past withdrawal, its holds, and its place in all journals;   *)
(* a journal names bound leases only; and what nobody else has changed in  *)
(* the cloud is what the journals say.                                     *)
(***************************************************************************)
EXTENDS GatewayAttachment, TLAPS

\* The provers of a step that names none.
USE ZenonT(30), SMTT(30)

\* The lease's binding is open.
Bound(l) == gwBinding[l] = "bound"
\* The gateway its record names.
Through(l) == gaRecord[Owner(l)].gateway

\* The shapes of the state.
Phase == {"none", "Preparing", "Publishing", "Ready", "Withdrawing", "Releasing", "Complete"}
Requests == [stage : {"absent", "present", "deleting"}, owned : BOOLEAN,
             gateway : Gateway \cup {None}]
Record == [phase : Phase, lease : 0 .. MaxLease, gateway : Gateway \cup {None}]
Intent == [stage : {"none", "live", "retired"}, to : SUBSET Recipient]

\* Requests, records, Machines and the mesh; with prompt receipts an agent has
\* acknowledged what it runs.
ControlTypes ==
    /\ gaClaim \in [Worker -> Gateway \cup {None}]
    /\ gaRequest \in [Worker -> Requests]
    /\ gaRecord \in [Worker -> Record]
    /\ gaMachine \in [Remote -> {"joining", "live", "leaving", "terminated", "gone"}]
    /\ gaHold \in [Remote -> SUBSET Lease]
    /\ gaIntent \in [Lease -> Intent]
    /\ gaProjection \in SUBSET Lease
    /\ gaView \in [Recipient -> SUBSET Lease]
    /\ gaReceipt = gaView
    /\ gaTransport \in [Worker -> Lease \cup {None}]

\* The journals and what they describe.
CheckJournal == [phase : {"none", "Disabling", "Active", "Restoring", "Restored"},
                 leases : SUBSET Lease, original : BOOLEAN]
IngressJournal == [phase : {"none", "Creating", "Active", "Deleting", "Absent"},
                   leases : SUBSET Lease]
RouteJournal == [phase : {"none", "Creating", "Active", "Deleting", "Absent"},
                 leases : SUBSET Lease,
                 target : Gateway \cup {None}]
Cloud == [check : [Gateway -> BOOLEAN], rule : BOOLEAN, route : Gateway \cup {None}]

\* Bindings, journals and the cloud.
ResourceTypes ==
    /\ gwBinding \in [Lease -> {"none", "bound", "released"}]
    /\ gwCheck \in [Gateway -> CheckJournal]
    /\ gwIngress \in IngressJournal
    /\ gwRoute \in RouteJournal
    /\ gwCloud \in Cloud
    /\ gwDrifted \in BOOLEAN

\* Only the current lease of a record under way is bound, and only a request
\* that carries the finalizer has a record under way.
RecordOrder ==
    /\ \A w \in Worker : gaRequest[w].stage = "absent" \/ ~gaRequest[w].owned => Idle(w)
    /\ \A w \in Worker : ~Idle(w) => gaRecord[w].gateway \in Gateway /\ Current(w) \in Lease
    /\ \A l \in Lease : Bound(l) => l = Current(Owner(l)) /\ ~Idle(Owner(l))
    /\ \A m \in Remote : gaHold[m] # {} => gaMachine[m] \in {"live", "leaving"}

\* A journal names bound leases, through its own gateway; it is in a holding
\* phase exactly when it names any, and is undone only while one is bound.
CheckOrder(g) ==
    /\ \A l \in gwCheck[g].leases : Bound(l) /\ Through(l) = g
    /\ gwCheck[g].phase \in {"Disabling", "Active"} <=> gwCheck[g].leases # {}
    /\ gwCheck[g].phase = "Restoring" => \E l \in Lease : Bound(l) /\ Through(l) = g

\* The same for the permission.
IngressOrder ==
    /\ \A l \in gwIngress.leases : Bound(l)
    /\ gwIngress.phase \in {"Creating", "Active"} <=> gwIngress.leases # {}
    /\ gwIngress.phase = "Deleting" => \E l \in Lease : Bound(l)

\* The same for the route, which leads to one gateway at a time.
RouteOrder ==
    /\ \A l \in gwRoute.leases : Bound(l) /\ Through(l) = gwRoute.target
    /\ gwRoute.phase \in {"Creating", "Active"} <=> gwRoute.leases # {}
    /\ gwRoute.phase = "Deleting" => \E l \in Lease : Bound(l)
    /\ gwRoute.phase # "none" => gwRoute.target \in Gateway

\* What nobody else has changed is what the journals say: the source check ...
CheckMatches(g) ==
    /\ gwCloud.check[g] => g \in Checked
    /\ gwCheck[g].phase \in {"none", "Restored"} => (g \in Checked => gwCloud.check[g])
    /\ gwCheck[g].phase \notin {"none", "Restored"} => (gwCheck[g].original <=> g \in Checked)
    /\ gwCheck[g].phase = "Active" => ~gwCloud.check[g]

\* ... the permission ...
IngressMatches ==
    /\ gwCloud.rule => gwIngress.phase \in {"Creating", "Active", "Deleting"}
    /\ gwIngress.phase = "Active" => gwCloud.rule

\* ... and the route.
RouteMatches ==
    /\ gwCloud.route # None =>
          gwRoute.phase \in {"Creating", "Active", "Deleting"} /\ gwCloud.route = gwRoute.target
    /\ gwRoute.phase = "Active" => gwCloud.route = gwRoute.target

\* All of it, unless someone else changed a resource.
CloudMatches == ~gwDrifted => IngressMatches /\ RouteMatches /\ \A g \in Gateway : CheckMatches(g)

\* A lease whose publication is live keeps everything it needs.
Kept(l) ==
    LET w == Owner(l)
        g == Through(l)
    IN  /\ l = Current(w) /\ gaRecord[w].phase \in {"Publishing", "Ready", "Withdrawing"}
        /\ Protected(w) /\ Bound(l)
        /\ l \in gwCheck[g].leases /\ l \in gwIngress.leases /\ l \in gwRoute.leases
        /\ gwDrifted \/ (gwCheck[g].phase = "Active" /\ gwIngress.phase = "Active"
                         /\ gwRoute.phase = "Active")

\* Every live publication is kept.
LiveKept == \A l \in Lease : gaIntent[l].stage = "live" => Kept(l)

\* Only live leases are projected, or in the configuration of a running node.
MeshOrder ==
    /\ \A l \in gaProjection : gaIntent[l].stage = "live"
    /\ \A c \in Running : \A l \in gaView[c] : gaIntent[l].stage = "live"
    /\ \A m \in Remote : gaMachine[m] = "joining" => gaView[m] = {}
    /\ \A w \in Worker : gaTransport[w] # None =>
          gaTransport[w] \in gaProjection /\ gaTransport[w] \in gaView[Site]
            /\ Owner(gaTransport[w]) = w

\* The inductive invariant.
GInv ==
    /\ ControlTypes /\ ResourceTypes /\ RecordOrder
    /\ (\A g \in Gateway : CheckOrder(g)) /\ IngressOrder /\ RouteOrder
    /\ CloudMatches /\ LiveKept /\ MeshOrder
-----------------------------------------------------------------------------
\* A lease belongs to its worker; no node is both a worker and a gateway.
LEMMA Leases ==
    /\ \A l \in Lease : Owner(l) \in Worker
    /\ \A w : Owner(Current(w)) = w
    /\ Worker \subseteq Remote /\ Gateway \subseteq Remote /\ Remote \subseteq Recipient
    /\ Site \in Recipient /\ Site \notin Remote /\ None \notin Gateway /\ Worker \cap Gateway = {}
  BY GatewayAssumption DEF Owner, Current, LeaseOf, Remote, Recipient

\* The current lease of a worker goes through the gateway of its record.
LEMMA Whose ==
    ASSUME NEW w \in Worker, NEW l \in Lease, l = Current(w)
    PROVE  Owner(l) = w /\ Through(l) = gaRecord[w].gateway
  BY Leases DEF Through

\* The variables the resources are not.
gwOthers == <<gaClaim, gaRequest, gaRecord, gaMachine, gaHold, gaIntent, meshVars, agentVars,
              gaTransport>>

\* What the control variables say stays while only resources change.
LEMMA ControlStays ==
    ASSUME GInv, UNCHANGED gwOthers
    PROVE  /\ ControlTypes' /\ MeshOrder'
           /\ \A l \in Lease : Through(l)' = Through(l)
           /\ \A w \in Worker : Idle(w)' = Idle(w) /\ Current(w)' = Current(w)
              /\ Protected(w)' = Protected(w)
  BY DEF GInv, gwOthers, ControlTypes, MeshOrder, Through, Idle, Current, LeaseOf, Protected,
     Participants,
     meshVars, agentVars, Running

\* The lease's publication is live.
Live(l) == gaIntent[l].stage = "live"

\* The rest of the invariant, where a resource step leaves it alone.
LEMMA OthersStay ==
    ASSUME GInv, UNCHANGED gwOthers
    PROVE  /\ UNCHANGED gwBinding => RecordOrder' /\ \A l \in Lease : Bound(l)' = Bound(l)
           /\ UNCHANGED <<gwBinding, gwCheck>> => \A g \in Gateway : CheckOrder(g)'
           /\ UNCHANGED <<gwBinding, gwIngress>> => IngressOrder'
           /\ UNCHANGED <<gwBinding, gwRoute>> => RouteOrder'
           /\ UNCHANGED <<gwDrifted, gwCheck, gwCloud>> =>
                 (~gwDrifted => \A g \in Gateway : CheckMatches(g)')
           /\ UNCHANGED <<gwDrifted, gwIngress, gwCloud>> => (~gwDrifted => IngressMatches')
           /\ UNCHANGED <<gwDrifted, gwRoute, gwCloud>> => (~gwDrifted => RouteMatches')
<1>1. UNCHANGED gwBinding => RecordOrder' /\ \A l \in Lease : Bound(l)' = Bound(l)
  BY DEF GInv, RecordOrder, gwOthers, Idle, Current, Bound, LeaseOf
<1>2. \A l \in Lease : Through(l)' = Through(l)
  BY ControlStays
<1>3. ASSUME UNCHANGED <<gwBinding, gwCheck>>, NEW g \in Gateway PROVE CheckOrder(g)'
  <2>1. CheckOrder(g) /\ gwCheck[g].leases \subseteq Lease
    BY DEF GInv, ResourceTypes, CheckJournal
  <2> QED BY <1>1, <1>2, <1>3, <2>1 DEF CheckOrder
<1>4. UNCHANGED <<gwBinding, gwIngress>> => IngressOrder'
  <2>1. IngressOrder /\ gwIngress.leases \subseteq Lease
    BY DEF GInv, ResourceTypes, IngressJournal
  <2> QED BY <1>1, <2>1 DEF IngressOrder
<1>5. UNCHANGED <<gwBinding, gwRoute>> => RouteOrder'
  <2>1. RouteOrder /\ gwRoute.leases \subseteq Lease
    BY DEF GInv, ResourceTypes, RouteJournal
  <2> QED BY <1>1, <1>2, <2>1 DEF RouteOrder
<1>6. UNCHANGED <<gwDrifted, gwCheck,
                  gwCloud>> => (~gwDrifted => \A g \in Gateway : CheckMatches(g)')
  BY DEF GInv, CloudMatches, CheckMatches
<1>7. UNCHANGED <<gwDrifted, gwIngress, gwCloud>> => (~gwDrifted => IngressMatches')
  BY DEF GInv, CloudMatches, IngressMatches
<1>8. UNCHANGED <<gwDrifted, gwRoute, gwCloud>> => (~gwDrifted => RouteMatches')
  BY DEF GInv, CloudMatches, RouteMatches
<1> QED BY <1>1, <1>3, <1>4, <1>5, <1>6, <1>7, <1>8

\* A resource step keeps what a live lease needs.
StaysKept(l) ==
    /\ Bound(l)'
    /\ l \in gwCheck'[Through(l)].leases /\ l \in gwIngress'.leases /\ l \in gwRoute'.leases
    /\ ~gwDrifted' =>
          gwCheck'[Through(l)].phase = "Active" /\ gwIngress'.phase = "Active"
            /\ gwRoute'.phase = "Active"

\* A live lease stays kept while its journals keep it.
LEMMA LiveStays ==
    ASSUME GInv, UNCHANGED gwOthers, gwDrifted => gwDrifted', gwDrifted' \in BOOLEAN,
           \A l \in Lease : Live(l) /\ Kept(l) => StaysKept(l)
    PROVE  LiveKept'
<1> SUFFICES ASSUME NEW l \in Lease, Live(l) PROVE Kept(l)'
  BY DEF LiveKept, Live, gwOthers
<1>1. Kept(l) /\ Owner(l) \in Worker
  BY Leases DEF GInv, LiveKept, Live
<1>2. /\ Protected(Owner(l))' /\ Current(Owner(l))' = Current(Owner(l))
      /\ Through(l)' = Through(l) /\ gaRecord' = gaRecord
  BY <1>1, ControlStays DEF Kept, gwOthers
<1> QED BY <1>1, <1>2 DEF Kept, StaysKept

\* The permission's journal is saved.
SaveIngressAs(p, S) ==
    /\ gwIngress' = [phase |-> p, leases |-> S]
    /\ UNCHANGED <<gwCloud, gwBinding, gwCheck, gwRoute, gwDrifted>>

\* A save that names bound leases, agrees with the cloud and keeps live leases
\* active keeps the invariant.
LEMMA IngressSaved ==
    ASSUME GInv, UNCHANGED gwOthers, NEW S \in SUBSET Lease,
           NEW p \in {"none", "Creating", "Active", "Deleting", "Absent"},
           SaveIngressAs(p, S),
           \A l \in S : Bound(l),
           p \in {"Creating", "Active"} <=> S # {},
           p = "Deleting" => \E l \in Lease : Bound(l),
           ~gwDrifted =>
              /\ gwCloud.rule => p \in {"Creating", "Active", "Deleting"}
              /\ p = "Active" => gwCloud.rule,
           \A l \in gwIngress.leases : Live(l) => l \in S /\ (gwDrifted \/ p = "Active")
    PROVE  GInv'
<1>1. /\ gwIngress'.phase = p /\ gwIngress'.leases = S
      /\ UNCHANGED <<gwCloud, gwBinding, gwCheck, gwRoute, gwDrifted>>
  BY DEF SaveIngressAs
<1>2. ResourceTypes'
  <2>1. gwIngress' \in IngressJournal
    BY DEF SaveIngressAs, IngressJournal
  <2> QED BY <1>1, <2>1 DEF GInv, ResourceTypes
<1>3. /\ RecordOrder' /\ (\A g \in Gateway : CheckOrder(g)') /\ RouteOrder'
      /\ (\A l \in Lease : Bound(l)' = Bound(l))
      /\ (~gwDrifted => RouteMatches' /\ \A g \in Gateway : CheckMatches(g)')
  BY <1>1, OthersStay
<1>4. IngressOrder'
  BY <1>1, <1>3 DEF IngressOrder
<1>5. CloudMatches'
  BY <1>1, <1>3 DEF CloudMatches, IngressMatches
<1>6. LiveKept'
  <2>1. ASSUME NEW l \in Lease, Live(l), Kept(l)
        PROVE  StaysKept(l)
    BY <1>1, <1>3, <2>1 DEF Kept, StaysKept
  <2>2. gwDrifted' \in BOOLEAN /\ (gwDrifted => gwDrifted')
    BY <1>1, <1>2 DEF ResourceTypes
  <2> QED BY <2>1, <2>2, LiveStays
<1> QED BY <1>2, <1>3, <1>4, <1>5, <1>6, ControlStays DEF GInv

\* The route's journal is saved.
SaveRouteAs(p, S, t) ==
    /\ gwRoute' = [phase |-> p, leases |-> S, target |-> t]
    /\ UNCHANGED <<gwCloud, gwBinding, gwCheck, gwIngress, gwDrifted>>

\* The same for the route.
LEMMA RouteSaved ==
    ASSUME GInv, UNCHANGED gwOthers, NEW S \in SUBSET Lease, NEW t \in Gateway,
           NEW p \in {"none", "Creating", "Active", "Deleting", "Absent"},
           SaveRouteAs(p, S, t),
           \A l \in S : Bound(l) /\ Through(l) = t,
           p \in {"Creating", "Active"} <=> S # {},
           p = "Deleting" => \E l \in Lease : Bound(l),
           ~gwDrifted =>
              /\ gwCloud.route # None => p \in {"Creating", "Active", "Deleting"}
                 /\ gwCloud.route = t
              /\ p = "Active" => gwCloud.route = t,
           \A l \in gwRoute.leases : Live(l) => l \in S /\ (gwDrifted \/ p = "Active")
    PROVE  GInv'
<1>1. /\ gwRoute'.phase = p /\ gwRoute'.leases = S /\ gwRoute'.target = t
      /\ UNCHANGED <<gwCloud, gwBinding, gwCheck, gwIngress, gwDrifted>>
  BY DEF SaveRouteAs
<1>2. ResourceTypes'
  <2>1. gwRoute' \in RouteJournal
    BY DEF SaveRouteAs, RouteJournal
  <2> QED BY <1>1, <2>1 DEF GInv, ResourceTypes
<1>3. /\ RecordOrder' /\ (\A g \in Gateway : CheckOrder(g)') /\ IngressOrder'
      /\ (\A l \in Lease : Bound(l)' = Bound(l))
      /\ (~gwDrifted => IngressMatches' /\ \A g \in Gateway : CheckMatches(g)')
  BY <1>1, OthersStay
<1>4. RouteOrder'
  BY <1>1, <1>3, ControlStays DEF RouteOrder
<1>5. CloudMatches'
  BY <1>1, <1>3 DEF CloudMatches, RouteMatches
<1>6. LiveKept'
  <2>1. ASSUME NEW l \in Lease, Live(l), Kept(l)
        PROVE  StaysKept(l)
    BY <1>1, <1>3, <2>1 DEF Kept, StaysKept
  <2>2. gwDrifted' \in BOOLEAN /\ (gwDrifted => gwDrifted')
    BY <1>1, <1>2 DEF ResourceTypes
  <2> QED BY <2>1, <2>2, LiveStays
<1> QED BY <1>2, <1>3, <1>4, <1>5, <1>6, ControlStays DEF GInv

\* A source check's journal is saved.
SaveCheckAs(g, p, S, o) ==
    /\ gwCheck' = [gwCheck EXCEPT ![g] = [phase |-> p, leases |-> S, original |-> o]]
    /\ UNCHANGED <<gwCloud, gwBinding, gwIngress, gwRoute, gwDrifted>>

\* The same for a source check.
LEMMA CheckSaved ==
    ASSUME GInv, UNCHANGED gwOthers, NEW g \in Gateway, NEW S \in SUBSET Lease, NEW o \in BOOLEAN,
           NEW p \in {"none", "Disabling", "Active", "Restoring", "Restored"},
           SaveCheckAs(g, p, S, o),
           \A l \in S : Bound(l) /\ Through(l) = g,
           p \in {"Disabling", "Active"} <=> S # {},
           p = "Restoring" => \E l \in Lease : Bound(l) /\ Through(l) = g,
           ~gwDrifted =>
              /\ p \in {"none", "Restored"} => (g \in Checked => gwCloud.check[g])
              /\ p \notin {"none", "Restored"} => (o <=> g \in Checked)
              /\ p = "Active" => ~gwCloud.check[g],
           \A l \in gwCheck[g].leases : Live(l) => l \in S /\ (gwDrifted \/ p = "Active")
    PROVE  GInv'
<1>0. ResourceTypes /\ CloudMatches /\ (\A x \in Gateway : CheckOrder(x)) /\ RecordOrder
  BY DEF GInv
<1>1. /\ gwCheck'[g] = [phase |-> p, leases |-> S, original |-> o]
      /\ \A x \in Gateway \ {g} : gwCheck'[x] = gwCheck[x]
      /\ UNCHANGED <<gwCloud, gwBinding, gwIngress, gwRoute, gwDrifted>>
  BY <1>0 DEF SaveCheckAs, ResourceTypes
<1>2. ResourceTypes'
  <2>1. gwCheck'[g] \in CheckJournal
    BY SMTT(30), <1>1 DEF CheckJournal
  <2>2. gwCheck' \in [Gateway -> CheckJournal]
    BY <1>0, <1>1, <2>1 DEF SaveCheckAs, ResourceTypes
  <2> QED BY <1>0, <1>1, <2>2 DEF ResourceTypes
<1>3. /\ RecordOrder' /\ IngressOrder' /\ RouteOrder'
      /\ (\A l \in Lease : Bound(l)' = Bound(l))
      /\ (~gwDrifted => IngressMatches' /\ RouteMatches')
      /\ \A l \in Lease : Through(l)' = Through(l)
  BY <1>1, OthersStay, ControlStays
<1>4. ASSUME NEW x \in Gateway PROVE CheckOrder(x)' /\ (~gwDrifted => CheckMatches(x)')
  <2>1. CASE x # g
    BY SMTT(30), <1>0, <1>1, <1>3, <2>1
       DEF CheckOrder, CheckMatches, CloudMatches, ResourceTypes, CheckJournal
  <2>2. CASE x = g
    BY SMTT(30), <1>0, <1>1, <1>3, <2>2 DEF CheckOrder, CheckMatches, CloudMatches
  <2> QED BY <2>1, <2>2
<1>5. CloudMatches'
  BY <1>1, <1>3, <1>4 DEF CloudMatches
<1>6. LiveKept'
  <2>1. ASSUME NEW l \in Lease, Live(l), Kept(l)
        PROVE  StaysKept(l)
    <3>1. Through(l) \in Gateway
      BY <1>0, <2>1, Leases DEF RecordOrder, Kept, Through, Idle
    <3> QED BY SMTT(30), <1>1, <1>3, <2>1, <3>1 DEF Kept, StaysKept
  <2>2. gwDrifted' \in BOOLEAN /\ (gwDrifted => gwDrifted')
    BY <1>1, <1>2 DEF ResourceTypes
  <2> QED BY <2>1, <2>2, LiveStays
<1> QED BY <1>2, <1>3, <1>4, <1>5, <1>6, ControlStays DEF GInv

\* The cloud changes, by us or by someone else.
LEMMA CloudChanged ==
    ASSUME GInv, UNCHANGED gwOthers, UNCHANGED <<gwBinding, gwCheck, gwIngress, gwRoute>>,
           gwCloud' \in Cloud, gwDrifted' \in BOOLEAN, gwDrifted => gwDrifted', CloudMatches'
    PROVE  GInv'
<1>1. ResourceTypes'
  BY DEF GInv, ResourceTypes
<1>2. LiveKept'
  <2>1. ASSUME NEW l \in Lease, Live(l), Kept(l)
        PROVE  StaysKept(l)
    BY <2>1, OthersStay DEF Kept, StaysKept
  <2> QED BY <2>1, LiveStays
<1> QED BY <1>1, <1>2, OthersStay, ControlStays DEF GInv

\* A binding is opened for the current lease of a record under way, and closed
\* once no journal names it.
LEMMA BindingSaved ==
    ASSUME GInv, UNCHANGED gwOthers, NEW w \in Worker, NEW l \in Lease, l = Current(w), ~Idle(w),
           NEW s \in {"bound", "released"}, SaveBinding(l, s),
           s = "released" =>
              /\ \A g \in Gateway : l \notin gwCheck[g].leases
              /\ l \notin gwIngress.leases /\ l \notin gwRoute.leases /\ ~Live(l)
              /\ gwIngress.phase # "Deleting" /\ gwRoute.phase # "Deleting"
              /\ gwCheck[Through(l)].phase # "Restoring"
    PROVE  GInv'
<1>0. /\ ResourceTypes /\ RecordOrder /\ (\A g \in Gateway : CheckOrder(g))
      /\ IngressOrder /\ RouteOrder
  BY DEF GInv
<1>1. /\ gwBinding' = [gwBinding EXCEPT ![l] = s]
      /\ UNCHANGED <<gwCheck, gwIngress, gwRoute, gwCloud, gwDrifted>>
  BY DEF SaveBinding
<1>2. ResourceTypes'
  BY <1>0, <1>1 DEF ResourceTypes
<1>3. /\ \A x \in Lease \ {l} : Bound(x)' = Bound(x)
      /\ Bound(l)' <=> s = "bound"
      /\ \A x \in Lease : Through(x)' = Through(x)
  BY <1>0, <1>1, ControlStays DEF Bound, ResourceTypes
<1>4. RecordOrder'
  <2>1. \A x \in Lease : Bound(x)' => (x = Current(Owner(x)))' /\ (~Idle(Owner(x)))'
    BY SMTT(30), <1>0, <1>3, Whose, Leases, ControlStays DEF RecordOrder
  <2> QED BY <1>0, <2>1 DEF RecordOrder, gwOthers, Idle, Current, LeaseOf
<1>5. \A g \in Gateway : CheckOrder(g)'
  <2> SUFFICES ASSUME NEW g \in Gateway PROVE CheckOrder(g)'
    OBVIOUS
  <2>1. CheckOrder(g) /\ gwCheck[g].leases \subseteq Lease
    BY <1>0 DEF ResourceTypes, CheckJournal
  <2> QED BY <1>1, <1>3, <2>1 DEF CheckOrder
<1>6. IngressOrder' /\ RouteOrder'
  <2>1. gwIngress.leases \subseteq Lease /\ gwRoute.leases \subseteq Lease
    BY <1>0 DEF ResourceTypes, IngressJournal, RouteJournal
  <2> QED BY <1>0, <1>1, <1>3, <2>1 DEF IngressOrder, RouteOrder
<1>7. CloudMatches'
  BY <1>1, OthersStay DEF CloudMatches
<1>8. LiveKept'
  <2>1. ASSUME NEW x \in Lease, Live(x), Kept(x)
        PROVE  StaysKept(x)
    BY <1>1, <1>3, <2>1 DEF Kept, StaysKept
  <2>2. gwDrifted' \in BOOLEAN /\ (gwDrifted => gwDrifted')
    BY <1>1, <1>2 DEF ResourceTypes
  <2> QED BY <2>1, <2>2, LiveStays
<1> QED BY <1>2, <1>4, <1>5, <1>6, <1>7, <1>8, ControlStays DEF GInv
-----------------------------------------------------------------------------
\* The pass acts for a bound lease through its gateway.
For(l, g) == l \in Lease /\ g \in Gateway /\ Bound(l) /\ Through(l) = g

\* A check journal with a field or two replaced.
LEMMA CheckRecord ==
    ASSUME NEW j \in CheckJournal, NEW S, NEW p
    PROVE  /\ [j EXCEPT !.phase = p] = [phase |-> p, leases |-> j.leases, original |-> j.original]
           /\ [j EXCEPT !.leases = S, !.phase = p] = [phase |-> p, leases |-> S,
                                                      original |-> j.original]
<1>1. [j EXCEPT !.phase = p] = [phase |-> p, leases |-> j.leases, original |-> j.original]
  BY SMTT(30) DEF CheckJournal
<1>2. ASSUME NEW r, r = [j EXCEPT !.leases = S, !.phase = p]
      PROVE  r = [phase |-> p, leases |-> S, original |-> j.original]
  BY <1>2 DEF CheckJournal
<1> QED BY <1>1, <1>2

\* SourceDestination.Acquire.
LEMMA AcquireCheckInv ==
    ASSUME GInv, UNCHANGED gwOthers, NEW l, NEW g, For(l, g), AcquireCheck(l, g)
    PROVE  GInv'
<1> DEFINE j == gwCheck[g]  on == gwCloud.check[g]
<1>0. /\ l \in Lease /\ g \in Gateway /\ Bound(l) /\ Through(l) = g
      /\ gwCheck \in [Gateway -> CheckJournal] /\ gwCloud \in Cloud
      /\ gwDrifted \in BOOLEAN /\ CheckOrder(g) /\ (~gwDrifted => CheckMatches(g))
  BY DEF GInv, For, ResourceTypes, CloudMatches
<1>1. /\ j = [phase |-> j.phase, leases |-> j.leases, original |-> j.original]
      /\ j.leases \in SUBSET Lease
      /\ j.phase \in {"none", "Disabling", "Active", "Restoring", "Restored"}
      /\ j.original \in BOOLEAN /\ on \in BOOLEAN
  BY <1>0 DEF CheckJournal, Cloud
<1>2. UNCHANGED <<gwBinding, gwIngress, gwRoute, gwDrifted>>
  BY DEF AcquireCheck
<1>3. CASE /\ j.phase \in {"none", "Restored"}
           /\ SaveCheck(g, [phase |-> "Disabling", leases |-> {l}, original |-> on])
  <2>1. SaveCheckAs(g, "Disabling", {l}, on)
    BY <1>2, <1>3 DEF SaveCheckAs, SaveCheck
  <2>2. j.leases = {} /\ (~gwDrifted => (on <=> g \in Checked))
    BY <1>0, <1>3 DEF CheckOrder, CheckMatches
  <2>3. on \in BOOLEAN /\ {l} \in SUBSET Lease
    BY <1>0, <1>1
  <2>4. /\ \A x \in {l} : Bound(x) /\ Through(x) = g
        /\ \A x \in gwCheck[g].leases : Live(x) =>
              x \in {l} /\ (gwDrifted \/ "Disabling" = "Active")
    BY <1>0, <2>2
  <2> HIDE DEF on, j
  <2> QED BY SMTT(30), <1>0, <2>1, <2>2, <2>3, <2>4, CheckSaved
<1>4. CASE /\ j.phase \in {"Disabling", "Active"}
           /\ SaveCheck(g, [j EXCEPT !.leases = @ \cup {l},
                                     !.phase = IF on THEN "Disabling" ELSE @])
  <2> DEFINE p == IF on THEN "Disabling" ELSE j.phase
  <2>1. SaveCheck(g, [j EXCEPT !.leases = j.leases \cup {l}, !.phase = p])
    BY <1>4
  <2>2. SaveCheckAs(g, p, j.leases \cup {l}, j.original)
    <3> HIDE DEF p, j
    <3>1. ASSUME NEW r, r = [j EXCEPT !.leases = j.leases \cup {l}, !.phase = p]
          PROVE  r = [phase |-> p, leases |-> j.leases \cup {l}, original |-> j.original]
      BY <1>1, <3>1
    <3> QED BY <1>2, <2>1, <3>1 DEF SaveCheckAs, SaveCheck
  <2>3. /\ p \in {"Disabling", "Active"} /\ (p = "Active" => ~on /\ j.phase = "Active")
        /\ (~gwDrifted /\ j.phase = "Active" => p = "Active")
        /\ (~gwDrifted => (j.original <=> g \in Checked))
    BY <1>0, <1>1, <1>4 DEF CheckMatches
  <2>4. \A x \in j.leases : Bound(x) /\ Through(x) = g
    BY <1>0 DEF CheckOrder
  <2>5. \A x \in j.leases : Live(x) => gwDrifted \/ j.phase = "Active"
    BY <1>0, <1>1, <2>4 DEF GInv, LiveKept, Live, Kept
  <2> HIDE DEF p
  <2> QED BY SMTT(30), <1>0, <1>1, <2>2, <2>3, <2>4, <2>5, CheckSaved
<1>5. CASE /\ j.phase = "Disabling" /\ gwCloud' = [gwCloud EXCEPT !.check[g] = FALSE]
           /\ UNCHANGED gwCheck
  <2>1. /\ gwCloud' \in Cloud /\ gwCloud'.rule = gwCloud.rule
        /\ gwCloud'.route = gwCloud.route /\ ~gwCloud'.check[g]
        /\ \A x \in Gateway \ {g} : gwCloud'.check[x] = gwCloud.check[x]
    BY <1>0, <1>5 DEF Cloud
  <2>2. CloudMatches'
    BY SMTT(30), <1>0, <1>2, <1>5, <2>1
       DEF GInv, CloudMatches, CheckMatches, IngressMatches, RouteMatches
  <2> QED BY <1>0, <1>2, <1>5, <2>1, <2>2, CloudChanged
<1>6. CASE /\ j.phase = "Disabling" /\ l \in j.leases /\ ~on
           /\ SaveCheck(g, [j EXCEPT !.phase = "Active"])
  <2>1. SaveCheckAs(g, "Active", j.leases, j.original)
    <3>1. [j EXCEPT !.phase = "Active"] = [phase |-> "Active", leases |-> j.leases,
                                           original |-> j.original]
      BY <1>0, CheckRecord
    <3> QED BY <1>2, <1>6, <3>1 DEF SaveCheckAs, SaveCheck
  <2> QED BY SMTT(30), <1>0, <1>1, <1>6, <2>1, CheckSaved DEF CheckOrder, CheckMatches
<1> QED BY <1>3, <1>4, <1>5, <1>6 DEF AcquireCheck

\* Ingress.Acquire.
LEMMA AcquireIngressInv ==
    ASSUME GInv, UNCHANGED gwOthers, NEW l, NEW g, For(l, g), AcquireIngress(l)
    PROVE  GInv'
<1> DEFINE j == gwIngress
<1>0. /\ l \in Lease /\ Bound(l) /\ gwIngress \in IngressJournal /\ gwCloud \in Cloud
      /\ gwDrifted \in BOOLEAN /\ IngressOrder /\ (~gwDrifted => IngressMatches)
  BY DEF GInv, For, ResourceTypes, CloudMatches
<1>1. /\ j = [phase |-> j.phase, leases |-> j.leases] /\ j.leases \in SUBSET Lease
      /\ j.phase \in {"none", "Creating", "Active", "Deleting", "Absent"}
      /\ gwCloud.rule \in BOOLEAN
  BY <1>0 DEF IngressJournal, Cloud
<1>2. UNCHANGED <<gwBinding, gwCheck, gwRoute, gwDrifted>>
  BY DEF AcquireIngress
<1>3. \A x \in j.leases : Bound(x) /\ (Live(x) => gwDrifted \/ j.phase = "Active")
  BY <1>0, <1>1 DEF GInv, IngressOrder, LiveKept, Live, Kept
<1>4. CASE /\ j.phase \in {"none", "Absent"} /\ ~gwCloud.rule
           /\ SaveIngress([phase |-> "Creating", leases |-> {l}])
  <2>1. SaveIngressAs("Creating", {l}) /\ j.leases = {}
    BY <1>0, <1>2, <1>4 DEF SaveIngressAs, SaveIngress, IngressOrder
  <2> QED BY SMTT(30), <1>0, <1>4, <2>1, IngressSaved
<1>5. CASE j.phase \in {"Creating", "Active"} /\ SaveIngress([j EXCEPT !.leases = @ \cup {l}])
  <2>1. SaveIngressAs(j.phase, j.leases \cup {l})
    BY <1>1, <1>2, <1>5 DEF SaveIngressAs, SaveIngress
  <2> QED BY SMTT(30), <1>0, <1>1, <1>3, <1>5, <2>1, IngressSaved DEF IngressMatches
<1>6. CASE /\ j.phase = "Active" /\ l \in j.leases /\ ~gwCloud.rule
           /\ SaveIngress([j EXCEPT !.phase = "Creating"])
  <2>1. SaveIngressAs("Creating", j.leases) /\ gwDrifted
    BY <1>0, <1>1, <1>2, <1>6 DEF SaveIngressAs, SaveIngress, IngressMatches
  <2> QED BY <1>0, <1>1, <1>3, <1>6, <2>1, IngressSaved
<1>7. CASE /\ j.phase = "Creating" /\ gwCloud' = [gwCloud EXCEPT !.rule = TRUE]
           /\ UNCHANGED gwIngress
  <2>1. /\ gwCloud' \in Cloud /\ gwCloud'.rule /\ gwCloud'.route = gwCloud.route
        /\ gwCloud'.check = gwCloud.check
    BY <1>0, <1>7 DEF Cloud
  <2>2. CloudMatches'
    BY <1>0, <1>2, <1>7, <2>1 DEF GInv, CloudMatches, CheckMatches, IngressMatches, RouteMatches
  <2> QED BY <1>0, <1>2, <1>7, <2>1, <2>2, CloudChanged
<1>8. CASE /\ j.phase = "Creating" /\ l \in j.leases /\ gwCloud.rule
           /\ SaveIngress([j EXCEPT !.phase = "Active"])
  <2>1. SaveIngressAs("Active", j.leases)
    BY <1>1, <1>2, <1>8 DEF SaveIngressAs, SaveIngress
  <2> QED BY <1>0, <1>1, <1>3, <1>8, <2>1, IngressSaved
<1> QED BY <1>4, <1>5, <1>6, <1>7, <1>8 DEF AcquireIngress

\* Routes.Acquire.
LEMMA AcquireRouteInv ==
    ASSUME GInv, UNCHANGED gwOthers, NEW l, NEW g, For(l, g), AcquireRoute(l, g)
    PROVE  GInv'
<1> DEFINE j == gwRoute
<1>0. /\ l \in Lease /\ g \in Gateway /\ Bound(l) /\ Through(l) = g
      /\ gwRoute \in RouteJournal /\ gwCloud \in Cloud /\ gwDrifted \in BOOLEAN
      /\ RouteOrder /\ (~gwDrifted => RouteMatches) /\ None \notin Gateway
  BY Leases DEF GInv, For, ResourceTypes, CloudMatches
<1>1. /\ j = [phase |-> j.phase, leases |-> j.leases, target |-> j.target]
      /\ j.leases \in SUBSET Lease
      /\ j.phase \in {"none", "Creating", "Active", "Deleting", "Absent"}
  BY <1>0 DEF RouteJournal
<1>2. UNCHANGED <<gwBinding, gwCheck, gwIngress, gwDrifted>>
  BY DEF AcquireRoute
<1>3. \A x \in j.leases :
          Bound(x) /\ Through(x) = j.target /\ (Live(x) => gwDrifted \/ j.phase = "Active")
  BY <1>0, <1>1 DEF GInv, RouteOrder, LiveKept, Live, Kept
<1>4. CASE /\ j.phase \in {"none", "Absent"} /\ gwCloud.route = None
           /\ SaveRoute([phase |-> "Creating", leases |-> {l}, target |-> g])
  <2>1. SaveRouteAs("Creating", {l}, g) /\ j.leases = {}
    BY <1>0, <1>2, <1>4 DEF SaveRouteAs, SaveRoute, RouteOrder
  <2> QED BY SMTT(30), <1>0, <1>4, <2>1, RouteSaved
<1>5. CASE /\ j.phase \in {"Creating", "Active"} /\ j.target = g
           /\ SaveRoute([j EXCEPT !.leases = @ \cup {l}])
  <2>1. SaveRouteAs(j.phase, j.leases \cup {l}, g)
    BY <1>1, <1>2, <1>5 DEF SaveRouteAs, SaveRoute
  <2> QED BY SMTT(30), <1>0, <1>1, <1>3, <1>5, <2>1, RouteSaved DEF RouteMatches
<1>6. CASE /\ j.phase = "Active" /\ j.target = g /\ l \in j.leases
           /\ gwCloud.route = None /\ SaveRoute([j EXCEPT !.phase = "Creating"])
  <2>1. SaveRouteAs("Creating", j.leases, g) /\ gwDrifted
    BY <1>0, <1>1, <1>2, <1>6 DEF SaveRouteAs, SaveRoute, RouteMatches
  <2> QED BY <1>0, <1>1, <1>3, <1>6, <2>1, RouteSaved
<1>7. CASE /\ j.phase = "Creating" /\ j.target = g
           /\ gwCloud' = [gwCloud EXCEPT !.route = g] /\ UNCHANGED gwRoute
  <2>1. /\ gwCloud' \in Cloud /\ gwCloud'.rule = gwCloud.rule /\ gwCloud'.route = g
        /\ gwCloud'.check = gwCloud.check
    BY <1>0, <1>7 DEF Cloud
  <2>2. CloudMatches'
    BY <1>0, <1>2, <1>7, <2>1 DEF GInv, CloudMatches, CheckMatches, IngressMatches, RouteMatches
  <2> QED BY <1>0, <1>2, <1>7, <2>1, <2>2, CloudChanged
<1>8. CASE /\ j.phase = "Creating" /\ j.target = g /\ l \in j.leases
           /\ gwCloud.route = g /\ SaveRoute([j EXCEPT !.phase = "Active"])
  <2>1. SaveRouteAs("Active", j.leases, g)
    BY <1>1, <1>2, <1>8 DEF SaveRouteAs, SaveRoute
  <2> QED BY <1>0, <1>1, <1>3, <1>8, <2>1, RouteSaved
<1> QED BY <1>4, <1>5, <1>6, <1>7, <1>8 DEF AcquireRoute
-----------------------------------------------------------------------------
\* A pass that releases acts for a lease that is no longer live.
LEMMA ReleaseIngressInv ==
    ASSUME GInv, UNCHANGED gwOthers, NEW l, NEW g, For(l, g), ~Live(l), ReleaseIngress(l)
    PROVE  GInv'
<1> DEFINE j == gwIngress
<1>0. /\ l \in Lease /\ Bound(l) /\ gwIngress \in IngressJournal /\ gwCloud \in Cloud
      /\ gwDrifted \in BOOLEAN /\ IngressOrder /\ (~gwDrifted => IngressMatches)
  BY DEF GInv, For, ResourceTypes, CloudMatches
<1>1. /\ j = [phase |-> j.phase, leases |-> j.leases] /\ j.leases \in SUBSET Lease
      /\ j.phase \in {"none", "Creating", "Active", "Deleting", "Absent"}
      /\ gwCloud.rule \in BOOLEAN
  BY <1>0 DEF IngressJournal, Cloud
<1>2. UNCHANGED <<gwBinding, gwCheck, gwRoute, gwDrifted>> /\ ~IngressReleased(l)
  BY DEF ReleaseIngress
<1>3. \A x \in j.leases : Bound(x) /\ (Live(x) => gwDrifted \/ j.phase = "Active")
  BY <1>0, <1>1 DEF GInv, IngressOrder, LiveKept, Live, Kept
<1>4. CASE /\ j.phase # "Deleting"
           /\ SaveIngress([j EXCEPT !.leases = @ \ {l},
                                    !.phase = IF j.leases = {l} THEN "Deleting" ELSE @])
  <2> DEFINE S == j.leases \ {l}  p == IF j.leases = {l} THEN "Deleting" ELSE j.phase
  <2>1. SaveIngress([j EXCEPT !.leases = S, !.phase = p])
    BY <1>4
  <2>2. /\ l \in j.leases /\ j.phase \in {"Creating", "Active"}
        /\ (S = {} <=> p = "Deleting") /\ p \in {"Creating", "Active", "Deleting"}
        /\ (p # "Deleting" => p = j.phase) /\ S \in SUBSET Lease
    BY <1>1, <1>2, <1>4 DEF IngressReleased
  <2>3. \A x \in S : x \in j.leases
    OBVIOUS
  <2>4. \A x \in j.leases : Live(x) => x \in S
    OBVIOUS
  <2> HIDE DEF S, p
  <2>5. SaveIngressAs(p, S)
    <3>1. ASSUME NEW r, r = [j EXCEPT !.leases = S, !.phase = p] PROVE r = [phase |-> p,
                                                                            leases |-> S]
      BY <1>1, <3>1
    <3> QED BY <1>2, <2>1, <3>1 DEF SaveIngressAs, SaveIngress
  <2>6. \A x \in j.leases : Live(x) => gwDrifted \/ p = "Active"
    BY <1>3, <2>2, <2>4
  <2>7. ~gwDrifted => (p = "Active" => gwCloud.rule)
    BY <1>0, <2>2 DEF IngressMatches
  <2> QED BY <1>0, <1>3, <2>2, <2>3, <2>4, <2>5, <2>6, <2>7, IngressSaved
<1>5. CASE /\ j.phase = "Deleting" /\ gwCloud' = [gwCloud EXCEPT !.rule = FALSE]
           /\ UNCHANGED gwIngress
  <2>1. /\ gwCloud' \in Cloud /\ ~gwCloud'.rule /\ gwCloud'.route = gwCloud.route
        /\ gwCloud'.check = gwCloud.check
    BY <1>0, <1>5 DEF Cloud
  <2>2. CloudMatches'
    BY <1>0, <1>2, <1>5, <2>1 DEF GInv, CloudMatches, CheckMatches, IngressMatches, RouteMatches
  <2> QED BY <1>0, <1>2, <1>5, <2>1, <2>2, CloudChanged
<1>6. CASE j.phase = "Deleting" /\ ~gwCloud.rule /\ SaveIngress([j EXCEPT !.phase = "Absent"])
  <2>1. SaveIngressAs("Absent", {}) /\ j.leases = {}
    BY <1>0, <1>1, <1>2, <1>6 DEF SaveIngressAs, SaveIngress, IngressOrder
  <2> QED BY <1>0, <1>6, <2>1, IngressSaved
<1> QED BY <1>4, <1>5, <1>6 DEF ReleaseIngress

\* Routes.Release.
LEMMA ReleaseRouteInv ==
    ASSUME GInv, UNCHANGED gwOthers, NEW l, NEW g, For(l, g), ~Live(l), ReleaseRoute(l, g)
    PROVE  GInv'
<1> DEFINE j == gwRoute
<1>0. /\ l \in Lease /\ g \in Gateway /\ Bound(l) /\ Through(l) = g
      /\ gwRoute \in RouteJournal /\ gwCloud \in Cloud /\ gwDrifted \in BOOLEAN
      /\ RouteOrder /\ (~gwDrifted => RouteMatches) /\ None \notin Gateway
  BY Leases DEF GInv, For, ResourceTypes, CloudMatches
<1>1. /\ j = [phase |-> j.phase, leases |-> j.leases, target |-> j.target]
      /\ j.leases \in SUBSET Lease
      /\ j.phase \in {"none", "Creating", "Active", "Deleting", "Absent"}
  BY <1>0 DEF RouteJournal
<1>2. /\ UNCHANGED <<gwBinding, gwCheck, gwIngress, gwDrifted>> /\ ~RouteReleased(l, g)
      /\ j.target = g
  BY DEF ReleaseRoute
<1>3. \A x \in j.leases :
          Bound(x) /\ Through(x) = j.target /\ (Live(x) => gwDrifted \/ j.phase = "Active")
  BY <1>0, <1>1 DEF GInv, RouteOrder, LiveKept, Live, Kept
<1>4. CASE /\ j.phase # "Deleting"
           /\ SaveRoute([j EXCEPT !.leases = @ \ {l},
                                  !.phase = IF j.leases = {l} THEN "Deleting" ELSE @])
  <2> DEFINE S == j.leases \ {l}  p == IF j.leases = {l} THEN "Deleting" ELSE j.phase
  <2>1. SaveRoute([j EXCEPT !.leases = S, !.phase = p])
    BY <1>4
  <2>2. /\ l \in j.leases /\ j.phase \in {"Creating", "Active"}
        /\ (S = {} <=> p = "Deleting") /\ p \in {"Creating", "Active", "Deleting"}
        /\ (p # "Deleting" => p = j.phase) /\ S \in SUBSET Lease
    BY <1>1, <1>2, <1>4 DEF RouteReleased
  <2>3. \A x \in S : x \in j.leases
    OBVIOUS
  <2>4. \A x \in j.leases : Live(x) => x \in S
    OBVIOUS
  <2> HIDE DEF S, p
  <2>5. SaveRouteAs(p, S, g)
    <3>1. ASSUME NEW r, r = [j EXCEPT !.leases = S, !.phase = p]
          PROVE  r = [phase |-> p, leases |-> S, target |-> j.target]
      BY <1>1, <3>1
    <3> QED BY <1>2, <2>1, <3>1 DEF SaveRouteAs, SaveRoute
  <2>6. \A x \in j.leases : Live(x) => gwDrifted \/ p = "Active"
    BY <1>3, <2>2, <2>4
  <2>7. ~gwDrifted => /\ gwCloud.route # None => gwCloud.route = g
                      /\ p = "Active" => gwCloud.route = g
    BY <1>0, <1>2, <2>2 DEF RouteMatches
  <2>8. /\ \A x \in S : Bound(x) /\ Through(x) = g
        /\ p = "Deleting" => \E x \in Lease : Bound(x)
        /\ p \in {"Creating", "Active"} <=> S # {}
        /\ \A x \in gwRoute.leases : Live(x) => x \in S /\ (gwDrifted \/ p = "Active")
        /\ p \in {"none", "Creating", "Active", "Deleting", "Absent"} /\ S \in SUBSET Lease
    BY <1>0, <1>2, <1>3, <2>2, <2>3, <2>4, <2>6
  <2>9. ~gwDrifted =>
          /\ gwCloud.route # None => p \in {"Creating", "Active", "Deleting"} /\ gwCloud.route = g
          /\ p = "Active" => gwCloud.route = g
    BY <2>2, <2>7
  <2> QED BY <1>0, <2>5, <2>8, <2>9, RouteSaved
<1>5. CASE /\ j.phase = "Deleting" /\ gwCloud' = [gwCloud EXCEPT !.route = None]
           /\ UNCHANGED gwRoute
  <2>1. /\ gwCloud' \in Cloud /\ gwCloud'.rule = gwCloud.rule /\ gwCloud'.route = None
        /\ gwCloud'.check = gwCloud.check
    BY <1>0, <1>5 DEF Cloud
  <2>2. CloudMatches'
    BY <1>0, <1>2, <1>5, <2>1 DEF GInv, CloudMatches, CheckMatches, IngressMatches, RouteMatches
  <2> QED BY <1>0, <1>2, <1>5, <2>1, <2>2, CloudChanged
<1>6. CASE /\ j.phase = "Deleting" /\ gwCloud.route = None
           /\ SaveRoute([j EXCEPT !.phase = "Absent"])
  <2>1. SaveRouteAs("Absent", {}, g) /\ j.leases = {}
    BY <1>0, <1>1, <1>2, <1>6 DEF SaveRouteAs, SaveRoute, RouteOrder
  <2> QED BY <1>0, <1>6, <2>1, RouteSaved
<1> QED BY <1>4, <1>5, <1>6 DEF ReleaseRoute

\* SourceDestination.Release.
LEMMA ReleaseCheckInv ==
    ASSUME GInv, UNCHANGED gwOthers, NEW l, NEW g, For(l, g), ~Live(l), ReleaseCheck(l, g)
    PROVE  GInv'
<1> DEFINE j == gwCheck[g]
<1>0. /\ l \in Lease /\ g \in Gateway /\ Bound(l) /\ Through(l) = g
      /\ gwCheck \in [Gateway -> CheckJournal] /\ gwCloud \in Cloud
      /\ gwDrifted \in BOOLEAN /\ CheckOrder(g) /\ (~gwDrifted => CheckMatches(g))
  BY DEF GInv, For, ResourceTypes, CloudMatches
<1>1. /\ j = [phase |-> j.phase, leases |-> j.leases, original |-> j.original]
      /\ j.leases \in SUBSET Lease
      /\ j.phase \in {"none", "Disabling", "Active", "Restoring", "Restored"}
      /\ j.original \in BOOLEAN
  BY <1>0 DEF CheckJournal
<1>2. UNCHANGED <<gwBinding, gwIngress, gwRoute, gwDrifted>> /\ ~CheckReleased(l, g)
  BY DEF ReleaseCheck
<1>3. \A x \in j.leases :
          Bound(x) /\ Through(x) = g /\ (Live(x) => gwDrifted \/ j.phase = "Active")
  BY <1>0, <1>1 DEF GInv, CheckOrder, LiveKept, Live, Kept
<1>4. CASE /\ j.phase # "Restoring"
           /\ SaveCheck(g, [j EXCEPT !.leases = @ \ {l},
                                     !.phase = IF j.leases = {l} THEN "Restoring" ELSE @])
  <2> DEFINE S == j.leases \ {l}  p == IF j.leases = {l} THEN "Restoring" ELSE j.phase
  <2>1. SaveCheck(g, [j EXCEPT !.leases = S, !.phase = p])
    BY <1>4
  <2>2. /\ l \in j.leases /\ j.phase \in {"Disabling", "Active"}
        /\ (S = {} <=> p = "Restoring") /\ p \in {"Disabling", "Active", "Restoring"}
        /\ (p # "Restoring" => p = j.phase) /\ S \in SUBSET Lease
    BY <1>1, <1>2, <1>4 DEF CheckReleased
  <2>3. \A x \in S : x \in j.leases
    OBVIOUS
  <2>4. \A x \in j.leases : Live(x) => x \in S
    OBVIOUS
  <2> HIDE DEF S, p
  <2>5. SaveCheckAs(g, p, S, j.original)
    <3> HIDE DEF j
    <3>1. ASSUME NEW r, r = [j EXCEPT !.leases = S, !.phase = p]
          PROVE  r = [phase |-> p, leases |-> S, original |-> j.original]
      BY <1>1, <3>1
    <3> QED BY <1>2, <2>1, <3>1 DEF SaveCheckAs, SaveCheck
  <2>6. /\ \A x \in S : Bound(x) /\ Through(x) = g
        /\ p = "Restoring" => \E x \in Lease : Bound(x) /\ Through(x) = g
        /\ p \in {"Disabling", "Active"} <=> S # {}
        /\ \A x \in gwCheck[g].leases : Live(x) => x \in S /\ (gwDrifted \/ p = "Active")
        /\ p \in {"none", "Disabling", "Active", "Restoring", "Restored"} /\ S \in SUBSET Lease
    BY <1>0, <1>3, <2>2, <2>3, <2>4
  <2>7. ~gwDrifted =>
          /\ p \notin {"none", "Restored"} /\ (j.original <=> g \in Checked)
          /\ p = "Active" => ~gwCloud.check[g]
    BY <1>0, <2>2 DEF CheckMatches
  <2> QED BY SMTT(30), <1>0, <1>1, <2>5, <2>6, <2>7, CheckSaved
<1>5. CASE /\ j.phase = "Restoring" /\ j.original
           /\ gwCloud' = [gwCloud EXCEPT !.check[g] = TRUE] /\ UNCHANGED gwCheck
  <2>1. /\ gwCloud' \in Cloud /\ gwCloud'.rule = gwCloud.rule
        /\ gwCloud'.route = gwCloud.route /\ gwCloud'.check[g]
        /\ \A x \in Gateway \ {g} : gwCloud'.check[x] = gwCloud.check[x]
    BY <1>0, <1>5 DEF Cloud
  <2>2. CloudMatches'
    BY SMTT(30), <1>0, <1>2, <1>5, <2>1
       DEF GInv, CloudMatches, CheckMatches, IngressMatches, RouteMatches
  <2> QED BY <1>0, <1>2, <1>5, <2>1, <2>2, CloudChanged
<1>6. CASE /\ j.phase = "Restoring" /\ ~(j.original /\ ~gwCloud.check[g])
           /\ SaveCheck(g, [j EXCEPT !.phase = "Restored"])
  <2>1. SaveCheckAs(g, "Restored", j.leases, j.original)
    <3>1. [j EXCEPT !.phase = "Restored"] = [phase |-> "Restored", leases |-> j.leases,
                                             original |-> j.original]
      BY <1>0, CheckRecord
    <3> QED BY <1>2, <1>6, <3>1 DEF SaveCheckAs, SaveCheck
  <2>2. j.leases = {} /\ (~gwDrifted => (g \in Checked => gwCloud.check[g]))
    BY <1>0, <1>1, <1>6 DEF CheckOrder, CheckMatches
  <2> QED BY SMTT(30), <1>0, <1>1, <2>1, <2>2, CheckSaved
<1> QED BY <1>4, <1>5, <1>6 DEF ReleaseCheck

\* BoundResources.Ensure.
LEMMA EnsureInv == ASSUME GInv, NEW w \in Worker, Ensure(w) PROVE GInv'
<1> DEFINE l == Current(w)  g == gaRecord[w].gateway
<1>1. ~Idle(w) /\ UNCHANGED gwOthers /\ EnsureResources(l, g)
  BY DEF Ensure, ActivePhase, Idle, gwOthers, userVars
<1>2. l \in Lease /\ g \in Gateway /\ Through(l) = g
  BY <1>1, Leases DEF GInv, RecordOrder, Through
<1>3. ASSUME gwBinding[l] = "bound" PROVE For(l, g)
  BY <1>2, <1>3 DEF For, Bound
<1>4. CASE Bind(l)
  BY <1>1, <1>2, <1>4, BindingSaved DEF Bind
<1> QED BY <1>1, <1>3, <1>4, AcquireCheckInv, AcquireIngressInv, AcquireRouteInv
     DEF EnsureResources

\* BoundResources.Release.
LEMMA ReleaseResourcesInv ==
    ASSUME GInv, NEW w \in Worker, gaRecord[w].phase = "Releasing", UNCHANGED gwOthers,
           ReleaseResources(Current(w), gaRecord[w].gateway)
    PROVE  GInv'
<1> DEFINE l == Current(w)  g == gaRecord[w].gateway
<1>1. ~Idle(w)
  BY DEF Idle
<1>2. l \in Lease /\ g \in Gateway /\ Through(l) = g /\ Owner(l) = w
  BY <1>1, Leases DEF GInv, RecordOrder, Through
<1>3. For(l, g)
  BY <1>2 DEF For, Bound, ReleaseResources
<1>4. ~Live(l)
  BY <1>2 DEF GInv, LiveKept, Live, Kept
<1>5. CASE /\ IngressReleased(l) /\ RouteReleased(l, g) /\ CheckReleased(l, g)
           /\ SaveBinding(l, "released")
  <2>1. l \notin gwIngress.leases /\ gwIngress.phase # "Deleting"
    BY <1>5 DEF GInv, IngressOrder, IngressReleased
  <2>2. l \notin gwRoute.leases /\ gwRoute.phase # "Deleting"
    BY <1>5 DEF GInv, RouteOrder, RouteReleased
  <2>3. l \notin gwCheck[g].leases /\ gwCheck[g].phase # "Restoring"
    BY <1>2, <1>5 DEF GInv, CheckOrder, CheckReleased
  <2>4. \A x \in Gateway : l \notin gwCheck[x].leases
    BY <1>2, <2>3 DEF GInv, CheckOrder
  <2> QED BY <1>1, <1>2, <1>4, <1>5, <2>1, <2>2, <2>3, <2>4, BindingSaved
<1> QED BY <1>3, <1>4, <1>5, ReleaseIngressInv, ReleaseRouteInv,
           ReleaseCheckInv DEF ReleaseResources

\* Someone else changes a resource.
LEMMA DriftInv == ASSUME GInv, UNCHANGED gwOthers, Drift PROVE GInv'
<1>1. /\ gwCloud \in Cloud /\ UNCHANGED <<gwBinding, gwCheck, gwIngress, gwRoute>>
      /\ gwDrifted' = TRUE
  BY DEF GInv, ResourceTypes, Drift
<1>2. gwCloud' \in Cloud
  BY <1>1 DEF Drift, Cloud
<1>3. CloudMatches'
  BY <1>1 DEF CloudMatches
<1> QED BY <1>1, <1>2, <1>3, CloudChanged
-----------------------------------------------------------------------------
\* Steps that leave the resources alone, and the gateway and lease of every
\* record under way.
Steady ==
    /\ UNCHANGED resourceVars
    /\ \A w \in Worker : ~Idle(w) =>
          gaRecord'[w].gateway = gaRecord[w].gateway /\ gaRecord'[w].lease = gaRecord[w].lease

\* Resources and their journals stay through such a step.
LEMMA ResourcesStay ==
    ASSUME GInv, Steady
    PROVE  /\ ResourceTypes' /\ (\A g \in Gateway : CheckOrder(g)')
           /\ IngressOrder' /\ RouteOrder' /\ CloudMatches'
           /\ \A l \in Lease : Bound(l)' = Bound(l)
           /\ \A l \in Lease : Bound(l) =>
                 Through(l)' = Through(l) /\ Current(Owner(l))' = Current(Owner(l))
<1>0. /\ UNCHANGED resourceVars
      /\ UNCHANGED <<gwBinding, gwCheck, gwIngress, gwRoute, gwCloud, gwDrifted>>
  BY DEF Steady, resourceVars
<1>1. ResourceTypes' /\ CloudMatches' /\ (\A l \in Lease : Bound(l)' = Bound(l))
  BY <1>0
     DEF GInv, ResourceTypes, CloudMatches, IngressMatches, RouteMatches, CheckMatches,
         Bound
<1>2. \A l \in Lease : Bound(l) =>
          Through(l)' = Through(l) /\ Current(Owner(l))' = Current(Owner(l))
  BY Leases DEF GInv, RecordOrder, Steady, Through, Current, LeaseOf
<1>3. ASSUME NEW g \in Gateway PROVE CheckOrder(g)'
  <2>1. CheckOrder(g) /\ gwCheck[g].leases \subseteq Lease
    BY DEF GInv, ResourceTypes, CheckJournal
  <2> QED BY <1>0, <1>1, <1>2, <2>1 DEF CheckOrder
<1>4. IngressOrder' /\ RouteOrder'
  <2>1. /\ gwIngress.leases \subseteq Lease /\ gwRoute.leases \subseteq Lease
        /\ IngressOrder /\ RouteOrder
    BY DEF GInv, ResourceTypes, IngressJournal, RouteJournal
  <2> QED BY <1>0, <1>1, <1>2, <2>1 DEF IngressOrder, RouteOrder
<1> QED BY <1>1, <1>2, <1>3, <1>4

\* A live lease stays kept while its record is not past withdrawal and its
\* holds stay.
LEMMA HeldStays ==
    ASSUME GInv, Steady, NEW l \in Lease, Kept(l),
           gaRecord'[Owner(l)].phase \in {"Publishing", "Ready", "Withdrawing"},
           \A m \in Remote : l \in gaHold[m] => l \in gaHold'[m]
    PROVE  Kept(l)'
<1> DEFINE w == Owner(l)
<1>1. w \in Worker /\ ~Idle(w) /\ Bound(l)
  BY Leases DEF Kept, Idle
<1>2. Through(l)' = Through(l) /\ Current(w)' = Current(w) /\ Bound(l)'
  BY <1>1, ResourcesStay
<1>3. gaRecord[w].gateway \in Gateway /\ gaRecord'[w].gateway = gaRecord[w].gateway
  BY <1>1 DEF GInv, RecordOrder, Steady
<1>4. Protected(w)'
  BY SMTT(30), <1>1, <1>2, <1>3, Leases DEF Kept, Protected, Participants
<1> QED BY <1>2, <1>4 DEF Kept, Steady, resourceVars

\* What is left to show of such a step.
LEMMA ControlStep ==
    ASSUME GInv, Steady, ControlTypes', RecordOrder', LiveKept', MeshOrder'
    PROVE  GInv'
  BY ResourcesStay DEF GInv


\* Only claims and requests change.
LEMMA RequestStep ==
    ASSUME GInv, UNCHANGED <<gaRecord, gaMachine, gaHold, gaIntent, meshVars, agentVars,
                             gaTransport, resourceVars>>,
           gaClaim' \in [Worker -> Gateway \cup {None}],
           gaRequest' \in [Worker -> Requests],
           \A w \in Worker : gaRequest'[w].stage = "absent" \/ ~gaRequest'[w].owned =>
              gaRequest[w].stage = "absent" \/ ~gaRequest[w].owned \/ Idle(w)
    PROVE  GInv'
<1>1. Steady
  BY DEF Steady
<1>2. ControlTypes'
  BY DEF GInv, ControlTypes, meshVars, agentVars
<1>3. \A w \in Worker : Idle(w)' = Idle(w) /\ Current(w)' = Current(w)
  BY DEF Idle, Current, LeaseOf
<1>4. RecordOrder'
  BY SMTT(30), <1>1, <1>3, ResourcesStay, Leases DEF GInv, RecordOrder
<1>5. LiveKept'
  BY <1>1, HeldStays DEF GInv, LiveKept, Kept
<1>6. MeshOrder'
  BY DEF GInv, MeshOrder, Running, meshVars, agentVars
<1> QED BY <1>1, <1>2, <1>4, <1>5, <1>6, ControlStep

\* A claim is edited.
LEMMA EditClaimInv == ASSUME GInv, NEW w \in Worker, EditClaim(w) PROVE GInv'
<1>1. gaClaim' \in [Worker -> Gateway \cup {None}]
  BY DEF GInv, ControlTypes, EditClaim
<1> QED BY <1>1, RequestStep DEF EditClaim, GInv, ControlTypes

\* What a request step must show of the requests.
LEMMA RequestSet ==
    ASSUME GInv, UNCHANGED <<gaRecord, gaMachine, gaHold, gaIntent, meshVars, agentVars,
                             gaTransport, resourceVars>>,
           UNCHANGED gaClaim, NEW w \in Worker, NEW r \in Requests,
             gaRequest' = [gaRequest EXCEPT ![w] = r],
           r.stage = "absent" \/ ~r.owned => gaRequest[w].stage = "absent"
             \/ ~gaRequest[w].owned \/ Idle(w)
    PROVE  GInv'
<1>0. gaRequest \in [Worker -> Requests] /\ gaClaim \in [Worker -> Gateway \cup {None}]
  BY DEF GInv, ControlTypes, Requests
<1>1. /\ gaRequest' \in [Worker -> Requests] /\ gaRequest'[w] = r
      /\ \A x \in Worker \ {w} : gaRequest'[x] = gaRequest[x]
  BY <1>0
<1> QED BY <1>0, <1>1, RequestStep DEF Requests

\* The lifecycle finalizer is added.
LEMMA OwnInv == ASSUME GInv, NEW w \in Worker, Own(w) PROVE GInv'
<1>0. gaRequest \in [Worker -> Requests]
  BY DEF GInv, ControlTypes, Requests
<1>1. PICK r : r = [gaRequest[w] EXCEPT !.owned = TRUE]
  OBVIOUS
<1>2. r \in Requests /\ r.owned /\ r.stage = "present"
  BY <1>0, <1>1 DEF Own, Requests
<1>3. gaRequest' = [gaRequest EXCEPT ![w] = r]
  BY <1>0, <1>1 DEF Own
<1> QED BY <1>2, <1>3, RequestSet DEF Own, userVars

\* It is removed, with the request.
LEMMA FinishInv == ASSUME GInv, NEW w \in Worker, Finish(w) PROVE GInv'
<1>1. NoRequest \in Requests
  BY DEF NoRequest, Requests
<1> QED BY <1>1, RequestSet DEF Finish, userVars

\* One record changes; its gateway and lease may, if it is not under way.
LEMMA RecordSet ==
    ASSUME GInv, UNCHANGED <<gaClaim, gaMachine, gaHold, gaIntent, meshVars, agentVars,
                             gaTransport, resourceVars>>,
           gaRequest' \in [Worker -> Requests],
           \A x \in Worker : gaRequest'[x].stage = "absent" \/ ~gaRequest'[x].owned => Idle(x)',
           NEW w \in Worker, NEW r \in Record, gaRecord' = [gaRecord EXCEPT ![w] = r],
           ~Idle(w) => r.gateway = gaRecord[w].gateway /\ r.lease = gaRecord[w].lease,
           r.phase \notin {"none", "Complete"} =>
              r.gateway \in Gateway /\ LeaseOf(w, r.lease) \in Lease,
           Idle(w) \/ r.phase \notin {"none", "Complete"} \/ Released(Current(w)),
           gaRecord[w].phase \in {"Publishing", "Ready", "Withdrawing"} /\ Live(Current(w)) =>
              r.phase \in {"Publishing", "Ready", "Withdrawing"}
    PROVE  GInv'
<1>0. gaRecord \in [Worker -> Record] /\ RecordOrder /\ LiveKept
  BY DEF GInv, ControlTypes
<1>1. /\ gaRecord' \in [Worker -> Record] /\ gaRecord'[w] = r
      /\ \A x \in Worker \ {w} : gaRecord'[x] = gaRecord[x]
  BY <1>0
<1>2. Steady
  BY <1>1 DEF Steady
<1>3. ControlTypes'
  BY <1>1 DEF GInv, ControlTypes, meshVars, agentVars, Requests
<1>4. MeshOrder'
  BY DEF GInv, MeshOrder, Running, meshVars, agentVars
<1>5. \A x \in Worker \ {w} : Idle(x)' = Idle(x) /\ Current(x)' = Current(x)
  BY <1>1 DEF Idle, Current, LeaseOf
<1>6. Current(w)' = LeaseOf(w, r.lease) /\ (Idle(w)' <=> r.phase \in {"none", "Complete"})
  BY <1>1 DEF Idle, Current
<1>7. RecordOrder'
  <2>1. \A x \in Worker : (~Idle(x))' =>
            (gaRecord[x].gateway \in Gateway)' /\ (Current(x) \in Lease)'
    BY SMTT(30), <1>0, <1>1, <1>5, <1>6 DEF RecordOrder
  <2>2. ASSUME NEW l \in Lease, Bound(l)' PROVE (l = Current(Owner(l)))' /\ (~Idle(Owner(l)))'
    <3>1. /\ Bound(l) /\ l = Current(Owner(l)) /\ ~Idle(Owner(l)) /\ Owner(l) \in Worker
          /\ Current(Owner(l))' = Current(Owner(l))
      BY <1>0, <1>2, <2>2, ResourcesStay, Leases DEF RecordOrder
    <3>2. CASE Owner(l) = w
      BY <1>6, <3>1, <3>2 DEF Released, Bound
    <3>3. CASE Owner(l) # w
      BY <1>5, <3>1, <3>3
    <3> QED BY <3>2, <3>3
  <2> QED BY <1>0, <2>1, <2>2 DEF RecordOrder
<1>8. LiveKept'
  <2> SUFFICES ASSUME NEW l \in Lease, Live(l) PROVE Kept(l)'
    BY DEF LiveKept, Live
  <2>1. Kept(l) /\ Owner(l) \in Worker
    BY <1>0, Leases DEF LiveKept, Live
  <2>2. gaRecord'[Owner(l)].phase \in {"Publishing", "Ready", "Withdrawing"}
    BY <1>1, <2>1 DEF Kept
  <2> QED BY <1>2, <2>1, <2>2, HeldStays
<1> QED BY <1>2, <1>3, <1>4, <1>7, <1>8, ControlStep

\* Transit moves the phase of a record.
LEMMA TransitInv ==
    ASSUME GInv, NEW w \in Worker, NEW p \in Phase \ {"none"},
      gaRecord' = [gaRecord EXCEPT ![w].phase = p],
           UNCHANGED <<gaClaim, gaRequest, gaMachine, gaHold, gaIntent, meshVars, agentVars,
                       gaTransport, resourceVars>>,
           ~Idle(w), p = "Complete" => Released(Current(w)),
           Live(Current(w)) => p \in {"Publishing", "Ready", "Withdrawing"}
    PROVE  GInv'
<1>0. gaRecord \in [Worker -> Record] /\ gaRequest \in [Worker -> Requests] /\ RecordOrder
  BY DEF GInv, ControlTypes, Requests
<1>1. PICK r : r = [gaRecord[w] EXCEPT !.phase = p]
  OBVIOUS
<1>2. /\ r \in Record /\ r.phase = p /\ r.gateway = gaRecord[w].gateway
      /\ r.lease = gaRecord[w].lease
  BY <1>0, <1>1 DEF Record
<1>3. gaRecord' = [gaRecord EXCEPT ![w] = r]
  BY <1>0, <1>1
<1>4. \A x \in Worker : gaRequest'[x].stage = "absent" \/ ~gaRequest'[x].owned => Idle(x)'
  BY <1>0, <1>2, <1>3 DEF RecordOrder, Idle
<1>5. r.gateway \in Gateway /\ LeaseOf(w, r.lease) \in Lease
  BY <1>0, <1>2 DEF RecordOrder, Current
<1> QED BY <1>0, <1>2, <1>3, <1>4, <1>5, RecordSet

\* What a transit changes.
LEMMA Transits ==
    ASSUME NEW w, NEW p, Transit(w, p)
    PROVE  /\ gaRecord' = [gaRecord EXCEPT ![w].phase = p]
           /\ UNCHANGED <<gaClaim, gaRequest, gaMachine, gaHold, gaIntent, meshVars, agentVars,
                          gaTransport,
                          resourceVars>>
  BY DEF Transit, userVars

\* Withdrawal begins.
LEMMA BeginWithdrawInv == ASSUME GInv, NEW w \in Worker, BeginWithdraw(w) PROVE GInv'
<1>1. ~Idle(w) /\ Transit(w, "Withdrawing")
  BY DEF BeginWithdraw, Idle, ActivePhase
<1>2. "Withdrawing" \in Phase \ {"none"}
  BY DEF Phase
<1> QED BY <1>1, <1>2, Transits, TransitInv

\* Preparation is over.
LEMMA PreparedInv == ASSUME GInv, NEW w \in Worker, Prepared(w) PROVE GInv'
<1>1. ~Idle(w) /\ Transit(w, "Publishing")
  BY DEF Prepared, Idle
<1>2. "Publishing" \in Phase \ {"none"}
  BY DEF Phase
<1> QED BY <1>1, <1>2, Transits, TransitInv

\* A ready attachment is published again.
LEMMA DemoteInv == ASSUME GInv, NEW w \in Worker, Demote(w) PROVE GInv'
<1>1. /\ ~Idle(w) /\ gaRecord' = [gaRecord EXCEPT ![w].phase = "Publishing"]
      /\ UNCHANGED <<gaClaim, gaRequest, gaMachine, gaHold, gaIntent, meshVars, agentVars,
                     gaTransport, resourceVars>>
  BY DEF Demote, Idle
<1>2. "Publishing" \in Phase \ {"none"}
  BY DEF Phase
<1> QED BY <1>1, <1>2, TransitInv

\* The next lease of a worker begins.
LEMMA BeginInv == ASSUME GInv, NEW w \in Worker, Begin(w) PROVE GInv'
<1>0. gaRecord \in [Worker -> Record] /\ gaRequest \in [Worker -> Requests] /\ RecordOrder
  BY DEF GInv, ControlTypes, Requests
<1>1. PICK r :
          r = [phase |-> "Preparing", lease |-> gaRecord[w].lease + 1, gateway |-> Desired(w)]
  OBVIOUS
<1>2. Desired(w) \in Gateway
  BY <1>0 DEF Begin, Desired, Requests
<1>3. gaRecord[w].lease + 1 \in 1 .. MaxLease
  BY SMTT(30), <1>0, GatewayAssumption DEF Begin, Record
<1>4. /\ r \in Record /\ r.phase = "Preparing" /\ r.lease = gaRecord[w].lease + 1
      /\ r.gateway = Desired(w)
  BY SMTT(30), <1>1, <1>2, <1>3 DEF Record, Phase
<1>5. LeaseOf(w, r.lease) \in Lease
  BY <1>3, <1>4, GatewayAssumption DEF LeaseOf
<1>6. /\ gaRecord' = [gaRecord EXCEPT ![w] = r] /\ Idle(w) /\ gaRequest[w].owned
      /\ gaRequest[w].stage = "present"
  BY <1>0, <1>1, <1>2, Leases DEF Begin, Desired
<1>7. \A x \in Worker : gaRequest'[x].stage = "absent" \/ ~gaRequest'[x].owned => Idle(x)'
  BY <1>0, <1>6 DEF RecordOrder, Idle, Begin
<1>8. UNCHANGED <<gaClaim, gaRequest, gaMachine, gaHold, gaIntent, meshVars, agentVars,
                  gaTransport, resourceVars>>
  BY DEF Begin, userVars
<1>9. gaRecord[w].phase \notin {"Publishing", "Ready", "Withdrawing"}
  BY <1>6 DEF Idle
<1> QED BY <1>0, <1>2, <1>4, <1>5, <1>6, <1>7, <1>8, <1>9, RecordSet

\* GatewayClaims.Reconcile: a request never loses its finalizer, and is made
\* again only when its record is at rest.
LEMMA GatewayClaimsInv == ASSUME GInv, NEW w \in Worker, GatewayClaims(w) PROVE GInv'
<1>0. /\ gaRecord \in [Worker -> Record] /\ gaRequest \in [Worker -> Requests]
      /\ RecordOrder /\ gaClaim \in [Worker -> Gateway \cup {None}]
  BY DEF GInv, ControlTypes, Requests
<1>1. UNCHANGED <<gaClaim, gaMachine, gaHold, gaIntent, meshVars, agentVars, gaTransport,
                  resourceVars>>
  BY DEF GatewayClaims, userVars
<1>2. CASE /\ gaRequest[w].stage = "present" /\ UNCHANGED gaRecord
           /\ gaRequest' = [gaRequest EXCEPT ![w] =
                 IF gaRequest[w].owned THEN [@ EXCEPT !.stage = "deleting"] ELSE NoRequest]
  <2>1. CASE gaRequest[w].owned
    <3>1. PICK r : r = [gaRequest[w] EXCEPT !.stage = "deleting"]
      OBVIOUS
    <3>2. r \in Requests /\ r.owned /\ r.stage = "deleting"
      BY <1>0, <2>1, <3>1 DEF Requests
    <3>3. gaRequest' = [gaRequest EXCEPT ![w] = r]
      BY <1>0, <1>2, <2>1, <3>1
    <3> QED BY <1>1, <1>2, <3>2, <3>3, RequestSet
  <2>2. CASE ~gaRequest[w].owned
    <3>1. NoRequest \in Requests /\ gaRequest' = [gaRequest EXCEPT ![w] = NoRequest]
      BY <1>0, <1>2, <2>2 DEF NoRequest, Requests
    <3> QED BY <1>1, <1>2, <2>2, <3>1, RequestSet
  <2> QED BY <2>1, <2>2
<1>3. CASE /\ Derivable(w) /\ gaRequest[w].stage = "absent"
           /\ gaRequest' = [gaRequest EXCEPT ![w] =
                 [stage |-> "present", owned |-> FALSE, gateway |-> gaClaim[w]]]
           /\ gaRecord' = [gaRecord EXCEPT ![w] = [NoRecord EXCEPT !.lease = gaRecord[w].lease]]
  <2>1. [stage |-> "present", owned |-> FALSE, gateway |-> gaClaim[w]] \in Requests
    BY <1>0 DEF Requests
  <2>2. /\ gaRequest' \in [Worker -> Requests]
        /\ \A x \in Worker \ {w} : gaRequest'[x] = gaRequest[x]
    BY <1>0, <1>3, <2>1
  <2>3. PICK r : r = [NoRecord EXCEPT !.lease = gaRecord[w].lease]
    OBVIOUS
  <2>4. r \in Record /\ r.phase = "none"
    BY <1>0, <2>3 DEF Record, NoRecord, Phase
  <2>5. gaRecord' = [gaRecord EXCEPT ![w] = r] /\ Idle(w)
    BY <1>0, <1>3, <2>3 DEF RecordOrder
  <2>6. \A x \in Worker : gaRequest'[x].stage = "absent" \/ ~gaRequest'[x].owned => Idle(x)'
    BY <1>0, <2>2, <2>4, <2>5 DEF RecordOrder, Idle
  <2>7. gaRecord[w].phase \notin {"Publishing", "Ready", "Withdrawing"}
    BY <2>5 DEF Idle
  <2> QED BY <1>1, <2>2, <2>4, <2>5, <2>6, <2>7, RecordSet
<1>4. CASE /\ Derivable(w) /\ gaRequest[w].stage # "absent" /\ UNCHANGED gaRecord
           /\ gaRequest' = [gaRequest EXCEPT ![w].gateway = gaClaim[w]]
  <2>1. PICK r : r = [gaRequest[w] EXCEPT !.gateway = gaClaim[w]]
    OBVIOUS
  <2>2. r \in Requests /\ r.owned = gaRequest[w].owned /\ r.stage = gaRequest[w].stage
    BY <1>0, <2>1 DEF Requests
  <2>3. gaRequest' = [gaRequest EXCEPT ![w] = r]
    BY <1>0, <1>4, <2>1
  <2> QED BY <1>1, <1>4, <2>2, <2>3, RequestSet
<1> QED BY <1>2, <1>3, <1>4 DEF GatewayClaims
-----------------------------------------------------------------------------
\* The holds of one Machine change: a lease that is live keeps its holds.
LEMMA HoldSet ==
    ASSUME GInv, UNCHANGED <<gaClaim, gaRequest, gaRecord, gaMachine, gaIntent, meshVars,
                             agentVars, gaTransport,
                             resourceVars>>,
           NEW m \in Remote, NEW S \in SUBSET Lease, gaHold' = [gaHold EXCEPT ![m] = S],
           S # {} => gaMachine[m] \in {"live", "leaving"},
           \A l \in gaHold[m] : Live(l) => l \in S
    PROVE  GInv'
<1>0. gaHold \in [Remote -> SUBSET Lease] /\ RecordOrder
  BY DEF GInv, ControlTypes
<1>1. /\ gaHold' \in [Remote -> SUBSET Lease] /\ gaHold'[m] = S
      /\ \A x \in Remote \ {m} : gaHold'[x] = gaHold[x]
  BY <1>0
<1>2. Steady
  BY DEF Steady
<1>3. ControlTypes' /\ MeshOrder'
  BY <1>1 DEF GInv, ControlTypes, meshVars, agentVars, MeshOrder, Running
<1>4. \A w \in Worker : Idle(w)' = Idle(w) /\ Current(w)' = Current(w)
  BY DEF Idle, Current, LeaseOf
<1>5. RecordOrder'
  BY SMTT(30), <1>0, <1>1, <1>2, <1>4, ResourcesStay, Leases DEF RecordOrder
<1>6. LiveKept'
  <2> SUFFICES ASSUME NEW l \in Lease, Live(l) PROVE Kept(l)'
    BY DEF LiveKept, Live
  <2>1. Kept(l)
    BY DEF GInv, LiveKept, Live
  <2>2. \A x \in Remote : l \in gaHold[x] => l \in gaHold'[x]
    BY <1>1
  <2> QED BY <1>2, <2>1, <2>2, HeldStays DEF Kept
<1> QED BY <1>2, <1>3, <1>5, <1>6, ControlStep

\* CAPILifetime.Protect.
LEMMA ProtectInv == ASSUME GInv, NEW w \in Worker, Protect(w) PROVE GInv'
<1>0. /\ gaRequest \in [Worker -> Requests] /\ gaHold \in [Remote -> SUBSET Lease]
      /\ RecordOrder /\ ~Idle(w)
  BY DEF GInv, ControlTypes, Requests, Protect, ActivePhase, Idle
<1>1. UNCHANGED <<gaClaim, gaRecord, gaMachine, gaIntent, meshVars, agentVars, gaTransport,
                  resourceVars>>
  BY DEF Protect, userVars
<1>2. CASE gaRequest' = [gaRequest EXCEPT ![w].stage = "deleting"] /\ UNCHANGED gaHold
  <2>1. PICK r : r = [gaRequest[w] EXCEPT !.stage = "deleting"]
    OBVIOUS
  <2>2. r \in Requests /\ r.owned = gaRequest[w].owned /\ r.stage = "deleting"
    BY <1>0, <2>1 DEF Requests
  <2>3. gaRequest' = [gaRequest EXCEPT ![w] = r]
    BY <1>0, <1>2, <2>1
  <2> QED BY <1>1, <1>2, <2>2, <2>3, RequestSet
<1>3. CASE /\ \A m \in Participants(w) : gaMachine[m] = "live"
           /\ \E m \in Participants(w) :
                 Current(w) \notin gaHold[m] /\ gaHold' = [gaHold EXCEPT ![m] = @ \cup {Current(w)}]
           /\ UNCHANGED gaRequest
  <2>1. PICK m \in Participants(w) : gaHold' = [gaHold EXCEPT ![m] = @ \cup {Current(w)}]
    BY <1>3
  <2>2. m \in Remote /\ Current(w) \in Lease /\ gaMachine[m] = "live"
    BY SMTT(30), <1>0, <1>3, Leases DEF RecordOrder, Participants
  <2>3. /\ gaHold' = [gaHold EXCEPT ![m] = gaHold[m] \cup {Current(w)}]
        /\ gaHold[m] \cup {Current(w)} \in SUBSET Lease
    BY <1>0, <2>1, <2>2
  <2> QED BY <1>1, <1>3, <2>2, <2>3, HoldSet
<1> QED BY <1>2, <1>3 DEF Protect

\* CAPILifetime.Release, of a completed lease: it is not live.
LEMMA ReleaseHoldInv == ASSUME GInv, NEW w \in Worker, ReleaseHold(w) PROVE GInv'
<1>1. UNCHANGED <<gaClaim, gaRequest, gaRecord, gaMachine, gaIntent, meshVars, agentVars,
                  gaTransport, resourceVars>>
  BY DEF ReleaseHold, userVars
<1>2. PICK m \in Participants(w) : Current(w) \in gaHold[m]
      /\ gaHold' = [gaHold EXCEPT ![m] = @ \ {Current(w)}]
  BY DEF ReleaseHold
<1>3. CASE m \in Remote
  <2>1. gaHold \in [Remote -> SUBSET Lease] /\ RecordOrder
    BY DEF GInv, ControlTypes
  <2>2. /\ gaHold' = [gaHold EXCEPT ![m] = gaHold[m] \ {Current(w)}]
        /\ gaHold[m] \ {Current(w)} \in SUBSET Lease /\ Current(w) \in Lease
    BY <1>2, <1>3, <2>1
  <2>3. ~Live(Current(w))
    BY <2>2, Leases DEF GInv, LiveKept, Live, Kept, ReleaseHold
  <2>4. gaMachine[m] \in {"live", "leaving"}
    BY <1>2, <1>3, <2>1 DEF RecordOrder
  <2> QED BY <1>1, <1>3, <2>2, <2>3, <2>4, HoldSet
<1>4. CASE m \notin Remote
  <2>1. gaHold' = gaHold /\ gaHold \in [Remote -> SUBSET Lease]
    BY <1>2, <1>4 DEF GInv, ControlTypes
  <2> QED BY <1>1, <2>1, RequestStep DEF GInv, ControlTypes, Requests
<1> QED BY <1>3, <1>4
-----------------------------------------------------------------------------
\* Machines come and go, and agents apply; a Machine that joins runs nothing yet.
LEMMA MachineSet ==
    ASSUME GInv, UNCHANGED <<gaClaim, gaRequest, gaRecord, gaHold, gaIntent, meshVars,
                             agentVars, gaTransport,
                             resourceVars>>,
           NEW m \in Remote, NEW s \in {"live", "leaving", "terminated", "gone"},
           gaMachine' = [gaMachine EXCEPT ![m] = s],
           gaMachine[m] \in {"live", "leaving"} => s \in {"live", "leaving"} \/ gaHold[m] = {},
           s \in {"live", "leaving"} => gaMachine[m] \in {"joining", "live", "leaving"}
    PROVE  GInv'
<1>0. /\ gaMachine \in [Remote -> {"joining", "live", "leaving", "terminated", "gone"}]
      /\ RecordOrder /\ MeshOrder
  BY DEF GInv, ControlTypes
<1>1. /\ gaMachine' \in [Remote -> {"joining", "live", "leaving", "terminated", "gone"}]
      /\ gaMachine'[m] = s /\ \A x \in Remote \ {m} : gaMachine'[x] = gaMachine[x]
  BY <1>0
<1>2. Steady
  BY DEF Steady
<1>3. ControlTypes'
  BY <1>1 DEF GInv, ControlTypes, meshVars, agentVars
<1>4. \A w \in Worker : Idle(w)' = Idle(w) /\ Current(w)' = Current(w)
  BY DEF Idle, Current, LeaseOf
<1>5. RecordOrder'
  <2>1. \A x \in Remote : gaHold[x] # {} => gaMachine'[x] \in {"live", "leaving"}
    BY <1>0, <1>1 DEF RecordOrder
  <2> QED BY SMTT(30), <1>0, <1>2, <1>4, <2>1, ResourcesStay, Leases DEF RecordOrder
<1>6. LiveKept'
  BY <1>2, HeldStays DEF GInv, LiveKept, Kept
<1>7. MeshOrder'
  <2>1. ASSUME NEW c \in Running' PROVE c \in Running \/ gaView[c] = {}
    BY <1>0, <1>1 DEF MeshOrder, Running
  <2>2. \A x \in Remote : gaMachine'[x] = "joining" => gaMachine[x] = "joining"
    BY <1>0, <1>1
  <2> QED BY <1>0, <2>1, <2>2 DEF MeshOrder, meshVars, agentVars
<1> QED BY <1>2, <1>3, <1>5, <1>6, <1>7, ControlStep

\* A held Machine does not terminate.
LEMMA MachineInv == ASSUME GInv, NEW m \in Remote, MachineStep(m) \/ DeleteMachine(m) PROVE GInv'
<1>1. UNCHANGED <<gaClaim, gaRequest, gaRecord, gaHold, gaIntent, meshVars, agentVars,
                  gaTransport, resourceVars>>
  BY DEF MachineStep, DeleteMachine, userVars
<1>2. CASE gaMachine[m] = "joining" /\ gaMachine' = [gaMachine EXCEPT ![m] = "live"]
  <2>1. RecordOrder
    BY DEF GInv
  <2> QED BY <1>1, <1>2, MachineSet
<1>3. CASE /\ gaMachine[m] = "leaving" /\ gaHold[m] = {}
           /\ gaMachine' = [gaMachine EXCEPT ![m] = "terminated"]
  BY <1>1, <1>3, MachineSet
<1>4. CASE gaMachine[m] = "terminated" /\ gaMachine' = [gaMachine EXCEPT ![m] = "gone"]
  BY <1>1, <1>4, MachineSet
<1>5. CASE gaMachine[m] = "live" /\ gaMachine' = [gaMachine EXCEPT ![m] = "leaving"]
  BY <1>1, <1>5, MachineSet
<1> QED BY <1>2, <1>3, <1>4, <1>5 DEF MachineStep, DeleteMachine

\* An agent applies only what is projected, hence live.
LEMMA ApplyInv == ASSUME PromptReceipt, GInv, NEW c \in Recipient, Apply(c) PROVE GInv'
<1>0. /\ gaView \in [Recipient -> SUBSET Lease] /\ gaReceipt = gaView
      /\ gaProjection \in SUBSET Lease /\ MeshOrder /\ RecordOrder
  BY DEF GInv, ControlTypes
<1>1. /\ c \in Running /\ gaView' = [gaView EXCEPT ![c] = Rendered(c)]
      /\ gaReceipt' = [gaReceipt EXCEPT ![c] = Rendered(c)]
      /\ UNCHANGED <<gaClaim, gaRequest, gaRecord, gaMachine, gaHold, gaIntent, gaProjection,
                     gaTransport, resourceVars>>
  BY DEF Apply, userVars, meshVars
<1>2. Rendered(c) \subseteq gaProjection /\ (c = Site => Rendered(c) = gaProjection)
  BY <1>0, Leases DEF Rendered
<1>3. /\ gaView' \in [Recipient -> SUBSET Lease] /\ gaReceipt' = gaView'
      /\ gaView'[c] = Rendered(c) /\ \A x \in Recipient \ {c} : gaView'[x] = gaView[x]
  BY <1>0, <1>1, <1>2
<1>4. Steady
  BY <1>1 DEF Steady
<1>5. ControlTypes'
  BY <1>1, <1>3 DEF GInv, ControlTypes
<1>6. \A w \in Worker : Idle(w)' = Idle(w) /\ Current(w)' = Current(w)
  BY <1>1 DEF Idle, Current, LeaseOf
<1>7. RecordOrder'
  BY <1>0, <1>1, <1>4, <1>6, ResourcesStay, Leases DEF RecordOrder
<1>8. LiveKept'
  BY <1>1, <1>4, HeldStays DEF GInv, LiveKept, Kept
<1>9. MeshOrder'
  <2>1. Running' = Running /\ Running \subseteq Recipient
    BY <1>1, Leases DEF Running
  <2>2. \A x \in Running : \A l \in gaView'[x] : gaIntent[l].stage = "live"
    BY SMTT(30), <1>0, <1>2, <1>3, <2>1 DEF MeshOrder
  <2>3. \A m \in Remote : gaMachine[m] = "joining" => gaView'[m] = {}
    BY SMTT(30), <1>0, <1>1, <1>3, Leases DEF MeshOrder, Running
  <2>4. \A w \in Worker : gaTransport[w] # None => gaTransport[w] \in gaView'[Site]
    BY <1>0, <1>2, <1>3, Leases DEF MeshOrder
  <2> QED BY <1>0, <1>1, <2>1, <2>2, <2>3, <2>4 DEF MeshOrder
<1> QED BY <1>4, <1>5, <1>7, <1>8, <1>9, ControlStep

\* With prompt receipts none is ever outstanding.
LEMMA AcknowledgeInv == ASSUME GInv, NEW c \in Recipient, Acknowledge(c) PROVE GInv'
  BY DEF GInv, ControlTypes, Acknowledge
-----------------------------------------------------------------------------
\* One publication record changes.
LEMMA IntentSet ==
    ASSUME GInv, NEW w \in Worker, ~Idle(w), NEW i \in Intent, SetIntent(w, i),
           i.stage = "live" => Kept(Current(w)),
           i.stage # "live" /\ Live(Current(w)) =>
              Current(w) \notin gaProjection /\ \A c \in Running : Current(w) \notin gaView[c]
    PROVE  GInv'
<1> DEFINE l == Current(w)
<1>0. /\ gaIntent \in [Lease -> Intent] /\ RecordOrder /\ MeshOrder /\ l \in Lease
      /\ gaProjection \in SUBSET Lease /\ gaView \in [Recipient -> SUBSET Lease]
  BY DEF GInv, ControlTypes, RecordOrder
<1>1. /\ gaIntent' = [gaIntent EXCEPT ![l] = i]
      /\ UNCHANGED <<gaClaim, gaRequest, gaRecord, gaMachine, gaHold, gaProjection, gaView,
                     gaReceipt, gaTransport, resourceVars>>
  BY DEF SetIntent, userVars, meshVars, agentVars
<1> HIDE DEF l
<1>2. /\ gaIntent' \in [Lease -> Intent] /\ gaIntent'[l] = i
      /\ \A x \in Lease \ {l} : gaIntent'[x] = gaIntent[x]
  BY <1>0, <1>1
<1>3. Steady
  BY <1>1 DEF Steady
<1>4. ControlTypes'
  BY <1>1, <1>2 DEF GInv, ControlTypes
<1>5. \A x \in Worker : Idle(x)' = Idle(x) /\ Current(x)' = Current(x)
  BY <1>1 DEF Idle, Current, LeaseOf
<1>6. RecordOrder'
  BY SMTT(30), <1>0, <1>1, <1>3, <1>5, ResourcesStay, Leases DEF RecordOrder
<1>7. LiveKept'
  <2> SUFFICES ASSUME NEW x \in Lease, gaIntent'[x].stage = "live" PROVE Kept(x)'
    BY DEF LiveKept
  <2>1. Kept(x)
    BY <1>2 DEF GInv, LiveKept, l
  <2> QED BY <1>1, <1>3, <2>1, HeldStays DEF Kept
<1>8. MeshOrder'
  <2>1. Running' = Running /\ Running \subseteq Recipient
    BY <1>1, Leases DEF Running
  <2>2. \A x \in gaProjection : gaIntent'[x].stage = "live"
    BY <1>0, <1>2 DEF MeshOrder, Live, l
  <2>3. \A c \in Running : \A x \in gaView[c] : gaIntent'[x].stage = "live"
    BY SMTT(30), <1>0, <1>2, <2>1 DEF MeshOrder, Live, l
  <2> QED BY <1>0, <1>1, <2>1, <2>2, <2>3 DEF MeshOrder
<1> QED BY <1>3, <1>4, <1>6, <1>7, <1>8, ControlStep

\* The projection changes: live leases join, and one that no worker's native
\* address depends on leaves.
LEMMA MeshSet ==
    ASSUME GInv, NEW P \in SUBSET Lease, NEW R, SetMesh(P, R),
           \A l \in P : Live(l), \A w \in Worker : gaTransport[w] # None => gaTransport[w] \in P
    PROVE  GInv'
<1>0. RecordOrder /\ MeshOrder
  BY DEF GInv
<1>1. /\ gaProjection' = P
      /\ UNCHANGED <<gaClaim, gaRequest, gaRecord, gaMachine, gaHold, gaIntent, gaView,
                     gaReceipt, gaTransport, resourceVars>>
  BY DEF SetMesh, userVars, agentVars
<1>2. Steady
  BY <1>1 DEF Steady
<1>3. ControlTypes'
  BY <1>1 DEF GInv, ControlTypes
<1>4. \A x \in Worker : Idle(x)' = Idle(x) /\ Current(x)' = Current(x)
  BY <1>1 DEF Idle, Current, LeaseOf
<1>5. RecordOrder'
  BY SMTT(30), <1>0, <1>1, <1>2, <1>4, ResourcesStay, Leases DEF RecordOrder
<1>6. LiveKept'
  BY <1>1, <1>2, HeldStays DEF GInv, LiveKept, Kept
<1>7. MeshOrder'
  BY <1>0, <1>1 DEF MeshOrder, Running, Live
<1> QED BY <1>2, <1>3, <1>5, <1>6, <1>7, ControlStep

\* A native address is given for a lease the site routes, or taken.
LEMMA TransportSet ==
    ASSUME GInv, NEW w \in Worker, NEW t, SetTransport(w, t),
           t # None => t \in gaProjection /\ t \in gaView[Site] /\ Owner(t) = w
    PROVE  GInv'
<1>0. /\ RecordOrder /\ MeshOrder /\ gaTransport \in [Worker -> Lease \cup {None}]
      /\ gaProjection \in SUBSET Lease
  BY DEF GInv, ControlTypes
<1>1. /\ gaTransport' = [gaTransport EXCEPT ![w] = t]
      /\ UNCHANGED <<gaClaim, gaRequest, gaRecord, gaMachine, gaHold, gaIntent, gaProjection,
                     gaView, gaReceipt, resourceVars>>
  BY DEF SetTransport, userVars, meshVars, agentVars
<1>2. /\ gaTransport' \in [Worker -> Lease \cup {None}] /\ gaTransport'[w] = t
      /\ \A x \in Worker \ {w} : gaTransport'[x] = gaTransport[x]
  BY <1>0, <1>1
<1>3. Steady
  BY <1>1 DEF Steady
<1>4. ControlTypes'
  BY <1>1, <1>2 DEF GInv, ControlTypes
<1>5. \A x \in Worker : Idle(x)' = Idle(x) /\ Current(x)' = Current(x)
  BY <1>1 DEF Idle, Current, LeaseOf
<1>6. RecordOrder'
  BY SMTT(30), <1>0, <1>1, <1>3, <1>5, ResourcesStay, Leases DEF RecordOrder
<1>7. LiveKept'
  BY <1>1, <1>3, HeldStays DEF GInv, LiveKept, Kept
<1>8. MeshOrder'
  BY <1>0, <1>1, <1>2 DEF MeshOrder, Running
<1> QED BY <1>3, <1>4, <1>6, <1>7, <1>8, ControlStep
-----------------------------------------------------------------------------
\* What Publish has found before it records the publication.
LEMMA KeptFrom ==
    ASSUME GInv, NEW w \in Worker, gaRecord[w].phase \in {"Publishing", "Ready"}, Protected(w),
           Ensured(Current(w), gaRecord[w].gateway)
    PROVE  Kept(Current(w))
<1>1. Owner(Current(w)) = w /\ Through(Current(w)) = gaRecord[w].gateway
  BY Leases DEF Through
<1> QED BY <1>1 DEF Kept, Bound, Ensured, CheckHeld, IngressHeld, RouteHeld

\* Recording new recipients keeps the stage of a publication.
LEMMA ExtendInv == ASSUME GInv, NEW w \in Worker, ~Idle(w), Extend(w) PROVE GInv'
<1> DEFINE l == Current(w)
<1>0. l \in Lease /\ gaIntent \in [Lease -> Intent] /\ Recipients \subseteq Recipient
  BY Leases DEF GInv, ControlTypes, RecordOrder, Recipients, Published
<1>1. PICK i : i = [gaIntent[l] EXCEPT !.to = gaIntent[l].to \cup Recipients]
  OBVIOUS
<1>2. i \in Intent /\ i.stage = gaIntent[l].stage
  BY <1>0, <1>1 DEF Intent
<1>3. SetIntent(w, i)
  <2>1. [gaIntent[l] EXCEPT !.to = @ \cup Recipients] = i
    BY <1>1
  <2> QED BY <2>1 DEF Extend
<1>4. i.stage = "live" => Kept(l)
  BY <1>0, <1>2 DEF GInv, LiveKept
<1>5. ~(i.stage # "live" /\ Live(l))
  BY <1>2 DEF Live
<1> HIDE DEF l
<1> QED BY <1>2, <1>3, <1>4, <1>5, IntentSet DEF l

\* GatewayPublication.Publish: the site runs the lease before the native
\* address is given.
LEMMA PublishInv == ASSUME GInv, NEW w \in Worker, Publish(w) PROVE GInv'
<1> DEFINE l == Current(w)
<1>0. ~Idle(w) /\ gaRecord[w].phase \in {"Publishing", "Ready"} /\ Kept(l)
  BY KeptFrom DEF Publish, Idle
<1>1. l \in Lease /\ Owner(l) = w /\ Recipients \subseteq Recipient
  BY <1>0, Leases DEF GInv, RecordOrder, Recipients, Published
<1>2. /\ gaProjection \in SUBSET Lease /\ MeshOrder /\ gaReceipt = gaView
  BY DEF GInv, ControlTypes
<1>3. CASE SetIntent(w, [stage |-> "live", to |-> Recipients])
  <2>1. PICK i : i = [stage |-> "live", to |-> Recipients]
    OBVIOUS
  <2>2. i \in Intent /\ i.stage = "live" /\ SetIntent(w, i)
    BY <1>1, <1>3, <2>1 DEF Intent
  <2> QED BY <1>0, <2>2, IntentSet
<1>4. CASE gaIntent[l].stage = "live" /\ SetMesh(gaProjection \cup {l}, gaRetiring)
  <2>1. /\ gaProjection \cup {l} \in SUBSET Lease /\ \A x \in gaProjection \cup {l} : Live(x)
        /\ \A x \in Worker : gaTransport[x] # None => gaTransport[x] \in gaProjection \cup {l}
    BY <1>1, <1>2, <1>4 DEF MeshOrder, Live
  <2> QED BY <1>4, <2>1, MeshSet
<1>5. CASE Extend(w)
  BY <1>0, <1>5, ExtendInv
<1>6. CASE l \in gaProjection /\ Applied(Recipients) /\ SetTransport(w, l)
  <2>1. l \in gaView[Site]
    BY <1>1, <1>2, <1>6, Leases DEF Applied, Recipients, Rendered
  <2> QED BY <1>1, <1>6, <2>1, TransportSet
<1>7. CASE Transit(w, "Ready")
  <2>1. "Ready" \in Phase \ {"none"}
    BY DEF Phase
  <2> QED BY <1>0, <1>7, <2>1, Transits, TransitInv
<1> QED BY <1>3, <1>4, <1>5, <1>6, <1>7 DEF Publish

\* GatewayPublication.Withdraw: once every recipient has applied a mesh without
\* the lease, no running node has it and its publication may be retired.
LEMMA WithdrawInv == ASSUME GInv, NEW w \in Worker, Withdraw(w) PROVE GInv'
<1> DEFINE l == Current(w)
<1>0. ~Idle(w)
  BY DEF Withdraw, Idle
<1>1. l \in Lease /\ Owner(l) = w
  BY <1>0, Leases DEF GInv, RecordOrder
<1>2. /\ gaProjection \in SUBSET Lease /\ MeshOrder /\ gaReceipt = gaView
      /\ gaIntent \in [Lease -> Intent] /\ gaTransport \in [Worker -> Lease \cup {None}]
  BY DEF GInv, ControlTypes
<1>3. CASE gaIntent[l].stage # "live" /\ Transit(w, "Releasing")
  <2>1. "Releasing" \in Phase \ {"none"}
    BY DEF Phase
  <2> QED BY <1>0, <1>3, <2>1, Transits, TransitInv DEF Live
<1>4. CASE SetMesh(gaProjection, gaRetiring \cup {l})
  <2>1. /\ \A x \in gaProjection : Live(x)
        /\ \A x \in Worker : gaTransport[x] # None => gaTransport[x] \in gaProjection
    BY <1>2 DEF MeshOrder, Live
  <2> QED BY <1>2, <1>4, <2>1, MeshSet
<1>5. CASE Extend(w)
  BY <1>0, <1>5, ExtendInv
<1>6. CASE SetTransport(w, None)
  BY <1>6, TransportSet
<1>7. CASE gaTransport[w] # l /\ SetMesh(gaProjection \ {l}, gaRetiring \ {l})
  <2>1. /\ gaProjection \ {l} \in SUBSET Lease /\ \A x \in gaProjection \ {l} : Live(x)
    BY <1>2 DEF MeshOrder, Live
  <2>2. ASSUME NEW x \in Worker, gaTransport[x] # None PROVE gaTransport[x] \in gaProjection \ {l}
    BY <1>1, <1>2, <1>7, <2>2 DEF MeshOrder
  <2> QED BY <1>7, <2>1, <2>2, MeshSet
<1>8. CASE /\ l \notin gaProjection /\ Applied(Recipients)
           /\ SetIntent(w, [gaIntent[l] EXCEPT !.stage = "retired"])
  <2>1. PICK i : i = [gaIntent[l] EXCEPT !.stage = "retired"]
    OBVIOUS
  <2>2. i \in Intent /\ i.stage = "retired" /\ SetIntent(w, i)
    BY <1>1, <1>2, <1>8, <2>1 DEF Intent
  <2>3. ASSUME NEW c \in Running PROVE l \notin gaView[c]
    <3>1. c \in Recipients
      BY DEF Running, Recipients, Published
    <3> QED BY <1>2, <1>8, <3>1 DEF Applied, Rendered
  <2> QED BY <1>0, <1>8, <2>2, <2>3, IntentSet
<1> QED BY <1>3, <1>4, <1>5, <1>6, <1>7, <1>8 DEF Withdraw

\* Reconciler.Step in Releasing, to its completion.
LEMMA ReleaseInv == ASSUME GInv, NEW w \in Worker, Release(w) PROVE GInv'
<1>1. CASE /\ ReleaseResources(Current(w), gaRecord[w].gateway)
           /\ UNCHANGED <<userVars, gaRequest, gaRecord, gaMachine, gaHold, gaIntent,
                          meshVars, agentVars, gaTransport>>
  BY <1>1, ReleaseResourcesInv DEF Release, gwOthers, userVars
<1>2. CASE Released(Current(w)) /\ Transit(w, "Complete")
  <2>0. ~Idle(w) /\ gaRecord[w].phase = "Releasing"
    BY DEF Release, Idle
  <2>1. Current(w) \in Lease /\ Owner(Current(w)) = w
    BY <2>0, Leases DEF GInv, RecordOrder
  <2>2. ~Live(Current(w))
    BY <2>0, <2>1 DEF GInv, LiveKept, Live, Kept
  <2>3. "Complete" \in Phase \ {"none"}
    BY DEF Phase
  <2> QED BY <1>2, <2>0, <2>2, <2>3, Transits, TransitInv
<1> QED BY <1>1, <1>2 DEF Release
-----------------------------------------------------------------------------
\* The invariant holds at first ...
LEMMA InitInv == ASSUME GatewayInit PROVE GInv
<1>0. /\ gwBinding = [l \in Lease |-> "none"]
      /\ gwIngress = [phase |-> "none", leases |-> {}]
      /\ gwRoute = [phase |-> "none", leases |-> {}, target |-> None]
      /\ gwCheck = [g \in Gateway |-> [phase |-> "none", leases |-> {}, original |-> FALSE]]
      /\ gwCloud = [check |-> [g \in Gateway |-> g \in Checked], rule |-> FALSE, route |-> None]
      /\ gwDrifted = FALSE
  BY DEF GatewayInit, ResourceInit, NoJournal
<1>1. ResourceTypes
  <2>1. /\ gwCheck \in [Gateway -> CheckJournal] /\ gwIngress \in IngressJournal
        /\ gwRoute \in RouteJournal
    BY <1>0 DEF CheckJournal, IngressJournal, RouteJournal
  <2>2. PICK checks : checks = [g \in Gateway |-> g \in Checked]
    OBVIOUS
  <2>3. checks \in [Gateway -> BOOLEAN]
    <3>1. \A g \in Gateway : (g \in Checked) \in BOOLEAN
      BY SMTT(30)
    <3>2. [g \in Gateway |-> g \in Checked] \in [Gateway -> BOOLEAN]
      BY <3>1, Zenon
    <3> QED BY <2>2, <3>2, Zenon
  <2>4. gwCloud = [check |-> checks, rule |-> FALSE, route |-> None]
    BY <1>0, <2>2
  <2>5. gwCloud \in Cloud
    BY <2>3, <2>4 DEF Cloud
  <2> QED BY <1>0, <2>1, <2>5 DEF ResourceTypes
<1>2. ControlTypes
  <2>1. gaRecord \in [Worker -> Record]
    BY SMTT(30), GatewayAssumption DEF GatewayInit, NoRecord, Record, Phase
  <2>2. gaIntent \in [Lease -> Intent]
    BY DEF GatewayInit, NoIntent, Intent
  <2>3. gaRequest \in [Worker -> Requests]
    BY DEF GatewayInit, NoRequest, Requests
  <2> QED BY <2>1, <2>2, <2>3 DEF GatewayInit, ControlTypes, Requests
<1>3. RecordOrder
  <2>1. \A w \in Worker : Idle(w)
    BY DEF GatewayInit, NoRecord, Idle
  <2>2. \A l \in Lease : ~Bound(l)
    BY <1>0 DEF Bound
  <2>3. \A m \in Remote : gaHold[m] = {}
    BY DEF GatewayInit
  <2> QED BY <2>1, <2>2, <2>3 DEF RecordOrder
<1>4. (\A g \in Gateway : CheckOrder(g)) /\ IngressOrder /\ RouteOrder
  BY <1>0 DEF CheckOrder, IngressOrder, RouteOrder
<1>5. CloudMatches
  BY <1>0 DEF CloudMatches, IngressMatches, RouteMatches, CheckMatches
<1>6. LiveKept
  BY DEF GatewayInit, NoIntent, LiveKept
<1>7. MeshOrder
  BY Leases DEF GatewayInit, MeshOrder, Running
<1> QED BY <1>1, <1>2, <1>3, <1>4, <1>5, <1>6, <1>7 DEF GInv

\* ... and every step keeps it.
LEMMA StepInv == ASSUME PromptReceipt, GInv, [GatewayNext]_gatewayVars PROVE GInv'
<1>1. ASSUME NEW w \in Worker, RequestPass(w) PROVE GInv'
  BY <1>1, OwnInv, BeginInv, FinishInv, ProtectInv, BeginWithdrawInv, EnsureInv, PreparedInv,
     PublishInv,
     WithdrawInv, ReleaseInv, ReleaseHoldInv DEF RequestPass
<1>2. ASSUME NEW w \in Worker, GatewayClaims(w) \/ EditClaim(w) \/ Demote(w) PROVE GInv'
  BY <1>2, GatewayClaimsInv, EditClaimInv, DemoteInv
<1>3. ASSUME NEW m \in Remote, MachineStep(m) \/ DeleteMachine(m) PROVE GInv'
  BY <1>3, MachineInv
<1>4. ASSUME NEW c \in Recipient, Apply(c) \/ Acknowledge(c) PROVE GInv'
  BY <1>4, ApplyInv, AcknowledgeInv
<1>5. CASE /\ Drift
           /\ UNCHANGED <<gaClaim, gaRequest, gaRecord, gaMachine, gaHold, gaIntent,
                          meshVars, agentVars, gaTransport>>
  BY <1>5, DriftInv DEF gwOthers
<1>6. CASE UNCHANGED gatewayVars
  <2>1. UNCHANGED <<gaClaim, gaRequest, gaRecord, gaMachine, gaHold, gaIntent, meshVars,
                    agentVars, gaTransport,
                    resourceVars>>
    BY <1>6 DEF gatewayVars, meshVars, agentVars
  <2> QED BY <2>1, RequestStep DEF GInv, ControlTypes
<1> QED BY <1>1, <1>2, <1>3, <1>4, <1>5, <1>6 DEF GatewayNext, GatewayProgress

\* It implies the property.
LEMMA Forwards == ASSUME GInv PROVE ForwardingFollowsUse
<1>0. /\ ControlTypes /\ ResourceTypes /\ RecordOrder
      /\ (\A g \in Gateway : CheckOrder(g)) /\ IngressOrder /\ RouteOrder
      /\ CloudMatches /\ LiveKept /\ MeshOrder
  BY DEF GInv
<1>1. \A w \in Worker : gaTransport[w] # None => gaTransport[w] \in gaView[Site]
  BY <1>0 DEF MeshOrder
<1>2. ASSUME NEW c \in Running, NEW l \in gaView[c] PROVE Carried(l)
  <2> DEFINE w == Owner(l)  g == gaRecord[w].gateway
  <2>1. l \in Lease /\ w \in Worker /\ Kept(l) /\ Through(l) = g
    BY <1>0, Leases DEF MeshOrder, LiveKept, ControlTypes, Running, Through
  <2>2. g \in Gateway /\ l = Current(w)
    BY <1>0, <2>1 DEF RecordOrder, Kept, Idle
  <2>3. Participants(w) \subseteq Running
    <3>1. \A m \in Participants(w) : m \in Remote /\ gaHold[m] # {}
      BY <2>1, <2>2, Leases DEF Kept, Protected, Participants
    <3> QED BY <1>0, <3>1 DEF RecordOrder, Running
  <2>4. gwRoute.target = g
    BY <1>0, <2>1 DEF Kept, RouteOrder
  <2>5. gwDrifted \/ (~gwCloud.check[g] /\ gwCloud.rule /\ gwCloud.route = g)
    BY <1>0, <2>1, <2>2, <2>4 DEF Kept, CloudMatches, CheckMatches, IngressMatches, RouteMatches
  <2> QED BY <2>1, <2>2, <2>3, <2>4, <2>5 DEF Carried, Kept, Bound
<1>3. ASSUME ~gwDrifted, \A l \in Lease : gwBinding[l] # "bound"
      PROVE  /\ ~gwCloud.rule /\ gwCloud.route = None
             /\ \A g \in Gateway : gwCloud.check[g] <=> g \in Checked
  <2>0. \A l \in Lease : ~Bound(l)
    BY <1>3 DEF Bound
  <2>1. ~gwCloud.rule
    BY <1>0, <1>3, <2>0 DEF IngressOrder, CloudMatches, IngressMatches, ResourceTypes,
       IngressJournal
  <2>2. gwCloud.route = None
    BY <1>0, <1>3, <2>0 DEF RouteOrder, CloudMatches, RouteMatches, ResourceTypes, RouteJournal
  <2>3. ASSUME NEW g \in Gateway PROVE gwCloud.check[g] <=> g \in Checked
    <3>1. /\ gwCheck[g].leases = {}
          /\ gwCheck[g].phase \in {"none", "Disabling", "Active", "Restoring", "Restored"}
      BY <1>0, <2>0 DEF CheckOrder, ResourceTypes, CheckJournal
    <3>2. gwCheck[g].phase \in {"none", "Restored"}
      BY <1>0, <2>0, <3>1 DEF CheckOrder
    <3>3. (gwCloud.check[g] => g \in Checked) /\ (g \in Checked => gwCloud.check[g])
      BY <1>0, <1>3, <3>2 DEF CloudMatches, CheckMatches
    <3> QED BY <3>3
  <2> QED BY <2>1, <2>2, <2>3
<1> QED BY <1>1, <1>2, <1>3 DEF ForwardingFollowsUse

\* ForwardingFollowsUse, for any number of workers, gateways, leases and events,
\* where receipts are prompt: Reconciler.Step releases a lease's resources and
\* Machines only after GatewayPublication.Withdraw has it out of every running
\* node, CalicoTransport.Ensure comes after the site has it, and the journals
\* put back what they found.  (An agent whose receipt lags may be credited with
\* an older receipt of the same content; then the premise fails.)
THEOREM ForwardingKept == ASSUME PromptReceipt PROVE GatewaySpec => []ForwardingFollowsUse
<1>1. GatewayInit => GInv
  BY InitInv
<1>2. GInv /\ [GatewayNext]_gatewayVars => GInv'
  BY StepInv
<1>3. GInv => ForwardingFollowsUse
  BY Forwards
<1> QED BY <1>1, <1>2, <1>3, PTL DEF GatewaySpec
=============================================================================
