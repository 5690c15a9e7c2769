------------------------------ MODULE SiteMesh ------------------------------
(***************************************************************************)
(* Placement of the site's tunnel endpoints. The endpoint controller keeps *)
(* the mesh Secret: which site nodes hold a tunnel address and a key, which *)
(* of them own their addresses and pod blocks, which are relayed, and which *)
(* have left the selector and are retained. From it it renders one adoption *)
(* document per remote. Every remote applies the document it can still      *)
(* read, every site node configures its own tunnel and its way out, and a   *)
(* retained endpoint is released once every remote has applied a document   *)
(* that carries it on the relay.                                            *)
(*                                                                          *)
(* The API server is reached by a remote through whichever peer carries the *)
(* transit set of the list it has applied. Nodes are Ready; the set of      *)
(* remotes is fixed; the name of a deleted node is not used again.          *)
(***************************************************************************)
EXTENDS Naturals, FiniteSets

CONSTANTS
    SiteNode,       \* the site's nodes, numbered in the order the API lists them
    Joining,        \* the ones that join the cluster later
    Selection,      \* the selections an operator makes
    CloudNode,      \* the cloud machines
    NoNode,         \* no node
    Unreadable,     \* nodes whose pod blocks the CNI's records may not show
    Sparing,        \* an endpoint is deleted only beside a live selected one
    MaxChange       \* bound on changes of the selector and deletions of nodes

ASSUME SiteMeshAssumption ==
    /\ SiteNode \subseteq Nat \ {0} /\ IsFiniteSet(SiteNode)
    /\ Joining \subseteq SiteNode /\ Joining # SiteNode /\ Unreadable \subseteq SiteNode
    /\ Selection \subseteq SUBSET SiteNode
    /\ NoNode \notin SiteNode /\ Sparing \in BOOLEAN /\ MaxChange \in Nat

VARIABLES
    smNode,         \* nodes of the cluster, nodes the selector names, late nodes seen
    smMesh,         \* the mesh Secret
    smDoc,          \* [CloudNode -> the rendered adoption document]
    smApplied,      \* [CloudNode -> the list the remote has applied and cached]
    smVia,          \* [CloudNode -> the peer that carries its transit set]
    smDevice,       \* site nodes with a configured tunnel device
    smEgress,       \* [SiteNode -> [CloudNode -> next hop toward the remote]]
    smEvents        \* changes and deletions so far

placementVars ==
    <<smNode, smMesh, smDoc, smApplied, smVia, smDevice, smEgress, smEvents>>

\* Tunnel addresses, as their last number. A name keeps one for its lifetime.
Address == 1 .. Cardinality(SiteNode)

First(S) == CHOOSE n \in S : \A k \in S : n <= k

---------------------------------------------------------------------------
(* The two projections of the mesh Secret.                                  *)

publishedEndpoint(m, n) == n \in m.key /\ m.addr[n] # 0

Peers(m) == {n \in SiteNode : publishedEndpoint(m, n)}

\* Selected endpoints, then the pinned identity, then the tunnel address.
relayLess(m, a, b) ==
    LET left == {n \in {a, b} : m.departed[n] # "no"}
    IN  IF Cardinality(left) = 1 /\ a # b THEN b \in left
        ELSE IF m.relay \in {a, b} THEN m.relay = a
        ELSE m.addr[a] <= m.addr[b]

Relay(m) ==
    IF Peers(m) = {} THEN NoNode
    ELSE CHOOSE a \in Peers(m) : \A b \in Peers(m) : relayLess(m, a, b)

PinRelay(m) == [m EXCEPT !.relay = Relay(m)]

\* What each peer owns, and what the relay carries for the others.
RemotePeers(m) ==
    LET own == Peers(m) \cap m.own
        pods == Peers(m) \cap m.pods
    IN  [addr       |-> [n \in SiteNode |-> IF n \in Peers(m) THEN m.addr[n] ELSE 0],
         relay      |-> Relay(m),
         own        |-> own,
         pods       |-> pods,
         transit    |-> m.site \ own,
         podTransit |-> m.sitePods \ pods]

DocPeers(d) == {n \in SiteNode : d.addr[n] # 0}

\* A node is relayed by another peer; on the relay's own entry it is direct.
DocRelaysNode(d, n) == n \in d.transit /\ d.relay # n

\* The relay a site node without its own way out sends through.
SiteTransit(m) == IF Relay(m) \in m.own \cup m.site THEN Relay(m) ELSE NoNode

---------------------------------------------------------------------------
(* The endpoint controller.                                                 *)

isTunnelEndpoint(n) == n \in smNode.here /\ n \in smNode.wanted

Endpoints == {n \in SiteNode : isTunnelEndpoint(n)}

\* A remote acknowledges a document by applying it.
convergedMachines == {r \in CloudNode : smApplied[r] = smDoc[r]}

\* The window alone releases a departed endpoint.
windowAcknowledged(m, n) == TRUE

everyRemoteAcknowledged(m, n) ==
    \A r \in CloudNode :
        r \in convergedMachines /\ n \in m.site /\ DocRelaysNode(smDoc[r], n)

Named(m) ==
    {n \in SiteNode : \/ m.addr[n] # 0 \/ m.departed[n] # "no"
                      \/ n \in m.key \cup m.own \cup m.pods}

\* The names whose entries this pass drops.
Dropped(m) ==
    {n \in Named(m) \ Endpoints :
        /\ \E k \in Endpoints : publishedEndpoint(m, k)
        /\ n \in smNode.here =>
            m.departed[n] = "elapsed" /\ everyRemoteAcknowledged(m, n)}

Departed(m, drop, n) ==
    IF n \in Endpoints \cup drop THEN "no"
    ELSE IF /\ m.departed[n] = "no" /\ n \in Named(m) \cap smNode.here
            /\ \E k \in Endpoints : publishedEndpoint(m, k)
         THEN "since"
    ELSE m.departed[n]

retireTunnelAddress(m, drop) ==
    m.retired \cup ({m.addr[n] : n \in drop \ smNode.here} \ {0})

\* The entries of the dropped names go; an address is given up for good only
\* by a node that is gone.
DropEntries(m, drop) ==
    [m EXCEPT
        !.key = @ \ drop, !.own = @ \ drop, !.pods = @ \ drop,
        !.addr = [n \in SiteNode |-> IF n \in drop THEN 0 ELSE @[n]],
        !.reserved = [n \in SiteNode |-> IF n \in drop \ smNode.here THEN 0 ELSE @[n]],
        !.departed = [n \in SiteNode |-> Departed(m, drop, n)],
        !.retired = retireTunnelAddress(m, drop)]

\* Site entries stay for the nodes that are not peers.
DropSiteEntries(m) ==
    LET listed == smNode.here \ Peers(m)
    IN  [m EXCEPT !.site = @ \cap listed, !.sitePods = @ \cap listed]

\* New endpoints take free addresses in the order of the node list.
nextFreeAddress(m) ==
    LET new == {n \in Endpoints : m.addr[n] = 0 /\ m.reserved[n] = 0}
        free == Address \ ({m.addr[n] : n \in SiteNode} \cup m.retired
                           \cup {m.reserved[n] : n \in SiteNode})
    IN  [n \in new |-> CHOOSE a \in free :
            Cardinality({b \in free : b < a}) = Cardinality({k \in new : k < n})]

Allocated(m) ==
    LET fresh == nextFreeAddress(m)
    IN  [n \in SiteNode |->
            IF n \notin Endpoints \/ m.addr[n] # 0 THEN m.addr[n]
            ELSE IF m.reserved[n] # 0 THEN m.reserved[n] ELSE fresh[n]]

\* A node is taken from the relay as soon as it is selected.
takeBackSelected(m) == Endpoints

\* Endpoints that are peers already and are not relayed any longer.
takeBackFromRelay(m) == {n \in Endpoints : publishedEndpoint(m, n)}

\* Nodes published as site entries: those that are not peers, and the peers
\* that have departed.
publishSiteNode(m) ==
    {n \in smNode.here \ Endpoints :
        publishedEndpoint(m, n) => m.departed[n] # "no"}

\* A departing endpoint hands over what it owns; one that is not a peer has
\* nothing of its own in a document.
stopOwningAsEndpoint(m) == publishSiteNode(m) \cap Peers(m)

\* `shown' are the nodes whose pod blocks the pass could read.
publishNodes(m, addr, shown) ==
    [m EXCEPT
        !.addr = addr,
        !.reserved = [n \in SiteNode |-> IF n \in Endpoints THEN addr[n] ELSE @[n]],
        !.own = (@ \ stopOwningAsEndpoint(m)) \cup Endpoints,
        !.pods = (@ \ stopOwningAsEndpoint(m)) \cup (Endpoints \cap shown),
        !.site = (@ \ takeBackFromRelay(m)) \cup publishSiteNode(m),
        !.sitePods = (@ \ takeBackFromRelay(m)) \cup (publishSiteNode(m) \cap shown)]

\* One pass over the mesh Secret, patched under its resource version.
reconcileTunnelEndpoints ==
    \E hidden \in SUBSET (Unreadable \cap smNode.here), pinned \in {PinRelay(smMesh)} :
    \E kept \in {DropEntries(pinned, drop) : drop \in {Dropped(pinned)}} :
    \E pruned \in {DropSiteEntries(kept)} :
    \E published \in {publishNodes(pruned, addr, SiteNode \ hidden) :
                        addr \in {Allocated(pruned)}} :
        /\ smMesh' = PinRelay(published)
        /\ smMesh' # smMesh
        /\ UNCHANGED <<smNode, smDoc, smApplied, smVia, smDevice, smEgress, smEvents>>

\* A remote's document is rendered again; with no peer there is none to write.
ensureAdoptionConfig(r) ==
    /\ Peers(smMesh) # {}
    /\ \E document \in {RemotePeers(smMesh)} :
        smDoc[r] # document /\ smDoc' = [smDoc EXCEPT ![r] = document]
    /\ UNCHANGED <<smNode, smMesh, smApplied, smVia, smDevice, smEgress, smEvents>>

\* Every remote's document, one after another; a failure stops at one.
refreshAdoptionConfigs == \E r \in CloudNode : ensureAdoptionConfig(r)

\* The mesh controller's loop. Either half may fail or be overtaken.
Reconcile == reconcileTunnelEndpoints \/ refreshAdoptionConfigs

\* The retention window of a departed endpoint runs out.
departedLongEnough(n) ==
    /\ smMesh.departed[n] = "since"
    /\ smMesh' = [smMesh EXCEPT !.departed[n] = "elapsed"]
    /\ UNCHANGED <<smNode, smDoc, smApplied, smVia, smDevice, smEgress, smEvents>>

---------------------------------------------------------------------------
(* The dialers of the site and of the remotes.                              *)

\* A site dialer that has been given an address publishes its key.
publishNodeInfo(n) ==
    /\ n \in smNode.here /\ smMesh.addr[n] # 0 /\ n \notin smMesh.key
    /\ smMesh' = [smMesh EXCEPT !.key = @ \cup {n}]
    /\ UNCHANGED <<smNode, smDoc, smApplied, smVia, smDevice, smEgress, smEvents>>

\* Whether a node leaves its own tunnel for the relay: it is relayed, there
\* is a relay to leave it to, and it is another node.
selfRelayed(n, relay) == n \in smMesh.site /\ relay \notin {NoNode, n}


\* Remotes that have applied a document carrying the node on the relay.
peerAcked(n) == {r \in convergedMachines : DocRelaysNode(smDoc[r], n)}

\* The table of an endpoint: its own tunnel, but for the remotes that take
\* it from the relay.
installRoutes(n, r, relay) ==
    IF selfRelayed(n, relay) /\ r \in peerAcked(n) THEN relay ELSE n

\* The table of a node without a tunnel: the relay, never itself.
installSiteTransit(n, relay) == IF relay = n THEN NoNode ELSE relay

NextHop(n, r, relay) ==
    IF smMesh.addr[n] # 0 THEN installRoutes(n, r, relay) ELSE installSiteTransit(n, relay)

\* The tunnel device exists on the nodes that hold an address.
ensureLink(n) == IF smMesh.addr[n] = 0 THEN smDevice \ {n} ELSE smDevice \cup {n}

\* One pass of a site dialer. Without an address it removes its device and
\* reaches every remote through the relay.
SiteReconcile(n) ==
    /\ n \in smNode.here
    /\ smMesh.addr[n] # 0 => n \in smMesh.key
    /\ smDevice' = ensureLink(n)
    /\ \E relay \in {SiteTransit(smMesh)} :
        smEgress' = [smEgress EXCEPT ![n] = [r \in CloudNode |-> NextHop(n, r, relay)]]
    /\ <<smDevice, smEgress>>' # <<smDevice, smEgress>>
    /\ UNCHANGED <<smNode, smMesh, smDoc, smApplied, smVia, smEvents>>

\* Peers of the installed list that answer handshakes.
handshaked(r) == smNode.here \cap smDevice \cap DocPeers(smApplied[r])

\* The rendered relay stands whatever the kernel says.
neverRehome(d, live) == d.relay

\* A relay that is silent hands the transit set to the live peer of lowest
\* tunnel address.
rehomeTransit(d, live) ==
    LET others == live \cap DocPeers(d)
    IN  IF d.relay \in live \/ others = {} THEN d.relay
        ELSE CHOOSE n \in others : \A k \in others : d.addr[n] <= d.addr[k]

\* The adoption document while the API server can be reached, the list last
\* read otherwise.
PeerList(r, live) == IF smVia[r] \in live THEN smDoc[r] ELSE smApplied[r]

\* One pass of a remote's dialer: the list is cached, applied and acknowledged.
RemoteReconcile(r) ==
    LET live == handshaked(r)
        list == PeerList(r, live)
    IN  /\ smApplied' = [smApplied EXCEPT ![r] = list]
        /\ smVia' = [smVia EXCEPT ![r] = rehomeTransit(list, live)]
        /\ <<smApplied, smVia>>' # <<smApplied, smVia>>
        /\ UNCHANGED <<smNode, smMesh, smDoc, smDevice, smEgress, smEvents>>

---------------------------------------------------------------------------
(* The operator and the cluster.                                            *)

\* The selector is changed.
Select(S) ==
    /\ smEvents < MaxChange /\ S # smNode.wanted
    /\ smNode' = [smNode EXCEPT !.wanted = S]
    /\ smEvents' = smEvents + 1
    /\ UNCHANGED <<smMesh, smDoc, smApplied, smVia, smDevice, smEgress>>

\* A node joins the cluster.
NodeJoins(n) ==
    /\ n \in Joining \ smNode.seen
    /\ smNode' = [smNode EXCEPT !.here = @ \cup {n}, !.seen = @ \cup {n}]
    /\ UNCHANGED <<smMesh, smDoc, smApplied, smVia, smDevice, smEgress, smEvents>>

\* A node is deleted, while every remote still has another live tunnel, when
\* sparing one to an endpoint that stays selected.
NodeGone(n) ==
    /\ smEvents < MaxChange /\ n \in smNode.here
    /\ \A r \in CloudNode : \E k \in handshaked(r) \ {n} :
        publishedEndpoint(smMesh, k) /\ (Sparing => k \in Endpoints)
    /\ smNode' = [smNode EXCEPT !.here = @ \ {n}]
    /\ smDevice' = smDevice \ {n}
    /\ smEgress' = [smEgress EXCEPT ![n] = [r \in CloudNode |-> NoNode]]
    /\ smEvents' = smEvents + 1
    /\ UNCHANGED <<smMesh, smDoc, smApplied, smVia>>

---------------------------------------------------------------------------

\* A site whose first node is its one endpoint, known to every remote.
MeshInit ==
    LET here == SiteNode \ Joining
        e == First(here)
        m == [key |-> {e}, own |-> {e}, pods |-> {e},
              addr |-> [n \in SiteNode |-> IF n = e THEN 1 ELSE 0],
              reserved |-> [n \in SiteNode |-> IF n = e THEN 1 ELSE 0],
              site |-> here \ {e}, sitePods |-> here \ {e},
              departed |-> [n \in SiteNode |-> "no"], retired |-> {}, relay |-> e]
    IN  /\ smNode = [here |-> here, wanted |-> {e}, seen |-> {}]
        /\ smMesh = m
        /\ smDoc = [r \in CloudNode |-> RemotePeers(m)]
        /\ smApplied = smDoc
        /\ smVia = [r \in CloudNode |-> e]
        /\ smDevice = {e}
        /\ smEgress = [n \in SiteNode |->
                [r \in CloudNode |-> IF n \in here THEN e ELSE NoNode]]
        /\ smEvents = 0

MeshStep ==
    \/ \E n \in SiteNode :
        departedLongEnough(n) \/ publishNodeInfo(n) \/ SiteReconcile(n)
    \/ \E r \in CloudNode : RemoteReconcile(r)
    \/ Reconcile

MeshNext ==
    \/ MeshStep
    \/ \E S \in Selection : Select(S)
    \/ \E n \in SiteNode : NodeJoins(n) \/ NodeGone(n)

MeshFairness == WF_placementVars(MeshStep)

MeshSpec == MeshInit /\ [][MeshNext]_placementVars /\ MeshFairness

---------------------------------------------------------------------------
(* Properties.                                                              *)

\* Every remote holds a list that names a present endpoint with the address
\* and key the mesh publishes: it always has a tunnel to read the next list by.
NeverStranded ==
    \A r \in CloudNode : \E n \in smNode.here \cap DocPeers(smApplied[r]) :
        publishedEndpoint(smMesh, n) /\ smMesh.addr[n] = smApplied[r].addr[n]

\* While a node is in the cluster, a document that carries its addresses is
\* never replaced by one in which nobody does; the same for its pod blocks.
\* The node itself moves its traffic for a remote from its own tunnel to the
\* relay only when the list that remote has applied takes it from the relay.
CarriedStaysCarried ==
    [][\A r \in CloudNode :
        /\ \A n \in smNode.here \cap smNode'.here :
              /\ n \in smDoc[r].own \cup smDoc[r].transit
                  => n \in smDoc'[r].own \cup smDoc'[r].transit
              /\ n \in smDoc[r].pods \cup smDoc[r].podTransit
                  => n \in smDoc'[r].pods \cup smDoc'[r].podTransit
        /\ \A n \in smNode'.here :
              smEgress[n][r] = n /\ smEgress'[n][r] # n => n \notin smApplied[r].own]_placementVars

\* Where a remote sends what is meant for a node, and accepts what it sends.
Carrier(r, n) ==
    IF n \in smApplied[r].own THEN n
    ELSE IF n \in smApplied[r].transit THEN smVia[r] ELSE NoNode

Placed ==
    /\ Peers(smMesh) = Endpoints /\ smDevice = Endpoints
    /\ \A r \in CloudNode :
        /\ smDoc[r] = RemotePeers(smMesh) /\ smApplied[r] = smDoc[r]
        /\ \A n \in smNode.here : smEgress[n][r] = Carrier(r, n) /\ Carrier(r, n) \in Endpoints

\* Once selection and membership rest, with some node selected, the endpoints
\* are exactly the selected nodes, every remote has applied the list that says
\* so, and every node sends to each remote the way that remote accepts.
MeshConverges == <>[](Endpoints = {} \/ Placed)
=============================================================================
