---------------------------- MODULE SiteReceivers ----------------------------
(***************************************************************************)
(* The dedicated receiver devices of one site node: how they are prepared, *)
(* recorded in replayable caches and ownership archives, announced, and    *)
(* withdrawn with their worker (cmd/dialer/site_receive*.go,               *)
(* receive_withdraw_site.go, receive_withdraw_cache.go,                    *)
(* receive_withdraw_forwarding.go, receive_withdraw_bgp_cache.go).         *)
(*                                                                         *)
(* A device is named by a worker and a receiver generation.  A pass holds  *)
(* the host lock; the mesh and the adoption Secrets move under it, and a   *)
(* crash or a reboot ends it between any two writes.                       *)
(***************************************************************************)
EXTENDS Naturals, FiniteSets

CONSTANTS
    Root,           \* workers, by their root public key
    Rank,           \* [Root -> Nat]: the order of their Machine UIDs
    Joint,          \* whether concurrent withdrawals share one capture
    MaxGeneration,  \* bound on receiver generations of one worker
    MaxDocument,    \* bound on changes of the published peer document
    MaxInterrupt    \* bound on crashes, errors, reboots and changes under a pass

ASSUME SiteReceiversAssumption ==
    /\ MaxGeneration \in Nat /\ MaxDocument \in Nat /\ MaxInterrupt \in Nat
    /\ Rank \in [Root -> Nat] /\ \A q, r \in Root : Rank[q] = Rank[r] => q = r
    /\ Joint \in BOOLEAN

VARIABLES
    srMesh,         \* the mesh Secret: published roots
    srProposal,     \* [Root -> 0..MaxGeneration]: prepared generation in the adoption Secret
    srJournal,      \* [Root -> 0..MaxGeneration]: generation a journal reserves
    srWithdrawn,    \* workers under a committed withdrawal
    srCache,        \* the replayable caches, by path: bindings, and whether they
                    \* were saved under the published document
    srOwners,       \* the ownership archives, by path: sets of bindings
    srDevice,       \* [Root -> SUBSET generations]: installed devices
    srRoute,        \* [Root -> SUBSET generations]: devices that carry routes
    srReady,        \* [Root -> 0..MaxGeneration]: published readiness of this boot
    srForward,      \* workers of the site forwarding cache
    srBgp,          \* workers of the forwarding cache the BGP cache is hashed to
    srAnnounced,    \* workers whose prefixes the speaker announces
    srFenced,       \* a receive checkpoint on this host fences offline replay
    srDone,         \* withdrawals this node completed
    srPass,         \* the pass that holds the lock
    srEdits, srStops

receiverStore == <<srCache, srOwners, srFenced>>
receiverNative == <<srDevice, srRoute, srAnnounced>>
receiverMesh == <<srMesh, srProposal, srJournal, srWithdrawn, srReady, srEdits>>
receiverVars == <<receiverStore, receiverNative, receiverMesh, srForward, srBgp,
                  srDone, srPass, srStops>>

-----------------------------------------------------------------------------
Generation == 1..MaxGeneration

Path == {"base", "admitted"}

Unbound == [r \in Root |-> 0]

NoCache == [bind |-> Unbound, current |-> FALSE]

Bound(bind) == {r \in Root : bind[r] # 0}

withoutSiteReceiveBinding(bind, r) == [bind EXCEPT ![r] = 0]

\* An empty record is not archived.
preserveSiteReceiveOwnership(path, bind) ==
    srOwners' = [srOwners EXCEPT ![path] = IF Bound(bind) = {} THEN @ ELSE @ \cup {bind}]

\* Document versions do not recur: a change dates every cache.
DateCaches == srCache' = [p \in Path |-> [srCache[p] EXCEPT !.current = FALSE]]

Reserved == {r \in Root : srJournal[r] # 0}

\* Persisted journals forbid the legacy path and its cache.
CachePath == IF Reserved = {} THEN "base" ELSE "admitted"

\* Targets are visited in the order of their UIDs.
Lowest(roots) == {r \in roots : \A q \in roots : Rank[r] <= Rank[q]}

\* tried are the withdrawals this round of the agent's loop already visited.
RestPass == [pc |-> "idle", path |-> "base", cached |-> NoCache, root |-> {}, todo |-> {},
             seen |-> {}, left |-> {}, fresh |-> FALSE, tried |-> {}]

Withdrawing == srPass.pc \in {"graph", "silence", "routes", "devices", "forward", "report"}

\* A failed member suppresses its whole cohort; another target is still visited.
FailedPass ==
    [RestPass EXCEPT !.tried = IF ~Withdrawing THEN {}
                               ELSE IF Joint THEN srWithdrawn ELSE srPass.tried \cup srPass.root]

\* A new host, or one whose receivers an agent prepared that kept no archive.
ReceiverInit ==
    /\ \E bind \in {Unbound, [r \in Root |-> 1]} :
          /\ srProposal = bind /\ srReady = bind
          /\ srCache = [p \in Path |-> IF p = "base" /\ bind # Unbound
                                       THEN [bind |-> bind, current |-> TRUE] ELSE NoCache]
          /\ srDevice = [r \in Root |-> {bind[r]} \ {0}]
    /\ srMesh = Root
    /\ srJournal = Unbound
    /\ srWithdrawn = {} /\ srDone = {}
    /\ srOwners = [p \in Path |-> {}]
    /\ srRoute = [r \in Root |-> {}]
    /\ srFenced = FALSE
    /\ srForward = Root /\ srBgp = Root /\ srAnnounced = Root
    /\ srPass = RestPass
    /\ srEdits = 0 /\ srStops = 0

\* A change that meets a pass counts as an interruption of it.
Meanwhile ==
    IF srPass.pc = "idle" THEN UNCHANGED srStops
    ELSE srStops < MaxInterrupt /\ srStops' = srStops + 1

Stale == srPass' = [srPass EXCEPT !.fresh = FALSE]

\* A new document also dates the cache of the pass.
Outdated == [srPass EXCEPT !.fresh = FALSE, !.cached.current = FALSE]

-----------------------------------------------------------------------------
(* The controller: proposals, journals, withdrawals and document changes.   *)

ProposeReceiver(r) ==
    /\ Meanwhile
    /\ r \in srMesh /\ srJournal[r] = 0
    /\ srProposal[r] < MaxGeneration
    /\ srProposal' = [srProposal EXCEPT ![r] = @ + 1]
    /\ srReady' = [srReady EXCEPT ![r] = 0]
    /\ Stale
    /\ UNCHANGED <<srMesh, srJournal, srWithdrawn, srEdits, receiverStore, receiverNative,
                   srForward, srBgp, srDone>>

\* A journal is created from published readiness; its routes then select it.
ReserveReceiver(r) ==
    /\ Meanwhile
    /\ r \in srMesh
    /\ srJournal[r] = 0 /\ srReady[r] # 0 /\ srReady[r] = srProposal[r]
    /\ srJournal' = [srJournal EXCEPT ![r] = srReady[r]]
    /\ srPass' = [srPass EXCEPT !.fresh = @ /\ srPass.path = "base" /\ ~Withdrawing]
    /\ UNCHANGED <<srMesh, srProposal, srWithdrawn, srReady, srEdits, receiverStore,
                   receiverNative, srForward, srBgp, srDone>>

ChangeDocument(gone) ==
    /\ Meanwhile
    /\ srEdits < MaxDocument
    /\ gone \subseteq srMesh \ Reserved
    /\ srMesh' = srMesh \ gone
    /\ DateCaches
    /\ srEdits' = srEdits + 1
    /\ srProposal' = [r \in Root |-> IF r \in gone THEN 0 ELSE srProposal[r]]
    /\ srReady' = [r \in Root |-> IF r \in gone THEN 0 ELSE srReady[r]]
    /\ srPass' = Outdated
    /\ UNCHANGED <<srJournal, srWithdrawn, srOwners, srFenced, receiverNative,
                   srForward, srBgp, srDone>>

WithdrawReceiver(r) ==
    /\ Meanwhile
    /\ r \in Reserved \ srWithdrawn
    /\ srWithdrawn' = srWithdrawn \cup {r}
    /\ srMesh' = srMesh \ {r}
    /\ DateCaches
    /\ srProposal' = [srProposal EXCEPT ![r] = 0]
    /\ srReady' = [srReady EXCEPT ![r] = 0]
    /\ srPass' = [Outdated EXCEPT !.tried = IF srPass.pc = "idle" THEN {} ELSE @]
    /\ UNCHANGED <<srJournal, srEdits, srOwners, srFenced, receiverNative,
                   srForward, srBgp, srDone>>

\* Announced are the workers whose current forwarding was read back; a cache
\* pair that does not match, or still names a withdrawn worker, announces nothing.
reconcileReceiveAdvertisements ==
    srAnnounced' = IF srBgp = srForward /\ srForward \cap srWithdrawn = {}
                   THEN {r \in srForward : srJournal[r] # 0 => srJournal[r] \in srRoute'[r]}
                   ELSE srAnnounced

\* The phase executor selects the reserved receiver, then announces it.
SwitchReceiver(r) ==
    /\ srPass.pc = "idle"
    /\ srJournal[r] # 0 /\ r \notin srWithdrawn
    /\ srJournal[r] \in srDevice[r]
    /\ srRoute' = [srRoute EXCEPT ![r] = @ \cup {srJournal[r]}]
    /\ reconcileReceiveAdvertisements
    /\ srFenced' = TRUE
    /\ UNCHANGED <<srCache, srOwners, srDevice, receiverMesh, srForward, srBgp,
                   srDone, srPass, srStops>>

-----------------------------------------------------------------------------
(* reconcileDurableSiteReceiversScoped.                                     *)

\* The previous cache is archived before its file is replaced.
ReadReceivers ==
    /\ srPass.pc = "idle"
    /\ srWithdrawn \subseteq srPass.tried
    /\ LET path == CachePath
           old == srCache[path]
       IN  /\ preserveSiteReceiveOwnership(path, old.bind)
           /\ srPass' = [RestPass EXCEPT !.pc = "save", !.path = path, !.fresh = TRUE,
                            !.cached = [current |-> TRUE, bind |-> IF old.current THEN old.bind ELSE Unbound]]
    /\ UNCHANGED <<srFenced, srCache, receiverNative, receiverMesh, srForward, srBgp, srDone, srStops>>

SaveReceivers ==
    /\ srPass.pc = "save"
    /\ srCache' = [srCache EXCEPT ![srPass.path] = srPass.cached]
    /\ srPass' = [srPass EXCEPT !.pc = "retire"]
    /\ UNCHANGED <<srFenced, srOwners, receiverNative, receiverMesh, srForward, srBgp, srDone, srStops>>

\* Absent, unreserved workers of the archive; a legacy pass retires nothing.
Missing == IF srPass.path = "base" THEN {} ELSE Root \ (srMesh \cup Reserved)

Recorded(paths, roots) ==
    {<<r, bind[r]>> : r \in roots, bind \in UNION {srOwners[p] : p \in paths}}
        \ {<<r, 0>> : r \in roots}

retireMissingSiteReceivers ==
    /\ srPass.pc = "retire" /\ srPass.fresh
    /\ srPass' = [srPass EXCEPT !.pc = "prune", !.root = Missing,
                     !.left = Recorded({srPass.path}, Missing)]
    /\ UNCHANGED <<receiverStore, receiverNative, receiverMesh, srForward, srBgp, srDone, srStops>>

\* retireReceiveDevice refuses a device that a route still uses.
RetireDevice(r, g) ==
    /\ srPass.pc \in {"prune", "devices"} /\ srPass.fresh
    /\ <<r, g>> \in srPass.left
    /\ g \notin srRoute[r]
    /\ srDevice' = [srDevice EXCEPT ![r] = @ \ {g}]
    /\ srPass' = [srPass EXCEPT !.left = @ \ {<<r, g>>}]
    /\ UNCHANGED <<receiverStore, srRoute, srAnnounced, receiverMesh, srForward, srBgp, srDone, srStops>>

\* Proposed workers; a scoped pass leaves the reserved ones to their journals.
Preparable ==
    {r \in srMesh : srProposal[r] # 0 /\ (srPass.path = "admitted" => r \notin Reserved)}

\* Records of retired devices alone go; preparation follows from live proposals.
PruneRecords ==
    /\ srPass.pc = "prune" /\ srPass.left = {}
    /\ srOwners' = [srOwners EXCEPT ![srPass.path] =
                       {bind \in @ : ~ Bound(bind) \subseteq srPass.root}]
    /\ srPass' = [srPass EXCEPT !.pc = "prepare", !.root = {}, !.left = {},
                     !.todo = Preparable]
    /\ UNCHANGED <<srFenced, srCache, receiverNative, receiverMesh, srForward, srBgp, srDone, srStops>>

\* Preparation without durable intent.
PrepareUnrecorded(r) ==
    /\ srPass.pc = "prepare" /\ srPass.fresh
    /\ r \in Lowest(srPass.todo)
    /\ srPass' = [srPass EXCEPT !.pc = "device", !.root = {r}, !.todo = @ \ {r},
                     !.cached.bind[r] = srProposal[r]]
    /\ UNCHANGED <<srOwners, srFenced, srCache, receiverNative, receiverMesh, srForward, srBgp, srDone, srStops>>

\* Intent precedes the device: a crash leaves no unrecorded device.
PrepareIntent(r) ==
    /\ srPass.pc = "prepare" /\ srPass.fresh
    /\ r \in Lowest(srPass.todo)
    /\ preserveSiteReceiveOwnership(srPass.path, [Unbound EXCEPT ![r] = srProposal[r]])
    /\ srPass' = [srPass EXCEPT !.pc = "device", !.root = {r}, !.todo = @ \ {r},
                     !.cached.bind[r] = srProposal[r]]
    /\ UNCHANGED <<srFenced, srCache, receiverNative, receiverMesh, srForward, srBgp, srDone, srStops>>

prepareSiteReceiveClient ==
    /\ srPass.pc = "device"
    /\ srDevice' = [r \in Root |-> IF r \in srPass.root THEN srDevice[r] \cup {srPass.cached.bind[r]}
                                                        ELSE srDevice[r]]
    /\ srPass' = [srPass EXCEPT !.pc = "bind"]
    /\ UNCHANGED <<receiverStore, srRoute, srAnnounced, receiverMesh, srForward, srBgp, srDone, srStops>>

\* Native success is saved before readiness can be published.
SaveBinding ==
    /\ srPass.pc = "bind"
    /\ srCache' = [srCache EXCEPT ![srPass.path] = srPass.cached]
    /\ srPass' = [srPass EXCEPT !.pc = "observe", !.seen = @ \cup srPass.root]
    /\ UNCHANGED <<srFenced, srOwners, receiverNative, receiverMesh, srForward, srBgp, srDone, srStops>>

\* A current handshake; the patch carries the adoption revision that was
\* prepared, and the mesh is re-read only before it.
publishSiteReceiveReady ==
    /\ srPass.pc = "observe"
    /\ \A r \in srPass.root : srProposal[r] = srPass.cached.bind[r]
    /\ srReady' = [r \in Root |-> IF r \in srPass.root THEN srPass.cached.bind[r] ELSE srReady[r]]
    /\ srPass' = [srPass EXCEPT !.pc = "prepare", !.root = {}]
    /\ UNCHANGED <<srMesh, srProposal, srJournal, srWithdrawn, srEdits, receiverStore,
                   receiverNative, srForward, srBgp, srDone, srStops>>

\* Without a handshake yet, the next worker is prepared.
AwaitHandshake ==
    /\ srPass.pc = "observe"
    /\ srPass' = [srPass EXCEPT !.pc = "prepare", !.root = {}]
    /\ UNCHANGED <<receiverStore, receiverNative, receiverMesh, srForward, srBgp, srDone, srStops>>

FinishReceivers ==
    /\ srPass.pc = "prepare" /\ srPass.todo = {}
    /\ srCache' = [srCache EXCEPT ![srPass.path] =
                      [srPass.cached EXCEPT !.bind =
                          [r \in Root |-> IF r \in srPass.seen THEN @[r] ELSE 0]]]
    /\ srPass' = RestPass
    /\ UNCHANGED <<srFenced, srOwners, receiverNative, receiverMesh, srForward, srBgp, srDone, srStops>>

\* restoreSiteReceiveCache replays the base cache while the API cannot be
\* read and no checkpoint of this host fences it.
RestoreReceivers ==
    /\ srPass.pc = "idle" /\ ~srFenced
    /\ \E r \in Bound(srCache["base"].bind) : srCache["base"].bind[r] \notin srDevice[r]
    /\ srDevice' = [r \in Root |-> srDevice[r] \cup ({srCache["base"].bind[r]} \ {0})]
    /\ UNCHANGED <<receiverStore, srRoute, srAnnounced, receiverMesh, srForward, srBgp,
                   srDone, srPass, srStops>>

-----------------------------------------------------------------------------
(* retireAdmittedSiteReceiversLocked.                                       *)

\* The checkpoint fences offline replay; preserveRetiringSiteCaches archives
\* both caches.
PreserveCaches(r) ==
    /\ srPass.pc = "idle"
    /\ r \in Lowest(srWithdrawn \ srPass.tried)
    /\ srOwners' = [p \in Path |->
                       srOwners[p] \cup ({srCache[p].bind} \ {Unbound})]
    /\ srFenced' = TRUE
    /\ srPass' = [RestPass EXCEPT !.pc = "graph", !.root = {r}, !.fresh = TRUE, !.tried = srPass.tried]
    /\ UNCHANGED <<srCache, receiverNative, receiverMesh, srForward, srBgp, srDone, srStops>>

\* Only the pair that offline replay would accept.
CurrentProjection == {srForward}

\* prepareWithdrawnAdvertisementCache accepts the current or the exact next
\* projection; then the journal's graph is archived.
Projections == {srForward, srForward \ srPass.root}

PreserveGraph ==
    /\ srPass.pc = "graph" /\ srBgp \in Projections
    /\ \E r \in srPass.root :
          preserveSiteReceiveOwnership("admitted", [Unbound EXCEPT ![r] = srJournal[r]])
    /\ srPass' = [srPass EXCEPT !.pc = "silence"]
    /\ UNCHANGED <<srFenced, srCache, receiverNative, receiverMesh, srForward, srBgp, srDone, srStops>>

\* Announcements stop before forwarding is removed.
withdrawReceiveAdvertisements ==
    /\ srPass.pc = "silence" /\ srPass.fresh
    /\ srAnnounced' = srAnnounced \ srPass.root
    /\ srPass' = [srPass EXCEPT !.pc = "routes", !.left = Recorded(Path, srPass.root)]
    /\ UNCHANGED <<receiverStore, srDevice, srRoute, receiverMesh, srForward, srBgp, srDone, srStops>>

withdrawReceiveDeviceRoutes ==
    /\ srPass.pc = "routes" /\ srPass.fresh
    /\ srRoute' = [r \in Root |-> IF r \in srPass.root THEN {} ELSE srRoute[r]]
    /\ srPass' = [srPass EXCEPT !.pc = "devices"]
    /\ UNCHANGED <<receiverStore, srDevice, srAnnounced, receiverMesh, srForward, srBgp, srDone, srStops>>

\* A record of the worker alone is removed; of a mixed one the survivors are
\* written first, and the mixed record goes once they are durable.
DropRecord ==
    /\ srPass.pc = "devices" /\ srPass.left = {}
    /\ \E p \in Path, r \in srPass.root : \E bind \in srOwners[p] :
          /\ bind[r] # 0
          /\ LET rest == withoutSiteReceiveBinding(bind, r) IN
             srOwners' = [srOwners EXCEPT ![p] =
                 IF rest = Unbound \/ rest \in @ THEN @ \ {bind} ELSE @ \cup {rest}]
    /\ UNCHANGED <<srFenced, srCache, receiverNative, receiverMesh, srForward, srBgp, srDone, srPass, srStops>>

RecordsDropped ==
    /\ srPass.pc = "devices" /\ srPass.left = {}
    /\ Recorded(Path, srPass.root) = {}

commitRetiredSiteCaches(p) ==
    /\ RecordsDropped
    /\ \E r \in srPass.root :
          /\ srCache[p].bind[r] # 0
          /\ LET rest == withoutSiteReceiveBinding(srCache[p].bind, r) IN
             srCache' = [srCache EXCEPT ![p] = IF rest = Unbound THEN NoCache
                                               ELSE [@ EXCEPT !.bind = rest]]
    /\ UNCHANGED <<srFenced, srOwners, receiverNative, receiverMesh, srForward, srBgp, srDone, srPass, srStops>>


CachesCommitted ==
    /\ RecordsDropped
    /\ \A p \in Path, r \in srPass.root : srCache[p].bind[r] = 0

\* commitWithdrawnSiteCaches: the advertisement hash first, which leaves a
\* pair no offline replay accepts until the forwarding cache follows.
CommitAdvertisements ==
    /\ CachesCommitted /\ srPass.fresh
    /\ srBgp' = srForward \ srPass.root
    /\ srPass' = [srPass EXCEPT !.pc = "forward"]
    /\ UNCHANGED <<receiverStore, receiverNative, receiverMesh, srForward, srDone, srStops>>

CommitForwarding ==
    /\ srPass.pc = "forward"
    /\ srForward' = srForward \ srPass.root
    /\ srPass' = [srPass EXCEPT !.pc = "report"]
    /\ UNCHANGED <<receiverStore, receiverNative, receiverMesh, srBgp, srDone, srStops>>

\* A cohort reports its members together, after the last of them.
ReportWithdrawal ==
    /\ srPass.pc = "report" /\ srPass.fresh
    /\ LET tried == srPass.tried \cup srPass.root IN
       /\ srDone' = IF ~Joint THEN srDone \cup srPass.root
                    ELSE IF srWithdrawn \subseteq tried THEN srDone \cup tried ELSE srDone
       /\ srPass' = [RestPass EXCEPT !.tried = tried]
    /\ UNCHANGED <<receiverStore, receiverNative, receiverMesh, srForward, srBgp, srStops>>

-----------------------------------------------------------------------------
RefuseReceivers ==
    /\ srPass.pc # "idle"
    /\ \/ ~srPass.fresh
       \/ srPass.pc = "graph" /\ srBgp \notin Projections
       \/ /\ srPass.pc = "prune"
          /\ \E pair \in srPass.left : pair[2] \in srRoute[pair[1]]
    /\ srPass' = FailedPass
    /\ UNCHANGED <<receiverStore, receiverNative, receiverMesh, srForward, srBgp, srDone, srStops>>

InterruptReceivers ==
    /\ srPass.pc # "idle" /\ srStops < MaxInterrupt
    /\ srPass' \in {FailedPass, RestPass}
    /\ srStops' = srStops + 1
    /\ UNCHANGED <<receiverStore, receiverNative, receiverMesh, srForward, srBgp, srDone>>

\* Devices and the speaker are gone; readiness was bound to the boot.
RebootSite ==
    /\ srStops < MaxInterrupt
    /\ srDevice' = [r \in Root |-> {}] /\ srRoute' = [r \in Root |-> {}]
    /\ srAnnounced' = {}
    /\ srReady' = Unbound
    /\ srPass' = RestPass /\ srStops' = srStops + 1
    /\ UNCHANGED <<receiverStore, srMesh, srProposal, srJournal, srWithdrawn, srEdits,
                   srForward, srBgp, srDone>>

PrepareStep ==
    \/ ReadReceivers \/ SaveReceivers \/ retireMissingSiteReceivers
    \/ (\E r \in Root, g \in Generation : RetireDevice(r, g))
    \/ PruneRecords \/ (\E r \in Root : PrepareIntent(r)) \/ prepareSiteReceiveClient
    \/ SaveBinding \/ publishSiteReceiveReady \/ AwaitHandshake \/ FinishReceivers
    \/ RefuseReceivers

RetireStep ==
    \/ (\E r \in Root : PreserveCaches(r)) \/ PreserveGraph
    \/ withdrawReceiveAdvertisements \/ withdrawReceiveDeviceRoutes \/ DropRecord
    \/ (\E p \in Path : commitRetiredSiteCaches(p))
    \/ CommitAdvertisements \/ CommitForwarding \/ ReportWithdrawal

ReceiverNext ==
    \/ PrepareStep \/ RetireStep \/ RestoreReceivers
    \/ \E r \in Root : ProposeReceiver(r) \/ ReserveReceiver(r) \/ WithdrawReceiver(r) \/ SwitchReceiver(r)
    \/ \E gone \in SUBSET Root : ChangeDocument(gone)
    \/ InterruptReceivers \/ RebootSite

\* The agent's loop runs, and a pass that can go on does.
ReceiverFairness == WF_receiverVars(PrepareStep \/ RetireStep)

-----------------------------------------------------------------------------
(* Properties.                                                              *)

\* The durable record comes before the device and the device before the
\* announcement: every installed device is named by an archived owner, a cache
\* or the journal itself (site_receive_cache.go:246-250), and published
\* readiness names an installed device of the current proposal (line 288).
\* After the node reported a withdrawal nothing of the worker can serve: no
\* device, route, replayable cache or announcement, across crashes and reboots.
ReceiversAccounted ==
    /\ \A r \in Root :
          /\ \A g \in srDevice[r] :
                \/ <<r, g>> \in Recorded(Path, {r})
                \/ \E p \in Path : srCache[p].bind[r] = g
                \/ srJournal[r] = g
          /\ srReady[r] # 0 => srReady[r] = srProposal[r] /\ srReady[r] \in srDevice[r]
    /\ \A r \in srDone :
          /\ srDevice[r] = {} /\ srRoute[r] = {}
          /\ \A p \in Path : srCache[p].bind[r] = 0
          /\ r \notin srForward \cup srBgp \cup srAnnounced

\* A committed withdrawal is reported, however its passes were interrupted.
SiteWithdrawalCompletes ==
    []<>(srWithdrawn \subseteq srDone)

=============================================================================
