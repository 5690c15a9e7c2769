----------------------------- MODULE Retirement -----------------------------
(***************************************************************************)
(* How a cloud worker leaves the mesh: the removal of its claim captures   *)
(* the surviving consumers, fences its journal, records the withdrawal in  *)
(* the receive inventory and withdraws its peer from the mesh Secret; the  *)
(* consumers' agents remove their native state and send receipts; the      *)
(* receipt collector records completion, consumes it once the owner is     *)
(* gone and finally releases the reservation.  Withdrawals captured from   *)
(* the same mesh data are completed and released jointly, as a cohort.     *)
(*                                                                         *)
(* Every controller call that reads revisions and later writes under one   *)
(* of them is two actions, Begin and Commit, so that anything may happen   *)
(* in between; a conflict, a lost lease or a crash in between is Drop.     *)
(* The mesh data of a worker is the number of its endpoint address, so     *)
(* that the data hash of the mesh is the function from the published       *)
(* workers to these numbers.  A receipt is fresh for some time after its   *)
(* observation: the set "fresh" holds those that are.                      *)
(***************************************************************************)
EXTENDS Integers, FiniteSets

CONSTANTS
    Worker,     \* cloud workers
    Site,       \* site consumers, which stay
    Courses,    \* what may happen: a behaviour follows one of these
    Finalize,   \* receive receipt policy: finalizeRetirements
    Release,    \* receive receipt policy: releaseRetirements
    MaxAddress, \* bound: endpoint changes of one worker, in any course
    MaxBoot     \* bound: restarts of one consumer's agent or host

ASSUME RetirementAssumption ==
    /\ Worker \cap Site = {}
    /\ Site # {}
    /\ Courses \subseteq
          [joined : SUBSET Worker,          \* the workers published at the start
           leaving : SUBSET Worker,         \* the workers whose claims are deleted
           publishing : SUBSET Worker,      \* the workers whose publication is retried
           restarting : SUBSET (Worker \cup Site),
           maintaining : SUBSET (Worker \cup Site), \* whose agents do ordinary work
           addresses : 0 .. MaxAddress]     \* endpoint changes of one worker
    /\ {Finalize, Release} \subseteq BOOLEAN
    /\ Release => Finalize
    /\ {MaxAddress, MaxBoot} \subseteq Nat

VARIABLES
    course,  \* the course of events, which never changes
    mesh,    \* the mesh Secret: its revision and the published workers' data
    inv,     \* the receive inventory: revision of its authority, and records
    claim,   \* life cycle of each worker's claim and Machine
    drain,   \* Machines carrying the drain marker
    intent,  \* withdrawal captured by each claim's removal record
    journal, \* state of each worker's receive journal
    call,    \* removal call in flight for each claim
    col,     \* receipt collector's call in flight
    pub,     \* peer publication in flight for each worker
    agent,   \* execution in flight on each consumer, under its host lock
    native,  \* peers installed on each consumer
    check,   \* durable checkpoint of each consumer
    boot,    \* incarnation of each consumer's agent
    fresh    \* receipts sent and not yet too old

controls == <<course, mesh, inv, claim, drain, intent, journal, call, col, pub>>
nodes == <<agent, native, check, boot, fresh>>
vars == <<course, mesh, inv, claim, drain, intent, journal, call, col, pub,
          agent, native, check, boot, fresh>>

Consumer == Worker \cup Site
NoData == [w \in {} |-> 0]
MeshData == UNION {[W -> 0 .. MaxAddress] : W \in SUBSET Worker}
Intent == [source : MeshData, consumers : SUBSET Consumer]
NoIntent == [source |-> NoData, consumers |-> {}]
Evidence == [cohort : SUBSET Worker, auth : Nat, mesh : Nat,
             by : UNION {[C -> 0 .. MaxBoot] : C \in SUBSET Consumer}]
NoEvidence == [cohort |-> {}, auth |-> 0, mesh |-> 0, by |-> NoData]
Record == [stage : {"none", "published", "final", "released"},
           intent : Intent, done : Evidence]
Receipt == [node : Consumer, boot : Nat, target : Worker, auth : Nat,
            mesh : Nat, cohort : SUBSET Worker]
Idle == [op |-> "idle", rv |-> 0]

\* Every variable keeps its type.
TypeOK ==
    /\ mesh \in [rv : Nat, peer : MeshData]
    /\ inv \in [auth : Nat, rec : [Worker -> Record]]
    /\ claim \in [Worker -> {"absent", "live", "removal", "teardown", "gone"}]
    /\ drain \subseteq Worker
    /\ intent \in [Worker -> Intent]
    /\ journal \in [Worker -> {"none", "open", "complete", "frozen"}]
    /\ call \in [Worker -> [op : {"idle", "reserve", "withdraw", "teardown"}, rv : Nat]]
    /\ col \in [op : {"idle", "complete", "consume", "finalize", "release"}, auth : Nat,
                targets : SUBSET Worker, done : Evidence, gone : BOOLEAN]
    /\ pub \in [Worker -> [op : {"idle", "read", "checked"}, rv : Nat]]
    /\ agent \in [Consumer -> [op : {"idle", "maintain", "retire", "clean"},
                               peers : SUBSET Worker, auth : Nat, mesh : Nat]]
    /\ native \in [Consumer -> SUBSET Worker]
    /\ check \in [Consumer -> [peers : SUBSET Worker, verified : BOOLEAN]]
    /\ boot \in [Consumer -> 0 .. MaxBoot]
    /\ fresh \subseteq Receipt

IdleCol ==
    [op |-> "idle", auth |-> 0, targets |-> {}, done |-> NoEvidence, gone |-> FALSE]
IdleAgent == [op |-> "idle", peers |-> {}, auth |-> 0, mesh |-> 0]

Init ==
    /\ course \in Courses
    /\ mesh = [rv |-> 1, peer |-> [w \in course.joined |-> 0]]
    /\ inv = [auth |-> 1,
              rec |-> [w \in Worker |->
                         [stage |-> IF w \in course.joined THEN "published" ELSE "none",
                          intent |-> NoIntent, done |-> NoEvidence]]]
    /\ claim = [w \in Worker |-> IF w \in course.joined THEN "live" ELSE "absent"]
    /\ drain = {}
    /\ intent = [w \in Worker |-> NoIntent]
    /\ journal = [w \in Worker |-> IF w \in course.joined THEN "complete" ELSE "none"]
    /\ call = [w \in Worker |-> Idle]
    /\ col = IdleCol
    /\ pub = [w \in Worker |-> Idle]
    /\ agent = [c \in Consumer |-> IdleAgent]
    /\ native = [c \in Consumer |->
                    IF c \in Site \cup course.joined THEN course.joined \ {c} ELSE {}]
    /\ check = [c \in Consumer |-> [peers |-> native[c], verified |-> c \in course.joined]]
    /\ boot = [c \in Consumer |-> 0]
    /\ fresh = {}
-----------------------------------------------------------------------------
(* Reading the inventory against the mesh.                                  *)

Remotes == DOMAIN mesh.peer
Published == Site \cup Remotes
Present(w) == claim[w] \notin {"absent", "gone"}

\* A journal that is reserved and whose withdrawal is recorded.
Retiring(w) ==
    /\ inv.rec[w].stage \in {"published", "final"}
    /\ inv.rec[w].intent.consumers # {}

\* The mesh holds what was captured, except peers whose withdrawal from the
\* same captured data is recorded, released ones included.
SourceHolds(i) ==
    /\ \A p \in Remotes : p \in DOMAIN i.source /\ mesh.peer[p] = i.source[p]
    /\ \A p \in DOMAIN i.source \ Remotes : inv.rec[p].intent.source = i.source

\* Nobody is published whom the withdrawal did not capture.
CapturesPublished(w, i) == Published \ {w} \subseteq i.consumers

Prepared(w) ==
    /\ Retiring(w)
    /\ w \in Remotes
    /\ SourceHolds(inv.rec[w].intent)
    /\ CapturesPublished(w, inv.rec[w].intent)

Withdrawn(w) ==
    /\ Retiring(w)
    /\ w \notin Remotes
    /\ CapturesPublished(w, inv.rec[w].intent)

\* One unreadable withdrawal invalidates every admission.
SetReadable == \A u \in Worker : Retiring(u) => Withdrawn(u) \/ Prepared(u)

Cohort(w) ==
    {w} \cup {u \in Worker : /\ Withdrawn(u)
                             /\ inv.rec[u].intent.source = inv.rec[w].intent.source}

\* Departing members are not observers of each other.
Observers(C) == (UNION {inv.rec[u].intent.consumers : u \in C}) \ C

CohortHolds(C) ==
    /\ Observers(C) # {}
    /\ \A u \in C : /\ C \ {u} \subseteq inv.rec[u].intent.consumers
                    /\ inv.rec[u].intent.consumers \ C = Observers(C)

Admitted(w) == Withdrawn(w) /\ SetReadable /\ CohortHolds(Cohort(w))

\* The agents that must observe are exactly the published consumers.
ObserversLive(w) == Observers(Cohort(w)) = Published

ReceiptOf(c, w) ==
    [node |-> c, boot |-> boot[c], target |-> w, auth |-> inv.auth,
     mesh |-> mesh.rv, cohort |-> Cohort(w)]

AllObserved(w) == \A c \in Observers(Cohort(w)) : ReceiptOf(c, w) \in fresh

\* Recorded completion still describes the current source and incarnations.
Verified(w) ==
    LET d == inv.rec[w].done IN
    /\ d.auth = inv.auth
    /\ d.mesh = mesh.rv
    /\ Admitted(w)
    /\ d.cohort = Cohort(w)
    /\ \A c \in Observers(Cohort(w)) : d.by[c] = boot[c] /\ ReceiptOf(c, w) \in fresh

\* A write of the inventory that changes what receipts are bound to.
Write(rec) == inv' = [auth |-> inv.auth + 1, rec |-> rec]
-----------------------------------------------------------------------------
(* Removal of a claim.                                                      *)

\* The claim is deleted and its removal recorded.
StartRemoval(w) ==
    /\ w \in course.leaving
    /\ claim[w] = "live"
    /\ inv.rec[w].stage = "published"
    /\ claim' = [claim EXCEPT ![w] = "removal"]
    /\ UNCHANGED <<course, mesh, inv, drain, intent, journal, call, col, pub, nodes>>

\* Its Node is drained and the Machine marked.
Drain(w) ==
    /\ claim[w] = "removal"
    /\ w \notin drain
    /\ drain' = drain \cup {w}
    /\ UNCHANGED <<course, mesh, inv, claim, intent, journal, call, col, pub, nodes>>

\* The withdrawal captures the mesh data and the surviving consumers, once.
Capture(w) ==
    /\ claim[w] = "removal"
    /\ w \in drain \cap Remotes
    /\ intent[w] = NoIntent
    /\ intent' = [intent EXCEPT ![w] = [source |-> mesh.peer,
                                        consumers |-> Published \ {w}]]
    /\ UNCHANGED <<course, mesh, inv, claim, drain, journal, call, col, pub, nodes>>

\* The journal is frozen: a completed one as it is, an unfinished one after
\* its round expired and only while the mesh is as captured.
Fence(w) ==
    /\ claim[w] = "removal"
    /\ intent[w] # NoIntent
    /\ \/ journal[w] = "complete"
       \/ journal[w] = "open" /\ w \in Remotes /\ SourceHolds(intent[w])
    /\ journal' = [journal EXCEPT ![w] = "frozen"]
    /\ UNCHANGED <<course, mesh, inv, claim, drain, intent, call, col, pub, nodes>>

BeginReserve(w) ==
    /\ claim[w] = "removal"
    /\ call[w] = Idle
    /\ journal[w] = "frozen"
    /\ w \in Remotes
    /\ inv.rec[w].stage = "published"
    /\ inv.rec[w].intent = NoIntent
    /\ SourceHolds(intent[w])
    /\ CapturesPublished(w, intent[w])
    /\ call' = [call EXCEPT ![w] = [op |-> "reserve", rv |-> 0]]
    /\ UNCHANGED <<course, mesh, inv, claim, drain, intent, journal, col, pub, nodes>>

\* Mutant of CommitReserve: the consumers are captured anew at the write.
CommitReserveRecaptures(w) ==
    /\ call[w].op = "reserve"
    /\ Write([inv.rec EXCEPT ![w] = [stage |-> "published", done |-> NoEvidence,
                                     intent |-> [source |-> mesh.peer,
                                                 consumers |-> Published \ {w}]]])
    /\ call' = [call EXCEPT ![w] = Idle]
    /\ UNCHANGED <<course, mesh, claim, drain, intent, journal, col, pub, nodes>>

\* The inventory is read again for the write, and it alone fences it.
CommitReserve(w) ==
    /\ call[w].op = "reserve"
    /\ inv.rec[w].stage = "published"
    /\ inv.rec[w].intent = NoIntent
    /\ Write([inv.rec EXCEPT ![w].intent = intent[w]])
    /\ call' = [call EXCEPT ![w] = Idle]
    /\ UNCHANGED <<course, mesh, claim, drain, intent, journal, col, pub, nodes>>

BeginWithdraw(w) ==
    /\ claim[w] = "removal"
    /\ call[w] = Idle
    /\ SetReadable
    /\ Prepared(w)
    /\ call' = [call EXCEPT ![w] = [op |-> "withdraw", rv |-> mesh.rv]]
    /\ UNCHANGED <<course, mesh, inv, claim, drain, intent, journal, col, pub, nodes>>

CommitWithdraw(w) ==
    /\ call[w] = [op |-> "withdraw", rv |-> mesh.rv]
    /\ mesh' = [rv |-> mesh.rv + 1,
                peer |-> [p \in Remotes \ {w} |-> mesh.peer[p]]]
    /\ call' = [call EXCEPT ![w] = Idle]
    /\ UNCHANGED <<course, inv, claim, drain, intent, journal, col, pub, nodes>>

\* Mutant of BeginTeardown: a recorded completion is enough.
BeginTeardownUnverified(w) ==
    /\ claim[w] = "removal"
    /\ call[w] = Idle
    /\ Withdrawn(w)
    /\ call' = [call EXCEPT ![w] = [op |-> "teardown", rv |-> 0]]
    /\ UNCHANGED <<course, mesh, inv, claim, drain, intent, journal, col, pub, nodes>>
BeginTeardown(w) ==
    /\ claim[w] = "removal"
    /\ call[w] = Idle
    /\ Verified(w)
    /\ call' = [call EXCEPT ![w] = [op |-> "teardown", rv |-> 0]]
    /\ UNCHANGED <<course, mesh, inv, claim, drain, intent, journal, col, pub, nodes>>

CommitTeardown(w) ==
    /\ call[w].op = "teardown"
    /\ claim' = [claim EXCEPT ![w] = "teardown"]
    /\ call' = [call EXCEPT ![w] = Idle]
    /\ UNCHANGED <<course, mesh, inv, drain, intent, journal, col, pub, nodes>>

\* Compute, Machine, Node and claim disappear.
Vanish(w) ==
    /\ claim[w] = "teardown"
    /\ claim' = [claim EXCEPT ![w] = "gone"]
    /\ agent' = [agent EXCEPT ![w] = IdleAgent]
    /\ native' = [native EXCEPT ![w] = {}]
    /\ check' = [check EXCEPT ![w].verified = FALSE]
    /\ UNCHANGED <<course, mesh, inv, drain, intent, journal, call, col, pub, boot, fresh>>

DropCall(w) ==
    /\ call[w] # Idle
    /\ call' = [call EXCEPT ![w] = Idle]
    /\ UNCHANGED <<course, mesh, inv, claim, drain, intent, journal, col, pub, nodes>>
-----------------------------------------------------------------------------
(* Publication of peers: a joining worker's key, or a changed endpoint.     *)

\* The mesh Secret is read, and lacks or differs from the worker's data; the
\* Machine was read some time before.
ReadMesh(w) ==
    /\ w \in course.publishing
    /\ pub[w].op = "idle"
    /\ claim[w] # "gone"
    /\ w \in Remotes => mesh.peer[w] < course.addresses
    /\ pub' = [pub EXCEPT ![w] = [op |-> "read", rv |-> mesh.rv]]
    /\ UNCHANGED <<course, mesh, inv, claim, drain, intent, journal, call, col, nodes>>

\* CheckPeerPublication reads the live Machine after the Secret.
CheckPublication(w) ==
    /\ pub[w].op = "read"
    /\ claim[w] # "gone"
    /\ w \notin drain
    /\ pub' = [pub EXCEPT ![w].op = "checked"]
    /\ UNCHANGED <<course, mesh, inv, claim, drain, intent, journal, call, col, nodes>>

\* A joining worker boots with the peers its configuration was rendered from.
PublishPeer(w) ==
    /\ pub[w] = [op |-> "checked", rv |-> mesh.rv]
    /\ w \in Remotes => mesh.peer[w] < course.addresses
    /\ mesh' = [rv |-> mesh.rv + 1,
                peer |-> [p \in Remotes \cup {w} |->
                            IF p # w THEN mesh.peer[p]
                            ELSE IF w \in Remotes THEN mesh.peer[w] + 1 ELSE 0]]
    /\ pub' = [pub EXCEPT ![w] = Idle]
    /\ IF claim[w] = "absent"
       THEN /\ claim' = [claim EXCEPT ![w] = "live"]
            /\ native' = [native EXCEPT ![w] = Remotes \ {w}]
       ELSE UNCHANGED <<claim, native>>
    /\ UNCHANGED <<course, inv, drain, intent, journal, call, col, agent, check, boot, fresh>>

DropPublication(w) ==
    /\ pub[w] # Idle
    /\ pub' = [pub EXCEPT ![w] = Idle]
    /\ UNCHANGED <<course, mesh, inv, claim, drain, intent, journal, call, col, nodes>>

\* A joined worker's journal is reserved, created and published.
PublishJournal(w) ==
    /\ claim[w] = "live"
    /\ w \in Remotes
    /\ inv.rec[w].stage = "none"
    /\ Write([inv.rec EXCEPT ![w].stage = "published"])
    /\ journal' = [journal EXCEPT ![w] = "open"]
    /\ UNCHANGED <<course, mesh, claim, drain, intent, call, col, pub, nodes>>

\* The handover that the journal records completes (see Handover).
CompleteJournal(w) ==
    /\ journal[w] = "open"
    /\ journal' = [journal EXCEPT ![w] = "complete"]
    /\ UNCHANGED <<course, mesh, inv, claim, drain, intent, call, col, pub, nodes>>
-----------------------------------------------------------------------------
(* The receipt collector of the leading endpoint controller.                *)

OwnerAbsent(w) == claim[w] = "gone"

\* The last receipt of a batch arrived; its source is current.
BeginComplete(w) ==
    /\ col.op = "idle"
    /\ inv.rec[w].stage = "published"
    /\ Admitted(w)
    /\ ObserversLive(w)
    /\ AllObserved(w)
    /\ col' = [op |-> "complete", auth |-> inv.auth, targets |-> {w},
               gone |-> OwnerAbsent(w),
               done |-> [cohort |-> Cohort(w), auth |-> inv.auth, mesh |-> mesh.rv,
                         by |-> [c \in Observers(Cohort(w)) |-> boot[c]]]]
    /\ UNCHANGED <<course, mesh, inv, claim, drain, intent, journal, call, pub, nodes>>

\* Completion is recorded; when the owner was gone already and the policy is
\* set, the same request goes on to consume it.
CommitComplete(w) ==
    /\ col.op = "complete"
    /\ col.targets = {w}
    /\ col.auth = inv.auth
    /\ inv' = [inv EXCEPT !.rec[w].done = col.done]
    /\ col' = IF Finalize /\ col.gone
              THEN [IdleCol EXCEPT !.op = "consume", !.targets = {w}]
              ELSE IdleCol
    /\ UNCHANGED <<course, mesh, claim, drain, intent, journal, call, pub, nodes>>

BeginFinalize(w) ==
    /\ col.op = "consume"
    /\ col.targets = {w}
    /\ OwnerAbsent(w)
    /\ ObserversLive(w)
    /\ Verified(w)
    /\ col' = [IdleCol EXCEPT !.op = "finalize", !.auth = inv.auth, !.targets = {w}]
    /\ UNCHANGED <<course, mesh, inv, claim, drain, intent, journal, call, pub, nodes>>

CommitFinalize(w) ==
    /\ col.op = "finalize"
    /\ col.targets = {w}
    /\ col.auth = inv.auth
    /\ Write([inv.rec EXCEPT ![w].stage = "final"])
    /\ col' = IdleCol
    /\ UNCHANGED <<course, mesh, claim, drain, intent, journal, call, pub, nodes>>

\* Evidence that allows a release: of the live cohort, finalized throughout,
\* by completions that name exactly its members.
Releasable(C) ==
    \A u \in C : inv.rec[u].stage = "final" /\ inv.rec[u].done.cohort = C

\* Mutant of BeginRelease: only the target of the receipts is released.
BeginReleaseAlone(w) ==
    /\ col.op = "idle"
    /\ Release
    /\ Admitted(w)
    /\ Releasable(Cohort(w))
    /\ OwnerAbsent(w)
    /\ ObserversLive(w)
    /\ AllObserved(w)
    /\ col' = [IdleCol EXCEPT !.op = "release", !.auth = inv.auth, !.targets = {w}]
    /\ UNCHANGED <<course, mesh, inv, claim, drain, intent, journal, call, pub, nodes>>

\* A fresh batch arrived for a finalized withdrawal.
BeginRelease(w) ==
    /\ col.op = "idle"
    /\ Release
    /\ Admitted(w)
    /\ Releasable(Cohort(w))
    /\ \A u \in Cohort(w) : OwnerAbsent(u)
    /\ ObserversLive(w)
    /\ AllObserved(w)
    /\ col' = [IdleCol EXCEPT !.op = "release", !.auth = inv.auth,
                                !.targets = Cohort(w)]
    /\ UNCHANGED <<course, mesh, inv, claim, drain, intent, journal, call, pub, nodes>>

CommitRelease ==
    /\ col.op = "release"
    /\ col.auth = inv.auth
    /\ Write([u \in Worker |-> IF u \in col.targets
                               THEN [inv.rec[u] EXCEPT !.stage = "released"]
                               ELSE inv.rec[u]])
    /\ col' = IdleCol
    /\ UNCHANGED <<course, mesh, claim, drain, intent, journal, call, pub, nodes>>

DropCollector ==
    /\ col.op # "idle"
    /\ col' = IdleCol
    /\ UNCHANGED <<course, mesh, inv, claim, drain, intent, journal, call, pub, nodes>>
-----------------------------------------------------------------------------
(* Agents: each execution holds its host's lock from Begin to its end.      *)

Running(c) == c \in Worker => Present(c)

\* The inventory is checkpointed before any native work under it; what was
\* verified under another one is not restored after a reboot.
Checkpoint(c) ==
    check' = [check EXCEPT ![c] =
                [peers |-> Remotes \ {c},
                 verified |-> check[c].verified /\ check[c].peers = Remotes \ {c}]]

\* Admission of ordinary work needs every recorded withdrawal published.
BeginMaintain(c) ==
    /\ Running(c)
    /\ c \in course.maintaining
    /\ agent[c].op = "idle"
    /\ c \in Published
    /\ \A u \in Worker : Retiring(u) => Withdrawn(u)
    /\ agent' = [agent EXCEPT ![c] = [op |-> "maintain", peers |-> Remotes \ {c},
                                     auth |-> inv.auth, mesh |-> mesh.rv]]
    /\ Checkpoint(c)
    /\ UNCHANGED <<controls, native, boot, fresh>>

\* The recheck just before native work can be overtaken; it is left out.
Maintain(c) ==
    /\ agent[c].op = "maintain"
    /\ native' = [native EXCEPT ![c] = agent[c].peers]
    /\ check' = [check EXCEPT ![c].verified = TRUE]
    /\ agent' = [agent EXCEPT ![c] = IdleAgent]
    /\ UNCHANGED <<controls, boot, fresh>>

\* Mutant of BeginRetire: the checkpoint is left for after the cleanup.
BeginRetireUnchecked(c, w) ==
    /\ Running(c)
    /\ agent[c].op = "idle"
    /\ \A u \in Worker : Retiring(u) => Withdrawn(u)
    /\ Admitted(w)
    /\ c \in Published \cap Observers(Cohort(w))
    /\ agent' = [agent EXCEPT ![c] = [op |-> "retire", peers |-> Cohort(w),
                                     auth |-> inv.auth, mesh |-> mesh.rv]]
    /\ UNCHANGED <<controls, native, check, boot, fresh>>

\* A cohort is retired as a whole.
BeginRetire(c, w) ==
    /\ Running(c)
    /\ agent[c].op = "idle"
    /\ \A u \in Worker : Retiring(u) => Withdrawn(u)
    /\ Admitted(w)
    /\ c \in Published \cap Observers(Cohort(w))
    /\ agent' = [agent EXCEPT ![c] = [op |-> "retire", peers |-> Cohort(w),
                                     auth |-> inv.auth, mesh |-> mesh.rv]]
    /\ Checkpoint(c)
    /\ UNCHANGED <<controls, native, boot, fresh>>

Clean(c) ==
    /\ agent[c].op = "retire"
    /\ native' = [native EXCEPT ![c] = @ \ agent[c].peers]
    /\ agent' = [agent EXCEPT ![c].op = "clean"]
    /\ UNCHANGED <<controls, check, boot, fresh>>

\* Mutant of SendReceipts: nothing is sent about consumed evidence.
SendReceiptsOnce(c) ==
    /\ agent[c].op = "clean"
    /\ agent[c].auth = inv.auth
    /\ agent[c].mesh = mesh.rv
    /\ fresh' = fresh \cup {ReceiptOf(c, u) : u \in {v \in agent[c].peers :
                                                     inv.rec[v].stage = "published"}}
    /\ agent' = [agent EXCEPT ![c] = IdleAgent]
    /\ UNCHANGED <<controls, native, check, boot>>

\* Receipts need the source of the admission to be current still.  A
\* completion recorded meanwhile suppresses them too; that is left out.
SendReceipts(c) ==
    /\ agent[c].op = "clean"
    /\ agent[c].auth = inv.auth
    /\ agent[c].mesh = mesh.rv
    /\ fresh' = fresh \cup
                   {ReceiptOf(c, u) : u \in {v \in agent[c].peers :
                                               inv.rec[v].stage = "published" \/ Release}}
    /\ agent' = [agent EXCEPT ![c] = IdleAgent]
    /\ UNCHANGED <<controls, native, check, boot>>

Abandon(c) ==
    /\ agent[c].op # "idle"
    /\ agent' = [agent EXCEPT ![c] = IdleAgent]
    /\ UNCHANGED <<controls, native, check, boot, fresh>>

\* The agent's container restarts; the kernel keeps its state.
Restart(c) ==
    /\ Running(c)
    /\ c \in course.restarting /\ boot[c] < MaxBoot
    /\ boot' = [boot EXCEPT ![c] = @ + 1]
    /\ agent' = [agent EXCEPT ![c] = IdleAgent]
    /\ UNCHANGED <<controls, native, check, fresh>>

\* The host reboots.  A worker restores what its checkpoint verified.
Reboot(c) ==
    /\ Running(c)
    /\ c \in course.restarting /\ boot[c] < MaxBoot
    /\ boot' = [boot EXCEPT ![c] = @ + 1]
    /\ agent' = [agent EXCEPT ![c] = IdleAgent]
    /\ native' = [native EXCEPT ![c] = IF c \in Worker /\ check[c].verified
                                      THEN check[c].peers ELSE {}]
    /\ UNCHANGED <<controls, check, fresh>>

\* A receipt becomes too old.
Age(r) ==
    /\ r \in fresh
    /\ fresh' = fresh \ {r}
    /\ UNCHANGED <<controls, agent, native, check, boot>>
-----------------------------------------------------------------------------
Remove(w) ==
    \/ StartRemoval(w) \/ Drain(w) \/ Capture(w) \/ Fence(w)
    \/ BeginReserve(w) \/ CommitReserve(w)
    \/ BeginWithdraw(w) \/ CommitWithdraw(w)
    \/ BeginTeardown(w) \/ CommitTeardown(w)
    \/ Vanish(w) \/ DropCall(w)

Publish(w) ==
    \/ ReadMesh(w) \/ CheckPublication(w) \/ PublishPeer(w) \/ DropPublication(w)
    \/ PublishJournal(w) \/ CompleteJournal(w)

Collect(w) ==
    \/ BeginComplete(w) \/ CommitComplete(w)
    \/ BeginFinalize(w) \/ CommitFinalize(w)
    \/ BeginRelease(w)

Execute(c) ==
    \/ BeginMaintain(c) \/ Maintain(c)
    \/ \E w \in Worker : BeginRetire(c, w)
    \/ Clean(c) \/ SendReceipts(c) \/ Abandon(c)
    \/ Restart(c) \/ Reboot(c)

Next ==
    \/ \E w \in Worker : Remove(w) \/ Publish(w) \/ Collect(w)
    \/ CommitRelease
    \/ DropCollector
    \/ \E c \in Consumer : Execute(c)
    \/ \E r \in fresh : Age(r)

Spec == Init /\ [][Next]_vars
-----------------------------------------------------------------------------
\* Once the removal of a worker may tear its compute down, no published
\* consumer has it installed, and none installs it again: not by ordinary
\* work admitted earlier, not by restoring a checkpoint after a reboot.
NoReturn ==
    \A w \in Worker : claim[w] \in {"teardown", "gone"} =>
        \A c \in Published : w \notin native[c]

\* A drained worker that left the mesh is not published again, whatever
\* publication was in flight when it was withdrawn.  Recorded withdrawals are
\* never recaptured, consumed evidence is never replaced, and a released
\* reservation never returns.
EvidenceKept ==
    [][\A w \in Worker :
          LET old == inv.rec[w]
              new == inv.rec'[w]
          IN  /\ w \in drain /\ w \notin Remotes => w \notin Remotes'
              /\ old.intent # NoIntent => new.intent = intent[w] /\ new.intent = old.intent
              /\ old.stage = "final" => new.stage \in {"final", "released"}
                                          /\ new.done = old.done
              /\ old.stage = "released" => new = old]_vars

\* Consumed evidence stays readable: members of a joint completion are
\* released together or not at all, and only when all their owners are gone.
ReleasedTogether ==
    \A w \in Worker : inv.rec[w].stage = "released" =>
        \A u \in inv.rec[w].done.cohort :
            inv.rec[u].stage = "released" /\ claim[u] = "gone"

\* A later withdrawal does not change what the release of an earlier,
\* consumed one needs.
LaterWithdrawalsKeepEvidence ==
    \A w \in Worker : inv.rec[w].stage = "final" /\ Withdrawn(w) =>
        Cohort(w) = inv.rec[w].done.cohort
=============================================================================
