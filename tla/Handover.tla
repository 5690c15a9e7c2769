------------------------------ MODULE Handover ------------------------------
(***************************************************************************)
(* One tunnel generation replaced by another without an interruption: the  *)
(* journal a controller commits, the Node agents that carry out its rounds *)
(* on native WireGuard devices and routes, the receipts they send, the     *)
(* collector that turns complete receipt sets into phase advances, expiry  *)
(* recovery, and the successor transition that follows a completed one.    *)
(*                                                                         *)
(* The journal is one compare-and-swap object, so each commit is one step  *)
(* on its newest state; the time an event carries was sampled up to        *)
(* CommitLag ticks earlier.  An agent holds the host lock from admission   *)
(* to its receipt, so it runs one execution at a time, but any other step  *)
(* may come between its admission, its native work and its receipt.        *)
(***************************************************************************)
EXTENDS Transition, FiniteSets

CONSTANTS
    Via,            \* Via[g][n]: the Node whose tunnel n uses in generation g
    Direct,         \* ... or n's own tunnel
    CommitLag,      \* bound: age of a sampled time when its commit lands
    MaxLate,        \* bound: requests in flight that their agent gave up
    MaxTime,        \* bound: last tick
    MaxReboots      \* bound: reboots of each Node

ASSUME HandoverBounds ==
    /\ CommitLag \in Nat
    /\ MaxLate \in Nat
    /\ MaxTime \in Nat
    /\ MaxReboots \in Nat
\* SiteTransit and siteTransitThrough only choose a relay that has a tunnel.
ASSUME ViaAssumption ==
    /\ Direct \notin Node
    /\ Via \in [Gen -> [Node -> Node \cup {Direct}]]
    /\ \A g \in Gen, n \in Node :
          Via[g][n] # Direct => Via[g][Via[g][n]] = Direct

VARIABLES
    now,        \* the shared clock
    journal,    \* the committed transition journal
    proposal,   \* generation of the adoption Secret's preparation request
    ready,      \* readiness acknowledgements the agents published
    pc,         \* control point of each Node's agent
    admitted,   \* the journal each agent's execution was admitted under
    request,    \* the successor generation a maintenance pass prepares
    observedAt, \* time of each agent's completed native observation
    wire,       \* receipts in flight: delayed, duplicated, lost
    batch,      \* the collector's receipts of the current round, in memory
    recv,       \* generations whose receive path each Node has installed
    egress,     \* the generation each Node's routes select
    left,       \* ghost: the generation each Node last stopped selecting
    boot        \* boot ID of each Node

agent == <<pc, admitted, request, observedAt>>
native == <<recv, egress, left>>
control == <<journal, proposal, ready>>
vars == <<now, journal, proposal, ready, pc, admitted, request, observedAt,
          wire, batch, recv, egress, left, boot>>

Down == 0 - 1   \* egress of a Node that lost its kernel state
NoJournal == NewTransition(0, 0, 0, 0)  \* what an idle agent holds


Init ==
    /\ now = 1
    /\ journal = NewTransition(0, 1, 1, 1)
    /\ proposal = 1
    /\ ready = {}
    /\ pc = [n \in Node |-> "idle"]
    /\ admitted = [n \in Node |-> NoJournal]
    /\ request = [n \in Node |-> {}]
    /\ observedAt = [n \in Node |-> Never]
    /\ wire = {}
    /\ batch = {}
    /\ recv = [n \in Node |-> {0, 1}]
    /\ egress = [n \in Node |-> 0]
    /\ left = [n \in Node |-> [gen |-> Down, at |-> Never]]
    /\ boot = [n \in Node |-> 0]

Tick ==
    /\ now < MaxTime
    /\ now' = now + 1
    /\ UNCHANGED <<control, agent, wire, batch, native, boot>>

(***************************************************************************)
(* The agent: runReceivePhase and reconcileReceiveLinuxPhase.              *)
(***************************************************************************)
\* Mutant of RelayFresh: no Node waits for its relay.
RelayFreshIgnored(j, n) == TRUE
\* A Node whose selected path runs through another Node's tunnel follows only
\* after that relay's own receipt of the same switch round, while it is fresh.
RelayFresh(j, n) ==
    LET relay == Via[j.to][n] IN
    j.phase = "switch" /\ relay # Direct =>
        /\ Via[j.to][relay] = Direct
        /\ \E r \in ObservedOf(j, relay) : ValidReceipt(j, now, r)

\* ... and while the relay is the incarnation that sent it.
RelayLive(j, n) ==
    LET relay == Via[j.to][n] IN
    j.phase = "switch" /\ relay # Direct =>
        \A r \in ObservedOf(j, relay) : r.boot = boot[relay]

\* Submit holds the agent until it is answered or times out; a request that
\* timed out may still reach the controller.
Waiting(n) == Cardinality({r \in wire : r.node = n}) > MaxLate

Executable(j) ==
    /\ ~j.complete
    /\ Current(j, now)
    /\ j.phase = "drain" => j.drainUntil # Never /\ now >= j.drainUntil

Admit(n) ==
    /\ pc[n] = "idle"
    /\ ~Waiting(n)
    /\ Executable(journal)
    /\ RelayFresh(journal, n)
    /\ RelayLive(journal, n)
    /\ pc' = [pc EXCEPT ![n] = "native"]
    /\ admitted' = [admitted EXCEPT ![n] = journal]
    /\ UNCHANGED <<now, control, request, observedAt, wire, batch, native, boot>>

Select(n, g) ==
    /\ egress' = [egress EXCEPT ![n] = g]
    /\ left' = IF egress[n] \in {g, Down} THEN left
               ELSE [left EXCEPT ![n] = [gen |-> egress[n], at |-> now]]

Observed(n) ==
    /\ pc' = [pc EXCEPT ![n] = "observed"]
    /\ observedAt' = [observedAt EXCEPT ![n] = now]
    /\ UNCHANGED <<now, control, admitted, request, wire, batch, boot>>

Executes(n, phase) == pc[n] = "native" /\ admitted[n].phase = phase

NativePrepare(n) ==
    /\ Executes(n, "prepare")
    /\ egress[n] = admitted[n].from
    /\ admitted[n].from \in recv[n]
    /\ recv' = [recv EXCEPT ![n] = @ \cup {admitted[n].to}]
    /\ UNCHANGED <<egress, left>>
    /\ Observed(n)

NativeSwitch(n) ==
    /\ Executes(n, "switch")
    /\ {admitted[n].from, admitted[n].to} \subseteq recv[n]
    /\ RelayFresh(admitted[n], n)
    /\ Select(n, admitted[n].to)
    /\ UNCHANGED recv
    /\ Observed(n)

NativeDrain(n) ==
    /\ Executes(n, "drain")
    /\ egress[n] = admitted[n].to
    /\ {admitted[n].from, admitted[n].to} \subseteq recv[n]
    /\ UNCHANGED native
    /\ Observed(n)

NativeRetire(n) ==
    /\ Executes(n, "retire")
    /\ egress[n] = admitted[n].to
    /\ admitted[n].to \in recv[n]
    /\ recv' = [recv EXCEPT ![n] = @ \ {admitted[n].from}]
    /\ UNCHANGED <<egress, left>>
    /\ Observed(n)

NativeAbort(n) ==
    /\ Executes(n, "abort")
    /\ egress[n] = admitted[n].from
    /\ admitted[n].from \in recv[n]
    /\ recv' = [recv EXCEPT ![n] = @ \ {admitted[n].to}]
    /\ UNCHANGED <<egress, left>>
    /\ Observed(n)

\* The host lock is released and nothing of the execution is kept.
Idle(n) ==
    /\ pc' = [pc EXCEPT ![n] = "idle"]
    /\ admitted' = [admitted EXCEPT ![n] = NoJournal]
    /\ request' = [request EXCEPT ![n] = {}]
    /\ observedAt' = [observedAt EXCEPT ![n] = Never]

\* The reloaded journal differs from the admitted one by observations only.
ContinuesExecution(n) ==
    journal.nonce = admitted[n].nonce /\ ~journal.complete

\* The switch of a relayed Node, and of every Node in a successor transition,
\* also demands that no observation was committed meanwhile.
SameEvidence(n) ==
    /\ journal.phase = "switch"
    /\ Via[journal.to][n] # Direct \/ Candidate(journal) # 1
    => journal.observed = admitted[n].observed

SendsReceipt(n) ==
    /\ ContinuesExecution(n)
    /\ Executable(journal)
    /\ SameEvidence(n)
    /\ RelayFresh(journal, n)
    /\ RelayLive(journal, n)
    /\ now - observedAt[n] <= MaxReceiptAge
    /\ journal.phase = "drain" => observedAt[n] >= journal.drainUntil

\* Mutant of Send: the receipt names the journal's newest round.
SendLatest(n) ==
    /\ pc[n] = "observed"
    /\ wire' = wire \cup {[node |-> n, boot |-> boot[n],
                           nonce |-> journal.nonce, at |-> now]}
    /\ Idle(n)
    /\ UNCHANGED <<now, control, batch, native, boot>>
Send(n) ==
    /\ pc[n] = "observed"
    /\ SendsReceipt(n)
    /\ wire' = wire \cup {[node |-> n, boot |-> boot[n],
                           nonce |-> admitted[n].nonce, at |-> observedAt[n]]}
    /\ Idle(n)
    /\ UNCHANGED <<now, control, batch, native, boot>>

\* Any refused check, failed command or agent restart ends the execution.
Abandon(n) ==
    /\ pc[n] # "idle"
    /\ Idle(n)
    /\ UNCHANGED <<now, control, wire, batch, native, boot>>

(***************************************************************************)
(* Maintenance of a completed transition: the selected paths are restored, *)
(* and a requested successor generation is installed beside them.          *)
(***************************************************************************)
\* Mutant of Requested: the plan's own, already retired candidate counts.
RequestedAny(j) == {proposal}
Requested(j) == {proposal} \ {Candidate(j)}

AdmitMaintenance(n) ==
    /\ pc[n] = "idle"
    /\ ~Waiting(n)
    /\ journal.complete
    /\ pc' = [pc EXCEPT ![n] = "maintain"]
    /\ admitted' = [admitted EXCEPT ![n] = journal]
    /\ request' = [request EXCEPT ![n] = Requested(journal)]
    /\ UNCHANGED <<now, control, observedAt, wire, batch, native, boot>>

Maintain(n) ==
    /\ pc[n] = "maintain"
    /\ recv' = [recv EXCEPT ![n] = @ \cup {Serving(admitted[n])} \cup request[n]]
    /\ Select(n, Serving(admitted[n]))
    /\ \E acknowledged \in {{}, request[n]} :
          ready' = ready \cup [node : {n}, boot : {boot[n]}, gen : acknowledged]
    /\ Idle(n)
    /\ UNCHANGED <<now, journal, proposal, wire, batch, boot>>

\* A reboot loses devices, routes and the agent's process.
Reboot(n) ==
    /\ boot[n] < MaxReboots
    /\ boot' = [boot EXCEPT ![n] = @ + 1]
    /\ recv' = [recv EXCEPT ![n] = {}]
    /\ egress' = [egress EXCEPT ![n] = Down]
    /\ Idle(n)
    /\ UNCHANGED <<now, control, wire, batch, left>>

(***************************************************************************)
(* The receipt collector.                                                  *)
(***************************************************************************)
Sampled == {t \in 1 .. MaxTime : t <= now /\ now <= t + CommitLag}

Authentic(R) == \A r \in R : r.boot = boot[r.node]

Submit(r) ==
    /\ r \in wire
    /\ Authentic({r})
    /\ \E at \in Sampled :
          /\ CanObserve(journal, at, r)
          /\ journal' = Observe(journal, at, r)
    /\ batch' = IF now >= journal.expires THEN {}
                ELSE {e \in batch : /\ e.nonce = r.nonce
                                    /\ e.node # r.node
                                    /\ now < e.at + MaxReceiptAge} \cup {r}
    /\ wire' = wire \ {r}
    /\ UNCHANGED <<now, proposal, ready, agent, native, boot>>

\* The collector rejects the request, or it is lost.
Lose(r) ==
    /\ r \in wire
    /\ wire' = wire \ {r}
    /\ UNCHANGED <<now, control, agent, batch, native, boot>>

Advances(at) == Authentic(batch) /\ CanAdvance(journal, at, batch)

Complete ==
    /\ \E at \in Sampled :
          /\ Advances(at)
          /\ journal' = Advance(journal, at)
    /\ batch' = {}
    /\ UNCHANGED <<now, proposal, ready, agent, wire, native, boot>>

CompleteRejected ==
    /\ CompleteSet(batch)
    /\ ~Advances(now)
    /\ batch' = {}
    /\ UNCHANGED <<now, control, agent, wire, native, boot>>

CollectorRestart ==
    /\ batch # {}
    /\ batch' = {}
    /\ UNCHANGED <<now, control, agent, wire, native, boot>>

(***************************************************************************)
(* The coordinator: expiry recovery and successors.                        *)
(***************************************************************************)
\* recoverExpiredReceiveRound
Recovers(at) == ~journal.complete /\ at >= journal.expires

RollBack ==
    /\ \E at \in Sampled :
          /\ Recovers(at)
          /\ CanRollback(journal, at)
          /\ journal' = Rollback(journal, at)
    /\ UNCHANGED <<now, proposal, ready, agent, wire, batch, native, boot>>

RenewRound ==
    /\ \E at \in Sampled :
          /\ Recovers(at)
          /\ ~CanRollback(journal, at)
          /\ CanRenew(journal, at)
          /\ journal' = Renew(journal, at)
    /\ UNCHANGED <<now, proposal, ready, agent, wire, batch, native, boot>>

\* Changed desired sources ask for a new generation, in place of the last one.
Propose ==
    /\ journal.complete
    /\ proposal < MaxGen
    /\ proposal' = proposal + 1
    /\ UNCHANGED <<now, journal, ready, agent, wire, batch, native, boot>>

Prepared == \A n \in Node : [node |-> n, boot |-> boot[n], gen |-> proposal] \in ready

Succeed ==
    /\ journal.complete
    /\ proposal # Candidate(journal)
    /\ Prepared
    /\ \E at \in Sampled :
          /\ at >= journal.last
          /\ journal' = NewTransition(Serving(journal), proposal,
                                      journal.nonce + 1, at)
    /\ UNCHANGED <<now, proposal, ready, agent, wire, batch, native, boot>>

AgentStep(n) ==
    \/ Admit(n)
    \/ NativePrepare(n)
    \/ NativeSwitch(n)
    \/ NativeDrain(n)
    \/ NativeRetire(n)
    \/ NativeAbort(n)
    \/ Send(n)
    \/ Abandon(n)
    \/ AdmitMaintenance(n)
    \/ Maintain(n)

Undisturbed ==
    \/ Tick
    \/ \E n \in Node : AgentStep(n)
    \/ \E r \in wire : Submit(r)
    \/ \E r \in wire : Lose(r)
    \/ Complete
    \/ CompleteRejected
    \/ CollectorRestart
    \/ RollBack
    \/ RenewRound
    \/ Propose
    \/ Succeed

Next == Undisturbed \/ \E n \in Node : Reboot(n)

Spec == Init /\ [][Next]_vars

(***************************************************************************)
(* Properties.                                                             *)
(***************************************************************************)
\* Every variable keeps its type.
TypeOK ==
    /\ now \in Nat
    /\ journal \in Journal
    /\ proposal \in Gen
    /\ ready \subseteq [node : Node, boot : Nat, gen : Gen]
    /\ pc \in [Node -> {"idle", "native", "observed", "maintain"}]
    /\ admitted \in [Node -> Journal]
    /\ request \in [Node -> SUBSET Gen]
    /\ observedAt \in [Node -> Nat]
    /\ wire \subseteq Receipt
    /\ batch \subseteq Receipt
    /\ recv \in [Node -> SUBSET Gen]
    /\ egress \in [Node -> Gen \cup {Down}]
    /\ left \in [Node -> [gen : Gen \cup {Down}, at : Nat]]
    /\ boot \in [Node -> Nat]

Up(n) == egress[n] # Down

\* No traffic is lost to a handover: whatever generation a running Node's
\* routes select, every other running Node still receives it.
SelectedIsReceived ==
    \A m, n \in Node : Up(m) /\ Up(n) => egress[m] \in recv[n]

\* What a Node's native state has to be once it may acknowledge round j.
PhaseDone(n, j) ==
    /\ j.phase \in {"prepare", "switch", "drain"} => {j.from, j.to} \subseteq recv[n]
    /\ j.phase \in {"switch", "drain", "retire"} => egress[n] = j.to
    /\ j.phase \in {"prepare", "abort"} => egress[n] = j.from
    /\ j.phase = "retire" => j.from \notin recv[n]
    /\ j.phase = "abort" => j.to \notin recv[n]

Receipts == wire \cup batch \cup journal.observed

\* A receipt that could still count is true when it counts, however late it
\* arrives: nothing the Node does afterwards undoes what it acknowledged.
ReceiptsStayTrue ==
    \A r \in Receipts :
        r.boot = boot[r.node] /\ r.nonce = journal.nonce /\ ~journal.complete
            => PhaseDone(r.node, journal)

\* A completed transition is complete everywhere: each running Node selects
\* the serving generation and has dropped the other one, and maintenance
\* never brings the dropped one back.
CompletedEverywhere ==
    journal.complete =>
        \A n \in Node : Up(n) =>
            /\ egress[n] = Serving(journal)
            /\ Serving(journal) \in recv[n]
            /\ Removed(journal) \notin recv[n]

\* Relayed traffic always reaches a tunnel: at no moment of an asynchronous
\* switch or rollback do relays forward to each other in a circle.
NextHop(n) == IF Up(n) THEN Via[egress[n]][n] ELSE Direct
RelaysReachTunnel ==
    \A S \in (SUBSET Node) \ {{}} : \E n \in S : NextHop(n) \notin S

\* A Node never holds a third generation.
AtMostTwoGenerations == \A n \in Node : Cardinality(recv[n]) <= 2

\* A receive path is removed only when no Node selects it and every Node that
\* did stopped at least DrainInterval ago.
RetiredOnlyDrained ==
    [][\A n \in Node : boot'[n] = boot[n] =>
          \A g \in recv[n] \ recv'[n], m \in Node :
              /\ egress[m] # g
              /\ left[m].gen = g => now >= left[m].at + DrainInterval]_vars

\* The traffic sees the native state alone: journal, rounds, receipts, proposals
\* and executions are hidden.
Abstract ==
    INSTANCE MakeBeforeBreak WITH
        now <- now, recv <- recv, egress <- egress, left <- left
\* The handover implements its promise to the traffic.
KeepsPromise == Abstract!Spec

(***************************************************************************)
(* The inductive invariant behind the theorems.                            *)
(***************************************************************************)
SamePair(a, j) == a.from = j.from /\ a.to = j.to
SameRound(a, j) ==
    /\ SamePair(a, j)
    /\ a.phase = j.phase
    /\ a.rollback = j.rollback
    /\ a.drainUntil = j.drainUntil

\* Phases only follow each other as View allows, and what a transition
\* introduces is newer than everything selected before.
JournalShape ==
    /\ journal.from # journal.to
    /\ journal.last <= now
    /\ journal.phase = "prepare" => ~journal.rollback
    /\ journal.complete => journal.phase \in {"retire", "abort"}
    /\ journal.from <= Candidate(journal)
    /\ journal.to <= Candidate(journal)
    /\ Candidate(journal) <= proposal
    /\ \A n \in Node : egress[n] <= Candidate(journal)
                       /\ left[n].gen <= Candidate(journal)

\* What every running Node's native state is in each phase.
NativeShape ==
    \A n \in Node :
        /\ ~Up(n) => recv[n] = {}
        /\ Up(n) /\ journal.phase \in {"prepare", "abort"} =>
              egress[n] = journal.from /\ journal.from \in recv[n]
        /\ Up(n) /\ journal.phase \in {"switch", "drain"} =>
              {journal.from, journal.to} \subseteq recv[n]
        /\ Up(n) /\ journal.phase = "switch" =>
              egress[n] \in {journal.from, journal.to}
        /\ Up(n) /\ journal.phase \in {"drain", "retire"} =>
              egress[n] = journal.to /\ journal.to \in recv[n]
        /\ Up(n) /\ journal.complete => Removed(journal) \notin recv[n]

\* How far behind the journal a still running execution can be.
Preceding(a, j) ==      \* an execution of the transition before
    /\ ~j.complete
    /\ a.phase \in {"retire", "abort"}
    /\ Serving(a) = j.from
    /\ Removed(a) \notin {j.from, j.to}
Compatible(a, j) ==
    /\ j.phase = "prepare" =>
          Preceding(a, j) \/ (SamePair(a, j) /\ a.phase = "prepare")
    /\ j.phase = "abort" =>
          Preceding(a, j) \/ (SamePair(a, j) /\ a.phase \in {"prepare", "abort"})
    /\ j.phase = "switch" =>
          /\ {a.from, a.to} = {j.from, j.to}
          /\ a.phase \in {"prepare", "switch", "drain"}
    /\ j.phase = "drain" => SamePair(a, j) /\ a.phase \in {"switch", "drain"}
    /\ j.phase = "retire" => SamePair(a, j) /\ a.phase \in {"drain", "retire"}
    /\ j.complete => SamePair(a, j) /\ a.phase = j.phase

DrainedNow(g) ==
    \A m \in Node : left[m].gen = g => left[m].at + DrainInterval <= now

\* An agent's execution is never ahead of the journal, and one of the
\* journal's current round has that round's content.
ExecutionOrder ==
    \A n \in Node : pc[n] # "idle" =>
        /\ admitted[n].nonce <= journal.nonce
        /\ admitted[n].nonce = journal.nonce => SameRound(admitted[n], journal)

ExecutionCompatible ==
    \A n \in Node : pc[n] # "idle" => Compatible(admitted[n], journal)

\* Maintenance prepares only generations newer than its plan's own.
ExecutionMaintains ==
    \A n \in Node : pc[n] = "maintain" =>
        /\ admitted[n].nonce = journal.nonce => journal.complete
        /\ journal.complete => SameRound(admitted[n], journal)
        /\ ~journal.complete => Preceding(admitted[n], journal)
        /\ \A g \in request[n] : Candidate(admitted[n]) < g /\ g <= proposal

\* An execution that removes a generation was admitted after its drain.
ExecutionDrained ==
    \A n \in Node : pc[n] # "idle" /\ admitted[n].phase \in {"retire", "abort"}
                        => DrainedNow(Removed(admitted[n]))

\* Native work of the current round that an agent finished is done.
ObservedTrue ==
    \A n \in Node : pc[n] = "observed" =>
        /\ observedAt[n] <= now
        /\ admitted[n].nonce = journal.nonce /\ ~journal.complete =>
              /\ PhaseDone(n, journal)
              /\ left[n].gen = journal.from => left[n].at <= observedAt[n]

\* A Node that sent a receipt never again executes an older round.
ReceiptOrder ==
    \A r \in Receipts :
        /\ r.nonce <= journal.nonce
        /\ r.at <= now
        /\ r.boot <= boot[r.node]
        /\ r.boot = boot[r.node] /\ pc[r.node] # "idle"
              => r.nonce <= admitted[r.node].nonce

\* A receipt of a switch is no older than the switch it reports.
ReceiptTimely ==
    \A r \in Receipts :
        /\ r.boot = boot[r.node]
        /\ r.nonce = journal.nonce
        /\ journal.phase = "switch"
        /\ left[r.node].gen = journal.from
        => left[r.node].at <= r.at

\* What was selected before the current switch has drained by its deadline.
DrainShape ==
    \A n \in Node :
        /\ left[n].at <= now
        /\ journal.phase \in {"prepare", "abort"} => left[n].gen # journal.to
        /\ journal.phase = "drain" /\ left[n].gen = journal.from
              => left[n].at + DrainInterval <= journal.drainUntil
        /\ journal.phase = "retire" /\ left[n].gen = journal.from
              => left[n].at + DrainInterval <= now

IInv ==
    /\ TypeOK
    /\ JournalShape
    /\ NativeShape
    /\ ExecutionOrder
    /\ ExecutionCompatible
    /\ ExecutionMaintains
    /\ ExecutionDrained
    /\ ObservedTrue
    /\ ReceiptOrder
    /\ ReceiptsStayTrue
    /\ ReceiptTimely
    /\ DrainShape
=============================================================================
