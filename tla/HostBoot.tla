------------------------------ MODULE HostBoot ------------------------------
(***************************************************************************)
(* One cloud worker's host: the checkpoint files beside its lock, the pod  *)
(* agent that writes them under live admission, and the file-only host     *)
(* service that may restore the kernel from them after a boot, without the *)
(* API server (cmd/dialer/receive_boot.go, receive_checkpoint.go,          *)
(* receive_inventory.go, receive_restore.go, reconcile_lock.go).           *)
(*                                                                         *)
(* The host's journal is a number: 0 before a reservation, then four values*)
(* per handover (prepare, switch, retire, complete); generation 0 is the   *)
(* bootstrap tunnel. One other worker of the mesh is a peer that may be    *)
(* withdrawn. Rollback, drain and expiry of rounds are Handover's; the     *)
(* retirement's own records are Retirement's.                              *)
(***************************************************************************)
EXTENDS Naturals, Sequences

CONSTANTS
    MaxJournal,     \* bound on the journal
    MaxHostFault,   \* bound on reboots, and crashes and errors that end a pass
    MaxOutage       \* bound on losses of the API server

ASSUME HostBootAssumption ==
    {MaxJournal, MaxHostFault, MaxOutage} \subseteq Nat

VARIABLES
    hbJournal,      \* the committed journal of this worker
    hbInventory,    \* own: reserved; other: the other worker's publication
    hbReceipt,      \* the last phase this host acknowledged
    hbCleaned,      \* this host acknowledged the other's withdrawal
    hbFiles,        \* the checkpoint files
    hbKernel,       \* the host's network state
    hbBoot, hbOnline,
    hbAgent,        \* the pod agent's pass: step, targets, admitted set
    hbService,      \* the host service holds the lock, restoring
    hbStops, hbOutages

hostControl == <<hbJournal, hbInventory, hbReceipt, hbCleaned>>
hostBounds == <<hbBoot, hbOnline, hbStops, hbOutages>>
hostVars == <<hostControl, hbFiles, hbKernel, hbAgent, hbService, hostBounds>>

-----------------------------------------------------------------------------
(* The journal.                                                             *)

Finished(n) == n > 0 /\ n % 4 = 0

\* The generation whose transport the journal selects.
Selected(n) == (n + 2) \div 4

Switching(n) == n % 4 = 2

\* Between the switch's commit and this host's receipt the kernel may still
\* be on the previous generation.
Accepted(n) == {Selected(n)} \cup (IF Switching(n) THEN {Selected(n) - 1} ELSE {})

-----------------------------------------------------------------------------
(* The kernel. Stages: 0 nothing, 1 receive devices, 2 peers, addresses and *)
(* routes, 3 policy rules: serving.                                         *)

Lost == [gen |-> 0, other |-> FALSE, stage |-> 0, endpoint |-> "none"]

BootstrapKernel ==
    [gen |-> 0, other |-> hbInventory.other # "past", stage |-> 3, endpoint |-> "live"]

Serves(g) == hbKernel.stage = 3 /\ hbKernel.gen = g

\* prepareReceivePhasePaths: the selected generation's devices, no endpoint.
RaiseDevices(n) ==
    /\ hbKernel.stage = 0
    /\ hbKernel' = [Lost EXCEPT !.gen = Selected(n), !.stage = 1]

\* verifyReceivePhasePaths needs an authenticated peer; then the root, the
\* neighbour peers the inventory does not exclude, the address and the routes.
RestoreState(inv) ==
    /\ hbKernel.stage = 1 /\ hbKernel.endpoint = "live"
    /\ hbKernel' = [hbKernel EXCEPT !.stage = 2, !.other = inv.other = "serving"]

\* The lookup rules come last: they activate the table.
restoreReceivePolicyRules ==
    /\ hbKernel.stage = 2
    /\ hbKernel' = [hbKernel EXCEPT !.stage = 3]

restoreCompletedReceiveState(n, inv) ==
    RaiseDevices(n) \/ RestoreState(inv) \/ restoreReceivePolicyRules

Unanswered == hbKernel.stage = 1 /\ hbKernel.endpoint # "live"

-----------------------------------------------------------------------------
(* The files. Each is replaced atomically (writeDurableJSON). An empty      *)
(* sequence is an absent file. The hints are bound to one observation.      *)

NoFiles == [inventory |-> <<>>, journal |-> <<>>, observation |-> <<>>, hints |-> FALSE]

\* lockLegacyReconciliation: any file beside the lock fences bootstrap state.
Fenced == hbFiles.inventory # <<>> \/ hbFiles.journal # <<>> \/ hbFiles.observation # <<>>

InventoryFile(inv) == <<[inv |-> inv, boot |-> hbBoot]>>

JournalFile(n) == <<[n |-> n, boot |-> hbBoot]>>

\* A release is admitted only over the local retirement fence, for a host
\* that was captured as a consumer of the withdrawal.
admitReleasedReceiveCheckpoints(inv) ==
    inv.other = "released" =>
        /\ hbFiles.inventory # <<>>
        /\ hbFiles.inventory[1].inv.other \in {"retiring", "released"}

\* readReceiveNativeObservation: evidence of exactly this journal file.
ObservesJournal ==
    /\ hbFiles.journal # <<>> /\ hbFiles.observation # <<>>
    /\ hbFiles.observation[1].n = hbFiles.journal[1].n
    /\ hbFiles.observation[1].boot = hbFiles.journal[1].boot

ObservesInventory ==
    /\ hbFiles.inventory # <<>> /\ hbFiles.observation # <<>>
    /\ hbFiles.observation[1].inv = hbFiles.inventory[1].inv
    /\ hbFiles.observation[1].boot = hbFiles.inventory[1].boot

\* What admitReceiveBoot requires of the files.
Recoverable ==
    /\ hbFiles.inventory # <<>> /\ hbFiles.inventory[1].boot # hbBoot
    /\ ObservesJournal /\ ObservesInventory
    /\ Finished(hbFiles.journal[1].n)

-----------------------------------------------------------------------------
(* The pod agent. A pass discovers its targets, then runs each under the    *)
(* host lock; a failed target is recorded and the next one runs.            *)

Resting == [at |-> "rest", todo |-> <<>>, n |-> 0, inv |-> hbInventory]

Agent(steps) == hbOnline /\ hbAgent.at \in steps

Locked == hbService \/ hbAgent.at \notin {"rest", "target"}

\* The next target of the pass, or its end.
NextTarget ==
    hbAgent' = IF Len(hbAgent.todo) > 1
               THEN [Resting EXCEPT !.at = "target", !.todo = Tail(hbAgent.todo)]
               ELSE Resting

To(step) == hbAgent' = [hbAgent EXCEPT !.at = step]

Target == Head(hbAgent.todo)

\* orderReceiveDispatchTargets puts withdrawals before this worker's journal.
\* Without a target the ordinary reconciler runs, unless the inventory holds
\* a release this host took part in (dispatchUnreservedReceiveCloud).
Targets ==
    LET withdrawn == IF hbInventory.other = "retiring" THEN <<"withdrawal">> ELSE <<>>
        own == IF hbInventory.own THEN <<"phase">> ELSE <<>>
    IN  IF withdrawn \o own # <<>> THEN withdrawn \o own
        ELSE IF hbInventory.other = "released" THEN <<>> ELSE <<"ordinary">>

Discover ==
    /\ Agent({"rest"}) /\ Targets # <<>>
    /\ hbAgent' = [Resting EXCEPT !.at = "target", !.todo = Targets]
    /\ UNCHANGED <<hostControl, hbFiles, hbKernel, hbService, hostBounds>>

\* reconcileNode's last resort, under lockLegacyReconciliation.
Ordinary ==
    /\ Agent({"target"}) /\ Target = "ordinary" /\ ~Locked
    /\ hbKernel' = IF Fenced THEN hbKernel ELSE BootstrapKernel
    /\ NextTarget
    /\ UNCHANGED <<hostControl, hbFiles, hbService, hostBounds>>

Admissible ==
    IF Target = "withdrawal" THEN hbInventory.other = "retiring" ELSE hbInventory.own

\* Mutant: a journal file of an earlier boot refuses live admission too.
AdmitSameBoot ==
    /\ Agent({"target"}) /\ Target # "ordinary" /\ ~Locked
    /\ IF /\ Admissible /\ admitReleasedReceiveCheckpoints(hbInventory)
          /\ hbFiles.journal # <<>> => hbFiles.journal[1].boot = hbBoot
       THEN hbAgent' = [hbAgent EXCEPT !.n = hbJournal, !.inv = hbInventory,
                            !.at = IF hbInventory.other = "retiring" THEN "fence" ELSE "journal"]
       ELSE NextTarget
    /\ UNCHANGED <<hostControl, hbFiles, hbKernel, hbService, hostBounds>>

\* The lock, then loadReceiveSet or loadReceiveRetirement, then the
\* comparison with the saved inventory.
AdmitSet ==
    /\ Agent({"target"}) /\ Target # "ordinary" /\ ~Locked
    /\ IF Admissible /\ admitReleasedReceiveCheckpoints(hbInventory)
       THEN hbAgent' = [hbAgent EXCEPT !.n = hbJournal, !.inv = hbInventory,
                            !.at = IF hbInventory.other = "retiring" THEN "fence" ELSE "journal"]
       ELSE NextTarget
    /\ UNCHANGED <<hostControl, hbFiles, hbKernel, hbService, hostBounds>>

Unchanged == hbJournal = hbAgent.n /\ hbInventory = hbAgent.inv

\* Mutant: cleanup without the durable inventory.
FenceNothing ==
    /\ Agent({"fence"})
    /\ IF Unchanged THEN To("fenced") ELSE NextTarget
    /\ UNCHANGED <<hostControl, hbFiles, hbKernel, hbService, hostBounds>>

\* checkpointReceiveRetirementWithReleasedLocked writes the inventory first,
\* so that the old serving state cannot be restored.
FenceRetirement ==
    /\ Agent({"fence"})
    /\ IF Unchanged
       THEN hbFiles' = [hbFiles EXCEPT !.inventory = InventoryFile(hbAgent.inv)] /\ To("fenced")
       ELSE NextTarget /\ UNCHANGED hbFiles
    /\ UNCHANGED <<hostControl, hbKernel, hbService, hostBounds>>

\* ... then the histories this host takes part in.
FenceJournals ==
    /\ Agent({"fenced"})
    /\ hbFiles' = IF hbAgent.inv.own
                  THEN [hbFiles EXCEPT !.journal = JournalFile(hbAgent.n)] ELSE hbFiles
    /\ To(IF Target = "phase" THEN "journal" ELSE "saved")
    /\ UNCHANGED <<hostControl, hbKernel, hbService, hostBounds>>

\* The journal file is written from a fresh read, before the comparison with
\* the admitted set.
checkpointReceiveJournalLocked ==
    /\ Agent({"journal"})
    /\ hbFiles' = [hbFiles EXCEPT !.journal = JournalFile(hbJournal)]
    /\ IF hbJournal = hbAgent.n THEN To("inventory") ELSE NextTarget
    /\ UNCHANGED <<hostControl, hbKernel, hbService, hostBounds>>

checkpointReceiveSetLocked ==
    /\ Agent({"inventory"})
    /\ hbFiles' = [hbFiles EXCEPT !.inventory = InventoryFile(hbAgent.inv)]
    /\ To("saved")
    /\ UNCHANGED <<hostControl, hbKernel, hbService, hostBounds>>

\* recheckReceiveSet before, loadReceiveSet and sameReceiveSet after the
\* native work.
Recheck ==
    /\ Agent({"saved", "worked"})
    /\ IF Unchanged THEN To(IF hbAgent.at = "saved" THEN "native" ELSE "report") ELSE NextTarget
    /\ UNCHANGED <<hostControl, hbFiles, hbKernel, hbService, hostBounds>>

\* maintainCompletedReceivePhase: restore the selected transport, verify it.
Maintain ==
    /\ Agent({"native"}) /\ Target = "phase" /\ Finished(hbAgent.n)
    /\ \/ restoreCompletedReceiveState(hbAgent.n, hbAgent.inv) /\ UNCHANGED hbAgent
       \/ Serves(Selected(hbAgent.n)) /\ To("worked") /\ UNCHANGED hbKernel
       \/ Unanswered /\ NextTarget /\ UNCHANGED hbKernel
    /\ UNCHANGED <<hostControl, hbFiles, hbService, hostBounds>>

\* An unfinished phase never restores what a boot lost: it verifies the
\* generation it starts from, and only the switch selects another one.
ExecutePhase ==
    /\ Agent({"native"}) /\ Target = "phase" /\ ~Finished(hbAgent.n)
    /\ IF hbKernel.stage = 3 /\ hbKernel.gen \in Accepted(hbAgent.n)
       THEN hbKernel' = [hbKernel EXCEPT !.gen = Selected(hbAgent.n)] /\ To("worked")
       ELSE NextTarget /\ UNCHANGED hbKernel
    /\ UNCHANGED <<hostControl, hbFiles, hbService, hostBounds>>

\* retireAdmittedCloudNeighborLocked.
CleanWithdrawn ==
    /\ Agent({"native"}) /\ Target = "withdrawal"
    /\ hbKernel' = [hbKernel EXCEPT !.other = FALSE]
    /\ To("worked")
    /\ UNCHANGED <<hostControl, hbFiles, hbService, hostBounds>>

\* checkpointReceiveNativeObservation: only over the exact inventory file.
ObserveNative ==
    /\ Agent({"report"}) /\ Target = "phase" /\ Finished(hbAgent.n)
    /\ IF hbFiles.inventory = InventoryFile(hbAgent.inv)
       THEN /\ hbFiles' = [hbFiles EXCEPT
                   !.observation = <<[n |-> hbAgent.n, inv |-> hbAgent.inv, boot |-> hbBoot]>>,
                   !.hints = FALSE]
            /\ To("hints")
       ELSE NextTarget /\ UNCHANGED hbFiles
    /\ UNCHANGED <<hostControl, hbKernel, hbService, hostBounds>>

writeReceiveBootEndpoints ==
    /\ Agent({"hints"})
    /\ hbFiles' = [hbFiles EXCEPT !.hints = TRUE]
    /\ NextTarget
    /\ UNCHANGED <<hostControl, hbKernel, hbService, hostBounds>>

\* Receipts of a phase or of a withdrawal; delivery is immediate.
SubmitReceipt ==
    /\ Agent({"report"})
    /\ \/ /\ Target = "phase" /\ ~Finished(hbAgent.n)
          /\ hbReceipt' = hbAgent.n /\ UNCHANGED hbCleaned
       \/ Target = "withdrawal" /\ hbCleaned' = TRUE /\ UNCHANGED hbReceipt
    /\ NextTarget
    /\ UNCHANGED <<hbJournal, hbInventory, hbFiles, hbKernel, hbService, hostBounds>>

AgentStep ==
    \/ Discover \/ Ordinary \/ AdmitSet \/ FenceRetirement \/ FenceJournals
    \/ checkpointReceiveJournalLocked \/ checkpointReceiveSetLocked
    \/ Recheck \/ Maintain \/ ExecutePhase \/ CleanWithdrawn
    \/ ObserveNative \/ writeReceiveBootEndpoints \/ SubmitReceipt

-----------------------------------------------------------------------------
(* The host service: no API client and no receipts.                         *)

\* No inventory file and no other checkpoint: the bootstrap peers file.
BootstrapHost ==
    /\ ~Locked /\ ~Fenced /\ ~Serves(0)
    /\ hbKernel' = BootstrapKernel
    /\ UNCHANGED <<hostControl, hbFiles, hbAgent, hbService, hostBounds>>

\* A pass over a host that already serves changes nothing and is left out.
admitReceiveBoot ==
    /\ ~Locked /\ Recoverable /\ ~Serves(Selected(hbFiles.journal[1].n))
    /\ hbService' = TRUE
    /\ UNCHANGED <<hostControl, hbFiles, hbKernel, hbAgent, hostBounds>>

\* Mutant: a hint only refreshes an endpoint that is already set.
RefreshableEndpoint == hbFiles.hints /\ hbKernel.endpoint = "hint"

\* Hints bound to this observation, for a peer that has not been heard of
\* since the boot.
HintedEndpoint == hbFiles.hints /\ hbKernel.endpoint = "none"

\* The remembered endpoint lets this host speak first.
restoreReceiveBootEndpoints ==
    /\ HintedEndpoint
    /\ hbKernel' = [hbKernel EXCEPT !.endpoint = "hint"]

recoverReceiveBoot ==
    /\ hbService
    /\ \/ /\ restoreCompletedReceiveState(hbFiles.journal[1].n, hbFiles.inventory[1].inv)
          /\ UNCHANGED hbService
       \/ Unanswered /\ restoreReceiveBootEndpoints /\ UNCHANGED hbService
       \/ /\ Unanswered /\ ~HintedEndpoint
          /\ hbService' = FALSE /\ UNCHANGED hbKernel
       \/ hbKernel.stage = 3 /\ hbService' = FALSE /\ UNCHANGED hbKernel
    /\ UNCHANGED <<hostControl, hbFiles, hbAgent, hostBounds>>

ServiceStep == BootstrapHost \/ admitReceiveBoot \/ recoverReceiveBoot

-----------------------------------------------------------------------------
(* The controller, the peers and faults.                                    *)

\* A journal is created once the host reported its native bootstrap state.
Reserve ==
    /\ ~hbInventory.own /\ hbOnline /\ Serves(0)
    /\ hbInventory' = [hbInventory EXCEPT !.own = TRUE]
    /\ hbJournal' = 1
    /\ UNCHANGED <<hbReceipt, hbCleaned, hbFiles, hbKernel, hbAgent, hbService, hostBounds>>

\* A phase advances on this host's receipt; a successor needs no receipt.
Commit ==
    /\ hbInventory.own /\ hbJournal < MaxJournal
    /\ Finished(hbJournal) \/ hbReceipt = hbJournal
    /\ hbJournal' = hbJournal + 1
    /\ UNCHANGED <<hbInventory, hbReceipt, hbCleaned, hbFiles, hbKernel, hbAgent, hbService, hostBounds>>

Withdrawal ==
    /\ \/ hbInventory.other = "serving" /\ hbInventory' = [hbInventory EXCEPT !.other = "retiring"]
       \/ /\ hbInventory.other = "retiring" /\ hbCleaned
          /\ hbInventory' = [hbInventory EXCEPT !.other = "released"]
    /\ UNCHANGED <<hbJournal, hbReceipt, hbCleaned, hbFiles, hbKernel, hbAgent, hbService, hostBounds>>

\* A site node dials in, or answers this host's first packet.
Handshake(from) ==
    /\ hbKernel.stage > 0 /\ hbKernel.endpoint \in from
    /\ hbKernel' = [hbKernel EXCEPT !.endpoint = "live"]
    /\ UNCHANGED <<hostControl, hbFiles, hbAgent, hbService, hostBounds>>

\* A crash of either process, or an API error, ends its pass.
EndPass ==
    /\ hbBoot + hbStops < MaxHostFault /\ hbStops' = hbStops + 1
    /\ \/ hbAgent.at # "rest" /\ hbAgent' = Resting /\ UNCHANGED hbService
       \/ hbService /\ hbService' = FALSE /\ UNCHANGED hbAgent
    /\ UNCHANGED <<hostControl, hbFiles, hbKernel, hbBoot, hbOnline, hbOutages>>

\* The agent's pass fails at its next call; the host service goes on.
Outage ==
    /\ \/ hbOnline /\ hbOutages < MaxOutage /\ hbOutages' = hbOutages + 1
       \/ ~hbOnline /\ UNCHANGED hbOutages
    /\ hbOnline' = ~hbOnline
    /\ hbAgent' = Resting
    /\ UNCHANGED <<hostControl, hbFiles, hbKernel, hbService, hbBoot, hbStops>>

HostLoss ==
    /\ hbBoot + hbStops < MaxHostFault /\ hbBoot' = hbBoot + 1
    /\ hbKernel' = Lost
    /\ hbAgent' = Resting /\ hbService' = FALSE
    /\ UNCHANGED <<hostControl, hbFiles, hbOnline, hbStops, hbOutages>>

HostInit ==
    /\ hbJournal = 0 /\ hbReceipt = 0 /\ hbCleaned = FALSE
    /\ hbInventory \in [own : {FALSE}, other : {"serving", "past"}]
    /\ hbFiles = NoFiles /\ hbKernel = Lost
    /\ hbBoot = 0 /\ hbOnline = TRUE /\ hbStops = 0 /\ hbOutages = 0
    /\ hbAgent = Resting /\ hbService = FALSE

HostNext ==
    \/ AgentStep \/ ServiceStep
    \/ Reserve \/ Commit \/ Withdrawal
    \/ Handshake({"none"}) \/ Handshake({"hint"})
    \/ EndPass \/ Outage \/ HostLoss

\* Both processes loop on an interval, and a peer whose endpoint is known
\* answers; nothing promises that a peer dials in, that the API server
\* returns or that a journal advances.
HostFairness ==
    /\ WF_hostVars(AgentStep) /\ WF_hostVars(ServiceStep)
    /\ WF_hostVars(Handshake({"hint"}))

HostSpec == HostInit /\ [][HostNext]_hostVars /\ HostFairness

-----------------------------------------------------------------------------
(* Properties.                                                              *)

\* Neither process, no boot and no stale file brings back what the host has
\* left behind: the kernel is on a generation the journal still accepts, and a
\* peer whose withdrawal this host acknowledged stays out, of maintenance, of
\* boot recovery and of the bootstrap file.
NothingStaleRestored ==
    /\ hbKernel.stage > 0 => hbKernel.gen \in Accepted(hbJournal)
    /\ hbCleaned => ~hbKernel.other

\* While the API server stays reachable, a host whose handover is finished
\* ends up serving it, or waits only for a first packet.
HostServes ==
    (<>[]hbOnline) =>
        <>[](Finished(hbJournal) => Serves(Selected(hbJournal)) \/ Unanswered)

\* Without the API server, a host with complete recovery files and endpoint
\* hints serves again after a boot.
OfflineRecovers ==
    []<>(\/ hbOnline \/ ~Recoverable \/ ~hbFiles.hints
         \/ Serves(Selected(hbFiles.journal[1].n)))
=============================================================================
