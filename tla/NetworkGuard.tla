---------------------------- MODULE NetworkGuard ----------------------------
(***************************************************************************)
(* The node-local rollback watchdog of controller/pkg/networkguard: one    *)
(* transaction directory, the watch service that installs, applies, arms,  *)
(* commits or restores the captured configuration, the approve command     *)
(* that races it without a lock, the boot clock, crashes of the service    *)
(* and reboots of the host.  File contents are reduced to which of the two *)
(* captured byte strings they hold, or neither.  Tokens, digests and the   *)
(* pinned commands' hashes are exact in every behaviour: a caller without  *)
(* the token, or a changed command, only gets an error return.             *)
(***************************************************************************)
EXTENDS Naturals

CONSTANTS
    NFiles,         \* files of the plan, written in order 1 .. NFiles
    Within,         \* Prepare's deadline, in ticks of the boot clock
    MaxUptime,      \* bound: last tick of one boot
    MaxBoots,       \* bound: boots of the host
    MaxExits,       \* bound: exits of the watch service that change nothing
    MaxFailures     \* bound: failing writes and commands

ASSUME NFilesAssumption == NFiles \in Nat \ {0}
ASSUME WithinAssumption == Within \in Nat \ {0}
ASSUME BoundsAssumption ==
    /\ MaxUptime \in Nat
    /\ MaxBoots \in Nat
    /\ MaxExits \in Nat
    /\ MaxFailures \in Nat

VARIABLES
    state,      \* state.json
    files,      \* what each owned file holds
    net,        \* the configuration in force, as the commands left it
    commit,     \* commit.json: the BootID it names, 0 when absent
    boot,       \* boot_id of the host
    uptime,     \* /proc/uptime
    pc,         \* control point of Watch
    idx,        \* index of the file Watch writes next
    approver,   \* control point of the approve command
    applied,    \* ghost: runs of the apply command
    exits,      \* bounded: service exits
    failures    \* bounded: failed writes and commands

disk == <<state, files, net, commit>>
watch == <<pc, idx>>
vars == <<state, files, net, commit, boot, uptime, pc, idx, approver, applied,
          exits, failures>>

File == 1 .. NFiles
Outcome == {"prepared", "applying", "armed", "committed", "restoring",
            "restore-failed", "rolled-back"}
Settled == {"committed", "rolled-back"}
State == [outcome : Outcome, boot : Nat, deadline : Nat, applyFailures : Nat,
          restoreAttempts : Nat, restoreFailures : Nat]

Before == [f \in File |-> "before"]
Candidate == [f \in File |-> "candidate"]

\* Prepare: capture both versions, fix boot and deadline, save.
Init ==
    /\ boot = 1
    /\ uptime = 0
    /\ state = [outcome |-> "prepared", boot |-> boot,
                deadline |-> uptime + Within, applyFailures |-> 0,
                restoreAttempts |-> 0, restoreFailures |-> 0]
    /\ files = Before
    /\ net = "before"
    /\ commit = 0
    /\ pc = "down"
    /\ idx = 1
    /\ approver = "idle"
    /\ applied = 0
    /\ exits = 0
    /\ failures = 0

expired == boot # state.boot \/ uptime >= state.deadline

\* Mutant of checkFiles: restoration compares nothing.
checkFilesLax(candidateOnly) ==
    ~candidateOnly \/ \A f \in File : files[f] = "candidate"

\* checkFiles(s, candidateOnly)
checkFiles(candidateOnly) ==
    \A f \in File : files[f] = "candidate" \/ (~candidateOnly /\ files[f] = "before")

Goto(label) == pc' = label
Fails == failures < MaxFailures /\ failures' = failures + 1

-----------------------------------------------------------------------------
(* attemptRestore and restore                                              *)

\* attemptRestore up to its first save; s is the in-memory state so far.
BeginRestore(s) ==
    /\ state' = [s EXCEPT !.outcome = "restoring", !.restoreAttempts = @ + 1]
    /\ pc' = "restore"
    /\ idx' = 1

\* The fail closure of Watch: record the failure, then restore.
ApplyFail == BeginRestore([state EXCEPT !.applyFailures = @ + 1])

\* restore returned an error: record it and exit nonzero.
RestoreFailed ==
    /\ state' = [state EXCEPT !.outcome = "restore-failed",
                              !.restoreFailures = @ + 1]
    /\ Goto("down")

\* restore's checkFiles accepts only the two captured versions.
RestoreCheck ==
    /\ pc = "restore"
    /\ IF checkFiles(FALSE)
       THEN Goto("writeBefore") /\ UNCHANGED <<state, failures>>
       ELSE RestoreFailed /\ Fails
    /\ UNCHANGED <<files, net, commit, boot, uptime, idx, approver, applied, exits>>

WriteBefore ==
    /\ pc = "writeBefore"
    /\ idx \in File
    /\ files' = [files EXCEPT ![idx] = "before"]
    /\ idx' = idx + 1
    /\ UNCHANGED <<state, net, commit, boot, uptime, pc, approver, applied, exits, failures>>

\* atomicWrite fails before or after its rename.
WriteBeforeFails ==
    /\ pc = "writeBefore"
    /\ idx \in File
    /\ Fails
    /\ files' \in {files, [files EXCEPT ![idx] = "before"]}
    /\ RestoreFailed
    /\ UNCHANGED <<net, commit, boot, uptime, idx, approver, applied, exits>>

\* Mutant of RunRestore: the command's error is ignored.
RunRestoreIgnoresError ==
    /\ pc = "writeBefore"
    /\ idx = NFiles + 1
    /\ net' \in {"before", "mixed"}
    /\ Goto("restored")
    /\ UNCHANGED <<state, files, commit, boot, uptime, idx, approver, applied, exits, failures>>

RunRestore ==
    /\ pc = "writeBefore"
    /\ idx = NFiles + 1
    /\ \/ net' = "before" /\ Goto("restored") /\ UNCHANGED <<state, failures>>
       \/ net' \in {net, "before", "mixed"} /\ RestoreFailed /\ Fails
    /\ UNCHANGED <<files, commit, boot, uptime, idx, approver, applied, exits>>

SaveRolledBack ==
    /\ pc = "restored"
    /\ state' = [state EXCEPT !.outcome = "rolled-back"]
    /\ Goto("down")
    /\ UNCHANGED <<files, net, commit, boot, uptime, idx, approver, applied, exits, failures>>

-----------------------------------------------------------------------------
(* Watch                                                                   *)

\* Mutant of WatchRestores: an interrupted application is nobody's case.
WatchRestoresForgetsApplying ==
    /\ pc = "down"
    /\ state.outcome \notin Settled \cup {"applying"}
    /\ expired \/ state.outcome \in {"restoring", "restore-failed"}
    /\ BeginRestore(state)
    /\ UNCHANGED <<files, net, commit, boot, uptime, approver, applied, exits, failures>>

\* Entry with an interrupted application, an expired deadline or an
\* unfinished restoration: restore at once, never replay.
WatchRestores ==
    /\ pc = "down"
    /\ state.outcome \notin Settled
    /\ \/ state.outcome = "applying" /\ ApplyFail
       \/ /\ state.outcome # "applying"
          /\ expired \/ state.outcome \in {"restoring", "restore-failed"}
          /\ BeginRestore(state)
    /\ UNCHANGED <<files, net, commit, boot, uptime, approver, applied, exits, failures>>


\* Entry with a fresh transaction: every file must hold its original.
WatchApplies ==
    /\ pc = "down"
    /\ state.outcome = "prepared"
    /\ ~expired
    /\ files = Before
    /\ state' = [state EXCEPT !.outcome = "applying"]
    /\ Goto("writeCandidate")
    /\ idx' = 1
    /\ UNCHANGED <<files, net, commit, boot, uptime, approver, applied, exits, failures>>

\* Entry with an armed transaction after a restart: the candidate must be
\* intact, then Watch goes through the clock check to arm again.
WatchResumes ==
    /\ pc = "down"
    /\ state.outcome = "armed"
    /\ ~expired
    /\ checkFiles(TRUE)
    /\ Goto("arm")
    /\ UNCHANGED <<disk, boot, uptime, idx, approver, applied, exits, failures>>

\* Entry refused: the files are neither the originals nor the candidate.
WatchRefuses ==
    /\ pc = "down"
    /\ ~expired
    /\ \/ state.outcome = "prepared" /\ files # Before
       \/ state.outcome = "armed" /\ ~checkFiles(TRUE)
    /\ exits < MaxExits
    /\ exits' = exits + 1
    /\ UNCHANGED <<disk, boot, uptime, watch, approver, applied, failures>>

WriteCandidate ==
    /\ pc = "writeCandidate"
    /\ idx \in File
    /\ files' = [files EXCEPT ![idx] = "candidate"]
    /\ idx' = idx + 1
    /\ UNCHANGED <<state, net, commit, boot, uptime, pc, approver, applied, exits, failures>>

WriteCandidateFails ==
    /\ pc = "writeCandidate"
    /\ idx \in File
    /\ Fails
    /\ files' \in {files, [files EXCEPT ![idx] = "candidate"]}
    /\ ApplyFail
    /\ UNCHANGED <<net, commit, boot, uptime, approver, applied, exits>>

\* The clock is read again before the command runs.
ApplyClock ==
    /\ pc = "writeCandidate"
    /\ idx = NFiles + 1
    /\ IF expired
       THEN ApplyFail
       ELSE Goto("apply") /\ UNCHANGED <<state, idx>>
    /\ UNCHANGED <<files, net, commit, boot, uptime, approver, applied, exits, failures>>

\* runCommand(apply): killed at the deadline, its effect unknown on error.
RunApply ==
    /\ pc = "apply"
    /\ applied' = applied + 1
    /\ \/ /\ ~expired
          /\ net' = "candidate"
          /\ Goto("applied")
          /\ UNCHANGED <<state, idx, failures>>
       \/ /\ expired \/ failures < MaxFailures
          /\ failures' = IF expired THEN failures ELSE failures + 1
          /\ net' \in {net, "candidate", "mixed"}
          /\ ApplyFail
    /\ UNCHANGED <<files, commit, boot, uptime, approver, exits>>

\* checkFiles(s, true) after the command.
ApplyCheck ==
    /\ pc = "applied"
    /\ IF checkFiles(TRUE)
       THEN Goto("arm") /\ UNCHANGED <<state, idx>>
       ELSE ApplyFail
    /\ UNCHANGED <<files, net, commit, boot, uptime, approver, applied, exits, failures>>

\* The clock check before arming.
ArmClock ==
    /\ pc = "arm"
    /\ IF expired
       THEN BeginRestore(state)
       ELSE Goto("armSave") /\ UNCHANGED <<state, idx>>
    /\ UNCHANGED <<files, net, commit, boot, uptime, approver, applied, exits, failures>>

ArmSave ==
    /\ pc = "armSave"
    /\ state' = [state EXCEPT !.outcome = "armed"]
    /\ Goto("poll")
    /\ UNCHANGED <<files, net, commit, boot, uptime, idx, approver, applied, exits, failures>>

\* One turn of the loop: the deadline first, then commit.json.
Poll ==
    /\ pc = "poll"
    /\ \/ expired /\ BeginRestore(state) /\ UNCHANGED exits
       \/ /\ ~expired
          /\ commit = state.boot
          /\ IF checkFiles(TRUE)
             THEN Goto("commitClock") /\ UNCHANGED exits
             ELSE Goto("down") /\ exits < MaxExits /\ exits' = exits + 1
          /\ UNCHANGED <<state, idx>>
    /\ UNCHANGED <<files, net, commit, boot, uptime, approver, applied, failures>>

\* "Recheck after filesystem observations: approval cannot extend the deadline."
CommitClock ==
    /\ pc = "commitClock"
    /\ Goto(IF expired THEN "poll" ELSE "commitSave")
    /\ UNCHANGED <<disk, boot, uptime, idx, approver, applied, exits, failures>>

CommitSave ==
    /\ pc = "commitSave"
    /\ state' = [state EXCEPT !.outcome = "committed"]
    /\ Goto("down")
    /\ UNCHANGED <<files, net, commit, boot, uptime, idx, approver, applied, exits, failures>>

Watch ==
    \/ WatchRestores \/ WatchApplies \/ WatchResumes \/ WatchRefuses
    \/ WriteCandidate \/ WriteCandidateFails \/ ApplyClock \/ RunApply \/ ApplyCheck
    \/ ArmClock \/ ArmSave \/ Poll \/ CommitClock \/ CommitSave
    \/ RestoreCheck \/ WriteBefore \/ WriteBeforeFails \/ RunRestore \/ SaveRolledBack

-----------------------------------------------------------------------------
(* The approve command                                                     *)

\* Approve up to its file check.
ApproveChecks ==
    /\ approver = "idle"
    /\ state.outcome = "armed"
    /\ ~expired
    /\ checkFiles(TRUE)
    /\ approver' = "write"
    /\ UNCHANGED <<disk, boot, uptime, watch, applied, exits, failures>>

\* Approve writes commit.json, however late.
ApproveWrites ==
    /\ approver = "write"
    /\ commit' = boot
    /\ approver' = "wait"
    /\ UNCHANGED <<state, files, net, boot, uptime, watch, applied, exits, failures>>

\* The command's loop over Load: committed, rolled back, or given up waiting.
ApproveReturns ==
    /\ approver = "wait"
    /\ approver' = IF state.outcome \in Settled THEN state.outcome ELSE "idle"
    /\ UNCHANGED <<disk, boot, uptime, watch, applied, exits, failures>>

Approve == ApproveChecks \/ ApproveWrites \/ ApproveReturns

-----------------------------------------------------------------------------
(* Environment                                                             *)

Tick ==
    /\ uptime < MaxUptime
    /\ uptime' = uptime + 1
    /\ UNCHANGED <<disk, boot, watch, approver, applied, exits, failures>>

\* The service dies or a save fails; KillMode=control-group takes the command.
Crash ==
    /\ pc # "down"
    /\ exits < MaxExits
    /\ exits' = exits + 1
    /\ Goto("down")
    /\ net' \in IF pc = "apply" THEN {net, "candidate", "mixed"} ELSE {net}
    /\ applied' = IF pc = "apply" THEN applied + 1 ELSE applied
    /\ UNCHANGED <<state, files, commit, boot, uptime, idx, approver, failures>>

\* A reboot starts the host from what the files hold.
Reboot ==
    /\ boot < MaxBoots
    /\ boot' = boot + 1
    /\ uptime' = 0
    /\ Goto("down")
    /\ approver' = IF approver \in Settled THEN approver ELSE "idle"
    /\ net' = IF files = Before THEN "before"
              ELSE IF files = Candidate THEN "candidate" ELSE "mixed"
    /\ applied' = IF pc = "apply" THEN applied + 1 ELSE applied
    /\ UNCHANGED <<state, files, commit, idx, exits, failures>>

\* Software that ignores the transaction's ownership of a file.  Digests are
\* compared once before each round of writes: a write between that comparison
\* and the guard's own write is beyond what the guard can see ("digest checks
\* cannot lock out software that ignores the transaction", docs).
ForeignWrite ==
    /\ pc \notin {"writeCandidate", "writeBefore", "restored", "commitClock", "commitSave"}
    /\ state.outcome \notin Settled
    /\ failures < MaxFailures
    /\ failures' = failures + 1
    /\ \E f \in File : files' = [files EXCEPT ![f] = "foreign"]
    /\ UNCHANGED <<state, net, commit, boot, uptime, watch, approver, applied, exits>>

Next == Watch \/ Approve \/ Tick \/ Crash \/ Reboot \/ ForeignWrite

Spec == Init /\ [][Next]_vars

\* systemd restarts the service (Restart=on-failure, StartLimitIntervalSec=0)
\* and time passes; nobody has to approve.
FairSpec == Spec /\ WF_vars(Watch) /\ WF_vars(Tick)

-----------------------------------------------------------------------------
(* Properties                                                              *)

\* Every variable keeps its type.
TypeOK ==
    /\ state \in State
    /\ files \in [File -> {"before", "candidate", "foreign"}]
    /\ net \in {"before", "candidate", "mixed"}
    /\ commit \in Nat
    /\ boot \in Nat
    /\ uptime \in Nat
    /\ pc \in {"down", "restore", "writeBefore", "restored", "writeCandidate",
               "apply", "applied", "arm", "armSave", "poll", "commitClock", "commitSave"}
    /\ idx \in 1 .. NFiles + 1
    /\ approver \in {"idle", "write", "wait"} \cup Settled
    /\ applied \in Nat
    /\ exits \in Nat
    /\ failures \in Nat

\* A committed transaction left exactly the candidate in force: every file
\* holds the candidate, the apply command's effect was not undone, and no
\* application failure or restoration attempt ever happened on the way
\* (Watch commits only what it armed; "application failures ... prevent
\* approval", docs/network-guard.md).
CommittedIsCandidate ==
    state.outcome = "committed" =>
        /\ files = Candidate
        /\ net = "candidate"
        /\ state.applyFailures = 0
        /\ state.restoreAttempts = 0

\* A rolled-back transaction left exactly the originals in force, whatever
\* crashes, reboots and failed restorations came before (attemptRestore saves
\* rolled-back only after restore wrote every file and ran the command).
RolledBackIsBefore ==
    state.outcome = "rolled-back" => files = Before /\ net = "before"

\* What a settled outcome says is in force, whole: nothing of the other version
\* survives in a file or in the live network after committed or rolled-back.
SettledExactly == CommittedIsCandidate /\ RolledBackIsBefore

\* The candidate is applied at most once in a transaction's life: a restart
\* during application restores instead of replaying (Watch on "applying").
NoReplay == applied <= 1

\* Another owner's bytes are never overwritten, and a transaction that met
\* them never claims to have settled: every later attempt to arm, commit or
\* restore stops at its digest comparison ("Changed files or command hashes
\* stop restoration rather than overwrite another owner's work", docs).
ForeignPreserved ==
    [][\A f \in File : files[f] = "foreign" =>
          files'[f] = "foreign" /\ state'.outcome \notin Settled]_vars

\* commit.json alone never disarms the guard: what approve reports as
\* committed is committed on disk, and what it reports as rolled back stays so
\* (the wait loop of the approve command).
ApproveReportsOutcome == approver \in Settled => state.outcome = approver

\* A settled transaction never changes again: no late approval, restart or
\* reboot reopens it, rewrites a file or alters the deadline.
SettledIsFinal ==
    [][state.outcome \in Settled => UNCHANGED <<state, files>>]_vars

\* The guard commits only in the boot that prepared the transaction and only
\* with the candidate intact at the moment of the decision; restoration is
\* never abandoned for a commit.
CommitOnlyFromArmed ==
    [][state'.outcome = "committed" /\ state.outcome # "committed" =>
          /\ state.outcome = "armed"
          /\ boot = state.boot
          /\ commit = state.boot]_vars

\* The transaction has ended, or it met another owner's bytes.
Ended == state.outcome \in Settled \/ \E f \in File : files[f] = "foreign"

\* Without any approval or remote help the transaction settles, unless it met
\* another owner's bytes: it commits or every original is back (docs: "Failed
\* restoration exits nonzero so the host service retries without losing its
\* snapshot or extending the deadline").
EventuallySettled == []<>Ended
=============================================================================
