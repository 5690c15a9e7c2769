------------------------------ MODULE HostProofs ------------------------------
(***************************************************************************)
(* Safety of what runs on one host, for every value of its constants.  The *)
(* rollback watchdog: the inductive invariant ties the control point of    *)
(* Watch to the persisted outcome and to what the files hold, for any      *)
(* files, deadline and bounds.  The transit copy: it covers every route    *)
(* while the rules go, for any prefixes, families and relays.  The boot of *)
(* a receive host: it never serves a generation the control plane has      *)
(* left, nor a withdrawn gateway, whatever it restores after a loss, for   *)
(* any number of journals, losses and outages; the invariant orders the    *)
(* receipt, the checkpoint file and the journal, and says how far the pass *)
(* under the lock has come.                                                *)
(***************************************************************************)
EXTENDS NetworkGuard, TransitGuard, HostBoot, TLAPS

\* The provers of a step that names none.
USE ZenonT(30), SMTT(30)

-----------------------------------------------------------------------------
(* The rollback watchdog (NetworkGuard).                                    *)

Restoring == {"restore", "writeBefore", "restored"}
Applying == {"writeCandidate", "apply", "applied"}
Arming == {"arm", "armSave"}
Armed == {"poll", "commitClock", "commitSave"}

\* The persisted outcome at each control point of Watch.
PcOutcome ==
    /\ pc \in Restoring => state.outcome = "restoring"
    /\ pc \in Applying => state.outcome = "applying"
    /\ pc \in Arming => state.outcome \in {"applying", "armed"}
    /\ pc \in Armed => state.outcome = "armed"

\* Watch past its entry checks runs in the boot that prepared the transaction.
PcBoot ==
    /\ pc \in Applying \cup Arming \cup Armed => boot = state.boot
    /\ pc \in {"commitClock", "commitSave"} => commit = state.boot

\* The apply command has not run before its control point.
ApplyOnce ==
    /\ applied <= 1
    /\ state.outcome = "prepared" => applied = 0
    /\ pc \in {"writeCandidate", "apply"} => applied = 0

\* No failure or restoration lies behind an outcome that can still commit.
CleanSoFar ==
    state.outcome \in {"prepared", "applying", "armed", "committed"} =>
        state.applyFailures = 0 /\ state.restoreAttempts = 0

\* What the files and the network hold at each stage.  Between a digest
\* comparison and the write that relies on it no other owner writes; anywhere
\* else a file may be foreign.
Contents ==
    /\ state.boot <= boot
    /\ pc \in {"writeCandidate", "writeBefore"} => \A f \in File : files[f] # "foreign"
    /\ pc = "writeCandidate" => \A f \in File : f < idx => files[f] = "candidate"
    /\ pc \in {"applied"} \cup Arming => net = "candidate"
    /\ state.outcome = "armed" /\ boot = state.boot => net = "candidate"
    /\ pc \in {"commitClock", "commitSave"} => \A f \in File : files[f] = "candidate"
    /\ state.outcome = "committed" =>
          net = "candidate" /\ \A f \in File : files[f] = "candidate"
    /\ pc = "restore" => idx = 1
    /\ pc = "writeBefore" => \A f \in File : f < idx => files[f] = "before"
    /\ pc = "restored" \/ state.outcome = "rolled-back" =>
          net = "before" /\ \A f \in File : files[f] = "before"

IInv ==
    /\ TypeOK
    /\ PcOutcome
    /\ PcBoot
    /\ ApplyOnce
    /\ CleanSoFar
    /\ Contents
    /\ ApproveReportsOutcome

\* An assignment of one version to every file is that version's function.
LEMMA AllFiles ==
    ASSUME TypeOK
    PROVE  /\ (\A f \in File : files[f] = "before") <=> files = Before
           /\ (\A f \in File : files[f] = "candidate") <=> files = Candidate
BY DEF TypeOK, Before, Candidate

\* The prepared transaction satisfies the invariant (Prepare).
LEMMA InitIInv == Init => IInv
BY SMTT(30), NFilesAssumption, WithinAssumption
   DEF Init, IInv, TypeOK, PcOutcome, PcBoot, ApplyOnce, CleanSoFar, Contents,
       ApproveReportsOutcome, Restoring, Applying, Arming, Armed, Before, File,
       Outcome, Settled, State

\* Updating an outcome and one counter keeps a state record a state record.
LEMMA StateUpdate ==
    ASSUME NEW s \in State, NEW o \in Outcome, NEW n \in Nat
    PROVE  /\ [s EXCEPT !.outcome = o] \in State
           /\ [s EXCEPT !.applyFailures = n] \in State
           /\ [s EXCEPT !.outcome = o, !.restoreAttempts = n] \in State
           /\ [s EXCEPT !.outcome = o, !.restoreFailures = n] \in State
BY DEF State

\* A save that changes only the outcome.
LEMMA OutcomeSave ==
    ASSUME state \in State, NEW o \in Outcome, state' = [state EXCEPT !.outcome = o]
    PROVE  /\ state' \in State
           /\ state'.outcome = o
           /\ state'.boot = state.boot
           /\ state'.applyFailures = state.applyFailures
           /\ state'.restoreAttempts = state.restoreAttempts
BY DEF State

\* The save that opens attemptRestore, after Watch or its fail closure.
LEMMA BeginRestoreState ==
    ASSUME NEW s \in State, BeginRestore(s)
    PROVE  /\ state' \in State
           /\ state'.outcome = "restoring"
           /\ state'.boot = s.boot
           /\ pc' = "restore"
           /\ idx' = 1
<1> DEFINE n == s.restoreAttempts + 1
<1>1. n \in Nat BY SMTT(30) DEF State
<1>2. /\ state' = [s EXCEPT !.outcome = "restoring", !.restoreAttempts = n]
      /\ pc' = "restore" /\ idx' = 1
    BY DEF BeginRestore
<1> HIDE DEF n
<1>3. state' \in State BY <1>1, <1>2, StateUpdate DEF Outcome
<1> QED BY <1>1, <1>2, <1>3 DEF State

\* What a failed application leaves behind.
LEMMA ApplyFailState ==
    ASSUME state \in State, ApplyFail
    PROVE  /\ state' \in State
           /\ state'.outcome = "restoring"
           /\ state'.boot = state.boot
           /\ pc' = "restore"
           /\ idx' = 1
<1> DEFINE n == state.applyFailures + 1
           s == [state EXCEPT !.applyFailures = n]
<1>1. n \in Nat BY SMTT(30) DEF State
<1>2. BeginRestore(s) BY DEF ApplyFail
<1> HIDE DEF n
<1>3. s \in State /\ s.boot = state.boot BY <1>1 DEF State
<1> HIDE DEF s
<1> QED BY <1>2, <1>3, BeginRestoreState

\* The save that records a failed restoration.
LEMMA RestoreFailedState ==
    ASSUME state \in State, RestoreFailed
    PROVE  /\ state' \in State
           /\ state'.outcome = "restore-failed"
           /\ state'.boot = state.boot
           /\ pc' = "down"
<1> DEFINE n == state.restoreFailures + 1
<1>1. n \in Nat BY SMTT(30) DEF State
<1>2. /\ state' = [state EXCEPT !.outcome = "restore-failed", !.restoreFailures = n]
      /\ pc' = "down"
    BY DEF RestoreFailed, Goto
<1> HIDE DEF n
<1>3. state' \in State BY <1>1, <1>2, StateUpdate DEF Outcome
<1> QED BY <1>1, <1>2, <1>3 DEF State

\* Every step of the watchdog, of approve and of the host preserves it.
LEMMA NextIInv == IInv /\ [Next]_vars => IInv'
<1> SUFFICES ASSUME IInv, [Next]_vars PROVE IInv'
    OBVIOUS
<1> USE NFilesAssumption, WithinAssumption
<1> USE DEF IInv, TypeOK, PcOutcome, PcBoot, ApplyOnce, CleanSoFar, Contents,
            ApproveReportsOutcome, Restoring, Applying, Arming, Armed, File,
            Outcome, Settled, Goto, Fails, expired, checkFiles, disk, watch
<1>1. CASE WatchRestores BY SMTT(30), <1>1, BeginRestoreState, ApplyFailState DEF WatchRestores
<1>2. CASE WatchApplies BY SMTT(30), <1>2, OutcomeSave, AllFiles DEF WatchApplies
<1>3. CASE WatchResumes BY <1>3 DEF WatchResumes
<1>4. CASE WatchRefuses BY SMTT(30), <1>4 DEF WatchRefuses
<1>5. CASE WriteCandidate BY SMTT(30), <1>5 DEF WriteCandidate
<1>6. CASE WriteCandidateFails
  BY SMTT(30), <1>6, BeginRestoreState, ApplyFailState DEF WriteCandidateFails
<1>7. CASE ApplyClock BY SMTT(30), <1>7, BeginRestoreState, ApplyFailState DEF ApplyClock
<1>8. CASE RunApply BY SMTT(30), <1>8, BeginRestoreState, ApplyFailState DEF RunApply
<1>9. CASE ApplyCheck BY SMTT(30), <1>9, BeginRestoreState, ApplyFailState DEF ApplyCheck
<1>10. CASE ArmClock BY SMTT(30), <1>10, BeginRestoreState, ApplyFailState DEF ArmClock
<1>11. CASE ArmSave BY <1>11, OutcomeSave DEF ArmSave
<1>12. CASE Poll BY SMTT(30), <1>12, BeginRestoreState, ApplyFailState DEF Poll
<1>13. CASE CommitClock BY <1>13 DEF CommitClock
<1>14. CASE CommitSave BY <1>14, OutcomeSave DEF CommitSave
<1>15. CASE RestoreCheck BY SMTT(30), <1>15, RestoreFailedState DEF RestoreCheck
<1>16. CASE WriteBefore BY SMTT(30), <1>16 DEF WriteBefore
<1>17. CASE WriteBeforeFails BY SMTT(30), <1>17, RestoreFailedState DEF WriteBeforeFails
<1>18. CASE RunRestore BY SMTT(30), <1>18, RestoreFailedState DEF RunRestore
<1>19. CASE SaveRolledBack BY <1>19, OutcomeSave DEF SaveRolledBack
<1>20. CASE ApproveChecks BY <1>20 DEF ApproveChecks
<1>21. CASE ApproveWrites BY SMTT(30), <1>21 DEF ApproveWrites
<1>22. CASE ApproveReturns BY SMTT(30), <1>22 DEF ApproveReturns
<1>23. CASE Tick BY SMTT(30), <1>23 DEF Tick
<1>24. CASE Crash BY SMTT(30), <1>24 DEF Crash
<1>25. CASE Reboot
  <2>1. /\ (\A f \in File : files[f] = "before") <=> files = Before
        /\ (\A f \in File : files[f] = "candidate") <=> files = Candidate
        /\ Before # Candidate
      BY SMTT(30), AllFiles DEF Before, Candidate
  <2>2. /\ boot' \in Nat /\ boot' # state.boot /\ state.boot <= boot'
        /\ net' \in {"before", "candidate", "mixed"}
        /\ files = Before => net' = "before"
        /\ files = Candidate => net' = "candidate"
      BY SMTT(30), <1>25, <2>1 DEF Reboot, State
  <2> QED BY SMTT(30), <1>25, <2>1, <2>2 DEF Reboot
<1>26. CASE ForeignWrite BY SMTT(30), <1>26 DEF ForeignWrite
<1>27. CASE UNCHANGED vars BY SMTT(30), <1>27 DEF vars
<1>28. QED
    BY ZenonT(60), <1>1, <1>2, <1>3, <1>4, <1>5, <1>6, <1>7, <1>8, <1>9, <1>10, <1>11,
       <1>12, <1>13, <1>14, <1>15, <1>16, <1>17, <1>18, <1>19, <1>20, <1>21,
       <1>22, <1>23, <1>24, <1>25, <1>26, <1>27 DEF Next, Watch, Approve

\* The strengthened invariant holds in every reachable state.
LEMMA Invariance == Spec => []IInv
BY InitIInv, NextIInv, PTL DEF Spec

\* The watchdog's state is well typed for every plan and deadline.
THEOREM TypeCorrect == Spec => []TypeOK
<1>1. IInv => TypeOK BY DEF IInv
<1> QED BY <1>1, Invariance, PTL

\* Whatever a committed transaction went through, the candidate and nothing
\* else is in force and no failure lies behind it (Watch, attemptRestore).
THEOREM CommittedCorrect == Spec => []CommittedIsCandidate
<1>1. IInv => CommittedIsCandidate
    BY AllFiles DEF IInv, CommittedIsCandidate, Contents, CleanSoFar
<1> QED BY <1>1, Invariance, PTL

\* Whatever a rolled-back transaction went through, the originals are in force
\* (attemptRestore saves rolled-back only after restore succeeded).
THEOREM RolledBackCorrect == Spec => []RolledBackIsBefore
<1>1. IInv => RolledBackIsBefore
    BY AllFiles DEF IInv, RolledBackIsBefore, Contents
<1> QED BY <1>1, Invariance, PTL

\* A settled outcome is the version in force, for any number of files, reboots,
\* exits and failed commands.
THEOREM SettledCorrect == Spec => []SettledExactly
<1>1. CommittedIsCandidate /\ RolledBackIsBefore => SettledExactly BY DEF SettledExactly
<1> QED BY <1>1, CommittedCorrect, RolledBackCorrect, PTL

\* The apply command runs at most once per transaction, across any number of
\* service restarts and reboots (Watch on outcome "applying").
THEOREM ApplyNeverReplayed == Spec => []NoReplay
<1>1. IInv => NoReplay BY DEF IInv, ApplyOnce, NoReplay
<1> QED BY <1>1, Invariance, PTL

\* What approve reported is what the transaction became (the wait loop of the
\* approve command, which only reads).
THEOREM ApproveTruthful == Spec => []ApproveReportsOutcome
<1>1. IInv => ApproveReportsOutcome BY DEF IInv
<1> QED BY <1>1, Invariance, PTL

\* A settled transaction is never reopened (Watch returns at once, and no
\* control point past its entry is reachable with a settled outcome).
THEOREM SettledStays == Spec => SettledIsFinal
<1>1. IInv /\ [Next]_vars => [state.outcome \in Settled => UNCHANGED <<state, files>>]_vars
  <2> SUFFICES ASSUME IInv, Next, state.outcome \in Settled
               PROVE  UNCHANGED <<state, files>>
      OBVIOUS
  <2>1. pc = "down"
      BY DEF IInv, PcOutcome, TypeOK, Restoring, Applying, Arming, Armed, Settled
  <2> QED
      BY <2>1 DEF Next, Watch, Approve, WatchRestores, WatchApplies, WatchResumes,
         WatchRefuses, WriteCandidate, WriteCandidateFails, ApplyClock, RunApply,
         ApplyCheck, ArmClock, ArmSave, Poll, CommitClock, CommitSave, RestoreCheck,
         WriteBefore, WriteBeforeFails, RunRestore, SaveRolledBack, ApproveChecks,
         ApproveWrites, ApproveReturns, Tick, Crash, Reboot, ForeignWrite, disk, Settled
<1> QED BY <1>1, Invariance, PTL DEF Spec, SettledIsFinal

\* Another owner's bytes survive every step, and a transaction that met them
\* does not settle (checkFiles before each round of writes and each commit).
THEOREM ForeignStays == Spec => ForeignPreserved
<1> DEFINE Step == \A f \in File : files[f] = "foreign" =>
                      files'[f] = "foreign" /\ state'.outcome \notin Settled
<1>1. IInv /\ [Next]_vars => [Step]_vars
  <2> SUFFICES ASSUME IInv, Next, NEW f \in File, files[f] = "foreign"
               PROVE  files'[f] = "foreign" /\ state'.outcome \notin Settled
      BY DEF vars
  <2>1. /\ state \in State /\ files \in [File -> {"before", "candidate", "foreign"}]
        /\ state.outcome \notin Settled
        /\ pc \notin {"writeCandidate", "writeBefore", "restored", "commitSave"}
      BY SMTT(30) DEF IInv, TypeOK, Contents, Settled
  <2>2. files'[f] = "foreign"
      BY ZenonT(60), <2>1 DEF Next, Watch, Approve, WatchRestores, WatchApplies, WatchResumes,
         WatchRefuses, WriteCandidate, WriteCandidateFails, ApplyClock, RunApply,
         ApplyCheck, ArmClock, ArmSave, Poll, CommitClock, CommitSave, RestoreCheck,
         WriteBefore, WriteBeforeFails, RunRestore, SaveRolledBack, ApproveChecks,
         ApproveWrites, ApproveReturns, Tick, Crash, Reboot, ForeignWrite, disk
  <2>3. state'.outcome \notin Settled
    <3>1. CASE WatchRestores \/ ApplyClock \/ RunApply \/ ApplyCheck \/ ArmClock \/ Poll
                \/ RestoreCheck
        BY ZenonT(60), <2>1, <3>1, BeginRestoreState, ApplyFailState, RestoreFailedState
           DEF WatchRestores, ApplyClock, RunApply, ApplyCheck, ArmClock, Poll,
               RestoreCheck, Settled
    <3>2. CASE WatchApplies \/ ArmSave
        BY <2>1, <3>2, OutcomeSave DEF WatchApplies, ArmSave, Settled, Outcome
    <3>3. CASE UNCHANGED state
        BY <2>1, <3>3
    <3> QED
        BY ZenonT(60), <2>1, <3>1, <3>2, <3>3
           DEF Next, Watch, Approve, WatchResumes, WatchRefuses, WriteCandidate,
               WriteCandidateFails, CommitClock, CommitSave, WriteBefore, WriteBeforeFails,
               RunRestore, SaveRolledBack, ApproveChecks, ApproveWrites, ApproveReturns,
               Tick, Crash, Reboot, ForeignWrite, disk
  <2> QED BY <2>2, <2>3
<1> QED BY <1>1, Invariance, PTL DEF Spec, ForeignPreserved

\* A commit needs an armed transaction, the boot that prepared it and an
\* approval of that boot (Watch's loop; the recheck before the last save).
THEOREM CommitNeedsArming == Spec => CommitOnlyFromArmed
<1> DEFINE Step == state'.outcome = "committed" /\ state.outcome # "committed" =>
                      /\ state.outcome = "armed"
                      /\ boot = state.boot
                      /\ commit = state.boot
<1>1. IInv /\ [Next]_vars => [Step]_vars
  <2> SUFFICES ASSUME IInv, Next, state'.outcome = "committed", state.outcome # "committed"
               PROVE  CommitSave
      BY DEF vars, IInv, PcOutcome, PcBoot, Armed, CommitSave
  <2>1. state \in State BY DEF IInv, TypeOK
  <2>2. ~ (WatchRestores \/ WriteCandidateFails \/ ApplyClock \/ RunApply \/ ApplyCheck
           \/ ArmClock \/ Poll \/ RestoreCheck \/ WriteBeforeFails \/ RunRestore)
      BY ZenonT(60), <2>1, BeginRestoreState, ApplyFailState, RestoreFailedState
         DEF WatchRestores, WriteCandidateFails, ApplyClock, RunApply, ApplyCheck,
             ArmClock, Poll, RestoreCheck, WriteBeforeFails, RunRestore
  <2>3. ~ (WatchApplies \/ ArmSave \/ SaveRolledBack)
      BY <2>1, OutcomeSave DEF WatchApplies, ArmSave, SaveRolledBack, Outcome
  <2> QED
      BY ZenonT(60), <2>2, <2>3 DEF Next, Watch, Approve, WatchResumes, WatchRefuses,
         WriteCandidate, CommitClock, WriteBefore, ApproveChecks, ApproveWrites,
         ApproveReturns, Tick, Crash, Reboot, ForeignWrite, disk
<1> QED BY <1>1, Invariance, PTL DEF Spec, CommitOnlyFromArmed

-----------------------------------------------------------------------------
(* The transit copy (TransitGuard).                                         *)

TransitTypeOK ==
    /\ tgPlan \in [stage : {"absent", "torn", "saved"}, routes : [Prefix -> Relay \cup {NoRoute}]]
    /\ tgRules \in SUBSET Family
    /\ tgRoutes \in [Prefix -> Relay \cup {NoRoute}]
    /\ tgShadowRules \in [Family -> SUBSET {"ours", Foreign}]
    /\ tgShadow \in [Prefix -> Relay \cup {NoRoute, Foreign}]
    /\ tgRun \in [cmd : {"none", "install", "verify", "remove"},
                  pc : {"idle", "source", "occupied", "add", "undo", "shadow", "inspect", "delete"},
                  rules : SUBSET Family, routes : SUBSET Prefix]
    /\ tgAgent \in {"old", "stopping", "stopped", "new"}
    /\ tgEvidence \in BOOLEAN

\* The copy of every route of the source table is in place and looked up.
Whole ==
    /\ \A p \in Prefix : tgRoutes[p] # NoRoute => tgShadow[p] \in Relay
    /\ \A f \in Family : "ours" \in tgShadowRules[f]

\* What the commands and the agent may be doing: the copy is changed only while
\* the rules are in place, and evidence of it is void while it is.
TransitShape ==
    /\ tgRules = Family \/ Whole
    /\ tgAgent = "old" => tgRules = Family
    /\ tgAgent \in {"stopping", "stopped"} => Whole
    /\ tgAgent = "stopping" => tgRun = Idle
    /\ tgAgent = "stopped" => tgRules = {}
    /\ tgEvidence => Whole
    /\ tgRun # Idle => tgPlan.stage = "saved"
    /\ tgPlan.stage = "saved" =>
          \A p \in Prefix : tgPlan.routes[p] = NoRoute <=> tgRoutes[p] = NoRoute
    /\ tgRun.cmd \in {"install", "verify"} => tgAgent = "old"
    /\ tgRun.cmd = "install" /\ tgRun.pc \notin {"source", "occupied"} => ~tgEvidence
    /\ tgRun.cmd = "remove" => ~tgEvidence
    /\ tgRun.cmd = "remove" /\ tgRun.pc # "source" =>
          tgRules = Family /\ tgAgent \in {"old", "new"}

TransitInv == TransitTypeOK /\ TransitShape

USE ZenonT(30), SMTT(30)

\* There is a family to look up.
LEMMA SomeFamily == Family # {}
  BY TransitAssumption

LEMMA TransitStart == TransitInit => TransitInv
<1> SUFFICES ASSUME TransitInit PROVE TransitInv OBVIOUS
<1>1. TransitTypeOK
  BY TransitAssumption DEF TransitInit, TransitTypeOK, NoPlan, Idle, Empty
<1>2. TransitShape
  BY TransitAssumption DEF TransitInit, TransitShape, NoPlan, Idle
<1> QED BY <1>1, <1>2 DEF TransitInv

LEMMA TransitTyped == TransitTypeOK /\ [TransitNext]_transitVars => TransitTypeOK'
<1> SUFFICES ASSUME TransitTypeOK, [TransitNext]_transitVars PROVE TransitTypeOK' OBVIOUS
<1> USE TransitAssumption DEF TransitTypeOK, transitTables, Running, Continue, Fail
<1>1. CASE UNCHANGED transitVars BY SMTT(30), <1>1 DEF transitVars
<1>2. CASE Prepare BY SMTT(30), <1>2 DEF Prepare
<1>3. CASE StartInstall \/ StartRemove
  <2>1. CASE StartInstall BY SMTT(30), <2>1 DEF StartInstall, Start
  <2>2. CASE StartRemove
    <3>1. tgEvidence' \in BOOLEAN BY <2>2, Zenon DEF StartRemove
    <3> QED BY <2>2, <3>1 DEF StartRemove, Start
  <2> QED BY <1>3, <2>1, <2>2
<1>4. CASE Install
  <2>1. CASE InstallChecks \/ InstallRequiresEmpty \/ InstallVerifies \/ UndoEnds
    BY SMTT(30), <2>1 DEF InstallChecks, InstallRequiresEmpty, InstallVerifies, UndoEnds, Idle
  <2>2. ASSUME NEW p \in Prefix, AddRoute(p) \/ UndoRoute(p) PROVE TransitTypeOK'
    BY SMTT(30), <2>2 DEF AddRoute, UndoRoute, Planned
  <2>3. ASSUME NEW f \in Family, AddRule(f) \/ UndoRule(f) PROVE TransitTypeOK'
    BY SMTT(30), <2>3 DEF AddRule, UndoRule
  <2> QED BY <1>4, <2>1, <2>2, <2>3 DEF Install
<1>5. CASE Verify
  <2>1. tgEvidence' \in BOOLEAN BY <1>5, Zenon DEF Verify
  <2> QED BY SMTT(30), <1>5, <2>1 DEF Verify, Idle
<1>6. CASE Remove
  <2>1. CASE RemoveChecks \/ RemoveEnds
    BY SMTT(30), <2>1 DEF RemoveChecks, RemoveEnds, Idle
  <2>4. CASE RemoveInspects
    <3>0. UNCHANGED <<tgPlan, transitTables, tgAgent, tgEvidence>>
      BY <2>4, Zenon DEF RemoveInspects
    <3>1. CASE tgRun' = Idle BY <3>0, <3>1 DEF Idle
    <3>2. CASE tgRun' # Idle
      <4> DEFINE rules == {f \in Family : tgShadowRules[f] # {}}
                 routes == {p \in Prefix : tgShadow[p] # NoRoute}
      <4>1. tgRun' = [tgRun EXCEPT !.pc = "delete", !.rules = rules, !.routes = routes]
        BY <2>4, <3>2, Zenon DEF RemoveInspects
      <4>2. rules \in SUBSET Family /\ routes \in SUBSET Prefix OBVIOUS
      <4> HIDE DEF rules, routes
      <4> QED BY <3>0, <4>1, <4>2
    <3> QED BY <3>1, <3>2
  <2>2. ASSUME NEW p \in Prefix, DeleteRoute(p) PROVE TransitTypeOK'
    BY SMTT(30), <2>2 DEF DeleteRoute, Idle
  <2>3. ASSUME NEW f \in Family, DeleteRule(f) PROVE TransitTypeOK'
    BY SMTT(30), <2>3 DEF DeleteRule, Idle
  <2> QED BY <1>6, <2>1, <2>2, <2>3, <2>4 DEF Remove
<1>7. CASE Kill BY <1>7 DEF Kill, Idle
<1>8. CASE AgentReplaced BY SMTT(30), <1>8 DEF AgentReplaced
<1>9. CASE OthersWrite BY SMTT(30), <1>9 DEF OthersWrite
<1>10. ASSUME NEW p \in Prefix, NEW h \in Relay, AgentMoves(p, h) PROVE TransitTypeOK'
  BY SMTT(30), <1>10 DEF AgentMoves
<1> QED BY <1>1, <1>2, <1>3, <1>4, <1>5, <1>6, <1>7, <1>8, <1>9, <1>10 DEF TransitNext

LEMMA TransitKept == TransitInv /\ [TransitNext]_transitVars => TransitShape'
<1> SUFFICES ASSUME TransitInv, [TransitNext]_transitVars PROVE TransitShape' OBVIOUS
<1> USE TransitAssumption, SomeFamily
        DEF TransitInv, TransitTypeOK, TransitShape, Whole, transitTables, Running, Continue, Fail, Idle
<1>1. CASE UNCHANGED transitVars BY <1>1 DEF transitVars
<1>2. CASE Prepare BY SMTT(30), <1>2 DEF Prepare, Observe
<1>3. CASE StartInstall \/ StartRemove BY SMTT(30), <1>3 DEF StartInstall, StartRemove, Start
<1>4. CASE Install
  <2>1. CASE InstallChecks \/ InstallVerifies \/ UndoEnds
    BY SMTT(30), <2>1 DEF InstallChecks, InstallVerifies, UndoEnds
  <2>2. CASE InstallRequiresEmpty
    BY SMTT(30), <2>2 DEF InstallRequiresEmpty, occupied
  <2>3. ASSUME NEW p \in Prefix, AddRoute(p) \/ UndoRoute(p) PROVE TransitShape'
    BY SMTT(30), <2>3 DEF AddRoute, UndoRoute, Planned
  <2>4. ASSUME NEW f \in Family, AddRule(f) \/ UndoRule(f) PROVE TransitShape'
    BY SMTT(30), <2>4 DEF AddRule, UndoRule
  <2> QED BY <1>4, <2>1, <2>2, <2>3, <2>4 DEF Install
<1>5. CASE Verify BY SMTT(30), <1>5 DEF Verify, sameRoutes
<1>6. CASE Remove
  <2>1. CASE RemoveChecks \/ RemoveEnds
    BY SMTT(30), <2>1 DEF RemoveChecks, RemoveEnds, unchanged, Observe
  <2>4. CASE RemoveInspects
    <3>0. UNCHANGED <<tgPlan, transitTables, tgAgent, tgEvidence>>
      BY <2>4, Zenon DEF RemoveInspects
    <3>1. CASE tgRun' = Idle BY <3>0, <3>1
    <3>2. CASE tgRun' # Idle
      <4> DEFINE rules == {f \in Family : tgShadowRules[f] # {}}
                 routes == {p \in Prefix : tgShadow[p] # NoRoute}
      <4>1. /\ tgRun' = [tgRun EXCEPT !.pc = "delete", !.rules = rules, !.routes = routes]
            /\ tgRun.cmd = "remove" /\ tgRun.pc = "inspect"
        BY <2>4, <3>2, Zenon DEF RemoveInspects
      <4> HIDE DEF rules, routes
      <4>2. tgRun'.cmd = "remove" /\ tgRun # Idle BY SMTT(30), <4>1
      <4> QED BY <3>0, <4>1, <4>2
    <3> QED BY <3>1, <3>2
  <2>2. ASSUME NEW p \in Prefix, DeleteRoute(p) PROVE TransitShape'
    BY SMTT(30), <2>2 DEF DeleteRoute
  <2>3. ASSUME NEW f \in Family, DeleteRule(f) PROVE TransitShape'
    BY SMTT(30), <2>3 DEF DeleteRule
  <2> QED BY <1>6, <2>1, <2>2, <2>3, <2>4 DEF Remove
<1>7. CASE Kill BY <1>7 DEF Kill
<1>8. CASE AgentReplaced BY SMTT(30), <1>8 DEF AgentReplaced
<1>9. CASE OthersWrite
  <2>1. UNCHANGED <<tgPlan, tgRules, tgRoutes, tgRun, tgAgent, tgEvidence>>
    BY <1>9, Zenon DEF OthersWrite
  <2>2. \A p \in Prefix : tgShadow[p] \in Relay => tgShadow'[p] = tgShadow[p]
    <3>1. CASE UNCHANGED tgShadow
      BY <3>1
    <3>2. CASE \E p \in Prefix : tgShadow[p] \in {NoRoute, Foreign}
                                 /\ \E v : tgShadow' = [tgShadow EXCEPT ![p] = v]
      BY <3>2, SMTT(30)
    <3> QED BY <1>9, <3>1, <3>2, Zenon DEF OthersWrite
  <2>3. \A f \in Family : "ours" \in tgShadowRules[f] => "ours" \in tgShadowRules'[f]
    <3>1. CASE UNCHANGED tgShadowRules
      BY <3>1
    <3>2. CASE \E f \in Family :
                  tgShadowRules' = [tgShadowRules EXCEPT ![f] = @ \cup {Foreign}]
      BY <3>2, SMTT(30)
    <3>3. CASE \E f \in Family :
                  tgShadowRules' = [tgShadowRules EXCEPT ![f] = @ \ {Foreign}]
      BY <3>3, SMTT(30) DEF Foreign
    <3> QED BY <1>9, <3>1, <3>2, <3>3, Zenon DEF OthersWrite
  <2>4. Whole => Whole'
    BY <2>1, <2>2, <2>3, SMTT(30)
  <2> HIDE DEF Whole, Idle
  <2> QED BY <2>1, <2>4, Zenon
<1>10. ASSUME NEW p \in Prefix, NEW h \in Relay, AgentMoves(p, h) PROVE TransitShape'
  BY ZenonT(30), <1>10 DEF AgentMoves
<1> QED BY <1>1, <1>2, <1>3, <1>4, <1>5, <1>6, <1>7, <1>8, <1>9, <1>10 DEF TransitNext

\* A transit destination is never without a route during an agent upgrade, for
\* any tables and any number of kills, failed calls and foreign entries.
THEOREM TransitStaysCovered == TransitSpec => []TransitCovered
<1>1. TransitInv /\ [TransitNext]_transitVars => TransitInv'
  BY TransitTyped, TransitKept DEF TransitInv
<1>2. TransitInv => TransitCovered
  BY TransitAssumption
     DEF TransitInv, TransitTypeOK, TransitShape, Whole, TransitCovered, Covered
<1> QED BY <1>1, <1>2, TransitStart, PTL DEF TransitSpec
-----------------------------------------------------------------------------
(* A receive host after a loss (HostBoot).                                  *)

\* Inventories and kernel states.
Inventory == [own : BOOLEAN, other : {"serving", "retiring", "released", "past"}]

Kernel == [gen : Nat, other : BOOLEAN, stage : 0 .. 3, endpoint : {"none", "hint", "live"}]

\* The shapes of the state.
HostTypes ==
    /\ hbJournal \in Nat /\ hbReceipt \in Nat /\ hbBoot \in Nat
    /\ hbInventory \in Inventory
    /\ hbCleaned \in BOOLEAN /\ hbService \in BOOLEAN
    /\ hbFiles = [inventory |-> hbFiles.inventory, journal |-> hbFiles.journal,
                  observation |-> hbFiles.observation, hints |-> hbFiles.hints]
    /\ hbKernel \in Kernel
    /\ hbAgent = [at |-> hbAgent.at, todo |-> hbAgent.todo, n |-> hbAgent.n, inv |-> hbAgent.inv]
    /\ hbAgent.n \in Nat /\ hbAgent.inv \in Inventory

\* A journal that is not finished is left only on this host's receipt.
JournalOrder ==
    /\ ~hbInventory.own => hbJournal = 0
    /\ ~Finished(hbReceipt) /\ hbReceipt <= hbJournal
    /\ hbJournal <= hbReceipt + 1 \/ (hbJournal = hbReceipt + 2 /\ Finished(hbReceipt + 1))
    /\ hbCleaned => hbInventory.other \in {"retiring", "released"}

\* The journal file is between the last receipt and the journal, and an
\* acknowledged withdrawal is in the inventory file.
FilesOrder ==
    /\ hbReceipt > 0 => hbFiles.journal # <<>>
    /\ hbFiles.journal # <<>> =>
          hbFiles.journal[1].n \in hbReceipt .. hbJournal
    /\ hbCleaned =>
          hbFiles.inventory # <<>> /\ hbFiles.inventory[1].inv.other # "serving"

\* A pass holds the lock.
Working == hbAgent.at \notin {"rest", "target"}

\* The pass under the lock, by how far it got.
PassOrder ==
    Working =>
        /\ ~hbService
        /\ hbAgent.n \in hbReceipt .. hbJournal
        /\ hbCleaned => hbAgent.inv.other # "serving"
        /\ hbFiles.journal # <<>> => hbFiles.journal[1].n <= hbAgent.n
        /\ Target = "phase" /\ hbAgent.at \notin {"fence", "fenced", "journal"} =>
              hbFiles.journal # <<>> /\ hbFiles.journal[1].n = hbAgent.n
        /\ Target = "withdrawal" =>
              /\ hbAgent.inv.other = "retiring" /\ hbInventory.other \in {"retiring", "released"}
              /\ hbAgent.at # "fence" =>
                    hbFiles.inventory # <<>> /\ hbFiles.inventory[1].inv.other = "retiring"
              /\ hbAgent.at \in {"worked", "report"} => ~hbKernel.other
        /\ Target = "phase" /\ hbAgent.at \in {"worked", "report"} /\ hbKernel.stage > 0 =>
              hbKernel.gen = Selected(hbAgent.n)

\* What the kernel serves is accepted by the journal, the journal's own choice
\* once this host has acknowledged it, and no acknowledged withdrawal.
KernelCurrent ==
    /\ hbKernel.stage > 0 =>
          /\ hbKernel.gen \in Accepted(hbJournal)
          /\ hbReceipt = hbJournal => hbKernel.gen = Selected(hbJournal)
    /\ hbCleaned => ~hbKernel.other

\* The inductive invariant.
HInv == /\ HostTypes /\ JournalOrder /\ FilesOrder /\ PassOrder /\ KernelCurrent
        /\ hbService => Recoverable
-----------------------------------------------------------------------------
\* How the selected and accepted generations move from one journal to the next.
LEMMA Numbers ==
    ASSUME NEW n \in Nat
    PROVE  /\ Selected(n) \in Nat
           /\ Finished(n) => Selected(n + 1) = Selected(n) /\ Accepted(n) = {Selected(n)}
                            /\ Accepted(n + 1) = {Selected(n)} /\ ~Finished(n + 1) /\ n > 0
           /\ Selected(n) \in Accepted(n) /\ Selected(n) \in Accepted(n + 1)
           /\ Finished(n + 1) => Selected(n + 2) = Selected(n) /\ Selected(n) \in Accepted(n + 2)
  BY SMTT(30) DEF Selected, Finished, Accepted, Switching

\* Up to the reservation only the first generation counts.
LEMMA FirstJournals ==
    /\ ~Finished(0) /\ ~Finished(1) /\ Accepted(0) = {0} /\ Accepted(1) = {0}
    /\ Selected(0) = 0 /\ Selected(1) = 0
  BY SMTT(30) DEF Selected, Finished, Accepted, Switching

\* A finished journal between receipt and journal selects an accepted generation.
LEMMA FinishedIsCurrent ==
    ASSUME NEW n \in Nat, NEW r \in Nat, NEW j \in Nat, Finished(n), ~Finished(r),
           r <= n, n <= j, j <= r + 1 \/ (j = r + 2 /\ Finished(r + 1))
    PROVE  Selected(n) \in Accepted(j) /\ r # j
<1>1. r # n
  OBVIOUS
<1>2. r # j /\ (j = n \/ j = n + 1)
  BY SMTT(30), <1>1
<1> QED BY <1>2, Numbers

\* So does an unfinished one.
LEMMA UnfinishedIsCurrent ==
    ASSUME NEW n \in Nat, NEW r \in Nat, NEW j \in Nat, ~Finished(n), ~Finished(r),
           r <= n, n <= j, j <= r + 1 \/ (j = r + 2 /\ Finished(r + 1))
    PROVE  Selected(n) \in Accepted(j) /\ (r = j => n = j)
<1>1. r = j => n = j
  BY SMTT(30)
<1>2. CASE r = n
  <2>1. j = n \/ j = n + 1 \/ (j = n + 2 /\ Finished(n + 1))
    BY SMTT(30), <1>2
  <2> QED BY <1>1, <2>1, Numbers
<1>3. CASE r # n
  <2>1. r + 1 # n => j = n
    BY SMTT(30), <1>3
  <2>2. r + 1 = n => j = n
    BY SMTT(30)
  <2> QED BY <1>1, <2>1, <2>2, Numbers
<1> QED BY <1>2, <1>3

\* To moves the pass and nothing it read.
LEMMA Going ==
    ASSUME HostTypes, NEW s, To(s)
    PROVE  /\ hbAgent' = [at |-> hbAgent'.at, todo |-> hbAgent'.todo, n |-> hbAgent'.n,
                          inv |-> hbAgent'.inv]
           /\ hbAgent'.n = hbAgent.n /\ hbAgent'.inv = hbAgent.inv /\ hbAgent'.at = s
           /\ hbAgent'.todo = hbAgent.todo
  BY DEF HostTypes, To
-----------------------------------------------------------------------------
\* The pass is over, or goes to its next target.
Left == /\ hbAgent' = [at |-> hbAgent'.at, todo |-> hbAgent'.todo, n |-> hbAgent'.n,
                       inv |-> hbAgent'.inv]
        /\ hbAgent'.n \in Nat /\ hbAgent'.inv \in Inventory /\ hbAgent'.at \in {"rest", "target"}

\* A pass that stops is over.
LEMMA Rests == ASSUME HostTypes, hbAgent' = Resting PROVE Left
  BY DEF HostTypes, Resting, Left

\* So is one that goes to its next target.
LEMMA Leaves == ASSUME HostTypes, NextTarget PROVE Left
  BY DEF HostTypes, NextTarget, Resting, Left

\* Nothing but the pass changes, and it ends.
LEMMA Ends ==
    ASSUME HInv, Left, UNCHANGED <<hostControl, hbFiles, hbKernel, hbService, hbBoot>>
    PROVE  HInv'
<1>1. HostTypes' /\ JournalOrder' /\ FilesOrder' /\ KernelCurrent' /\ (hbService => Recoverable)'
  BY DEF HInv, HostTypes, JournalOrder, FilesOrder, KernelCurrent, Left, hostControl,
         Recoverable, ObservesJournal, ObservesInventory
<1>2. PassOrder'
  BY DEF PassOrder, Working, Left
<1> QED BY <1>1, <1>2 DEF HInv

\* A step of the pass that leaves files and kernel alone.
LEMMA Goes ==
    ASSUME HInv, Working, NEW s, To(s), s \notin {"rest", "target"},
           UNCHANGED <<hostControl, hbFiles, hbKernel, hbService, hbBoot>>,
           hbAgent.at # "fence",
           hbAgent.at \in {"fence", "fenced", "journal"} => s \in {"fence", "fenced", "journal"},
           s \in {"worked", "report"} => hbAgent.at \in {"worked", "report"}
    PROVE  HInv'
<1>0. HostTypes
  BY DEF HInv
<1>1. /\ HostTypes' /\ JournalOrder' /\ FilesOrder' /\ KernelCurrent'
      /\ (hbService => Recoverable)'
  BY <1>0, Going DEF HInv, HostTypes, JournalOrder, FilesOrder, KernelCurrent, Left,
     hostControl, Recoverable,
         ObservesJournal, ObservesInventory
<1>2. PassOrder'
  BY <1>0, Going DEF HInv, PassOrder, Working, hostControl, Target
<1> QED BY <1>1, <1>2 DEF HInv

\* Every step keeps the invariant.  A pass discovers its targets.
LEMMA DiscoverInv == ASSUME HInv, Discover PROVE HInv'
<1>1. Left
  BY DEF HInv, HostTypes, Discover, Resting, Left
<1> QED BY <1>1, Ends DEF Discover, hostBounds

\* A pass rechecks what it read.
LEMMA RecheckInv == ASSUME HInv, Recheck PROVE HInv'
<1>0. HostTypes
  BY DEF HInv
<1>1. CASE ~Unchanged
  <2>1. Left
    BY <1>0, <1>1, Leaves DEF Recheck
  <2> QED BY <2>1, Ends DEF Recheck, hostBounds
<1>2. CASE Unchanged /\ hbAgent.at = "saved"
  BY <1>2, Goes DEF Recheck, hostBounds, Agent, Working
<1>3. CASE Unchanged /\ hbAgent.at = "worked"
  BY <1>3, Goes DEF Recheck, hostBounds, Agent, Working
<1> QED BY <1>1, <1>2, <1>3 DEF Recheck, Agent

\* Without a checkpoint nothing was acknowledged, so bootstrap is current.
LEMMA Bootstrap ==
    ASSUME HInv, ~Fenced, hbKernel' = BootstrapKernel, Left \/ UNCHANGED hbAgent, ~Working,
           UNCHANGED <<hostControl, hbFiles, hbService, hbBoot>>
    PROVE  HInv'
<1>1. hbReceipt = 0 /\ (hbJournal = 0 \/ hbJournal = 1) /\ ~hbCleaned /\ ~hbService
  BY SMTT(30), FirstJournals DEF HInv, HostTypes, JournalOrder, FilesOrder, Fenced, Recoverable
<1>2. hbKernel' \in Kernel
      /\ hbKernel'.gen = 0
  BY SMTT(30) DEF BootstrapKernel, Kernel
<1>3. HostTypes' /\ JournalOrder' /\ FilesOrder'
  BY <1>2 DEF HInv, HostTypes, JournalOrder, FilesOrder, Left, hostControl
<1>4. PassOrder'
  BY DEF PassOrder, Working, Left
<1>5. KernelCurrent'
  BY <1>1, <1>2, FirstJournals DEF KernelCurrent, hostControl
<1> QED BY <1>1, <1>3, <1>4, <1>5 DEF HInv

\* A pass without a journal of its own.
LEMMA OrdinaryInv == ASSUME HInv, Ordinary PROVE HInv'
<1>1. Left /\ ~Working
  BY Leaves DEF HInv, Ordinary, Agent, Working
<1>2. CASE Fenced
  BY <1>1, <1>2, Ends DEF Ordinary, hostBounds
<1>3. CASE ~Fenced
  BY <1>1, <1>3, Bootstrap DEF Ordinary, hostBounds
<1> QED BY <1>2, <1>3

\* The boot service without a checkpoint.
LEMMA BootstrapInv == ASSUME HInv, BootstrapHost PROVE HInv'
<1>1. ~Working
  BY DEF BootstrapHost, Locked, Working
<1> QED BY <1>1, Bootstrap DEF BootstrapHost, hostBounds

\* Admission reads the journal and the inventory.
LEMMA AdmitInv == ASSUME HInv, AdmitSet PROVE HInv'
<1>0. HostTypes /\ ~Working /\ ~hbService
  BY DEF HInv, AdmitSet, Agent, Working, Locked
<1>1. CASE ~(Admissible /\ admitReleasedReceiveCheckpoints(hbInventory))
  <2>1. Left
    BY <1>0, <1>1, Leaves DEF AdmitSet
  <2> QED BY <2>1, Ends DEF AdmitSet, hostBounds
<1>2. CASE Admissible /\ admitReleasedReceiveCheckpoints(hbInventory)
  <2>1. /\ hbAgent' = [at |-> hbAgent'.at, todo |-> hbAgent'.todo, n |-> hbAgent'.n,
                       inv |-> hbAgent'.inv]
        /\ hbAgent'.n = hbJournal /\ hbAgent'.inv = hbInventory /\ hbAgent'.todo = hbAgent.todo
        /\ hbAgent'.at = IF hbInventory.other = "retiring" THEN "fence" ELSE "journal"
    BY <1>0, <1>2 DEF AdmitSet, HostTypes
  <2>2. HostTypes' /\ JournalOrder' /\ FilesOrder' /\ KernelCurrent' /\ ~hbService'
    BY <1>0, <2>1 DEF AdmitSet, HInv, HostTypes, JournalOrder, FilesOrder, KernelCurrent,
       hostControl, hostBounds
  <2>3. PassOrder'
    BY SMTT(30), <1>0, <1>2, <2>1
       DEF AdmitSet, HInv, HostTypes, JournalOrder, FilesOrder, PassOrder, Working,
           hostControl, hostBounds, Target, Admissible
  <2> QED BY <2>2, <2>3 DEF HInv
<1> QED BY <1>1, <1>2

\* The files keep their shape.
LEMMA InventoryWritten ==
    ASSUME HostTypes, NEW inv, hbFiles' = [hbFiles EXCEPT !.inventory = InventoryFile(inv)]
    PROVE  /\ hbFiles' = [inventory |-> hbFiles'.inventory, journal |-> hbFiles'.journal,
                          observation |-> hbFiles'.observation, hints |-> hbFiles'.hints]
           /\ hbFiles'.inventory # <<>> /\ hbFiles'.inventory[1].inv = inv
           /\ hbFiles'.journal = hbFiles.journal
  BY DEF HostTypes, InventoryFile

\* The same for the journal file.
LEMMA JournalWritten ==
    ASSUME HostTypes, NEW n, hbFiles' = [hbFiles EXCEPT !.journal = JournalFile(n)]
    PROVE  /\ hbFiles' = [inventory |-> hbFiles'.inventory, journal |-> hbFiles'.journal,
                          observation |-> hbFiles'.observation, hints |-> hbFiles'.hints]
           /\ hbFiles'.journal # <<>> /\ hbFiles'.journal[1].n = n
           /\ hbFiles'.inventory = hbFiles.inventory
  BY DEF HostTypes, JournalFile

\* The retirement fence is the inventory the pass read.
LEMMA FenceInv == ASSUME HInv, FenceRetirement PROVE HInv'
<1>0. HostTypes /\ Working /\ ~hbService /\ hbAgent.at = "fence"
  BY DEF HInv, FenceRetirement, Agent, Working, PassOrder
<1>1. CASE ~Unchanged
  <2>1. Left
    BY <1>0, <1>1, Leaves DEF FenceRetirement
  <2> QED BY <1>1, <2>1, Ends DEF FenceRetirement, hostBounds
<1>2. CASE Unchanged
  <2>1. /\ hbFiles' = [inventory |-> hbFiles'.inventory, journal |-> hbFiles'.journal,
                          observation |-> hbFiles'.observation, hints |-> hbFiles'.hints]
        /\ hbFiles'.inventory # <<>> /\ hbFiles'.inventory[1].inv = hbAgent.inv
        /\ hbFiles'.journal = hbFiles.journal
    BY <1>0, <1>2, InventoryWritten DEF FenceRetirement
  <2>2. To("fenced")
    BY <1>2 DEF FenceRetirement
  <2>3. HostTypes' /\ JournalOrder' /\ FilesOrder' /\ KernelCurrent' /\ ~hbService'
    BY <1>0, <2>1, <2>2, Going DEF FenceRetirement, HInv, HostTypes, JournalOrder, FilesOrder,
       KernelCurrent,
       hostControl, hostBounds, PassOrder
  <2>4. PassOrder'
    BY SMTT(30), <1>0, <2>1, <2>2, Going
       DEF FenceRetirement, HInv, PassOrder, Working, hostControl, hostBounds, Target
  <2> QED BY <2>3, <2>4 DEF HInv
<1> QED BY <1>1, <1>2

\* The journal checkpoint beside the fence is the one the pass read.
LEMMA FenceJournalsInv == ASSUME HInv, FenceJournals PROVE HInv'
<1>0. HostTypes /\ Working /\ ~hbService /\ hbAgent.at = "fenced"
  BY DEF HInv, FenceJournals, Agent, Working, PassOrder
<1>1. /\ hbFiles' = [inventory |-> hbFiles'.inventory, journal |-> hbFiles'.journal,
                      observation |-> hbFiles'.observation, hints |-> hbFiles'.hints]
      /\ hbFiles'.inventory = hbFiles.inventory
      /\ \/ hbFiles'.journal = hbFiles.journal
         \/ hbFiles'.journal # <<>> /\ hbFiles'.journal[1].n = hbAgent.n
  BY <1>0, JournalWritten DEF FenceJournals, HostTypes
<1>2. /\ Target = "phase" => To("journal")
      /\ Target # "phase" => To("saved")
  BY DEF FenceJournals
<1>3. HostTypes' /\ JournalOrder' /\ FilesOrder' /\ KernelCurrent' /\ ~hbService'
  BY SMTT(30), <1>0, <1>1, <1>2, Going
     DEF FenceJournals, HInv, HostTypes, JournalOrder, FilesOrder, KernelCurrent,
         hostControl, hostBounds, PassOrder
<1>4. PassOrder'
  BY SMTT(30), <1>0, <1>1, <1>2, Going DEF FenceJournals, HInv, HostTypes, PassOrder, Working,
     hostControl, hostBounds, Target
<1> QED BY <1>3, <1>4 DEF HInv

\* The journal is checkpointed from a fresh read; if it moved on, the pass ends.
LEMMA CheckpointJournalInv == ASSUME HInv, checkpointReceiveJournalLocked PROVE HInv'
<1>0. HostTypes /\ Working /\ ~hbService /\ hbAgent.at = "journal"
  BY DEF HInv, checkpointReceiveJournalLocked, Agent, Working, PassOrder
<1>1. /\ hbFiles' = [inventory |-> hbFiles'.inventory, journal |-> hbFiles'.journal,
                      observation |-> hbFiles'.observation, hints |-> hbFiles'.hints]
      /\ hbFiles'.inventory = hbFiles.inventory
      /\ hbFiles'.journal # <<>> /\ hbFiles'.journal[1].n = hbJournal
  BY <1>0, JournalWritten DEF checkpointReceiveJournalLocked
<1>2. JournalOrder' /\ FilesOrder' /\ KernelCurrent' /\ ~hbService'
  BY SMTT(30), <1>0, <1>1
     DEF checkpointReceiveJournalLocked, HInv, HostTypes, JournalOrder, FilesOrder,
         KernelCurrent, hostControl, hostBounds, PassOrder
<1>3. CASE hbJournal # hbAgent.n
  <2>1. Left
    BY <1>0, <1>3, Leaves DEF checkpointReceiveJournalLocked
  <2>2. HostTypes' /\ PassOrder'
    BY <1>0, <1>1, <2>1 DEF checkpointReceiveJournalLocked, HInv, HostTypes, Left, hostControl,
       hostBounds,
       PassOrder, Working
  <2> QED BY <1>2, <2>2 DEF HInv
<1>4. CASE hbJournal = hbAgent.n
  <2>1. To("inventory")
    BY <1>4 DEF checkpointReceiveJournalLocked
  <2>2. HostTypes'
    BY <1>0, <1>1, <2>1, Going DEF checkpointReceiveJournalLocked, HInv, HostTypes, hostControl,
       hostBounds
  <2>3. PassOrder'
    BY SMTT(30), <1>0, <1>1, <1>4, <2>1, Going
       DEF checkpointReceiveJournalLocked, HInv, HostTypes, hostControl, hostBounds,
           PassOrder, Working, Target
  <2> QED BY <1>2, <2>2, <2>3 DEF HInv
<1> QED BY <1>3, <1>4

\* The inventory is checkpointed after the journal.
LEMMA CheckpointSetInv == ASSUME HInv, checkpointReceiveSetLocked PROVE HInv'
<1>0. HostTypes /\ Working /\ ~hbService /\ hbAgent.at = "inventory" /\ To("saved")
  BY DEF HInv, checkpointReceiveSetLocked, Agent, Working, PassOrder
<1>1. /\ hbFiles' = [inventory |-> hbFiles'.inventory, journal |-> hbFiles'.journal,
                          observation |-> hbFiles'.observation, hints |-> hbFiles'.hints]
      /\ hbFiles'.inventory # <<>> /\ hbFiles'.inventory[1].inv = hbAgent.inv
      /\ hbFiles'.journal = hbFiles.journal
  BY <1>0, InventoryWritten DEF checkpointReceiveSetLocked
<1>2. HostTypes' /\ JournalOrder' /\ FilesOrder' /\ KernelCurrent' /\ ~hbService'
  BY <1>0, <1>1, Going DEF checkpointReceiveSetLocked, HInv, HostTypes, JournalOrder,
     FilesOrder, KernelCurrent,
     hostControl, hostBounds, PassOrder
<1>3. PassOrder'
  BY SMTT(30), <1>0, <1>1, Going
     DEF checkpointReceiveSetLocked, HInv, PassOrder, Working, hostControl, hostBounds,
         Target
<1> QED BY <1>2, <1>3 DEF HInv

\* Restoring a finished journal that lies between receipt and journal keeps the
\* kernel current, as long as an acknowledged withdrawal is not served again.
LEMMA Restores ==
    ASSUME HInv, NEW n \in Nat, NEW inv, restoreCompletedReceiveState(n, inv), Finished(n),
           n \in hbReceipt .. hbJournal, hbCleaned => inv.other # "serving",
           UNCHANGED hostControl
    PROVE  /\ KernelCurrent'
           /\ hbKernel' \in Kernel
<1>1. Selected(n) \in Accepted(hbJournal) /\ hbReceipt # hbJournal /\ Selected(n) \in Nat
  BY SMTT(30), FinishedIsCurrent, Numbers DEF HInv, HostTypes, JournalOrder
<1>2. CASE RaiseDevices(n)
  <2>1. hbKernel' = [gen |-> Selected(n), other |-> FALSE, stage |-> 1, endpoint |-> "none"]
    BY <1>2 DEF RaiseDevices, Lost
  <2> QED BY SMTT(30), <1>1, <2>1 DEF Kernel, KernelCurrent, hostControl
<1>3. CASE RestoreState(inv)
  <2> DEFINE served == inv.other = "serving"
  <2>1. served \in BOOLEAN /\ hbKernel \in Kernel /\ hbKernel.stage = 1
    BY <1>3 DEF RestoreState, HInv, HostTypes
  <2>2. hbKernel' = [hbKernel EXCEPT !.stage = 2, !.other = served] /\ (hbCleaned => ~served)
    BY <1>3 DEF RestoreState
  <2> HIDE DEF served
  <2>3. hbKernel' = [gen |-> hbKernel.gen, other |-> served, stage |-> 2,
                     endpoint |-> hbKernel.endpoint]
    BY <2>1, <2>2 DEF Kernel
  <2>4. hbKernel' \in Kernel /\ hbKernel'.gen = hbKernel.gen /\ hbKernel'.other = served
    BY SMTT(30), <2>1, <2>3 DEF Kernel
  <2> QED BY SMTT(30), <1>1, <2>1, <2>2, <2>4 DEF KernelCurrent, hostControl, HInv
<1>4. CASE restoreReceivePolicyRules
  BY SMTT(30), <1>1, <1>4
     DEF restoreReceivePolicyRules, Kernel, KernelCurrent, hostControl, HInv, HostTypes
<1> QED BY <1>2, <1>3, <1>4 DEF restoreCompletedReceiveState

\* A finished journal is maintained: restored where the kernel lacks it.
LEMMA MaintainInv == ASSUME HInv, Maintain PROVE HInv'
<1>0. HostTypes /\ Working /\ ~hbService /\ hbAgent.at = "native" /\ Target = "phase"
      /\ Finished(hbAgent.n)
      /\ UNCHANGED <<hostControl, hbFiles, hbService, hbBoot>>
  BY DEF HInv, Maintain, Agent, Working, PassOrder, hostBounds
<1>1. CASE restoreCompletedReceiveState(hbAgent.n, hbAgent.inv) /\ UNCHANGED hbAgent
  <2>1. /\ KernelCurrent'
        /\ hbKernel' \in Kernel
    BY <1>0, <1>1, Restores DEF HInv, HostTypes, PassOrder
  <2>2. HostTypes' /\ JournalOrder' /\ FilesOrder' /\ ~hbService'
    BY <1>0, <1>1, <2>1 DEF HInv, HostTypes, JournalOrder, FilesOrder, hostControl
  <2>3. PassOrder'
    BY <1>0, <1>1 DEF HInv, PassOrder, Working, Target, hostControl
  <2> QED BY <2>1, <2>2, <2>3 DEF HInv
<1>2. CASE Serves(Selected(hbAgent.n)) /\ To("worked") /\ UNCHANGED hbKernel
  <2>1. HostTypes' /\ JournalOrder' /\ FilesOrder' /\ KernelCurrent' /\ ~hbService'
    BY <1>0, <1>2, Going
       DEF HInv, HostTypes, JournalOrder, FilesOrder, KernelCurrent, hostControl
  <2>2. PassOrder'
    BY <1>0, <1>2, Going DEF HInv, PassOrder, Working, Target, hostControl, Serves
  <2> QED BY <2>1, <2>2 DEF HInv
<1>3. CASE Unanswered /\ NextTarget /\ UNCHANGED hbKernel
  BY <1>0, <1>3, Leaves, Ends
<1> QED BY <1>1, <1>2, <1>3 DEF Maintain

\* An unfinished journal is executed only over a generation it accepts.
LEMMA ExecuteInv == ASSUME HInv, ExecutePhase PROVE HInv'
<1>0. HostTypes /\ Working /\ ~hbService /\ hbAgent.at = "native" /\ Target = "phase"
      /\ ~Finished(hbAgent.n)
      /\ UNCHANGED <<hostControl, hbFiles, hbService, hbBoot>>
  BY DEF HInv, ExecutePhase, Agent, Working, PassOrder, hostBounds
<1>1. CASE ~(hbKernel.stage = 3 /\ hbKernel.gen \in Accepted(hbAgent.n))
  BY <1>0, <1>1, Leaves, Ends DEF ExecutePhase
<1>2. CASE hbKernel.stage = 3 /\ hbKernel.gen \in Accepted(hbAgent.n)
  <2>1. hbKernel' = [hbKernel EXCEPT !.gen = Selected(hbAgent.n)] /\ To("worked")
    BY <1>2 DEF ExecutePhase
  <2>2. /\ Selected(hbAgent.n) \in Accepted(hbJournal) /\ Selected(hbAgent.n) \in Nat
        /\ hbReceipt = hbJournal => hbAgent.n = hbJournal
    BY SMTT(30), <1>0, UnfinishedIsCurrent, Numbers DEF HInv, HostTypes, JournalOrder, PassOrder
  <2>3. hbKernel' \in Kernel /\ hbKernel'.gen = Selected(hbAgent.n)
        /\ hbKernel'.other = hbKernel.other
    BY <1>0, <2>1, <2>2 DEF HostTypes, Kernel
  <2>4. HostTypes' /\ JournalOrder' /\ FilesOrder' /\ KernelCurrent' /\ ~hbService'
    BY <1>0, <2>1, <2>2, <2>3, Going DEF HInv, HostTypes, JournalOrder, FilesOrder,
       KernelCurrent, hostControl
  <2>5. PassOrder'
    BY <1>0, <2>1, <2>3, Going DEF HInv, PassOrder, Working, Target, hostControl
  <2> QED BY <2>4, <2>5 DEF HInv
<1> QED BY <1>1, <1>2

\* A withdrawn gateway's state is removed.
LEMMA CleanInv == ASSUME HInv, CleanWithdrawn PROVE HInv'
<1>0. HostTypes /\ Working /\ ~hbService /\ hbAgent.at = "native" /\ Target = "withdrawal"
      /\ To("worked")
      /\ UNCHANGED <<hostControl, hbFiles, hbService, hbBoot>>
  BY DEF HInv, CleanWithdrawn, Agent, Working, PassOrder, hostBounds
<1>1. hbKernel' \in Kernel /\ hbKernel'.gen = hbKernel.gen
      /\ hbKernel'.stage = hbKernel.stage /\ ~hbKernel'.other
  BY <1>0 DEF CleanWithdrawn, HostTypes, Kernel
<1>2. HostTypes' /\ JournalOrder' /\ FilesOrder' /\ KernelCurrent' /\ ~hbService'
  BY <1>0, <1>1, Going DEF HInv, HostTypes, JournalOrder, FilesOrder, KernelCurrent, hostControl
<1>3. PassOrder'
  BY <1>0, <1>1, Going DEF HInv, PassOrder, Working, Target, hostControl
<1> QED BY <1>2, <1>3 DEF HInv

\* The observation is written beside the checkpoints.
LEMMA ObserveInv == ASSUME HInv, ObserveNative PROVE HInv'
<1>0. HostTypes /\ Working /\ ~hbService /\ hbAgent.at = "report"
      /\ UNCHANGED <<hostControl, hbKernel, hbService, hbBoot>>
  BY DEF HInv, ObserveNative, Agent, Working, PassOrder, hostBounds
<1>1. CASE hbFiles.inventory # InventoryFile(hbAgent.inv)
  BY <1>0, <1>1, Leaves, Ends DEF ObserveNative
<1>2. CASE hbFiles.inventory = InventoryFile(hbAgent.inv)
  <2> DEFINE o == <<[n |-> hbAgent.n, inv |-> hbAgent.inv, boot |-> hbBoot]>>
  <2>1. hbFiles' = [hbFiles EXCEPT !.observation = o, !.hints = FALSE] /\ To("hints")
    BY <1>2 DEF ObserveNative
  <2> HIDE DEF o
  <2>2. hbFiles' = [inventory |-> hbFiles.inventory, journal |-> hbFiles.journal,
                    observation |-> o, hints |-> FALSE]
    BY <1>0, <2>1 DEF HostTypes
  <2>3. HostTypes' /\ JournalOrder' /\ FilesOrder' /\ KernelCurrent' /\ ~hbService'
    BY <1>0, <2>1, <2>2, Going DEF HInv, HostTypes, JournalOrder, FilesOrder, KernelCurrent,
       hostControl
  <2>4. PassOrder'
    BY <1>0, <2>1, <2>2, Going DEF HInv, PassOrder, Working, Target, hostControl
  <2> QED BY <2>3, <2>4 DEF HInv
<1> QED BY <1>1, <1>2

\* The endpoint hints follow it.
LEMMA HintsInv == ASSUME HInv, writeReceiveBootEndpoints PROVE HInv'
<1>0. HostTypes /\ Left /\ ~hbService
      /\ UNCHANGED <<hostControl, hbKernel, hbService, hbBoot>>
  BY Leaves DEF HInv, writeReceiveBootEndpoints, Agent, Working, PassOrder, hostBounds
<1>1. hbFiles' = [inventory |-> hbFiles.inventory, journal |-> hbFiles.journal,
                  observation |-> hbFiles.observation, hints |-> TRUE]
  BY <1>0 DEF HostTypes, writeReceiveBootEndpoints
<1>2. HostTypes' /\ JournalOrder' /\ FilesOrder' /\ KernelCurrent' /\ ~hbService'
  BY <1>0, <1>1 DEF HInv, HostTypes, JournalOrder, FilesOrder, KernelCurrent, hostControl, Left
<1>3. PassOrder'
  BY <1>0 DEF PassOrder, Working, Left
<1> QED BY <1>2, <1>3 DEF HInv

\* A receipt acknowledges the journal the kernel serves.
LEMMA ReceiptInv == ASSUME HInv, SubmitReceipt PROVE HInv'
<1>0. HostTypes /\ Working /\ Left /\ ~hbService /\ hbAgent.at = "report"
      /\ UNCHANGED <<hbJournal, hbInventory, hbFiles, hbKernel, hbService, hbBoot>>
  BY Leaves DEF HInv, SubmitReceipt, Agent, Working, PassOrder, hostBounds
<1>1. PassOrder' /\ ~hbService'
  BY <1>0 DEF PassOrder, Working, Left
<1>2. CASE Target = "phase" /\ ~Finished(hbAgent.n) /\ hbReceipt' = hbAgent.n
      /\ UNCHANGED hbCleaned
  <2>1. HostTypes' /\ FilesOrder' /\ KernelCurrent'
    BY SMTT(30), <1>0, <1>2 DEF HInv, HostTypes, FilesOrder, KernelCurrent, Left, PassOrder
  <2>2. /\ hbReceipt <= hbAgent.n /\ hbAgent.n <= hbJournal /\ hbReceipt \in Nat
        /\ hbAgent.n \in Nat /\ hbJournal \in Nat
        /\ hbJournal <= hbReceipt + 1 \/ (hbJournal = hbReceipt + 2 /\ Finished(hbReceipt + 1))
    BY SMTT(30), <1>0 DEF HInv, HostTypes, JournalOrder, PassOrder
  <2>3. hbJournal <= hbAgent.n + 1 \/ (hbJournal = hbAgent.n + 2 /\ Finished(hbAgent.n + 1))
    <3>1. CASE hbReceipt = hbAgent.n
      BY <2>2, <3>1
    <3>2. CASE hbReceipt + 1 <= hbAgent.n
      BY SMTT(30), <2>2, <3>2
    <3> QED BY SMTT(30), <2>2, <3>1, <3>2
  <2>4. JournalOrder'
    BY <1>0, <1>2, <2>2, <2>3 DEF HInv, JournalOrder
  <2> QED BY <1>1, <2>1, <2>4 DEF HInv
<1>3. CASE Target = "withdrawal" /\ hbCleaned' = TRUE /\ UNCHANGED hbReceipt
  <2>1. hbInventory.other \in {"retiring", "released"}
    BY <1>0, <1>3 DEF HInv, PassOrder
  <2> QED BY <1>0, <1>1, <1>3, <2>1 DEF HInv, HostTypes, JournalOrder, FilesOrder,
    KernelCurrent, Left, PassOrder
<1> QED BY <1>2, <1>3 DEF SubmitReceipt

\* The boot service starts on recoverable files only.
LEMMA AdmitBootInv == ASSUME HInv, admitReceiveBoot PROVE HInv'
<1>0. HostTypes /\ ~Working /\ Recoverable /\ hbService' = TRUE
      /\ UNCHANGED <<hostControl, hbFiles, hbKernel, hbAgent, hbBoot>>
  BY DEF HInv, admitReceiveBoot, Working, Locked, hostBounds
<1>1. HostTypes' /\ JournalOrder' /\ FilesOrder' /\ KernelCurrent'
  BY <1>0 DEF HInv, HostTypes, JournalOrder, FilesOrder, KernelCurrent, hostControl
<1>2. PassOrder' /\ Recoverable'
  BY <1>0 DEF PassOrder, Working, Recoverable, ObservesJournal, ObservesInventory
<1> QED BY <1>1, <1>2 DEF HInv

\* It restores the finished journal of the files.
LEMMA RecoverInv == ASSUME HInv, recoverReceiveBoot PROVE HInv'
<1>0. HostTypes /\ ~Working /\ Recoverable /\ hbFiles.inventory # <<>> /\ hbFiles.journal # <<>>
      /\ Finished(hbFiles.journal[1].n)
      /\ hbService' \in BOOLEAN /\ UNCHANGED <<hostControl, hbFiles, hbAgent, hbBoot>>
  BY DEF HInv, HostTypes, recoverReceiveBoot, PassOrder, hostBounds, Recoverable,
         ObservesJournal
<1>1. JournalOrder' /\ FilesOrder' /\ PassOrder' /\ Recoverable'
  BY <1>0 DEF HInv, JournalOrder, FilesOrder, PassOrder, Working, Recoverable, ObservesJournal,
     ObservesInventory, hostControl
<1>2. KernelCurrent' /\ hbKernel' \in Kernel
  <2>1. CASE restoreCompletedReceiveState(hbFiles.journal[1].n, hbFiles.inventory[1].inv)
    BY SMTT(30), <1>0, <2>1, Restores DEF HInv, HostTypes, FilesOrder
  <2>2. CASE restoreReceiveBootEndpoints
    BY <1>0, <2>2 DEF HInv, HostTypes, restoreReceiveBootEndpoints, Kernel, KernelCurrent,
       hostControl
  <2>3. CASE UNCHANGED hbKernel
    BY <1>0, <2>3 DEF HInv, HostTypes, KernelCurrent, hostControl
  <2> QED BY <2>1, <2>2, <2>3 DEF recoverReceiveBoot
<1>3. HostTypes'
  BY <1>0, <1>2 DEF HostTypes, hostControl
<1> QED BY <1>1, <1>2, <1>3 DEF HInv

\* The control plane reserves the host.
LEMMA ReserveInv == ASSUME HInv, Reserve PROVE HInv'
<1>0. HostTypes /\ hbJournal = 0 /\ hbReceipt = 0 /\ hbKernel.gen = 0 /\ hbJournal' = 1
      /\ UNCHANGED <<hbReceipt, hbCleaned, hbFiles, hbKernel, hbAgent, hbService, hbBoot>>
  BY SMTT(30) DEF HInv, HostTypes, JournalOrder, Reserve, Serves, hostBounds
<1>1. hbInventory' \in Inventory /\ hbInventory'.own = TRUE
      /\ hbInventory'.other = hbInventory.other
  BY <1>0 DEF HostTypes, Reserve, Inventory
<1>2. HostTypes' /\ FilesOrder' /\ PassOrder'
  BY SMTT(30), <1>0, <1>1 DEF HInv, HostTypes, FilesOrder, PassOrder, Working, Target
<1>3. JournalOrder' /\ KernelCurrent'
  BY SMTT(30), <1>0, <1>1, FirstJournals DEF HInv, JournalOrder, KernelCurrent
<1>4. (hbService => Recoverable)'
  BY <1>0 DEF HInv, Recoverable, ObservesJournal, ObservesInventory
<1> QED BY <1>2, <1>3, <1>4 DEF HInv

\* It commits the next journal, after a receipt if the present one is not finished.
LEMMA CommitInv == ASSUME HInv, Commit PROVE HInv'
<1>0. HostTypes /\ hbJournal' = hbJournal + 1 /\ hbInventory.own
      /\ (Finished(hbJournal) \/ hbReceipt = hbJournal)
      /\ UNCHANGED <<hbInventory, hbReceipt, hbCleaned, hbFiles, hbKernel, hbAgent, hbService,
         hbBoot>>
  BY DEF HInv, Commit, hostBounds
<1>1. HostTypes' /\ FilesOrder' /\ PassOrder'
  BY SMTT(30), <1>0 DEF HInv, HostTypes, FilesOrder, PassOrder, Working, Target
<1>2. JournalOrder'
  <2>1. /\ hbJournal \in Nat /\ hbReceipt \in Nat /\ ~Finished(hbReceipt) /\ hbReceipt <= hbJournal
        /\ hbJournal <= hbReceipt + 1 \/ (hbJournal = hbReceipt + 2 /\ Finished(hbReceipt + 1))
    BY DEF HInv, HostTypes, JournalOrder
  <2>2. CASE hbReceipt = hbJournal
    BY SMTT(30), <1>0, <2>1, <2>2 DEF HInv, JournalOrder
  <2>3. CASE hbReceipt # hbJournal
    <3>1. Finished(hbJournal)
      BY <1>0, <2>3
    <3>2. hbJournal = hbReceipt + 1
      <4>1. Finished(hbReceipt + 1) => ~Finished(hbReceipt + 2)
        BY SMTT(30), <2>1, Numbers
      <4> QED BY SMTT(30), <2>1, <2>3, <3>1, <4>1
    <3> QED BY SMTT(30), <1>0, <2>1, <3>1, <3>2 DEF HInv, JournalOrder
  <2> QED BY <2>2, <2>3
<1>3. KernelCurrent'
  <2>1. hbJournal \in Nat /\ hbReceipt \in Nat /\ hbReceipt <= hbJournal
    BY DEF HInv, HostTypes, JournalOrder
  <2>2. hbReceipt' # hbJournal'
    BY SMTT(30), <1>0, <2>1
  <2> QED BY <1>0, <2>1, <2>2, Numbers DEF HInv, KernelCurrent
<1>4. (hbService => Recoverable)'
  BY <1>0 DEF HInv, Recoverable, ObservesJournal, ObservesInventory
<1> QED BY <1>1, <1>2, <1>3, <1>4 DEF HInv

\* It withdraws or releases the other gateway.
LEMMA WithdrawalInv == ASSUME HInv, Withdrawal PROVE HInv'
<1>0. HostTypes /\ UNCHANGED <<hbJournal, hbReceipt, hbCleaned, hbFiles, hbKernel, hbAgent,
      hbService, hbBoot>>
  BY DEF HInv, Withdrawal, hostBounds
<1>1. hbInventory' \in Inventory /\ hbInventory'.own = hbInventory.own
      /\ hbInventory'.other \in {"retiring", "released"}
  BY <1>0 DEF HostTypes, Withdrawal, Inventory
<1>2. HostTypes' /\ JournalOrder' /\ FilesOrder' /\ PassOrder' /\ KernelCurrent'
  BY SMTT(30), <1>0, <1>1
     DEF HInv, HostTypes, JournalOrder, FilesOrder, PassOrder, Working, Target,
         KernelCurrent
<1>3. (hbService => Recoverable)'
  BY <1>0 DEF HInv, Recoverable, ObservesJournal, ObservesInventory
<1> QED BY <1>2, <1>3 DEF HInv

\* A handshake only teaches the kernel an endpoint.
LEMMA HandshakeInv == ASSUME HInv, NEW from, Handshake(from) PROVE HInv'
<1>0. HostTypes /\ UNCHANGED <<hostControl, hbFiles, hbAgent, hbService, hbBoot>>
  BY DEF HInv, Handshake, hostBounds
<1>1. hbKernel' \in Kernel /\ hbKernel'.gen = hbKernel.gen /\ hbKernel'.stage = hbKernel.stage
      /\ hbKernel'.other = hbKernel.other
  BY <1>0 DEF HostTypes, Handshake, Kernel
<1>2. HostTypes' /\ JournalOrder' /\ FilesOrder' /\ PassOrder' /\ KernelCurrent'
  BY SMTT(30), <1>0, <1>1
     DEF HInv, HostTypes, JournalOrder, FilesOrder, PassOrder, Working, Target,
         KernelCurrent, hostControl
<1>3. (hbService => Recoverable)'
  BY <1>0 DEF HInv, Recoverable, ObservesJournal, ObservesInventory
<1> QED BY <1>2, <1>3 DEF HInv

\* A pass that fails, a stopped service, and a lost host.
LEMMA FaultInv == ASSUME HInv, EndPass \/ Outage \/ HostLoss PROVE HInv'
<1>0. HostTypes
  BY DEF HInv
<1>1. CASE hbAgent' = Resting /\ UNCHANGED <<hostControl, hbFiles, hbKernel, hbService, hbBoot>>
  BY <1>0, <1>1, Rests, Ends
<1>2. CASE hbService' = FALSE /\ UNCHANGED <<hostControl, hbFiles, hbKernel, hbAgent, hbBoot>>
  <2>1. HostTypes' /\ JournalOrder' /\ FilesOrder' /\ KernelCurrent' /\ ~hbService'
    BY <1>0, <1>2 DEF HInv, HostTypes, JournalOrder, FilesOrder, KernelCurrent, hostControl
  <2>2. PassOrder'
    BY <1>0, <1>2 DEF HInv, PassOrder, Working, Target, hostControl
  <2> QED BY <2>1, <2>2 DEF HInv
<1>3. CASE HostLoss
  <2>1. Left /\ hbKernel' = Lost /\ hbBoot' \in Nat /\ hbService' = FALSE
        /\ UNCHANGED <<hostControl, hbFiles>>
    BY SMTT(30), <1>0, <1>3, Rests DEF HostLoss, HostTypes
  <2>2. Lost \in Kernel /\ Lost.stage = 0 /\ ~Lost.other
    BY SMTT(30) DEF Lost, Kernel
  <2>3. HostTypes' /\ JournalOrder' /\ FilesOrder'
    BY <1>0, <2>1, <2>2 DEF HInv, HostTypes, JournalOrder, FilesOrder, Left, hostControl
  <2>4. PassOrder' /\ KernelCurrent'
    BY SMTT(30), <2>1, <2>2 DEF PassOrder, Working, Left, KernelCurrent
  <2> QED BY <2>1, <2>3, <2>4 DEF HInv
<1> QED BY <1>1, <1>2, <1>3 DEF EndPass, Outage

\* The invariant holds at first ...
LEMMA HostInitInv == HostInit => HInv
<1> SUFFICES ASSUME HostInit PROVE HInv
  OBVIOUS
<1>1. HostTypes
  <2>1. hbInventory \in Inventory
    BY DEF HostInit, Inventory
  <2>2. hbKernel \in Kernel
    BY SMTT(30) DEF HostInit, Lost, Kernel
  <2> QED BY <2>1, <2>2 DEF HostInit, HostTypes, NoFiles, Resting
<1>2. JournalOrder /\ FilesOrder /\ PassOrder /\ KernelCurrent /\ ~hbService
  BY SMTT(30), FirstJournals
     DEF HostInit, JournalOrder, FilesOrder, PassOrder, Working, KernelCurrent, NoFiles,
         Lost, Resting
<1> QED BY <1>1, <1>2 DEF HInv

\* ... and every step keeps it.
LEMMA HostNextInv == HInv /\ [HostNext]_hostVars => HInv'
<1> SUFFICES ASSUME HInv, [HostNext]_hostVars PROVE HInv'
  OBVIOUS
<1>1. CASE UNCHANGED hostVars
  BY SMTT(30), <1>1 DEF HInv, HostTypes, JournalOrder, FilesOrder, PassOrder, Working, Target,
     KernelCurrent, hostControl,
     hostVars, hostBounds, Recoverable, ObservesJournal, ObservesInventory
<1>2. CASE AgentStep
  BY <1>2, DiscoverInv, OrdinaryInv, AdmitInv, FenceInv, FenceJournalsInv,
     CheckpointJournalInv, CheckpointSetInv, RecheckInv, MaintainInv, ExecuteInv, CleanInv,
     ObserveInv, HintsInv, ReceiptInv
     DEF AgentStep
<1>3. CASE ServiceStep
  BY <1>3, BootstrapInv, AdmitBootInv, RecoverInv DEF ServiceStep
<1> QED BY <1>1, <1>2, <1>3, ReserveInv, CommitInv, WithdrawalInv, HandshakeInv,
  FaultInv DEF HostNext

\* NothingStaleRestored, for any number of journals, passes, losses and outages:
\* neither a pass nor the boot service (recoverReceiveBoot, Maintain) ever puts
\* back a generation the control plane has left or a withdrawn gateway.
THEOREM NothingStaleReturns == HostSpec => []NothingStaleRestored
<1>1. HInv => NothingStaleRestored
  BY DEF HInv, KernelCurrent, NothingStaleRestored
<1> QED BY <1>1, HostInitInv, HostNextInv, PTL DEF HostSpec
===============================================================================
