--------------------------- MODULE HandoverProofs ---------------------------
(***************************************************************************)
(* IInv survives the remaining events, hence is inductive; the properties  *)
(* of Handover it implies, and that Handover implements MakeBeforeBreak.   *)
(* Then the relays.  Between a switch and its rollback the Nodes are on    *)
(* two generations, and a relayed Node's next hop may be on the other one. *)
(* Beside IInv, RelayInv says what the receipts of relays still mean;      *)
(* together they are inductive, and no chain of relays is a circle.        *)
(***************************************************************************)
EXTENDS HandoverStepProofs

\* The provers of a step that names none.
USE ZenonT(30), SMTT(30)

\* Rollback turns the pair of generations around, or aborts a preparation.
LEMMA RollBackIInv ==
    ASSUME IInv, RollBack PROVE IInv'
<1>1. TypeOK' /\ TypeOK
  BY NextTypeOK DEF IInv, Next, Undisturbed
<1>2. PICK at \in Sampled : CanRollback(journal, at) /\ journal' = Rollback(journal, at)
  BY DEF RollBack
<1>3. /\ at \in Nat /\ at <= now /\ journal \in Journal
      /\ UNCHANGED <<now, proposal, agent, wire, native, boot>> /\ batch' \subseteq batch
  BY <1>1, SampledIsNat DEF RollBack, TypeOK
<1>4. /\ journal.phase \in {"prepare", "switch", "drain"}
      /\ ~journal.rollback /\ ~journal.complete
  BY <1>2 DEF CanRollback, Chronology
<1>a. \A n \in Node : left[n].at <= now
  BY DEF IInv, DrainShape
<1>5. CASE journal.phase = "prepare"
  <2>1. Becomes(journal', journal.from, journal.to, "abort", TRUE, journal.nonce + 1, Never, at)
    BY <1>2, <1>3, <1>5, EventFields
  <2>2. /\ journal'.from = journal.from /\ journal'.to = journal.to
        /\ journal'.phase = "abort" /\ journal'.rollback = TRUE
        /\ journal'.nonce = journal.nonce + 1 /\ journal'.last = at
        /\ ~journal'.complete /\ journal'.observed = {}
    BY <2>1 DEF Becomes
  <2>3. \A n \in Node : pc[n] # "idle" => Compatible(admitted[n], journal')
    BY ZenonT(60), <1>4, <1>5, <2>2
       DEF IInv, ExecutionCompatible, Compatible, Preceding, SamePair
  <2>4. \A n \in Node : pc[n] = "maintain" => Preceding(admitted[n], journal')
    BY <1>4, <2>2 DEF IInv, ExecutionMaintains, Preceding
  <2>5. JournalShape'
    <3>1. Candidate(journal)' = Candidate(journal)
      BY <1>4, <2>2 DEF Candidate
    <3> QED BY <1>3, <2>2, <3>1 DEF IInv, JournalShape, native
  <2>6. NativeShape'
    BY <1>3, <1>5, <2>2 DEF IInv, NativeShape, Up, native
  <2>7. DrainShape'
    BY <1>3, <1>5, <2>2 DEF IInv, DrainShape, native
  <2> QED BY <1>1, <1>3, <2>2, <2>3, <2>4, <2>5, <2>6, <2>7, FreshRound
<1>6. CASE journal.phase \in {"switch", "drain"}
  <2>1. Becomes(journal', journal.to, journal.from, "switch", TRUE, journal.nonce + 1, Never, at)
    BY <1>2, <1>3, <1>6, EventFields
  <2>2. /\ journal'.from = journal.to /\ journal'.to = journal.from
        /\ journal'.phase = "switch" /\ journal'.rollback = TRUE
        /\ journal'.nonce = journal.nonce + 1 /\ journal'.last = at
        /\ ~journal'.complete /\ journal'.observed = {}
    BY <2>1 DEF Becomes
  <2>3. \A n \in Node : pc[n] # "idle" => Compatible(admitted[n], journal')
    BY ZenonT(60), <1>4, <1>6, <2>2 DEF IInv, ExecutionCompatible, Compatible, SamePair
  <2>4. \A n \in Node : pc[n] = "maintain" => Preceding(admitted[n], journal')
    BY <1>4, <1>6 DEF IInv, ExecutionMaintains, ExecutionCompatible, Preceding, Compatible
  <2>5. JournalShape'
    <3>1. Candidate(journal)' = Candidate(journal)
      BY <1>4, <2>2 DEF Candidate
    <3> QED BY <1>3, <2>2, <3>1 DEF IInv, JournalShape, native
  <2>6. NativeShape'
    BY ZenonT(60), <1>3, <1>6, <2>2 DEF IInv, NativeShape, Up, native
  <2>7. DrainShape'
    BY <1>3, <2>2, <1>a DEF DrainShape, native
  <2> QED BY <1>1, <1>3, <2>2, <2>3, <2>4, <2>5, <2>6, <2>7, FreshRound
<1> QED BY <1>4, <1>5, <1>6

\* Renewal replaces the round and keeps phase and drain deadline.
LEMMA RenewRoundIInv ==
    ASSUME IInv, RenewRound PROVE IInv'
<1>1. TypeOK' /\ TypeOK
  BY NextTypeOK DEF IInv, Next, Undisturbed
<1>2. PICK at \in Sampled : CanRenew(journal, at) /\ journal' = Renew(journal, at)
  BY DEF RenewRound
<1>3. /\ at \in Nat /\ at <= now /\ journal \in Journal /\ ~journal.complete
      /\ UNCHANGED <<now, proposal, agent, wire, native, boot>> /\ batch' \subseteq batch
  BY <1>1, <1>2, SampledIsNat DEF RenewRound, TypeOK, CanRenew, Chronology
<1>4. Becomes(journal', journal.from, journal.to, journal.phase, journal.rollback,
              journal.nonce + 1, journal.drainUntil, at)
  BY <1>2, <1>3, EventFields
<1>5. /\ journal'.from = journal.from /\ journal'.to = journal.to
      /\ journal'.phase = journal.phase /\ journal'.rollback = journal.rollback
      /\ journal'.nonce = journal.nonce + 1 /\ journal'.last = at
      /\ ~journal'.complete /\ journal'.observed = {}
      /\ journal'.drainUntil = journal.drainUntil
  BY <1>4 DEF Becomes
<1>6. \A n \in Node : pc[n] # "idle" => Compatible(admitted[n], journal')
  BY ZenonT(60), <1>3, <1>5 DEF IInv, ExecutionCompatible, Compatible, Preceding, SamePair
<1>7. \A n \in Node : pc[n] = "maintain" => Preceding(admitted[n], journal')
  BY <1>3, <1>5 DEF IInv, ExecutionMaintains, Preceding
<1>8. JournalShape'
  <2>1. Candidate(journal)' = Candidate(journal)
    BY <1>5 DEF Candidate
  <2> QED BY <1>3, <1>5, <2>1 DEF IInv, JournalShape, native
<1>9. NativeShape'
  BY ZenonT(60), <1>3, <1>5 DEF IInv, NativeShape, Up, native
<1>10. DrainShape'
  BY <1>3, <1>5 DEF IInv, DrainShape, native
<1> QED BY <1>1, <1>3, <1>5, <1>6, <1>7, <1>8, <1>9, <1>10, FreshRound

\* A successor starts from the serving generation of a completed journal.
LEMMA SucceedIInv ==
    ASSUME IInv, Succeed PROVE IInv'
<1>1. TypeOK' /\ TypeOK
  BY NextTypeOK DEF IInv, Next, Undisturbed
<1>2. PICK at \in Sampled : journal' = NewTransition(Serving(journal), proposal,
                                                     journal.nonce + 1, at)
  BY DEF Succeed
<1>3. /\ at \in Nat /\ at <= now /\ journal \in Journal /\ proposal \in Gen
      /\ journal.complete /\ proposal # Candidate(journal)
      /\ UNCHANGED <<now, proposal, agent, wire, native, boot>> /\ batch' \subseteq batch
  BY <1>1, SampledIsNat DEF Succeed, TypeOK
<1>4. Serving(journal) \in Gen
  BY <1>3, JournalFields DEF Serving
<1>5. Becomes(journal', Serving(journal), proposal, "prepare", FALSE, journal.nonce + 1,
              Never, at)
  BY <1>2, <1>3, <1>4, EventFields
<1>6. /\ journal'.from = Serving(journal) /\ journal'.to = proposal
      /\ journal'.phase = "prepare" /\ journal'.rollback = FALSE
      /\ journal'.nonce = journal.nonce + 1 /\ journal'.last = at
      /\ ~journal'.complete /\ journal'.observed = {}
  BY <1>5 DEF Becomes
<1>7. /\ Candidate(journal) < proposal /\ Candidate(journal) \in Nat /\ proposal \in Nat
      /\ Serving(journal) <= Candidate(journal) /\ Serving(journal) \in Nat
      /\ Removed(journal) <= Candidate(journal) /\ Removed(journal) \in Nat
      /\ Removed(journal) # Serving(journal)
      /\ journal.phase \in {"retire", "abort"}
  <2>1. Candidate(journal) \in Nat /\ proposal \in Nat /\ Serving(journal) \in Nat
        /\ Removed(journal) \in Nat /\ Candidate(journal) <= proposal
    BY <1>1, Facts DEF IInv, JournalShape, Candidate, Serving, Removed
  <2>2. /\ Serving(journal) <= Candidate(journal) /\ Removed(journal) <= Candidate(journal)
        /\ Removed(journal) # Serving(journal) /\ journal.phase \in {"retire", "abort"}
    BY <1>3 DEF IInv, JournalShape, Serving, Removed
  <2> QED BY SMTT(30), <1>3, <2>1, <2>2
<1>8. \A n \in Node : pc[n] # "idle" => Preceding(admitted[n], journal')
  <2>1. ASSUME NEW n \in Node, pc[n] # "idle"
        PROVE  /\ admitted[n].phase \in {"retire", "abort"}
               /\ Serving(admitted[n]) = Serving(journal)
               /\ Removed(admitted[n]) = Removed(journal)
    BY ZenonT(60), <1>3, <1>7, <2>1
       DEF IInv, ExecutionCompatible, Compatible, SamePair, Serving, Removed
  <2>2. Removed(journal) \notin {Serving(journal), proposal}
    BY SMTT(30), <1>7
  <2> QED BY <1>6, <2>1, <2>2 DEF Preceding
<1>9. \A n \in Node : pc[n] # "idle" => Compatible(admitted[n], journal')
  BY <1>6, <1>8 DEF Compatible
<1>a. \A n \in Node : /\ egress[n] < proposal /\ left[n].gen < proposal
                      /\ left[n].gen # proposal
  BY SMTT(30), <1>1, <1>7, Facts DEF IInv, JournalShape
<1>10. JournalShape'
  <2>1. Candidate(journal)' = proposal
    BY <1>6 DEF Candidate
  <2>2. \A n \in Node : egress[n] <= proposal /\ left[n].gen <= proposal
    BY SMTT(30), <1>1, <1>7, <1>a, Facts
  <2>3. Serving(journal) # proposal /\ Serving(journal) <= proposal /\ proposal <= proposal
    BY SMTT(30), <1>7
  <2> QED BY <1>3, <1>6, <2>1, <2>2, <2>3 DEF JournalShape, native
<1>11. NativeShape'
  <2>1. \A n \in Node : Up(n) => egress[n] = Serving(journal) /\ Serving(journal) \in recv[n]
    BY <1>7 DEF IInv, NativeShape, Serving
  <2> QED BY ZenonT(60), <1>3, <1>6, <2>1 DEF IInv, NativeShape, Up, native
<1>12. DrainShape'
  BY <1>3, <1>6, <1>a DEF IInv, DrainShape, native
<1> QED BY <1>1, <1>3, <1>6, <1>8, <1>9, <1>10, <1>11, <1>12, FreshRound

\* Every step of Handover keeps the inductive invariant.
LEMMA NextIInv == IInv /\ [Next]_vars => IInv'
<1> SUFFICES ASSUME IInv, [Next]_vars PROVE IInv'
  OBVIOUS
<1>0. TypeOK'
  BY NextTypeOK DEF IInv
<1>1. CASE Tick
  BY <1>1, TickIInv
<1>2. ASSUME NEW n \in Node, AgentStep(n) PROVE IInv'
  BY <1>2, AdmitIInv, NativePrepareIInv, NativeSwitchIInv, NativeDrainIInv,
     NativeRetireIInv, SendIInv, AbandonIInv, AdmitMaintenanceIInv, MaintainIInv
     DEF AgentStep
<1>3. ASSUME NEW r \in wire, Submit(r) PROVE IInv'
  BY <1>3, SubmitIInv
<1>4. ASSUME NEW r \in wire, Lose(r) PROVE IInv'
  BY <1>0, <1>4, LossIInv DEF Lose, control
<1>5. CASE Complete
  BY <1>5, AdvanceIInv, FinishIInv, Facts DEF IInv
<1>6. CASE CompleteRejected \/ CollectorRestart
  BY <1>0, <1>6, LossIInv DEF CompleteRejected, CollectorRestart, control
<1>7. CASE RollBack
  BY <1>7, RollBackIInv
<1>8. CASE RenewRound
  BY <1>8, RenewRoundIInv
<1>9. CASE Propose
  BY <1>0, <1>9, LossIInv DEF Propose
<1>10. CASE Succeed
  BY <1>10, SucceedIInv
<1>11. ASSUME NEW n \in Node, Reboot(n) PROVE IInv'
  BY <1>11, RebootIInv
<1>12. CASE UNCHANGED vars
  BY <1>0, <1>12, LossIInv DEF vars, agent, native
<1> QED BY <1>1, <1>2, <1>3, <1>4, <1>5, <1>6, <1>7, <1>8, <1>9, <1>10, <1>11, <1>12
           DEF Next, Undisturbed

\* The journal, the executions, the receipts and the native state of every
\* behaviour stay in step.
THEOREM Inductive == Spec => []IInv
  BY InitIInv, NextIInv, PTL DEF Spec

(***************************************************************************)
(* What follows from it.                                                   *)
(***************************************************************************)
\* No handover, rollback or reboot makes a running Node select a generation
\* that another running Node does not receive.
THEOREM Uninterrupted == Spec => []SelectedIsReceived
<1>1. IInv => SelectedIsReceived
  BY Facts DEF IInv, NativeShape, SelectedIsReceived
<1> QED BY <1>1, Inductive, PTL

\* A receipt still says the truth when the collector or a relayed Node uses it.
THEOREM TruthfulReceipts == Spec => []ReceiptsStayTrue
<1>1. IInv => ReceiptsStayTrue
  BY DEF IInv
<1> QED BY <1>1, Inductive, PTL

\* Completion is a fact about every running Node, and stays one.
THEOREM CompletionIsGlobal == Spec => []CompletedEverywhere
<1>1. IInv => CompletedEverywhere
  BY DEF IInv, NativeShape, JournalShape, CompletedEverywhere, Serving
<1> QED BY <1>1, Inductive, PTL

\* An execution that removes a generation removes one that is drained, however
\* long ago it was admitted.
LEMMA RemovalIsSafe ==
    ASSUME IInv, NEW n \in Node, pc[n] = "native",
           admitted[n].phase \in {"retire", "abort"}, NEW m \in Node
    PROVE  /\ egress[m] # Removed(admitted[n])
           /\ left[m].gen = Removed(admitted[n]) => now >= left[m].at + DrainInterval
<1> DEFINE a == admitted[n]
<1>1. Compatible(a, journal)
  BY DEF IInv, ExecutionCompatible
<1>2. /\ journal.phase \in {"prepare", "abort", "retire"}
      /\ journal.phase \in {"prepare", "abort"} => Removed(a) # journal.from
      /\ journal.phase = "retire" => Removed(a) # journal.to
  BY <1>1, Facts DEF IInv, JournalShape, Compatible, Preceding, SamePair, Removed
<1>3. Removed(a) \in Nat
  BY Facts DEF IInv, Removed
<1>4. egress[m] # Removed(a)
  BY <1>2, <1>3, DownIsInt DEF IInv, NativeShape, Up
<1>5. ASSUME left[m].gen = Removed(a) PROVE now >= left[m].at + DrainInterval
  <2>1. left[m].at + DrainInterval <= now
    BY <1>5 DEF IInv, ExecutionDrained, DrainedNow
  <2> QED BY <2>1, Facts, PolicyAssumption DEF IInv
<1> QED BY <1>4, <1>5

\* What the steps that change native state do to it.
LEMMA NativeSteps ==
    ASSUME IInv, Next
    PROVE  \/ UNCHANGED <<recv, egress, left>>
           \/ \E n \in Node : \/ NativePrepare(n)
                              \/ NativeSwitch(n)
                              \/ NativeRetire(n)
                              \/ NativeAbort(n)
                              \/ Maintain(n)
                              \/ Reboot(n)
  BY DEF Next, Undisturbed, AgentStep, Tick, Admit, NativeDrain, Send, Abandon,
         AdmitMaintenance, Submit, Lose, Complete, CompleteRejected, CollectorRestart,
         RollBack, RenewRound, Propose, Succeed, native

\* Nothing is ever removed while selected or within DrainInterval of it.
THEOREM RemovalWaitsForDrain == Spec => RetiredOnlyDrained
<1> DEFINE Step == \A n \in Node : boot'[n] = boot[n] =>
                      \A g \in recv[n] \ recv'[n], m \in Node :
                          /\ egress[m] # g
                          /\ left[m].gen = g => now >= left[m].at + DrainInterval
<1>1. ASSUME IInv, Next PROVE Step
  <2>1. SUFFICES ASSUME NEW n \in Node, boot'[n] = boot[n],
                        NEW g \in recv[n], g \notin recv'[n], NEW m \in Node
                 PROVE  /\ egress[m] # g
                        /\ left[m].gen = g => now >= left[m].at + DrainInterval
    OBVIOUS
  <2>2. TypeOK
    BY <1>1 DEF IInv
  <2>3. ~UNCHANGED <<recv, egress, left>>
    BY <2>1
  <2>4. PICK k \in Node : \/ NativePrepare(k) \/ NativeSwitch(k) \/ NativeRetire(k)
                          \/ NativeAbort(k) \/ Maintain(k) \/ Reboot(k)
    BY <1>1, <2>3, NativeSteps
  <2>5. ~(NativePrepare(k) \/ NativeSwitch(k) \/ Maintain(k))
    BY ZenonT(60), <2>1, <2>2 DEF NativePrepare, NativeSwitch, Maintain, TypeOK
  <2>6. ~Reboot(k)
    <3> SUFFICES ASSUME Reboot(k) PROVE FALSE
      OBVIOUS
    <3>1. k = n
      BY <2>1, <2>2 DEF Reboot, TypeOK
    <3>2. boot[n] \in Nat /\ boot'[n] = boot[n] + 1
      BY <2>2, <3>1 DEF Reboot, TypeOK
    <3> QED BY SMTT(30), <2>1, <3>2
  <2>7. /\ pc[k] = "native" /\ admitted[k].phase \in {"retire", "abort"}
        /\ g = Removed(admitted[k])
    BY ZenonT(60), <2>1, <2>2, <2>4, <2>5, <2>6
       DEF NativeRetire, NativeAbort, Executes, TypeOK, Removed
  <2> QED BY <1>1, <2>7, RemovalIsSafe
<1>2. IInv /\ [Next]_vars => [Step]_vars
  BY <1>1
<1> QED BY <1>2, Inductive, PTL DEF Spec, RetiredOnlyDrained

(***************************************************************************)
(* Handover implements MakeBeforeBreak: each step is a step or a stutter   *)
(* of the promise.                                                         *)
(***************************************************************************)
LEMMA InitPromise == Init => Abstract!Init
  BY DEF Init, Abstract!Init, Abstract!Down, Down, Never

\* A switch selects a generation that every running Node receives.
LEMMA SwitchPromise ==
    ASSUME IInv, NEW n \in Node, NativeSwitch(n)
    PROVE  Abstract!Switch(n) \/ UNCHANGED Abstract!vars
<1> DEFINE a == admitted[n]
<1>1. TypeOK
  BY DEF IInv
<1>2. Compatible(a, journal) /\ a.phase = "switch" /\ {a.from, a.to} \subseteq recv[n]
      /\ pc[n] = "native"
  BY DEF NativeSwitch, Executes, IInv, ExecutionCompatible
<1>3. /\ journal.phase \in {"switch", "drain"}
      /\ a.to \in {journal.from, journal.to}
  BY <1>1, <1>2, Facts DEF Compatible, Preceding, SamePair
<1>4. egress[n] # Down
  BY <1>2 DEF IInv, NativeShape, Up
<1>5. \A m \in Node : egress[m] # Down => a.to \in recv[m]
  BY <1>3 DEF IInv, NativeShape, Up
<1>6. /\ egress' = [egress EXCEPT ![n] = a.to] /\ UNCHANGED <<now, recv>>
      /\ left' = IF egress[n] \in {a.to, Down} THEN left
                 ELSE [left EXCEPT ![n] = [gen |-> egress[n], at |-> now]]
  BY DEF NativeSwitch, Select, Observed
<1>7. CASE egress[n] = a.to
  BY <1>1, <1>6, <1>7 DEF TypeOK, Abstract!vars
<1>8. CASE egress[n] # a.to
  <2>1. egress'[n] = a.to
    BY <1>1, <1>6 DEF TypeOK
  <2> QED BY <1>4, <1>5, <1>6, <1>8, <2>1
          DEF Abstract!Switch, Abstract!Receivable, Abstract!Down, Down
<1> QED BY <1>7, <1>8

\* A removal is a retirement of something drained, or nothing is left to do.
LEMMA RetirePromise ==
    ASSUME IInv, NEW n \in Node, NativeRetire(n) \/ NativeAbort(n)
    PROVE  (\E g \in recv[n] : Abstract!Retire(n, g)) \/ UNCHANGED Abstract!vars
<1> DEFINE g == Removed(admitted[n])
<1>1. /\ pc[n] = "native" /\ admitted[n].phase \in {"retire", "abort"}
      /\ recv' = [recv EXCEPT ![n] = @ \ {g}] /\ UNCHANGED <<now, egress, left>>
  BY DEF NativeRetire, NativeAbort, Executes, Observed, Removed
<1>2. Abstract!Drained(g)
  BY <1>1, RemovalIsSafe DEF Abstract!Drained
<1>3. CASE g \in recv[n]
  BY <1>1, <1>2, <1>3 DEF Abstract!Retire
<1>4. CASE g \notin recv[n]
  BY SMTT(30), <1>1, <1>4 DEF IInv, TypeOK, Abstract!vars
<1> QED BY <1>3, <1>4

\* Maintenance adds receive paths to a running Node and brings a rebooted one
\* back to the generation the others select.
LEMMA MaintainPromise ==
    ASSUME IInv, NEW n \in Node, Maintain(n)
    PROVE  Abstract!Install(n) \/ Abstract!Return(n)
<1> DEFINE a == admitted[n]
           s == Serving(admitted[n])
<1>1. TypeOK /\ pc[n] = "maintain"
  BY DEF IInv, Maintain
<1>2. /\ recv' = [recv EXCEPT ![n] = @ \cup {s} \cup request[n]]
      /\ egress' = [egress EXCEPT ![n] = s]
      /\ left' = IF egress[n] \in {s, Down} THEN left
                 ELSE [left EXCEPT ![n] = [gen |-> egress[n], at |-> now]]
      /\ UNCHANGED now
  BY DEF Maintain, Select
<1>3. /\ journal.complete => SameRound(a, journal)
      /\ ~journal.complete => Preceding(a, journal)
      /\ Compatible(a, journal)
  BY <1>1 DEF IInv, ExecutionMaintains, ExecutionCompatible
<1>4. \A m \in Node : egress[m] # Down => egress[m] = s /\ s \in recv[m]
  <2>1. CASE journal.complete
    <3>1. s = Serving(journal) /\ journal.phase \in {"retire", "abort"}
      BY <1>3, <2>1 DEF SameRound, SamePair, Serving, IInv, JournalShape
    <3> QED BY <2>1, <3>1 DEF IInv, NativeShape, Up, Serving
  <2>2. CASE ~journal.complete
    <3>1. journal.phase \in {"prepare", "abort"} /\ s = journal.from
      BY <1>1, <1>3, <2>2, Facts
         DEF Compatible, Preceding, SamePair, Serving, IInv, JournalShape
    <3> QED BY <3>1 DEF IInv, NativeShape, Up
  <2> QED BY <2>1, <2>2
<1>5. left' = left
  BY <1>2, <1>4
<1>6. /\ recv'[n] = recv[n] \cup {s} \cup request[n] /\ egress'[n] = s
      /\ \A m \in Node : m # n => egress'[m] = egress[m]
  BY <1>1, <1>2 DEF TypeOK
<1> HIDE DEF s
<1>7. CASE egress[n] # Down
  <2>1. egress' = egress
    BY <1>1, <1>2, <1>4, <1>7 DEF TypeOK
  <2> QED BY <1>2, <1>5, <1>6, <2>1 DEF Abstract!Install
<1>8. CASE egress[n] = Down
  <2>1. Abstract!Receivable(egress'[n])
    BY <1>4, <1>6 DEF Abstract!Receivable, Abstract!Down, Down
  <2>2. \A m \in Node : egress'[m] # Down => egress'[m] \in recv'[n]
    BY <1>4, <1>6
  <2> QED BY <1>2, <1>5, <1>6, <1>8, <2>1, <2>2 DEF Abstract!Return, Abstract!Down, Down
<1> QED BY <1>7, <1>8

\* Every step of the protocol is a step of MakeBeforeBreak or a stutter.
LEMMA NextPromise == IInv /\ [Next]_vars => [Abstract!Next]_(Abstract!vars)
<1> SUFFICES ASSUME IInv, [Next]_vars, ~UNCHANGED Abstract!vars PROVE Abstract!Next
  OBVIOUS
<1>1. TypeOK /\ Next
  BY DEF IInv, vars, Abstract!vars
<1>2. CASE Tick
  BY <1>2 DEF Tick, native, Abstract!Tick, Abstract!Next
<1>3. ASSUME NEW n \in Node, NativePrepare(n) PROVE Abstract!Next
  <2>1. Abstract!Install(n)
    BY <1>1, <1>3 DEF NativePrepare, Observed, TypeOK, Abstract!Install
  <2> QED BY <2>1 DEF Abstract!Next
<1>4. ASSUME NEW n \in Node, NativeSwitch(n) PROVE Abstract!Next
  BY <1>4, SwitchPromise DEF Abstract!Next
<1>5. ASSUME NEW n \in Node, NativeRetire(n) \/ NativeAbort(n) PROVE Abstract!Next
  BY <1>5, RetirePromise DEF Abstract!Next
<1>6. ASSUME NEW n \in Node, Maintain(n) PROVE Abstract!Next
  BY <1>6, MaintainPromise DEF Abstract!Next
<1>7. ASSUME NEW n \in Node, Reboot(n) PROVE Abstract!Next
  <2>1. Abstract!Reboot(n)
    BY <1>7 DEF Reboot, Abstract!Reboot, Abstract!Down, Down
  <2> QED BY <2>1 DEF Abstract!Next
<1>8. CASE ~Tick /\ UNCHANGED <<recv, egress, left>>
  <2>1. UNCHANGED now
    BY <1>1, <1>8
       DEF Next, Undisturbed, AgentStep, Admit, NativePrepare, NativeSwitch, NativeDrain,
           NativeRetire, NativeAbort, Observed, Send, Abandon, AdmitMaintenance, Maintain,
           Reboot, Submit, Lose, Complete, CompleteRejected, CollectorRestart, RollBack,
           RenewRound, Propose, Succeed
  <2> QED BY <1>8, <2>1 DEF Abstract!vars
<1> QED BY <1>1, <1>2, <1>3, <1>4, <1>5, <1>6, <1>7, <1>8, NativeSteps

\* The journal, rounds and receipts implement make-before-break for every set
\* of Nodes: nothing the agents, the collector or recovery do is visible to
\* traffic as anything else.
THEOREM Refinement == Spec => KeepsPromise
  BY InitPromise, NextPromise, Inductive, PTL DEF Spec, KeepsPromise, Abstract!Spec
-----------------------------------------------------------------------------
\* An execution of a switch to g that has not selected it yet.
Heading(n, g) ==
    pc[n] = "native" /\ admitted[n].phase = "switch" /\ admitted[n].to = g

\* A Node on the journal's target stays there until the next round.
Settled(n) ==
    Up(n) => egress[n] = journal.to /\ ~Heading(n, journal.from)

\* A Node that could be on the target reaches a tunnel there.
Solid(n) ==
    Via[journal.to][n] # Direct => Settled(Via[journal.to][n])

\* Going forward every Node on the target follows its relay.  Going back, a
\* Node that stays behind has a relay which is behind too, or reaches a tunnel
\* on the target.
RelayOrder ==
    /\ ~journal.rollback =>
          \A n \in Node : /\ Up(n) /\ egress[n] = journal.to => Solid(n)
                          /\ ~Heading(n, journal.from)
    /\ journal.rollback =>
          \A n \in Node : /\ egress[n] = journal.from
                          /\ Via[journal.from][n] # Direct
                          /\ egress[Via[journal.from][n]] = journal.to
                          => Solid(Via[journal.from][n])

\* What the receipts behind an execution in progress say of their Nodes.
RelayEvidence ==
    /\ \A r \in journal.observed : Settled(r.node)
    /\ \A n \in Node, r \in Receipt :
          r \in admitted[n].observed =>
             /\ Heading(n, journal.to) => Settled(r.node)
             /\ Heading(n, journal.from) => \/ ~Up(r.node)
                                            \/ egress[r.node] = journal.from
                                            \/ Solid(r.node)

RelayInv == journal.phase = "switch" => RelayOrder /\ RelayEvidence

\* What a step of a switch does to a Node: only its own execution selects, and
\* what it executes was admitted before or is the current round.
LEMMA NodeStep ==
    ASSUME IInv, [Next]_vars, journal.phase = "switch", NEW m \in Node
    PROVE  /\ \/ egress'[m] = egress[m] \/ egress'[m] = Down
              \/ NativeSwitch(m) /\ egress'[m] = admitted[m].to /\ pc'[m] = "observed"
           /\ \/ pc'[m] # "native"
              \/ pc'[m] = pc[m] /\ admitted'[m] = admitted[m]
              \/ admitted'[m] = journal
<1> DEFINE Goal ==
             /\ \/ egress'[m] = egress[m] \/ egress'[m] = Down
                \/ NativeSwitch(m) /\ egress'[m] = admitted[m].to /\ pc'[m] = "observed"
             /\ \/ pc'[m] # "native"
                \/ pc'[m] = pc[m] /\ admitted'[m] = admitted[m]
                \/ admitted'[m] = journal
<1> SUFFICES Goal
  OBVIOUS
<1>1. /\ pc \in [Node -> {"idle", "native", "observed", "maintain"}]
      /\ admitted \in [Node -> Journal] /\ egress \in [Node -> Gen \cup {Down}]
  BY DEF IInv, TypeOK
<1>2. ASSUME NEW n \in Node, Admit(n) PROVE Goal
  BY <1>1, <1>2 DEF Admit, native
<1>3. ASSUME NEW n \in Node,
             \/ NativePrepare(n) \/ NativeDrain(n) \/ NativeRetire(n) \/ NativeAbort(n)
      PROVE  Goal
  <2>1. egress' = egress /\ Observed(n)
    BY <1>3 DEF NativePrepare, NativeDrain, NativeRetire, NativeAbort, native
  <2> QED BY <1>1, <2>1 DEF Observed
<1>4. ASSUME NEW n \in Node, NativeSwitch(n) PROVE Goal
  <2>1. egress' = [egress EXCEPT ![n] = admitted[n].to] /\ Observed(n)
    BY <1>4 DEF NativeSwitch, Select
  <2> QED BY <1>1, <1>4, <2>1 DEF Observed
<1>5. ASSUME NEW n \in Node, Send(n) \/ Abandon(n) PROVE Goal
  <2>1. egress' = egress /\ Idle(n)
    BY <1>5 DEF Send, Abandon, native
  <2> QED BY <1>1, <2>1 DEF Idle
<1>6. ASSUME NEW n \in Node, AdmitMaintenance(n) PROVE Goal
  BY <1>1, <1>6 DEF AdmitMaintenance, native
<1>7. ASSUME NEW n \in Node, Maintain(n) PROVE FALSE
  <2>1. /\ ~journal.complete => Preceding(admitted[n], journal)
        /\ journal.complete => SameRound(admitted[n], journal)
        /\ Compatible(admitted[n], journal)
    BY <1>7 DEF Maintain, IInv, ExecutionMaintains, ExecutionCompatible
  <2>2. ~journal.complete
    BY DEF IInv, JournalShape
  <2> QED BY <2>1, <2>2 DEF Preceding, Compatible
<1>8. ASSUME NEW n \in Node, Reboot(n) PROVE Goal
  BY <1>1, <1>8 DEF Reboot, Idle
<1>9. CASE UNCHANGED <<egress, pc, admitted>>
  BY <1>9
<1>10. ASSUME NEW n \in Node, AgentStep(n) PROVE Goal
  BY <1>2, <1>3, <1>4, <1>5, <1>6, <1>7, <1>10 DEF AgentStep
<1>11. ASSUME NEW r \in wire, Submit(r) \/ Lose(r) PROVE Goal
  <2>1. UNCHANGED <<egress, pc, admitted>>
    BY <1>11 DEF Submit, Lose, agent, native
  <2> QED BY <1>9, <2>1
<1>12. CASE \/ Tick \/ Complete \/ CompleteRejected \/ CollectorRestart \/ RollBack
            \/ RenewRound \/ Propose \/ Succeed \/ UNCHANGED vars
  <2>1. UNCHANGED <<egress, pc, admitted>>
    BY <1>12 DEF Tick, Complete, CompleteRejected, CollectorRestart, RollBack, RenewRound,
                 Propose, Succeed, agent, native, vars
  <2> QED BY <1>9, <2>1
<1> HIDE DEF Goal
<1>13. CASE Undisturbed
  BY <1>10, <1>11, <1>12, <1>13 DEF Undisturbed
<1> QED BY <1>8, <1>12, <1>13 DEF Next

\* How the journal comes to be in a switch, or stays in it.
LEMMA SwitchJournal ==
    ASSUME IInv, [Next]_vars, journal'.phase = "switch"
    PROVE  \/ /\ journal.phase = "switch" /\ journal'.from = journal.from
              /\ journal'.to = journal.to /\ journal'.rollback = journal.rollback
              /\ \A r \in journal'.observed :
                    \/ r \in journal.observed
                    \/ /\ r \in Receipts /\ r.boot = boot[r.node]
                       /\ r.nonce = journal.nonce /\ ~journal.complete
                       /\ UNCHANGED <<pc, admitted, egress>>
           \/ /\ journal.phase = "prepare" /\ ~journal'.rollback /\ journal'.observed = {}
              /\ journal'.from = journal.from /\ journal'.to = journal.to
              /\ UNCHANGED <<pc, admitted, egress>>
           \/ /\ journal.phase \in {"switch", "drain"}
              /\ ~journal.rollback /\ journal'.rollback /\ journal'.observed = {}
              /\ journal'.from = journal.to /\ journal'.to = journal.from
              /\ UNCHANGED <<pc, admitted, egress>>
<1> DEFINE Stays == /\ journal.phase = "switch" /\ journal'.from = journal.from
                    /\ journal'.to = journal.to /\ journal'.rollback = journal.rollback
                    /\ \A r \in journal'.observed :
                          \/ r \in journal.observed
                          \/ /\ r \in Receipts /\ r.boot = boot[r.node]
                             /\ r.nonce = journal.nonce /\ ~journal.complete
                             /\ UNCHANGED <<pc, admitted, egress>>
           Starts == /\ journal.phase = "prepare" /\ ~journal'.rollback
                     /\ journal'.observed = {}
                     /\ journal'.from = journal.from /\ journal'.to = journal.to
                     /\ UNCHANGED <<pc, admitted, egress>>
           Turns == /\ journal.phase \in {"switch", "drain"}
                    /\ ~journal.rollback /\ journal'.rollback /\ journal'.observed = {}
                    /\ journal'.from = journal.to /\ journal'.to = journal.from
                    /\ UNCHANGED <<pc, admitted, egress>>
<1> SUFFICES Stays \/ Starts \/ Turns
  OBVIOUS
<1>0. TypeOK /\ journal \in Journal
  BY DEF IInv, TypeOK
<1>1. CASE journal' = journal
  BY <1>1
<1>2. ASSUME NEW r \in wire, Submit(r) PROVE Stays
  <2>1. PICK at \in Sampled : CanObserve(journal, at, r) /\ journal' = Observe(journal, at, r)
    BY <1>2 DEF Submit
  <2>2. r \in Receipt /\ at \in Nat
    BY <1>0, SampledIsNat DEF TypeOK
  <2>3. Continues(journal', journal, at, FALSE, journal.observed \cup {r})
    BY <1>0, <2>1, <2>2, ObserveFields
  <2>4. /\ r \in Receipts /\ r.boot = boot[r.node] /\ r.nonce = journal.nonce
        /\ ~journal.complete /\ UNCHANGED <<pc, admitted, egress>>
    BY <1>2, <2>1 DEF Submit, Authentic, CanObserve, ValidReceipt, Chronology, Receipts,
                      agent, native
  <2> QED BY <2>3, <2>4 DEF Continues
<1>3. CASE Complete
  <2>1. PICK at \in Sampled : Advances(at) /\ journal' = Advance(journal, at)
    BY <1>3 DEF Complete
  <2>2. at \in Nat /\ ~journal.complete /\ UNCHANGED <<pc, admitted, egress>>
    BY <1>3, <2>1, SampledIsNat DEF Complete, Advances, CanAdvance, Chronology, agent, native
  <2>3. journal.phase = "prepare"
    <3>1. journal.phase \in {"prepare", "switch", "drain", "retire", "abort"}
      BY <1>0, JournalFields DEF Phase
    <3>2. CASE journal.phase = "switch"
      <4>1. Becomes(journal', journal.from, journal.to, "drain", journal.rollback,
                    journal.nonce + 1, at + DrainInterval, at)
        BY <1>0, <2>1, <2>2, <3>2, EventFields
      <4> QED BY <4>1 DEF Becomes
    <3>3. CASE journal.phase = "drain"
      <4>1. Becomes(journal', journal.from, journal.to, "retire", journal.rollback,
                    journal.nonce + 1, journal.drainUntil, at)
        BY <1>0, <2>1, <2>2, <3>3, EventFields
      <4> QED BY <4>1 DEF Becomes
    <3>4. CASE journal.phase \in {"retire", "abort"}
      <4>1. journal' = Finish(journal, at)
        BY <1>0, <2>1, <2>2, <3>4, EventFields
      <4>2. journal'.phase = journal.phase
        BY <1>0, <2>2, <4>1, FinishFields DEF Continues
      <4> QED BY <3>4, <4>2
    <3> QED BY <3>1, <3>2, <3>3, <3>4
  <2>4. /\ journal'.from = journal.from /\ journal'.to = journal.to
        /\ journal'.rollback = journal.rollback /\ journal'.observed = {}
    <3>1. Becomes(journal', journal.from, journal.to, "switch", journal.rollback,
                  journal.nonce + 1, journal.drainUntil, at)
      BY <1>0, <2>1, <2>2, <2>3, EventFields
    <3> QED BY <3>1 DEF Becomes
  <2>5. ~journal.rollback
    BY <2>3 DEF IInv, JournalShape
  <2> QED BY <2>2, <2>3, <2>4, <2>5
<1>4. CASE RollBack
  <2>1. PICK at \in Sampled : CanRollback(journal, at) /\ journal' = Rollback(journal, at)
    BY <1>4 DEF RollBack
  <2>2. /\ at \in Nat /\ ~journal.rollback /\ UNCHANGED <<pc, admitted, egress>>
        /\ journal.phase \in {"prepare", "switch", "drain"}
    BY <1>4, <2>1, SampledIsNat DEF RollBack, CanRollback, agent, native
  <2>3. journal.phase # "prepare"
    BY ZenonT(30), <1>0, <2>1, <2>2, EventFields DEF Becomes
  <2>4. Becomes(journal', journal.to, journal.from, "switch", TRUE, journal.nonce + 1, Never, at)
    BY <1>0, <2>1, <2>2, <2>3, EventFields
  <2> QED BY <2>2, <2>3, <2>4 DEF Becomes
<1>5. CASE RenewRound
  <2>1. PICK at \in Sampled : CanRenew(journal, at) /\ journal' = Renew(journal, at)
    BY <1>5 DEF RenewRound
  <2>2. at \in Nat
    BY SampledIsNat
  <2>3. Becomes(journal', journal.from, journal.to, journal.phase, journal.rollback,
                journal.nonce + 1, journal.drainUntil, at)
    BY <1>0, <2>1, <2>2, EventFields
  <2> QED BY <2>3 DEF Becomes
<1>6. ~Succeed
  <2> SUFFICES ASSUME Succeed PROVE FALSE
    OBVIOUS
  <2>1. PICK at \in Sampled : journal' = NewTransition(Serving(journal), proposal,
                                                       journal.nonce + 1, at)
    BY DEF Succeed
  <2>2. journal'.phase = "prepare"
    BY SMTT(30), <2>1 DEF NewTransition, NewRound
  <2> QED BY <2>2
<1>7. ASSUME NEW n \in Node, AgentStep(n) \/ Reboot(n) PROVE journal' = journal
  BY <1>7 DEF AgentStep, Admit, NativePrepare, NativeSwitch, NativeDrain, NativeRetire,
              NativeAbort, Observed, Send, Abandon, AdmitMaintenance, Maintain, Reboot, control
<1>8. ASSUME NEW r \in wire, Lose(r) PROVE journal' = journal
  BY <1>8 DEF Lose, control
<1>9. CASE Tick \/ CompleteRejected \/ CollectorRestart \/ Propose \/ UNCHANGED vars
  <2>1. journal' = journal
    BY <1>9 DEF Tick, CompleteRejected, CollectorRestart, Propose, control, vars
  <2> QED BY <1>1, <2>1
<1> HIDE DEF Stays, Starts, Turns
<1>10. Stays \/ Starts \/ Turns
  BY <1>1, <1>2, <1>3, <1>4, <1>5, <1>6, <1>7, <1>8, <1>9 DEF Next, Undisturbed
<1> QED BY <1>10

\* A relay is a Node with a tunnel of its own.
LEMMA RelayIsNode ==
    ASSUME TypeOK, NEW n \in Node, NEW g \in Gen, Via[g][n] # Direct
    PROVE  Via[g][n] \in Node /\ Via[g][Via[g][n]] = Direct
  BY ViaAssumption

\* A switch that is executed late is one of the journal's two directions.
LEMMA HeadingKnown ==
    ASSUME IInv, NEW n \in Node, NEW g, Heading(n, g), journal.phase = "switch"
    PROVE  g \in {journal.from, journal.to}
  BY DEF IInv, ExecutionCompatible, Compatible, Heading

\* A Node that selects was running.
LEMMA SwitchIsUp ==
    ASSUME IInv, NEW n \in Node, NativeSwitch(n)
    PROVE  Up(n) /\ Heading(n, admitted[n].to)
  BY DEF NativeSwitch, Executes, Heading, IInv, NativeShape

\* While the direction stays, so does a settled Node.
LEMMA SettledStays ==
    ASSUME IInv, [Next]_vars, journal.phase = "switch", journal'.phase = "switch",
           journal'.from = journal.from, journal'.to = journal.to,
           NEW m \in Node, Settled(m)
    PROVE  Settled(m)'
<1> SUFFICES ASSUME Up(m)' PROVE egress'[m] = journal.to /\ ~Heading(m, journal.from)'
  BY DEF Settled
<1>1. egress'[m] # Down /\ journal.from # journal.to
  BY DEF Up, IInv, JournalShape
<1>2. CASE egress'[m] = egress[m]
  <2>1. egress[m] = journal.to /\ ~Heading(m, journal.from)
    BY <1>1, <1>2 DEF Settled, Up
  <2>2. ~Heading(m, journal.from)'
    <3> SUFFICES ASSUME Heading(m, journal.from)' PROVE FALSE
      OBVIOUS
    <3>1. pc'[m] = "native" /\ admitted'[m].phase = "switch" /\ admitted'[m].to = journal.from
      BY DEF Heading
    <3>2. CASE pc'[m] = pc[m] /\ admitted'[m] = admitted[m]
      BY <2>1, <3>1, <3>2 DEF Heading
    <3>3. CASE admitted'[m] = journal
      BY <1>1, <3>1, <3>3
    <3> QED BY <3>1, <3>2, <3>3, NodeStep
  <2> QED BY <1>2, <2>1, <2>2
<1>3. CASE NativeSwitch(m) /\ egress'[m] = admitted[m].to /\ pc'[m] = "observed"
  <2>1. Up(m) /\ Heading(m, admitted[m].to)
    BY <1>3, SwitchIsUp
  <2>2. admitted[m].to = journal.to
    BY <2>1, HeadingKnown DEF Settled
  <2>3. ~Heading(m, journal.from)'
    BY <1>3 DEF Heading
  <2> QED BY <1>3, <2>2, <2>3
<1> QED BY <1>1, <1>2, <1>3, NodeStep

LEMMA SolidStays ==
    ASSUME IInv, [Next]_vars, journal.phase = "switch", journal'.phase = "switch",
           journal'.from = journal.from, journal'.to = journal.to,
           NEW m \in Node, Solid(m)
    PROVE  Solid(m)'
<1> SUFFICES ASSUME Via[journal.to][m] # Direct PROVE Settled(Via[journal.to][m])'
  BY DEF Solid
<1>1. Via[journal.to][m] \in Node
  BY SMTT(30), RelayIsNode, Facts, JournalFields DEF IInv
<1> QED BY <1>1, SettledStays DEF Solid

\* A relayed Node selects after its relay's receipt.
LEMMA SwitchFollowsRelay ==
    ASSUME IInv, RelayInv, journal.phase = "switch", NEW n \in Node, NativeSwitch(n)
    PROVE  /\ admitted[n].to = journal.to => Solid(n)
           /\ LET p == Via[journal.from][n] IN
              admitted[n].to = journal.from /\ p # Direct =>
                 ~Up(p) \/ egress[p] = journal.from \/ Solid(p)
<1>1. Heading(n, admitted[n].to)
  BY SwitchIsUp
<1> DEFINE relay == Via[admitted[n].to][n]
<1>2. ASSUME relay # Direct
      PROVE  \E r \in Receipt : r \in admitted[n].observed /\ r.node = relay
  <2>1. RelayFresh(admitted[n], n) /\ admitted[n].phase = "switch"
    BY DEF NativeSwitch, Executes
  <2>2. \E r \in ObservedOf(admitted[n], relay) : TRUE
    BY <1>2, <2>1 DEF RelayFresh
  <2>3. admitted[n].observed \subseteq Receipt
    BY Facts, JournalFields DEF IInv
  <2> QED BY <2>2, <2>3 DEF ObservedOf
<1>3. ASSUME relay # Direct
      PROVE  /\ Heading(n, journal.to) => Settled(relay)
             /\ Heading(n, journal.from) => \/ ~Up(relay) \/ egress[relay] = journal.from
                                            \/ Solid(relay)
  <2>1. PICK r \in Receipt : r \in admitted[n].observed /\ r.node = relay
    BY <1>2, <1>3
  <2> QED BY <2>1 DEF RelayInv, RelayEvidence
<1> QED BY <1>1, <1>3 DEF Solid

\* Within one direction of a switch the relays keep their order.
LEMMA RelaysKeepOrder ==
    ASSUME IInv, RelayInv, [Next]_vars, journal.phase = "switch", journal'.phase = "switch",
           journal'.from = journal.from, journal'.to = journal.to,
           journal'.rollback = journal.rollback
    PROVE  RelayOrder'
<1>1. /\ RelayOrder /\ TypeOK /\ journal.from # journal.to
      /\ journal.from \in Gen /\ journal.to \in Gen
      /\ journal.from # Down /\ journal.to # Down
  BY JournalFields, GenIsNat DEF IInv, RelayInv, JournalShape, TypeOK
<1>2. \A m \in Node : Solid(m) => Solid(m)'
  BY SolidStays
<1>3. ASSUME NEW n \in Node, ~journal.rollback
      PROVE  /\ Up(n)' /\ egress'[n] = journal.to => Solid(n)'
             /\ ~Heading(n, journal.from)'
  <2>1. /\ Up(n) /\ egress[n] = journal.to => Solid(n)
        /\ ~Heading(n, journal.from)
    BY <1>1, <1>3 DEF RelayOrder
  <2>2. ASSUME egress'[n] = journal.to PROVE Solid(n)'
    <3>1. CASE egress'[n] = egress[n]
      BY <1>1, <1>2, <2>1, <2>2, <3>1 DEF Up
    <3>2. CASE NativeSwitch(n) /\ egress'[n] = admitted[n].to
      BY <1>2, <2>2, <3>2, SwitchFollowsRelay
    <3> QED BY <1>1, <2>2, <3>1, <3>2, NodeStep
  <2>3. ~Heading(n, journal.from)'
    <3> SUFFICES ASSUME Heading(n, journal.from)' PROVE FALSE
      OBVIOUS
    <3>1. pc'[n] = "native" /\ admitted'[n].phase = "switch" /\ admitted'[n].to = journal.from
      BY DEF Heading
    <3>2. CASE pc'[n] = pc[n] /\ admitted'[n] = admitted[n]
      BY <2>1, <3>1, <3>2 DEF Heading
    <3>3. CASE admitted'[n] = journal
      BY <1>1, <3>1, <3>3
    <3> QED BY <3>1, <3>2, <3>3, NodeStep
  <2> QED BY <2>2, <2>3
<1>4. ASSUME NEW n \in Node, journal.rollback, egress'[n] = journal.from,
             Via[journal.from][n] # Direct, egress'[Via[journal.from][n]] = journal.to
      PROVE  Solid(Via[journal.from][n])'
  <2> DEFINE p == Via[journal.from][n]
  <2>1. p \in Node
    BY SMTT(30), <1>1, <1>4, RelayIsNode
  <2> HIDE DEF p
  <2>2. CASE NativeSwitch(p) /\ egress'[p] = admitted[p].to
    BY <1>2, <1>4, <2>1, <2>2, SwitchFollowsRelay DEF p
  <2>3. CASE egress'[p] = egress[p]
    <3>1. CASE egress'[n] = egress[n]
      BY <1>1, <1>2, <1>4, <2>1, <2>3, <3>1 DEF RelayOrder, p
    <3>2. CASE NativeSwitch(n) /\ egress'[n] = admitted[n].to
      <4>1. ~Up(p) \/ egress[p] = journal.from \/ Solid(p)
        BY <1>4, <3>2, SwitchFollowsRelay DEF p
      <4>2. egress[p] = journal.to
        BY <1>4, <2>3 DEF p
      <4>3. Solid(p)
        BY <1>1, <4>1, <4>2 DEF Up
      <4> QED BY <1>2, <2>1, <4>3 DEF p
    <3> QED BY <1>1, <1>4, <3>1, <3>2, NodeStep
  <2> QED BY <1>1, <1>4, <2>1, <2>2, <2>3, NodeStep DEF p
<1> QED BY <1>3, <1>4 DEF RelayOrder

\* ... and the receipts behind an execution keep their meaning.
LEMMA RelaysKeepEvidence ==
    ASSUME IInv, RelayInv, [Next]_vars, journal.phase = "switch", journal'.phase = "switch",
           journal'.from = journal.from, journal'.to = journal.to,
           journal'.rollback = journal.rollback,
           \A r \in journal'.observed :
              \/ r \in journal.observed
              \/ /\ r \in Receipts /\ r.boot = boot[r.node]
                 /\ r.nonce = journal.nonce /\ ~journal.complete
                 /\ UNCHANGED <<pc, admitted, egress>>
    PROVE  RelayEvidence'
<1>1. /\ RelayEvidence /\ TypeOK /\ journal.from # journal.to /\ journal \in Journal
      /\ journal.observed \subseteq Receipt /\ journal'.observed \subseteq Receipt
  <2>1. journal' \in Journal
    BY NextTypeOK DEF IInv, TypeOK
  <2> QED BY <2>1, JournalFields DEF IInv, RelayInv, JournalShape, TypeOK
<1>2. \A m \in Node : (Settled(m) => Settled(m)') /\ (Solid(m) => Solid(m)')
  BY SettledStays, SolidStays
<1>3. \A r \in Receipt : r.node \in Node
  BY DEF Receipt
<1>4. ASSUME NEW r \in journal'.observed PROVE Settled(r.node)'
  <2>1. CASE r \in journal.observed
    BY <1>1, <1>2, <1>3, <2>1 DEF RelayEvidence
  <2>2. CASE /\ r \in Receipts /\ r.boot = boot[r.node]
             /\ r.nonce = journal.nonce /\ ~journal.complete
    <3>1. egress[r.node] = journal.to
      BY <2>2 DEF IInv, ReceiptsStayTrue, PhaseDone
    <3>2. ~Heading(r.node, journal.from)
      <4> SUFFICES ASSUME Heading(r.node, journal.from) PROVE FALSE
        OBVIOUS
      <4>1. pc[r.node] # "idle" /\ admitted[r.node].to = journal.from
        BY DEF Heading
      <4>2. SameRound(admitted[r.node], journal)
        BY <1>1, <1>3, <2>2, <4>1, OwnReceipts
      <4> QED BY <1>1, <4>1, <4>2 DEF SameRound, SamePair
    <3> QED BY <1>1, <1>2, <1>3, <3>1, <3>2 DEF Settled
  <2> QED BY <2>1, <2>2
<1>5. ASSUME NEW n \in Node, NEW r \in Receipt, r \in admitted'[n].observed,
             Heading(n, journal.to)'
      PROVE  Settled(r.node)'
  <2>1. pc'[n] = "native" /\ admitted'[n].phase = "switch" /\ admitted'[n].to = journal.to
    BY <1>5 DEF Heading
  <2>2. CASE pc'[n] = pc[n] /\ admitted'[n] = admitted[n]
    <3>1. Heading(n, journal.to) /\ r \in admitted[n].observed
      BY <1>5, <2>1, <2>2 DEF Heading
    <3> QED BY <1>1, <1>2, <1>3, <3>1 DEF RelayEvidence
  <2>3. CASE admitted'[n] = journal
    BY <1>1, <1>2, <1>3, <1>5, <2>3 DEF RelayEvidence
  <2> QED BY <2>1, <2>2, <2>3, NodeStep
<1>6. ASSUME NEW n \in Node, NEW r \in Receipt, r \in admitted'[n].observed,
             Heading(n, journal.from)'
      PROVE  ~Up(r.node)' \/ egress'[r.node] = journal.from \/ Solid(r.node)'
  <2> DEFINE p == r.node
  <2>0. p \in Node
    BY <1>3
  <2> HIDE DEF p
  <2>1. pc'[n] = "native" /\ admitted'[n].phase = "switch" /\ admitted'[n].to = journal.from
    BY <1>6 DEF Heading
  <2>2. pc'[n] = pc[n] /\ admitted'[n] = admitted[n]
    BY <1>1, <2>1, NodeStep
  <2>3. Heading(n, journal.from) /\ r \in admitted[n].observed
    BY <1>6, <2>1, <2>2 DEF Heading
  <2>4. ~Up(p) \/ egress[p] = journal.from \/ Solid(p)
    BY <1>1, <2>3 DEF RelayEvidence, p
  <2>5. CASE Solid(p)
    BY <1>2, <2>0, <2>5 DEF p
  <2>6. CASE egress'[p] = egress[p]
    BY <1>2, <2>0, <2>4, <2>6 DEF Up, p
  <2>7. CASE egress'[p] = Down
    BY <2>7 DEF Up, p
  <2>8. CASE NativeSwitch(p) /\ egress'[p] = admitted[p].to
    <3>1. admitted[p].to \in {journal.from, journal.to}
      BY <2>0, <2>8, SwitchIsUp, HeadingKnown
    <3>2. admitted[p].to = journal.to => Solid(p)
      BY <2>0, <2>8, SwitchFollowsRelay
    <3> QED BY <2>5, <2>8, <3>1, <3>2 DEF p
  <2> QED BY <2>0, <2>6, <2>7, <2>8, NodeStep
<1> QED BY <1>4, <1>5, <1>6 DEF RelayEvidence

\* A switch starts with every Node behind, and turns around with every Node
\* that is ahead following its relay.
LEMMA RelaysTurn ==
    ASSUME IInv, RelayInv, UNCHANGED <<pc, admitted, egress>>,
           journal'.phase = "switch", journal'.observed = {},
           \/ /\ journal.phase = "prepare" /\ ~journal'.rollback
              /\ journal'.from = journal.from /\ journal'.to = journal.to
           \/ /\ journal.phase \in {"switch", "drain"}
              /\ ~journal.rollback /\ journal'.rollback
              /\ journal'.from = journal.to /\ journal'.to = journal.from
    PROVE  RelayOrder' /\ RelayEvidence'
<1>1. /\ TypeOK /\ journal.from # journal.to /\ journal.to \in Gen
      /\ journal.from # Down /\ journal.to # Down
      /\ \A r \in Receipt : r.node \in Node
  BY JournalFields, GenIsNat DEF IInv, JournalShape, TypeOK, Receipt
<1>2. CASE /\ journal.phase = "prepare" /\ ~journal'.rollback
           /\ journal'.from = journal.from /\ journal'.to = journal.to
  <2>1. \A n \in Node, g \in Nat : ~Heading(n, g)'
    BY <1>2 DEF Heading, IInv, ExecutionCompatible, Compatible, Preceding
  <2>2. \A n \in Node : Up(n)' => egress'[n] # journal.to
    BY <1>1, <1>2 DEF IInv, NativeShape, Up
  <2>3. journal.from \in Nat /\ journal.to \in Nat
    BY <1>1, Facts
  <2> QED BY <1>2, <2>1, <2>2, <2>3 DEF RelayOrder, RelayEvidence
<1>3. CASE /\ journal.phase \in {"switch", "drain"}
           /\ ~journal.rollback /\ journal'.rollback
           /\ journal'.from = journal.to /\ journal'.to = journal.from
  <2>1. ASSUME NEW n \in Node, egress[n] = journal.to, Via[journal.to][n] # Direct
        PROVE  egress[Via[journal.to][n]] # journal.from
    <3>1. Via[journal.to][n] \in Node
      BY <1>1, <2>1, RelayIsNode
    <3>2. CASE journal.phase = "drain"
      BY SMTT(30), <1>1, <3>1, <3>2 DEF IInv, NativeShape, Up
    <3>3. CASE journal.phase = "switch"
      <4>1. Settled(Via[journal.to][n])
        BY <1>1, <1>3, <2>1, <3>3 DEF RelayInv, RelayOrder, Solid, Up
      <4> QED BY SMTT(30), <1>1, <4>1 DEF Settled, Up
    <3> QED BY <1>3, <3>2, <3>3
  <2>2. \A n \in Node : ~Heading(n, journal.from)
    <3>1. CASE journal.phase = "drain"
      BY <1>1, <3>1 DEF Heading, IInv, ExecutionCompatible, Compatible, SamePair
    <3>2. CASE journal.phase = "switch"
      BY <1>3, <3>2 DEF RelayInv, RelayOrder
    <3> QED BY <1>3, <3>1, <3>2
  <2>3. ASSUME NEW n \in Node, NEW r \in Receipt, r \in admitted[n].observed,
               Heading(n, journal.to)
        PROVE  ~Up(r.node) \/ egress[r.node] = journal.to
    <3>1. CASE journal.phase = "drain"
      BY <1>1, <3>1 DEF IInv, NativeShape
    <3>2. CASE journal.phase = "switch"
      BY <2>3, <3>2 DEF RelayInv, RelayEvidence, Settled
    <3> QED BY <1>3, <3>1, <3>2
  <2>4. RelayOrder'
    BY <1>3, <2>1 DEF RelayOrder
  <2>5. RelayEvidence'
    BY <1>3, <2>2, <2>3 DEF RelayEvidence, Heading, Up
  <2> QED BY <2>4, <2>5
<1> QED BY <1>2, <1>3

LEMMA NextRelayInv ==
    ASSUME IInv, RelayInv, [Next]_vars
    PROVE  RelayInv'
<1> SUFFICES ASSUME journal'.phase = "switch" PROVE RelayOrder' /\ RelayEvidence'
  BY DEF RelayInv
<1> QED BY SwitchJournal, RelaysKeepOrder, RelaysKeepEvidence, RelaysTurn

\* Two generations, each with direct relays, and one of them closed under
\* relaying: every chain of relays ends.
LEMMA ChainsEnd ==
    ASSUME IInv, RelayInv
    PROVE  RelaysReachTunnel
<1> SUFFICES ASSUME NEW S \in SUBSET Node, NEW n0 \in S, \A n \in S : NextHop(n) \in S
             PROVE  FALSE
  BY SMTT(30) DEF RelaysReachTunnel
<1>1. /\ TypeOK /\ journal.from # journal.to
      /\ journal.from \in Gen /\ journal.to \in Gen
      /\ journal.from # Down /\ journal.to # Down
      /\ journal.phase \in {"prepare", "switch", "drain", "retire", "abort"}
  BY JournalFields, GenIsNat, Facts DEF IInv, JournalShape, TypeOK
<1>2. ASSUME NEW n \in S
      PROVE  /\ Up(n) /\ egress[n] \in {journal.from, journal.to}
             /\ Via[egress[n]][n] \in S /\ Via[egress[n]][n] # Direct
             /\ Via[egress[n]][Via[egress[n]][n]] = Direct
  <2>1. Up(n) /\ Via[egress[n]][n] \in S /\ Via[egress[n]][n] # Direct
    BY ViaAssumption DEF NextHop
  <2>2. egress[n] \in {journal.from, journal.to}
    BY <1>1, <2>1 DEF IInv, NativeShape
  <2> QED BY <1>1, <2>1, <2>2, RelayIsNode
\* Relay and relayed Node are never on the same generation.
<1>3. ASSUME NEW n \in S PROVE egress[Via[egress[n]][n]] # egress[n]
  <2> DEFINE p == Via[egress[n]][n]
  <2>1. p \in S /\ Via[egress[n]][p] = Direct
    BY <1>2
  <2>2. Via[egress[p]][p] # Direct
    BY <1>2, <2>1
  <2> QED BY <2>1, <2>2
<1>4. journal.phase = "switch"
  <2>1. Via[egress[n0]][n0] \in S /\ Up(n0) /\ Up(Via[egress[n0]][n0])
    BY <1>2
  <2>2. journal.phase # "switch" => egress[n0] = egress[Via[egress[n0]][n0]]
    BY <1>1, <2>1 DEF IInv, NativeShape
  <2> QED BY <1>3, <2>2
<1>5. ASSUME NEW n \in S, egress[n] = journal.to PROVE ~Solid(n)
  <2>1. Via[journal.to][n] \in S /\ Via[journal.to][n] # Direct
    BY <1>2, <1>5
  <2>2. Up(Via[journal.to][n]) /\ egress[Via[journal.to][n]] # journal.to
    BY <1>2, <1>3, <1>5, <2>1
  <2> QED BY <2>1, <2>2 DEF Solid, Settled
<1>6. ASSUME NEW n \in S, egress[n] = journal.from
      PROVE  /\ Via[journal.from][n] \in S /\ Via[journal.from][n] # Direct
             /\ egress[Via[journal.from][n]] = journal.to
  BY <1>2, <1>3, <1>6
<1>7. \E n \in S : egress[n] = journal.from
  <2>1. CASE egress[n0] = journal.to
    <3>1. Via[journal.to][n0] \in S /\ egress[Via[journal.to][n0]] # journal.to
      BY <1>2, <1>3, <2>1
    <3> QED BY <1>2, <3>1
  <2> QED BY <1>2, <2>1
<1>8. PICK n \in S : egress[n] = journal.from
  BY <1>7
<1> DEFINE p == Via[journal.from][n]
<1>9. p \in S /\ p # Direct /\ egress[p] = journal.to /\ Up(p)
  BY <1>2, <1>6, <1>8
<1>10. ~Solid(p)
  BY <1>5, <1>9
<1>11. Solid(p)
  BY <1>4, <1>8, <1>9 DEF RelayInv, RelayOrder
<1> QED BY <1>10, <1>11

\* At no moment of a switch, a rollback or a late execution of either do
\* relays forward to each other in a circle: a relayed Node selects only after
\* its relay's receipt (receive_relay_dependencies.go).
THEOREM RelaysNeverCircle == Spec => []RelaysReachTunnel
<1>1. Init => RelayInv
  BY SMTT(30) DEF Init, RelayInv, NewTransition, NewRound
<1>2. IInv /\ RelayInv /\ [Next]_vars => RelayInv'
  BY NextRelayInv
<1>3. IInv /\ RelayInv => RelaysReachTunnel
  BY ChainsEnd
<1> QED BY <1>1, <1>2, <1>3, Inductive, PTL DEF Spec
=============================================================================
