------------------------- MODULE HandoverStepProofs -------------------------
(***************************************************************************)
(* What the journal events and the typing of Handover give: the fields of  *)
(* every event and type correctness.  Then the inductive invariant IInv:   *)
(* it holds initially and survives the clock, the agents' executions, the  *)
(* receipt transport and the events that advance or finish the journal.    *)
(***************************************************************************)
EXTENDS Handover, TLAPS

\* The provers of a step that names none.
USE ZenonT(30), SMTT(30)

\* Generations are naturals.
LEMMA GenIsNat ==
    (\A g \in Gen : g \in Nat /\ g \in Int /\ g # Down) /\ {0, 1} \subseteq Gen
  BY SMTT(30), MaxGenAssumption DEF Gen, Down

\* The marker of a Node that is down is an integer.
LEMMA DownIsInt ==
    /\ Down \in Int /\ Down # 0 /\ Down # 1
    /\ \A g \in Nat : Down # g /\ Down <= g
  BY SMTT(30) DEF Down

\* A sampled time is a natural and not in the future.
LEMMA SampledIsNat == \A at \in Sampled : at \in Nat /\ at <= now
  BY SMTT(30), HandoverBounds DEF Sampled

\* The fields of a journal, without its record type.
LEMMA JournalFields ==
    ASSUME NEW j \in Journal
    PROVE  /\ j.from \in Gen /\ j.to \in Gen /\ j.phase \in Phase
           /\ j.rollback \in BOOLEAN /\ j.nonce \in Nat /\ j.issued \in Nat
           /\ j.expires \in Nat /\ j.drainUntil \in Nat /\ j.last \in Nat
           /\ j.complete \in BOOLEAN /\ j.observed \in SUBSET Receipt
  BY DEF Journal

\* A journal with a fresh round, field by field.
Becomes(k, from, to, phase, rollback, nonce, drainUntil, at) ==
    /\ k \in Journal
    /\ k.from = from /\ k.to = to /\ k.phase = phase
    /\ k.rollback = rollback /\ k.nonce = nonce
    /\ k.drainUntil = drainUntil /\ k.last = at
    /\ k.complete = FALSE /\ k.observed = {}

\* NewRound builds a journal with exactly the given fields.
LEMMA NewRoundFields ==
    ASSUME NEW from \in Gen, NEW to \in Gen, NEW phase \in Phase,
           NEW rollback \in BOOLEAN, NEW nonce \in Nat, NEW drainUntil \in Nat,
           NEW at \in Nat
    PROVE  Becomes(NewRound(from, to, phase, rollback, nonce, drainUntil, at),
                   from, to, phase, rollback, nonce, drainUntil, at)
  BY SMTT(30), PolicyAssumption DEF NewRound, Journal, Becomes

\* Journal k is j after an event that keeps its round.
Continues(k, j, at, complete, R) ==
    /\ k \in Journal
    /\ k.from = j.from /\ k.to = j.to /\ k.phase = j.phase
    /\ k.rollback = j.rollback /\ k.nonce = j.nonce
    /\ k.drainUntil = j.drainUntil /\ k.last = at
    /\ k.complete = complete /\ k.observed \subseteq R

\* Observe and Finish keep the round.
LEMMA ObserveFields ==
    ASSUME NEW j \in Journal, NEW at \in Nat, NEW r \in Receipt
    PROVE  Continues(Observe(j, at, r), j, at, FALSE, j.observed \cup {r})
  BY DEF Observe, Journal, ObservedOf, Continues

\* What the completing event keeps of a journal and what it sets.
LEMMA FinishFields ==
    ASSUME NEW j \in Journal, NEW at \in Nat
    PROVE  Continues(Finish(j, at), j, at, TRUE, {})
  BY DEF Finish, Journal, Continues

\* What each event makes of the journal.
LEMMA EventFields ==
    ASSUME NEW j \in Journal, NEW at \in Nat
    PROVE  /\ j.phase = "prepare" =>
                 Becomes(Advance(j, at), j.from, j.to, "switch", j.rollback,
                         j.nonce + 1, j.drainUntil, at)
           /\ j.phase = "switch" =>
                 Becomes(Advance(j, at), j.from, j.to, "drain", j.rollback,
                         j.nonce + 1, at + DrainInterval, at)
           /\ j.phase = "drain" =>
                 Becomes(Advance(j, at), j.from, j.to, "retire", j.rollback,
                         j.nonce + 1, j.drainUntil, at)
           /\ j.phase \in {"retire", "abort"} => Advance(j, at) = Finish(j, at)
           /\ j.phase = "prepare" =>
                 Becomes(Rollback(j, at), j.from, j.to, "abort", TRUE,
                         j.nonce + 1, Never, at)
           /\ j.phase # "prepare" =>
                 Becomes(Rollback(j, at), j.to, j.from, "switch", TRUE,
                         j.nonce + 1, Never, at)
           /\ Becomes(Renew(j, at), j.from, j.to, j.phase, j.rollback,
                      j.nonce + 1, j.drainUntil, at)
           /\ \A k, g \in Gen :
                 Becomes(NewTransition(k, g, j.nonce + 1, at), k, g, "prepare",
                         FALSE, j.nonce + 1, Never, at)
<1> DEFINE nonce == j.nonce + 1  until == at + DrainInterval
<1>1. /\ j.from \in Gen /\ j.to \in Gen /\ j.phase \in Phase
      /\ j.rollback \in BOOLEAN /\ j.drainUntil \in Nat /\ j.nonce \in Nat
  BY JournalFields
<1>2. nonce \in Nat /\ until \in Nat /\ Never \in Nat
  BY SMTT(30), <1>1, PolicyAssumption DEF Never
<1>3. /\ "prepare" \in Phase /\ "switch" \in Phase /\ "drain" \in Phase
      /\ "retire" \in Phase /\ "abort" \in Phase
  BY DEF Phase
<1> HIDE DEF nonce, until
<1>4. \A from, to \in Gen, phase \in Phase, rollback \in BOOLEAN, d \in Nat :
         Becomes(NewRound(from, to, phase, rollback, nonce, d, at),
                 from, to, phase, rollback, nonce, d, at)
  BY <1>2, NewRoundFields
<1>5. ASSUME j.phase = "prepare"
      PROVE  Advance(j, at) = NewRound(j.from, j.to, "switch", j.rollback, nonce, j.drainUntil, at)
  BY <1>5 DEF Advance, nonce
<1>6. ASSUME j.phase = "switch"
      PROVE  Advance(j, at) = NewRound(j.from, j.to, "drain", j.rollback, nonce, until, at)
  BY <1>6 DEF Advance, nonce, until
<1>7. ASSUME j.phase = "drain"
      PROVE  Advance(j, at) = NewRound(j.from, j.to, "retire", j.rollback, nonce, j.drainUntil, at)
  BY <1>7 DEF Advance, nonce
<1>8. j.phase \in {"retire", "abort"} => Advance(j, at) = Finish(j, at)
  BY DEF Advance
<1>9. /\ j.phase = "prepare" =>
            Rollback(j, at) = NewRound(j.from, j.to, "abort", TRUE, nonce, Never, at)
      /\ j.phase # "prepare" =>
            Rollback(j, at) = NewRound(j.to, j.from, "switch", TRUE, nonce, Never, at)
      /\ Renew(j, at) = NewRound(j.from, j.to, j.phase, j.rollback, nonce, j.drainUntil, at)
  BY DEF Rollback, Renew, nonce
<1>10. \A k, g \in Gen : NewTransition(k, g, nonce, at)
                            = NewRound(k, g, "prepare", FALSE, nonce, Never, at)
  BY DEF NewTransition
<1>11. nonce = j.nonce + 1 /\ until = at + DrainInterval
  BY DEF nonce, until
<1>12. /\ j.phase = "prepare" =>
             Becomes(Advance(j, at), j.from, j.to, "switch", j.rollback, nonce, j.drainUntil, at)
       /\ j.phase = "switch" =>
             Becomes(Advance(j, at), j.from, j.to, "drain", j.rollback, nonce, until, at)
       /\ j.phase = "drain" =>
             Becomes(Advance(j, at), j.from, j.to, "retire", j.rollback, nonce, j.drainUntil, at)
  BY SMTT(30), <1>1, <1>2, <1>3, <1>4, <1>5, <1>6, <1>7
<1>13. /\ j.phase = "prepare" =>
             Becomes(Rollback(j, at), j.from, j.to, "abort", TRUE, nonce, Never, at)
       /\ j.phase # "prepare" =>
             Becomes(Rollback(j, at), j.to, j.from, "switch", TRUE, nonce, Never, at)
       /\ Becomes(Renew(j, at), j.from, j.to, j.phase, j.rollback, nonce, j.drainUntil, at)
  BY ZenonT(60), <1>1, <1>2, <1>3, <1>4, <1>9
<1>14. \A k, g \in Gen :
          Becomes(NewTransition(k, g, nonce, at), k, g, "prepare", FALSE, nonce, Never, at)
  BY <1>2, <1>3, <1>4, <1>10
<1> QED BY <1>8, <1>11, <1>12, <1>13, <1>14
(***************************************************************************)
(* Type correctness.                                                       *)
(***************************************************************************)
LEMMA FirstJournals ==
    NewTransition(0, 1, 1, 1) \in Journal /\ NoJournal \in Journal
  BY SMTT(30), GenIsNat, PolicyAssumption
     DEF NewTransition, NewRound, NoJournal, Journal, Phase, Never

\* Initial states are well typed.
LEMMA InitTypeOK == Init => TypeOK
<1> SUFFICES ASSUME Init PROVE TypeOK
  OBVIOUS
<1>1. /\ NewTransition(0, 1, 1, 1) \in Journal
      /\ NoJournal \in Journal
  BY FirstJournals
<1>2. left \in [Node -> [gen : Gen \cup {Down}, at : Nat]]
  BY DEF Init, Never
<1> QED BY <1>1, <1>2, GenIsNat DEF Init, TypeOK, Never

\* Every event keeps the journal well formed.
LEMMA EventType ==
    ASSUME NEW j \in Journal, NEW at \in Nat
    PROVE  /\ Advance(j, at) \in Journal
           /\ Rollback(j, at) \in Journal
           /\ Renew(j, at) \in Journal
           /\ \A r \in Receipt : Observe(j, at, r) \in Journal
           /\ \A k, g \in Gen : NewTransition(k, g, j.nonce + 1, at) \in Journal
<1>1. j.phase \in {"prepare", "switch", "drain", "retire", "abort"}
  BY JournalFields DEF Phase
<1>2. Advance(j, at) \in Journal
  <2>1. CASE j.phase \in {"retire", "abort"}
    BY <2>1, EventFields, FinishFields DEF Continues
  <2>2. CASE j.phase \in {"prepare", "switch", "drain"}
    BY <2>2, EventFields DEF Becomes
  <2> QED BY <1>1, <2>1, <2>2
<1>3. Rollback(j, at) \in Journal /\ Renew(j, at) \in Journal
  BY EventFields DEF Becomes
<1>4. \A k, g \in Gen : NewTransition(k, g, j.nonce + 1, at) \in Journal
  BY EventFields DEF Becomes
<1>5. \A r \in Receipt : Observe(j, at, r) \in Journal
  BY ObserveFields DEF Continues
<1> QED BY <1>2, <1>3, <1>4, <1>5

\* Every step keeps every type.
LEMMA NextTypeOK == TypeOK /\ [Next]_vars => TypeOK'
<1> SUFFICES ASSUME TypeOK, [Next]_vars PROVE TypeOK'
  OBVIOUS
<1> USE DEF TypeOK, control, agent, native
<1>1. NoJournal \in Journal
  BY FirstJournals
<1>a. ASSUME journal' \in Journal, UNCHANGED <<now, proposal, ready, agent, native, boot>>,
             wire' \subseteq wire, batch' \subseteq Receipt
      PROVE  TypeOK'
  BY <1>a
<1>b. ASSUME NEW n \in Node, Idle(n)
      PROVE  /\ pc' \in [Node -> {"idle", "native", "observed", "maintain"}]
             /\ admitted' \in [Node -> Journal]
             /\ request' \in [Node -> SUBSET Gen]
             /\ observedAt' \in [Node -> Nat]
  BY <1>b, <1>1 DEF Idle, Never
<1>c. ASSUME NEW n \in Node, NEW g \in Gen, Select(n, g)
      PROVE  /\ egress' \in [Node -> Gen \cup {Down}]
             /\ left' \in [Node -> [gen : Gen \cup {Down}, at : Nat]]
  BY <1>c DEF Select
<1>d. ASSUME NEW n \in Node, Observed(n), recv' \in [Node -> SUBSET Gen],
             egress' \in [Node -> Gen \cup {Down}],
             left' \in [Node -> [gen : Gen \cup {Down}, at : Nat]]
      PROVE  TypeOK'
  BY <1>d DEF Observed
<1>e. \A n \in Node : admitted[n].from \in Gen /\ admitted[n].to \in Gen
  BY JournalFields
<1>2. CASE Tick
  BY SMTT(30), <1>2 DEF Tick
<1>3. ASSUME NEW n \in Node, Admit(n) PROVE TypeOK'
  BY <1>3 DEF Admit
<1>4. ASSUME NEW n \in Node, NativePrepare(n) PROVE TypeOK'
  BY SMTT(30), <1>4, <1>d, <1>e DEF NativePrepare
<1>5. ASSUME NEW n \in Node, NativeSwitch(n) PROVE TypeOK'
  BY <1>5, <1>c, <1>d, <1>e DEF NativeSwitch
<1>6. ASSUME NEW n \in Node, NativeDrain(n) PROVE TypeOK'
  BY <1>6, <1>d DEF NativeDrain
<1>7. ASSUME NEW n \in Node, NativeRetire(n) PROVE TypeOK'
  BY <1>7, <1>d DEF NativeRetire
<1>8. ASSUME NEW n \in Node, NativeAbort(n) PROVE TypeOK'
  BY <1>8, <1>d DEF NativeAbort
<1>9. ASSUME NEW n \in Node, Send(n) PROVE TypeOK'
  <2>1. [node |-> n, boot |-> boot[n], nonce |-> admitted[n].nonce,
         at |-> observedAt[n]] \in Receipt
    BY JournalFields DEF Receipt
  <2> QED BY <1>9, <1>b, <2>1 DEF Send
<1>10. ASSUME NEW n \in Node, Abandon(n) PROVE TypeOK'
  BY <1>10, <1>b DEF Abandon
<1>11. ASSUME NEW n \in Node, AdmitMaintenance(n) PROVE TypeOK'
  BY <1>11 DEF AdmitMaintenance, Requested
<1>12. ASSUME NEW n \in Node, Maintain(n) PROVE TypeOK'
  <2>1. Serving(admitted[n]) \in Gen
    BY <1>e DEF Serving
  <2>2. recv' \in [Node -> SUBSET Gen]
    BY <1>12, <2>1 DEF Maintain
  <2>3. ready' \subseteq [node : Node, boot : Nat, gen : Gen]
    BY SMTT(30), <1>12 DEF Maintain
  <2> QED BY <1>12, <1>b, <1>c, <2>1, <2>2, <2>3 DEF Maintain
<1>13. ASSUME NEW n \in Node, Reboot(n) PROVE TypeOK'
  BY SMTT(30), <1>13, <1>b DEF Reboot
<1>14. ASSUME NEW r \in wire, Submit(r) PROVE TypeOK'
  <2>1. journal' \in Journal
    BY SMTT(30), <1>14, SampledIsNat, EventType DEF Submit
  <2>2. batch' \subseteq Receipt
    BY <1>14 DEF Submit
  <2> QED BY <1>14, <1>a, <2>1, <2>2 DEF Submit
<1>15. ASSUME NEW r \in wire, Lose(r) PROVE TypeOK'
  BY <1>15, <1>a DEF Lose
<1>16. CASE Complete
  <2>1. PICK at \in Sampled : journal' = Advance(journal, at)
    BY <1>16 DEF Complete
  <2>2. journal' \in Journal
    BY <2>1, SampledIsNat, EventType
  <2> QED BY <1>16, <1>a, <2>2 DEF Complete
<1>17. CASE CompleteRejected \/ CollectorRestart
  BY <1>17, <1>a DEF CompleteRejected, CollectorRestart
<1>18. CASE RollBack
  <2>1. PICK at \in Sampled : journal' = Rollback(journal, at)
    BY <1>18 DEF RollBack
  <2>2. journal' \in Journal
    BY <2>1, SampledIsNat, EventType
  <2> QED BY <1>18, <1>a, <2>2 DEF RollBack
<1>19. CASE RenewRound
  <2>1. PICK at \in Sampled : journal' = Renew(journal, at)
    BY <1>19 DEF RenewRound
  <2>2. journal' \in Journal
    BY <2>1, SampledIsNat, EventType
  <2> QED BY <1>19, <1>a, <2>2 DEF RenewRound
<1>20. CASE Propose
  BY SMTT(30), <1>20, MaxGenAssumption DEF Propose, Gen
<1>21. CASE Succeed
  <2>1. Serving(journal) \in Gen
    BY JournalFields DEF Serving
  <2>2. PICK at \in Sampled :
           journal' = NewTransition(Serving(journal), proposal, journal.nonce + 1, at)
    BY <1>21 DEF Succeed
  <2>3. journal' \in Journal
    BY <2>1, <2>2, SampledIsNat, EventType
  <2> QED BY <1>21, <1>a, <2>3 DEF Succeed
<1>22. CASE UNCHANGED vars
  BY <1>22 DEF vars
<1> QED
  BY ZenonT(60), <1>2, <1>3, <1>4, <1>5, <1>6, <1>7, <1>8, <1>9, <1>10, <1>11, <1>12,
     <1>13, <1>14, <1>15, <1>16, <1>17, <1>18, <1>19, <1>20, <1>21, <1>22
     DEF Next, Undisturbed, AgentStep

\* Handover keeps the types of its variables.
THEOREM TypeCorrect == Spec => []TypeOK
  BY InitTypeOK, NextTypeOK, PTL DEF Spec
(***************************************************************************)
(* The inductive invariant, one lemma per step.                            *)
(***************************************************************************)
\* The types as facts about fields and members.
LEMMA Facts ==
    ASSUME TypeOK
    PROVE  /\ now \in Nat /\ proposal \in Nat /\ proposal \in Gen
           /\ journal \in Journal
           /\ journal.from \in Nat /\ journal.to \in Nat /\ journal.nonce \in Nat
           /\ journal.last \in Nat /\ journal.drainUntil \in Nat
           /\ journal.phase \in {"prepare", "switch", "drain", "retire", "abort"}
           /\ \A n \in Node :
                 /\ egress[n] \in Int /\ left[n].gen \in Int /\ left[n].at \in Nat
                 /\ boot[n] \in Nat /\ observedAt[n] \in Nat
                 /\ admitted[n] \in Journal /\ admitted[n].nonce \in Nat
                 /\ admitted[n].from \in Nat /\ admitted[n].to \in Nat
                 /\ admitted[n].phase \in {"prepare", "switch", "drain", "retire", "abort"}
                 /\ \A g \in recv[n] \cup request[n] : g \in Nat
           /\ \A r \in Receipts :
                 /\ r.node \in Node /\ r.nonce \in Nat /\ r.at \in Nat
                 /\ r.boot \in Nat
<1> USE DEF TypeOK
<1>1. /\ now \in Nat /\ proposal \in Nat /\ proposal \in Gen
      /\ journal \in Journal
      /\ journal.from \in Nat /\ journal.to \in Nat /\ journal.nonce \in Nat
      /\ journal.last \in Nat /\ journal.drainUntil \in Nat
      /\ journal.phase \in {"prepare", "switch", "drain", "retire", "abort"}
  BY JournalFields, GenIsNat DEF Phase
<1>2. ASSUME NEW n \in Node
      PROVE  /\ admitted[n] \in Journal /\ admitted[n].nonce \in Nat
             /\ admitted[n].from \in Nat /\ admitted[n].to \in Nat
             /\ admitted[n].phase \in {"prepare", "switch", "drain", "retire", "abort"}
  BY JournalFields, GenIsNat DEF Phase
<1>3. ASSUME NEW n \in Node
      PROVE  /\ egress[n] \in Int /\ boot[n] \in Nat /\ observedAt[n] \in Nat
             /\ \A g \in recv[n] \cup request[n] : g \in Nat
  BY GenIsNat, DownIsInt
<1>4. ASSUME NEW n \in Node PROVE left[n].gen \in Int /\ left[n].at \in Nat
  BY GenIsNat, DownIsInt
<1>5. Receipts \subseteq Receipt
  BY JournalFields DEF Receipts
<1>6. \A r \in Receipts : /\ r.node \in Node /\ r.nonce \in Nat /\ r.at \in Nat
                          /\ r.boot \in Nat
  BY <1>5 DEF Receipt
<1> QED BY <1>1, <1>2, <1>3, <1>4, <1>6

\* Before its native work ends, a Node has acknowledged nothing of a later
\* round than the one it executes.
LEMMA OwnReceipts ==
    ASSUME IInv, NEW n \in Node, pc[n] # "idle",
           NEW r \in Receipts, r.node = n, r.boot = boot[n], r.nonce = journal.nonce
    PROVE  admitted[n].nonce = journal.nonce /\ SameRound(admitted[n], journal)
<1>1. r.nonce <= admitted[n].nonce /\ admitted[n].nonce <= journal.nonce
  BY DEF IInv, ReceiptOrder, ExecutionOrder
<1>2. admitted[n].nonce = journal.nonce
  BY SMTT(30), <1>1, Facts DEF IInv
<1> QED BY <1>2 DEF IInv, ExecutionOrder
-----------------------------------------------------------------------------

\* A new journal, with only the legacy generation in use, satisfies the invariant.
LEMMA InitIInv == Init => IInv
<1> SUFFICES ASSUME Init PROVE IInv
  OBVIOUS
<1>1. TypeOK
  BY InitTypeOK
<1>2. /\ journal.from = 0 /\ journal.to = 1 /\ journal.phase = "prepare"
      /\ journal.rollback = FALSE /\ journal.last = 1
      /\ journal.complete = FALSE /\ journal.observed = {}
  BY DEF Init, NewTransition, NewRound
<1>3. JournalShape
  <2>1. Candidate(journal) = 1
    BY <1>2 DEF Candidate
  <2> QED BY SMTT(30), <1>2, <2>1, DownIsInt DEF Init, JournalShape
<1>4. NativeShape
  <2>1. \A n \in Node : egress[n] = 0 /\ recv[n] = {0, 1} /\ Up(n)
    BY DownIsInt DEF Init, Up
  <2> QED BY <1>2, <2>1 DEF NativeShape
<1>5. ExecutionOrder /\ ExecutionCompatible /\ ExecutionMaintains
      /\ ExecutionDrained /\ ObservedTrue
  BY DEF Init, ExecutionOrder, ExecutionCompatible, ExecutionMaintains,
         ExecutionDrained, ObservedTrue
<1>6. Receipts = {}
  BY <1>2 DEF Init, Receipts
<1>7. DrainShape
  <2>1. \A n \in Node : left[n].gen = Down
    BY DEF Init
  <2>2. \A n \in Node : left[n].at = 0
    BY DEF Init, Never
  <2>5. now \in Nat
    BY DEF Init
  <2>3. \A n \in Node : left[n].gen # journal.to
    BY <1>2, <2>1, DownIsInt
  <2>4. ASSUME NEW n \in Node PROVE left[n].at <= now
    <3>1. left[n].at = 0
      BY <2>2
    <3> QED BY SMTT(30), <3>1, <2>5
  <2> QED BY <1>2, <2>3, <2>4 DEF DrainShape
<1> QED BY <1>1, <1>3, <1>4, <1>5, <1>6, <1>7
        DEF IInv, ReceiptOrder, ReceiptsStayTrue, ReceiptTimely

\* Time alone disturbs nothing: receipts age and drains come nearer.
LEMMA TickIInv == IInv /\ Tick => IInv'
<1> SUFFICES ASSUME IInv, Tick PROVE IInv'
  OBVIOUS
<1> USE DEF control, agent, native
<1>1. TypeOK' /\ now \in Nat /\ now' = now + 1
  BY NextTypeOK DEF IInv, Tick, Next, Undisturbed, TypeOK
<1>2. JournalShape'
  BY SMTT(30), <1>1, Facts DEF IInv, Tick, JournalShape, Candidate
<1>3. NativeShape'
  BY DEF IInv, Tick, NativeShape, Up, Removed
<1>4. \A g : DrainedNow(g) => DrainedNow(g)'
  BY SMTT(30), <1>1, Facts, PolicyAssumption DEF IInv, Tick, DrainedNow
<1>5. ExecutionOrder' /\ ExecutionCompatible' /\ ExecutionMaintains'
  BY DEF IInv, Tick, ExecutionOrder, ExecutionCompatible, ExecutionMaintains
<1>6. ExecutionDrained'
  BY <1>4 DEF IInv, Tick, ExecutionDrained
<1>7. ObservedTrue'
  BY SMTT(30), <1>1, Facts DEF IInv, Tick, ObservedTrue, PhaseDone
<1>8. ReceiptOrder'
  BY SMTT(30), <1>1, Facts DEF IInv, Tick, ReceiptOrder, Receipts
<1>9. ReceiptsStayTrue' /\ ReceiptTimely'
  BY SMTT(30) DEF IInv, Tick, ReceiptsStayTrue, ReceiptTimely, Receipts, PhaseDone
<1>10. DrainShape'
  BY SMTT(30), <1>1, Facts, PolicyAssumption DEF IInv, Tick, DrainShape
<1> QED BY <1>1, <1>2, <1>3, <1>5, <1>6, <1>7, <1>8, <1>9, <1>10 DEF IInv
\* An execution of the current round is compatible with it.
LEMMA SelfCompatible ==
    SameRound(journal, journal) /\ Compatible(journal, journal)
  BY DEF SameRound, SamePair, Compatible

\* Admission binds an execution to the current round; native state is untouched.
LEMMA AdmitIInv ==
    ASSUME IInv, NEW n \in Node, Admit(n) PROVE IInv'
<1> USE DEF control, agent, native
<1>1. TypeOK' /\ TypeOK
  BY NextTypeOK DEF IInv, Next, Undisturbed, AgentStep
<1>2. /\ UNCHANGED <<now, journal, proposal, wire, batch, recv, egress, left, boot,
                     request, observedAt>>
      /\ ~journal.complete
      /\ pc[n] = "idle" /\ pc'[n] = "native" /\ admitted'[n] = journal
      /\ \A m \in Node : m # n => pc'[m] = pc[m] /\ admitted'[m] = admitted[m]
  BY <1>1 DEF Admit, Executable, TypeOK
<1>3. JournalShape' /\ NativeShape' /\ ReceiptsStayTrue' /\ ReceiptTimely' /\ DrainShape'
  BY SMTT(30), <1>2 DEF IInv, JournalShape, NativeShape, Up, ReceiptsStayTrue, ReceiptTimely,
              DrainShape, Receipts, PhaseDone
<1>4. ExecutionOrder'
  BY SMTT(30), <1>1, <1>2, Facts, SelfCompatible DEF IInv, ExecutionOrder
<1>5. ExecutionCompatible'
  BY <1>2, SelfCompatible DEF IInv, ExecutionCompatible
<1>6. ExecutionMaintains' /\ ObservedTrue'
  BY SMTT(30), <1>2 DEF IInv, ExecutionMaintains, ObservedTrue, PhaseDone
<1>7. ExecutionDrained'
  <2>1. journal.phase \in {"retire", "abort"} => DrainedNow(Removed(journal))
    BY DEF IInv, DrainShape, DrainedNow, Removed
  <2> QED BY <1>2, <2>1 DEF IInv, ExecutionDrained, DrainedNow
<1>8. ReceiptOrder'
  BY SMTT(30), <1>1, <1>2, Facts DEF IInv, ReceiptOrder, Receipts
<1> QED BY <1>1, <1>3, <1>4, <1>5, <1>6, <1>7, <1>8 DEF IInv

\* Maintenance is admitted under the completed journal or a proposal.
LEMMA AdmitMaintenanceIInv ==
    ASSUME IInv, NEW n \in Node, AdmitMaintenance(n) PROVE IInv'
<1> USE DEF control, agent, native
<1>1. TypeOK' /\ TypeOK
  BY NextTypeOK DEF IInv, Next, Undisturbed, AgentStep
<1>2. /\ UNCHANGED <<now, journal, proposal, wire, batch, recv, egress, left, boot,
                     observedAt>>
      /\ journal.complete
      /\ pc[n] = "idle" /\ pc'[n] = "maintain" /\ admitted'[n] = journal
      /\ request'[n] = Requested(journal)
      /\ \A m \in Node : m # n => /\ pc'[m] = pc[m] /\ admitted'[m] = admitted[m]
                                  /\ request'[m] = request[m]
  BY SMTT(30), <1>1 DEF AdmitMaintenance, TypeOK
<1>3. JournalShape' /\ NativeShape' /\ ReceiptsStayTrue' /\ ReceiptTimely' /\ DrainShape'
  BY <1>2 DEF IInv, JournalShape, NativeShape, Up, ReceiptsStayTrue, ReceiptTimely,
              DrainShape, Receipts, PhaseDone
<1>4. ExecutionOrder'
  BY SMTT(30), <1>1, <1>2, Facts, SelfCompatible DEF IInv, ExecutionOrder
<1>5. ExecutionCompatible'
  BY <1>2, SelfCompatible DEF IInv, ExecutionCompatible
<1>6. ExecutionMaintains'
  <2>1. Candidate(journal) \in Nat /\ Candidate(journal) <= proposal
    BY <1>1, Facts DEF IInv, JournalShape, Candidate
  <2>2. \A g \in Requested(journal) : Candidate(journal) < g /\ g <= proposal
    BY SMTT(30), <1>1, <2>1, Facts DEF Requested
  <2> QED BY <1>2, <2>2, SelfCompatible DEF IInv, ExecutionMaintains
<1>7. ObservedTrue'
  BY <1>2 DEF IInv, ObservedTrue, PhaseDone
<1>8. ExecutionDrained'
  <2>1. journal.phase \in {"retire", "abort"} => DrainedNow(Removed(journal))
    BY DEF IInv, DrainShape, DrainedNow, Removed
  <2> QED BY SMTT(30), <1>2, <2>1 DEF IInv, ExecutionDrained, DrainedNow
<1>9. ReceiptOrder'
  BY SMTT(30), <1>1, <1>2, Facts DEF IInv, ReceiptOrder, Receipts
<1> QED BY <1>1, <1>3, <1>4, <1>5, <1>6, <1>7, <1>8, <1>9 DEF IInv

\* Native work changes the state of its own Node only, and no execution.
LEMMA NativeFrame ==
    ASSUME IInv, NEW n \in Node, pc[n] = "native", Observed(n)
    PROVE  /\ UNCHANGED <<now, journal, proposal, wire, batch, boot, admitted, request>>
           /\ pc'[n] = "observed" /\ observedAt'[n] = now
           /\ \A m \in Node : m # n => pc'[m] = pc[m] /\ observedAt'[m] = observedAt[m]
           /\ ExecutionOrder' /\ ExecutionCompatible' /\ ExecutionMaintains'
           /\ ReceiptOrder'
<1>1. /\ UNCHANGED <<now, journal, proposal, wire, batch, boot, admitted, request>>
      /\ pc'[n] = "observed" /\ observedAt'[n] = now
      /\ \A m \in Node : m # n => pc'[m] = pc[m] /\ observedAt'[m] = observedAt[m]
  BY DEF IInv, TypeOK, Observed, control
<1>2. ExecutionOrder' /\ ExecutionCompatible' /\ ExecutionMaintains'
  BY <1>1 DEF IInv, ExecutionOrder, ExecutionCompatible, ExecutionMaintains
<1>3. ReceiptOrder'
  BY ZenonT(60), <1>1, Facts DEF IInv, ReceiptOrder, Receipts
<1> QED BY <1>1, <1>2, <1>3

\* Preparing adds a receive path and selects nothing.
LEMMA NativePrepareIInv ==
    ASSUME IInv, NEW n \in Node, NativePrepare(n) PROVE IInv'
<1> DEFINE a == admitted[n]
<1>1. TypeOK' /\ TypeOK
  BY NextTypeOK DEF IInv, Next, Undisturbed, AgentStep
<1>2. /\ pc[n] = "native" /\ Observed(n) /\ UNCHANGED <<egress, left>>
      /\ a.phase = "prepare" /\ egress[n] = a.from /\ a.from \in recv[n]
      /\ recv'[n] = recv[n] \cup {a.to}
      /\ \A m \in Node : m # n => recv'[m] = recv[m]
  BY <1>1 DEF NativePrepare, Executes, TypeOK
<1>3. /\ UNCHANGED <<now, journal, proposal, wire, batch, boot, admitted, request>>
      /\ pc'[n] = "observed" /\ observedAt'[n] = now
      /\ \A m \in Node : m # n => pc'[m] = pc[m] /\ observedAt'[m] = observedAt[m]
      /\ ExecutionOrder' /\ ExecutionCompatible' /\ ExecutionMaintains' /\ ReceiptOrder'
  BY <1>2, NativeFrame
<1>4. Compatible(a, journal) /\ (a.nonce = journal.nonce => SameRound(a, journal))
  BY <1>2 DEF IInv, ExecutionCompatible, ExecutionOrder
<1>5. JournalShape' /\ ReceiptTimely' /\ DrainShape'
  BY <1>2, <1>3 DEF IInv, JournalShape, ReceiptTimely, DrainShape, Receipts
<1>6. NativeShape'
  <2>1. ~journal.complete
    BY <1>2, <1>4 DEF IInv, JournalShape, Compatible, Preceding
  <2>2. Up(n)
    BY <1>1, <1>2, Facts, DownIsInt DEF Up
  <2> QED BY <1>2, <1>3, <2>1, <2>2 DEF IInv, NativeShape, Up
<1>7. ExecutionDrained'
  BY <1>2, <1>3 DEF IInv, ExecutionDrained, DrainedNow
<1>8. ObservedTrue'
  <2>1. a.nonce = journal.nonce => PhaseDone(n, journal)'
    BY <1>2, <1>3, <1>4 DEF PhaseDone, SameRound, SamePair
  <2>2. now <= now
    BY SMTT(30), <1>1, Facts
  <2> QED BY ZenonT(60), <1>2, <1>3, <2>1, <2>2 DEF IInv, ObservedTrue, DrainShape, PhaseDone
<1>9. ReceiptsStayTrue'
  <2>1. \A r \in Receipts : r.node = n /\ r.boot = boot[n] /\ r.nonce = journal.nonce
                               => journal.phase = "prepare"
    BY <1>2, OwnReceipts DEF SameRound
  <2> QED BY SMTT(30), <1>2, <1>3, <2>1, Facts DEF IInv, ReceiptsStayTrue, Receipts, PhaseDone
<1> QED BY <1>1, <1>3, <1>5, <1>6, <1>7, <1>8, <1>9 DEF IInv

\* The drain phase checks the selection and changes no path.
LEMMA NativeDrainIInv ==
    ASSUME IInv, NEW n \in Node, NativeDrain(n) PROVE IInv'
<1> DEFINE a == admitted[n]
<1>1. TypeOK' /\ TypeOK
  BY NextTypeOK DEF IInv, Next, Undisturbed, AgentStep
<1>2. /\ pc[n] = "native" /\ Observed(n) /\ UNCHANGED <<recv, egress, left>>
      /\ a.phase = "drain" /\ egress[n] = a.to /\ {a.from, a.to} \subseteq recv[n]
  BY DEF NativeDrain, Executes, native
<1>3. /\ UNCHANGED <<now, journal, proposal, wire, batch, boot, admitted, request>>
      /\ pc'[n] = "observed" /\ observedAt'[n] = now
      /\ \A m \in Node : m # n => pc'[m] = pc[m] /\ observedAt'[m] = observedAt[m]
      /\ ExecutionOrder' /\ ExecutionCompatible' /\ ExecutionMaintains' /\ ReceiptOrder'
  BY <1>2, NativeFrame
<1>4. a.nonce = journal.nonce => SameRound(a, journal)
  BY <1>2 DEF IInv, ExecutionOrder
<1>5. JournalShape' /\ NativeShape' /\ ReceiptTimely' /\ DrainShape' /\ ReceiptsStayTrue'
  BY <1>2, <1>3 DEF IInv, JournalShape, NativeShape, Up, ReceiptTimely, DrainShape,
                    ReceiptsStayTrue, Receipts, PhaseDone
<1>7. ExecutionDrained'
  BY <1>2, <1>3 DEF IInv, ExecutionDrained, DrainedNow
<1>8. ObservedTrue'
  <2>1. a.nonce = journal.nonce => PhaseDone(n, journal)'
    BY ZenonT(60), <1>2, <1>3, <1>4 DEF PhaseDone, SameRound, SamePair
  <2>2. now <= now
    BY SMTT(30), <1>1, Facts
  <2> QED BY <1>2, <1>3, <2>1, <2>2 DEF IInv, ObservedTrue, DrainShape, PhaseDone
<1> QED BY <1>1, <1>3, <1>5, <1>7, <1>8 DEF IInv

\* What the two removals have in common: a is the execution, g what it
\* removes, keep what it leaves selected.
LEMMA RemovalIInv ==
    ASSUME IInv, NEW n \in Node, pc[n] = "native", Observed(n), TypeOK',
           admitted[n].phase \in {"retire", "abort"}, UNCHANGED <<egress, left>>,
           egress[n] = Serving(admitted[n]), Serving(admitted[n]) \in recv[n],
           recv'[n] = recv[n] \ {Removed(admitted[n])},
           \A m \in Node : m # n => recv'[m] = recv[m]
    PROVE  IInv'
<1> DEFINE a == admitted[n]
<1>3. /\ UNCHANGED <<now, journal, proposal, wire, batch, boot, admitted, request>>
      /\ pc'[n] = "observed" /\ observedAt'[n] = now
      /\ \A m \in Node : m # n => pc'[m] = pc[m] /\ observedAt'[m] = observedAt[m]
      /\ ExecutionOrder' /\ ExecutionCompatible' /\ ExecutionMaintains' /\ ReceiptOrder'
  BY NativeFrame
<1>4. Compatible(a, journal) /\ (a.nonce = journal.nonce => SameRound(a, journal))
  BY DEF IInv, ExecutionCompatible, ExecutionOrder
<1>5. JournalShape' /\ ReceiptTimely' /\ DrainShape'
  BY <1>3 DEF IInv, JournalShape, ReceiptTimely, DrainShape, Receipts
<1>a. /\ journal.phase \in {"prepare", "abort", "retire"}
      /\ journal.phase = "prepare" => Removed(a) \notin {journal.from, journal.to}
      /\ journal.phase = "abort" => Removed(a) # journal.from
      /\ journal.phase = "retire" => Removed(a) # journal.to
  <2>1. /\ journal.phase \in {"prepare", "switch", "drain", "retire", "abort"}
        /\ journal.from # journal.to
    BY Facts DEF IInv, JournalShape
  <2> QED BY <1>4, <2>1 DEF Compatible, Preceding, SamePair, Removed
<1>6. NativeShape'
  <2>2. Up(n)
    BY Facts, DownIsInt DEF Up, IInv, Serving
  <2>3. Removed(journal)' = Removed(journal)
    BY <1>3 DEF Removed
  <2> QED BY <1>3, <1>a, <2>2, <2>3 DEF IInv, NativeShape, Up
<1>7. ExecutionDrained'
  BY ZenonT(60), <1>3 DEF IInv, ExecutionDrained, DrainedNow
<1>8. ObservedTrue'
  <2>1. a.nonce = journal.nonce => PhaseDone(n, journal)'
    BY <1>3, <1>4 DEF PhaseDone, SameRound, SamePair, Serving, Removed
  <2>2. now <= now
    BY SMTT(30), Facts DEF IInv
  <2> QED BY ZenonT(60), <1>3, <2>1, <2>2 DEF IInv, ObservedTrue, DrainShape, PhaseDone
<1>9. ReceiptsStayTrue'
  <2>1. \A r \in Receipts : r.node \in Node
    BY Facts DEF IInv
  <2>2. \A m \in Node : PhaseDone(m, journal) => PhaseDone(m, journal)'
    BY <1>3, <1>a DEF PhaseDone
  <2> QED BY <1>3, <2>1, <2>2 DEF IInv, ReceiptsStayTrue, Receipts
<1> QED BY <1>3, <1>5, <1>6, <1>7, <1>8, <1>9 DEF IInv

\* Retirement removes a drained path; an abort removes the unused candidate.
LEMMA NativeRetireIInv ==
    ASSUME IInv, NEW n \in Node, NativeRetire(n) \/ NativeAbort(n) PROVE IInv'
<1>1. TypeOK' /\ TypeOK
  BY NextTypeOK DEF IInv, Next, Undisturbed, AgentStep
<1>2. /\ pc[n] = "native" /\ Observed(n) /\ UNCHANGED <<egress, left>>
      /\ admitted[n].phase \in {"retire", "abort"}
      /\ egress[n] = Serving(admitted[n]) /\ Serving(admitted[n]) \in recv[n]
      /\ recv'[n] = recv[n] \ {Removed(admitted[n])}
      /\ \A m \in Node : m # n => recv'[m] = recv[m]
  BY <1>1 DEF NativeRetire, NativeAbort, Executes, TypeOK, Serving, Removed
<1> QED BY <1>1, <1>2, RemovalIInv

\* A switch selects a generation that every member has prepared.
LEMMA NativeSwitchIInv ==
    ASSUME IInv, NEW n \in Node, NativeSwitch(n) PROVE IInv'
<1> DEFINE a == admitted[n]
<1>1. TypeOK' /\ TypeOK
  BY NextTypeOK DEF IInv, Next, Undisturbed, AgentStep
<1>2. /\ pc[n] = "native" /\ Observed(n) /\ UNCHANGED recv
      /\ a.phase = "switch" /\ {a.from, a.to} \subseteq recv[n]
      /\ egress'[n] = a.to
      /\ \A m \in Node : m # n => egress'[m] = egress[m] /\ left'[m] = left[m]
      /\ left'[n] = left[n] \/ (left'[n].gen = egress[n] /\ left'[n].at = now)
      /\ egress[n] = a.to => left'[n] = left[n]
  BY <1>1 DEF NativeSwitch, Executes, Select, TypeOK
<1>3. /\ UNCHANGED <<now, journal, proposal, wire, batch, boot, admitted, request>>
      /\ pc'[n] = "observed" /\ observedAt'[n] = now
      /\ \A m \in Node : m # n => pc'[m] = pc[m] /\ observedAt'[m] = observedAt[m]
      /\ ExecutionOrder' /\ ExecutionCompatible' /\ ExecutionMaintains' /\ ReceiptOrder'
  BY <1>2, NativeFrame
<1>4. Compatible(a, journal) /\ (a.nonce = journal.nonce => SameRound(a, journal))
  BY <1>2 DEF IInv, ExecutionCompatible, ExecutionOrder
<1>5. /\ journal.phase \in {"switch", "drain"}
      /\ journal.phase = "switch" => {a.from, a.to} = {journal.from, journal.to}
      /\ journal.phase = "drain" => a.to = journal.to
      /\ ~journal.complete
  BY <1>1, <1>2, <1>4, Facts DEF Compatible, Preceding, SamePair, IInv, JournalShape
<1>a. Up(n) /\ Up(n)'
  BY <1>1, <1>2, Facts, DownIsInt DEF Up, IInv, NativeShape
<1>b. journal.phase = "drain" => egress[n] = a.to
  BY <1>5, <1>a DEF IInv, NativeShape
<1>c. now <= now
  BY SMTT(30), <1>1, Facts
<1>6. JournalShape'
  <2>1. egress'[n] <= Candidate(journal) /\ left'[n].gen <= Candidate(journal)
    BY <1>1, <1>2, <1>5 DEF IInv, JournalShape
  <2> QED BY <1>2, <1>3, <2>1 DEF IInv, JournalShape
<1>7. NativeShape'
  BY <1>2, <1>3, <1>5, <1>a DEF IInv, NativeShape, Up
<1>8. ExecutionDrained'
  BY <1>3, <1>5 DEF IInv, ExecutionCompatible, Compatible, ExecutionDrained
<1>9. ObservedTrue'
  <2>1. a.nonce = journal.nonce => PhaseDone(n, journal)'
    <3>1. a.nonce = journal.nonce => /\ journal.phase = "switch"
                                     /\ journal.from = a.from /\ journal.to = a.to
      BY <1>2, <1>4 DEF SameRound, SamePair
    <3> QED BY ZenonT(60), <1>2, <1>3, <3>1 DEF PhaseDone
  <2>2. left'[n].at <= now
    BY <1>2, <1>c DEF IInv, DrainShape
  <2> QED BY ZenonT(60), <1>2, <1>3, <1>c, <2>1, <2>2 DEF IInv, ObservedTrue, PhaseDone
<1>d. \A r \in Receipts : r.node = n /\ r.boot = boot[n] /\ r.nonce = journal.nonce
                              => SameRound(a, journal) /\ egress[n] = a.to
  <2>1. \A r \in Receipts : r.node = n /\ r.boot = boot[n] /\ r.nonce = journal.nonce
                              => SameRound(a, journal) /\ PhaseDone(n, journal)
    BY <1>2, <1>5, OwnReceipts DEF IInv, ReceiptsStayTrue
  <2> QED BY <1>2, <2>1 DEF SameRound, SamePair, PhaseDone
<1>10. ReceiptsStayTrue'
  <2>1. \A r \in Receipts : r.node \in Node
    BY <1>1, Facts
  <2>2. \A m \in Node : PhaseDone(m, journal) /\ (m = n => egress[n] = a.to)
                            => PhaseDone(m, journal)'
    BY ZenonT(60), <1>2, <1>3 DEF PhaseDone
  <2> QED BY <1>3, <1>d, <2>1, <2>2 DEF IInv, ReceiptsStayTrue, Receipts
<1>11. ReceiptTimely'
  BY SMTT(30), <1>1, <1>2, <1>3, <1>d, Facts DEF IInv, ReceiptTimely, Receipts
<1>12. DrainShape'
  BY <1>2, <1>3, <1>5, <1>b, <1>c DEF IInv, DrainShape
<1> QED BY <1>1, <1>3, <1>6, <1>7, <1>8, <1>9, <1>10, <1>11, <1>12 DEF IInv

-----------------------------------------------------------------------------
(* The end of an execution, the transport and the journal's progress.       *)

\* An agent that ends its execution leaves everything else as it was.
LEMMA IdleFrame ==
    ASSUME IInv, NEW n \in Node, Idle(n), UNCHANGED <<now, journal, left>>
    PROVE  /\ pc'[n] = "idle"
           /\ \A m \in Node : m # n =>
                 /\ pc'[m] = pc[m] /\ admitted'[m] = admitted[m]
                 /\ request'[m] = request[m] /\ observedAt'[m] = observedAt[m]
           /\ ExecutionOrder' /\ ExecutionCompatible' /\ ExecutionDrained'
           /\ proposal' = proposal => ExecutionMaintains'
<1>1. /\ pc'[n] = "idle"
      /\ \A m \in Node : m # n =>
                 /\ pc'[m] = pc[m] /\ admitted'[m] = admitted[m]
                 /\ request'[m] = request[m] /\ observedAt'[m] = observedAt[m]
  BY DEF Idle, IInv, TypeOK
<1>2. ExecutionOrder' /\ ExecutionCompatible'
  BY <1>1 DEF IInv, ExecutionOrder, ExecutionCompatible
<1>3. ExecutionDrained'
  BY SMTT(30), <1>1 DEF IInv, ExecutionDrained, DrainedNow
<1>4. proposal' = proposal => ExecutionMaintains'
  BY <1>1 DEF IInv, ExecutionMaintains
<1> QED BY <1>1, <1>2, <1>3, <1>4

\* An execution that gives up leaves its native effect in place.
LEMMA AbandonIInv ==
    ASSUME IInv, NEW n \in Node, Abandon(n) PROVE IInv'
<1> USE DEF control, native
<1>1. TypeOK' /\ TypeOK
  BY NextTypeOK DEF IInv, Next, Undisturbed, AgentStep
<1>2. Idle(n) /\ UNCHANGED <<now, journal, proposal, wire, batch, recv, egress, left, boot>>
  BY DEF Abandon
<1>3. /\ pc'[n] = "idle"
      /\ \A m \in Node : m # n => /\ pc'[m] = pc[m] /\ admitted'[m] = admitted[m]
                                  /\ observedAt'[m] = observedAt[m]
      /\ ExecutionOrder' /\ ExecutionCompatible' /\ ExecutionDrained' /\ ExecutionMaintains'
  BY <1>2, IdleFrame
<1>4. JournalShape' /\ NativeShape' /\ ReceiptTimely' /\ DrainShape' /\ ReceiptsStayTrue'
  BY ZenonT(60), <1>2 DEF IInv, JournalShape, NativeShape, Up, ReceiptTimely, DrainShape,
              ReceiptsStayTrue, Receipts, PhaseDone
<1>5. ObservedTrue'
  BY <1>2, <1>3 DEF IInv, ObservedTrue, PhaseDone
<1>6. ReceiptOrder'
  BY ZenonT(60), <1>1, <1>2, <1>3, Facts DEF IInv, ReceiptOrder, Receipts
<1> QED BY <1>1, <1>3, <1>4, <1>5, <1>6 DEF IInv

\* A receipt is sent for work that is done and still admitted.
LEMMA SendIInv ==
    ASSUME IInv, NEW n \in Node, Send(n) PROVE IInv'
<1> USE DEF control, native
<1> DEFINE r == [node |-> n, boot |-> boot[n], nonce |-> admitted[n].nonce,
                 at |-> observedAt[n]]
<1>1. TypeOK' /\ TypeOK
  BY NextTypeOK DEF IInv, Next, Undisturbed, AgentStep
<1>2. /\ Idle(n) /\ UNCHANGED <<now, journal, proposal, batch, recv, egress, left, boot>>
      /\ pc[n] = "observed" /\ wire' = wire \cup {r}
      /\ journal.nonce = admitted[n].nonce /\ ~journal.complete
  BY DEF Send, SendsReceipt, ContinuesExecution
<1>3. /\ pc'[n] = "idle"
      /\ \A m \in Node : m # n => /\ pc'[m] = pc[m] /\ admitted'[m] = admitted[m]
                                  /\ observedAt'[m] = observedAt[m]
      /\ ExecutionOrder' /\ ExecutionCompatible' /\ ExecutionDrained' /\ ExecutionMaintains'
  BY <1>2, IdleFrame
<1>4. /\ r.node = n /\ r.boot = boot[n] /\ r.nonce = journal.nonce
      /\ r.at = observedAt[n] /\ Receipts' = Receipts \cup {r}
  BY <1>2 DEF Receipts
<1> HIDE DEF r
<1>5. /\ PhaseDone(n, journal) /\ observedAt[n] <= now
      /\ left[n].gen = journal.from => left[n].at <= observedAt[n]
  BY <1>2 DEF IInv, ObservedTrue
<1>6. JournalShape' /\ NativeShape' /\ DrainShape'
  BY <1>2 DEF IInv, JournalShape, NativeShape, Up, DrainShape
<1>7. ObservedTrue'
  BY <1>2, <1>3 DEF IInv, ObservedTrue, PhaseDone
<1>8. ReceiptOrder'
  BY SMTT(30), <1>1, <1>2, <1>3, <1>4, <1>5, Facts DEF IInv, ReceiptOrder
<1>9. ReceiptsStayTrue'
  <2>1. \A m : PhaseDone(m, journal)' = PhaseDone(m, journal)
    BY <1>2 DEF PhaseDone
  <2> QED BY <1>2, <1>4, <1>5, <2>1 DEF IInv, ReceiptsStayTrue
<1>10. ReceiptTimely'
  BY <1>2, <1>4, <1>5 DEF IInv, ReceiptTimely
<1> QED BY <1>1, <1>3, <1>6, <1>7, <1>8, <1>9, <1>10 DEF IInv

\* Maintenance restores the serving generation and prepares a successor.
LEMMA MaintainIInv ==
    ASSUME IInv, NEW n \in Node, Maintain(n) PROVE IInv'
<1> DEFINE a == admitted[n]
<1>1. TypeOK' /\ TypeOK
  BY NextTypeOK DEF IInv, Next, Undisturbed, AgentStep
<1>2. /\ Idle(n) /\ UNCHANGED <<now, journal, proposal, wire, batch, boot>>
      /\ pc[n] = "maintain"
      /\ recv'[n] = recv[n] \cup {Serving(a)} \cup request[n]
      /\ egress'[n] = Serving(a)
      /\ \A m \in Node : m # n => egress'[m] = egress[m] /\ recv'[m] = recv[m]
      /\ egress[n] \in {Serving(a), Down} => left' = left
  BY SMTT(30), <1>1 DEF Maintain, Select, TypeOK
<1>3. /\ a.nonce = journal.nonce => journal.complete
      /\ journal.complete => SameRound(a, journal)
      /\ ~journal.complete => Preceding(a, journal)
      /\ \A g \in request[n] : Candidate(a) < g /\ g <= proposal
      /\ Compatible(a, journal)
  BY <1>2 DEF IInv, ExecutionMaintains, ExecutionCompatible
<1>4. ~journal.complete => /\ journal.phase \in {"prepare", "abort"}
                           /\ Serving(a) = journal.from
  BY <1>1, <1>3, Facts DEF Compatible, Preceding, SamePair, Serving, IInv, JournalShape
<1>5. journal.complete => /\ Serving(a) = Serving(journal)
                          /\ Candidate(a) = Candidate(journal)
                          /\ journal.phase \in {"retire", "abort"}
  BY <1>3 DEF SameRound, SamePair, Serving, Candidate, IInv, JournalShape
<1>6. egress[n] \in {Serving(a), Down}
  BY <1>4, <1>5 DEF IInv, NativeShape, Up, Serving
<1>7. left' = left
  BY <1>2, <1>6
<1>8. /\ pc'[n] = "idle"
      /\ \A m \in Node : m # n => /\ pc'[m] = pc[m] /\ admitted'[m] = admitted[m]
                                  /\ observedAt'[m] = observedAt[m]
      /\ ExecutionOrder' /\ ExecutionCompatible' /\ ExecutionDrained' /\ ExecutionMaintains'
  BY <1>2, <1>7, IdleFrame
<1>9. Serving(a) \in {journal.from, journal.to}
  BY <1>4, <1>5 DEF Serving
<1>10. JournalShape'
  <2>1. egress'[n] <= Candidate(journal)
    BY <1>2, <1>9 DEF IInv, JournalShape
  <2> QED BY <1>2, <1>7, <2>1 DEF IInv, JournalShape
<1>11. NativeShape'
  <2>1. Up(n)'
    BY <1>1, <1>2, <1>9, Facts, DownIsInt DEF Up
  <2>2. journal.complete => Removed(journal) \notin {Serving(a)} \cup request[n]
    <3>1. SUFFICES ASSUME journal.complete
                   PROVE  Removed(journal) \notin {Serving(a)} \cup request[n]
      OBVIOUS
    <3>2. Removed(journal) # Serving(journal) /\ Removed(journal) \in {journal.from, journal.to}
      BY DEF Removed, Serving, IInv, JournalShape
    <3>3. Removed(journal) <= Candidate(a) /\ Removed(journal) \in Nat /\ Candidate(a) \in Nat
      BY <1>1, <1>5, <3>1, <3>2, Facts DEF IInv, JournalShape, Candidate
    <3>4. \A g \in request[n] : g \in Nat /\ Candidate(a) < g
      BY <1>1, <1>3, Facts
    <3> QED BY SMTT(30), <1>5, <3>1, <3>2, <3>3, <3>4
  <2>3. ~Up(n) => recv[n] = {}
    BY DEF IInv, NativeShape
  <2>4. Up(n) /\ journal.complete => Removed(journal) \notin recv[n]
    BY DEF IInv, NativeShape
  <2>5. journal.complete => Removed(journal) \notin recv'[n]
    BY <1>2, <2>2, <2>3, <2>4
  <2>6. journal.phase \in {"prepare", "abort", "retire"}
    BY <1>4, <1>5
  <2>7. journal.phase = "retire" => Serving(a) = journal.to
    BY <1>4, <1>5 DEF Serving
  <2>8. journal.phase \in {"prepare", "abort"} => Serving(a) = journal.from
    BY <1>4, <1>5 DEF Serving
  <2>9. Removed(journal)' = Removed(journal)
    BY <1>2 DEF Removed
  <2> QED BY ZenonT(60), <1>2, <2>1, <2>5, <2>6, <2>7, <2>8, <2>9 DEF IInv, NativeShape, Up
<1>12. ObservedTrue'
  BY ZenonT(60), <1>2, <1>7, <1>8 DEF IInv, ObservedTrue, PhaseDone
<1>13. ReceiptOrder'
  BY ZenonT(60), <1>1, <1>2, <1>8, Facts DEF IInv, ReceiptOrder, Receipts
<1>14. ReceiptsStayTrue'
  <2>1. \A r \in Receipts : r.node = n /\ r.boot = boot[n] /\ r.nonce = journal.nonce
                                => journal.complete
    BY <1>2, <1>3, OwnReceipts
  <2> QED BY SMTT(30), <1>1, <1>2, <2>1, Facts DEF IInv, ReceiptsStayTrue, Receipts, PhaseDone
<1>15. ReceiptTimely' /\ DrainShape'
  BY <1>2, <1>7 DEF IInv, ReceiptTimely, DrainShape, Receipts
<1> QED BY <1>1, <1>8, <1>10, <1>11, <1>12, <1>13, <1>14, <1>15 DEF IInv

\* A reboot empties the Node and voids its earlier receipts.
LEMMA RebootIInv ==
    ASSUME IInv, NEW n \in Node, Reboot(n) PROVE IInv'
<1> USE DEF control
<1>1. TypeOK' /\ TypeOK
  BY NextTypeOK DEF IInv, Next, Undisturbed, AgentStep
<1>2. /\ Idle(n) /\ UNCHANGED <<now, journal, proposal, wire, batch, left>>
      /\ boot'[n] = boot[n] + 1 /\ recv'[n] = {} /\ egress'[n] = Down
      /\ \A m \in Node : m # n => /\ boot'[m] = boot[m] /\ recv'[m] = recv[m]
                                  /\ egress'[m] = egress[m]
  BY SMTT(30), <1>1 DEF Reboot, TypeOK
<1>3. /\ pc'[n] = "idle"
      /\ \A m \in Node : m # n => /\ pc'[m] = pc[m] /\ admitted'[m] = admitted[m]
                                  /\ observedAt'[m] = observedAt[m]
      /\ ExecutionOrder' /\ ExecutionCompatible' /\ ExecutionDrained' /\ ExecutionMaintains'
  BY <1>2, IdleFrame
<1>4. JournalShape'
  <2>1. Down <= Candidate(journal)
    BY <1>1, Facts, DownIsInt DEF Candidate
  <2> QED BY <1>2, <2>1 DEF IInv, JournalShape
<1>5. NativeShape'
  BY <1>2 DEF IInv, NativeShape, Up
<1>6. ObservedTrue'
  BY ZenonT(60), <1>2, <1>3 DEF IInv, ObservedTrue, PhaseDone
<1>7. \A r \in Receipts : r.node = n => r.boot < boot'[n]
  BY SMTT(30), <1>1, <1>2, Facts DEF IInv, ReceiptOrder
<1>a. boot[n] \in Nat /\ boot'[n] \in Nat
  BY SMTT(30), <1>1, <1>2 DEF TypeOK
<1>8. ReceiptOrder'
  <2>1. ReceiptOrder
    BY DEF IInv
  <2>2. Receipts' = Receipts
    BY <1>2 DEF Receipts
  <2>3. ASSUME NEW r \in Receipts
        PROVE  /\ r.boot <= boot'[r.node]
               /\ r.boot = boot'[r.node] /\ pc'[r.node] # "idle"
                     => r.nonce <= admitted'[r.node].nonce
    <3>1. r.node \in Node /\ r.boot \in Nat
      BY <1>1, Facts
    <3>2. CASE r.node = n
      <4>1. r.boot < boot'[n]
        BY <1>7, <3>2
      <4> QED BY SMTT(30), <1>a, <3>1, <3>2, <4>1
    <3>3. CASE r.node # n
      BY <1>2, <1>3, <2>1, <3>1, <3>3 DEF ReceiptOrder
    <3> QED BY <3>2, <3>3
  <2> QED BY <1>2, <2>1, <2>2, <2>3 DEF ReceiptOrder
<1>b. \A r \in Receipts : r.boot = boot'[r.node] => r.node # n /\ r.boot = boot[r.node]
  BY SMTT(30), <1>1, <1>2, <1>7, <1>a, Facts
<1>9. ReceiptsStayTrue'
  <2>1. \A r \in Receipts : r.node \in Node
    BY <1>1, Facts
  <2>2. \A m \in Node : m # n => PhaseDone(m, journal)' = PhaseDone(m, journal)
    BY <1>2 DEF PhaseDone
  <2> QED BY <1>2, <1>b, <2>1, <2>2 DEF IInv, ReceiptsStayTrue, Receipts
<1>10. ReceiptTimely' /\ DrainShape'
  BY <1>2, <1>b DEF IInv, ReceiptTimely, DrainShape, Receipts
<1> QED BY <1>1, <1>3, <1>4, <1>5, <1>6, <1>8, <1>9, <1>10 DEF IInv

\* Losing receipts, or proposing a generation, disturbs nothing.
LEMMA LossIInv ==
    ASSUME IInv, TypeOK', UNCHANGED <<now, journal, agent, native, boot>>,
           wire' \subseteq wire, batch' \subseteq batch,
           proposal' = proposal \/ proposal' = proposal + 1
    PROVE  IInv'
<1> USE DEF agent, native
<1>1. Receipts' \subseteq Receipts
  BY DEF Receipts
<1>2. proposal \in Nat /\ proposal' \in Nat /\ proposal <= proposal'
  BY SMTT(30), Facts DEF IInv
<1>3. JournalShape'
  <2>1. Candidate(journal) \in Nat
    BY Facts DEF IInv, Candidate
  <2> QED BY SMTT(30), <1>2, <2>1 DEF IInv, JournalShape
<1>4. NativeShape' /\ DrainShape' /\ ExecutionOrder' /\ ExecutionCompatible'
  BY DEF IInv, NativeShape, Up, DrainShape, ExecutionOrder, ExecutionCompatible
<1>5. ExecutionMaintains'
  BY SMTT(30), <1>2, Facts DEF IInv, ExecutionMaintains
<1>6. ExecutionDrained' /\ ObservedTrue'
  BY DEF IInv, ExecutionDrained, DrainedNow, ObservedTrue, PhaseDone
<1>7. ReceiptOrder' /\ ReceiptsStayTrue' /\ ReceiptTimely'
  BY <1>1 DEF IInv, ReceiptOrder, ReceiptsStayTrue, ReceiptTimely, PhaseDone
<1> QED BY <1>3, <1>4, <1>5, <1>6, <1>7 DEF IInv

\* An observation moves a receipt into the journal.
LEMMA SubmitIInv ==
    ASSUME IInv, NEW r \in wire, Submit(r) PROVE IInv'
<1> USE DEF agent, native
<1>1. TypeOK' /\ TypeOK
  BY NextTypeOK DEF IInv, Next, Undisturbed
<1>2. PICK at \in Sampled : CanObserve(journal, at, r) /\ journal' = Observe(journal, at, r)
  BY DEF Submit
<1>3. r \in Receipt /\ at \in Nat /\ at <= now
  BY <1>1, SampledIsNat DEF TypeOK
<1>4. /\ journal'.from = journal.from /\ journal'.to = journal.to
      /\ journal'.phase = journal.phase /\ journal'.rollback = journal.rollback
      /\ journal'.nonce = journal.nonce /\ journal'.drainUntil = journal.drainUntil
      /\ journal'.last = at /\ ~journal'.complete
      /\ journal'.observed \subseteq journal.observed \cup {r}
  <2>1. Continues(journal', journal, at, FALSE, journal.observed \cup {r})
    BY <1>1, <1>2, <1>3, ObserveFields DEF TypeOK
  <2> QED BY <2>1 DEF Continues
<1>5. /\ ~journal.complete
      /\ UNCHANGED <<now, proposal, pc, admitted, request, observedAt, recv, egress,
                     left, boot>>
  BY <1>2 DEF Submit, CanObserve, Chronology
<1>6. Receipts' \subseteq Receipts
  BY <1>4 DEF Receipts, Submit
<1>7. /\ Candidate(journal)' = Candidate(journal)
      /\ \A n \in Node : PhaseDone(n, journal)' <=> PhaseDone(n, journal)
      /\ \A n \in Node : Compatible(admitted[n], journal)' <=> Compatible(admitted[n], journal)
      /\ \A n \in Node : SameRound(admitted[n], journal)' <=> SameRound(admitted[n], journal)
      /\ \A n \in Node : Preceding(admitted[n], journal)' <=> Preceding(admitted[n], journal)
  BY ZenonT(60), <1>4, <1>5 DEF Candidate, PhaseDone, Compatible, SameRound, SamePair, Preceding
<1>8. JournalShape' /\ NativeShape' /\ DrainShape'
  BY ZenonT(60), <1>3, <1>4, <1>5, <1>7 DEF IInv, JournalShape, NativeShape, Up, DrainShape
<1>9. ExecutionOrder' /\ ExecutionCompatible' /\ ExecutionMaintains'
  BY <1>4, <1>5, <1>7 DEF IInv, ExecutionOrder, ExecutionCompatible, ExecutionMaintains
<1>10. ExecutionDrained' /\ ObservedTrue'
  BY <1>4, <1>5, <1>7 DEF IInv, ExecutionDrained, DrainedNow, ObservedTrue
<1>11. ReceiptOrder'
  BY <1>4, <1>5, <1>6 DEF IInv, ReceiptOrder
<1>12. ReceiptsStayTrue' /\ ReceiptTimely'
  <2>1. ReceiptsStayTrue'
    BY <1>1, <1>4, <1>5, <1>6, <1>7, Facts DEF IInv, ReceiptsStayTrue
  <2>2. ReceiptTimely'
    BY <1>4, <1>5, <1>6 DEF IInv, ReceiptTimely
  <2> QED BY <2>1, <2>2
<1> QED BY <1>1, <1>8, <1>9, <1>10, <1>11, <1>12 DEF IInv

\* A fresh round makes every receipt and every execution stale, so only the
\* parts of the invariant about the journal's phase have to be shown.
LEMMA FreshRound ==
    ASSUME IInv, TypeOK', UNCHANGED <<now, proposal, agent, wire, native, boot>>,
           batch' \subseteq batch,
           journal'.observed = {}, journal'.nonce = journal.nonce + 1,
           ~journal'.complete,
           \A n \in Node : pc[n] # "idle" => Compatible(admitted[n], journal'),
           \A n \in Node : pc[n] = "maintain" => Preceding(admitted[n], journal'),
           JournalShape', NativeShape', DrainShape'
    PROVE  IInv'
<1> USE DEF agent, native
<1>1. journal.nonce \in Nat /\ Receipts' \subseteq Receipts
  BY Facts DEF IInv, Receipts
<1>2. \A n \in Node : pc[n] # "idle" => /\ admitted[n].nonce \in Nat
                                        /\ admitted[n].nonce <= journal.nonce
  BY Facts DEF IInv, ExecutionOrder
<1>3. \A n \in Node : pc[n] # "idle" => /\ admitted[n].nonce <= journal'.nonce
                                        /\ admitted[n].nonce # journal'.nonce
  BY SMTT(30), <1>1, <1>2
<1>4. \A r \in Receipts' : r.nonce <= journal'.nonce /\ r.nonce # journal'.nonce
  BY SMTT(30), <1>1, Facts DEF IInv, ReceiptOrder
<1>5. ExecutionOrder' /\ ExecutionCompatible'
  BY <1>3 DEF ExecutionOrder, ExecutionCompatible
<1>6. ExecutionMaintains'
  BY <1>3 DEF IInv, ExecutionMaintains
<1>7. ExecutionDrained'
  BY DEF IInv, ExecutionDrained, DrainedNow
<1>8. ObservedTrue'
  BY <1>3 DEF IInv, ObservedTrue
<1>9. ReceiptOrder'
  BY <1>1, <1>4 DEF IInv, ReceiptOrder
<1>10. ReceiptsStayTrue' /\ ReceiptTimely'
  BY <1>4 DEF ReceiptsStayTrue, ReceiptTimely
<1> QED BY <1>5, <1>6, <1>7, <1>8, <1>9, <1>10 DEF IInv

\* A complete set of authentic receipts says what every Node's native state
\* is, and that no execution of an older round is left anywhere.
LEMMA Quorum ==
    ASSUME IInv, NEW at \in Nat, Advances(at), NEW n \in Node
    PROVE  /\ ~journal.complete
           /\ PhaseDone(n, journal)
           /\ pc[n] # "idle" => SameRound(admitted[n], journal) /\ pc[n] # "maintain"
           /\ journal.phase = "switch" /\ left[n].gen = journal.from => left[n].at <= at
<1>1. ~journal.complete
  BY DEF Advances, CanAdvance, Chronology
<1>2. PICK r \in batch : r.node = n
  BY DEF Advances, CanAdvance, CompleteSet
<1>3. /\ r \in Receipts /\ r.boot = boot[r.node] /\ r.nonce = journal.nonce
      /\ r.at <= at
  BY <1>2 DEF Advances, Authentic, CanAdvance, ValidReceipt, Receipts
<1>4. PhaseDone(n, journal)
  BY <1>1, <1>2, <1>3 DEF IInv, ReceiptsStayTrue
<1>5. pc[n] # "idle" => SameRound(admitted[n], journal) /\ pc[n] # "maintain"
  BY <1>1, <1>2, <1>3, OwnReceipts DEF IInv, ExecutionMaintains
<1>6. ASSUME journal.phase = "switch", left[n].gen = journal.from PROVE left[n].at <= at
  <2>1. left[n].at <= r.at
    BY <1>2, <1>3, <1>6 DEF IInv, ReceiptTimely
  <2>2. left[n].at \in Nat /\ r.at \in Nat
    BY <1>3, Facts DEF IInv
  <2> QED BY SMTT(30), <1>3, <2>1, <2>2
<1> QED BY <1>1, <1>4, <1>5, <1>6

\* Advancing to the next phase.
LEMMA AdvanceIInv ==
    ASSUME IInv, Complete, journal.phase \in {"prepare", "switch", "drain"}
    PROVE  IInv'
<1>1. TypeOK' /\ TypeOK
  BY NextTypeOK DEF IInv, Next, Undisturbed
<1>2. PICK at \in Sampled : Advances(at) /\ journal' = Advance(journal, at)
  BY DEF Complete
<1>3. /\ at \in Nat /\ at <= now /\ now \in Nat
      /\ UNCHANGED <<now, proposal, agent, wire, native, boot>> /\ batch' \subseteq batch
  BY <1>1, SampledIsNat DEF Complete, TypeOK
<1> DEFINE phase == CASE journal.phase = "prepare" -> "switch"
                      [] journal.phase = "switch" -> "drain"
                      [] journal.phase = "drain" -> "retire"
           until == IF journal.phase = "switch" THEN at + DrainInterval
                    ELSE journal.drainUntil
<1>4. Becomes(journal', journal.from, journal.to, phase, journal.rollback,
              journal.nonce + 1, until, at)
  <2>1. journal \in Journal
    BY <1>1 DEF TypeOK
  <2>2. CASE journal.phase = "prepare"
    BY <1>2, <1>3, <2>1, <2>2, EventFields
  <2>3. CASE journal.phase = "switch"
    BY <1>2, <1>3, <2>1, <2>3, EventFields
  <2>4. CASE journal.phase = "drain"
    BY <1>2, <1>3, <2>1, <2>4, EventFields
  <2> QED BY <2>2, <2>3, <2>4
<1>5. /\ phase = "switch" <=> journal.phase = "prepare"
      /\ phase = "drain" <=> journal.phase = "switch"
      /\ phase = "retire" <=> journal.phase = "drain"
      /\ phase \in {"switch", "drain", "retire"}
  OBVIOUS
<1>6. /\ journal'.from = journal.from /\ journal'.to = journal.to
      /\ journal'.phase = phase /\ journal'.rollback = journal.rollback
      /\ journal'.nonce = journal.nonce + 1 /\ journal'.last = at
      /\ ~journal'.complete /\ journal'.observed = {}
      /\ journal'.drainUntil = until
  BY <1>4 DEF Becomes
<1> HIDE DEF phase
<1>7. \A n \in Node : /\ PhaseDone(n, journal)
                      /\ pc[n] # "idle" => SameRound(admitted[n], journal)
                      /\ pc[n] # "maintain"
                      /\ journal.phase = "switch" /\ left[n].gen = journal.from
                            => left[n].at <= at
  BY <1>2, <1>3, Quorum
<1>8. \A n \in Node : pc[n] # "idle" => Compatible(admitted[n], journal')
  BY <1>5, <1>6, <1>7 DEF SameRound, SamePair, Compatible
<1>9. JournalShape'
  <2>1. Candidate(journal)' = Candidate(journal)
    BY SMTT(30), <1>5, <1>6 DEF Candidate
  <2> QED BY <1>3, <1>5, <1>6, <2>1 DEF IInv, JournalShape, native
<1>10. NativeShape'
  <2>1. NativeShape
    BY DEF IInv
  <2> QED BY SMTT(30), <1>3, <1>5, <1>6, <1>7, <2>1 DEF NativeShape, Up, PhaseDone, native
<1>11. DrainShape'
  <2> SUFFICES ASSUME NEW n \in Node
               PROVE  /\ left[n].at <= now
                      /\ phase = "drain" /\ left[n].gen = journal.from
                            => left[n].at + DrainInterval <= until
                      /\ phase = "retire" /\ left[n].gen = journal.from
                            => left[n].at + DrainInterval <= now
    BY <1>3, <1>5, <1>6 DEF DrainShape, native
  <2>1. /\ left[n].at <= now /\ left[n].at \in Nat /\ journal.drainUntil \in Nat
    BY ZenonT(60), <1>1, Facts DEF IInv, DrainShape
  <2>2. ASSUME phase = "drain", left[n].gen = journal.from
        PROVE  left[n].at + DrainInterval <= until
    BY SMTT(30), <1>3, <1>5, <1>7, <2>1, <2>2, PolicyAssumption
  <2>3. ASSUME phase = "retire", left[n].gen = journal.from
        PROVE  left[n].at + DrainInterval <= now
    <3>1. journal.drainUntil <= at
      BY <1>2, <1>3, <1>5, <2>1, <2>3 DEF Advances, CanAdvance
    <3>2. left[n].at + DrainInterval <= journal.drainUntil
      BY <1>5, <2>3 DEF IInv, DrainShape
    <3> QED BY SMTT(30), <1>3, <2>1, <3>1, <3>2, PolicyAssumption
  <2> QED BY <2>1, <2>2, <2>3
<1> QED BY <1>1, <1>3, <1>6, <1>7, <1>8, <1>9, <1>10, <1>11, FreshRound

\* Completing the transition.
LEMMA FinishIInv ==
    ASSUME IInv, Complete, journal.phase \in {"retire", "abort"}
    PROVE  IInv'
<1> USE DEF agent, native
<1>1. TypeOK' /\ TypeOK
  BY NextTypeOK DEF IInv, Next, Undisturbed
<1>2. PICK at \in Sampled : Advances(at) /\ journal' = Advance(journal, at)
  BY DEF Complete
<1>3. /\ at \in Nat /\ at <= now
      /\ UNCHANGED <<now, proposal, agent, wire, native, boot>> /\ batch' \subseteq batch
  BY <1>1, SampledIsNat DEF Complete, TypeOK
<1>4. Continues(journal', journal, at, TRUE, {})
  BY ZenonT(60), <1>1, <1>2, <1>3, EventFields, FinishFields DEF TypeOK
<1>5. /\ journal'.from = journal.from /\ journal'.to = journal.to
      /\ journal'.phase = journal.phase /\ journal'.rollback = journal.rollback
      /\ journal'.nonce = journal.nonce /\ journal'.drainUntil = journal.drainUntil
      /\ journal'.last = at /\ journal'.complete /\ journal'.observed = {}
  BY <1>4 DEF Continues
<1>6. \A n \in Node : /\ PhaseDone(n, journal)
                      /\ pc[n] # "idle" => SameRound(admitted[n], journal)
                      /\ pc[n] # "maintain"
  BY <1>2, <1>3, Quorum
<1>7. Receipts' \subseteq Receipts
  BY <1>3, <1>5 DEF Receipts
<1>8. JournalShape'
  <2>1. Candidate(journal)' = Candidate(journal)
    BY <1>5 DEF Candidate
  <2> QED BY <1>3, <1>5, <2>1 DEF IInv, JournalShape
<1>9. NativeShape'
  <2>1. \A n \in Node : Removed(journal') \notin recv[n]
    BY <1>5, <1>6 DEF PhaseDone, Removed
  <2> QED BY <1>3, <1>5, <2>1 DEF IInv, NativeShape, Up
<1>10. ExecutionOrder' /\ ExecutionCompatible'
  <2>1. ExecutionOrder'
    BY <1>3, <1>5, <1>6 DEF IInv, ExecutionOrder, SameRound, SamePair
  <2>2. ExecutionCompatible'
    BY <1>3, <1>5, <1>6 DEF ExecutionCompatible, Compatible, SameRound, SamePair
  <2> QED BY <2>1, <2>2
<1>11. ExecutionMaintains'
  BY <1>3, <1>6 DEF ExecutionMaintains
<1>12. ExecutionDrained' /\ ObservedTrue'
  BY <1>3, <1>5 DEF IInv, ExecutionDrained, DrainedNow, ObservedTrue
<1>13. ReceiptOrder' /\ ReceiptsStayTrue' /\ ReceiptTimely'
  BY <1>3, <1>5, <1>7 DEF IInv, ReceiptOrder, ReceiptsStayTrue, ReceiptTimely
<1>14. DrainShape'
  BY <1>3, <1>5 DEF IInv, DrainShape
<1> QED BY <1>1, <1>8, <1>9, <1>10, <1>11, <1>12, <1>13, <1>14 DEF IInv
=============================================================================
