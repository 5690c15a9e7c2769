-------------------------- MODULE RetirementProofs --------------------------
(***************************************************************************)
(* What the retirement of cloud workers guarantees, for any workers, site  *)
(* consumers, courses of events and policy: proofs about Retirement.       *)
(***************************************************************************)
EXTENDS Retirement, TLAPS

\* The provers of a step that names none.
USE ZenonT(30), SMTT(30)

TypeInv == TypeOK /\ course \in Courses

\* The worker is marked for drain and no longer in the mesh.
Left(w) == w \in drain /\ w \notin Remotes

\* Consumer c has nothing of w: not in its kernel, not in what a reboot
\* restores, and not in the ordinary work it was admitted to.
Clear(c, w) ==
    /\ w \notin native[c]
    /\ w \notin check[c].peers
    /\ agent[c].op = "maintain" => w \notin agent[c].peers

-----------------------------------------------------------------------------
(* Types.                                                                   *)

LEMMA MeshDataElim ==
    ASSUME NEW f \in MeshData
    PROVE  DOMAIN f \subseteq Worker /\ f \in [DOMAIN f -> 0 .. MaxAddress]
<1>1. PICK W \in SUBSET Worker : f \in [W -> 0 .. MaxAddress]
  BY DEF MeshData
<1> QED
  BY <1>1

LEMMA MeshDataIntro ==
    ASSUME NEW S \in SUBSET Worker, NEW f \in [S -> 0 .. MaxAddress]
    PROVE  f \in MeshData
BY DEF MeshData

LEMMA ByIntro ==
    ASSUME NEW S \in SUBSET Consumer, NEW f \in [S -> 0 .. MaxBoot]
    PROVE  f \in UNION {[C -> 0 .. MaxBoot] : C \in SUBSET Consumer}
OBVIOUS

LEMMA Nothing ==
    /\ NoData \in MeshData
    /\ NoData \in UNION {[C -> 0 .. MaxBoot] : C \in SUBSET Consumer}
    /\ NoIntent \in Intent
    /\ NoEvidence \in Evidence
<1>1. NoData \in [{} -> 0 .. MaxAddress] /\ NoData \in [{} -> 0 .. MaxBoot]
  BY DEF NoData
<1>2. NoData \in MeshData
  BY <1>1, MeshDataIntro
<1>3. NoData \in UNION {[C -> 0 .. MaxBoot] : C \in SUBSET Consumer}
  BY <1>1, ByIntro
<1>4. NoIntent \in Intent
  BY <1>2 DEF NoIntent, Intent
<1>5. NoEvidence \in Evidence
  BY <1>3 DEF NoEvidence, Evidence
<1> QED
  BY <1>2, <1>3, <1>4, <1>5

LEMMA CourseType ==
    ASSUME NEW k \in Courses
    PROVE  /\ k.joined \subseteq Worker /\ k.addresses \in 0 .. MaxAddress
BY RetirementAssumption

LEMMA InitTypes ==
    ASSUME Init
    PROVE  TypeInv
<1>1. course.joined \subseteq Worker
  BY CourseType DEF Init
<1>2. mesh \in [rv : Nat, peer : MeshData]
  <2>1. [w \in course.joined |-> 0] \in [course.joined -> 0 .. MaxAddress]
    BY SMTT(30), RetirementAssumption
  <2>2. [w \in course.joined |-> 0] \in MeshData
    BY <1>1, <2>1, MeshDataIntro
  <2> QED
    BY <2>2 DEF Init
<1>3. inv \in [auth : Nat, rec : [Worker -> Record]]
  BY Nothing DEF Init, Record
<1>4. native \in [Consumer -> SUBSET Worker]
  BY <1>1 DEF Init
<1>5. check \in [Consumer -> [peers : SUBSET Worker, verified : BOOLEAN]]
  <2>1. \A c \in Consumer : native[c] \in SUBSET Worker
    BY <1>4
  <2>2. \A c \in Consumer : (c \in course.joined) \in BOOLEAN
    BY SMTT(30)
  <2> QED
    BY <2>1, <2>2 DEF Init
<1>6. col \in [op : {"idle", "complete", "consume", "finalize", "release"}, auth : Nat,
               targets : SUBSET Worker, done : Evidence, gone : BOOLEAN]
  BY Nothing DEF Init, IdleCol
<1>7. intent \in [Worker -> Intent]
  BY Nothing DEF Init
<1>8. boot \in [Consumer -> 0 .. MaxBoot]
  BY SMTT(30), RetirementAssumption DEF Init
<1>9. agent \in [Consumer -> [op : {"idle", "maintain", "retire", "clean"},
                              peers : SUBSET Worker, auth : Nat, mesh : Nat]]
  BY DEF Init, IdleAgent
<1>10. /\ call \in [Worker -> [op : {"idle", "reserve", "withdraw", "teardown"}, rv : Nat]]
       /\ pub \in [Worker -> [op : {"idle", "read", "checked"}, rv : Nat]]
  BY DEF Init, Idle
<1>11. /\ claim \in [Worker -> {"absent", "live", "removal", "teardown", "gone"}]
       /\ journal \in [Worker -> {"none", "open", "complete", "frozen"}]
       /\ drain \subseteq Worker /\ fresh \subseteq Receipt
       /\ course \in Courses
  BY DEF Init
<1> QED
  BY <1>2, <1>3, <1>4, <1>5, <1>6, <1>7, <1>8, <1>9, <1>10, <1>11 DEF TypeInv, TypeOK

LEMMA PublishedType ==
    ASSUME TypeInv
    PROVE  /\ Remotes \subseteq Worker /\ Published \subseteq Consumer
           /\ mesh.rv \in Nat /\ inv.auth \in Nat
           /\ \A w \in Worker : inv.rec[w] \in Record
BY MeshDataElim DEF TypeInv, TypeOK, Remotes, Published, Consumer

LEMMA CohortType ==
    ASSUME TypeInv, NEW w \in Worker
    PROVE  Cohort(w) \in SUBSET Worker /\ Observers(Cohort(w)) \in SUBSET Consumer
<1>1. Cohort(w) \in SUBSET Worker
  BY DEF Cohort
<1>2. \A u \in Worker : inv.rec[u].intent.consumers \subseteq Consumer
  BY PublishedType DEF Record, Intent
<1> QED
  BY <1>1, <1>2 DEF Observers

\* A record of the inventory keeps its type when one of its fields is set.
LEMMA StageUpdate ==
    ASSUME NEW rec \in [Worker -> Record], NEW w \in Worker,
           NEW s \in {"none", "published", "final", "released"}
    PROVE  /\ [rec EXCEPT ![w].stage = s] \in [Worker -> Record]
           /\ \A u \in Worker : [rec[u] EXCEPT !.stage = s] \in Record
<1>1. \A u \in Worker : [rec[u] EXCEPT !.stage = s] \in Record
  BY DEF Record
<1> QED
  BY <1>1

LEMMA IntentUpdate ==
    ASSUME NEW rec \in [Worker -> Record], NEW w \in Worker, NEW i \in Intent
    PROVE  [rec EXCEPT ![w].intent = i] \in [Worker -> Record]
<1>1. [rec[w] EXCEPT !.intent = i] \in Record
  BY DEF Record
<1> QED
  BY <1>1

LEMMA DoneUpdate ==
    ASSUME NEW rec \in [Worker -> Record], NEW w \in Worker, NEW d \in Evidence
    PROVE  [rec EXCEPT ![w].done = d] \in [Worker -> Record]
<1>1. [rec[w] EXCEPT !.done = d] \in Record
  BY DEF Record
<1> QED
  BY <1>1

LEMMA WriteTypes ==
    ASSUME inv.auth \in Nat, NEW rec \in [Worker -> Record], Write(rec)
    PROVE  inv' \in [auth : Nat, rec : [Worker -> Record]]
BY SMTT(30) DEF Write

LEMMA RemoveTypes ==
    ASSUME TypeInv, NEW w \in Worker, Remove(w)
    PROVE  TypeInv'
<1> USE DEF TypeInv, TypeOK, nodes
<1>1. CASE StartRemoval(w)
  BY <1>1 DEF StartRemoval
<1>2. CASE Drain(w)
  BY <1>2 DEF Drain
<1>3. CASE Capture(w)
  <2>1. [source |-> mesh.peer, consumers |-> Published \ {w}] \in Intent
    BY PublishedType DEF Intent
  <2> QED
    BY <1>3, <2>1 DEF Capture
<1>4. CASE Fence(w)
  BY <1>4 DEF Fence
<1>5. CASE BeginReserve(w)
  BY <1>5 DEF BeginReserve
<1>6. CASE CommitReserve(w)
  <2>1. [inv.rec EXCEPT ![w].intent = intent[w]] \in [Worker -> Record]
    <3>1. inv.rec \in [Worker -> Record] /\ intent[w] \in Intent
      OBVIOUS
    <3> HIDE DEF TypeInv, TypeOK
    <3> QED
      BY <3>1, IntentUpdate
  <2>2. inv' \in [auth : Nat, rec : [Worker -> Record]]
    BY <1>6, <2>1, WriteTypes DEF CommitReserve
  <2> QED
    BY <1>6, <2>2 DEF CommitReserve, Idle
<1>7. CASE BeginWithdraw(w)
  BY <1>7 DEF BeginWithdraw
<1>8. CASE CommitWithdraw(w)
  <2>1. mesh.peer \in [Remotes -> 0 .. MaxAddress] /\ Remotes \subseteq Worker
    BY MeshDataElim DEF Remotes
  <2>2. [p \in Remotes \ {w} |-> mesh.peer[p]] \in [Remotes \ {w} -> 0 .. MaxAddress]
    BY <2>1
  <2>3. [p \in Remotes \ {w} |-> mesh.peer[p]] \in MeshData
    BY <2>1, <2>2, MeshDataIntro
  <2>4. mesh' \in [rv : Nat, peer : MeshData]
    BY SMTT(30), <1>8, <2>3 DEF CommitWithdraw
  <2> QED
    BY <1>8, <2>4 DEF CommitWithdraw, Idle
<1>9. CASE BeginTeardown(w)
  BY <1>9 DEF BeginTeardown
<1>10. CASE CommitTeardown(w)
  BY <1>10 DEF CommitTeardown, Idle
<1>11. CASE Vanish(w)
  BY ZenonT(30), <1>11 DEF Vanish, IdleAgent, Consumer
<1>12. CASE DropCall(w)
  BY <1>12 DEF DropCall, Idle
<1> QED
  BY <1>1, <1>2, <1>3, <1>4, <1>5, <1>6, <1>7, <1>8, <1>9, <1>10, <1>11, <1>12 DEF Remove

LEMMA PublishTypes ==
    ASSUME TypeInv, NEW w \in Worker, Publish(w)
    PROVE  TypeInv'
<1> USE DEF TypeInv, TypeOK, nodes
<1>1. CASE ReadMesh(w)
  BY <1>1 DEF ReadMesh
<1>2. CASE CheckPublication(w)
  BY SMTT(30), <1>2 DEF CheckPublication
<1>3. CASE PublishPeer(w)
  <2> DEFINE next == [p \in Remotes \cup {w} |->
                        IF p # w THEN mesh.peer[p]
                        ELSE IF w \in Remotes THEN mesh.peer[w] + 1 ELSE 0]
  <2>1. mesh.peer \in [Remotes -> 0 .. MaxAddress] /\ Remotes \subseteq Worker
    BY MeshDataElim DEF Remotes
  <2>2. course.addresses \in 0 .. MaxAddress /\ MaxAddress \in Nat
    BY CourseType, RetirementAssumption
  <2>3. w \in Remotes => mesh.peer[w] + 1 \in 0 .. MaxAddress
    BY SMTT(30), <1>3, <2>1, <2>2 DEF PublishPeer
  <2>4. next \in [Remotes \cup {w} -> 0 .. MaxAddress]
    BY SMTT(30), <2>1, <2>2, <2>3
  <2> HIDE DEF next
  <2>5. next \in MeshData
    <3>1. Remotes \cup {w} \in SUBSET Worker
      BY <2>1
    <3> QED
      BY <3>1, <2>4, MeshDataIntro
  <2>6. mesh' \in [rv : Nat, peer : MeshData]
    BY SMTT(30), <1>3, <2>5 DEF PublishPeer, next
  <2>7. /\ claim' \in [Worker -> {"absent", "live", "removal", "teardown", "gone"}]
        /\ native' \in [Consumer -> SUBSET Worker]
    <3>1. Remotes \ {w} \in SUBSET Worker /\ w \in Consumer
      BY <2>1 DEF Consumer
    <3>4. /\ claim \in [Worker -> {"absent", "live", "removal", "teardown", "gone"}]
          /\ native \in [Consumer -> SUBSET Worker]
      OBVIOUS
    <3> HIDE DEF TypeInv, TypeOK
    <3>2. CASE claim[w] = "absent"
      BY <1>3, <3>1, <3>2, <3>4 DEF PublishPeer
    <3>3. CASE claim[w] # "absent"
      BY <1>3, <3>3, <3>4 DEF PublishPeer
    <3> QED
      BY <3>2, <3>3
  <2> QED
    BY <1>3, <2>6, <2>7 DEF PublishPeer, Idle
<1>4. CASE DropPublication(w)
  BY <1>4 DEF DropPublication, Idle
<1>5. CASE PublishJournal(w)
  <2>1. [inv.rec EXCEPT ![w].stage = "published"] \in [Worker -> Record]
    <3>1. inv.rec \in [Worker -> Record]
      OBVIOUS
    <3> QED
      BY <3>1, StageUpdate
  <2>2. inv' \in [auth : Nat, rec : [Worker -> Record]]
    BY ZenonT(30), <1>5, <2>1, WriteTypes DEF PublishJournal
  <2> QED
    BY <1>5, <2>2 DEF PublishJournal
<1>6. CASE CompleteJournal(w)
  BY <1>6 DEF CompleteJournal
<1> QED
  BY <1>1, <1>2, <1>3, <1>4, <1>5, <1>6 DEF Publish

LEMMA IdleColType ==
    IdleCol \in [op : {"idle", "complete", "consume", "finalize", "release"}, auth : Nat,
                 targets : SUBSET Worker, done : Evidence, gone : BOOLEAN]
BY Nothing DEF IdleCol

LEMMA CollectTypes ==
    ASSUME TypeInv, NEW w \in Worker, Collect(w)
    PROVE  TypeInv'
<1> USE DEF TypeInv, TypeOK, nodes
<1>1. CASE BeginComplete(w)
  <2>1. Cohort(w) \in SUBSET Worker /\ Observers(Cohort(w)) \in SUBSET Consumer
    BY CohortType
  <2>2. [c \in Observers(Cohort(w)) |-> boot[c]] \in [Observers(Cohort(w)) -> 0 .. MaxBoot]
    BY <2>1
  <2>3. [c \in Observers(Cohort(w)) |-> boot[c]]
            \in UNION {[C -> 0 .. MaxBoot] : C \in SUBSET Consumer}
    BY <2>1, <2>2, ByIntro
  <2>4. [cohort |-> Cohort(w), auth |-> inv.auth, mesh |-> mesh.rv,
         by |-> [c \in Observers(Cohort(w)) |-> boot[c]]] \in Evidence
    BY <2>1, <2>3 DEF Evidence
  <2>5. OwnerAbsent(w) \in BOOLEAN
    BY DEF OwnerAbsent
  <2> QED
    BY SMTT(30), <1>1, <2>4, <2>5 DEF BeginComplete
<1>2. CASE CommitComplete(w)
  <2>1. inv' \in [auth : Nat, rec : [Worker -> Record]]
    <3>1. inv.rec \in [Worker -> Record] /\ col.done \in Evidence
      OBVIOUS
    <3>2. [inv.rec EXCEPT ![w].done = col.done] \in [Worker -> Record]
      <4> HIDE DEF TypeInv, TypeOK
      <4> QED
        BY <3>1, DoneUpdate
    <3>3. inv' = [inv EXCEPT !.rec = [inv.rec EXCEPT ![w].done = col.done]]
      BY <1>2 DEF CommitComplete
    <3> QED
      BY <3>2, <3>3
  <2>2. col' \in [op : {"idle", "complete", "consume", "finalize", "release"}, auth : Nat,
                  targets : SUBSET Worker, done : Evidence, gone : BOOLEAN]
    BY <1>2, IdleColType DEF CommitComplete
  <2> QED
    BY <1>2, <2>1, <2>2 DEF CommitComplete
<1>3. CASE BeginFinalize(w)
  BY <1>3, IdleColType DEF BeginFinalize
<1>4. CASE CommitFinalize(w)
  <2>1. [inv.rec EXCEPT ![w].stage = "final"] \in [Worker -> Record]
    <3>1. inv.rec \in [Worker -> Record]
      OBVIOUS
    <3> QED
      BY <3>1, StageUpdate
  <2>2. inv' \in [auth : Nat, rec : [Worker -> Record]]
    BY <1>4, <2>1, WriteTypes DEF CommitFinalize
  <2> QED
    BY <1>4, <2>2, IdleColType DEF CommitFinalize
<1>5. CASE BeginRelease(w)
  BY <1>5, IdleColType, CohortType DEF BeginRelease
<1> QED
  BY <1>1, <1>2, <1>3, <1>4, <1>5 DEF Collect

LEMMA ReleaseTypes ==
    ASSUME TypeInv, CommitRelease \/ DropCollector
    PROVE  TypeInv'
<1> USE DEF TypeInv, TypeOK, nodes
<1>1. CASE CommitRelease
  <2>1. [u \in Worker |-> IF u \in col.targets THEN [inv.rec[u] EXCEPT !.stage = "released"]
                          ELSE inv.rec[u]] \in [Worker -> Record]
    <3>1. inv.rec \in [Worker -> Record]
      OBVIOUS
    <3>2. \A u \in Worker : [inv.rec[u] EXCEPT !.stage = "released"] \in Record
      BY <3>1, StageUpdate
    <3> QED
      BY <3>1, <3>2
  <2>2. inv' \in [auth : Nat, rec : [Worker -> Record]]
    BY <1>1, <2>1, WriteTypes DEF CommitRelease
  <2> QED
    BY <1>1, <2>2, IdleColType DEF CommitRelease
<1>2. CASE DropCollector
  BY <1>2, IdleColType DEF DropCollector
<1> QED
  BY <1>1, <1>2

LEMMA ExecuteTypes ==
    ASSUME TypeInv, NEW c \in Consumer, Execute(c)
    PROVE  TypeInv'
<1> USE DEF TypeInv, TypeOK, controls
<1>1. Remotes \ {c} \in SUBSET Worker
  BY PublishedType
<1>2. \A k \in Consumer : Checkpoint(k) =>
         check' \in [Consumer -> [peers : SUBSET Worker, verified : BOOLEAN]]
  BY SMTT(30), PublishedType DEF Checkpoint
<1>3. CASE BeginMaintain(c)
  BY <1>1, <1>2, <1>3 DEF BeginMaintain
<1>4. CASE Maintain(c)
  <2>1. native' \in [Consumer -> SUBSET Worker]
    <3>1. native \in [Consumer -> SUBSET Worker] /\ agent[c].peers \in SUBSET Worker
      OBVIOUS
    <3> HIDE DEF TypeInv, TypeOK
    <3> QED
      BY <1>4, <3>1 DEF Maintain
  <2>2. check' \in [Consumer -> [peers : SUBSET Worker, verified : BOOLEAN]]
    <3>1. check \in [Consumer -> [peers : SUBSET Worker, verified : BOOLEAN]]
      OBVIOUS
    <3> HIDE DEF TypeInv, TypeOK
    <3>2. [check[c] EXCEPT !.verified = TRUE] \in [peers : SUBSET Worker, verified : BOOLEAN]
      BY <3>1
    <3>3. check' = [check EXCEPT ![c] = [check[c] EXCEPT !.verified = TRUE]]
      BY <1>4 DEF Maintain
    <3> QED
      BY <3>1, <3>2, <3>3
  <2> QED
    BY <1>4, <2>1, <2>2 DEF Maintain, IdleAgent
<1>5. ASSUME NEW w \in Worker, BeginRetire(c, w)
      PROVE  TypeInv'
  BY <1>2, <1>5, CohortType DEF BeginRetire
<1>6. CASE Clean(c)
  <2>1. native' \in [Consumer -> SUBSET Worker]
    <3>1. native \in [Consumer -> SUBSET Worker] /\ agent[c].peers \in SUBSET Worker
      OBVIOUS
    <3> HIDE DEF TypeInv, TypeOK
    <3>2. native[c] \ agent[c].peers \in SUBSET Worker
      BY <3>1
    <3> QED
      BY <1>6, <3>1, <3>2 DEF Clean
  <2>2. agent' \in [Consumer -> [op : {"idle", "maintain", "retire", "clean"},
                                 peers : SUBSET Worker, auth : Nat, mesh : Nat]]
    <3> DEFINE T == [op : {"idle", "maintain", "retire", "clean"},
                     peers : SUBSET Worker, auth : Nat, mesh : Nat]
    <3>1. agent \in [Consumer -> T]
      OBVIOUS
    <3> HIDE DEF TypeInv, TypeOK
    <3>2. [agent[c] EXCEPT !.op = "clean"] \in T
      BY <3>1
    <3>3. agent' = [agent EXCEPT ![c] = [agent[c] EXCEPT !.op = "clean"]]
      BY <1>6 DEF Clean
    <3> HIDE DEF T
    <3>4. agent' \in [Consumer -> T]
      BY <3>1, <3>2, <3>3
    <3> QED
      BY <3>4 DEF T
  <2> QED
    BY SMTT(30), <1>6, <2>1, <2>2 DEF Clean
<1>7. CASE SendReceipts(c)
  <2>1. \A u \in Worker : ReceiptOf(c, u) \in Receipt
    BY SMTT(30), CohortType, RetirementAssumption DEF ReceiptOf, Receipt
  <2>2. fresh' \subseteq Receipt
    BY SMTT(30), <1>7, <2>1 DEF SendReceipts
  <2> QED
    BY <1>7, <2>2 DEF SendReceipts, IdleAgent
<1>8. CASE Abandon(c)
  BY <1>8 DEF Abandon, IdleAgent
<1>9. CASE Restart(c)
  BY SMTT(30), <1>9, RetirementAssumption DEF Restart, IdleAgent
<1>10. CASE Reboot(c)
  BY SMTT(30), <1>10, RetirementAssumption DEF Reboot, IdleAgent
<1> QED
  BY <1>3, <1>4, <1>5, <1>6, <1>7, <1>8, <1>9, <1>10 DEF Execute

LEMMA NextTypes ==
    ASSUME TypeInv, [Next]_vars
    PROVE  TypeInv'
<1>1. CASE CommitRelease \/ DropCollector
  BY <1>1, ReleaseTypes
<1>2. CASE \E r \in fresh : Age(r)
  BY SMTT(30), <1>2 DEF Age, controls, TypeInv, TypeOK
<1>3. CASE UNCHANGED vars
  BY <1>3 DEF vars, TypeInv, TypeOK
<1> QED
  BY <1>1, <1>2, <1>3, RemoveTypes, PublishTypes, CollectTypes, ExecuteTypes DEF Next

\* Every variable of the retirement keeps its type, for all constants.
THEOREM RetirementTypes == Spec => []TypeOK
<1>1. TypeInv => TypeOK
  BY SMTT(30) DEF TypeInv
<1> QED
  BY InitTypes, NextTypes, <1>1, PTL DEF Spec
-----------------------------------------------------------------------------
(* The inductive invariant.                                                 *)

\* What the inventory records is what the claim captured, after its drain.
Captured ==
    \A w \in Worker :
        /\ inv.rec[w].intent # NoIntent => inv.rec[w].intent = intent[w]
        /\ intent[w] # NoIntent => w \in drain

\* The life of a claim against the mesh, the drain marker and the calls in
\* flight: nothing drained is absent or live, and only a drained worker is
\* withdrawn or torn down.
Lives ==
    \A w \in Worker :
        /\ claim[w] = "live" => w \in Remotes /\ w \notin drain
        /\ claim[w] = "removal" /\ w \notin drain => w \in Remotes
        /\ claim[w] \in {"teardown", "gone"} => w \in drain
        /\ claim[w] = "absent" =>
              /\ w \notin drain
              /\ native[w] = {} /\ check[w].peers = {} /\ agent[w].op = "idle"
        /\ call[w].op # "idle" => claim[w] = "removal"
        /\ call[w].op \in {"withdraw", "teardown"} => w \in drain

\* A checked publication of a drained worker can only succeed while the
\* worker is still in the mesh.
Publications ==
    \A w \in Worker :
        /\ pub[w].rv <= mesh.rv
        /\ pub[w] = [op |-> "checked", rv |-> mesh.rv] /\ w \in drain => w \in Remotes

\* What the collector read still holds when its authority is still current.
CollectorHolds ==
    /\ col.auth <= inv.auth
    /\ col.auth = inv.auth =>
        \A u \in col.targets :
            /\ col.op = "complete" => inv.rec[u].stage = "published"
            /\ col.op = "finalize" => inv.rec[u].stage \in {"published", "final"}
            /\ col.op = "release" => /\ inv.rec[u].stage = "final"
                                     /\ inv.rec[u].done.cohort = col.targets
                                     /\ claim[u] = "gone"

\* An agent that retires a cohort has its members out of its checkpoint, and
\* out of its kernel once it cleaned up.
AgentsClear ==
    \A c \in Consumer : \A u \in agent[c].peers :
        /\ agent[c].op \in {"retire", "clean"} => Left(u) /\ u \notin check[c].peers
        /\ agent[c].op = "clean" => u \notin native[c]

\* A receipt stays true for as long as it exists.
ReceiptsTrue == \A r \in fresh : Left(r.target) /\ Clear(r.node, r.target)

\* A worker whose teardown is decided is out of the mesh and of every
\* published consumer.
Torn ==
    \A w \in Worker : claim[w] \in {"teardown", "gone"} \/ call[w].op = "teardown" =>
        Left(w) /\ \A c \in Published : Clear(c, w)

IInv ==
    /\ TypeInv /\ Captured /\ Lives /\ Publications
    /\ CollectorHolds /\ AgentsClear /\ ReceiptsTrue /\ Torn
    /\ ReleasedTogether
-----------------------------------------------------------------------------
(* Which steps change what.                                                 *)

LEMMA RemoveChanges ==
    ASSUME NEW w \in Worker, Remove(w)
    PROVE  /\ mesh' = mesh \/ CommitWithdraw(w)
           /\ inv' = inv \/ CommitReserve(w)
           /\ claim' = claim \/ StartRemoval(w) \/ CommitTeardown(w) \/ Vanish(w)
           /\ drain' = drain \/ Drain(w)
           /\ intent' = intent \/ Capture(w)
           /\ \/ call' = call
              \/ BeginReserve(w) \/ CommitReserve(w) \/ BeginWithdraw(w)
              \/ CommitWithdraw(w) \/ BeginTeardown(w) \/ CommitTeardown(w) \/ DropCall(w)
           /\ UNCHANGED <<col, pub, fresh>>
           /\ UNCHANGED <<agent, native, check>> \/ Vanish(w)
<1>1. CASE StartRemoval(w)
  <2>1. UNCHANGED <<mesh, inv, drain, intent, call, col, pub, agent, native, check, fresh>>
    BY <1>1 DEF StartRemoval, nodes
  <2> QED
    BY <1>1, <2>1
<1>2. CASE Drain(w)
  <2>1. UNCHANGED <<mesh, inv, claim, intent, call, col, pub, agent, native, check, fresh>>
    BY <1>2 DEF Drain, nodes
  <2> QED
    BY <1>2, <2>1
<1>3. CASE Capture(w)
  <2>1. UNCHANGED <<mesh, inv, claim, drain, call, col, pub, agent, native, check, fresh>>
    BY <1>3 DEF Capture, nodes
  <2> QED
    BY <1>3, <2>1
<1>4. CASE Fence(w)
  BY <1>4 DEF Fence, nodes
<1>5. CASE CommitReserve(w)
  <2>1. UNCHANGED <<mesh, claim, drain, intent, col, pub, agent, native, check, fresh>>
    BY <1>5 DEF CommitReserve, nodes
  <2> QED
    BY <1>5, <2>1
<1>6. CASE CommitWithdraw(w)
  <2>1. UNCHANGED <<inv, claim, drain, intent, col, pub, agent, native, check, fresh>>
    BY <1>6 DEF CommitWithdraw, nodes
  <2> QED
    BY <1>6, <2>1
<1>7. CASE CommitTeardown(w)
  <2>1. UNCHANGED <<mesh, inv, drain, intent, col, pub, agent, native, check, fresh>>
    BY <1>7 DEF CommitTeardown, nodes
  <2> QED
    BY <1>7, <2>1
<1>8. CASE Vanish(w)
  <2>1. UNCHANGED <<mesh, inv, drain, intent, call, col, pub, fresh>>
    BY <1>8 DEF Vanish, nodes
  <2> QED
    BY <1>8, <2>1
<1>9. CASE BeginReserve(w) \/ BeginWithdraw(w) \/ BeginTeardown(w) \/ DropCall(w)
  <2>1. UNCHANGED <<mesh, inv, claim, drain, intent, col, pub, agent, native, check, fresh>>
    BY <1>9 DEF BeginReserve, BeginWithdraw, BeginTeardown, DropCall, nodes
  <2> QED
    BY SMTT(30), <1>9, <2>1
<1> QED
  BY <1>1, <1>2, <1>3, <1>4, <1>5, <1>6, <1>7, <1>8, <1>9 DEF Remove

LEMMA PublishChanges ==
    ASSUME NEW w \in Worker, Publish(w)
    PROVE  /\ mesh' = mesh \/ PublishPeer(w)
           /\ inv' = inv \/ PublishJournal(w)
           /\ UNCHANGED <<claim, native>> \/ PublishPeer(w)
           /\ UNCHANGED <<drain, intent, call, col, agent, check, fresh>>
           /\ \/ pub' = pub
              \/ ReadMesh(w) \/ CheckPublication(w) \/ PublishPeer(w) \/ DropPublication(w)
<1>1. CASE PublishPeer(w)
  <2>1. UNCHANGED <<inv, drain, intent, call, col, agent, check, fresh>>
    BY <1>1 DEF PublishPeer
  <2> QED
    BY <1>1, <2>1
<1>2. CASE PublishJournal(w)
  <2>1. UNCHANGED <<mesh, claim, drain, intent, call, col, pub, agent, native, check, fresh>>
    BY <1>2 DEF PublishJournal, nodes
  <2> QED
    BY <1>2, <2>1
<1>3. CASE ReadMesh(w) \/ CheckPublication(w) \/ DropPublication(w)
  <2>1. UNCHANGED <<mesh, inv, claim, drain, intent, call, col, agent, native, check, fresh>>
    BY <1>3 DEF ReadMesh, CheckPublication, DropPublication, nodes
  <2> QED
    BY <1>3, <2>1
<1>4. CASE CompleteJournal(w)
  BY SMTT(30), <1>4 DEF CompleteJournal, nodes
<1> QED
  BY <1>1, <1>2, <1>3, <1>4 DEF Publish

CollectorStep ==
    CommitRelease \/ DropCollector \/ \E w \in Worker : Collect(w)

LEMMA CollectorChanges ==
    ASSUME CollectorStep
    PROVE  UNCHANGED <<mesh, claim, drain, intent, call, pub, agent, native, check, fresh>>
BY DEF CollectorStep, Collect, CommitRelease, DropCollector, BeginComplete, CommitComplete,
       BeginFinalize, CommitFinalize, BeginRelease, nodes

LEMMA ExecuteChanges ==
    ASSUME NEW c \in Consumer, Execute(c)
    PROVE  /\ UNCHANGED <<mesh, inv, claim, drain, intent, call, col, pub>>
           /\ fresh' = fresh \/ SendReceipts(c)
<1>1. CASE SendReceipts(c)
  <2>1. UNCHANGED controls
    BY <1>1 DEF SendReceipts
  <2> QED
    BY <1>1, <2>1 DEF controls
<1>2. CASE ~SendReceipts(c)
  BY <1>2 DEF Execute, BeginMaintain, Maintain, BeginRetire, Clean, Abandon, Restart, Reboot,
              controls
<1> QED
  BY <1>1, <1>2

\* Every step, by what it may change.
LEMMA Steps ==
    ASSUME [Next]_vars
    PROVE  \/ \E w \in Worker : Remove(w)
           \/ \E w \in Worker : Publish(w)
           \/ CollectorStep
           \/ \E c \in Consumer : Execute(c)
           \/ \E r \in fresh : Age(r)
           \/ UNCHANGED vars
BY DEF Next, CollectorStep

\* Ageing and stuttering change nothing but the receipts, which only leave.
LEMMA AgeChanges ==
    ASSUME (\E r \in fresh : Age(r)) \/ UNCHANGED vars
    PROVE  /\ UNCHANGED <<mesh, inv, claim, drain, intent, call, col, pub, agent, native, check>>
           /\ fresh' \subseteq fresh
BY DEF Age, vars, controls
-----------------------------------------------------------------------------
(* The inventory and the collector.                                         *)

LEMMA Shapes ==
    ASSUME TypeInv
    PROVE  /\ claim \in [Worker -> {"absent", "live", "removal", "teardown", "gone"}]
           /\ drain \subseteq Worker
           /\ intent \in [Worker -> Intent]
           /\ call \in [Worker -> [op : {"idle", "reserve", "withdraw", "teardown"}, rv : Nat]]
           /\ pub \in [Worker -> [op : {"idle", "read", "checked"}, rv : Nat]]
           /\ inv.auth \in Nat /\ inv.rec \in [Worker -> Record]
           /\ mesh.rv \in Nat /\ Remotes \subseteq Worker
           /\ col.auth \in Nat /\ col.targets \subseteq Worker
           /\ native \in [Consumer -> SUBSET Worker]
           /\ check \in [Consumer -> [peers : SUBSET Worker, verified : BOOLEAN]]
           /\ agent \in [Consumer -> [op : {"idle", "maintain", "retire", "clean"},
                                      peers : SUBSET Worker, auth : Nat, mesh : Nat]]
           /\ fresh \subseteq Receipt
BY PublishedType DEF TypeInv, TypeOK

\* What a write of the inventory may do to a record.
LEMMA InventoryEffect ==
    ASSUME TypeInv, CollectorHolds, [Next]_vars, NEW w \in Worker
    PROVE  LET old == inv.rec[w]
               new == inv.rec'[w]
           IN  /\ \/ new.intent = old.intent
                  \/ old.intent = NoIntent /\ new.intent = intent[w]
               /\ old.stage = "final" => /\ new.stage \in {"final", "released"}
                                         /\ new.done = old.done
               /\ old.stage = "released" => new = old
               /\ new.stage = "released" /\ old.stage # "released" =>
                    CommitRelease /\ w \in col.targets
<1> DEFINE Goal == LET old == inv.rec[w]
                       new == inv.rec'[w]
                   IN  /\ \/ new.intent = old.intent
                          \/ old.intent = NoIntent /\ new.intent = intent[w]
                       /\ old.stage = "final" => /\ new.stage \in {"final", "released"}
                                                 /\ new.done = old.done
                       /\ old.stage = "released" => new = old
                       /\ new.stage = "released" /\ old.stage # "released" =>
                            CommitRelease /\ w \in col.targets
<1>1. inv.rec \in [Worker -> Record] /\ col.targets \subseteq Worker
  BY Shapes
<1>2. CASE inv' = inv
  BY <1>2
<1>3. ASSUME NEW u \in Worker, CommitReserve(u)
      PROVE  Goal
  <2>1. /\ inv.rec' = [inv.rec EXCEPT ![u].intent = intent[u]]
        /\ inv.rec[u].stage = "published" /\ inv.rec[u].intent = NoIntent
    BY <1>3 DEF CommitReserve, Write
  <2> QED
    BY SMTT(30), <1>1, <2>1 DEF Record
<1>4. ASSUME NEW u \in Worker, PublishJournal(u)
      PROVE  Goal
  <2>1. /\ inv.rec' = [inv.rec EXCEPT ![u].stage = "published"]
        /\ inv.rec[u].stage = "none"
    BY <1>4 DEF PublishJournal, Write
  <2> QED
    BY SMTT(30), <1>1, <2>1 DEF Record
<1>5. ASSUME NEW u \in Worker, CommitComplete(u)
      PROVE  Goal
  <2>1. /\ inv.rec' = [inv.rec EXCEPT ![u].done = col.done]
        /\ inv.rec[u].stage = "published"
    <3>1. inv' = [inv EXCEPT !.rec = [inv.rec EXCEPT ![u].done = col.done]]
      BY <1>5 DEF CommitComplete
    <3>2. inv.rec' = [inv.rec EXCEPT ![u].done = col.done]
      BY <3>1 DEF TypeInv, TypeOK
    <3> QED
      BY <1>5, <3>2 DEF CommitComplete, CollectorHolds
  <2> QED
    BY SMTT(30), <1>1, <2>1 DEF Record
<1>6. ASSUME NEW u \in Worker, CommitFinalize(u)
      PROVE  Goal
  <2>1. /\ inv.rec' = [inv.rec EXCEPT ![u].stage = "final"]
        /\ inv.rec[u].stage \in {"published", "final"}
    BY <1>6 DEF CommitFinalize, Write, CollectorHolds
  <2> QED
    BY SMTT(30), <1>1, <2>1 DEF Record
<1>7. CASE CommitRelease
  <2>1. /\ inv.rec' = [u \in Worker |-> IF u \in col.targets
                                         THEN [inv.rec[u] EXCEPT !.stage = "released"]
                                         ELSE inv.rec[u]]
        /\ \A u \in col.targets : inv.rec[u].stage = "final"
    BY <1>7 DEF CommitRelease, Write, CollectorHolds
  <2> QED
    BY SMTT(30), <1>1, <1>7, <2>1 DEF Record
<1>8. \/ inv' = inv
      \/ \E u \in Worker : \/ CommitReserve(u) \/ PublishJournal(u)
                           \/ CommitComplete(u) \/ CommitFinalize(u)
      \/ CommitRelease
  <2>1. CASE CollectorStep
    BY ZenonT(30), <2>1 DEF CollectorStep, Collect, DropCollector, BeginComplete,
       BeginFinalize, BeginRelease
  <2> QED
    BY SMTT(30), <2>1, Steps, RemoveChanges, PublishChanges, ExecuteChanges, AgeChanges
<1> HIDE DEF Goal
<1>9. Goal
  BY ZenonT(30), <1>2, <1>3, <1>4, <1>5, <1>6, <1>7, <1>8 DEF Goal
<1> QED
  BY SMTT(30), <1>9 DEF Goal

\* A claim that is gone does not come back.
LEMMA GoneStays ==
    ASSUME TypeInv, Lives, [Next]_vars, NEW w \in Worker, claim[w] = "gone"
    PROVE  claim'[w] = "gone"
<1>0. claim \in [Worker -> {"absent", "live", "removal", "teardown", "gone"}]
  BY Shapes
<1>1. ASSUME NEW u \in Worker, StartRemoval(u)
      PROVE  claim'[w] = "gone"
  BY <1>0, <1>1 DEF StartRemoval
<1>2. ASSUME NEW u \in Worker, CommitTeardown(u)
      PROVE  claim'[w] = "gone"
  <2>1. /\ claim' = [claim EXCEPT ![u] = "teardown"]
        /\ call[u].op # "idle"
    BY <1>2 DEF CommitTeardown
  <2>2. claim[u] = "removal"
    BY <2>1 DEF Lives
  <2> QED
    BY <1>0, <2>1, <2>2
<1>3. ASSUME NEW u \in Worker, Vanish(u)
      PROVE  claim'[w] = "gone"
  BY <1>0, <1>3 DEF Vanish
<1>4. ASSUME NEW u \in Worker, PublishPeer(u)
      PROVE  claim'[w] = "gone"
  <2>1. claim' = claim \/ (claim[u] = "absent" /\ claim' = [claim EXCEPT ![u] = "live"])
    BY <1>4 DEF PublishPeer
  <2> QED
    BY <1>0, <2>1
<1> QED
  BY ZenonT(30), <1>1, <1>2, <1>3, <1>4, Steps, RemoveChanges, PublishChanges, CollectorChanges,
     ExecuteChanges, AgeChanges

LEMMA ReleasedTogetherStep ==
    ASSUME IInv, [Next]_vars
    PROVE  ReleasedTogether'
<1> SUFFICES ASSUME NEW w \in Worker, inv.rec'[w].stage = "released",
                    NEW u \in inv.rec'[w].done.cohort
             PROVE  inv.rec'[u].stage = "released" /\ claim'[u] = "gone"
  BY SMTT(30) DEF ReleasedTogether
<1>1. inv.rec \in [Worker -> Record] /\ col.targets \subseteq Worker
  BY Shapes DEF IInv
<1>2. CASE inv.rec[w].stage = "released"
  <2>1. inv.rec'[w] = inv.rec[w]
    BY <1>2, InventoryEffect DEF IInv
  <2>2. u \in Worker /\ inv.rec[u].stage = "released" /\ claim[u] = "gone"
    BY <1>1, <1>2, <2>1 DEF Record, Evidence, IInv, ReleasedTogether
  <2> QED
    BY <2>2, GoneStays, InventoryEffect DEF IInv
<1>3. CASE inv.rec[w].stage # "released"
  <2>1. CommitRelease /\ w \in col.targets
    BY <1>3, InventoryEffect DEF IInv
  <2>2. /\ inv.rec' = [v \in Worker |-> IF v \in col.targets
                                         THEN [inv.rec[v] EXCEPT !.stage = "released"]
                                         ELSE inv.rec[v]]
        /\ claim' = claim
    BY <2>1 DEF CommitRelease, Write
  <2>3. inv.rec'[w].done.cohort = col.targets /\ \A v \in col.targets : claim[v] = "gone"
    BY <1>1, <2>1, <2>2 DEF Record, IInv, CollectorHolds, CommitRelease
  <2> QED
    BY SMTT(30), <1>1, <2>2, <2>3 DEF Record
<1> QED
  BY <1>2, <1>3

LEMMA CapturedStep ==
    ASSUME IInv, [Next]_vars
    PROVE  Captured'
<1> USE DEF IInv
<1>1. \A w \in Worker : /\ intent'[w] = intent[w] \/ (intent[w] = NoIntent /\ w \in drain)
                        /\ w \in drain => w \in drain'
  <2>1. ASSUME NEW u \in Worker, Capture(u)
        PROVE  /\ drain' = drain
               /\ \A w \in Worker : intent'[w] = intent[w] \/ (intent[w] = NoIntent /\ w \in drain)
    BY <2>1, Shapes DEF Capture
  <2>2. \A u \in Worker : Drain(u) => drain \subseteq drain' /\ intent' = intent
    BY DEF Drain
  <2> QED
    BY ZenonT(30), <2>1, <2>2, Steps, RemoveChanges, PublishChanges, CollectorChanges,
       ExecuteChanges,
       AgeChanges
<1>2. inv' = inv \/ intent' = intent
  <2>1. \A u \in Worker : Capture(u) => inv' = inv
    BY DEF Capture
  <2> QED
    BY <2>1, Steps, RemoveChanges, PublishChanges, CollectorChanges, ExecuteChanges, AgeChanges
<1>3. \A w \in Worker : \/ inv.rec'[w].intent = inv.rec[w].intent
                        \/ inv.rec[w].intent = NoIntent /\ inv.rec'[w].intent = intent[w]
  BY InventoryEffect
<1> QED
  BY SMTT(30), <1>1, <1>2, <1>3 DEF Captured

LEMMA AuthorityStays ==
    ASSUME TypeInv, [Next]_vars
    PROVE  inv.auth' \in Nat
<1>1. TypeInv'
  BY NextTypes
<1>2. inv' \in [auth : Nat, rec : [Worker -> Record]]'
  BY <1>1 DEF TypeInv, TypeOK
<1> QED
  BY <1>2

LEMMA CollectorHoldsStep ==
    ASSUME IInv, [Next]_vars
    PROVE  CollectorHolds'
<1> USE DEF IInv
<1>1. /\ inv.auth \in Nat /\ col.auth \in Nat /\ inv.rec \in [Worker -> Record]
      /\ col.targets \subseteq Worker
  BY Shapes
<1>2. \A w \in Worker : claim[w] = "gone" => claim'[w] = "gone"
  BY GoneStays
<1>3. CASE col' = col /\ inv' = inv
  BY <1>1, <1>2, <1>3 DEF CollectorHolds
<1>4. CASE col' = col /\ inv.auth' = inv.auth + 1
  BY SMTT(30), <1>1, <1>4 DEF CollectorHolds
<1>5. CASE col' = IdleCol
  <2>1. inv.auth' \in Nat /\ col'.auth = 0 /\ col'.targets = {}
    BY <1>5, AuthorityStays DEF IdleCol
  <2> QED
    BY SMTT(30), <2>1 DEF CollectorHolds
<1>6. ASSUME NEW w \in Worker, BeginComplete(w)
      PROVE  CollectorHolds'
  <2>1. /\ col'.op = "complete" /\ col'.auth = inv.auth /\ col'.targets = {w} /\ inv' = inv
        /\ inv.rec[w].stage = "published"
    BY <1>6 DEF BeginComplete
  <2> QED
    BY SMTT(30), <1>1, <2>1 DEF CollectorHolds
<1>7. ASSUME NEW w \in Worker, CommitComplete(w)
      PROVE  CollectorHolds'
  <2>1. CASE Finalize /\ col.gone
    <3>1. col'.op = "consume" /\ col'.auth = 0
      BY <1>7, <2>1 DEF CommitComplete, IdleCol
    <3>2. inv.auth' \in Nat
      BY AuthorityStays
    <3> QED
      BY SMTT(30), <3>1, <3>2 DEF CollectorHolds
  <2>2. CASE ~(Finalize /\ col.gone)
    BY <1>5, <1>7, <2>2 DEF CommitComplete
  <2> QED
    BY <2>1, <2>2
<1>8. ASSUME NEW w \in Worker, BeginFinalize(w)
      PROVE  CollectorHolds'
  <2>1. col'.op = "finalize" /\ col'.auth = inv.auth /\ col'.targets = {w} /\ inv' = inv
    BY <1>8 DEF BeginFinalize, IdleCol
  <2>2. inv.rec[w].stage \in {"published", "final"}
    BY <1>8 DEF BeginFinalize, Verified, Admitted, Withdrawn, Retiring
  <2> QED
    BY SMTT(30), <1>1, <2>1, <2>2 DEF CollectorHolds
<1>9. ASSUME NEW w \in Worker, BeginRelease(w)
      PROVE  CollectorHolds'
  <2>1. /\ col'.op = "release" /\ col'.auth = inv.auth /\ col'.targets = Cohort(w)
        /\ inv' = inv /\ claim' = claim
    BY <1>9 DEF BeginRelease, IdleCol
  <2>2. \A u \in Cohort(w) : /\ inv.rec[u].stage = "final"
                             /\ inv.rec[u].done.cohort = Cohort(w) /\ claim[u] = "gone"
    BY <1>9 DEF BeginRelease, Releasable, OwnerAbsent
  <2> QED
    BY SMTT(30), <1>1, <2>1, <2>2 DEF CollectorHolds
<1>10. CASE CollectorStep
  <2>1. ASSUME NEW w \in Worker, CommitFinalize(w)
        PROVE  CollectorHolds'
    BY <1>5, <2>1 DEF CommitFinalize
  <2>2. CASE CommitRelease \/ DropCollector
    BY <1>5, <2>2 DEF CommitRelease, DropCollector
  <2> QED
    BY <1>6, <1>7, <1>8, <1>9, <1>10, <2>1, <2>2 DEF CollectorStep, Collect
<1>11. \A w \in Worker : CommitReserve(w) \/ PublishJournal(w) => inv.auth' = inv.auth + 1
  BY SMTT(30) DEF CommitReserve, PublishJournal, Write
<1> QED
  BY SMTT(30), <1>3, <1>4, <1>10, <1>11, Steps, RemoveChanges, PublishChanges,
     ExecuteChanges, AgeChanges
-----------------------------------------------------------------------------
(* The mesh.                                                                *)

LEMMA MeshEffect ==
    ASSUME TypeInv, [Next]_vars
    PROVE  \/ mesh' = mesh /\ Remotes' = Remotes
           \/ \E w \in Worker : /\ CommitWithdraw(w)
                                /\ mesh'.rv = mesh.rv + 1 /\ Remotes' = Remotes \ {w}
           \/ \E w \in Worker : /\ PublishPeer(w)
                                /\ mesh'.rv = mesh.rv + 1 /\ Remotes' = Remotes \cup {w}
<1>1. \A w \in Worker : CommitWithdraw(w) =>
         mesh'.rv = mesh.rv + 1 /\ Remotes' = Remotes \ {w}
  BY SMTT(30) DEF CommitWithdraw, Remotes
<1>2. \A w \in Worker : PublishPeer(w) =>
         mesh'.rv = mesh.rv + 1 /\ Remotes' = Remotes \cup {w}
  BY SMTT(30) DEF PublishPeer, Remotes
<1>3. mesh' = mesh => Remotes' = Remotes
  BY DEF Remotes
<1> QED
  BY <1>1, <1>2, <1>3, Steps, RemoveChanges, PublishChanges, CollectorChanges, ExecuteChanges,
     AgeChanges

\* Only a worker whose claim was absent enters the mesh.
LEMMA NewlyPublished ==
    ASSUME TypeInv, Lives, Publications, [Next]_vars,
           NEW w \in Worker, w \notin Remotes, w \in Remotes'
    PROVE  PublishPeer(w) /\ claim[w] = "absent"
<1>1. PublishPeer(w)
  BY MeshEffect
<1>2. pub[w] = [op |-> "checked", rv |-> mesh.rv]
  BY <1>1 DEF PublishPeer
<1>3. w \notin drain
  BY <1>2 DEF Publications
<1>4. claim[w] \in {"absent", "live", "removal", "teardown", "gone"}
  BY Shapes
<1> QED
  BY <1>1, <1>3, <1>4 DEF Lives

\* A worker that left the mesh does not return, and its drain marker stays.
LEMMA LeftStays ==
    ASSUME TypeInv, Lives, Publications, [Next]_vars, NEW w \in Worker, Left(w)
    PROVE  Left(w)'
<1>1. w \notin Remotes'
  BY NewlyPublished DEF Left, Lives
<1>2. \A u \in Worker : Drain(u) => drain \subseteq drain'
  BY DEF Drain
<1>3. w \in drain'
  BY <1>2, Steps, RemoveChanges, PublishChanges, CollectorChanges, ExecuteChanges, AgeChanges
     DEF Left
<1> QED
  BY <1>1, <1>3 DEF Left

LEMMA PublicationsStep ==
    ASSUME IInv, [Next]_vars
    PROVE  Publications'
<1> USE DEF IInv
<1>1. /\ pub \in [Worker -> [op : {"idle", "read", "checked"}, rv : Nat]]
      /\ mesh.rv \in Nat
  BY Shapes
<1>2. \A w \in Worker : /\ pub[w].rv <= mesh.rv /\ pub[w].rv \in Nat
                        /\ pub[w] = [op |-> "checked", rv |-> mesh.rv] /\ w \in drain
                              => w \in Remotes
  BY <1>1 DEF Publications
<1>3. ASSUME NEW u \in Worker, PublishPeer(u)
      PROVE  Publications'
  <2>1. mesh'.rv = mesh.rv + 1 /\ pub' = [pub EXCEPT ![u] = Idle]
    BY <1>3 DEF PublishPeer
  <2>2. \A w \in Worker : pub'[w].rv <= mesh.rv /\ pub'[w].rv \in Nat
    BY SMTT(30), <1>1, <1>2, <2>1 DEF Idle
  <2>3. \A w \in Worker : pub'[w].rv <= mesh'.rv /\ pub'[w].rv # mesh'.rv
    BY SMTT(30), <1>1, <2>1, <2>2
  <2> QED
    BY SMTT(30), <2>3 DEF Publications
<1>4. ASSUME NEW u \in Worker, CommitWithdraw(u)
      PROVE  Publications'
  <2>1. mesh'.rv = mesh.rv + 1 /\ pub' = pub
    BY <1>4 DEF CommitWithdraw
  <2>2. \A w \in Worker : pub'[w].rv <= mesh'.rv /\ pub'[w].rv # mesh'.rv
    BY SMTT(30), <1>1, <1>2, <2>1
  <2> QED
    BY SMTT(30), <2>2 DEF Publications
<1>5. ASSUME NEW u \in Worker, ReadMesh(u) \/ CheckPublication(u) \/ DropPublication(u)
      PROVE  Publications'
  <2>1. mesh' = mesh /\ drain' = drain /\ Remotes' = Remotes
    BY <1>5 DEF ReadMesh, CheckPublication, DropPublication, Remotes
  <2>2. \A w \in Worker : w # u => pub'[w] = pub[w]
    BY <1>1, <1>5 DEF ReadMesh, CheckPublication, DropPublication
  <2>3. \/ pub'[u].op # "checked" /\ pub'[u].rv \in {0, mesh.rv}
        \/ u \notin drain /\ pub'[u].rv = pub[u].rv
    BY SMTT(30), <1>1, <1>5 DEF ReadMesh, CheckPublication, DropPublication, Idle
  <2>4. pub'[u].rv <= mesh.rv
    BY SMTT(30), <1>1, <1>2, <2>3
  <2> QED
    BY SMTT(30), <1>2, <2>1, <2>2, <2>3, <2>4 DEF Publications
<1>6. ASSUME NEW u \in Worker, Drain(u)
      PROVE  Publications'
  <2>1. mesh' = mesh /\ pub' = pub /\ drain' = drain \cup {u} /\ Remotes' = Remotes
    BY <1>6 DEF Drain, Remotes
  <2>2. u \in Remotes
    BY <1>6 DEF Drain, Lives
  <2> QED
    BY <1>2, <2>1, <2>2 DEF Publications
<1>7. CASE UNCHANGED <<mesh, pub, drain>>
  BY <1>2, <1>7 DEF Publications, Remotes
<1> QED
  BY <1>3, <1>4, <1>5, <1>6, <1>7, Steps, RemoveChanges, PublishChanges, CollectorChanges,
     ExecuteChanges, AgeChanges

\* Retirement is recorded only for a drained worker.
LEMMA RetiringDrained ==
    ASSUME Captured, NEW w \in Worker, Retiring(w)
    PROVE  w \in drain
<1>1. NoIntent.consumers = {}
  BY DEF NoIntent
<1>2. inv.rec[w].intent # NoIntent
  BY <1>1 DEF Retiring
<1> QED
  BY <1>2 DEF Captured

\* An execution is of a consumer that is there, and touches only its state.
LEMMA ExecuteLocal ==
    ASSUME TypeInv, Lives, NEW c \in Consumer, Execute(c)
    PROVE  /\ c \in Worker => claim[c] # "absent"
           /\ \A d \in Consumer : d # c => /\ agent'[d] = agent[d]
                                           /\ native'[d] = native[d]
                                           /\ check'[d] = check[d]
<1>1. ASSUME agent[c].op = "idle"
      PROVE  c \in Worker => claim[c] # "absent"
  <2>1. ~(Maintain(c) \/ Clean(c) \/ SendReceipts(c) \/ Abandon(c))
    BY SMTT(30), <1>1 DEF Maintain, Clean, SendReceipts, Abandon
  <2>2. /\ BeginMaintain(c) => Running(c)
        /\ \A w \in Worker : BeginRetire(c, w) => Running(c)
        /\ Restart(c) \/ Reboot(c) => Running(c)
    BY DEF BeginMaintain, BeginRetire, Restart, Reboot
  <2>3. Running(c)
    BY <2>1, <2>2 DEF Execute
  <2> QED
    BY <2>3 DEF Running, Present
<1>2. ASSUME agent[c].op # "idle"
      PROVE  c \in Worker => claim[c] # "absent"
  BY <1>2 DEF Lives
<1> USE Shapes
<1>3. \A d \in Consumer : d # c => /\ agent'[d] = agent[d]
                                   /\ native'[d] = native[d]
                                   /\ check'[d] = check[d]
  BY DEF Execute, BeginMaintain, Maintain, BeginRetire, Clean, SendReceipts, Abandon,
         Restart, Reboot, Checkpoint
<1> QED
  BY <1>1, <1>2, <1>3

LEMMA LivesStep ==
    ASSUME IInv, [Next]_vars
    PROVE  Lives'
<1> USE DEF IInv
<1>1. /\ claim \in [Worker -> {"absent", "live", "removal", "teardown", "gone"}]
      /\ call \in [Worker -> [op : {"idle", "reserve", "withdraw", "teardown"}, rv : Nat]]
      /\ native \in [Consumer -> SUBSET Worker] /\ Worker \subseteq Consumer
  BY SMTT(30), Shapes DEF Consumer
<1>2. ASSUME NEW u \in Worker, StartRemoval(u)
      PROVE  Lives'
  <2>1. /\ claim[u] = "live" /\ claim' = [claim EXCEPT ![u] = "removal"]
        /\ UNCHANGED <<mesh, drain, call, agent, native, check>>
    BY <1>2 DEF StartRemoval, nodes
  <2> QED
    BY <1>1, <2>1 DEF Lives, Remotes
<1>3. ASSUME NEW u \in Worker, Drain(u)
      PROVE  Lives'
  <2>1. /\ claim[u] = "removal" /\ drain' = drain \cup {u}
        /\ UNCHANGED <<mesh, claim, call, agent, native, check>>
    BY <1>3 DEF Drain, nodes
  <2> QED
    BY <1>1, <2>1 DEF Lives, Remotes
<1>4. ASSUME NEW u \in Worker,
             \/ BeginReserve(u) \/ CommitReserve(u) \/ BeginWithdraw(u)
             \/ BeginTeardown(u) \/ DropCall(u)
      PROVE  Lives'
  <2>1. UNCHANGED <<mesh, drain, claim, agent, native, check>>
    BY <1>4 DEF BeginReserve, CommitReserve, BeginWithdraw, BeginTeardown, DropCall, nodes
  <2>2. \A w \in Worker : w # u => call'[w] = call[w]
    BY <1>1, <1>4 DEF BeginReserve, CommitReserve, BeginWithdraw, BeginTeardown, DropCall
  <2>3. /\ call'[u].op # "idle" => claim[u] = "removal"
        /\ call'[u].op \in {"withdraw", "teardown"} => Retiring(u)
    BY SMTT(30), <1>1, <1>4
       DEF BeginReserve, CommitReserve, BeginWithdraw, BeginTeardown, DropCall, Idle,
           Prepared, Verified, Admitted, Withdrawn
  <2>4. call'[u].op \in {"withdraw", "teardown"} => u \in drain
    BY <2>3, RetiringDrained
  <2> QED
    BY <2>1, <2>2, <2>3, <2>4 DEF Lives, Remotes
<1>5. ASSUME NEW u \in Worker, CommitWithdraw(u)
      PROVE  Lives'
  <2>1. /\ UNCHANGED <<drain, claim, agent, native, check>>
        /\ call[u].op = "withdraw" /\ call' = [call EXCEPT ![u] = Idle]
        /\ Remotes' = Remotes \ {u}
    BY SMTT(30), <1>5 DEF CommitWithdraw, nodes, Remotes
  <2> QED
    BY <1>1, <2>1 DEF Lives, Idle
<1>6. ASSUME NEW u \in Worker, CommitTeardown(u)
      PROVE  Lives'
  <2>1. /\ UNCHANGED <<mesh, drain, agent, native, check>>
        /\ call[u].op = "teardown" /\ call' = [call EXCEPT ![u] = Idle]
        /\ claim' = [claim EXCEPT ![u] = "teardown"]
    BY SMTT(30), <1>6 DEF CommitTeardown, nodes
  <2> QED
    BY <1>1, <2>1 DEF Lives, Idle, Remotes
<1>7. ASSUME NEW u \in Worker, Vanish(u)
      PROVE  Lives'
  <2>1. /\ UNCHANGED <<mesh, drain, call>>
        /\ claim[u] = "teardown" /\ claim' = [claim EXCEPT ![u] = "gone"]
    BY <1>7 DEF Vanish
  <2>2. \A w \in Worker : w # u => /\ agent'[w] = agent[w] /\ native'[w] = native[w]
                                   /\ check'[w] = check[w]
    BY <1>1, <1>7, Shapes DEF Vanish
  <2> QED
    BY SMTT(30), <1>1, <2>1, <2>2 DEF Lives, Remotes
<1>8. ASSUME NEW u \in Worker, PublishPeer(u)
      PROVE  Lives'
  <2>1. UNCHANGED <<drain, call, agent, check>> /\ Remotes' = Remotes \cup {u}
    BY <1>8 DEF PublishPeer, Remotes
  <2>2. \A w \in Worker : w # u => claim'[w] = claim[w] /\ native'[w] = native[w]
    BY <1>1, <1>8 DEF PublishPeer
  <2>3. \/ claim[u] = "absent" /\ claim'[u] = "live"
        \/ claim[u] # "absent" /\ claim'[u] = claim[u]
    BY <1>1, <1>8 DEF PublishPeer
  <2> QED
    BY SMTT(30), <2>1, <2>2, <2>3 DEF Lives
<1>9. ASSUME NEW c \in Consumer, Execute(c)
      PROVE  Lives'
  <2>1. UNCHANGED <<mesh, drain, claim, call>> /\ Remotes' = Remotes
    BY <1>9, ExecuteChanges DEF Remotes
  <2>2. \A w \in Worker : claim[w] = "absent" => /\ agent'[w] = agent[w]
                                                 /\ native'[w] = native[w]
                                                 /\ check'[w] = check[w]
    BY <1>1, <1>9, ExecuteLocal
  <2> QED
    BY <2>1, <2>2 DEF Lives
<1>10. CASE UNCHANGED <<mesh, drain, claim, call, agent, native, check>>
  BY <1>10 DEF Lives, Remotes
<1> QED
  BY SMTT(30), <1>2, <1>3, <1>4, <1>5, <1>6, <1>7, <1>8, <1>9, <1>10, Steps, RemoveChanges,
     PublishChanges, CollectorChanges, AgeChanges
-----------------------------------------------------------------------------
(* The consumers.                                                           *)

\* What is clear of a worker that left stays clear: ordinary work is admitted
\* from the mesh, and a reboot restores the checkpoint.
LEMMA ClearStays ==
    ASSUME TypeInv, Lives, [Next]_vars, NEW c \in Consumer, NEW w \in Worker,
           Left(w), Clear(c, w)
    PROVE  Clear(c, w)'
<1>1. /\ native \in [Consumer -> SUBSET Worker] /\ Worker \subseteq Consumer
      /\ check \in [Consumer -> [peers : SUBSET Worker, verified : BOOLEAN]]
      /\ agent \in [Consumer -> [op : {"idle", "maintain", "retire", "clean"},
                                 peers : SUBSET Worker, auth : Nat, mesh : Nat]]
  BY Shapes DEF Consumer
<1>2. w \notin Remotes
  BY DEF Left
<1>3. ASSUME NEW u \in Worker, Vanish(u)
      PROVE  Clear(c, w)'
  BY SMTT(30), <1>1, <1>3 DEF Vanish, Clear, IdleAgent
<1>4. ASSUME NEW u \in Worker, PublishPeer(u)
      PROVE  Clear(c, w)'
  <2>1. UNCHANGED <<agent, check>>
    BY <1>4 DEF PublishPeer
  <2>2. native'[c] = native[c] \/ native'[c] \subseteq Remotes
    <3>1. native' = native \/ native' = [native EXCEPT ![u] = Remotes \ {u}]
      BY <1>4 DEF PublishPeer
    <3> QED
      BY SMTT(30), <1>1, <3>1
  <2> QED
    BY SMTT(30), <1>2, <2>1, <2>2 DEF Clear
<1>5. CASE Execute(c)
  <2>1. CASE BeginMaintain(c) \/ \E u \in Worker : BeginRetire(c, u)
    <3>3. native' = native /\ Checkpoint(c)
      BY ZenonT(30), <2>1 DEF BeginMaintain, BeginRetire
    <3>1. native' = native /\ check'[c].peers = Remotes \ {c}
      BY <1>1, <3>3 DEF Checkpoint
    <3>2. agent'[c].op = "maintain" => agent'[c].peers = Remotes \ {c}
      <4>1. \/ agent' = [agent EXCEPT ![c] = [op |-> "maintain", peers |-> Remotes \ {c},
                                              auth |-> inv.auth, mesh |-> mesh.rv]]
            \/ \E u \in Worker :
                  agent' = [agent EXCEPT ![c] = [op |-> "retire", peers |-> Cohort(u),
                                                auth |-> inv.auth, mesh |-> mesh.rv]]
        BY <2>1 DEF BeginMaintain, BeginRetire
      <4>2. \A x : agent' = [agent EXCEPT ![c] = x] => agent'[c] = x
        BY <1>1
      <4> QED
        BY SMTT(30), <4>1, <4>2
    <3> QED
      BY SMTT(30), <1>2, <3>1, <3>2 DEF Clear
  <2>2. CASE Maintain(c)
    <3>1. /\ native'[c] = agent[c].peers /\ agent[c].op = "maintain"
          /\ check'[c].peers = check[c].peers /\ agent'[c].op = "idle"
      BY SMTT(30), <1>1, <2>2 DEF Maintain, IdleAgent
    <3> QED
      BY <3>1 DEF Clear
  <2>3. CASE Clean(c)
    <3>1. native'[c] \subseteq native[c] /\ check' = check /\ agent'[c].op = "clean"
      BY <1>1, <2>3 DEF Clean
    <3> QED
      BY <3>1 DEF Clear
  <2>4. CASE SendReceipts(c) \/ Abandon(c) \/ Restart(c)
    <3>1. native' = native /\ check' = check /\ agent'[c].op = "idle"
      <4>1. native' = native /\ check' = check /\ agent' = [agent EXCEPT ![c] = IdleAgent]
        BY ZenonT(30), <2>4 DEF SendReceipts, Abandon, Restart
      <4> QED
        BY SMTT(30), <1>1, <4>1 DEF IdleAgent
    <3> QED
      BY <3>1 DEF Clear
  <2>5. CASE Reboot(c)
    <3>1. /\ native'[c] \in {check[c].peers, {}} /\ check' = check /\ agent'[c].op = "idle"
      BY <1>1, <2>5 DEF Reboot, IdleAgent
    <3> QED
      BY <3>1 DEF Clear
  <2> QED
    BY <1>5, <2>1, <2>2, <2>3, <2>4, <2>5 DEF Execute
<1>6. ASSUME NEW d \in Consumer, Execute(d), d # c
      PROVE  Clear(c, w)'
  BY <1>6, ExecuteLocal DEF Clear
<1>7. CASE UNCHANGED <<agent, native, check>>
  BY <1>7 DEF Clear
<1> QED
  BY SMTT(30), <1>3, <1>4, <1>5, <1>6, <1>7, Steps, RemoveChanges, PublishChanges,
     CollectorChanges, AgeChanges

\* The members of an admitted cohort have left the mesh, and every published
\* consumer is among its observers.
LEMMA AdmittedCohort ==
    ASSUME TypeInv, Captured, NEW w \in Worker, Admitted(w)
    PROVE  /\ \A u \in Cohort(w) : u \in Worker /\ Left(u)
           /\ Published \subseteq Observers(Cohort(w))
<1>1. \A u \in Cohort(w) : u \in Worker /\ Withdrawn(u)
  BY DEF Admitted, Cohort
<1>2. \A u \in Cohort(w) : Left(u)
  BY <1>1, RetiringDrained DEF Withdrawn, Left
<1>3. \A u \in Cohort(w) : u \notin Published
  BY <1>1, RetirementAssumption DEF Withdrawn, Published
<1>4. w \in Cohort(w)
  BY DEF Cohort
<1>5. Published \ {w} \subseteq inv.rec[w].intent.consumers
  BY DEF Admitted, Withdrawn, CapturesPublished
<1>6. Published \subseteq inv.rec[w].intent.consumers
  BY <1>3, <1>4, <1>5
<1>7. Published \subseteq Observers(Cohort(w))
  <2> SUFFICES ASSUME NEW c \in Published
               PROVE  c \in Observers(Cohort(w))
    OBVIOUS
  <2>1. c \notin Cohort(w)
    BY <1>3
  <2>2. c \in UNION {inv.rec[u].intent.consumers : u \in Cohort(w)}
    BY SMTT(30), <1>4, <1>6
  <2> QED
    BY <2>1, <2>2 DEF Observers
<1> QED
  BY <1>1, <1>2, <1>7

LEMMA AgentsClearStep ==
    ASSUME IInv, [Next]_vars
    PROVE  AgentsClear'
<1> USE DEF IInv
<1> SUFFICES ASSUME NEW c \in Consumer, NEW u \in agent'[c].peers,
                    agent'[c].op \in {"retire", "clean"}
             PROVE  /\ Left(u)' /\ u \notin check'[c].peers
                    /\ agent'[c].op = "clean" => u \notin native'[c]
  BY DEF AgentsClear
<1>1. /\ native \in [Consumer -> SUBSET Worker] /\ Worker \subseteq Consumer
      /\ check \in [Consumer -> [peers : SUBSET Worker, verified : BOOLEAN]]
      /\ agent \in [Consumer -> [op : {"idle", "maintain", "retire", "clean"},
                                 peers : SUBSET Worker, auth : Nat, mesh : Nat]]
  BY Shapes DEF Consumer
<1>2. CASE /\ agent'[c] = agent[c] /\ check'[c].peers = check[c].peers
           /\ native'[c] = native[c]
  <2>1. u \in Worker /\ Left(u)
    BY <1>1, <1>2 DEF AgentsClear
  <2> QED
    BY <1>2, <2>1, LeftStays DEF AgentsClear
<1>3. ASSUME NEW w \in Worker, Vanish(w)
      PROVE  agent'[c] = agent[c] /\ check'[c].peers = check[c].peers /\ native'[c] = native[c]
  BY <1>1, <1>3 DEF Vanish, IdleAgent
<1>4. ASSUME NEW w \in Worker, PublishPeer(w)
      PROVE  agent'[c] = agent[c] /\ check'[c].peers = check[c].peers /\ native'[c] = native[c]
  <2>1. agent' = agent /\ check' = check
    BY <1>4 DEF PublishPeer
  <2>2. c = w => claim[c] # "absent"
    BY SMTT(30), <2>1 DEF Lives
  <2>3. native'[c] = native[c]
    BY <1>1, <1>4, <2>2 DEF PublishPeer
  <2> QED
    BY <2>1, <2>3
<1>5. ASSUME NEW w \in Worker, BeginRetire(c, w)
      PROVE  /\ Left(u)' /\ u \notin check'[c].peers
             /\ agent'[c].op = "clean" => u \notin native'[c]
  <2>1. u \in Cohort(w) /\ agent'[c].op = "retire" /\ check'[c].peers = Remotes \ {c}
    BY ZenonT(30), <1>1, <1>5 DEF BeginRetire, Checkpoint
  <2>2. u \in Worker /\ Left(u)
    BY ZenonT(30), <1>5, <2>1, AdmittedCohort DEF BeginRetire
  <2> QED
    BY SMTT(30), <2>1, <2>2, LeftStays DEF Left
<1>6. CASE Clean(c)
  <2>1. /\ agent'[c].peers = agent[c].peers /\ agent[c].op = "retire" /\ check' = check
        /\ native'[c] = native[c] \ agent[c].peers
    BY SMTT(30), <1>1, <1>6 DEF Clean
  <2>2. u \in Worker /\ Left(u) /\ u \notin check[c].peers
    BY <1>1, <2>1 DEF AgentsClear
  <2> QED
    BY <2>1, <2>2, LeftStays
<1>7. CASE BeginMaintain(c) \/ Maintain(c) \/ SendReceipts(c) \/ Abandon(c) \/ Restart(c)
           \/ Reboot(c)
  <2>1. agent'[c].op \in {"idle", "maintain"}
    BY SMTT(30), <1>1, <1>7
       DEF BeginMaintain, Maintain, SendReceipts, Abandon, Restart, Reboot, IdleAgent
  <2> QED
    BY <2>1
<1>8. ASSUME NEW d \in Consumer, Execute(d), d # c
      PROVE  agent'[c] = agent[c] /\ check'[c].peers = check[c].peers /\ native'[c] = native[c]
  BY SMTT(30), <1>8, ExecuteLocal
<1>9. CASE Execute(c)
  BY ZenonT(30), <1>5, <1>6, <1>7, <1>9 DEF Execute
<1> QED
  BY ZenonT(30), <1>2, <1>3, <1>4, <1>8, <1>9, Steps, RemoveChanges, PublishChanges,
     CollectorChanges,
     AgeChanges

LEMMA ReceiptsTrueStep ==
    ASSUME IInv, [Next]_vars
    PROVE  ReceiptsTrue'
<1> USE DEF IInv
<1>1. \A r \in fresh : Left(r.target)' /\ Clear(r.node, r.target)'
  <2> SUFFICES ASSUME NEW r \in fresh
               PROVE  Left(r.target)' /\ Clear(r.node, r.target)'
    OBVIOUS
  <2>1. r.node \in Consumer /\ r.target \in Worker
    BY Shapes DEF Receipt
  <2> QED
    BY <2>1, LeftStays, ClearStays DEF ReceiptsTrue
<1>2. ASSUME NEW c \in Consumer, SendReceipts(c)
      PROVE  \A r \in fresh' \ fresh : Left(r.target)' /\ Clear(r.node, r.target)'
  <2> SUFFICES ASSUME NEW r \in fresh', r \notin fresh
               PROVE  Left(r.target)' /\ Clear(r.node, r.target)'
    OBVIOUS
  <2>1. /\ agent[c].op = "clean"
        /\ \E u \in agent[c].peers : r = ReceiptOf(c, u)
    <3> DEFINE about == {v \in agent[c].peers : inv.rec[v].stage = "published" \/ Release}
    <3>1. agent[c].op = "clean" /\ fresh' = fresh \cup {ReceiptOf(c, u) : u \in about}
      BY <1>2 DEF SendReceipts
    <3>2. about \subseteq agent[c].peers
      OBVIOUS
    <3> HIDE DEF about
    <3>3. r \in {ReceiptOf(c, u) : u \in about}
      BY SMTT(30), <3>1
    <3> QED
      BY <3>1, <3>2, <3>3
  <2>2. r.node = c /\ r.target \in agent[c].peers
    <3> HIDE DEF IInv
    <3>1. PICK u \in agent[c].peers : r = ReceiptOf(c, u)
      BY <2>1
    <3> QED
      BY <3>1 DEF ReceiptOf
  <2>3. r.target \in Worker
    BY <2>2, Shapes
  <2>4. Left(r.target) /\ Clear(c, r.target)
    BY <2>1, <2>2 DEF AgentsClear, Clear
  <2> QED
    BY <2>2, <2>3, <2>4, LeftStays, ClearStays
<1> QED
  BY <1>1, <1>2, Steps, RemoveChanges, PublishChanges, CollectorChanges, ExecuteChanges,
     AgeChanges DEF ReceiptsTrue

LEMMA TornStep ==
    ASSUME IInv, [Next]_vars
    PROVE  Torn'
<1> USE DEF IInv
<1> SUFFICES ASSUME NEW w \in Worker,
                    claim'[w] \in {"teardown", "gone"} \/ call'[w].op = "teardown"
             PROVE  Left(w)' /\ \A c \in Published' : Clear(c, w)'
  BY DEF Torn
<1>1. Left(w) /\ \A c \in Published : Clear(c, w)
  <2>1. CASE claim[w] \in {"teardown", "gone"} \/ call[w].op = "teardown"
    BY <2>1 DEF Torn
  <2>2. CASE BeginTeardown(w)
    <3>1. Admitted(w) /\ \A c \in Observers(Cohort(w)) : ReceiptOf(c, w) \in fresh
      BY SMTT(30), <2>2 DEF BeginTeardown, Verified
    <3>2. \A c \in Observers(Cohort(w)) : Clear(c, w)
      BY ZenonT(30), <3>1 DEF ReceiptsTrue, ReceiptOf
    <3>3. w \in Cohort(w)
      BY DEF Cohort
    <3> QED
      BY SMTT(30), <3>1, <3>2, <3>3, AdmittedCohort
  <2>3. claim \in [Worker -> {"absent", "live", "removal", "teardown", "gone"}]
        /\ call \in [Worker -> [op : {"idle", "reserve", "withdraw", "teardown"}, rv : Nat]]
    BY Shapes
  <2>4. claim'[w] \in {"teardown", "gone"} =>
           claim[w] \in {"teardown", "gone"} \/ call[w].op = "teardown"
    <3>1. \A u \in Worker : StartRemoval(u) =>
             (claim'[w] \in {"teardown", "gone"} => claim[w] \in {"teardown", "gone"})
      BY <2>3 DEF StartRemoval
    <3>2. \A u \in Worker : CommitTeardown(u) =>
             (claim'[w] \in {"teardown", "gone"} =>
                claim[w] \in {"teardown", "gone"} \/ call[w].op = "teardown")
      BY <2>3 DEF CommitTeardown
    <3>3. \A u \in Worker : Vanish(u) =>
             (claim'[w] \in {"teardown", "gone"} => claim[w] \in {"teardown", "gone"})
      BY SMTT(30), <2>3 DEF Vanish
    <3>4. \A u \in Worker : PublishPeer(u) =>
             (claim'[w] \in {"teardown", "gone"} => claim[w] \in {"teardown", "gone"})
      BY ZenonT(30), <2>3 DEF PublishPeer
    <3> QED
      BY <3>1, <3>2, <3>3, <3>4, Steps, RemoveChanges, PublishChanges, CollectorChanges,
         ExecuteChanges, AgeChanges
  <2>5. call'[w].op = "teardown" => call[w].op = "teardown" \/ BeginTeardown(w)
    <3>1. ASSUME NEW u \in Worker, BeginReserve(u) \/ BeginWithdraw(u)
          PROVE  call'[w].op = "teardown" => call[w].op = "teardown"
      <4>1. \/ call' = [call EXCEPT ![u] = [op |-> "reserve", rv |-> 0]]
            \/ call' = [call EXCEPT ![u] = [op |-> "withdraw", rv |-> mesh.rv]]
        BY <3>1 DEF BeginReserve, BeginWithdraw
      <4> QED
        BY SMTT(30), <2>3, <4>1
    <3>2. \A u \in Worker : CommitReserve(u) \/ CommitWithdraw(u) \/ CommitTeardown(u)
                               \/ DropCall(u) =>
             (call'[w].op = "teardown" => call[w].op = "teardown")
      BY SMTT(30), <2>3 DEF CommitReserve, CommitWithdraw, CommitTeardown, DropCall, Idle
    <3>3. \A u \in Worker : BeginTeardown(u) /\ u # w => call'[w] = call[w]
      BY SMTT(30), <2>3 DEF BeginTeardown
    <3> QED
      BY ZenonT(30), <3>1, <3>2, <3>3, Steps, RemoveChanges, PublishChanges, CollectorChanges,
         ExecuteChanges, AgeChanges
  <2> QED
    BY <2>1, <2>2, <2>4, <2>5
<1>2. ASSUME NEW c \in Published', c \notin Published
      PROVE  Clear(c, w)'
  <2>1. c \in Worker /\ c \notin Remotes /\ c \in Remotes'
    BY SMTT(30), <1>2, MeshEffect, Shapes DEF Published
  <2>2. PublishPeer(c) /\ claim[c] = "absent"
    BY <2>1, NewlyPublished
  <2>3. native \in [Consumer -> SUBSET Worker] /\ c \in Consumer
    BY SMTT(30), <2>1, Shapes DEF Consumer
  <2>4. native'[c] = Remotes \ {c} /\ agent' = agent /\ check' = check
    BY <2>2, <2>3 DEF PublishPeer
  <2>5. check[c].peers = {} /\ agent[c].op = "idle"
    BY <2>1, <2>2 DEF Lives
  <2> QED
    BY <1>1, <2>4, <2>5 DEF Clear, Left
<1>3. \A c \in Published : Clear(c, w)'
  BY <1>1, PublishedType, ClearStays
<1> QED
  BY <1>1, <1>2, <1>3, LeftStays
-----------------------------------------------------------------------------
LEMMA InitIInv ==
    ASSUME Init
    PROVE  IInv
<1>1. TypeInv
  BY SMTT(30), InitTypes
<1>2. course.joined \subseteq Worker
  BY SMTT(30), CourseType DEF Init
<1>3. /\ \A w \in Worker : /\ inv.rec[w].intent = NoIntent /\ intent[w] = NoIntent
                           /\ inv.rec[w].stage # "released"
                           /\ claim[w] = IF w \in course.joined THEN "live" ELSE "absent"
                           /\ call[w].op = "idle" /\ pub[w].op = "idle" /\ pub[w].rv = 0
      /\ drain = {} /\ fresh = {} /\ col.auth = 0 /\ inv.auth = 1 /\ mesh.rv = 1
      /\ Remotes = course.joined
  BY ZenonT(30) DEF Init, Idle, IdleCol, Remotes
<1>4. \A c \in Consumer : /\ agent[c].op = "idle" /\ agent[c].peers = {}
                          /\ check[c].peers = native[c]
  BY ZenonT(30) DEF Init, IdleAgent
<1>5. \A w \in Worker : w \notin course.joined => native[w] = {}
  BY RetirementAssumption DEF Init, Consumer
<1>6. Lives
  BY <1>3, <1>4, <1>5 DEF Lives, Consumer
<1>7. Captured /\ Publications /\ CollectorHolds
  BY SMTT(30), <1>3 DEF Captured, Publications, CollectorHolds
<1>8. AgentsClear /\ ReceiptsTrue
  BY <1>3, <1>4 DEF AgentsClear, ReceiptsTrue
<1>9. Torn /\ ReleasedTogether
  BY <1>3 DEF Torn, ReleasedTogether
<1> QED
  BY <1>1, <1>6, <1>7, <1>8, <1>9 DEF IInv

LEMMA NextIInv ==
    ASSUME IInv, [Next]_vars
    PROVE  IInv'
<1>1. TypeInv'
  BY NextTypes DEF IInv
<1> QED
  BY <1>1, CapturedStep, LivesStep, PublicationsStep, CollectorHoldsStep, AgentsClearStep,
     ReceiptsTrueStep, TornStep, ReleasedTogetherStep DEF IInv

\* Once a worker's compute may be torn down, no published consumer has it
\* installed, whatever ordinary work, publication, restart or reboot was
\* under way while it was withdrawn.
THEOREM NothingReturns == Spec => []NoReturn
<1>1. IInv => NoReturn
  BY DEF IInv, Torn, Clear, NoReturn
<1> QED
  BY InitIInv, NextIInv, <1>1, PTL DEF Spec

\* The members of a joint completion are released together, and only when
\* the owners of all of them are gone.
THEOREM ReleasesAreJoint == Spec => []ReleasedTogether
<1>1. IInv => ReleasedTogether
  BY DEF IInv
<1> QED
  BY InitIInv, NextIInv, <1>1, PTL DEF Spec

\* No step republishes a drained worker that left the mesh, recaptures a
\* recorded withdrawal, replaces consumed evidence or revives a released
\* reservation.
THEOREM EvidenceIsKept == Spec => EvidenceKept
<1> DEFINE Kept ==
             \A w \in Worker :
                LET old == inv.rec[w]
                    new == inv.rec'[w]
                IN  /\ w \in drain /\ w \notin Remotes => w \notin Remotes'
                    /\ old.intent # NoIntent => new.intent = intent[w] /\ new.intent = old.intent
                    /\ old.stage = "final" => new.stage \in {"final", "released"}
                                                /\ new.done = old.done
                    /\ old.stage = "released" => new = old
<1>1. IInv /\ [Next]_vars => [Kept]_vars
  <2> SUFFICES ASSUME IInv, [Next]_vars, NEW w \in Worker
               PROVE  LET old == inv.rec[w]
                          new == inv.rec'[w]
                      IN  /\ w \in drain /\ w \notin Remotes => w \notin Remotes'
                          /\ old.intent # NoIntent =>
                                new.intent = intent[w] /\ new.intent = old.intent
                          /\ old.stage = "final" => /\ new.stage \in {"final", "released"}
                                                    /\ new.done = old.done
                          /\ old.stage = "released" => new = old
    OBVIOUS
  <2>1. w \in drain /\ w \notin Remotes => w \notin Remotes'
    BY LeftStays DEF IInv, Left
  <2>2. inv.rec[w].intent # NoIntent => inv.rec[w].intent = intent[w]
    BY DEF IInv, Captured
  <2> QED
    BY SMTT(30), <2>1, <2>2, InventoryEffect DEF IInv
<1> QED
  BY <1>1, InitIInv, NextIInv, PTL DEF Spec, EvidenceKept
=============================================================================
