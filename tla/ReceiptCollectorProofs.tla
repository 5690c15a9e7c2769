----------------------- MODULE ReceiptCollectorProofs -----------------------
(***************************************************************************)
(* The collector's bound and the order of its batches, for any number of   *)
(* requests, collections and members, and for every limit and age.         *)
(***************************************************************************)
EXTENDS ReceiptCollector, FiniteSetTheorems, TLAPS

\* The provers of a step that names none.
USE ZenonT(30), SMTT(30)

Batch == [round : Nat, expires : Nat, at : [Member -> Nat \cup {NoEntry}]]
Step == {"resolve", "gate", "observe", "regate", "keep", "complete"}

\* A request under way.  At "complete" it carries its batch's oldest time,
\* which nothing here depends on.
UnderWay(q) ==
    /\ q = [pc |-> q.pc, m |-> q.m, a |-> q.a, at |-> q.at,
            round |-> q.round, expires |-> q.expires, before |-> q.before]
    /\ q.pc \in Step /\ q.m \in Collection /\ q.a \in Member
    /\ q.round \in Nat /\ q.expires \in Nat /\ q.before \in Nat
    /\ q.pc # "complete" => q.at \in 0 .. rcNow

Types ==
    /\ rcNow \in 0 .. MaxClock
    /\ rcSource \in [Collection -> [round : Nat, expires : Nat]]
    /\ rcBatch \in [Collection -> Batch]
    /\ rcRequest = [r \in Request |-> rcRequest[r]]
    /\ \A r \in Request : rcRequest[r] = Answered \/ UnderWay(rcRequest[r])
    /\ rcGate \in Request \cup {Free}
    /\ rcStop \in {"no", "asked", "done"}

\* The control points a request passes with the gate in its hands.
Holding(q) == q.pc \in {"keep", "complete"} \/ (q.pc = "observe" /\ q.m \notin ReadOnly)

\* The gate is held by the one request that is past it, and never once the
\* collector has stopped.
GateHeld ==
    /\ \A r \in Request : Holding(rcRequest[r]) <=> rcGate = r
    /\ rcGate # Free => rcStop # "done"
    /\ rcStop = "done" => Pending = {}

\* No batch is ahead of its source, and none holds a time still to come.
Behind(b, m) == b.round <= rcSource[m].round /\ \A a \in Member : b.at[a] <= rcNow
BatchesBehind == \A m \in Collection : Behind(rcBatch[m], m)

\* What a request knows of rounds, at the points where it relies on it: of its
\* source, of the batch it noted, and at last of the batch it adds to.
Informed(q) ==
    /\ q.round <= rcSource[q.m].round
    /\ q.pc = "observe" => q.before <= rcSource[q.m].round
    /\ q.pc = "regate" => q.before <= q.round
    /\ q.pc = "keep" => rcBatch[q.m].round <= q.round
RequestsInformed ==
    \A r \in Request : rcRequest[r] # Answered => Informed(rcRequest[r])

\* The request that may add a batch has room for it.
HasRoom(q) == rcBatch[q.m] # NoBatch \/ Cardinality(Pending) < Limit
Room ==
    /\ Cardinality(Pending) <= Limit
    /\ \A r \in Request : Holding(rcRequest[r]) /\ rcRequest[r].pc # "complete"
                             => HasRoom(rcRequest[r])

CInv == Types /\ GateHeld /\ BatchesBehind /\ RequestsInformed /\ Room

-----------------------------------------------------------------------------
(* Batches.                                                                 *)

LEMMA NoBatchTyped ==
    NoBatch \in Batch /\ NoBatch.round = 0 /\ \A a \in Member : NoBatch.at[a] = NoEntry
BY DEF NoBatch, Batch, NoEntry

LEMMA AnsweredShape == Answered.pc = "answered" /\ ~Holding(Answered)
BY DEF Answered, Holding

\* Pruning drops entries and whole batches, and changes nothing else.
LEMMA Pruning ==
    ASSUME CollectorConstants, Types, NEW m \in Collection
    PROVE  /\ Pruned[m] \in Batch
           /\ Pruned[m] # NoBatch =>
                /\ rcBatch[m] # NoBatch
                /\ Pruned[m].round = rcBatch[m].round
                /\ \A a \in Member : Pruned[m].at[a] \in {NoEntry, rcBatch[m].at[a]}
<1> DEFINE b == rcBatch[m]
           at == [a \in Member |-> IF b.at[a] # NoEntry /\ Fresh(b.at[a]) THEN b.at[a] ELSE NoEntry]
<1>1. b \in Batch
  BY DEF Types
<1>2. at \in [Member -> Nat \cup {NoEntry}] /\ \A a \in Member : at[a] \in {NoEntry, b.at[a]}
  BY <1>1 DEF Batch
<1>3. Pruned[m] = IF rcNow < b.expires /\ \E a \in Member : at[a] # NoEntry
                  THEN [b EXCEPT !.at = at] ELSE NoBatch
  BY DEF Pruned, PruneBatch
<1> HIDE DEF at
<1>4. [b EXCEPT !.at = at] \in Batch /\ [b EXCEPT !.at = at].round = b.round
        /\ [b EXCEPT !.at = at].at = at
  BY <1>1, <1>2 DEF Batch
<1>5. (\E a \in Member : at[a] # NoEntry) => b # NoBatch
  BY <1>2, NoBatchTyped
<1> QED BY <1>2, <1>3, <1>4, <1>5, NoBatchTyped

\* Fewer batches, or one more where there is room, stay within the limit.
LEMMA WithinLimit ==
    ASSUME CollectorConstants, NEW S \in SUBSET Collection, NEW T \in SUBSET Collection,
           NEW m \in Collection, T \subseteq S \cup {m},
           Cardinality(S) <= Limit, m \in S \/ Cardinality(S) < Limit
    PROVE  Cardinality(T) <= Limit
<1>1. IsFiniteSet(S)
  BY FS_Subset DEF CollectorConstants
<1>2. Cardinality(S) \in Nat
  BY <1>1, FS_CardinalityType
<1>3. /\ IsFiniteSet(S \cup {m})
      /\ Cardinality(S \cup {m}) = IF m \in S THEN Cardinality(S) ELSE Cardinality(S) + 1
  BY <1>1, FS_AddElement
<1>4. Cardinality(T) <= Cardinality(S \cup {m}) /\ IsFiniteSet(T)
  BY <1>3, FS_Subset
<1>5. Cardinality(T) \in Nat
  BY <1>4, FS_CardinalityType
<1> QED BY SMTT(30), <1>2, <1>3, <1>4, <1>5 DEF CollectorConstants

LEMMA Fewer ==
    ASSUME CollectorConstants, NEW S \in SUBSET Collection, NEW T \in SUBSET S,
           Cardinality(S) <= Limit
    PROVE  Cardinality(T) <= Limit
<1>1. IsFiniteSet(S)
  BY FS_Subset DEF CollectorConstants
<1>2. Cardinality(T) <= Cardinality(S) /\ IsFiniteSet(T)
  BY <1>1, FS_Subset
<1> QED BY SMTT(30), <1>1, <1>2, FS_CardinalityType DEF CollectorConstants

\* The batch a request keeps is of its round; a retirement's entries are each as
\* recent as before, or gone.
LEMMA Keeping ==
    ASSUME CollectorConstants, Types, NEW q, UnderWay(q), q.pc = "keep",
           \A a \in Member : rcBatch[q.m].at[a] <= rcNow
    PROVE  /\ Kept(q) \in Batch
           /\ Kept(q).round = q.round
           /\ \A a \in Member : Kept(q).at[a] <= rcNow
           /\ q.m \in ReadOnly /\ Fresh(q.at) /\ rcBatch[q.m].round = q.round =>
                \A a \in Member : Kept(q).at[a] = NoEntry \/ Kept(q).at[a] >= rcBatch[q.m].at[a]
<1> DEFINE old == rcBatch[q.m]
           batch == IF old.round = q.round THEN old ELSE [NoBatch EXCEPT !.round = q.round]
           late == q.m \in ReadOnly /\ q.expires <= batch.expires
           open == [batch EXCEPT !.expires = IF late THEN @ ELSE q.expires]
           at == [a \in Member |-> IF Fresh(open.at[a]) THEN open.at[a] ELSE NoEntry]
           entry == IF q.m \in ReadOnly /\ q.at < at[q.a] THEN at[q.a] ELSE q.at
<1>1. old \in Batch /\ q.a \in Member /\ q.at \in 0 .. rcNow /\ q.round \in Nat
        /\ q.expires \in Nat /\ rcNow \in Nat /\ MaxAge \in Nat
  BY SMTT(30) DEF Types, UnderWay, CollectorConstants
<1>2. batch \in Batch /\ batch.round = q.round /\ \A a \in Member : batch.at[a] <= rcNow
  <2>1. CASE old.round = q.round
    BY <1>1, <2>1
  <2>2. CASE old.round # q.round
    BY SMTT(30), <1>1, <2>2, NoBatchTyped DEF NoBatch, Batch, NoEntry
  <2> QED BY <2>1, <2>2
<1>3. old.round = q.round => batch = old
  OBVIOUS
<1>4. Kept(q) = [open EXCEPT !.at = [at EXCEPT ![q.a] = entry]]
  BY DEF Kept
<1> HIDE DEF batch
<1>5. open \in Batch /\ open.round = q.round /\ open.at = batch.at
  BY <1>1, <1>2 DEF Batch
<1> HIDE DEF open
<1>6. at \in [Member -> Nat \cup {NoEntry}] /\ \A a \in Member : at[a] <= rcNow
  BY SMTT(30), <1>1, <1>2, <1>5 DEF Batch, NoEntry
<1>7. \A a \in Member : at[a] = IF Fresh(batch.at[a]) THEN batch.at[a] ELSE NoEntry
  BY <1>5
<1> HIDE DEF at
<1>8. entry \in 0 .. rcNow /\ entry >= q.at /\ (q.m \in ReadOnly => entry >= at[q.a])
  BY SMTT(30), <1>1, <1>6 DEF NoEntry
<1> HIDE DEF entry
<1>9. Kept(q) \in Batch /\ Kept(q).round = q.round /\ Kept(q).at = [at EXCEPT ![q.a] = entry]
  BY SMTT(30), <1>1, <1>4, <1>5, <1>6, <1>8 DEF Batch
<1>10. \A a \in Member : Kept(q).at[a] <= rcNow
  BY SMTT(30), <1>1, <1>6, <1>8, <1>9
<1>11. ASSUME q.m \in ReadOnly, Fresh(q.at), old.round = q.round, NEW a \in Member
       PROVE  Kept(q).at[a] = NoEntry \/ Kept(q).at[a] >= old.at[a]
  <2>1. old.at[a] \in Nat \cup {NoEntry} /\ batch.at[a] = old.at[a]
    BY <1>1, <1>3, <1>11 DEF Batch
  <2>2. CASE a # q.a
    BY SMTT(30), <1>6, <1>7, <1>9, <2>1, <2>2 DEF NoEntry
  <2>3. CASE a = q.a
    <3>1. Kept(q).at[a] = entry
      BY <1>6, <1>9, <2>3
    <3>2. CASE Fresh(old.at[a])
      BY <1>7, <1>8, <1>11, <2>1, <2>3, <3>1, <3>2
    <3>3. CASE ~Fresh(old.at[a])
      BY SMTT(30), <1>1, <1>8, <1>11, <2>1, <3>1, <3>3 DEF Fresh, NoEntry
    <3> QED BY <3>2, <3>3
  <2> QED BY <2>2, <2>3
<1> QED BY <1>9, <1>10, <1>11

-----------------------------------------------------------------------------
(* The invariant, step by step.                                             *)

\* A step of one request: the others keep what they hold and what they know,
\* because batches change only under the gate and sources only grow.
LEMMA RequestStep ==
    ASSUME CollectorConstants, CInv, NEW r \in Request, NEW p,
           rcRequest' = [rcRequest EXCEPT ![r] = p],
           p = Answered \/ UnderWay(p),
           rcNow' = rcNow, rcStop' = rcStop,
           rcSource' \in [Collection -> [round : Nat, expires : Nat]],
           \A m \in Collection : rcSource[m].round <= rcSource'[m].round,
           rcBatch' \in [Collection -> Batch], BatchesBehind',
           rcGate' = IF Holding(p) THEN r ELSE IF rcGate = r THEN Free ELSE rcGate,
           rcBatch' = rcBatch \/ (rcGate \in {r, Free} /\ rcStop # "done"),
           Holding(p) => rcGate \in {r, Free} /\ rcStop # "done",
           Cardinality(Pending') <= Limit,
           Holding(p) /\ p.pc # "complete" =>
              rcBatch'[p.m] # NoBatch \/ Cardinality(Pending') < Limit,
           p # Answered =>
              /\ p.round <= rcSource'[p.m].round
              /\ p.pc = "observe" => p.before <= rcSource'[p.m].round
              /\ p.pc = "regate" => p.before <= p.round
              /\ p.pc = "keep" => rcBatch'[p.m].round <= p.round
    PROVE  CInv'
<1>1. Types /\ GateHeld /\ BatchesBehind /\ RequestsInformed /\ Room
  BY DEF CInv
<1>2. /\ rcRequest = [s \in Request |-> rcRequest[s]]
      /\ \A s \in Request : rcRequest[s] = Answered \/ UnderWay(rcRequest[s])
      /\ rcGate \in Request \cup {Free} /\ rcNow \in 0 .. MaxClock
      /\ rcStop \in {"no", "asked", "done"}
      /\ rcSource \in [Collection -> [round : Nat, expires : Nat]]
  BY <1>1 DEF Types
<1>3. /\ rcRequest'[r] = p
      /\ \A s \in Request \ {r} : rcRequest'[s] = rcRequest[s]
      /\ rcRequest' = [s \in Request |-> rcRequest'[s]]
  BY <1>2
<1>4. Free \notin Request
  BY DEF CollectorConstants
<1>5. \A s \in Request : Holding(rcRequest[s]) <=> rcGate = s
  BY <1>1 DEF GateHeld
<1>6. ASSUME NEW s \in Request, s # r, Holding(rcRequest[s])
      PROVE  rcBatch' = rcBatch /\ ~Holding(p) /\ rcGate' = s
  BY <1>4, <1>5, <1>6
<1>7. Types'
  <2>1. \A s \in Request : rcRequest'[s] = Answered \/ UnderWay(rcRequest'[s])
    BY <1>2, <1>3
  <2>2. \A s \in Request : (rcRequest[s] = Answered \/ UnderWay(rcRequest[s]))'
    BY <2>1 DEF UnderWay, Answered
  <2>3. rcGate' \in Request \cup {Free}
    BY <1>2
  <2> QED BY <1>2, <1>3, <2>2, <2>3 DEF Types
<1>8. GateHeld'
  <2>1. ASSUME NEW s \in Request
        PROVE  Holding(rcRequest'[s]) <=> rcGate' = s
    <3>1. CASE s = r
      BY <1>3, <1>4, <3>1
    <3>2. CASE s # r
      BY <1>3, <1>4, <1>5, <1>6, <3>2
    <3> QED BY <3>1, <3>2
  <2>2. rcGate' # Free => rcStop' # "done"
    BY <1>1 DEF GateHeld
  <2>3. rcStop' = "done" => Pending' = {}
    BY <1>1 DEF GateHeld, Pending
  <2> QED BY <2>1, <2>2, <2>3 DEF GateHeld, Holding
<1>9. RequestsInformed'
  <2>1. ASSUME NEW s \in Request, rcRequest'[s] # Answered
        PROVE  LET q == rcRequest'[s]
               IN  /\ q.round <= rcSource'[q.m].round
                   /\ q.pc = "observe" => q.before <= rcSource'[q.m].round
                   /\ q.pc = "regate" => q.before <= q.round
                   /\ q.pc = "keep" => rcBatch'[q.m].round <= q.round
    <3>1. CASE s = r
      BY <1>3, <2>1, <3>1
    <3>2. CASE s # r
      <4> DEFINE q == rcRequest[s]
      <4>1. rcRequest'[s] = q /\ q # Answered
        BY <1>3, <2>1, <3>2
      <4>2. UnderWay(q)
        BY <1>2, <4>1
      <4>3. q.m \in Collection /\ q.round \in Nat /\ q.before \in Nat
        BY <4>2 DEF UnderWay
      <4>4. rcSource[q.m].round \in Nat /\ rcSource'[q.m].round \in Nat
              /\ rcSource[q.m].round <= rcSource'[q.m].round
        BY <1>2, <4>3
      <4>5. Informed(q)
        BY <1>1, <4>1 DEF RequestsInformed
      <4>6. q.pc = "keep" => rcBatch' = rcBatch
        BY <1>6, <3>2 DEF Holding
      <4> HIDE DEF q
      <4> QED BY SMTT(30), <4>1, <4>3, <4>4, <4>5, <4>6 DEF Informed
    <3> QED BY <3>1, <3>2
  <2> QED BY <2>1 DEF RequestsInformed, Informed, Answered
<1>10. Room'
  <2>1. ASSUME NEW s \in Request, Holding(rcRequest'[s]), rcRequest'[s].pc # "complete"
        PROVE  rcBatch'[rcRequest'[s].m] # NoBatch \/ Cardinality(Pending') < Limit
    <3>1. CASE s = r
      BY <1>3, <2>1, <3>1
    <3>2. CASE s # r
      <4>1. rcRequest'[s] = rcRequest[s]
        BY <1>3, <3>2
      <4>2. rcBatch' = rcBatch
        BY <1>6, <2>1, <3>2, <4>1
      <4>3. HasRoom(rcRequest[s])
        BY <1>1, <2>1, <4>1 DEF Room
      <4> QED BY <4>1, <4>2, <4>3 DEF HasRoom, Pending
    <3> QED BY <3>1, <3>2
  <2> QED BY <2>1 DEF Room, Holding, HasRoom, NoBatch, NoEntry
<1> QED BY <1>7, <1>8, <1>9, <1>10 DEF CInv

\* Batches that only go, or lose entries, stay behind and within the limit.
LEMMA Shrinking ==
    ASSUME CollectorConstants, CInv,
           rcSource' \in [Collection -> [round : Nat, expires : Nat]],
           \A m \in Collection : rcSource[m].round <= rcSource'[m].round,
           rcNow' \in Nat, rcNow <= rcNow',
           rcBatch' \in [Collection -> Batch],
           \A m \in Collection : rcBatch'[m] # NoBatch =>
              /\ rcBatch[m] # NoBatch
              /\ rcBatch'[m].round = rcBatch[m].round
              /\ \A a \in Member : rcBatch'[m].at[a] \in {NoEntry, rcBatch[m].at[a]}
    PROVE  BatchesBehind' /\ Pending' \subseteq Pending /\ Cardinality(Pending') <= Limit
<1>1. Types /\ BatchesBehind /\ Cardinality(Pending) <= Limit
  BY DEF CInv, Room
<1>2. ASSUME NEW m \in Collection
      PROVE  rcBatch'[m].round <= rcSource'[m].round
               /\ \A a \in Member : rcBatch'[m].at[a] <= rcNow'
  <2>1. /\ rcSource[m].round \in Nat /\ rcSource'[m].round \in Nat
        /\ rcNow \in Nat /\ rcBatch[m] \in Batch
    BY SMTT(30), <1>1 DEF Types
  <2>2. rcBatch[m].round \in Nat /\ \A a \in Member : rcBatch[m].at[a] \in Nat \cup {NoEntry}
    BY <2>1 DEF Batch
  <2>3. CASE rcBatch'[m] = NoBatch
    BY SMTT(30), <2>1, <2>3, NoBatchTyped DEF NoEntry
  <2>4. CASE rcBatch'[m] # NoBatch
    BY SMTT(30), <1>1, <2>1, <2>2, <2>4 DEF BatchesBehind, Behind, NoEntry
  <2> QED BY <2>3, <2>4
<1>3. Pending' \in SUBSET Pending /\ Pending \in SUBSET Collection
  BY DEF Pending, NoBatch, NoEntry
<1>4. Cardinality(Pending') <= Limit
  BY <1>1, <1>3, Fewer
<1> QED BY <1>2, <1>3, <1>4 DEF BatchesBehind, Behind

\* A step of one request that touches neither batches nor sources.
LEMMA QuietStep ==
    ASSUME CollectorConstants, CInv, NEW r \in Request, NEW p,
           rcRequest' = [rcRequest EXCEPT ![r] = p],
           p = Answered \/ (UnderWay(p) /\ Informed(p)),
           UNCHANGED <<rcNow, rcStop, rcSource, rcBatch>>,
           rcGate' = IF Holding(p) THEN r ELSE IF rcGate = r THEN Free ELSE rcGate,
           Holding(p) => rcGate \in {r, Free} /\ rcStop # "done" /\ HasRoom(p)
    PROVE  CInv'
<1>1. Types /\ BatchesBehind /\ Cardinality(Pending) <= Limit
  BY DEF CInv, Room
<1>2. rcBatch \in [Collection -> Batch] /\ rcSource \in [Collection -> [round : Nat, expires : Nat]]
  BY <1>1 DEF Types
<1>3. \A m \in Collection : rcSource[m].round <= rcSource'[m].round
  BY SMTT(30), <1>2
<1>4. BatchesBehind' /\ Pending' = Pending
  BY <1>1 DEF BatchesBehind, Behind, Pending
<1>5. p # Answered => /\ p.round <= rcSource'[p.m].round
                      /\ p.pc = "observe" => p.before <= rcSource'[p.m].round
                      /\ p.pc = "regate" => p.before <= p.round
                      /\ p.pc = "keep" => rcBatch'[p.m].round <= p.round
  BY DEF Informed
<1>6. Holding(p) => rcBatch'[p.m] # NoBatch \/ Cardinality(Pending') < Limit
  BY <1>4 DEF HasRoom
<1>7. Cardinality(Pending') <= Limit
  BY <1>1, <1>4
<1> HIDE DEF CInv
<1> QED BY ZenonT(30), <1>2, <1>3, <1>4, <1>5, <1>6, <1>7, RequestStep

LEMMA QuietAnswer ==
    ASSUME CollectorConstants, CInv, NEW r \in Request, Answer(r),
           UNCHANGED <<rcNow, rcStop, rcSource, rcBatch>>
    PROVE  CInv'
BY QuietStep, AnsweredShape DEF Answer

\* A request under way, as its steps use it.
LEMMA Asked ==
    ASSUME CollectorConstants, CInv, NEW r \in Request, rcRequest[r].pc # "answered"
    PROVE  /\ UnderWay(rcRequest[r]) /\ Informed(rcRequest[r])
           /\ Holding(rcRequest[r]) <=> rcGate = r
           /\ Holding(rcRequest[r]) /\ rcRequest[r].pc # "complete" => HasRoom(rcRequest[r])
           /\ rcGate = r => rcStop # "done"
<1>1. rcRequest[r] # Answered
  BY AnsweredShape
<1>2. UnderWay(rcRequest[r])
  BY <1>1 DEF CInv, Types
<1>3. Informed(rcRequest[r])
  BY <1>1 DEF CInv, RequestsInformed
<1>4. /\ Holding(rcRequest[r]) <=> rcGate = r
      /\ Holding(rcRequest[r]) /\ rcRequest[r].pc # "complete" => HasRoom(rcRequest[r])
  BY DEF CInv, GateHeld, Room
<1>5. rcGate = r => rcStop # "done"
  BY DEF CInv, GateHeld, CollectorConstants
<1> QED BY <1>2, <1>3, <1>4, <1>5

\* What the assignments to a request under way make of it.
LEMMA MovedTo ==
    ASSUME NEW q, UnderWay(q), NEW x
    PROVE  [q EXCEPT !.pc = x] =
             [pc |-> x, m |-> q.m, a |-> q.a, at |-> q.at,
              round |-> q.round, expires |-> q.expires, before |-> q.before]
<1> DEFINE p == [q EXCEPT !.pc = x]
<1>1. q \in [pc : {q.pc}, m : {q.m}, a : {q.a}, at : {q.at},
             round : {q.round}, expires : {q.expires}, before : {q.before}]
  BY DEF UnderWay
<1>2. p \in [pc : {x}, m : {q.m}, a : {q.a}, at : {q.at},
             round : {q.round}, expires : {q.expires}, before : {q.before}]
  BY <1>1
<1> HIDE DEF p
<1>3. p = [pc |-> x, m |-> q.m, a |-> q.a, at |-> q.at,
           round |-> q.round, expires |-> q.expires, before |-> q.before]
  BY <1>2
<1> QED BY <1>3 DEF p

LEMMA MovedExpires ==
    ASSUME NEW q, UnderWay(q), NEW x, NEW y
    PROVE  [q EXCEPT !.pc = x, !.expires = y] =
             [pc |-> x, m |-> q.m, a |-> q.a, at |-> q.at,
              round |-> q.round, expires |-> y, before |-> q.before]
<1> DEFINE p == [q EXCEPT !.pc = x, !.expires = y]
<1>1. q \in [pc : {q.pc}, m : {q.m}, a : {q.a}, at : {q.at},
             round : {q.round}, expires : {q.expires}, before : {q.before}]
  BY DEF UnderWay
<1>2. p \in [pc : {x}, m : {q.m}, a : {q.a}, at : {q.at},
             round : {q.round}, expires : {y}, before : {q.before}]
  BY <1>1
<1> HIDE DEF p
<1>3. p = [pc |-> x, m |-> q.m, a |-> q.a, at |-> q.at,
           round |-> q.round, expires |-> y, before |-> q.before]
  BY <1>2
<1> QED BY <1>3 DEF p

LEMMA MovedBefore ==
    ASSUME NEW q, UnderWay(q), NEW x, NEW y
    PROVE  [q EXCEPT !.pc = x, !.before = y] =
             [pc |-> x, m |-> q.m, a |-> q.a, at |-> q.at,
              round |-> q.round, expires |-> q.expires, before |-> y]
<1> DEFINE p == [q EXCEPT !.pc = x, !.before = y]
<1>1. q \in [pc : {q.pc}, m : {q.m}, a : {q.a}, at : {q.at},
             round : {q.round}, expires : {q.expires}, before : {q.before}]
  BY DEF UnderWay
<1>2. p \in [pc : {x}, m : {q.m}, a : {q.a}, at : {q.at},
             round : {q.round}, expires : {q.expires}, before : {y}]
  BY <1>1
<1> HIDE DEF p
<1>3. p = [pc |-> x, m |-> q.m, a |-> q.a, at |-> q.at,
           round |-> q.round, expires |-> q.expires, before |-> y]
  BY <1>2
<1> QED BY <1>3 DEF p

LEMMA MovedAt ==
    ASSUME NEW q, UnderWay(q), NEW x, NEW y
    PROVE  [q EXCEPT !.pc = x, !.at = y] =
             [pc |-> x, m |-> q.m, a |-> q.a, at |-> y,
              round |-> q.round, expires |-> q.expires, before |-> q.before]
<1> DEFINE p == [q EXCEPT !.pc = x, !.at = y]
<1>1. q \in [pc : {q.pc}, m : {q.m}, a : {q.a}, at : {q.at},
             round : {q.round}, expires : {q.expires}, before : {q.before}]
  BY DEF UnderWay
<1>2. p \in [pc : {x}, m : {q.m}, a : {q.a}, at : {y},
             round : {q.round}, expires : {q.expires}, before : {q.before}]
  BY <1>1
<1> HIDE DEF p
<1>3. p = [pc |-> x, m |-> q.m, a |-> q.a, at |-> y,
           round |-> q.round, expires |-> q.expires, before |-> q.before]
  BY <1>2
<1> QED BY <1>3 DEF p

LEMMA ResolveInv ==
    ASSUME CollectorConstants, CInv, NEW r \in Request, Resolve(r)
    PROVE  CInv'
<1> DEFINE q == rcRequest[r]
           src == rcSource[q.m]
           e == IF src.round # q.round THEN 0
                ELSE IF q.m \in ReadOnly THEN rcNow + MaxAge ELSE src.expires
           p == [pc |-> "gate", m |-> q.m, a |-> q.a, at |-> q.at,
                 round |-> q.round, expires |-> e, before |-> q.before]
<1>1. q.pc = "resolve" /\ UNCHANGED <<rcNow, rcSource, rcBatch, rcStop>>
  BY DEF Resolve, At
<1>2. UnderWay(q) /\ Informed(q) /\ rcGate # r
  BY <1>1, Asked DEF Holding
<1>3. CASE Answer(r)
  BY <1>1, <1>3, QuietAnswer
<1>4. CASE ~Answer(r)
  <2>1. /\ rcRequest' = [rcRequest EXCEPT ![r].pc = "gate", ![r].expires = e]
        /\ rcGate' = rcGate
    BY <1>4 DEF Resolve
  <2>2. e \in Nat
    BY SMTT(30), <1>2 DEF UnderWay, CInv, Types, CollectorConstants
  <2> HIDE DEF e
  <2>3. rcRequest = [s \in Request |-> rcRequest[s]]
    BY DEF CInv, Types
  <2>4. rcRequest' = [rcRequest EXCEPT ![r] = p]
    <3>1. rcRequest' = [rcRequest EXCEPT ![r] = [q EXCEPT !.pc = "gate", !.expires = e]]
      BY <2>1
    <3>2. ASSUME NEW y
          PROVE  [q EXCEPT !.pc = "gate", !.expires = y] =
                   [pc |-> "gate", m |-> q.m, a |-> q.a, at |-> q.at,
                    round |-> q.round, expires |-> y, before |-> q.before]
      <4>1. UnderWay(q)
        BY SMTT(30), <1>2
      <4> HIDE DEF q
      <4> QED BY <4>1, MovedExpires
    <3> QED BY <3>1, <3>2
  <2>5. UnderWay(p) /\ Informed(p) /\ ~Holding(p)
    BY <1>1, <1>2, <2>2 DEF UnderWay, Informed, Holding, Step
  <2> QED BY <1>1, <1>2, <2>1, <2>4, <2>5, QuietStep
<1> QED BY <1>3, <1>4

LEMMA ObserveInv ==
    ASSUME CollectorConstants, CInv, NEW r \in Request, ObserveReceipt(r)
    PROVE  CInv'
<1> DEFINE q == rcRequest[r]
           to == IF q.m \in ReadOnly THEN "regate" ELSE "keep"
           p == [pc |-> to, m |-> q.m, a |-> q.a, at |-> q.at,
                 round |-> q.round, expires |-> q.expires, before |-> q.before]
<1>1. q.pc = "observe" /\ UNCHANGED <<rcNow, rcSource, rcBatch, rcStop>>
  BY DEF ObserveReceipt, At
<1>2. UnderWay(q) /\ Informed(q)
  BY <1>1, Asked
<1>3. /\ q.m \notin ReadOnly <=> rcGate = r
      /\ q.m \notin ReadOnly => HasRoom(q) /\ rcStop # "done"
  BY <1>1, Asked DEF Holding
<1>4. CASE Answer(r)
  BY <1>1, <1>4, QuietAnswer
<1>5. CASE ~Answer(r)
  <2>1. /\ rcSource[q.m].round = q.round /\ rcGate' = rcGate
        /\ rcRequest' = [rcRequest EXCEPT ![r].pc = to]
    BY <1>5 DEF ObserveReceipt, Goto
  <2>2. rcRequest = [s \in Request |-> rcRequest[s]]
    BY DEF CInv, Types
  <2>3. rcRequest' = [rcRequest EXCEPT ![r] = p]
    BY <1>2, <2>1, <2>2, MovedTo
  <2>4. UnderWay(p)
    BY <1>1, <1>2 DEF UnderWay, Step
  <2>5. rcBatch[q.m].round <= q.round
    BY <1>2, <2>1 DEF CInv, BatchesBehind, Behind, UnderWay
  <2>6. Informed(p)
    BY <1>1, <1>2, <2>1, <2>5 DEF Informed
  <2>7. Holding(p) <=> q.m \notin ReadOnly
    BY DEF Holding
  <2>8. HasRoom(p) <=> HasRoom(q)
    BY DEF HasRoom
  <2> QED BY <1>1, <1>3, <2>1, <2>3, <2>4, <2>6, <2>7, <2>8, QuietStep
<1> QED BY <1>4, <1>5

LEMMA RejoinInv ==
    ASSUME CollectorConstants, CInv, NEW r \in Request, Rejoin(r)
    PROVE  CInv'
<1> DEFINE q == rcRequest[r]
           p == [pc |-> "keep", m |-> q.m, a |-> q.a, at |-> q.at,
                 round |-> q.round, expires |-> q.expires, before |-> q.before]
<1>1. q.pc = "regate" /\ rcGate = Free /\ UNCHANGED <<rcNow, rcSource, rcBatch, rcStop>>
  BY DEF Rejoin, At
<1>2. UnderWay(q) /\ Informed(q)
  BY <1>1, Asked
<1>3. CASE Answer(r)
  BY <1>1, <1>3, QuietAnswer
<1>4. CASE ~Answer(r)
  <2>1. /\ rcStop # "done" /\ rcGate' = r
        /\ rcBatch[q.m] = NoBatch => Cardinality(Pending) < Limit
        /\ rcBatch[q.m] # NoBatch => rcBatch[q.m].round \in {q.round, q.before}
        /\ rcRequest' = [rcRequest EXCEPT ![r].pc = "keep"]
    BY <1>4 DEF Rejoin, Goto
  <2>2. rcRequest = [s \in Request |-> rcRequest[s]]
    BY DEF CInv, Types
  <2>3. rcRequest' = [rcRequest EXCEPT ![r] = p]
    BY <1>2, <2>1, <2>2, MovedTo
  <2>4. UnderWay(p)
    BY <1>1, <1>2 DEF UnderWay, Step
  <2>5. rcBatch[q.m].round <= q.round
    BY SMTT(30), <1>1, <1>2, <2>1, NoBatchTyped DEF UnderWay, Informed
  <2>6. Informed(p) /\ Holding(p) /\ HasRoom(p)
    BY <1>2, <2>1, <2>5 DEF Informed, Holding, HasRoom
  <2> QED BY <1>1, <2>1, <2>3, <2>4, <2>6, QuietStep
<1> QED BY <1>3, <1>4

LEMMA EnterGateInv ==
    ASSUME CollectorConstants, CInv, NEW r \in Request, EnterGate(r)
    PROVE  CInv'
<1> DEFINE q == rcRequest[r]
           full == {m \in Collection : Pruned[m] # NoBatch}
           b == IF q.m \in ReadOnly THEN Pruned[q.m].round ELSE 0
           p == [pc |-> "observe", m |-> q.m, a |-> q.a, at |-> q.at,
                 round |-> q.round, expires |-> q.expires, before |-> b]
<1>1. q.pc = "gate" /\ rcGate = Free /\ UNCHANGED <<rcNow, rcSource, rcStop>>
  BY DEF EnterGate, At
<1>2. UnderWay(q) /\ Informed(q) /\ q.m \in Collection /\ Types
  BY <1>1, Asked DEF UnderWay, CInv
<1>3. CASE rcStop = "done"
  <2>1. Answer(r) /\ UNCHANGED rcBatch
    BY <1>3 DEF EnterGate
  <2> QED BY <1>1, <2>1, QuietAnswer
<1>4. CASE rcStop # "done"
  <2>1. rcBatch' = Pruned
    BY <1>4 DEF EnterGate
  <2>2. \A m \in Collection : rcBatch'[m] \in Batch /\
          (rcBatch'[m] # NoBatch => /\ rcBatch[m] # NoBatch
                                    /\ rcBatch'[m].round = rcBatch[m].round
                                    /\ \A a \in Member : rcBatch'[m].at[a] \in {NoEntry, rcBatch[m].at[a]})
    BY <1>2, <2>1, Pruning
  <2>3. rcBatch' \in [Collection -> Batch]
    BY <2>1, <2>2 DEF Pruned
  <2>4. /\ rcSource' \in [Collection -> [round : Nat, expires : Nat]]
        /\ \A m \in Collection : rcSource[m].round <= rcSource'[m].round
        /\ rcNow \in Nat
    BY SMTT(30), <1>1, <1>2 DEF Types
  <2>5. BatchesBehind' /\ Cardinality(Pending') <= Limit
    BY SMTT(30), <1>1, <2>2, <2>3, <2>4, Shrinking
  <2>6. CASE Answer(r)
    <3>1. /\ rcRequest' = [rcRequest EXCEPT ![r] = Answered]
          /\ rcGate' = IF rcGate = r THEN Free ELSE rcGate
      BY <2>6 DEF Answer
    <3> QED BY <1>1, <1>4, <2>3, <2>4, <2>5, <3>1, AnsweredShape, RequestStep
  <2>7. CASE ~Answer(r)
    <3>1. /\ Pruned[q.m] = NoBatch => Cardinality(full) < Limit
          /\ rcRequest' = [rcRequest EXCEPT ![r].pc = "observe", ![r].before = b]
          /\ rcGate' = IF q.m \in ReadOnly THEN Free ELSE r
      BY <1>4, <2>7 DEF EnterGate
    <3>2. Pending' = full
      BY <2>1 DEF Pending, NoBatch, NoEntry
    <3>3. b \in Nat /\ b <= rcSource[q.m].round
      <4>1. Pruned[q.m].round = 0 \/ Pruned[q.m].round = rcBatch[q.m].round
        BY <1>2, <2>1, <2>2, NoBatchTyped
      <4>2. rcBatch[q.m].round \in Nat /\ rcSource[q.m].round \in Nat
        BY <1>2 DEF Types, Batch
      <4>3. rcBatch[q.m].round <= rcSource[q.m].round
        BY <1>2 DEF CInv, BatchesBehind, Behind
      <4> QED BY SMTT(30), <4>1, <4>2, <4>3
    <3> HIDE DEF b, full
    <3>4. rcRequest' = [rcRequest EXCEPT ![r] = [q EXCEPT !.pc = "observe", !.before = b]]
      BY ZenonT(30), <3>1
    <3>5. rcRequest' = [rcRequest EXCEPT ![r] = p]
      <4>1. ASSUME NEW y
            PROVE  [q EXCEPT !.pc = "observe", !.before = y] =
                     [pc |-> "observe", m |-> q.m, a |-> q.a, at |-> q.at,
                      round |-> q.round, expires |-> q.expires, before |-> y]
        <5>1. UnderWay(q)
          BY <1>2
        <5> HIDE DEF q
        <5> QED BY <5>1, MovedBefore
      <4> QED BY <3>4, <4>1
    <3>6. UnderWay(p)
      BY SMTT(30), <1>1, <1>2, <3>3 DEF UnderWay, Step
    <3>7. p # Answered => /\ p.round <= rcSource'[p.m].round
                          /\ p.pc = "observe" => p.before <= rcSource'[p.m].round
                          /\ p.pc = "regate" => p.before <= p.round
                          /\ p.pc = "keep" => rcBatch'[p.m].round <= p.round
      BY <1>1, <1>2, <3>3 DEF Informed
    <3>8. Holding(p) <=> q.m \notin ReadOnly
      BY DEF Holding
    <3>9. rcBatch'[p.m] # NoBatch \/ Cardinality(Pending') < Limit
      BY <2>1, <3>1, <3>2
    <3>10. rcGate' = IF Holding(p) THEN r ELSE IF rcGate = r THEN Free ELSE rcGate
      BY <1>1, <3>1, <3>8
    <3> HIDE DEF p
    <3> QED BY <1>1, <1>4, <2>3, <2>4, <2>5, <3>5, <3>6, <3>7, <3>9, <3>10, RequestStep
  <2> QED BY <2>6, <2>7
<1> QED BY <1>3, <1>4

LEMMA KeepInv ==
    ASSUME CollectorConstants, CInv, NEW r \in Request, Keep(r)
    PROVE  CInv'
<1> DEFINE q == rcRequest[r]
           batch == Kept(q)
           whole == \A a \in Member : batch.at[a] # NoEntry
<1>1. q.pc = "keep" /\ rcGate = r /\ UNCHANGED <<rcNow, rcSource, rcStop>>
  BY DEF Keep, At
<1>2. UnderWay(q) /\ Informed(q) /\ HasRoom(q) /\ rcStop # "done"
  BY <1>1, Asked DEF Holding
<1>3. /\ Types /\ q.m \in Collection /\ q.round \in Nat
      /\ BatchesBehind /\ Cardinality(Pending) <= Limit
  BY <1>2 DEF CInv, UnderWay, Room
<1>4. /\ rcSource' \in [Collection -> [round : Nat, expires : Nat]]
      /\ \A m \in Collection : rcSource[m].round <= rcSource'[m].round
      /\ rcNow \in Nat /\ rcBatch \in [Collection -> Batch]
  BY SMTT(30), <1>1, <1>3 DEF Types
<1>5. batch \in Batch /\ batch.round = q.round /\ \A a \in Member : batch.at[a] <= rcNow
  BY <1>1, <1>2, <1>3, Keeping DEF BatchesBehind, Behind
<1> HIDE DEF batch
<1>6. ASSUME NEW x \in {NoBatch, batch}, rcBatch' = [rcBatch EXCEPT ![q.m] = x]
      PROVE  /\ rcBatch' \in [Collection -> Batch] /\ BatchesBehind'
             /\ Cardinality(Pending') <= Limit
  <2>1. rcBatch' \in [Collection -> Batch]
    BY <1>4, <1>5, <1>6, NoBatchTyped
  <2>2. rcBatch'[q.m] = x /\ \A m \in Collection \ {q.m} : rcBatch'[m] = rcBatch[m]
    BY <1>3, <1>4, <1>6
  <2>3. x.round <= rcSource[q.m].round /\ \A a \in Member : x.at[a] <= rcNow
    BY SMTT(30), <1>2, <1>3, <1>4, <1>5, NoBatchTyped DEF Informed, NoEntry, Types
  <2>4. BatchesBehind'
    BY <1>1, <1>3, <2>2, <2>3 DEF BatchesBehind, Behind
  <2>5. /\ Pending' \in SUBSET Collection /\ Pending \in SUBSET Collection
        /\ Pending' \subseteq Pending \cup {q.m}
    BY <2>2 DEF Pending, NoBatch, NoEntry
  <2>6. q.m \in Pending \/ Cardinality(Pending) < Limit
    BY <1>2, <1>3 DEF HasRoom, Pending
  <2> QED BY <1>3, <2>1, <2>4, <2>5, <2>6, WithinLimit
<1>7. CASE Answer(r) /\ UNCHANGED rcBatch
  BY <1>1, <1>7, QuietAnswer
<1>8. ASSUME Answer(r), NEW x \in {NoBatch, batch}, rcBatch' = [rcBatch EXCEPT ![q.m] = x]
      PROVE  CInv'
  <2>1. /\ rcRequest' = [rcRequest EXCEPT ![r] = Answered]
        /\ rcGate' = IF rcGate = r THEN Free ELSE rcGate
    BY <1>8 DEF Answer
  <2> QED BY <1>1, <1>2, <1>4, <1>6, <1>8, <2>1, AnsweredShape, RequestStep
<1>9. ASSUME NEW t, NEW x \in {NoBatch, batch}, rcBatch' = [rcBatch EXCEPT ![q.m] = x],
             rcGate' = rcGate,
             rcRequest' = [rcRequest EXCEPT ![r].pc = "complete", ![r].at = t]
      PROVE  CInv'
  <2> DEFINE p == [pc |-> "complete", m |-> q.m, a |-> q.a, at |-> t,
                   round |-> q.round, expires |-> q.expires, before |-> q.before]
  <2>1. rcRequest' = [rcRequest EXCEPT ![r] = [q EXCEPT !.pc = "complete", !.at = t]]
    BY <1>9
  <2>2. rcRequest' = [rcRequest EXCEPT ![r] = p]
    <3>1. [q EXCEPT !.pc = "complete", !.at = t] = p
      BY <1>2, MovedAt
    <3> QED BY ZenonT(30), <2>1, <3>1
  <2>3. UnderWay(p) /\ Holding(p) /\ p.pc = "complete"
    BY ZenonT(30), <1>2 DEF UnderWay, Step, Holding
  <2>4. p.round <= rcSource'[p.m].round
    BY <1>1, <1>2 DEF Informed
  <2> HIDE DEF p
  <2> QED BY <1>1, <1>2, <1>4, <1>6, <1>9, <2>2, <2>3, <2>4, RequestStep
<1>10. \/ Answer(r) /\ UNCHANGED rcBatch
       \/ \E x \in {NoBatch, batch} :
            /\ rcBatch' = [rcBatch EXCEPT ![q.m] = x]
            /\ \/ Answer(r)
               \/ \E t : /\ rcRequest' = [rcRequest EXCEPT ![r].pc = "complete", ![r].at = t]
                         /\ rcGate' = rcGate
  BY DEF Keep, batch
<1> QED BY <1>7, <1>8, <1>9, <1>10

LEMMA AdvancedTyped ==
    ASSUME CollectorConstants, Types, NEW m \in Collection,
           rcSource' = [rcSource EXCEPT ![m] = Advanced(m)]
    PROVE  /\ rcSource' \in [Collection -> [round : Nat, expires : Nat]]
           /\ \A c \in Collection : rcSource[c].round <= rcSource'[c].round
<1>1. rcSource \in [Collection -> [round : Nat, expires : Nat]] /\ rcNow \in Nat /\ MaxAge \in Nat
  BY SMTT(30) DEF Types, CollectorConstants
<1>2. Advanced(m) \in [round : Nat, expires : Nat] /\ Advanced(m).round = rcSource[m].round + 1
  BY SMTT(30), <1>1 DEF Advanced
<1> QED BY SMTT(30), <1>1, <1>2

LEMMA CompleteInv ==
    ASSUME CollectorConstants, CInv, NEW r \in Request, CompleteBatch(r)
    PROVE  CInv'
<1> DEFINE q == rcRequest[r]
<1>1. q.pc = "complete" /\ Answer(r) /\ UNCHANGED <<rcNow, rcStop>>
  BY DEF CompleteBatch, At
<1>2. UnderWay(q) /\ rcGate = r /\ rcStop # "done" /\ Types /\ q.m \in Collection
  BY <1>1, Asked DEF Holding, CInv, UnderWay
<1>3. CASE UNCHANGED <<rcSource, rcBatch>>
  BY <1>1, <1>3, QuietAnswer
<1>4. CASE rcBatch' = [rcBatch EXCEPT ![q.m] = NoBatch]
           /\ (rcSource' = rcSource \/ rcSource' = [rcSource EXCEPT ![q.m] = Advanced(q.m)])
  <2>1. /\ rcBatch \in [Collection -> Batch] /\ rcNow \in Nat
        /\ rcSource \in [Collection -> [round : Nat, expires : Nat]]
    BY SMTT(30), <1>2 DEF Types
  <2>2. /\ rcSource' \in [Collection -> [round : Nat, expires : Nat]]
        /\ \A m \in Collection : rcSource[m].round <= rcSource'[m].round
    <3>1. CASE rcSource' = rcSource
      BY SMTT(30), <2>1, <3>1
    <3>2. CASE rcSource' = [rcSource EXCEPT ![q.m] = Advanced(q.m)]
      BY <1>2, <3>2, AdvancedTyped
    <3> QED BY <1>4, <3>1, <3>2
  <2>3. rcBatch' \in [Collection -> Batch]
    BY <1>4, <2>1, NoBatchTyped
  <2>4. \A m \in Collection : rcBatch'[m] # NoBatch => rcBatch'[m] = rcBatch[m]
    BY <1>2, <1>4, <2>1
  <2>5. BatchesBehind' /\ Cardinality(Pending') <= Limit
    BY SMTT(30), <1>1, <2>1, <2>2, <2>3, <2>4, Shrinking
  <2>6. /\ rcRequest' = [rcRequest EXCEPT ![r] = Answered]
        /\ rcGate' = IF rcGate = r THEN Free ELSE rcGate
    BY <1>1 DEF Answer
  <2> QED BY <1>1, <1>2, <2>2, <2>3, <2>5, <2>6, AnsweredShape, RequestStep
<1> QED BY <1>3, <1>4 DEF CompleteBatch

LEMMA DeadlineInv ==
    ASSUME CollectorConstants, CInv, NEW r \in Request, Deadline(r)
    PROVE  CInv'
BY QuietAnswer DEF Deadline

LEMMA SubmitInv ==
    ASSUME CollectorConstants, CInv, NEW r \in Request, NEW m \in Collection, NEW a \in Member,
           SubmitReceipt(r, m, a)
    PROVE  CInv'
<1> DEFINE p == [pc |-> "resolve", m |-> m, a |-> a, at |-> rcNow,
                 round |-> rcSource[m].round, expires |-> 0, before |-> 0]
<1>1. rcRequest[r].pc = "answered"
  BY DEF SubmitReceipt, At
<1>2. rcGate # r
  BY <1>1 DEF CInv, GateHeld, Holding
<1>3. /\ rcRequest' = [rcRequest EXCEPT ![r] = p]
      /\ UNCHANGED <<rcNow, rcSource, rcBatch, rcGate, rcStop>>
  BY DEF SubmitReceipt
<1>4. rcSource[m].round \in Nat /\ rcNow \in 0 .. rcNow
  BY SMTT(30) DEF CInv, Types
<1>5. UnderWay(p) /\ Informed(p) /\ ~Holding(p)
  BY SMTT(30), <1>4 DEF UnderWay, Step, Informed, Holding
<1> HIDE DEF p
<1> QED BY <1>2, <1>3, <1>5, QuietStep

\* What holds of requests that do not move, when the world around them does.
LEMMA WorldStep ==
    ASSUME CollectorConstants, CInv,
           UNCHANGED <<rcRequest, rcGate>>,
           rcNow' \in 0 .. MaxClock, rcNow <= rcNow', rcStop' \in {"no", "asked", "done"},
           rcSource' \in [Collection -> [round : Nat, expires : Nat]],
           \A m \in Collection : rcSource[m].round <= rcSource'[m].round,
           rcBatch' \in [Collection -> Batch],
           \A m \in Collection : rcBatch'[m] # NoBatch =>
              /\ rcBatch[m] # NoBatch
              /\ rcBatch'[m].round = rcBatch[m].round
              /\ \A a \in Member : rcBatch'[m].at[a] \in {NoEntry, rcBatch[m].at[a]},
           rcBatch' = rcBatch \/ rcGate = Free,
           rcStop' = "done" => Pending' = {} /\ rcGate = Free
    PROVE  CInv'
<1>1. Types /\ GateHeld /\ BatchesBehind /\ RequestsInformed /\ Room
  BY DEF CInv
<1>2. rcNow \in Nat /\ rcSource \in [Collection -> [round : Nat, expires : Nat]]
        /\ \A r \in Request : rcRequest[r] = Answered \/ UnderWay(rcRequest[r])
  BY SMTT(30), <1>1 DEF Types
<1>3. BatchesBehind' /\ Cardinality(Pending') <= Limit
  BY SMTT(30), Shrinking
<1>4. Types'
  <2>1. ASSUME NEW q, UnderWay(q)
        PROVE  q.pc # "complete" => q.at \in 0 .. rcNow'
    BY SMTT(30), <1>2, <2>1 DEF UnderWay
  <2>2. \A r \in Request : (rcRequest[r] = Answered \/ UnderWay(rcRequest[r]))'
    BY <1>2, <2>1 DEF UnderWay, Answered
  <2> QED BY <1>1, <2>2 DEF Types
<1>5. \A r \in Request : Holding(rcRequest[r]) => rcBatch' = rcBatch
  BY <1>1 DEF GateHeld, CollectorConstants
<1>6. GateHeld'
  BY <1>1 DEF GateHeld, Holding
<1>7. RequestsInformed'
  <2>1. ASSUME NEW r \in Request, rcRequest[r] # Answered
        PROVE  LET q == rcRequest[r]
               IN  /\ q.round <= rcSource'[q.m].round
                   /\ q.pc = "observe" => q.before <= rcSource'[q.m].round
                   /\ q.pc = "regate" => q.before <= q.round
                   /\ q.pc = "keep" => rcBatch'[q.m].round <= q.round
    <3>1. UnderWay(rcRequest[r]) /\ Informed(rcRequest[r])
      BY SMTT(30), <1>1, <1>2, <2>1 DEF RequestsInformed
    <3>2. rcRequest[r].m \in Collection /\ rcRequest[r].round \in Nat /\ rcRequest[r].before \in Nat
      BY <3>1 DEF UnderWay
    <3>3. rcSource[rcRequest[r].m].round \in Nat /\ rcSource'[rcRequest[r].m].round \in Nat
      BY <1>2, <3>2
    <3>4. rcRequest[r].pc = "keep" => rcBatch' = rcBatch
      BY SMTT(30), <1>5 DEF Holding
    <3> QED BY SMTT(30), <3>1, <3>2, <3>3, <3>4 DEF Informed
  <2> QED BY <2>1 DEF RequestsInformed, Informed, Answered
<1>8. Room'
  <2>1. ASSUME NEW r \in Request, Holding(rcRequest[r]), rcRequest[r].pc # "complete"
        PROVE  rcBatch'[rcRequest[r].m] # NoBatch \/ Cardinality(Pending') < Limit
    BY SMTT(30), <1>1, <1>5, <2>1 DEF Room, HasRoom, Pending
  <2> QED BY <1>3, <2>1 DEF Room, Holding, HasRoom, NoBatch, NoEntry
<1> QED BY <1>3, <1>4, <1>6, <1>7, <1>8 DEF CInv

LEMMA ExpireInv ==
    ASSUME CollectorConstants, CInv, Expire
    PROVE  CInv'
<1>1. /\ rcGate = Free /\ rcStop = "no" /\ rcBatch' = Pruned
      /\ UNCHANGED <<rcNow, rcSource, rcRequest, rcGate, rcStop>>
  BY DEF Expire
<1>2. Types
  BY DEF CInv
<1>3. /\ rcNow' \in 0 .. MaxClock /\ rcNow <= rcNow'
      /\ rcSource' \in [Collection -> [round : Nat, expires : Nat]]
      /\ \A m \in Collection : rcSource[m].round <= rcSource'[m].round
  BY SMTT(30), <1>1, <1>2 DEF Types, CollectorConstants
<1>4. \A m \in Collection : rcBatch'[m] \in Batch /\
        (rcBatch'[m] # NoBatch => /\ rcBatch[m] # NoBatch
                                  /\ rcBatch'[m].round = rcBatch[m].round
                                  /\ \A a \in Member : rcBatch'[m].at[a] \in {NoEntry, rcBatch[m].at[a]})
  BY <1>1, <1>2, Pruning
<1>5. rcBatch' \in [Collection -> Batch]
  BY <1>1, <1>4 DEF Pruned
<1> QED BY <1>1, <1>3, <1>4, <1>5, WorldStep

LEMMA ShutdownInv ==
    ASSUME CollectorConstants, CInv, Shutdown
    PROVE  CInv'
<1>1. /\ rcGate = Free /\ rcStop' = "done" /\ rcBatch' = [m \in Collection |-> NoBatch]
      /\ UNCHANGED <<rcNow, rcSource, rcRequest, rcGate>>
  BY DEF Shutdown
<1>2. /\ rcNow' \in 0 .. MaxClock /\ rcNow <= rcNow'
      /\ rcSource' \in [Collection -> [round : Nat, expires : Nat]]
      /\ \A m \in Collection : rcSource[m].round <= rcSource'[m].round
  BY SMTT(30), <1>1 DEF CInv, Types, CollectorConstants
<1>3. rcBatch' \in [Collection -> Batch] /\ \A m \in Collection : rcBatch'[m] = NoBatch
  BY <1>1, NoBatchTyped
<1>4. Pending' = {}
  BY <1>3 DEF Pending, NoBatch, NoEntry
<1> QED BY <1>1, <1>2, <1>3, <1>4, WorldStep

LEMMA ReplacedInv ==
    ASSUME CollectorConstants, CInv, Replaced
    PROVE  CInv'
<1>1. /\ rcStop' = "no" /\ rcBatch' = [m \in Collection |-> NoBatch] /\ rcGate' = Free
      /\ rcRequest' = [r \in Request |-> Answered] /\ UNCHANGED <<rcNow, rcSource>>
  BY DEF Replaced
<1>2. /\ rcNow' \in Nat /\ rcNow <= rcNow'
      /\ rcSource' \in [Collection -> [round : Nat, expires : Nat]]
      /\ \A m \in Collection : rcSource[m].round <= rcSource'[m].round
  BY SMTT(30), <1>1 DEF CInv, Types
<1>3. rcBatch' \in [Collection -> Batch] /\ \A m \in Collection : rcBatch'[m] = NoBatch
  BY <1>1, NoBatchTyped
<1>4. BatchesBehind' /\ Cardinality(Pending') <= Limit
  BY <1>2, <1>3, Shrinking
<1>5. \A r \in Request : rcRequest'[r] = Answered /\ ~Holding(rcRequest'[r])
  BY <1>1, AnsweredShape
<1>6. Types'
  BY <1>1, <1>3, <1>5 DEF CInv, Types, Answered
<1>7. GateHeld'
  BY <1>1, <1>5 DEF GateHeld, Holding, CollectorConstants
<1>8. RequestsInformed'
  BY <1>5 DEF RequestsInformed, Answered
<1>9. Room'
  BY <1>4, <1>5 DEF Room, Holding
<1> QED BY <1>4, <1>6, <1>7, <1>8, <1>9 DEF CInv

LEMMA AroundInv ==
    ASSUME CollectorConstants, CInv,
           AskStop \/ TimePasses \/ (\E m \in Collection : SourceMoves(m))
    PROVE  CInv'
<1>1. Types /\ GateHeld
  BY DEF CInv
<1>2. UNCHANGED <<rcBatch, rcRequest, rcGate>> /\ Pending' = Pending
  BY DEF AskStop, TimePasses, SourceMoves, Pending
<1>3. rcNow' \in 0 .. MaxClock /\ rcNow <= rcNow'
  BY SMTT(30), <1>1 DEF AskStop, TimePasses, SourceMoves, Types, CollectorConstants
<1>4. /\ rcSource' \in [Collection -> [round : Nat, expires : Nat]]
      /\ \A m \in Collection : rcSource[m].round <= rcSource'[m].round
  <2>1. CASE rcSource' = rcSource
    BY SMTT(30), <1>1, <2>1 DEF Types
  <2>2. CASE \E m \in Collection : SourceMoves(m)
    BY <1>1, <2>2, AdvancedTyped DEF SourceMoves
  <2> QED BY <2>1, <2>2 DEF AskStop, TimePasses
<1>5. rcStop' \in {"no", "asked", "done"} /\ (rcStop' = "done" => rcStop = "done")
  BY <1>1 DEF AskStop, TimePasses, SourceMoves, Types
<1>6. rcStop' = "done" => Pending' = {} /\ rcGate = Free
  BY <1>1, <1>2, <1>5 DEF GateHeld
<1>7. rcBatch \in [Collection -> Batch]
  BY <1>1 DEF Types
<1> QED BY <1>2, <1>3, <1>4, <1>5, <1>6, <1>7, WorldStep

LEMMA NextInv ==
    ASSUME CollectorConstants, CInv, [CollectorNext]_collectorVars
    PROVE  CInv'
<1>1. CASE UNCHANGED collectorVars
  <2>1. UNCHANGED <<rcNow, rcSource, rcBatch, rcRequest, rcGate, rcStop>>
    BY <1>1 DEF collectorVars
  <2> QED BY <2>1 DEF CInv, Types, UnderWay, GateHeld, Holding, Pending, BatchesBehind, Behind,
                      RequestsInformed, Informed, Room, HasRoom
<1>2. ASSUME NEW r \in Request, Serve(r)
      PROVE  CInv'
  BY <1>2, ResolveInv, EnterGateInv, ObserveInv, RejoinInv, KeepInv, CompleteInv DEF Serve
<1> QED BY SMTT(30), <1>1, <1>2, DeadlineInv, SubmitInv, ExpireInv, ShutdownInv, ReplacedInv,
           AroundInv
        DEF CollectorNext

LEMMA InitInv ==
    ASSUME CollectorConstants, CollectorInit
    PROVE  CInv
<1>1. rcBatch \in [Collection -> Batch] /\ \A m \in Collection : rcBatch[m] = NoBatch
  BY NoBatchTyped DEF CollectorInit
<1>2. Pending = {} /\ Cardinality(Pending) = 0
  BY <1>1, FS_EmptySet DEF Pending
<1>3. \A r \in Request : rcRequest[r] = Answered /\ ~Holding(rcRequest[r])
  BY AnsweredShape DEF CollectorInit
<1>4. Types
  BY SMTT(30), <1>1, <1>3 DEF Types, CollectorInit, CollectorConstants
<1>5. BatchesBehind
  BY SMTT(30), <1>1, NoBatchTyped DEF BatchesBehind, Behind, CollectorInit, NoEntry
<1> QED BY SMTT(30), <1>2, <1>3, <1>4, <1>5
        DEF CInv, GateHeld, RequestsInformed, Room, CollectorInit, CollectorConstants

\* The invariant holds in every reachable state of the collector.
THEOREM CollectorInvariant == CollectorSpec => []CInv
<1>1. CollectorInit => CInv
  BY CollectorAssumption, InitInv
<1>2. CInv /\ [CollectorNext]_collectorVars => CInv'
  BY CollectorAssumption, NextInv
<1> QED BY <1>1, <1>2, PTL DEF CollectorSpec

\* The collector never holds more than Limit collections (maxPending), nothing
\* after it has stopped, and no request leaves h.gate taken when it ends,
\* however many requests overlap and whenever the gate is let go between them.
THEOREM CollectorStaysBounded == CollectorSpec => []CollectorBounded
<1>1. CInv => CollectorBounded
  <2> SUFFICES ASSUME CInv PROVE CollectorBounded
    OBVIOUS
  <2>1. Types /\ GateHeld /\ Cardinality(Pending) <= Limit
    BY DEF CInv, Room
  <2>2. rcGate # Free => rcGate \in Request /\ Holding(rcRequest[rcGate])
    BY SMTT(30), <2>1 DEF Types, GateHeld
  <2> QED BY <2>1, <2>2 DEF CollectorBounded, GateHeld, Holding, At
<1> QED BY <1>1, CollectorInvariant, PTL

\* What a step may do to one batch.
Forward(m) ==
    rcBatch[m] # NoBatch /\ rcBatch'[m] # NoBatch =>
      /\ rcBatch'[m].round >= rcBatch[m].round
      /\ (m \in ReadOnly /\ rcBatch'[m].round = rcBatch[m].round) =>
            \A a \in Member : rcBatch'[m].at[a] \in {NoEntry} \cup rcBatch[m].at[a] .. MaxClock

LEMMA KeepForward ==
    ASSUME CollectorConstants, CInv, NEW r \in Request, Keep(r), NEW m \in Collection,
           m = rcRequest[r].m, rcBatch'[m] # NoBatch, rcBatch' # rcBatch
    PROVE  Forward(m)
<1> DEFINE q == rcRequest[r]
<1>1. q.pc = "keep"
  BY DEF Keep, At
<1>2. UnderWay(q) /\ rcBatch[m].round <= q.round
  BY <1>1, Asked DEF Informed
<1>3. Types /\ rcBatch \in [Collection -> Batch] /\ \A a \in Member : rcBatch[m].at[a] <= rcNow
  BY SMTT(30) DEF CInv, Types, BatchesBehind, Behind
<1>4. /\ Kept(q) \in Batch /\ Kept(q).round = q.round
      /\ \A a \in Member : Kept(q).at[a] <= rcNow
      /\ q.m \in ReadOnly /\ Fresh(q.at) /\ rcBatch[q.m].round = q.round =>
           \A a \in Member : Kept(q).at[a] = NoEntry \/ Kept(q).at[a] >= rcBatch[q.m].at[a]
  BY <1>1, <1>2, <1>3, Keeping
<1>5. rcBatch'[m] = Kept(q) /\ (m \in ReadOnly => Fresh(q.at))
  BY SMTT(30), <1>3 DEF Keep
<1>6. ASSUME m \in ReadOnly, rcBatch'[m].round = rcBatch[m].round, NEW a \in Member
      PROVE  rcBatch'[m].at[a] \in {NoEntry} \cup rcBatch[m].at[a] .. MaxClock
  <2>1. Kept(q).at[a] = NoEntry \/ Kept(q).at[a] >= rcBatch[m].at[a]
    BY <1>4, <1>5, <1>6
  <2>2. /\ Kept(q).at[a] \in Int /\ rcBatch[m].at[a] \in Int
        /\ rcNow \in 0 .. MaxClock /\ MaxClock \in Nat
    BY SMTT(30), <1>3, <1>4 DEF Batch, NoEntry, Types, CollectorConstants
  <2> HIDE DEF q
  <2> QED BY SMTT(30), <1>4, <1>5, <2>1, <2>2
<1> QED BY <1>2, <1>4, <1>5, <1>6 DEF Forward

LEMMA StepForward ==
    ASSUME CollectorConstants, CInv, CollectorNext, NEW m \in Collection
    PROVE  Forward(m)
<1>1. Types /\ rcNow \in 0 .. MaxClock /\ MaxClock \in Nat /\ rcBatch \in [Collection -> Batch]
        /\ \A a \in Member : rcBatch[m].at[a] <= rcNow
  BY DEF CInv, Types, BatchesBehind, Behind, CollectorConstants
<1>2. ASSUME rcBatch'[m] # NoBatch =>
                /\ rcBatch'[m].round = rcBatch[m].round
                /\ \A a \in Member : rcBatch'[m].at[a] \in {NoEntry, rcBatch[m].at[a]}
      PROVE  Forward(m)
  <2>1. \A a \in Member : rcBatch[m].at[a] \in Int
    BY SMTT(30), <1>1 DEF Batch, NoEntry
  <2>2. rcBatch[m].round \in Nat
    BY <1>1 DEF Batch
  <2> QED BY SMTT(30), <1>1, <1>2, <2>1, <2>2 DEF Forward
<1>3. CASE rcBatch' = rcBatch
  BY <1>2, <1>3
<1>4. CASE rcBatch' = Pruned
  BY <1>1, <1>2, <1>4, Pruning
<1>5. CASE rcBatch'[m] = NoBatch
  BY <1>2, <1>5
<1>6. ASSUME NEW r \in Request, Keep(r)
      PROVE  Forward(m)
  <2>1. CASE m = rcRequest[r].m
    BY <1>3, <1>5, <1>6, <2>1, KeepForward
  <2>2. CASE m # rcRequest[r].m
    <3>1. rcBatch'[m] = rcBatch[m]
      BY <1>1, <1>6, <2>2 DEF Keep
    <3> QED BY <1>2, <3>1
  <2> QED BY <2>1, <2>2
<1>7. ASSUME NEW r \in Request, CompleteBatch(r)
      PROVE  Forward(m)
  <2>1. rcBatch'[m] = rcBatch[m] \/ rcBatch'[m] = NoBatch
    BY <1>1, <1>7 DEF CompleteBatch
  <2> QED BY SMTT(30), <1>2, <2>1
<1>8. ASSUME NEW r \in Request, Serve(r) \/ Deadline(r)
      PROVE  Forward(m)
  <2>1. CASE Resolve(r) \/ ObserveReceipt(r) \/ Rejoin(r) \/ Deadline(r)
    BY <1>3, <2>1 DEF Resolve, ObserveReceipt, Rejoin, Deadline
  <2>2. CASE EnterGate(r)
    BY <1>3, <1>4, <2>2 DEF EnterGate
  <2> QED BY <1>6, <1>7, <1>8, <2>1, <2>2 DEF Serve
<1>9. CASE Expire
  BY <1>4, <1>9 DEF Expire
<1>10. CASE Shutdown \/ Replaced
  BY <1>5, <1>10 DEF Shutdown, Replaced
<1>11. CASE AskStop \/ TimePasses \/ (\E c \in Collection : SourceMoves(c))
            \/ (\E r \in Request, c \in Collection, a \in Member : SubmitReceipt(r, c, a))
  BY <1>3, <1>11 DEF AskStop, TimePasses, SourceMoves, SubmitReceipt
<1> QED BY <1>8, <1>9, <1>10, <1>11 DEF CollectorNext

\* A batch is never replaced by one of an earlier round, nor a retirement's
\* observation by an older one: what Keep adds was resolved against the source
\* after every batch the request noted, and is fresh where the old one is not.
THEOREM BatchesMoveForward == CollectorSpec => BatchMovesForward
<1> DEFINE A == \A m \in Collection : rcBatch[m] # NoBatch /\ rcBatch'[m] # NoBatch =>
         /\ rcBatch'[m].round >= rcBatch[m].round
         /\ (m \in ReadOnly /\ rcBatch'[m].round = rcBatch[m].round) =>
               \A a \in Member : rcBatch'[m].at[a] \in {NoEntry} \cup rcBatch[m].at[a] .. MaxClock
<1>1. CInv /\ [CollectorNext]_collectorVars => [A]_collectorVars
  BY CollectorAssumption, StepForward DEF Forward
<1> QED BY <1>1, CollectorInvariant, PTL DEF CollectorSpec, BatchMovesForward
=============================================================================
