-------------------------- MODULE ReceiptCollector --------------------------
(***************************************************************************)
(* The receipt collector of the controller (pkg/handover,                  *)
(* receipt_transport.go): concurrent requests, each with one agent's       *)
(* observation, admitted to a bounded number of slots, resolved against    *)
(* the live source, authenticated, and gathered per machine until every    *)
(* member has been heard.  One gate guards the batches; a retirement       *)
(* collection lets it go while it authenticates, a handover collection     *)
(* keeps it.  The source is what the callbacks read and write through the  *)
(* API: a round number that only grows.  TLS, tokens and request bodies    *)
(* are exact in every behaviour and left out.                              *)
(***************************************************************************)
EXTENDS Integers, FiniteSets

LOCAL INSTANCE FiniteSetsExt
LOCAL INSTANCE Functions

CONSTANTS
    Request,        \* the admission slots
    Collection,     \* machines under collection
    ReadOnly,       \* those with ReadOnlyObserve (retirements)
    Member,         \* agents each collection needs
    Limit,          \* maxPending
    MaxAge,         \* how long an observation counts, and a retirement's window
    MaxClock,       \* bound: clock
    MaxRound,       \* bound: rounds of one source
    MaxSubmit,      \* bound: requests
    MaxFault        \* bound: refused commits, deadlines, stops, others' writes

VARIABLES
    rcNow,       \* time
    rcSource,    \* Collection -> [round, expires] of the authoritative state
    rcBatch,     \* h.batches: Collection -> batch, or NoBatch
    rcRequest,   \* Request -> its progress
    rcGate,      \* the request that holds h.gate, or Free
    rcStop,      \* "no", "asked" (the context is done) or "done" (h.stopped)
    rcSubmitted,
    rcFaults

collectorVars == <<rcNow, rcSource, rcBatch, rcRequest, rcGate, rcStop, rcSubmitted, rcFaults>>

Free == "free"

\* Slots are not the free gate, and a controller has finitely many collections.
CollectorConstants ==
    /\ Free \notin Request /\ IsFiniteSet(Collection)
    /\ Limit \in Nat /\ MaxAge \in Nat /\ MaxClock \in Nat

ASSUME CollectorAssumption == CollectorConstants

NoEntry == -1
NoBatch == [round |-> 0, expires |-> 0, at |-> [a \in Member |-> NoEntry]]
Answered == [pc |-> "answered"]
Pending == {m \in Collection : rcBatch[m] # NoBatch}
Fresh(at) == rcNow < at + MaxAge

\* receiptBatch.prune, and the batches left without entries go.
PruneBatch(b) ==
    LET at == [a \in Member |-> IF b.at[a] # NoEntry /\ Fresh(b.at[a]) THEN b.at[a] ELSE NoEntry]
    IN  IF rcNow < b.expires /\ \E a \in Member : at[a] # NoEntry
        THEN [b EXCEPT !.at = at] ELSE NoBatch
Pruned == [m \in Collection |-> PruneBatch(rcBatch[m])]

\* The deferred releases: the slot and, if the request has it, the gate.
Answer(r) ==
    /\ rcRequest' = [rcRequest EXCEPT ![r] = Answered]
    /\ rcGate' = IF rcGate = r THEN Free ELSE rcGate

Goto(r, pc) == rcRequest' = [rcRequest EXCEPT ![r].pc = pc]
Fault == rcFaults < MaxFault /\ rcFaults' = rcFaults + 1
At(r, pc) == rcRequest[r].pc = pc

-----------------------------------------------------------------------------
(* ServeHTTP                                                                *)

\* An agent submits what it observes now (ReceiptClient.Submit).  The request is
\* on its way, or told to try again, for as long as it takes: it is admitted
\* late and after younger ones, or with a second delivery of the same.
SubmitReceipt(r, m, a) ==
    /\ rcSubmitted < MaxSubmit /\ rcSubmitted' = rcSubmitted + 1
    /\ \E s \in Request : At(s, "answered")
    /\ r = CHOOSE s \in Request : At(s, "answered")
    /\ rcStop # "done" /\ rcSource[m].round <= MaxRound
    /\ rcRequest' = [rcRequest EXCEPT ![r] =
                       [pc |-> "resolve", m |-> m, a |-> a, at |-> rcNow,
                        round |-> rcSource[m].round, expires |-> 0, before |-> 0]]
    /\ UNCHANGED <<rcNow, rcSource, rcBatch, rcGate, rcStop, rcFaults>>

\* h.resolve reads the source.  A request about another round than it finds
\* gets no time, and fails under the gate.
Resolve(r) ==
    /\ At(r, "resolve")
    /\ LET q == rcRequest[r]
           src == rcSource[q.m]
       IN  IF src.round <= MaxRound
           THEN /\ rcRequest' = [rcRequest EXCEPT
                      ![r].pc = "gate",
                      ![r].expires = IF src.round # q.round THEN 0
                                     ELSE IF q.m \in ReadOnly THEN rcNow + MaxAge
                                     ELSE src.expires]
                /\ UNCHANGED rcGate
           ELSE Answer(r)
    /\ UNCHANGED <<rcNow, rcSource, rcBatch, rcStop, rcSubmitted, rcFaults>>

\* Under the gate: shutdown, pruning, binding and capacity.  A retirement's
\* request notes the batch and lets the gate go again.
EnterGate(r) ==
    /\ At(r, "gate") /\ rcGate = Free
    /\ LET q == rcRequest[r]
           full == {m \in Collection : Pruned[m] # NoBatch}
       IN  IF rcStop = "done" THEN Answer(r) /\ UNCHANGED rcBatch
           ELSE /\ rcBatch' = Pruned
                /\ IF rcNow < q.expires /\ (Pruned[q.m] = NoBatch => Cardinality(full) < Limit)
                   THEN /\ rcRequest' = [rcRequest EXCEPT ![r].pc = "observe",
                                                          ![r].before = IF q.m \in ReadOnly THEN Pruned[q.m].round ELSE 0]
                        /\ rcGate' = IF q.m \in ReadOnly THEN Free ELSE r
                   ELSE Answer(r)
    /\ UNCHANGED <<rcNow, rcSource, rcStop, rcSubmitted, rcFaults>>

\* An observation counts while it is fresh and, in a handover, its round lasts.
Valid(q) == Fresh(q.at) /\ (q.m \in ReadOnly \/ rcNow < q.expires)

\* Observe authenticates the observation against the live source.
ObserveReceipt(r) ==
    /\ At(r, "observe")
    /\ LET q == rcRequest[r]
       IN  IF rcSource[q.m].round = q.round /\ Valid(q)
           THEN Goto(r, IF q.m \in ReadOnly THEN "regate" ELSE "keep") /\ UNCHANGED rcGate
           ELSE Answer(r)
    /\ UNCHANGED <<rcNow, rcSource, rcBatch, rcStop, rcSubmitted, rcFaults>>

\* Mutant of Rejoin: capacity is not looked at again.
RejoinUncounted(r) ==
    /\ At(r, "regate") /\ rcGate = Free
    /\ LET q == rcRequest[r]
           current == rcBatch[q.m]
       IN  IF /\ rcStop # "done"
              /\ current # NoBatch => current.round \in {q.round, q.before}
              /\ rcNow < q.expires
           THEN rcGate' = r /\ Goto(r, "keep")
           ELSE Answer(r)
    /\ UNCHANGED <<rcNow, rcSource, rcBatch, rcStop, rcSubmitted, rcFaults>>

\* The gate again: everything that may have changed is checked again.
Rejoin(r) ==
    /\ At(r, "regate") /\ rcGate = Free
    /\ LET q == rcRequest[r]
           current == rcBatch[q.m]
       IN  IF /\ rcStop # "done"
              /\ current = NoBatch => Cardinality(Pending) < Limit
              /\ current # NoBatch => current.round \in {q.round, q.before}
              /\ rcNow < q.expires
           THEN rcGate' = r /\ Goto(r, "keep")
           ELSE Answer(r)
    /\ UNCHANGED <<rcNow, rcSource, rcBatch, rcStop, rcSubmitted, rcFaults>>

\* Mutant of Kept: the observation that arrives last stays.
KeptLast(q) ==
    LET old == rcBatch[q.m]
        batch == IF old.round = q.round THEN old ELSE [NoBatch EXCEPT !.round = q.round]
        late == q.m \in ReadOnly /\ q.expires <= batch.expires
        open == [batch EXCEPT !.expires = IF late THEN @ ELSE q.expires]
        at == [a \in Member |-> IF Fresh(open.at[a]) THEN open.at[a] ELSE NoEntry]
    IN  [open EXCEPT !.at = [at EXCEPT ![q.a] = q.at]]

\* The batch with the observation added, unless a later one is there already.
Kept(q) ==
    LET old == rcBatch[q.m]
        batch == IF old.round = q.round THEN old ELSE [NoBatch EXCEPT !.round = q.round]
        late == q.m \in ReadOnly /\ q.expires <= batch.expires
        open == [batch EXCEPT !.expires = IF late THEN @ ELSE q.expires]
        at == [a \in Member |-> IF Fresh(open.at[a]) THEN open.at[a] ELSE NoEntry]
    IN  [open EXCEPT !.at = [at EXCEPT ![q.a] =
                               IF q.m \in ReadOnly /\ q.at < at[q.a] THEN at[q.a] ELSE q.at]]

\* The observation is retained; a full batch goes on to be committed, as old as
\* its oldest observation, and a handover's leaves memory first.
Keep(r) ==
    /\ At(r, "keep") /\ rcGate = r
    /\ LET q == rcRequest[r]
           batch == Kept(q)
           whole == \A a \in Member : batch.at[a] # NoEntry
       IN  \/ /\ rcNow >= batch.expires
              /\ rcBatch' = [rcBatch EXCEPT ![q.m] = NoBatch] /\ Answer(r)
           \/ /\ rcNow < batch.expires /\ q.m \in ReadOnly /\ ~Fresh(q.at)
              /\ Answer(r) /\ UNCHANGED rcBatch
           \/ /\ rcNow < batch.expires /\ (q.m \in ReadOnly => Fresh(q.at))
              /\ rcBatch' = [rcBatch EXCEPT ![q.m] = IF whole /\ q.m \notin ReadOnly
                                                     THEN NoBatch ELSE batch]
              /\ IF whole
                 THEN /\ rcRequest' = [rcRequest EXCEPT ![r].pc = "complete",
                                                        ![r].at = Min(Range(batch.at))]
                      /\ UNCHANGED rcGate
                 ELSE Answer(r)
    /\ UNCHANGED <<rcNow, rcSource, rcStop, rcSubmitted, rcFaults>>

\* The next round; a retirement's window is its requests' own.
Advanced(m) ==
    [round |-> rcSource[m].round + 1, expires |-> IF m \in ReadOnly THEN 0 ELSE rcNow + MaxAge]

\* Complete commits to the source it was resolved from.  A retirement that is
\* recorded may stay open for fresher evidence; a refused commit keeps its batch.
CompleteBatch(r) ==
    /\ At(r, "complete")
    /\ LET q == rcRequest[r]
       IN  \/ /\ rcSource[q.m].round = q.round /\ Valid(q)
              /\ rcBatch' = [rcBatch EXCEPT ![q.m] = NoBatch]
              /\ \/ rcSource' = [rcSource EXCEPT ![q.m] = Advanced(q.m)]
                 \/ q.m \in ReadOnly /\ UNCHANGED rcSource
              /\ UNCHANGED rcFaults
           \/ /\ rcSource[q.m].round # q.round \/ ~Valid(q)
              /\ UNCHANGED <<rcSource, rcBatch, rcFaults>>
           \/ /\ rcSource[q.m].round = q.round /\ Valid(q) /\ Fault
              /\ UNCHANGED <<rcSource, rcBatch>>
    /\ Answer(r)
    /\ UNCHANGED <<rcNow, rcStop, rcSubmitted>>

\* ReceiptRequestTimeout: every wait and every call ends with the request's
\* deadline, or with the connection.
Deadline(r) ==
    /\ rcRequest[r].pc \in {"resolve", "gate", "observe", "regate"}
    /\ Fault /\ Answer(r)
    /\ UNCHANGED <<rcNow, rcSource, rcBatch, rcStop, rcSubmitted>>

Serve(r) == \/ Resolve(r) \/ EnterGate(r) \/ ObserveReceipt(r) \/ Rejoin(r) \/ Keep(r) \/ CompleteBatch(r)

-----------------------------------------------------------------------------
(* Run, and what happens around the collector.                              *)

\* The ticker skips its turn when the gate is taken.
Expire ==
    /\ rcGate = Free /\ rcStop = "no" /\ Pruned # rcBatch
    /\ rcBatch' = Pruned
    /\ UNCHANGED <<rcNow, rcSource, rcRequest, rcGate, rcStop, rcSubmitted, rcFaults>>

\* The controller stops or loses its lease.
AskStop ==
    /\ rcStop = "no" /\ rcStop' = "asked" /\ Fault
    /\ UNCHANGED <<rcNow, rcSource, rcBatch, rcRequest, rcGate, rcSubmitted>>

Shutdown ==
    /\ rcStop = "asked" /\ rcGate = Free
    /\ rcStop' = "done" /\ rcBatch' = [m \in Collection |-> NoBatch]
    /\ UNCHANGED <<rcNow, rcSource, rcRequest, rcGate, rcSubmitted, rcFaults>>

\* Another process takes over, with nothing in memory.
Replaced ==
    /\ Fault /\ rcStop' = "no" /\ rcBatch' = [m \in Collection |-> NoBatch]
    /\ rcRequest' = [r \in Request |-> Answered] /\ rcGate' = Free
    /\ UNCHANGED <<rcNow, rcSource, rcSubmitted>>

\* Others move the source: another controller's collector, a renewal, a write
\* to the inventory.
SourceMoves(m) ==
    /\ rcSource[m].round <= MaxRound /\ Fault
    /\ rcSource' = [rcSource EXCEPT ![m] = Advanced(m)]
    /\ UNCHANGED <<rcNow, rcBatch, rcRequest, rcGate, rcStop, rcSubmitted>>

TimePasses ==
    /\ rcNow < MaxClock /\ rcNow' = rcNow + 1
    /\ UNCHANGED <<rcSource, rcBatch, rcRequest, rcGate, rcStop, rcSubmitted, rcFaults>>

CollectorInit ==
    /\ rcNow = 0 /\ rcSource = [m \in Collection |-> 
                     [round |-> 1, expires |-> IF m \in ReadOnly THEN 0 ELSE MaxAge]]
    /\ rcBatch = [m \in Collection |-> NoBatch]
    /\ rcRequest = [r \in Request |-> Answered] /\ rcGate = Free
    /\ rcStop = "no" /\ rcSubmitted = 0 /\ rcFaults = 0

CollectorNext ==
    \/ \E r \in Request : Serve(r) \/ Deadline(r)
    \/ \E r \in Request, m \in Collection, a \in Member : SubmitReceipt(r, m, a)
    \/ \E m \in Collection : SourceMoves(m)
    \/ Expire \/ AskStop \/ Shutdown \/ Replaced \/ TimePasses

CollectorSpec == CollectorInit /\ [][CollectorNext]_collectorVars

-----------------------------------------------------------------------------
(* Properties.                                                              *)

\* However requests overlap while the gate is free, the collector never holds
\* more collections than it may, and nothing it was sent once it has stopped;
\* and no request leaves the gate taken behind it, which Run waits for to stop.
CollectorBounded ==
    /\ Cardinality(Pending) <= Limit
    /\ rcGate # Free => ~At(rcGate, "answered")
    /\ rcStop = "done" => Pending = {}

\* A batch is never replaced by one of an earlier round, nor an agent's
\* retirement observation by an older one, by whatever was resolved or
\* observed before and delivered after.
BatchMovesForward ==
    [][\A m \in Collection : rcBatch[m] # NoBatch /\ rcBatch'[m] # NoBatch =>
         /\ rcBatch'[m].round >= rcBatch[m].round
         /\ (m \in ReadOnly /\ rcBatch'[m].round = rcBatch[m].round) =>
               \A a \in Member : rcBatch'[m].at[a] \in {NoEntry} \cup rcBatch[m].at[a] .. MaxClock
      ]_collectorVars
=============================================================================
