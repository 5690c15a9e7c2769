--------------------------- MODULE RetirementLive ---------------------------
(***************************************************************************)
(* Progress of a removal: the steps of one reconciler, the collector or an *)
(* agent that are fair together, and what counts as a fault.  Interrupted  *)
(* calls, aged receipts and restarts may happen any number of times;       *)
(* progress is claimed for behaviours in which they stop.                  *)
(***************************************************************************)
EXTENDS Retirement

Overtaken(c) ==
    /\ agent[c].auth # inv.auth \/ agent[c].mesh # mesh.rv
    /\ Abandon(c)

Requested(w) == Drain(w) \/ Capture(w) \/ Fence(w)
Begins(w) == BeginReserve(w) \/ BeginWithdraw(w) \/ BeginTeardown(w)
Commits(w) == CommitReserve(w) \/ CommitWithdraw(w) \/ CommitTeardown(w)
CollectorBegins(w) == BeginComplete(w) \/ BeginFinalize(w) \/ BeginRelease(w)
CollectorCommits(w) == CommitComplete(w) \/ CommitFinalize(w)
Passes(c) == Maintain(c) \/ Clean(c) \/ SendReceipts(c) \/ Overtaken(c)

Fault ==
    \/ \E w \in Worker : DropCall(w)
    \/ DropCollector
    \/ \E c \in Consumer : Restart(c) \/ Reboot(c)
    \/ \E c \in Consumer : Abandon(c) /\ ~Maintain(c) /\ ~SendReceipts(c) /\ ~Overtaken(c)
    \/ \E r \in fresh : Age(r)

\* A removal that was started ends with the worker's reservation released,
\* provided faults stop: no stage of the removal, the collection and the
\* native retirements waits for another one that waits for it.
EventuallyReleased ==
    <>[][~Fault]_vars =>
        []<>(\A w \in Worker : claim[w] \in {"removal", "teardown", "gone"} =>
                inv.rec[w].stage = "released")
=============================================================================
