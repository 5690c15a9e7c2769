---------------------------- MODULE HandoverLive ----------------------------
(***************************************************************************)
(* Progress of Handover.  The protocol promises nothing while receipts are *)
(* lost, agents fail or rounds expire faster than they can be executed.    *)
(* From time Stable on none of that happens: agents, collector and         *)
(* recovery act before the clock moves, and an execution is abandoned only *)
(* when a check of the code refuses it.  Before Stable anything goes.      *)
(***************************************************************************)
EXTENDS Handover

CONSTANT Stable     \* bound: first tick without faults and delays

ASSUME StableAssumption == Stable \in Nat

Works(n) ==
    \/ NativePrepare(n)
    \/ NativeSwitch(n)
    \/ NativeDrain(n)
    \/ NativeRetire(n)
    \/ NativeAbort(n)
    \/ Send(n)
    \/ Maintain(n)

Refused(n) == Abandon(n) /\ ~ENABLED Works(n)
Delivers(n) == \E r \in wire : r.node = n /\ Submit(r)
Rejects(n) == \E r \in wire : r.node = n /\ Lose(r) /\ ~ENABLED Submit(r)

\* Nothing of the protocol can be done before the clock moves.
Quiet ==
    /\ \A n \in Node : pc[n] = "idle"
    /\ wire = {}
    /\ ~Executable(journal)
    /\ ~Recovers(now)

Faults ==
    \/ \E n \in Node : Abandon(n)
    \/ \E r \in wire : Lose(r)
    \/ CollectorRestart

\* No step of a completed transition depends on time: the bounded clock is
\* kept for the next one.
Passes == Tick /\ ~journal.complete /\ (now < Stable \/ Quiet)

LiveNext ==
    \/ Passes
    \/ \E n \in Node : Admit(n) \/ Works(n) \/ Refused(n) \/ AdmitMaintenance(n)
    \/ \E n \in Node : Delivers(n) \/ Rejects(n)
    \/ Complete
    \/ CompleteRejected
    \/ RollBack
    \/ RenewRound
    \/ Propose
    \/ Succeed
    \/ Faults /\ now < Stable
=============================================================================
