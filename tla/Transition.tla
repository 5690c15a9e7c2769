----------------------------- MODULE Transition -----------------------------
(***************************************************************************)
(* The generation-handover history of controller/pkg/handover: rounds,     *)
(* receipts and the four journal events, as functions from one verified    *)
(* View to the next.  The code replays the whole event list on every load; *)
(* a View is all that the replay depends on afterwards, so a journal is    *)
(* represented by its View, the time of its last event and the number of   *)
(* rounds it has issued (the nonce, which is never used twice).            *)
(*                                                                         *)
(* A member stands for one participating Node: its agent sends the         *)
(* receipts of all its devices in one request.  Keys, plan hashes and      *)
(* identities that a round binds are exact in every behaviour and are      *)
(* carried by the nonce.  Time is in ticks of one shared clock, from 1.    *)
(***************************************************************************)
EXTENDS Integers

CONSTANTS
    Node,           \* the participants of the transition
    RoundLifetime,  \* Policy.RoundLifetime
    MaxReceiptAge,  \* Policy.MaxReceiptAge
    DrainInterval,  \* Policy.DrainInterval
    MaxGen          \* bound: generations ever introduced

ASSUME NodeAssumption == Node # {}
\* View, transition.go:102; nothing relates DrainInterval to RoundLifetime.
ASSUME PolicyAssumption ==
    /\ RoundLifetime \in Nat \ {0}
    /\ MaxReceiptAge \in Nat \ {0}
    /\ DrainInterval \in Nat \ {0}
    /\ MaxReceiptAge <= RoundLifetime

ASSUME MaxGenAssumption == MaxGen \in Nat \ {0}

\* Generation 0 is the legacy root's; every later one is a fresh identity.
Gen == 0 .. MaxGen

Never == 0
Phase == {"prepare", "switch", "drain", "retire", "abort"}
Receipt == [node : Node, boot : Nat, nonce : Nat, at : Nat]

Journal ==
    [from : Gen, to : Gen, phase : Phase, rollback : BOOLEAN, nonce : Nat,
     issued : Nat, expires : Nat, drainUntil : Nat, last : Nat,
     complete : BOOLEAN, observed : SUBSET Receipt]

\* The View after an event at time "at" whose Next is a fresh round.
NewRound(from, to, phase, rollback, nonce, drainUntil, at) ==
    [from |-> from, to |-> to, phase |-> phase, rollback |-> rollback,
     nonce |-> nonce, issued |-> at, expires |-> at + RoundLifetime,
     drainUntil |-> drainUntil, last |-> at, complete |-> FALSE,
     observed |-> {}]

NewTransition(from, to, nonce, at) ==
    NewRound(from, to, "prepare", FALSE, nonce, Never, at)

\* A round admits receipts and native work from IssuedAt up to ExpiresAt.
Current(j, at) == j.issued <= at /\ at < j.expires

\* Mutant of Chronology: an event has to be later than the one before it.
ChronologyStrict(j, at) == ~j.complete /\ at > j.last /\ at >= j.issued
Chronology(j, at) == ~j.complete /\ at >= j.last /\ at >= j.issued

ValidReceipt(j, at, r) ==
    /\ r.nonce = j.nonce
    /\ j.issued <= r.at
    /\ r.at <= at
    /\ at - r.at <= MaxReceiptAge

ObservedOf(j, n) == {r \in j.observed : r.node = n}

CanObserve(j, at, r) ==
    /\ Chronology(j, at)
    /\ Current(j, at)
    /\ ValidReceipt(j, at, r)
    /\ \A old \in ObservedOf(j, r.node) : old.at <= r.at

Observe(j, at, r) ==
    [from |-> j.from, to |-> j.to, phase |-> j.phase,
     rollback |-> j.rollback, nonce |-> j.nonce, issued |-> j.issued,
     expires |-> j.expires, drainUntil |-> j.drainUntil, last |-> at,
     complete |-> FALSE,
     observed |-> (j.observed \ ObservedOf(j, r.node)) \cup {r}]

\* R holds exactly one receipt of every member.
CompleteSet(R) ==
    /\ \A n \in Node : \E r \in R : r.node = n
    /\ \A r, s \in R : r.node = s.node => r = s

\* Mutant of CanAdvance: some member's receipt is enough.
CanAdvancePartial(j, at, R) ==
    /\ Chronology(j, at)
    /\ Current(j, at)
    /\ R # {}
    /\ \A r \in R : ValidReceipt(j, at, r)
    /\ j.phase = "drain" => j.drainUntil # Never /\ at >= j.drainUntil
CanAdvance(j, at, R) ==
    /\ Chronology(j, at)
    /\ Current(j, at)
    /\ CompleteSet(R)
    /\ \A r \in R : ValidReceipt(j, at, r)
    /\ j.phase = "drain" =>
          /\ j.drainUntil # Never
          /\ at >= j.drainUntil
          /\ \A r \in R : r.at >= j.drainUntil

Finish(j, at) ==
    [from |-> j.from, to |-> j.to, phase |-> j.phase,
     rollback |-> j.rollback, nonce |-> j.nonce, issued |-> j.issued,
     expires |-> j.expires, drainUntil |-> j.drainUntil, last |-> at,
     complete |-> TRUE, observed |-> {}]

\* Mutant of Advance: retirement is authorized by the switch receipts.
AdvanceSkipsDrain(j, at) ==
    CASE j.phase = "prepare" ->
            NewRound(j.from, j.to, "switch", j.rollback, j.nonce + 1,
                     j.drainUntil, at)
      [] j.phase = "switch" ->
            NewRound(j.from, j.to, "retire", j.rollback, j.nonce + 1,
                     at + DrainInterval, at)
      [] OTHER -> Finish(j, at)
\* Mutant of Advance: the drain starts when the switch round would expire.
AdvanceDrainsLate(j, at) ==
    CASE j.phase = "prepare" ->
            NewRound(j.from, j.to, "switch", j.rollback, j.nonce + 1,
                     j.drainUntil, at)
      [] j.phase = "switch" ->
            NewRound(j.from, j.to, "drain", j.rollback, j.nonce + 1,
                     j.expires + DrainInterval, at)
      [] j.phase = "drain" ->
            NewRound(j.from, j.to, "retire", j.rollback, j.nonce + 1,
                     j.drainUntil, at)
      [] OTHER -> Finish(j, at)
Advance(j, at) ==
    CASE j.phase = "prepare" ->
            NewRound(j.from, j.to, "switch", j.rollback, j.nonce + 1,
                     j.drainUntil, at)
      [] j.phase = "switch" ->
            NewRound(j.from, j.to, "drain", j.rollback, j.nonce + 1,
                     at + DrainInterval, at)
      [] j.phase = "drain" ->
            NewRound(j.from, j.to, "retire", j.rollback, j.nonce + 1,
                     j.drainUntil, at)
      [] OTHER -> Finish(j, at)

\* Mutant of CanRollback: retirement can be rolled back too.
CanRollbackRetire(j, at) ==
    Chronology(j, at) /\ ~j.rollback /\ j.phase # "abort"
CanRollback(j, at) ==
    /\ Chronology(j, at)
    /\ ~j.rollback
    /\ j.phase \in {"prepare", "switch", "drain"}

Rollback(j, at) ==
    IF j.phase = "prepare"
    THEN NewRound(j.from, j.to, "abort", TRUE, j.nonce + 1, Never, at)
    ELSE NewRound(j.to, j.from, "switch", TRUE, j.nonce + 1, Never, at)

CanRenew(j, at) == Chronology(j, at) /\ at >= j.expires

Renew(j, at) ==
    NewRound(j.from, j.to, j.phase, j.rollback, j.nonce + 1,
             j.drainUntil, at)

\* ServingGeneration, once complete.
Serving(j) == IF j.phase = "abort" THEN j.from ELSE j.to
\* The generation the completed transition removed.
Removed(j) == IF j.phase = "abort" THEN j.to ELSE j.from
\* ReceiverGeneration of the plan: the generation this transition introduced.
Candidate(j) == IF j.rollback /\ j.phase # "abort" THEN j.from ELSE j.to
=============================================================================
