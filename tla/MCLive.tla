------------------------------- MODULE MCLive -------------------------------
(* Progress, one behaviour for each "part": a handover of two Nodes that     *)
(* become each other's relay, under a drain that outlasts a round, so that   *)
(* it has to be renewed ("long"), and under a drain within a round, followed *)
(* by a successor ("brief"); and the removal of one of two workers           *)
(* ("removal").  The parts that a behaviour is not about stay as they were.  *)
EXTENDS HandoverLive

CONSTANTS x, y, w1, w2, s1
VARIABLES part,
    rcourse, rmesh, rinv, rclaim, rdrain, rintent, rjournal, rcall, rcol, rpub,
    ragent, rnative, rcheck, rboot, rfresh

\* Even generations relay y through x, odd ones x through y.
Swapping ==
    [g \in Gen |-> [n \in Node |->
        IF g % 2 = 0 THEN IF n = y THEN x ELSE Direct
                     ELSE IF n = x THEN y ELSE Direct]]

\* One of two joined workers is removed.
OneLeaves == {[joined |-> {w1, w2}, leaving |-> {w1}, publishing |-> {},
               restarting |-> {}, maintaining |-> {w1, w2, s1}, addresses |-> 0]}

Brief == INSTANCE HandoverLive WITH DrainInterval <- 1
Removal == INSTANCE RetirementLive WITH
    Worker <- {w1, w2}, Site <- {s1}, Courses <- OneLeaves,
    Finalize <- TRUE, Release <- TRUE, MaxAddress <- 0, MaxBoot <- 0,
    course <- rcourse, mesh <- rmesh, inv <- rinv, claim <- rclaim,
    drain <- rdrain, intent <- rintent, journal <- rjournal, call <- rcall,
    col <- rcol, pub <- rpub, agent <- ragent, native <- rnative,
    check <- rcheck, boot <- rboot, fresh <- rfresh

removalVars ==
    <<rcourse, rmesh, rinv, rclaim, rdrain, rintent, rjournal, rcall, rcol, rpub,
      ragent, rnative, rcheck, rboot, rfresh>>

LiveInit ==
    /\ part \in {"long", "brief", "removal"}
    /\ Init
    /\ Removal!Init

PartsNext ==
    /\ UNCHANGED part
    /\ \/ part = "long" /\ LiveNext /\ proposal' <= 1 /\ UNCHANGED removalVars
       \/ part = "brief" /\ Brief!LiveNext /\ UNCHANGED removalVars
       \/ part = "removal" /\ Removal!Next /\ UNCHANGED vars

\* Of the steps that are fair, only Complete depends on the policy.
PolicyComplete ==
    \/ part = "long" /\ Complete
    \/ part = "brief" /\ Brief!Complete

\* Agents poll forever, the controller's reconcile loop and collector run
\* forever, and time passes.
HandoverFairness ==
    /\ \A n \in Node :
          /\ WF_vars(part # "removal" /\ Admit(n))
          /\ WF_vars(part # "removal" /\ Works(n))
          /\ WF_vars(part # "removal" /\ Refused(n))
          /\ WF_vars(part # "removal" /\ Delivers(n))
          /\ WF_vars(part # "removal" /\ Rejects(n))
    /\ WF_vars(part # "removal" /\ CompleteRejected)
    /\ WF_vars(part # "removal" /\ RollBack)
    /\ WF_vars(part # "removal" /\ RenewRound)
    /\ WF_vars(part # "removal" /\ Passes)
    /\ WF_vars(PolicyComplete)

\* Reconcilers, the collector and the agents are requeued until they succeed,
\* so that each of their steps is weakly fair, and an agent's retirement
\* strongly: its other work alternates with it.
RemovalFairness ==
    /\ \A w \in {w1, w2} :
          /\ WF_removalVars(part = "removal" /\ Removal!Requested(w))
          /\ WF_removalVars(part = "removal" /\ Removal!Begins(w))
          /\ WF_removalVars(part = "removal" /\ Removal!Commits(w))
          /\ WF_removalVars(part = "removal" /\ Removal!Vanish(w))
          /\ WF_removalVars(part = "removal" /\ Removal!CollectorBegins(w))
          /\ WF_removalVars(part = "removal" /\ Removal!CollectorCommits(w))
    /\ WF_removalVars(part = "removal" /\ Removal!CommitRelease)
    /\ \A c \in {w1, w2, s1} :
          /\ WF_removalVars(part = "removal" /\ Removal!Passes(c))
          /\ \A w \in {w1, w2} :
                SF_removalVars(part = "removal" /\ Removal!BeginRetire(c, w))

PartsSpec ==
    /\ LiveInit
    /\ [][PartsNext]_<<vars, removalVars, part>>
    /\ HandoverFairness
    /\ RemovalFairness

\* Whatever rounds expired and whatever receipts were lost before, a handover
\* ends with one generation serving: it completes forward, or it is rolled
\* back and the rollback completes.
HandoverCompletes == []<>(part # "removal" => journal.complete)

\* With a drain that ends within its round, a round issued when faults and
\* delays are over is never rolled back, so that a transition begun by then
\* ends with its new generation serving: recovery only follows expiry.
BriefCandidateServes ==
    [][part = "brief" /\ journal.issued >= Stable => ~RollBack]_vars

\* A removal that was started ends with the worker's reservation released,
\* provided interrupted calls, restarts and aged receipts stop.
RemovalReleases == Removal!EventuallyReleased
=============================================================================
