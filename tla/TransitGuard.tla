---------------------------- MODULE TransitGuard ----------------------------
(***************************************************************************)
(* The routing fallback of a transit-only agent upgrade                    *)
(* (pkg/transitguard, cmd/transit-guard): prepare captures the transit     *)
(* routes and their lookup rules, install copies them into a shadow table  *)
(* one priority later, the old agent, which takes its rules away when it   *)
(* exits, is replaced, and remove withdraws the copy.  Commands are        *)
(* processes that may be killed; each netlink change is a step of its own. *)
(* The kernel's tables, the agents, the operator and other writers of the  *)
(* shadow table are external.                                              *)
(***************************************************************************)
EXTENDS Integers, FiniteSets

CONSTANTS
    Prefix,         \* destinations of the transit routes
    Family,         \* the two IP families
    FamilyOf,       \* Prefix -> Family
    Relay,          \* next hops of transit routes
    MaxTransitFault \* bound: killed commands, failed calls and foreign entries

NoRoute == "none"
Foreign == "foreign"

ASSUME TransitAssumption ==
    /\ FamilyOf \in [Prefix -> Family]
    /\ Prefix # {} /\ {NoRoute, Foreign} \cap Relay = {}
    /\ MaxTransitFault \in Nat

VARIABLES
    tgTunnel,       \* whether the owned tunnel interface exists; placement is frozen
    tgPlan,         \* the plan file: absent, torn or saved with the captured routes
    tgRules,        \* families whose source lookup rule is installed
    tgRoutes,       \* source table: Prefix -> next hop
    tgShadowRules,  \* Family -> owners of rules on the shadow priority or table
    tgShadow,       \* shadow table: Prefix -> next hop
    tgRun,          \* the running command and what it added or has yet to delete
    tgAgent,        \* the agent being replaced
    tgEvidence,     \* the operator has recorded a successful verification
    tgFaults

transitTables == <<tgRules, tgRoutes, tgShadowRules, tgShadow>>
transitVars == <<tgTunnel, tgPlan, transitTables, tgRun, tgAgent, tgEvidence, tgFaults>>

NoPlan == [stage |-> "absent", routes |-> [p \in Prefix |-> NoRoute]]
Idle == [cmd |-> "none", pc |-> "idle", rules |-> {}, routes |-> {}]
Start(cmd) == [cmd |-> cmd, pc |-> "source", rules |-> {}, routes |-> {}]
Empty == [p \in Prefix |-> NoRoute]

\* Observe: the tunnel is absent, there are routes, and each family has its rule.
Observe == ~tgTunnel /\ tgRoutes # Empty /\ tgRules = Family
unchanged == Observe /\ tgRoutes = tgPlan.routes
Planned == {p \in Prefix : tgPlan.routes[p] # NoRoute}
occupied == tgShadow # Empty \/ \E f \in Family : tgShadowRules[f] # {}

sameRoutes ==
    /\ tgShadow = tgPlan.routes
    /\ \A f \in Family : tgShadowRules[f] = {"ours"}

\* Mutant of subsetRoutes: cleanup starts from the complete fallback only.
subsetWhole == sameRoutes

\* Nothing but entries of the plan: what an interrupted command leaves behind.
subsetRoutes ==
    /\ \A p \in Prefix : tgShadow[p] \in {NoRoute, tgPlan.routes[p]}
    /\ \A f \in Family : Foreign \notin tgShadowRules[f]

Running(cmd, pc) == tgRun.cmd = cmd /\ tgRun.pc = pc
Fault == tgFaults < MaxTransitFault /\ tgFaults' = tgFaults + 1
Continue(pc) == tgRun' = [tgRun EXCEPT !.pc = pc]

\* run: every command but prepare needs a saved plan.  The operator installs
\* and verifies before the old agent is stopped, and may give up or clean up at
\* any time but while it is stopping; earlier evidence is void from then on.
StartInstall ==
    /\ tgRun = Idle /\ tgPlan.stage = "saved" /\ tgAgent = "old"
    /\ \E cmd \in {"install", "verify"} : tgRun' = Start(cmd)
    /\ UNCHANGED <<tgTunnel, tgPlan, transitTables, tgAgent, tgEvidence, tgFaults>>

StartRemove ==
    /\ tgRun = Idle /\ tgPlan.stage = "saved" /\ tgAgent # "stopping"
    /\ tgRun' = Start("remove")
    /\ tgEvidence' = FALSE
    /\ UNCHANGED <<tgTunnel, tgPlan, transitTables, tgAgent, tgFaults>>

\* prepare: the file is created exclusively, then written; it may be torn.
Prepare ==
    /\ tgRun = Idle /\ tgPlan.stage = "absent" /\ Observe
    /\ \/ tgPlan' = [stage |-> "saved", routes |-> tgRoutes] /\ UNCHANGED tgFaults
       \/ tgPlan' = [tgPlan EXCEPT !.stage = "torn"] /\ Fault
    /\ UNCHANGED <<tgTunnel, transitTables, tgRun, tgAgent, tgEvidence>>

-----------------------------------------------------------------------------
(* Install                                                                  *)

\* A failure after the first addition undoes the successful ones.
Fail == Continue("undo")

InstallChecks ==
    /\ Running("install", "source")
    /\ IF unchanged THEN Continue("occupied") ELSE tgRun' = Idle
    /\ UNCHANGED <<tgTunnel, tgPlan, transitTables, tgAgent, tgEvidence, tgFaults>>

InstallRequiresEmpty ==
    /\ Running("install", "occupied")
    /\ IF occupied THEN tgRun' = Idle ELSE Continue("add")
    /\ UNCHANGED <<tgTunnel, tgPlan, transitTables, tgAgent, tgEvidence, tgFaults>>

AddRoute(p) ==
    /\ Running("install", "add") /\ p \in Planned \ tgRun.routes
    /\ \/ /\ tgShadow[p] = NoRoute
          /\ tgShadow' = [tgShadow EXCEPT ![p] = tgPlan.routes[p]]
          /\ tgRun' = [tgRun EXCEPT !.routes = @ \cup {p}]
          /\ UNCHANGED tgFaults
       \/ /\ tgShadow[p] # NoRoute /\ Fail /\ UNCHANGED <<tgShadow, tgFaults>>
       \/ /\ tgShadow[p] = NoRoute /\ Fail /\ Fault /\ UNCHANGED tgShadow
    /\ UNCHANGED <<tgTunnel, tgPlan, tgRules, tgRoutes, tgShadowRules, tgAgent, tgEvidence>>

\* Rules follow once every route is in place.
AddRule(f) ==
    /\ Running("install", "add") /\ Planned \subseteq tgRun.routes /\ f \in Family \ tgRun.rules
    /\ \/ /\ "ours" \notin tgShadowRules[f]
          /\ tgShadowRules' = [tgShadowRules EXCEPT ![f] = @ \cup {"ours"}]
          /\ tgRun' = [tgRun EXCEPT !.rules = @ \cup {f}]
          /\ UNCHANGED tgFaults
       \/ Fail /\ Fault /\ UNCHANGED tgShadowRules
    /\ UNCHANGED <<tgTunnel, tgPlan, tgRules, tgRoutes, tgShadow, tgAgent, tgEvidence>>

\* Install ends with Verify: the source first, then the copy.
InstallVerifies ==
    /\ \/ /\ Running("install", "add") /\ Planned \subseteq tgRun.routes /\ Family \subseteq tgRun.rules
          /\ IF unchanged THEN Continue("shadow") ELSE Fail
       \/ /\ Running("install", "shadow")
          /\ IF sameRoutes THEN tgRun' = Idle ELSE Fail
    /\ UNCHANGED <<tgTunnel, tgPlan, transitTables, tgAgent, tgEvidence, tgFaults>>

\* The deferred undo: rules first, then routes; a failed deletion is reported
\* and the others still follow.
UndoRule(f) ==
    /\ Running("install", "undo") /\ f \in tgRun.rules
    /\ tgRun' = [tgRun EXCEPT !.rules = @ \ {f}]
    /\ \/ tgShadowRules' = [tgShadowRules EXCEPT ![f] = @ \ {"ours"}] /\ UNCHANGED tgFaults
       \/ UNCHANGED tgShadowRules /\ Fault
    /\ UNCHANGED <<tgTunnel, tgPlan, tgRules, tgRoutes, tgShadow, tgAgent, tgEvidence>>

UndoRoute(p) ==
    /\ Running("install", "undo") /\ tgRun.rules = {} /\ p \in tgRun.routes
    /\ tgRun' = [tgRun EXCEPT !.routes = @ \ {p}]
    /\ \/ tgShadow' = [tgShadow EXCEPT ![p] = NoRoute] /\ UNCHANGED tgFaults
       \/ UNCHANGED tgShadow /\ Fault
    /\ UNCHANGED <<tgTunnel, tgPlan, tgRules, tgRoutes, tgShadowRules, tgAgent, tgEvidence>>

UndoEnds ==
    /\ Running("install", "undo") /\ tgRun.rules = {} /\ tgRun.routes = {}
    /\ tgRun' = Idle
    /\ UNCHANGED <<tgTunnel, tgPlan, transitTables, tgAgent, tgEvidence, tgFaults>>

Install ==
    \/ InstallChecks \/ InstallRequiresEmpty \/ InstallVerifies \/ UndoEnds
    \/ \E p \in Prefix : AddRoute(p) \/ UndoRoute(p)
    \/ \E f \in Family : AddRule(f) \/ UndoRule(f)

-----------------------------------------------------------------------------
(* Verify and Remove                                                        *)

Verify ==
    /\ tgRun.cmd = "verify"
    /\ \/ /\ tgRun.pc = "source"
          /\ IF unchanged THEN Continue("shadow") ELSE tgRun' = Idle
          /\ UNCHANGED tgEvidence
       \/ /\ tgRun.pc = "shadow"
          /\ tgEvidence' = (tgEvidence \/ sameRoutes)
          /\ tgRun' = Idle
    /\ UNCHANGED <<tgTunnel, tgPlan, transitTables, tgAgent, tgFaults>>

\* Mutant of RemoveChecks: the fallback goes whatever became of the routing.
RemoveUnchecked ==
    /\ Running("remove", "source")
    /\ Continue("inspect")
    /\ UNCHANGED <<tgTunnel, tgPlan, transitTables, tgAgent, tgEvidence, tgFaults>>

\* The fallback stays until the captured routing is back, unchanged.
RemoveChecks ==
    /\ Running("remove", "source")
    /\ IF unchanged THEN Continue("inspect") ELSE tgRun' = Idle
    /\ UNCHANGED <<tgTunnel, tgPlan, transitTables, tgAgent, tgEvidence, tgFaults>>

RemoveInspects ==
    /\ Running("remove", "inspect")
    /\ tgRun' = IF subsetRoutes
                THEN [tgRun EXCEPT !.pc = "delete",
                                   !.rules = {f \in Family : tgShadowRules[f] # {}},
                                   !.routes = {p \in Prefix : tgShadow[p] # NoRoute}]
                ELSE Idle
    /\ UNCHANGED <<tgTunnel, tgPlan, transitTables, tgAgent, tgEvidence, tgFaults>>

DeleteRule(f) ==
    /\ Running("remove", "delete") /\ f \in tgRun.rules
    /\ \/ /\ tgRun' = [tgRun EXCEPT !.rules = @ \ {f}]
          /\ tgShadowRules' = [tgShadowRules EXCEPT ![f] = @ \ {"ours"}]
          /\ UNCHANGED tgFaults
       \/ tgRun' = Idle /\ UNCHANGED tgShadowRules /\ Fault
    /\ UNCHANGED <<tgTunnel, tgPlan, tgRules, tgRoutes, tgShadow, tgAgent, tgEvidence>>

DeleteRoute(p) ==
    /\ Running("remove", "delete") /\ tgRun.rules = {} /\ p \in tgRun.routes
    /\ \/ /\ tgRun' = [tgRun EXCEPT !.routes = @ \ {p}]
          /\ tgShadow' = [tgShadow EXCEPT ![p] = NoRoute]
          /\ UNCHANGED tgFaults
       \/ tgRun' = Idle /\ UNCHANGED tgShadow /\ Fault
    /\ UNCHANGED <<tgTunnel, tgPlan, tgRules, tgRoutes, tgShadowRules, tgAgent, tgEvidence>>

RemoveEnds ==
    /\ Running("remove", "delete") /\ tgRun.rules = {} /\ tgRun.routes = {}
    /\ tgRun' = Idle
    /\ UNCHANGED <<tgTunnel, tgPlan, transitTables, tgAgent, tgEvidence, tgFaults>>

Remove ==
    \/ RemoveChecks \/ RemoveInspects \/ RemoveEnds
    \/ \E p \in Prefix : DeleteRoute(p)
    \/ \E f \in Family : DeleteRule(f)

\* A killed process leaves everything as it is.
Kill ==
    /\ tgRun # Idle /\ tgRun' = Idle /\ Fault
    /\ UNCHANGED <<tgTunnel, tgPlan, transitTables, tgAgent, tgEvidence>>

-----------------------------------------------------------------------------
(* The agents and the other writers of the tables.                          *)

\* The old agent is stopped on recorded evidence; it removes every rule that
\* refers to its table, one by one, and its replacement installs them again.
AgentReplaced ==
    /\ \/ /\ tgAgent = "old" /\ tgRun = Idle /\ tgEvidence
          /\ tgAgent' = "stopping" /\ UNCHANGED tgRules
       \/ /\ tgAgent = "stopping" /\ tgRules # {}
          /\ \E f \in tgRules : tgRules' = tgRules \ {f}
          /\ UNCHANGED tgAgent
       \/ tgAgent = "stopping" /\ tgRules = {} /\ tgAgent' = "stopped" /\ UNCHANGED tgRules
       \/ tgAgent = "stopped" /\ tgAgent' = "new" /\ UNCHANGED tgRules
       \/ /\ tgAgent = "new" /\ \E f \in Family \ tgRules : tgRules' = tgRules \cup {f}
          /\ UNCHANGED tgAgent
    /\ UNCHANGED <<tgTunnel, tgPlan, tgRoutes, tgShadowRules, tgShadow, tgRun, tgEvidence, tgFaults>>

\* A running agent changes a next hop although placement should rest.
AgentMoves(p, hop) ==
    /\ tgAgent \in {"old", "new"} /\ tgRoutes[p] # NoRoute /\ Fault
    /\ tgRoutes' = [tgRoutes EXCEPT ![p] = hop]
    /\ UNCHANGED <<tgTunnel, tgPlan, tgRules, tgShadowRules, tgShadow, tgRun, tgAgent, tgEvidence>>

OthersWrite ==
    /\ \/ /\ \E p \in Prefix : tgShadow[p] = NoRoute /\ tgShadow' = [tgShadow EXCEPT ![p] = Foreign]
          /\ Fault /\ UNCHANGED tgShadowRules
       \/ /\ \E f \in Family : Foreign \notin tgShadowRules[f]
                                /\ tgShadowRules' = [tgShadowRules EXCEPT ![f] = @ \cup {Foreign}]
          /\ Fault /\ UNCHANGED tgShadow
       \/ /\ \E p \in Prefix : tgShadow[p] = Foreign /\ tgShadow' = [tgShadow EXCEPT ![p] = NoRoute]
          /\ UNCHANGED <<tgShadowRules, tgFaults>>
       \/ /\ \E f \in Family : Foreign \in tgShadowRules[f]
                                /\ tgShadowRules' = [tgShadowRules EXCEPT ![f] = @ \ {Foreign}]
          /\ UNCHANGED <<tgShadow, tgFaults>>
    /\ UNCHANGED <<tgTunnel, tgPlan, tgRules, tgRoutes, tgRun, tgAgent, tgEvidence>>

TransitInit ==
    /\ tgTunnel \in BOOLEAN
    /\ tgPlan = NoPlan /\ tgRun = Idle /\ tgAgent = "old" /\ tgEvidence = FALSE
    /\ tgRules = Family /\ tgRoutes \in {[p \in Prefix |-> h] : h \in Relay \cup {NoRoute}}
    /\ tgShadowRules = [f \in Family |-> {}] /\ tgShadow = Empty
    /\ tgFaults = 0

TransitNext ==
    \/ Prepare \/ StartInstall \/ StartRemove \/ Install \/ Verify \/ Remove \/ Kill
    \/ AgentReplaced \/ OthersWrite
    \/ \E p \in Prefix, h \in Relay : AgentMoves(p, h)

TransitSpec == TransitInit /\ [][TransitNext]_transitVars

\* Running processes go on, and an operator with a replacement in place runs
\* remove until it succeeds.
Cleanup == (StartRemove /\ tgAgent = "new" /\ occupied) \/ Remove
TransitFairness == WF_transitVars(Cleanup) /\ WF_transitVars(AgentReplaced)

-----------------------------------------------------------------------------
(* Properties.                                                              *)

Covered(p) ==
    \/ FamilyOf[p] \in tgRules
    \/ "ours" \in tgShadowRules[FamilyOf[p]] /\ tgShadow[p] \in Relay

\* Every transit destination stays routed, by its own table or by the copy,
\* whatever is killed, fails, is retried or written by others: the copy is
\* verified before the old rules go and stays until they are back.
TransitCovered == \A p \in Prefix : tgRoutes[p] # NoRoute => Covered(p)

\* Nobody else has an entry in the shadow table or at its priority.
Unshared ==
    /\ \A p \in Prefix : tgShadow[p] # Foreign
    /\ \A f \in Family : Foreign \notin tgShadowRules[f]

\* However often it was interrupted, the removal ends with the copy gone once
\* the replacement has the captured routing back and no one else shares the
\* shadow table ("can resume an interrupted cleanup of unchanged state").
CleanupFinishes ==
    []<>(\/ tgAgent # "new" \/ ~unchanged \/ ~Unshared \/ ~occupied)
=============================================================================
