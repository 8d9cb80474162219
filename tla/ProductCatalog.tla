--------------------------- MODULE ProductCatalog ---------------------------
(***************************************************************************)
(* data-product-catalog-service: the versions of one data product, their   *)
(* life cycle, the shared version resolver, retirement with its guard and  *)
(* a migration plan that moves subscriptions.  A command checks a copy of  *)
(* the version it read before its transaction and writes by id afterwards; *)
(* a unique index keeps a second version from becoming ACTIVE.             *)
(* Versions are numbered in the order of their semver.                     *)
(***************************************************************************)
EXTENDS Naturals, FiniteSets

CONSTANTS
    LastVersion, \* versions are 1..LastVersion
    NextMajor,   \* the first version of major 2
    Subs,        \* subscriptions, each of its own tenant
    OptedIn,     \* subscriptions whose tenant opted in to BETA versions
    Pinned,      \* subscriptions that do not upgrade to a new minor by themselves
    Policies,    \* the version policies subscribers ask for
    Requests,    \* concurrent lifecycle commands and migrations
    Judged,      \* the versions dry runs and approvals are asked for
    None,
    MaxCommands  \* bound on the lifecycle commands

ASSUME VersionsAreNumbered == LastVersion \in Nat \ {0} /\ NextMajor \in Nat /\ MaxCommands \in Nat

VARIABLES
    version,  \* data_product_versions: status, predecessor, grace period
    product,  \* data_products: status, current_active_version
    latest,   \* version_compatibility_results: the level of the latest one per version
    approved, \* version_approvals
    sub,      \* subscription-service: status, policy, last_resolved_version
    plan,     \* migration_plans and migration_subscriptions
    req,      \* per request: command, version, program counter and what it has read
    breaking, \* auxiliary: versions whose registration was BREAKING
    dryRun,   \* auxiliary: versions evaluated again after their registration
    mixed,    \* auxiliary: two commands were under way at once
    moved,    \* auxiliary: subscriptions whose policy the plan has changed
    commands

tables == <<version, product, latest, approved>>
aux    == <<breaking, dryRun, mixed, moved, commands>>
vars   == <<tables, sub, plan, req, aux>>

Versions == 1..LastVersion
Major(v) == IF v < NextMajor THEN 1 ELSE 2
\* transition-rules.ts
ALLOWED_TRANSITIONS == [DRAFT |-> {"BETA", "ACTIVE"}, BETA |-> {"ACTIVE", "RETIRED"},
                        ACTIVE |-> {"DEPRECATED"}, DEPRECATED |-> {"RETIRED", "ACTIVE"}, RETIRED |-> {}]
Registered == {v \in Versions : version[v].status # None}
Highest(set) == CHOOSE v \in set : \A w \in set : w <= v
InStatus(statuses) == {v \in Versions : version[v].status \in statuses}

AllPolicies == [type : {"EXACT"}, value : Versions] \cup [type : {"PINNED_MAJOR"}, value : {1, 2}]
               \cup [type : {"LATEST_ACTIVE"}, value : {0}]
ASSUME PoliciesAreKnown == Policies \subseteq AllPolicies
\* The columns a None stands in hold nothing else of that name.
ASSUME NoneIsNothing ==
    /\ None \notin Versions
    /\ None \notin DOMAIN ALLOWED_TRANSITIONS
    /\ None \notin {"BREAKING", "NON_BREAKING", "PENDING", "MIGRATED", "FAILED",
                   "PLANNED", "IN_PROGRESS", "COMPLETED", "BLOCKED"}

--------------------------------------------------------------------------
(* resolver.ts: the version a policy stands for, or None *)

\* pickBest: the preferred candidate, else an ACTIVE one, else the highest.
PickBest(candidates, preferred) ==
    LET active == candidates \cap InStatus({"ACTIVE"}) IN
    CASE candidates = {} -> None
      [] preferred \in candidates -> preferred
      [] active # {} /\ preferred \notin candidates -> Highest(active)
      [] OTHER -> Highest(candidates)

ResolveExact(v, opted) ==
    IF version[v].status \in {"ACTIVE", "DEPRECATED"} \/ (version[v].status = "BETA" /\ opted) THEN v ELSE None

\* SUBSCRIBE sees ACTIVE versions only, DELIVER also those in their grace period.
Resolve(policy, intent, opted, preferred) ==
    CASE policy.type = "EXACT" -> ResolveExact(policy.value, opted)
      [] policy.type = "LATEST_ACTIVE" -> PickBest(InStatus({"ACTIVE"}), None)
      [] OTHER -> PickBest({v \in InStatus(IF intent = "DELIVER" THEN {"ACTIVE", "DEPRECATED"} ELSE {"ACTIVE"}) :
                              Major(v) = policy.value}, preferred)

\* buildDeliveryContextDTO: a pinned subscription prefers the version it is on.
Served(s) == Resolve(sub[s].policy, "DELIVER", s \in OptedIn, IF s \in Pinned THEN sub[s].last ELSE None)
Active    == {s \in Subs : sub[s].status = "ACTIVE"}

--------------------------------------------------------------------------
Idle == [op |-> None, v |-> None, pc |-> "idle", status |-> None, active |-> None,
         force |-> FALSE, users |-> {}, todo |-> {}]

\* A product whose first version was registered and activated.
Init ==
    /\ version = [v \in Versions |-> [status |-> IF v = 1 THEN "ACTIVE" ELSE None, pred |-> None, grace |-> None]]
    /\ product = [status |-> "ACTIVE", current |-> 1]
    /\ latest = [v \in Versions |-> "NON_BREAKING"]
    /\ approved = {}
    /\ sub = [s \in Subs |-> [status |-> None, policy |-> [type |-> "LATEST_ACTIVE", value |-> 0], last |-> None]]
    /\ plan = [status |-> None, from |-> None, to |-> None, level |-> None, rows |-> [s \in Subs |-> None]]
    /\ req = [r \in Requests |-> Idle]
    /\ breaking = {} /\ dryRun = {} /\ mixed = FALSE /\ moved = {} /\ commands = 0

At(r, point)   == req[r].pc = point
Goto(r, point) == req' = [req EXCEPT ![r].pc = point]

\* Mutant: what a request read is left to the next one.
MutantDone(r) == Goto(r, "idle")

Done(r) == req' = [req EXCEPT ![r] = Idle]

SetStatus(v, status) == version' = [version EXCEPT ![v].status = status]
\* A command begins with what it read of its version and decides on that copy.
Begin(r, command) ==
    /\ At(r, "idle") /\ commands < MaxCommands
    /\ commands' = commands + 1
    /\ req' = [req EXCEPT ![r] = command]
    /\ mixed' = (mixed \/ \E t \in Requests \ {r} : ~At(t, "idle"))
    /\ UNCHANGED <<tables, sub, plan, breaking, dryRun, moved>>
Command(op, v) == [Idle EXCEPT !.op = op, !.v = v, !.pc = op, !.status = version[v].status]
Rejected(r) == Done(r) /\ UNCHANGED <<tables, sub, plan, aux>>

\* assertTransition
CanMove(v, to) == version[v].status # None /\ to \in ALLOWED_TRANSITIONS[version[v].status]

--------------------------------------------------------------------------
(* Registration, evaluation, approval *)

\* registerContract: a version above the latest, a breaking change only as a new major.
Register(v) ==
    /\ v \notin Registered /\ v = 1 + Highest(Registered)
    /\ version' = [version EXCEPT ![v] = [status |-> "DRAFT", pred |-> v - 1, grace |-> None]]
    /\ \E level \in IF Major(v) = Major(v - 1) THEN {"NON_BREAKING"} ELSE {"BREAKING", "NON_BREAKING"} :
        /\ latest' = [latest EXCEPT ![v] = level]
        /\ breaking' = IF level = "BREAKING" THEN breaking \cup {v} ELSE breaking
    /\ UNCHANGED <<product, approved, sub, plan, req, dryRun, mixed, moved, commands>>

\* evaluateCompatibility: a dry run against the latest registered version.  Its result is
\* recorded like that of a registration; the same contract compared with itself is not BREAKING.
Evaluate(v) ==
    /\ v \in Registered \cap Judged
    /\ \E level \in {"BREAKING", "NON_BREAKING"} : latest' = [latest EXCEPT ![v] = level]
    /\ dryRun' = dryRun \cup {v}
    /\ UNCHANGED <<version, product, approved, sub, plan, req, breaking, mixed, moved, commands>>

\* approveVersion
Approve(v) ==
    /\ v \in Registered \cap Judged
    /\ approved' = approved \cup {v}
    /\ UNCHANGED <<version, product, latest, sub, plan, req, aux>>

\* requireApprovalIfBreaking: the latest evaluation decides.
RequireApproval(v) == latest[v] = "BREAKING" => v \in approved

--------------------------------------------------------------------------
(* Life cycle *)

\* Mutant: only an ACTIVE version is turned away.
MutantActivateVersion(r, v, target) ==
    /\ version[v].status \notin {None, "ACTIVE"} /\ RequireApproval(v)
    /\ Begin(r, Command(IF target = "BETA" THEN "beta" ELSE "activate", v))

\* activateVersion, to BETA or to ACTIVE; a DEPRECATED version only returns by a rollback.
ActivateVersion(r, v, target) ==
    /\ version[v].status # "DEPRECATED" /\ CanMove(v, target) /\ RequireApproval(v)
    /\ Begin(r, Command(IF target = "BETA" THEN "beta" ELSE "activate", v))

PromoteToBeta(r) ==
    /\ At(r, "beta") /\ SetStatus(req[r].v, "BETA") /\ Done(r)
    /\ UNCHANGED <<product, latest, approved, sub, plan, aux>>
FindActiveVersion(r) ==
    /\ At(r, "activate")
    /\ \E active \in IF InStatus({"ACTIVE"}) = {} THEN {None} ELSE InStatus({"ACTIVE"}) :
        req' = [req EXCEPT ![r].active = active, ![r].pc = "supersede"]
    /\ UNCHANGED <<tables, sub, plan, aux>>

\* product_versions_one_active_idx, once the version that leaves has been written.
IndexAllows(v, leaving) == InStatus({"ACTIVE"}) \subseteq {v, leaving}

\* The rest of the transaction: the version found is deprecated, with a grace period if it never
\* had one, and the new one becomes ACTIVE and current.
Supersede(r) ==
    /\ At(r, "supersede")
    /\ LET v == req[r].v  old == req[r].active IN
       IF IndexAllows(v, old)
       THEN /\ version' = [w \in Versions |->
                  CASE w = v   -> [version[w] EXCEPT !.status = "ACTIVE", !.pred = old]
                    [] w = old /\ old # v -> [version[w] EXCEPT !.status = "DEPRECATED", !.grace = IF @ = None THEN "running" ELSE @]
                    [] OTHER   -> version[w]]
            /\ product' = [product EXCEPT !.current = v]
            /\ Done(r)
            /\ UNCHANGED <<latest, approved, sub, plan, aux>>
       ELSE Rejected(r)

DeprecateVersion(r, v) == CanMove(v, "DEPRECATED") /\ Begin(r, Command("deprecate", v))

\* Mutant: the pointer is left on the deprecated version.
MutantDeprecate(r) ==
    /\ At(r, "deprecate")
    /\ version' = [version EXCEPT ![req[r].v].status = "DEPRECATED", ![req[r].v].grace = "running"]
    /\ Done(r)
    /\ UNCHANGED <<product, latest, approved, sub, plan, aux>>

\* The pointer is cleared because the copy read was ACTIVE.
Deprecate(r) ==
    /\ At(r, "deprecate")
    /\ version' = [version EXCEPT ![req[r].v].status = "DEPRECATED", ![req[r].v].grace = "running"]
    /\ product' = IF req[r].status = "ACTIVE" THEN [product EXCEPT !.current = None] ELSE product
    /\ Done(r)
    /\ UNCHANGED <<latest, approved, sub, plan, aux>>

\* rollbackVersion: only to the predecessor of the ACTIVE version.
RollbackVersion(r, v) ==
    \E active \in InStatus({"ACTIVE"}) :
        /\ version[v].status = "DEPRECATED" /\ version[active].pred = v
        /\ Begin(r, [Command("rollback", v) EXCEPT !.active = active])
Rollback(r) ==
    /\ At(r, "rollback")
    /\ LET v == req[r].v  old == req[r].active IN
       IF IndexAllows(v, old)
       THEN /\ version' = [version EXCEPT ![old].status = "DEPRECATED", ![old].grace = "running", ![v].status = "ACTIVE"]
            /\ product' = [product EXCEPT !.current = v]
            /\ Done(r)
            /\ UNCHANGED <<latest, approved, sub, plan, aux>>
       ELSE Rejected(r)

\* retireVersion: never an ACTIVE version.  An administrator may force it past the blockers.
RetireVersion(r, v) ==
    \E force \in BOOLEAN :
        /\ version[v].status # "ACTIVE" /\ CanMove(v, "RETIRED")
        /\ Begin(r, [Command("retire", v) EXCEPT !.pc = "check", !.force = force])

\* checkRetirementBlockers: the ACTIVE subscriptions whose policy, asked without a tenant
\* and without a preferred version, stands for this one.
Blockers(v) == {s \in Active : Resolve(sub[s].policy, "DELIVER", FALSE, None) = v}

CheckBlockers(r) ==
    /\ At(r, "check")
    /\ LET v == req[r].v IN
       IF (Blockers(v) # {} \/ version[v].grace = "running") /\ ~req[r].force THEN Rejected(r)
       ELSE /\ req' = [req EXCEPT ![r].users = {s \in Active : Served(s) = v}, ![r].pc = "retire"]
            /\ UNCHANGED <<tables, sub, plan, aux>>
Retire(r) ==
    /\ At(r, "retire")
    /\ SetStatus(req[r].v, "RETIRED")
    /\ product' = IF InStatus({"DRAFT", "BETA", "ACTIVE", "DEPRECATED"}) \subseteq {req[r].v}
                  THEN [product EXCEPT !.status = "RETIRED"] ELSE product
    /\ Done(r)
    /\ UNCHANGED <<latest, approved, sub, plan, aux>>
GracePeriodEnds(v) ==
    /\ version[v].grace = "running"
    /\ version' = [version EXCEPT ![v].grace = "over"]
    /\ UNCHANGED <<product, latest, approved, sub, plan, req, aux>>

--------------------------------------------------------------------------
(* Migration *)

\* createMigration: from the ACTIVE version, over the subscriptions that are on it.
CreateMigration(to) ==
    /\ plan.status = None /\ to \in Registered /\ InStatus({"ACTIVE"}) # {}
    /\ LET from == Highest(InStatus({"ACTIVE"})) IN
       plan' = [status |-> "PLANNED", from |-> from, to |-> to, level |-> latest[to],
                rows |-> [s \in Subs |->
                   IF s \in Active /\ \/ sub[s].policy = [type |-> "EXACT", value |-> from]
                                      \/ Resolve(sub[s].policy, "DELIVER", s \in OptedIn, None) = from
                   THEN "PENDING" ELSE None]]
    /\ UNCHANGED <<tables, sub, req, aux>>

\* executeMigration: the plan and its PENDING rows are read, then worked through.
ExecuteMigration(r) ==
    /\ plan.status \notin {None, "COMPLETED"}
    /\ Begin(r, [Idle EXCEPT !.op = "execute", !.v = plan.to,
                             !.pc = IF plan.level = "BREAKING" THEN "judge" ELSE "start",
                             !.todo = {s \in Subs : plan.rows[s] = "PENDING"}])
\* A BREAKING plan moves nobody.
JudgeBreaking(r) ==
    /\ At(r, "judge")
    /\ plan' = [plan EXCEPT !.status = IF req[r].todo = {} THEN "COMPLETED" ELSE "BLOCKED"]
    /\ Done(r) /\ UNCHANGED <<tables, sub, aux>>
StartMoving(r) ==
    /\ At(r, "start")
    /\ plan' = [plan EXCEPT !.status = "IN_PROGRESS"]
    /\ Goto(r, "move") /\ UNCHANGED <<tables, sub, aux>>

\* updateSubscriptionVersionPolicyCommand in subscription-service, asked over HTTP.
CanPin(s) == sub[s].status \notin {None, "CANCELLED"}
             /\ Resolve([type |-> "EXACT", value |-> plan.to], "SUBSCRIBE", s \in OptedIn, None) # None
Pin(s)    == /\ sub' = [sub EXCEPT ![s].policy = [type |-> "EXACT", value |-> plan.to]]
             /\ moved' = moved \cup {s}

\* Mutant: the answer of the call is not looked at.
MutantMove(r) ==
    /\ At(r, "move")
    /\ \E s \in req[r].todo :
        /\ req' = [req EXCEPT ![r].active = s, ![r].status = "MIGRATED", ![r].pc = "record"]
        /\ (CanPin(s) /\ Pin(s)) \/ UNCHANGED <<sub, moved>>
    /\ UNCHANGED <<tables, plan, breaking, dryRun, mixed, commands>>

\* updateSubscriptionVersionPolicy: the call moves the subscription or not, and may have
\* moved it although it failed.
Move(r) ==
    /\ At(r, "move")
    /\ \E s \in req[r].todo, ok \in BOOLEAN :
        /\ req' = [req EXCEPT ![r].active = s, ![r].status = IF ok THEN "MIGRATED" ELSE "FAILED", ![r].pc = "record"]
        /\ IF ok THEN CanPin(s) /\ Pin(s) ELSE (CanPin(s) /\ Pin(s)) \/ UNCHANGED <<sub, moved>>
    /\ UNCHANGED <<tables, plan, breaking, dryRun, mixed, commands>>

RecordMove(r) ==
    /\ At(r, "record")
    /\ plan' = [plan EXCEPT !.rows[req[r].active] = req[r].status]
    /\ req' = [req EXCEPT ![r].todo = @ \ {req[r].active}, ![r].active = None, ![r].pc = "move"]
    /\ UNCHANGED <<tables, sub, aux>>
Tally(r) ==
    /\ At(r, "move") /\ req[r].todo = {}
    /\ req' = [req EXCEPT ![r].pc = "finish",
                 ![r].status = IF \A s \in Subs : plan.rows[s] \in {None, "MIGRATED"} THEN "COMPLETED" ELSE "BLOCKED"]
    /\ UNCHANGED <<tables, sub, plan, aux>>

\* Mutant: a plan that is not complete is left as it is.
MutantFinish(r) ==
    /\ At(r, "finish")
    /\ plan' = IF req[r].status = "COMPLETED" THEN [plan EXCEPT !.status = "COMPLETED"] ELSE plan
    /\ Done(r) /\ UNCHANGED <<tables, sub, aux>>

Finish(r) ==
    /\ At(r, "finish")
    /\ plan' = [plan EXCEPT !.status = req[r].status]
    /\ Done(r) /\ UNCHANGED <<tables, sub, aux>>

--------------------------------------------------------------------------
(* Subscriptions, as the catalog meets them *)

\* createSubscription and a change of policy resolve with SUBSCRIBE first.
Subscribe(s) ==
    \E policy \in Policies :
        /\ product.status = "ACTIVE" \/ sub[s].status = "ACTIVE"
        /\ Resolve(policy, "SUBSCRIBE", s \in OptedIn, None) # None
        /\ sub' = [sub EXCEPT ![s].status = "ACTIVE", ![s].policy = policy]
        /\ UNCHANGED <<tables, plan, req, aux>>
\* buildDeliveryContextDTO: the version served is remembered.
Deliver(s) ==
    /\ s \in Active /\ Served(s) # None
    /\ sub' = [sub EXCEPT ![s].last = Served(s)]
    /\ UNCHANGED <<tables, plan, req, aux>>

Lifecycle(r) ==
    \/ \E v \in Versions : \/ ActivateVersion(r, v, "BETA") \/ ActivateVersion(r, v, "ACTIVE")
                           \/ DeprecateVersion(r, v) \/ RollbackVersion(r, v) \/ RetireVersion(r, v)
    \/ PromoteToBeta(r) \/ FindActiveVersion(r) \/ Supersede(r) \/ Deprecate(r) \/ Rollback(r)
    \/ CheckBlockers(r) \/ Retire(r)
MigrationStep(r) == JudgeBreaking(r) \/ StartMoving(r) \/ Move(r) \/ RecordMove(r) \/ Tally(r) \/ Finish(r)
Next ==
    \/ \E r \in Requests : Lifecycle(r) \/ ExecuteMigration(r) \/ MigrationStep(r)
    \/ \E v \in Versions : Register(v) \/ Evaluate(v) \/ Approve(v) \/ GracePeriodEnds(v) \/ CreateMigration(v)
    \/ \E s \in Subs : Subscribe(s) \/ Deliver(s)

Spec     == Init /\ [][Next]_vars
\* An execution that has begun goes on: its awaits return.
FairSpec == Spec /\ \A r \in Requests : WF_vars(MigrationStep(r))

--------------------------------------------------------------------------
(* Properties *)

\* The tables and requests keep their shape.
TypeOK ==
    /\ version \in [Versions -> [status : DOMAIN ALLOWED_TRANSITIONS \cup {None}, pred : {0, None} \cup Versions, grace : {None, "running", "over"}]]
    /\ product.current \in Versions \cup {None}
    /\ approved \subseteq Versions /\ breaking \subseteq Registered
    /\ \A s \in Subs : sub[s].policy \in AllPolicies /\ (sub[s].last # None => sub[s].last \in Registered)
    /\ \A r \in Requests : At(r, "idle") => req[r] = Idle
    /\ \A r \in Requests : req[r].todo \subseteq {s \in Subs : plan.rows[s] # None}

\* However two activations and rollbacks interleave, a product has one ACTIVE version.
OneActive == Cardinality(InStatus({"ACTIVE"})) <= 1

\* As long as commands come one after the other, current_active_version names the ACTIVE
\* version and nothing else.
PointerNamesActive ==
    ~mixed /\ (\A r \in Requests : ~At(r, "supersede"))
      => InStatus({"ACTIVE"}) = IF product.current = None THEN {} ELSE {product.current}

\* As long as commands come one after the other, versions only move along the state machine:
\* none comes back from RETIRED, and an ACTIVE version is never retired directly.
LifecycleIsLegal ==
    [][~mixed => \A v \in Registered : version'[v].status # version[v].status
                   => version'[v].status \in ALLOWED_TRANSITIONS[version[v].status]]_vars

\* A version registered as BREAKING leaves DRAFT only with an approval, or after a later
\* evaluation took the place of its registration's.
BreakingNeedsApproval ==
    \A v \in breaking : version[v].status # "DRAFT" => v \in approved \/ v \in dryRun

\* An unforced retirement that has passed its check takes the version from no ACTIVE subscription
\* but a pinned one or one that opted in to BETA, and from the latter only if it read a BETA
\* version; a promotion to BETA that comes late can change what it reads.
RetirementSparesUsers ==
    \A r \in Requests : At(r, "retire") /\ ~req[r].force
        => /\ req[r].users \subseteq Pinned \cup OptedIn
           /\ mixed \/ req[r].users \subseteq Pinned \/ req[r].status = "BETA"

\* A COMPLETED plan executed once has moved every subscription it lists.
CompletedMeansMoved ==
    plan.status = "COMPLETED" /\ ~mixed => \A s \in Subs : plan.rows[s] # None => s \in moved

\* A plan does not stay IN_PROGRESS.
MigrationSettles == plan.status = "IN_PROGRESS" ~> plan.status # "IN_PROGRESS"

\* retirement-guard.ts: an ACTIVE subscription whose policy resolves to the version blocks it.
\* (Whom the version is delivered to when an unforced retirement passes.)
RetirementSeesEveryUser ==
    \A r \in Requests : At(r, "retire") /\ ~req[r].force => req[r].users = {}

\* The tables agree with each other whatever commands overlap: one version is ACTIVE, a BREAKING one left DRAFT with
\* an approval, and the product's pointer names the ACTIVE one as long as commands come one after the other.
VersionsAreConsistent == TypeOK /\ OneActive /\ PointerNamesActive /\ BreakingNeedsApproval

\* What a command reports is true of the subscriptions: an unforced retirement takes the version from no user its
\* guard looks for, and a COMPLETED migration has moved every subscription it lists.
CommandsKeepTheirWord == RetirementSparesUsers /\ CompletedMeansMoved
=============================================================================
