------------------------- MODULE ProductCatalogProofs -------------------------
(***************************************************************************)
(* What data-product-catalog-service guarantees of a product's versions    *)
(* for any number of versions, subscriptions and overlapping commands.     *)
(* A command decides on a copy of its version and writes by id, so some    *)
(* of it holds only as long as commands come one after the other (~mixed): *)
(* then the copy is still what the table says.                             *)
(* At the end: what the pages over the catalog and the other services tell *)
(* their users, for any number of tabs, items and calls (ServiceConsole).  *)
(***************************************************************************)
EXTENDS ProductCatalog, ServiceConsole, FiniteSetTheorems, WellFoundedInduction, TLAPS

StatusType == {"DRAFT", "BETA", "ACTIVE", "DEPRECATED", "RETIRED"}
Levels     == {"BREAKING", "NON_BREAKING"}
VersionRow == [status : StatusType \cup {None}, pred : {0, None} \cup Versions, grace : {None, "running", "over"}]
SubRow     == [status : {"ACTIVE", None}, policy : AllPolicies, last : Versions \cup {None}]
PlanRows   == {"PENDING", "MIGRATED", "FAILED", None}
PlanType   == [status : {None, "PLANNED", "IN_PROGRESS", "COMPLETED", "BLOCKED"}, from : Versions \cup {None},
               to : Versions \cup {None}, level : Levels \cup {None}, rows : [Subs -> PlanRows]]

LifecyclePoints == {"beta", "activate", "supersede", "deprecate", "rollback", "check", "retire"}
MigrationPoints == {"judge", "start", "move", "record", "finish"}

CommandType == [op : {"beta", "activate", "deprecate", "rollback", "retire", "execute", None},
                v : Versions \cup {None}, pc : {"idle"} \cup LifecyclePoints \cup MigrationPoints,
                status : StatusType \cup {"MIGRATED", "FAILED", "COMPLETED", "BLOCKED", None},
                active : Versions \cup Subs \cup {None}, force : BOOLEAN, users : SUBSET Subs, todo : SUBSET Subs]

\* Where a command can be, and what it remembers there.
Shape(q) ==
    /\ q \in CommandType
    /\ q.pc = "idle" => q = Idle
    /\ q.pc \in LifecyclePoints => q.v \in Versions /\ q.todo = {}
    /\ q.pc = "beta" => q.status = "DRAFT"
    /\ q.pc \in {"activate", "supersede"} => q.status \in {"DRAFT", "BETA"}
    /\ q.pc = "supersede" => q.active \in Versions \cup {None}
    /\ q.pc = "deprecate" => q.status = "ACTIVE"
    /\ q.pc = "rollback" => q.status = "DEPRECATED" /\ q.active \in Versions
    /\ q.pc \in {"check", "retire"} => q.status \in {"BETA", "DEPRECATED"}
    /\ q.pc = "record" => q.active \in q.todo /\ q.status \in {"MIGRATED", "FAILED"}
    /\ q.pc = "finish" => q.status \in {"COMPLETED", "BLOCKED"}

TablesOK ==
    /\ version \in [Versions -> VersionRow]
    /\ product \in [status : {"ACTIVE", "RETIRED"}, current : Versions \cup {None}]
    /\ latest \in [Versions -> Levels]
    /\ approved \subseteq Versions /\ dryRun \subseteq Versions /\ breaking \subseteq Registered
    /\ sub \in [Subs -> SubRow] /\ \A s \in Subs : sub[s].last # None => sub[s].last \in Registered
    /\ plan \in PlanType /\ (plan.status # None => plan.to \in Versions)
    /\ mixed \in BOOLEAN

RequestsOK == req \in [Requests -> CommandType] /\ \A r \in Requests : Shape(req[r])

Lone == ~mixed => \A r, t \in Requests : ~At(r, "idle") /\ ~At(t, "idle") => r = t

OneVersion == \A v, w \in InStatus({"ACTIVE"}) : v = w

Pointer == ~mixed => InStatus({"ACTIVE"}) = IF product.current = None THEN {} ELSE {product.current}

\* The versions a command has read are still what it read.
Fresh(q) ==
    /\ q.pc \in LifecyclePoints => version[q.v].status = q.status
    /\ q.pc \in {"supersede", "rollback"} /\ q.active # None => version[q.active].status = "ACTIVE"

\* A version registered as BREAKING that has been approved, or evaluated again.
Cleared(v) == v \in breaking => v \in approved \/ v \in dryRun
\* What a command is about to move has left DRAFT or has passed the approval.
Approved(q) ==
    /\ q.pc \in LifecyclePoints => q.v \in Registered /\ Cleared(q.v)
    /\ q.pc \in {"supersede", "rollback"} /\ q.active # None => q.active \in Registered /\ Cleared(q.active)
LevelsKnown == \A v \in breaking : latest[v] = "BREAKING" \/ v \in dryRun

\* What a migration has written and is about to write.
Tallied == \A s \in Subs : plan.rows[s] \in {None, "MIGRATED"}
PlanInv ==
    /\ plan.status = None => plan.rows = [s \in Subs |-> None]
    /\ plan.level = "BREAKING" => \A s \in Subs : plan.rows[s] \in {None, "PENDING"}
    /\ \A s \in Subs : plan.rows[s] = "MIGRATED" => s \in moved
    /\ ~mixed /\ plan.status = "COMPLETED" => Tallied
Migrates(q) ==
    /\ q.pc \in MigrationPoints =>
         /\ plan.status # None /\ (~mixed => plan.status # "COMPLETED")
         /\ q.pc = "judge" <=> plan.level = "BREAKING"
    /\ \A s \in q.todo : q.pc \in MigrationPoints /\ plan.rows[s] # None
    /\ q.pc = "record" /\ q.status = "MIGRATED" => q.active \in moved
    /\ q.pc = "judge" /\ ~mixed => q.todo = {s \in Subs : plan.rows[s] = "PENDING"}
    /\ q.pc = "finish" /\ q.status = "COMPLETED" /\ ~mixed => Tallied

\* Whom an unforced retirement that has passed its check takes the version from.
Spares(q) ==
    q.pc = "retire" /\ ~q.force =>
      /\ q.users \subseteq Pinned \cup OptedIn
      /\ mixed \/ q.users \subseteq Pinned \/ q.status = "BETA"

\* While commands come one after the other, the version a command read has not changed since.
StatesInv   == OneVersion /\ Pointer /\ \A r \in Requests : ~mixed => Fresh(req[r])
ApprovalInv == BreakingNeedsApproval /\ LevelsKnown /\ \A r \in Requests : Approved(req[r])
MoveInv     == PlanInv /\ \A r \in Requests : Migrates(req[r])
SparesInv   == \A r \in Requests : Spares(req[r])

CatalogInv == TablesOK /\ RequestsOK /\ Lone /\ StatesInv /\ ApprovalInv /\ MoveInv /\ SparesInv

-----------------------------------------------------------------------------
(* The resolver stands for a version it was offered, or for none.          *)

LEMMA HighestIsOne ==
    ASSUME NEW S, S \subseteq Versions, S # {}
    PROVE  Highest(S) \in S
<1> DEFINE T == {LastVersion - v : v \in S}
<1>0. LastVersion \in Int /\ \A v \in S : v \in Int /\ LastVersion - v \in Nat
  BY VersionsAreNumbered DEF Versions
<1>1. T \subseteq Nat /\ T # {}
  BY <1>0
<1>2. PICK x \in T : \A y \in T : <<y, x>> \notin OpToRel(<, Nat)
  <2> HIDE DEF T
  <2> QED
    BY <1>1, WFMin, NatLessThanWellFounded
<1>3. \A y \in T : ~(y < x)
  BY <1>1, <1>2 DEF OpToRel
<1>4. PICK v \in S : x = LastVersion - v
  OBVIOUS
<1>5. \A w \in S : w <= v
  <2> SUFFICES ASSUME NEW w \in S PROVE w <= v
    OBVIOUS
  <2>1. LastVersion - w \in T
    OBVIOUS
  <2> QED
    <3>1. ~(LastVersion - w < LastVersion - v)
      BY <1>3, <1>4, <2>1
    <3>2. LastVersion \in Int /\ w \in Int /\ v \in Int
      BY <1>0
    <3> HIDE DEF T
    <3> QED
      BY <3>1, <3>2, Z3
<1> QED
  BY <1>5 DEF Highest

LEMMA BestIsOffered ==
    ASSUME NEW S, S \subseteq Versions, NEW p
    PROVE  PickBest(S, p) \in S \cup {None}
<1>1. S \cap InStatus({"ACTIVE"}) # {} => Highest(S \cap InStatus({"ACTIVE"})) \in S
  BY HighestIsOne
<1>2. S # {} => Highest(S) \in S
  BY HighestIsOne
<1> QED
  BY <1>1, <1>2 DEF PickBest

LEMMA ResolvedIsRegistered ==
    ASSUME NEW p \in AllPolicies, NEW intent, NEW opted, NEW v, Resolve(p, intent, opted, v) # None
    PROVE  Resolve(p, intent, opted, v) \in Registered
<1>1. None \notin {"ACTIVE", "DEPRECATED", "BETA"}
  BY NoneIsNothing DEF ALLOWED_TRANSITIONS
<1>2. CASE p.type = "EXACT"
  BY <1>1, <1>2 DEF Resolve, ResolveExact, Registered, AllPolicies
<1>3. CASE p.type = "LATEST_ACTIVE"
  <2>1. Resolve(p, intent, opted, v) \in InStatus({"ACTIVE"}) \cup {None}
    BY <1>3, BestIsOffered DEF Resolve, InStatus
  <2> QED
    BY <1>1, <2>1 DEF InStatus, Registered
<1>4. CASE p.type = "PINNED_MAJOR"
  <2> DEFINE S == {w \in InStatus(IF intent = "DELIVER" THEN {"ACTIVE", "DEPRECATED"} ELSE {"ACTIVE"}) : Major(w) = p.value}
  <2>1. S \subseteq Registered /\ S \subseteq Versions
    BY <1>1 DEF InStatus, Registered
  <2>2. Resolve(p, intent, opted, v) = PickBest(S, v)
    BY <1>4 DEF Resolve
  <2> QED
    BY <2>1, <2>2, BestIsOffered
<1> QED
  BY <1>2, <1>3, <1>4 DEF AllPolicies

-----------------------------------------------------------------------------
(* A step of one command, and what it leaves alone.                        *)

LEMMA Statuses == DOMAIN ALLOWED_TRANSITIONS = StatusType /\ None \notin StatusType
BY NoneIsNothing DEF ALLOWED_TRANSITIONS, StatusType

LEMMA IdleShape == Shape(Idle) /\ Idle.pc = "idle" /\ Idle.todo = {}
BY DEF Shape, Idle, CommandType, LifecyclePoints, MigrationPoints

\* Request r goes on with q; unless commands overlap, every other request is idle.
Takes(r, q) ==
    /\ req' = [t \in Requests |-> IF t = r THEN q ELSE req[t]]
    /\ mixed' \in BOOLEAN /\ (mixed => mixed')
    /\ ~mixed' => \A t \in Requests \ {r} : At(t, "idle")

LEMMA BeginTakes ==
    ASSUME RequestsOK, mixed \in BOOLEAN, NEW r \in Requests, NEW c, Begin(r, c)
    PROVE  Takes(r, c)
<1>1. req' = [t \in Requests |-> IF t = r THEN c ELSE req[t]]
  BY DEF Begin, RequestsOK
<1>2. mixed' = (mixed \/ \E t \in Requests \ {r} : ~At(t, "idle"))
  BY DEF Begin
<1> QED
  BY <1>1, <1>2, Zenon DEF Takes

LEMMA StepTakes ==
    ASSUME RequestsOK, Lone, mixed \in BOOLEAN, NEW r \in Requests, NEW q,
           ~At(r, "idle"), mixed' = mixed, req' = [req EXCEPT ![r] = q]
    PROVE  Takes(r, q)
<1>1. req' = [t \in Requests |-> IF t = r THEN q ELSE req[t]]
  BY DEF RequestsOK
<1> QED
  BY <1>1 DEF Takes, Lone

LEMMA TakenRequests ==
    ASSUME RequestsOK, Lone, NEW r \in Requests, NEW q, Shape(q), Takes(r, q)
    PROVE  /\ RequestsOK' /\ Lone'
           /\ req'[r] = q
           /\ \A t \in Requests \ {r} : req'[t] = req[t]
           /\ ~mixed' => ~mixed /\ \A t \in Requests \ {r} : req[t] = Idle
<1>1. req'[r] = q /\ \A t \in Requests \ {r} : req'[t] = req[t]
  BY DEF Takes
<1>2. \A t \in Requests : Shape(req'[t])
  BY <1>1 DEF RequestsOK
<1>3. req' \in [Requests -> CommandType]
  BY DEF Takes, RequestsOK, Shape
<1>4. RequestsOK'
  BY <1>2, <1>3 DEF RequestsOK, Shape, LifecyclePoints, MigrationPoints, Idle, CommandType, Versions, StatusType
<1>5. ~mixed' => ~mixed /\ \A t \in Requests \ {r} : At(t, "idle") /\ req[t] = Idle
  BY DEF Takes, RequestsOK, At, Shape
<1>6. Lone'
  BY <1>1, <1>5 DEF Lone, At
<1> QED
  BY <1>1, <1>4, <1>5, <1>6

\* A command that only reads: the tables stay, and the invariant is about what it has read.
LEMMA ReadKeeps ==
    ASSUME CatalogInv, NEW r \in Requests, NEW q, Shape(q), Takes(r, q),
           UNCHANGED <<tables, sub, plan, breaking, dryRun, moved>>,
           ~mixed' => Fresh(q), Approved(q), Migrates(q)', Spares(q)'
    PROVE  CatalogInv'
<1>1. /\ RequestsOK' /\ Lone' /\ req'[r] = q /\ \A t \in Requests \ {r} : req'[t] = req[t]
      /\ ~mixed' => ~mixed /\ \A t \in Requests \ {r} : req[t] = Idle
  BY TakenRequests DEF CatalogInv
<1> USE DEF tables
<1>2. TablesOK'
  BY DEF Takes, CatalogInv, TablesOK, VersionRow, PlanType, SubRow, Registered, Versions
<1>3. StatesInv'
  <2>1. OneVersion' /\ Pointer'
    BY <1>1 DEF CatalogInv, StatesInv, OneVersion, Pointer, InStatus
  <2>2. ASSUME NEW t \in Requests, ~mixed' PROVE Fresh(req[t])'
    <3>1. CASE t = r
      BY <1>1, <2>2, <3>1 DEF Fresh
    <3>2. CASE t # r
      BY <1>1, <2>2, <3>2 DEF Fresh, CatalogInv, StatesInv
    <3> QED
      BY <3>1, <3>2
  <2> QED
    BY <2>1, <2>2 DEF StatesInv
<1>4. ApprovalInv'
  <2>1. BreakingNeedsApproval' /\ LevelsKnown'
    BY DEF CatalogInv, ApprovalInv, BreakingNeedsApproval, LevelsKnown
  <2>2. ASSUME NEW t \in Requests PROVE Approved(req[t])'
    <3>1. CASE t = r
      BY <1>1, <3>1 DEF Approved, Registered, Cleared
    <3>2. CASE t # r
      BY <1>1, <3>2 DEF Approved, Registered, Cleared, CatalogInv, ApprovalInv
    <3> QED
      BY <3>1, <3>2
  <2> QED
    BY <2>1, <2>2 DEF ApprovalInv
<1>5. MoveInv'
  <2>1. PlanInv'
    BY <1>1 DEF CatalogInv, MoveInv, PlanInv, Tallied
  <2>2. ASSUME NEW t \in Requests PROVE Migrates(req[t])'
    <3>1. CASE t = r
      BY <1>1, <3>1 DEF Migrates, Tallied
    <3>2. CASE t # r
      BY <1>1, <3>2 DEF Migrates, Tallied, CatalogInv, MoveInv
    <3> QED
      BY <3>1, <3>2
  <2> QED
    BY <2>1, <2>2 DEF MoveInv
<1>6. SparesInv'
  <2>1. ASSUME NEW t \in Requests PROVE Spares(req[t])'
    <3>1. CASE t = r
      BY <1>1, <3>1 DEF Spares
    <3>2. CASE t # r
      BY <1>1, <3>2 DEF Spares, CatalogInv, SparesInv
    <3> QED
      BY <3>1, <3>2
  <2> QED
    BY <2>1 DEF SparesInv
<1> QED
  BY <1>1, <1>2, <1>3, <1>4, <1>5, <1>6 DEF CatalogInv

\* A command that writes versions and ends.
LEMMA WriteKeeps ==
    ASSUME CatalogInv, NEW r \in Requests, Takes(r, Idle), mixed' = mixed,
           UNCHANGED <<latest, approved, sub, plan, breaking, dryRun, moved>>,
           version' \in [Versions -> VersionRow],
           product' \in [status : {"ACTIVE", "RETIRED"}, current : Versions \cup {None}],
           OneVersion', Pointer',
           \A v \in Versions : version'[v].status # version[v].status
             => version[v].status # None /\ version'[v].status # None /\ Cleared(v)
    PROVE  CatalogInv'
<1>1. /\ RequestsOK' /\ Lone' /\ req'[r] = Idle /\ \A t \in Requests \ {r} : req'[t] = req[t]
      /\ ~mixed' => ~mixed /\ \A t \in Requests \ {r} : req[t] = Idle
  BY TakenRequests, IdleShape DEF CatalogInv
<1>2. Registered' = Registered
  BY DEF Registered
<1>3. TablesOK'
  BY <1>2 DEF CatalogInv, TablesOK, VersionRow, PlanType, SubRow, Versions
<1>4. StatesInv'
  <2>1. ASSUME NEW t \in Requests, ~mixed' PROVE Fresh(req[t])'
    <3>1. req'[t] = Idle
      BY <1>1, <2>1
    <3> QED
      BY <3>1, IdleShape DEF Fresh, LifecyclePoints
  <2> QED
    BY <2>1 DEF StatesInv
<1>5. ApprovalInv'
  <2>1. BreakingNeedsApproval' /\ LevelsKnown'
    <3>1. breaking \subseteq Versions
      BY DEF CatalogInv, TablesOK, Registered
    <3> QED
      BY <3>1 DEF CatalogInv, ApprovalInv, BreakingNeedsApproval, LevelsKnown, Cleared
  <2>2. ASSUME NEW t \in Requests PROVE Approved(req[t])'
    <3>1. CASE t = r
      BY <1>1, <3>1, IdleShape DEF Approved, LifecyclePoints
    <3>2. CASE t # r
      BY <1>1, <1>2, <3>2 DEF Approved, Cleared, CatalogInv, ApprovalInv
    <3> QED
      BY <3>1, <3>2
  <2> QED
    BY <2>1, <2>2 DEF ApprovalInv
<1>6. MoveInv'
  <2>1. PlanInv'
    BY <1>1 DEF CatalogInv, MoveInv, PlanInv, Tallied
  <2>2. ASSUME NEW t \in Requests PROVE Migrates(req[t])'
    <3>1. CASE t = r
      BY <1>1, <3>1, IdleShape DEF Migrates, MigrationPoints
    <3>2. CASE t # r
      BY <1>1, <3>2 DEF Migrates, Tallied, CatalogInv, MoveInv
    <3> QED
      BY <3>1, <3>2
  <2> QED
    BY <2>1, <2>2 DEF MoveInv
<1>7. SparesInv'
  <2>1. ASSUME NEW t \in Requests PROVE Spares(req[t])'
    <3>1. CASE t = r
      BY <1>1, <3>1, IdleShape DEF Spares
    <3>2. CASE t # r
      BY <1>1, <3>2 DEF Spares, CatalogInv, SparesInv
    <3> QED
      BY <3>1, <3>2
  <2> QED
    BY <2>1 DEF SparesInv
<1> QED
  BY <1>1, <1>3, <1>4, <1>5, <1>6, <1>7 DEF CatalogInv

-----------------------------------------------------------------------------
(* Commands that begin, look and give up.                                  *)

LEMMA RejectKeeps ==
    ASSUME CatalogInv, NEW r \in Requests, ~At(r, "idle"), Rejected(r)
    PROVE  CatalogInv'
<1>1. Takes(r, Idle)
  BY StepTakes DEF CatalogInv, TablesOK, Rejected, Done, aux
<1>2. Fresh(Idle) /\ Approved(Idle) /\ Migrates(Idle)' /\ Spares(Idle)'
  BY IdleShape DEF Fresh, Approved, Migrates, Spares, LifecyclePoints, MigrationPoints
<1> QED
  BY <1>1, <1>2, IdleShape, ReadKeeps DEF Rejected, aux

\* A life cycle command about version v, at one of its first points.
LEMMA CommandKeeps ==
    ASSUME CatalogInv, NEW r \in Requests, NEW v \in Versions, NEW q, Begin(r, q), q \in CommandType,
           q.v = v, q.status = version[v].status, q.todo = {}, Cleared(v), version[v].status # None,
           \/ q.pc = "beta" /\ q.status = "DRAFT"
           \/ q.pc = "activate" /\ q.status \in {"DRAFT", "BETA"}
           \/ q.pc = "deprecate" /\ q.status = "ACTIVE"
           \/ q.pc = "check" /\ q.status \in {"BETA", "DEPRECATED"}
           \/ /\ q.pc = "rollback" /\ q.status = "DEPRECATED" /\ q.active \in Registered
              /\ version[q.active].status = "ACTIVE" /\ Cleared(q.active)
    PROVE  CatalogInv'
<1>1. Takes(r, q)
  BY BeginTakes DEF CatalogInv, TablesOK
<1>2. Shape(q)
  BY DEF Shape, LifecyclePoints, Registered
<1>3. Fresh(q) /\ Approved(q)
  BY DEF Fresh, Approved, Registered
<1>4. Migrates(q)' /\ Spares(q)'
  BY DEF Migrates, Spares, MigrationPoints
<1> QED
  BY <1>1, <1>2, <1>3, <1>4, ReadKeeps DEF Begin

LEMMA CommandIs ==
    ASSUME NEW op \in {"beta", "activate", "deprecate", "rollback"}, NEW v \in Versions,
           version[v].status \in StatusType, NEW c, c = Command(op, v)
    PROVE  /\ c \in CommandType
           /\ c.v = v /\ c.pc = op /\ c.status = version[v].status /\ c.todo = {}
<1>1. Idle \in CommandType /\ Idle.todo = {}
  BY IdleShape DEF Shape
<1>2. c = [Idle EXCEPT !.op = op, !.v = v, !.pc = op, !.status = version[v].status]
  BY DEF Command
<1> QED
  BY <1>1, <1>2 DEF CommandType, LifecyclePoints

\* What stands in the tables of a version that has left DRAFT, or may leave it.
LEMMA StandingIsCleared ==
    ASSUME CatalogInv, NEW v \in Versions, version[v].status \notin {None, "DRAFT"} \/ RequireApproval(v)
    PROVE  Cleared(v)
BY DEF CatalogInv, ApprovalInv, BreakingNeedsApproval, LevelsKnown, RequireApproval, Cleared

LEMMA StatusKnown ==
    ASSUME TablesOK, NEW v \in Versions
    PROVE  version[v].status \in StatusType \cup {None}
BY DEF TablesOK, VersionRow

LEMMA ActivateKeeps ==
    ASSUME CatalogInv, NEW r \in Requests, NEW v \in Versions, NEW to \in {"BETA", "ACTIVE"}, ActivateVersion(r, v, to)
    PROVE  CatalogInv'
<1> DEFINE op == IF to = "BETA" THEN "beta" ELSE "activate"
<1> PICK q : q = Command(op, v)
  OBVIOUS
<1>1. Begin(r, q) /\ RequireApproval(v) /\ version[v].status # None /\ version[v].status # "DEPRECATED"
      /\ to \in ALLOWED_TRANSITIONS[version[v].status]
  BY DEF ActivateVersion, CanMove
<1>2. version[v].status \in StatusType
  BY <1>1, StatusKnown DEF CatalogInv
<1>3. /\ op = "beta" => version[v].status = "DRAFT"
      /\ op = "activate" => version[v].status \in {"DRAFT", "BETA"}
  BY <1>1, <1>2 DEF ALLOWED_TRANSITIONS, StatusType
<1>4. /\ q \in CommandType /\ q.v = v /\ q.pc = op
      /\ q.status = version[v].status /\ q.todo = {}
  BY <1>2, CommandIs
<1>5. Cleared(v)
  BY <1>1, StandingIsCleared
<1> QED
  BY <1>1, <1>3, <1>4, <1>5, CommandKeeps

LEMMA DeprecateVersionKeeps ==
    ASSUME CatalogInv, NEW r \in Requests, NEW v \in Versions, DeprecateVersion(r, v)
    PROVE  CatalogInv'
<1> PICK q : q = Command("deprecate", v)
  OBVIOUS
<1>1. Begin(r, q) /\ version[v].status # None /\ "DEPRECATED" \in ALLOWED_TRANSITIONS[version[v].status]
  BY DEF DeprecateVersion, CanMove
<1>2. version[v].status \in StatusType
  BY <1>1, StatusKnown DEF CatalogInv
<1>3. version[v].status = "ACTIVE"
  BY <1>1, <1>2 DEF ALLOWED_TRANSITIONS, StatusType
<1>4. /\ q \in CommandType /\ q.v = v /\ q.pc = "deprecate"
      /\ q.status = version[v].status /\ q.todo = {}
  BY <1>2, CommandIs
<1>5. Cleared(v)
  BY <1>1, <1>3, StandingIsCleared
<1> QED
  BY <1>1, <1>3, <1>4, <1>5, CommandKeeps

LEMMA RetireVersionKeeps ==
    ASSUME CatalogInv, NEW r \in Requests, NEW v \in Versions, RetireVersion(r, v)
    PROVE  CatalogInv'
<1>1. PICK force \in BOOLEAN :
        /\ Begin(r, [Command("retire", v) EXCEPT !.pc = "check", !.force = force])
        /\ version[v].status # "ACTIVE" /\ version[v].status # None
        /\ "RETIRED" \in ALLOWED_TRANSITIONS[version[v].status]
  BY DEF RetireVersion, CanMove
<1> PICK q : q = [Command("retire", v) EXCEPT !.pc = "check", !.force = force]
  OBVIOUS
<1>2. version[v].status \in StatusType
  BY <1>1, StatusKnown DEF CatalogInv
<1>3. version[v].status \in {"BETA", "DEPRECATED"}
  BY <1>1, <1>2 DEF ALLOWED_TRANSITIONS, StatusType
<1>4. Idle \in CommandType /\ Idle.todo = {}
  BY IdleShape DEF Shape
<1>5. /\ q \in CommandType /\ q.v = v /\ q.pc = "check"
      /\ q.status = version[v].status /\ q.todo = {}
  <2>1. q = [Idle EXCEPT !.op = "retire", !.v = v, !.pc = "check", !.status = version[v].status, !.force = force]
    BY DEF Command
  <2> QED
    BY <1>2, <1>4, <2>1 DEF CommandType, LifecyclePoints
<1>6. Cleared(v)
  BY <1>1, <1>3, StandingIsCleared
<1> QED
  BY <1>1, <1>3, <1>4, <1>5, <1>6, CommandKeeps

LEMMA RollbackVersionKeeps ==
    ASSUME CatalogInv, NEW r \in Requests, NEW v \in Versions, RollbackVersion(r, v)
    PROVE  CatalogInv'
<1>1. PICK active \in InStatus({"ACTIVE"}) :
        version[v].status = "DEPRECATED" /\ Begin(r, [Command("rollback", v) EXCEPT !.active = active])
  BY DEF RollbackVersion
<1> PICK q : q = [Command("rollback", v) EXCEPT !.active = active]
  OBVIOUS
<1>2. active \in Versions /\ version[active].status = "ACTIVE" /\ active \in Registered
  BY Statuses DEF InStatus, Registered, StatusType
<1>3. version[v].status \in StatusType /\ version[v].status # None
  BY <1>1, Statuses DEF StatusType
<1> PICK c : c = Command("rollback", v)
  OBVIOUS
<1>4. /\ c \in CommandType /\ c.pc = "rollback"
      /\ c.v = v /\ c.status = version[v].status /\ c.todo = {}
  BY <1>3, CommandIs
<1>5. /\ q \in CommandType /\ q.v = v /\ q.pc = "rollback" /\ q.active = active
      /\ q.status = version[v].status /\ q.todo = {}
  BY <1>2, <1>4 DEF CommandType
<1>6. Cleared(v) /\ Cleared(active)
  BY <1>1, <1>2, StandingIsCleared, Statuses DEF StatusType
<1> QED
  BY <1>1, <1>2, <1>3, <1>4, <1>5, <1>6, CommandKeeps

\* executeMigration begins.
LEMMA ExecuteKeeps ==
    ASSUME CatalogInv, NEW r \in Requests, ExecuteMigration(r)
    PROVE  CatalogInv'
<1> DEFINE p == IF plan.level = "BREAKING" THEN "judge" ELSE "start"
           todo == {s \in Subs : plan.rows[s] = "PENDING"}
<1> PICK q : q = [Idle EXCEPT !.op = "execute", !.v = plan.to, !.pc = p, !.todo = todo]
  OBVIOUS
<1>1. plan.status # None /\ plan.status # "COMPLETED" /\ Begin(r, q)
  BY DEF ExecuteMigration
<1>2. Takes(r, q)
  BY <1>1, BeginTakes DEF CatalogInv, TablesOK
<1>3. q \in CommandType /\ q.pc = p /\ q.todo = todo /\ q.v = plan.to
  <2>1. Idle \in CommandType /\ p \in {"judge", "start"}
    BY IdleShape DEF Shape
  <2>2. plan.to \in Versions \cup {None}
    BY DEF CatalogInv, TablesOK, PlanType
  <2>3. todo \subseteq Subs
    OBVIOUS
  <2> HIDE DEF p, todo
  <2> QED
    BY <2>1, <2>2, <2>3 DEF CommandType, MigrationPoints
<1>4. Shape(q) /\ Fresh(q) /\ Approved(q) /\ Spares(q)'
  BY <1>3 DEF Shape, Fresh, Approved, Spares, LifecyclePoints
<1>5. Migrates(q)'
  BY <1>1, NoneIsNothing DEF Migrates, MigrationPoints, Begin
<1> QED
  BY <1>1, <1>2, <1>4, <1>5, ReadKeeps DEF Begin

LEMMA FindActiveKeeps ==
    ASSUME CatalogInv, NEW r \in Requests, FindActiveVersion(r)
    PROVE  CatalogInv'
<1>1. PICK active \in IF InStatus({"ACTIVE"}) = {} THEN {None} ELSE InStatus({"ACTIVE"}) :
        req' = [req EXCEPT ![r].active = active, ![r].pc = "supersede"]
  BY DEF FindActiveVersion
<1> PICK q : q = [req[r] EXCEPT !.active = active, !.pc = "supersede"]
  OBVIOUS
<1>2. Shape(req[r]) /\ req[r].pc = "activate" /\ mixed' = mixed
  BY DEF FindActiveVersion, At, aux, CatalogInv, RequestsOK
<1>3. req' = [req EXCEPT ![r] = q]
  BY <1>1
<1>4. active \in Versions \cup {None} /\ (active # None => version[active].status = "ACTIVE")
  BY DEF InStatus
<1>5. /\ q \in CommandType /\ q.v = req[r].v /\ q.pc = "supersede" /\ q.active = active
      /\ q.status = req[r].status /\ q.todo = req[r].todo
  BY <1>2, <1>4 DEF Shape, CommandType, LifecyclePoints
<1>6. Takes(r, q)
  BY <1>2, <1>3, StepTakes DEF CatalogInv, TablesOK, At
<1>7. q.v \in Versions /\ q.todo = {} /\ q.status \in {"DRAFT", "BETA"}
  BY <1>2, <1>5 DEF Shape, LifecyclePoints
<1>8. Shape(q)
  BY <1>4, <1>5, <1>7 DEF Shape
<1>9. ~mixed' => Fresh(q)
  BY <1>2, <1>4, <1>5 DEF Fresh, CatalogInv, StatesInv, LifecyclePoints
<1>10. Approved(q)
  <2>1. q.v \in Registered /\ Cleared(q.v)
    BY <1>2, <1>5 DEF CatalogInv, ApprovalInv, Approved, LifecyclePoints
  <2>2. active # None => active \in Registered /\ Cleared(active)
    BY <1>4, StandingIsCleared, Statuses DEF Registered, StatusType
  <2> QED
    BY <1>5, <2>1, <2>2 DEF Approved
<1>11. Migrates(q)' /\ Spares(q)'
  BY <1>5, <1>7 DEF Migrates, Spares, MigrationPoints
<1> QED
  BY <1>6, <1>8, <1>9, <1>10, <1>11, ReadKeeps DEF FindActiveVersion, aux

\* Whom the version is delivered to, once its guard has found nobody.
LEMMA UsersAreSpared ==
    ASSUME TablesOK, NEW v \in Versions, Blockers(v) = {}, NEW s \in Active, Served(s) = v
    PROVE  /\ s \in Pinned \/ s \in OptedIn
           /\ s \in Pinned \/ version[v].status = "BETA"
<1> DEFINE p == sub[s].policy
<1>1. p \in AllPolicies
  BY DEF TablesOK, SubRow, Active
<1>2. Resolve(p, "DELIVER", FALSE, None) # v
  BY DEF Blockers
<1>3. CASE s \in Pinned
  BY <1>3
<1>4. CASE s \notin Pinned
  <2>1. Resolve(p, "DELIVER", s \in OptedIn, None) = v
    BY <1>4 DEF Served
  <2>2. s \in OptedIn
    <3> SUFFICES ASSUME s \notin OptedIn PROVE FALSE
      OBVIOUS
    <3>1. (s \in OptedIn) = FALSE
      OBVIOUS
    <3> QED
      BY <1>2, <2>1, <3>1
  <2>3. p.type = "EXACT"
    BY <1>2, <2>1 DEF Resolve
  <2>4. /\ ResolveExact(p.value, s \in OptedIn) = v
        /\ ResolveExact(p.value, FALSE) # v
    BY <1>2, <2>1, <2>3 DEF Resolve
  <2>5. v # None
    BY NoneIsNothing
  <2>6. p.value = v /\ version[v].status = "BETA"
    BY <2>4, <2>5 DEF ResolveExact
  <2> QED
    BY <2>2, <2>6
<1> QED
  BY <1>3, <1>4

LEMMA CheckKeeps ==
    ASSUME CatalogInv, NEW r \in Requests, CheckBlockers(r)
    PROVE  CatalogInv'
<1>1. CASE Rejected(r)
  BY <1>1, RejectKeeps DEF CheckBlockers, At
<1>2. CASE ~Rejected(r)
  <2> PICK users : users = {s \in Active : Served(s) = req[r].v}
    OBVIOUS
  <2> PICK q : q = [req[r] EXCEPT !.users = users, !.pc = "retire"]
    OBVIOUS
  <2>1. /\ Shape(req[r]) /\ req[r].pc = "check" /\ mixed' = mixed
        /\ Blockers(req[r].v) = {} \/ req[r].force
        /\ req' = [req EXCEPT ![r].users = users, ![r].pc = "retire"]
        /\ UNCHANGED <<tables, sub, plan, breaking, dryRun, moved>>
    BY <1>2 DEF CheckBlockers, At, aux, CatalogInv, RequestsOK
  <2>2. req' = [req EXCEPT ![r] = q]
    BY <2>1
  <2>3. /\ q \in CommandType /\ q.v = req[r].v /\ q.pc = "retire" /\ q.force = req[r].force
        /\ q.status = req[r].status /\ q.todo = req[r].todo /\ q.users = users
    <3>1. users \subseteq Subs
      BY DEF Active
    <3> QED
      BY <2>1, <3>1 DEF Shape, CommandType, LifecyclePoints
  <2>4. Takes(r, q)
    BY <2>1, <2>2, StepTakes DEF CatalogInv, TablesOK, At
  <2>5. q.v \in Versions /\ q.todo = {} /\ q.status \in {"BETA", "DEPRECATED"}
    BY <2>1, <2>3 DEF Shape, LifecyclePoints
  <2>6. Shape(q)
    BY <2>3, <2>5 DEF Shape
  <2>7. ~mixed => version[q.v].status = q.status
    BY <2>1, <2>3 DEF Fresh, CatalogInv, StatesInv, LifecyclePoints
  <2>8. (~mixed' => Fresh(q)) /\ Approved(q)
    BY <2>1, <2>3, <2>7 DEF Fresh, CatalogInv, ApprovalInv, Approved, LifecyclePoints
  <2>9. Migrates(q)'
    BY <2>3, <2>5 DEF Migrates, MigrationPoints
  <2>10. Spares(q)'
    <3> SUFFICES ASSUME ~q.force
                 PROVE  users \subseteq Pinned \cup OptedIn /\ (mixed \/ users \subseteq Pinned \/ q.status = "BETA")
      BY <2>1, <2>3 DEF Spares
    <3>1. \A s \in users : /\ s \in Pinned \/ s \in OptedIn
                           /\ s \in Pinned \/ version[q.v].status = "BETA"
      BY <2>1, <2>3, <2>5, UsersAreSpared DEF CatalogInv
    <3> QED
      BY <2>7, <3>1
  <2> QED
    BY <2>1, <2>4, <2>6, <2>8, <2>9, <2>10, ReadKeeps
<1> QED
  BY <1>1, <1>2

LEMMA TallyKeeps ==
    ASSUME CatalogInv, NEW r \in Requests, Tally(r)
    PROVE  CatalogInv'
<1> PICK st : st = IF \A s \in Subs : plan.rows[s] \in {None, "MIGRATED"} THEN "COMPLETED" ELSE "BLOCKED"
  OBVIOUS
<1> PICK q : q = [req[r] EXCEPT !.pc = "finish", !.status = st]
  OBVIOUS
<1>1. /\ Shape(req[r]) /\ req[r].pc = "move" /\ mixed' = mixed
      /\ req' = [req EXCEPT ![r].pc = "finish", ![r].status = st]
      /\ UNCHANGED <<tables, sub, plan, breaking, dryRun, moved>>
  BY DEF Tally, At, aux, CatalogInv, RequestsOK
<1>2. req' = [req EXCEPT ![r] = q]
  BY <1>1
<1>3. st \in {"COMPLETED", "BLOCKED"} /\ (st = "COMPLETED" => Tallied)
  BY DEF Tallied
<1>4. q \in CommandType /\ q.pc = "finish" /\ q.status = st /\ q.todo = req[r].todo
  BY <1>1, <1>3 DEF Shape, CommandType, MigrationPoints
<1>5. Takes(r, q)
  BY <1>1, <1>2, StepTakes DEF CatalogInv, TablesOK, At
<1>6. Shape(q) /\ Fresh(q) /\ Approved(q) /\ Spares(q)'
  BY <1>3, <1>4 DEF Shape, Fresh, Approved, Spares, LifecyclePoints
<1>7. Migrates(q)'
  BY <1>1, <1>3, <1>4 DEF Migrates, CatalogInv, MoveInv, MigrationPoints, Tallied
<1> QED
  BY <1>1, <1>5, <1>6, <1>7, ReadKeeps

-----------------------------------------------------------------------------
(* Commands that write a version.                                          *)

\* The request of a life cycle command at the point where it writes.
LEMMA CommandStands ==
    ASSUME CatalogInv, NEW r \in Requests, req[r].pc \in LifecyclePoints
    PROVE  /\ Shape(req[r]) /\ req[r].v \in Versions /\ version[req[r].v].status # None /\ Cleared(req[r].v)
           /\ version[req[r].v] \in VersionRow /\ version[req[r].v].status \in StatusType
           /\ ~mixed => version[req[r].v].status = req[r].status
<1>1. Shape(req[r])
  BY DEF CatalogInv, RequestsOK
<1>2. req[r].v \in Versions
  BY <1>1 DEF Shape
<1>3. version[req[r].v] \in VersionRow /\ version[req[r].v].status \in StatusType \cup {None}
  BY <1>2 DEF CatalogInv, TablesOK, VersionRow
<1>4. Approved(req[r]) /\ (~mixed => Fresh(req[r]))
  BY DEF CatalogInv, ApprovalInv, StatesInv
<1> QED
  BY <1>1, <1>2, <1>3, <1>4 DEF Approved, Fresh, Registered

LEMMA PromoteKeeps ==
    ASSUME CatalogInv, NEW r \in Requests, PromoteToBeta(r)
    PROVE  CatalogInv'
<1> PICK v : v = req[r].v
  OBVIOUS
<1>1. req[r].pc = "beta" /\ version' = [version EXCEPT ![v].status = "BETA"]
  BY DEF PromoteToBeta, At, SetStatus
<1>2. UNCHANGED <<product, latest, approved, sub, plan, mixed, breaking, dryRun, moved>> /\ Takes(r, Idle)
  BY <1>1, StepTakes DEF PromoteToBeta, CatalogInv, TablesOK, At, Done, aux
<1>3. v \in Versions /\ version[v].status # None /\ Cleared(v) /\ (~mixed => version[v].status = "DRAFT")
  BY <1>1, CommandStands DEF LifecyclePoints, Shape
<1>4. /\ version' \in [Versions -> VersionRow]
      /\ version'[v].status = "BETA" /\ \A w \in Versions \ {v} : version'[w] = version[w]
  BY <1>1, <1>3 DEF CatalogInv, TablesOK, VersionRow, StatusType
<1>5. InStatus({"ACTIVE"})' = InStatus({"ACTIVE"}) \ {v}
  BY <1>3, <1>4 DEF InStatus
<1>6. OneVersion' /\ Pointer'
  BY <1>2, <1>3, <1>5 DEF CatalogInv, StatesInv, OneVersion, Pointer, InStatus
<1>7. None # "BETA"
  BY Statuses DEF StatusType
<1> QED
  BY <1>2, <1>3, <1>4, <1>6, <1>7, WriteKeeps DEF CatalogInv, TablesOK

LEMMA DeprecateKeeps ==
    ASSUME CatalogInv, NEW r \in Requests, Deprecate(r)
    PROVE  CatalogInv'
<1> PICK v : v = req[r].v
  OBVIOUS
<1>1. /\ req[r].pc = "deprecate"
      /\ version' = [version EXCEPT ![v].status = "DEPRECATED", ![v].grace = "running"]
  BY DEF Deprecate, At
<1>2. UNCHANGED <<latest, approved, sub, plan, mixed, breaking, dryRun, moved>> /\ Takes(r, Idle)
  BY <1>1, StepTakes DEF Deprecate, CatalogInv, TablesOK, At, Done, aux
<1>3. v \in Versions /\ version[v].status # None /\ Cleared(v) /\ (~mixed => version[v].status = "ACTIVE")
  BY <1>1, CommandStands DEF LifecyclePoints, Shape
<1>4. req[r].status = "ACTIVE" /\ product' = [product EXCEPT !.current = None]
  BY <1>1, CommandStands DEF LifecyclePoints, Shape, Deprecate
<1>5. /\ version' \in [Versions -> VersionRow]
      /\ version'[v].status = "DEPRECATED" /\ \A w \in Versions \ {v} : version'[w] = version[w]
  BY <1>1, <1>3 DEF CatalogInv, TablesOK, VersionRow, StatusType
<1>6. InStatus({"ACTIVE"})' = InStatus({"ACTIVE"}) \ {v}
  BY <1>3, <1>5 DEF InStatus
<1>7. product' \in [status : {"ACTIVE", "RETIRED"}, current : Versions \cup {None}] /\ product'.current = None
  BY <1>4 DEF CatalogInv, TablesOK
<1>8. OneVersion' /\ Pointer'
  <2>1. OneVersion'
    BY <1>6 DEF CatalogInv, StatesInv, OneVersion
  <2>2. ~mixed => v \in InStatus({"ACTIVE"})
    BY <1>3 DEF InStatus
  <2> QED
    BY <1>2, <1>6, <1>7, <2>1, <2>2 DEF CatalogInv, StatesInv, OneVersion, Pointer
<1>9. None # "DEPRECATED"
  BY Statuses DEF StatusType
<1> QED
  BY <1>2, <1>3, <1>5, <1>7, <1>8, <1>9, WriteKeeps

LEMMA RetireKeeps ==
    ASSUME CatalogInv, NEW r \in Requests, Retire(r)
    PROVE  CatalogInv'
<1> PICK v : v = req[r].v
  OBVIOUS
<1>1. req[r].pc = "retire" /\ version' = [version EXCEPT ![v].status = "RETIRED"]
  BY DEF Retire, At, SetStatus
<1>2. UNCHANGED <<latest, approved, sub, plan, mixed, breaking, dryRun, moved>> /\ Takes(r, Idle)
  BY <1>1, StepTakes DEF Retire, CatalogInv, TablesOK, At, Done, aux
<1>3. v \in Versions /\ version[v].status # None /\ Cleared(v) /\ (~mixed => version[v].status # "ACTIVE")
  BY <1>1, CommandStands DEF LifecyclePoints, Shape
<1>4. product' \in [status : {"ACTIVE", "RETIRED"}, current : Versions \cup {None}] /\ product'.current = product.current
  BY DEF CatalogInv, TablesOK, Retire
<1>5. /\ version' \in [Versions -> VersionRow]
      /\ version'[v].status = "RETIRED" /\ \A w \in Versions \ {v} : version'[w] = version[w]
  BY <1>1, <1>3 DEF CatalogInv, TablesOK, VersionRow, StatusType
<1>6. InStatus({"ACTIVE"})' = InStatus({"ACTIVE"}) \ {v}
  BY <1>3, <1>5 DEF InStatus
<1>7. OneVersion' /\ Pointer'
  BY <1>2, <1>3, <1>4, <1>6 DEF CatalogInv, StatesInv, OneVersion, Pointer, InStatus
<1>8. None # "RETIRED"
  BY Statuses DEF StatusType
<1> QED
  BY <1>2, <1>3, <1>4, <1>5, <1>7, <1>8, WriteKeeps

\* The unique index: once the version that leaves has been written, nothing but v becomes ACTIVE.
LEMMA IndexKeepsOne ==
    ASSUME NEW v \in Versions, NEW old, IndexAllows(v, old), InStatus({"ACTIVE"})' \subseteq InStatus({"ACTIVE"}) \cup {v},
           v \in InStatus({"ACTIVE"})', old # v => old \notin InStatus({"ACTIVE"})'
    PROVE  InStatus({"ACTIVE"})' = {v}
BY DEF IndexAllows

LEMMA NewVersionActive ==
    ASSUME CatalogInv, NEW v \in Versions, InStatus({"ACTIVE"})' = {v}, product' = [product EXCEPT !.current = v]
    PROVE  /\ OneVersion' /\ Pointer'
           /\ product' \in [status : {"ACTIVE", "RETIRED"}, current : Versions \cup {None}]
<1>1. product' \in [status : {"ACTIVE", "RETIRED"}, current : Versions \cup {None}] /\ product'.current = v
  BY DEF CatalogInv, TablesOK
<1>2. v # None
  BY NoneIsNothing
<1> QED
  BY <1>1, <1>2 DEF OneVersion, Pointer

LEMMA SupersedeKeeps ==
    ASSUME CatalogInv, NEW r \in Requests, Supersede(r)
    PROVE  CatalogInv'
<1>1. CASE Rejected(r)
  BY <1>1, RejectKeeps DEF Supersede, At
<1>2. CASE ~Rejected(r)
  <2> PICK v : v = req[r].v
    OBVIOUS
  <2> PICK old : old = req[r].active
    OBVIOUS
  <2>1. /\ req[r].pc = "supersede" /\ IndexAllows(v, old)
        /\ version' = [w \in Versions |->
                  CASE w = v   -> [version[w] EXCEPT !.status = "ACTIVE", !.pred = old]
                    [] w = old /\ old # v -> [version[w] EXCEPT !.status = "DEPRECATED",
                                                !.grace = IF @ = None THEN "running" ELSE @]
                    [] OTHER   -> version[w]]
        /\ product' = [product EXCEPT !.current = v]
    BY <1>2 DEF Supersede, At
  <2>2. UNCHANGED <<latest, approved, sub, plan, mixed, breaking, dryRun, moved>> /\ Takes(r, Idle)
    BY <1>2, <2>1, StepTakes DEF Supersede, CatalogInv, TablesOK, At, Done, aux
  <2>3. v \in Versions /\ version[v].status # None /\ Cleared(v) /\ old \in Versions \cup {None}
    BY <2>1, CommandStands DEF LifecyclePoints, Shape
  <2>4. old \in Versions => version[old].status # None /\ Cleared(old)
    BY <2>1, NoneIsNothing DEF CatalogInv, ApprovalInv, Approved, Registered
  <2>5. \A w \in Versions : version[w] \in VersionRow
    BY DEF CatalogInv, TablesOK
  <2>6. /\ version'[v] \in VersionRow /\ version'[v].status = "ACTIVE"
        /\ \A w \in Versions : w = old /\ old # v => version'[w] \in VersionRow /\ version'[w].status = "DEPRECATED"
        /\ \A w \in Versions \ {v, old} : version'[w] = version[w]
    <3>1. version'[v] = [version[v] EXCEPT !.status = "ACTIVE", !.pred = old]
      BY <2>1, <2>3
    <3>2. ASSUME NEW w \in Versions, w = old, old # v
          PROVE  version'[w] = [version[w] EXCEPT !.status = "DEPRECATED", !.grace = IF @ = None THEN "running" ELSE @]
      BY <2>1, <3>2
    <3>3. \A w \in Versions \ {v, old} : version'[w] = version[w]
      BY <2>1
    <3>4. version'[v] \in VersionRow /\ version'[v].status = "ACTIVE"
      <4>1. version[v] \in VersionRow
        BY <2>3, <2>5
      <4> QED
        BY <2>3, <3>1, <4>1 DEF VersionRow, StatusType
    <3>5. ASSUME NEW w \in Versions, w = old, old # v
          PROVE  version'[w] \in VersionRow /\ version'[w].status = "DEPRECATED"
      <4> PICK g : g = IF version[w].grace = None THEN "running" ELSE version[w].grace
        OBVIOUS
      <4>1. version[w] \in VersionRow
        BY <2>5
      <4>2. version'[w] = [version[w] EXCEPT !.status = "DEPRECATED", !.grace = g]
        BY <3>2, <3>5, <4>1 DEF VersionRow
      <4>3. g \in {None, "running", "over"}
        BY <4>1 DEF VersionRow
      <4> QED
        BY <4>1, <4>2, <4>3 DEF VersionRow, StatusType
    <3> QED
      BY <3>3, <3>4, <3>5
  <2>7. version' \in [Versions -> VersionRow]
    BY <2>1, <2>5, <2>6
  <2>8. InStatus({"ACTIVE"})' = {v}
    <3>1. v \in InStatus({"ACTIVE"})' /\ (old # v => old \notin InStatus({"ACTIVE"})')
      BY <2>3, <2>6 DEF InStatus
    <3>2. InStatus({"ACTIVE"})' \subseteq InStatus({"ACTIVE"}) \cup {v}
      BY <2>6 DEF InStatus
    <3> QED
      BY <2>1, <2>3, <3>1, <3>2, IndexKeepsOne
  <2>9. /\ OneVersion' /\ Pointer'
        /\ product' \in [status : {"ACTIVE", "RETIRED"}, current : Versions \cup {None}]
    BY <2>1, <2>3, <2>8, NewVersionActive
  <2>10. None # "ACTIVE" /\ None # "DEPRECATED"
    BY Statuses DEF StatusType
  <2>11. ASSUME NEW w \in Versions, version'[w].status # version[w].status
         PROVE  version[w].status # None /\ version'[w].status # None /\ Cleared(w)
    BY <2>3, <2>4, <2>6, <2>10, <2>11
  <2> QED
    BY <2>2, <2>7, <2>9, <2>11, WriteKeeps
<1> QED
  BY <1>1, <1>2

LEMMA RollbackKeeps ==
    ASSUME CatalogInv, NEW r \in Requests, Rollback(r)
    PROVE  CatalogInv'
<1>1. CASE Rejected(r)
  BY <1>1, RejectKeeps DEF Rollback, At
<1>2. CASE ~Rejected(r)
  <2> PICK v : v = req[r].v
    OBVIOUS
  <2> PICK old : old = req[r].active
    OBVIOUS
  <2>1. /\ req[r].pc = "rollback" /\ IndexAllows(v, old)
        /\ version' = [version EXCEPT ![old].status = "DEPRECATED", ![old].grace = "running", ![v].status = "ACTIVE"]
        /\ product' = [product EXCEPT !.current = v]
    BY <1>2 DEF Rollback, At
  <2>2. UNCHANGED <<latest, approved, sub, plan, mixed, breaking, dryRun, moved>> /\ Takes(r, Idle)
    BY <1>2, <2>1, StepTakes DEF Rollback, CatalogInv, TablesOK, At, Done, aux
  <2>3. v \in Versions /\ version[v].status # None /\ Cleared(v) /\ old \in Versions
    BY <2>1, CommandStands DEF LifecyclePoints, Shape
  <2>4. version[old].status # None /\ Cleared(old)
    BY <2>1, <2>3, NoneIsNothing DEF CatalogInv, ApprovalInv, Approved, Registered
  <2>5. version \in [Versions -> VersionRow]
    BY DEF CatalogInv, TablesOK
  <2>6. /\ version' \in [Versions -> VersionRow] /\ version'[v].status = "ACTIVE"
        /\ old # v => version'[old].status = "DEPRECATED"
        /\ \A w \in Versions \ {v, old} : version'[w] = version[w]
    <3>1. \A w \in Versions \ {v, old} : version'[w] = version[w]
      BY <2>1, <2>5
    <3>2. old # v => version'[old] = [version[old] EXCEPT !.status = "DEPRECATED", !.grace = "running"]
      BY <2>1, <2>3, <2>5 DEF VersionRow
    <3>3. version'[v] = [version[v] EXCEPT !.status = "ACTIVE", !.grace = IF v = old THEN "running" ELSE @]
      BY <2>1, <2>3, <2>5 DEF VersionRow
    <3>4. version[v] \in VersionRow /\ version[old] \in VersionRow
      BY <2>3, <2>5
    <3>5. version'[v] \in VersionRow /\ version'[v].status = "ACTIVE"
      BY <3>3, <3>4 DEF VersionRow, StatusType
    <3>6. old # v => version'[old] \in VersionRow /\ version'[old].status = "DEPRECATED"
      BY <3>2, <3>4 DEF VersionRow, StatusType
    <3>7. \A w \in Versions : version'[w] \in VersionRow
      BY <2>5, <3>1, <3>5, <3>6
    <3>8. version' = [w \in Versions |-> version'[w]]
      BY <2>1, <2>5
    <3> QED
      BY <3>1, <3>5, <3>6, <3>7, <3>8
  <2>7. InStatus({"ACTIVE"})' = {v}
    <3>1. v \in InStatus({"ACTIVE"})' /\ (old # v => old \notin InStatus({"ACTIVE"})')
      BY <2>3, <2>6 DEF InStatus
    <3>2. InStatus({"ACTIVE"})' \subseteq InStatus({"ACTIVE"}) \cup {v}
      BY <2>6 DEF InStatus
    <3> QED
      BY <2>1, <2>3, <3>1, <3>2, IndexKeepsOne
  <2>8. /\ OneVersion' /\ Pointer'
        /\ product' \in [status : {"ACTIVE", "RETIRED"}, current : Versions \cup {None}]
    BY <2>1, <2>3, <2>7, NewVersionActive
  <2>9. None # "ACTIVE" /\ None # "DEPRECATED"
    BY Statuses DEF StatusType
  <2>10. ASSUME NEW w \in Versions, version'[w].status # version[w].status
         PROVE  version[w].status # None /\ version'[w].status # None /\ Cleared(w)
    BY <2>3, <2>4, <2>6, <2>9, <2>10
  <2> QED
    BY <2>2, <2>6, <2>8, <2>10, WriteKeeps
<1> QED
  BY <1>1, <1>2

-----------------------------------------------------------------------------
(* Migration.                                                              *)

\* A migration that goes on with q and writes its plan: what it keeps of the rest.
LEMMA MigrationKeeps ==
    ASSUME CatalogInv, NEW r \in Requests, NEW q, Shape(q), q.pc \notin LifecyclePoints, Takes(r, q), mixed' = mixed,
           UNCHANGED <<tables, breaking, dryRun>>,
           sub' \in [Subs -> SubRow], \A s \in Subs : sub'[s].last = sub[s].last,
           plan' \in PlanType, plan'.to = plan.to, plan.status # None, plan'.status # None, plan'.level = plan.level,
           moved \subseteq moved', PlanInv', Migrates(q)',
           \A s \in Subs : plan.rows[s] # None => plan'.rows[s] # None
    PROVE  CatalogInv'
<1> USE DEF tables
<1>1. /\ RequestsOK' /\ Lone' /\ req'[r] = q /\ \A t \in Requests \ {r} : req'[t] = req[t]
      /\ ~mixed' => ~mixed /\ \A t \in Requests \ {r} : req[t] = Idle
  BY TakenRequests DEF CatalogInv
<1>2. TablesOK'
  BY DEF CatalogInv, TablesOK, VersionRow, Registered, Versions
<1>3. StatesInv'
  <2>1. OneVersion' /\ Pointer'
    BY DEF CatalogInv, StatesInv, OneVersion, Pointer, InStatus
  <2>2. ASSUME NEW t \in Requests, ~mixed' PROVE Fresh(req[t])'
    <3>1. CASE t = r
      BY <1>1, <2>2, <3>1 DEF Fresh, LifecyclePoints
    <3>2. CASE t # r
      BY <1>1, <2>2, <3>2 DEF Fresh, CatalogInv, StatesInv
    <3> QED
      BY <3>1, <3>2
  <2> QED
    BY <2>1, <2>2 DEF StatesInv
<1>4. ApprovalInv'
  <2>1. BreakingNeedsApproval' /\ LevelsKnown'
    BY DEF CatalogInv, ApprovalInv, BreakingNeedsApproval, LevelsKnown
  <2>2. ASSUME NEW t \in Requests PROVE Approved(req[t])'
    <3>1. CASE t = r
      BY <1>1, <3>1 DEF Approved, LifecyclePoints
    <3>2. CASE t # r
      BY <1>1, <3>2 DEF Approved, Registered, Cleared, CatalogInv, ApprovalInv
    <3> QED
      BY <3>1, <3>2
  <2> QED
    BY <2>1, <2>2 DEF ApprovalInv
<1>5. MoveInv'
  <2>1. ASSUME NEW t \in Requests PROVE Migrates(req[t])'
    <3>1. CASE t = r
      BY <1>1, <3>1 DEF Migrates, Tallied
    <3>2. CASE t # r /\ mixed
      <4>1. req'[t] = req[t] /\ mixed' /\ req[t].todo \subseteq Subs /\ Migrates(req[t])
        BY <1>1, <3>2 DEF CatalogInv, MoveInv, RequestsOK, CommandType
      <4> QED
        BY <4>1, <3>2 DEF Migrates, MigrationPoints
    <3>3. CASE t # r /\ ~mixed
      <4>1. req'[t] = Idle
        BY <1>1, <3>3
      <4> QED
        BY <4>1, IdleShape DEF Migrates, MigrationPoints
    <3> QED
      BY <3>1, <3>2, <3>3
  <2> QED
    BY <2>1 DEF MoveInv
<1>6. SparesInv'
  <2>1. ASSUME NEW t \in Requests PROVE Spares(req[t])'
    <3>1. CASE t = r
      BY <1>1, <3>1 DEF Spares, LifecyclePoints
    <3>2. CASE t # r
      BY <1>1, <3>2 DEF Spares, CatalogInv, SparesInv
    <3> QED
      BY <3>1, <3>2
  <2> QED
    BY <2>1 DEF SparesInv
<1> QED
  BY <1>1, <1>2, <1>3, <1>4, <1>5, <1>6 DEF CatalogInv

LEMMA IdleMigrates == Migrates(Idle)' /\ Idle.pc \notin LifecyclePoints /\ Shape(Idle)
BY IdleShape DEF Migrates, MigrationPoints, LifecyclePoints

LEMMA MigrationStands ==
    ASSUME CatalogInv, NEW r \in Requests, req[r].pc \in MigrationPoints
    PROVE  /\ Shape(req[r]) /\ Migrates(req[r]) /\ ~At(r, "idle")
           /\ plan \in PlanType /\ plan.status # None /\ plan.to \in Versions /\ plan.rows \in [Subs -> PlanRows]
           /\ ~mixed => plan.status # "COMPLETED"
           /\ req[r].pc = "judge" <=> plan.level = "BREAKING"
<1>1. Shape(req[r]) /\ Migrates(req[r])
  BY DEF CatalogInv, RequestsOK, MoveInv
<1>2. plan \in PlanType /\ (plan.status # None => plan.to \in Versions)
  BY DEF CatalogInv, TablesOK
<1> QED
  BY <1>1, <1>2 DEF Migrates, PlanType, At, MigrationPoints

\* The status of a plan is written, and nothing else of it.
LEMMA StatusWritten ==
    ASSUME CatalogInv, plan.status # None,
           NEW st \in {"IN_PROGRESS", "COMPLETED", "BLOCKED"}, plan' = [plan EXCEPT !.status = st],
           UNCHANGED <<mixed, moved>>, st = "COMPLETED" /\ ~mixed => Tallied
    PROVE  /\ plan' \in PlanType /\ plan'.to = plan.to /\ plan'.status = st /\ plan'.status # None
           /\ plan'.level = plan.level /\ plan'.rows = plan.rows /\ PlanInv'
<1>1. /\ plan' \in PlanType /\ plan'.to = plan.to /\ plan'.status = st
      /\ plan'.level = plan.level /\ plan'.rows = plan.rows
  BY DEF CatalogInv, TablesOK, PlanType
<1>2. st # None
  BY NoneIsNothing
<1>3. PlanInv'
  BY <1>1, <1>2 DEF CatalogInv, MoveInv, PlanInv, Tallied
<1> QED
  BY <1>1, <1>2, <1>3

LEMMA JudgeKeeps ==
    ASSUME CatalogInv, NEW r \in Requests, JudgeBreaking(r)
    PROVE  CatalogInv'
<1> PICK st : st = IF req[r].todo = {} THEN "COMPLETED" ELSE "BLOCKED"
  OBVIOUS
<1>1. req[r].pc = "judge" /\ plan' = [plan EXCEPT !.status = st]
  BY DEF JudgeBreaking, At
<1>2. UNCHANGED <<tables, sub, mixed, breaking, dryRun, moved>> /\ Takes(r, Idle)
  BY <1>1, StepTakes DEF JudgeBreaking, CatalogInv, TablesOK, At, Done, aux
<1>3. Migrates(req[r]) /\ plan.status # None /\ plan.level = "BREAKING"
  BY <1>1, MigrationStands DEF MigrationPoints
<1>4. st = "COMPLETED" /\ ~mixed => Tallied
  <2>1. \A s \in Subs : plan.rows[s] \in {None, "PENDING"}
    BY <1>3 DEF CatalogInv, MoveInv, PlanInv
  <2>2. st = "COMPLETED" /\ ~mixed => {s \in Subs : plan.rows[s] = "PENDING"} = {}
    BY <1>1, <1>3 DEF Migrates
  <2> QED
    BY <2>1, <2>2 DEF Tallied
<1>5. st \in {"IN_PROGRESS", "COMPLETED", "BLOCKED"}
  OBVIOUS
<1>6. /\ plan' \in PlanType /\ plan'.to = plan.to /\ plan'.status # None
      /\ plan'.level = plan.level /\ plan'.rows = plan.rows /\ PlanInv'
  BY <1>1, <1>2, <1>3, <1>4, <1>5, StatusWritten
<1>7. sub' \in [Subs -> SubRow] /\ \A s \in Subs : sub'[s].last = sub[s].last
  BY <1>2 DEF CatalogInv, TablesOK, SubRow, Versions
<1> QED
  BY <1>2, <1>3, <1>6, <1>7, IdleMigrates, MigrationKeeps

LEMMA FinishKeeps ==
    ASSUME CatalogInv, NEW r \in Requests, Finish(r)
    PROVE  CatalogInv'
<1> PICK st : st = req[r].status
  OBVIOUS
<1>1. req[r].pc = "finish" /\ plan' = [plan EXCEPT !.status = st]
  BY DEF Finish, At
<1>2. UNCHANGED <<tables, sub, mixed, breaking, dryRun, moved>> /\ Takes(r, Idle)
  BY <1>1, StepTakes DEF Finish, CatalogInv, TablesOK, At, Done, aux
<1>3. Shape(req[r]) /\ Migrates(req[r]) /\ plan.status # None
  BY <1>1, MigrationStands DEF MigrationPoints
<1>4. st \in {"IN_PROGRESS", "COMPLETED", "BLOCKED"}
  BY <1>1, <1>3 DEF Shape
<1>5. st = "COMPLETED" /\ ~mixed => Tallied
  BY <1>1, <1>3 DEF Migrates
<1>6. /\ plan' \in PlanType /\ plan'.to = plan.to /\ plan'.status # None
      /\ plan'.level = plan.level /\ plan'.rows = plan.rows /\ PlanInv'
  BY <1>1, <1>2, <1>3, <1>4, <1>5, StatusWritten
<1>7. sub' \in [Subs -> SubRow] /\ \A s \in Subs : sub'[s].last = sub[s].last
  BY <1>2 DEF CatalogInv, TablesOK, SubRow, Versions
<1> QED
  BY <1>2, <1>3, <1>6, <1>7, IdleMigrates, MigrationKeeps

LEMMA StartKeeps ==
    ASSUME CatalogInv, NEW r \in Requests, StartMoving(r)
    PROVE  CatalogInv'
<1> PICK q : q = [req[r] EXCEPT !.pc = "move"]
  OBVIOUS
<1>1. req[r].pc = "start" /\ plan' = [plan EXCEPT !.status = "IN_PROGRESS"] /\ req' = [req EXCEPT ![r].pc = "move"]
  BY DEF StartMoving, At, Goto
<1>2. req' = [req EXCEPT ![r] = q]
  BY <1>1
<1>3. UNCHANGED <<tables, sub, mixed, breaking, dryRun, moved>> /\ Takes(r, q)
  BY <1>1, <1>2, StepTakes DEF StartMoving, CatalogInv, TablesOK, At, aux
<1>4. Shape(req[r]) /\ Migrates(req[r]) /\ plan.status # None /\ plan.level # "BREAKING"
  BY <1>1, MigrationStands DEF MigrationPoints
<1>5. q \in CommandType /\ q.pc = "move" /\ q.todo = req[r].todo
  BY <1>4 DEF Shape, CommandType, MigrationPoints
<1>6. Shape(q) /\ q.pc \notin LifecyclePoints
  BY <1>5 DEF Shape, LifecyclePoints
<1>7. /\ plan' \in PlanType /\ plan'.to = plan.to /\ plan'.status = "IN_PROGRESS" /\ plan'.status # None
      /\ plan'.level = plan.level /\ plan'.rows = plan.rows /\ PlanInv'
  BY <1>1, <1>3, <1>4, StatusWritten
<1>8. Migrates(q)'
  BY <1>1, <1>4, <1>5, <1>7 DEF Migrates, MigrationPoints
<1>9. sub' \in [Subs -> SubRow] /\ \A s \in Subs : sub'[s].last = sub[s].last
  BY <1>3 DEF CatalogInv, TablesOK, SubRow, Versions
<1> QED
  BY <1>3, <1>4, <1>6, <1>7, <1>8, <1>9, MigrationKeeps

LEMMA MoveKeeps ==
    ASSUME CatalogInv, NEW r \in Requests, Move(r)
    PROVE  CatalogInv'
<1>1. PICK s \in req[r].todo, ok \in BOOLEAN :
        /\ req' = [req EXCEPT ![r].active = s, ![r].status = IF ok THEN "MIGRATED" ELSE "FAILED", ![r].pc = "record"]
        /\ IF ok THEN CanPin(s) /\ Pin(s) ELSE (CanPin(s) /\ Pin(s)) \/ UNCHANGED <<sub, moved>>
  BY DEF Move
<1> PICK st : st = IF ok THEN "MIGRATED" ELSE "FAILED"
  OBVIOUS
<1> PICK q : q = [req[r] EXCEPT !.active = s, !.status = st, !.pc = "record"]
  OBVIOUS
<1>2. req[r].pc = "move" /\ req' = [req EXCEPT ![r] = q] /\ UNCHANGED <<tables, plan, mixed, breaking, dryRun>>
  BY <1>1 DEF Move, At
<1>3. Takes(r, q)
  BY <1>2, StepTakes DEF CatalogInv, TablesOK, At
<1>4. /\ Shape(req[r]) /\ Migrates(req[r]) /\ plan.status # None /\ plan.level # "BREAKING"
      /\ plan.to \in Versions /\ plan \in PlanType
  BY <1>2, MigrationStands DEF MigrationPoints
<1>5. s \in Subs
  BY <1>4 DEF Shape, CommandType
<1>6. q \in CommandType /\ q.pc = "record" /\ q.todo = req[r].todo /\ q.active = s /\ q.status = st
  BY <1>4, <1>5 DEF Shape, CommandType, MigrationPoints
<1>7. Shape(q) /\ q.pc \notin LifecyclePoints
  BY <1>6 DEF Shape, LifecyclePoints
<1>8. moved \subseteq moved' /\ (ok => s \in moved')
  BY <1>1 DEF Pin
<1>9. sub' \in [Subs -> SubRow] /\ \A u \in Subs : sub'[u].last = sub[u].last
  <2>1. sub \in [Subs -> SubRow]
    BY DEF CatalogInv, TablesOK
  <2>2. [type |-> "EXACT", value |-> plan.to] \in AllPolicies
    BY <1>4 DEF AllPolicies
  <2>3. CASE sub' = [sub EXCEPT ![s].policy = [type |-> "EXACT", value |-> plan.to]]
    BY <1>5, <2>1, <2>2, <2>3 DEF SubRow
  <2>4. CASE sub' = sub
    BY <2>1, <2>4 DEF SubRow, Versions
  <2> QED
    BY <1>1, <2>3, <2>4 DEF Pin
<1>10. PlanInv'
  BY <1>2, <1>8 DEF CatalogInv, MoveInv, PlanInv, Tallied
<1>11. Migrates(q)'
  BY <1>2, <1>4, <1>6, <1>8 DEF Migrates, MigrationPoints
<1>12. plan' \in PlanType
  BY <1>2, <1>4 DEF PlanType, Versions
<1> QED
  BY <1>2, <1>3, <1>4, <1>7, <1>8, <1>9, <1>10, <1>11, <1>12, MigrationKeeps

LEMMA RecordKeeps ==
    ASSUME CatalogInv, NEW r \in Requests, RecordMove(r)
    PROVE  CatalogInv'
<1> PICK s : s = req[r].active
  OBVIOUS
<1> PICK q : q = [req[r] EXCEPT !.todo = @ \ {s}, !.active = None, !.pc = "move"]
  OBVIOUS
<1>1. /\ req[r].pc = "record" /\ UNCHANGED <<tables, sub, mixed, breaking, dryRun, moved>>
      /\ plan' = [plan EXCEPT !.rows[s] = req[r].status]
      /\ req' = [req EXCEPT ![r].todo = @ \ {s}, ![r].active = None, ![r].pc = "move"]
  BY DEF RecordMove, At, aux
<1>2. req' = [req EXCEPT ![r] = q]
  BY <1>1
<1>3. Takes(r, q)
  BY <1>1, <1>2, StepTakes DEF CatalogInv, TablesOK, At
<1>4. /\ Shape(req[r]) /\ Migrates(req[r]) /\ plan.status # None /\ plan.level # "BREAKING"
      /\ plan \in PlanType /\ plan.rows \in [Subs -> PlanRows] /\ (~mixed => plan.status # "COMPLETED")
  BY <1>1, MigrationStands DEF MigrationPoints
<1>5. s \in Subs /\ req[r].status \in {"MIGRATED", "FAILED"} /\ (req[r].status = "MIGRATED" => s \in moved)
  BY <1>1, <1>4 DEF Shape, CommandType, Migrates
<1>6. q \in CommandType /\ q.pc = "move" /\ q.todo = req[r].todo \ {s}
  BY <1>4 DEF Shape, CommandType, MigrationPoints
<1>7. Shape(q) /\ q.pc \notin LifecyclePoints
  BY <1>6 DEF Shape, LifecyclePoints
<1>8. /\ plan' \in PlanType /\ plan'.to = plan.to /\ plan'.status = plan.status /\ plan'.level = plan.level
      /\ plan'.rows[s] = req[r].status /\ \A u \in Subs \ {s} : plan'.rows[u] = plan.rows[u]
  BY <1>1, <1>4, <1>5 DEF PlanType, PlanRows
<1>9. \A u \in Subs : plan.rows[u] # None => plan'.rows[u] # None
  BY <1>5, <1>8, NoneIsNothing
<1>10. PlanInv'
  BY <1>1, <1>4, <1>5, <1>8 DEF CatalogInv, MoveInv, PlanInv
<1>11. Migrates(q)'
  BY <1>1, <1>4, <1>6, <1>8, <1>9 DEF Migrates, MigrationPoints
<1>12. sub' \in [Subs -> SubRow] /\ \A u \in Subs : sub'[u].last = sub[u].last
  BY <1>1 DEF CatalogInv, TablesOK, SubRow, Versions
<1> QED
  BY <1>1, <1>3, <1>4, <1>7, <1>8, <1>9, <1>10, <1>11, <1>12, MigrationKeeps

-----------------------------------------------------------------------------
(* Registration, evaluation and approval; grace periods; subscriptions.    *)

\* No command takes part: what the commands have read must still hold of the tables.
LEMMA TablesKeep ==
    ASSUME CatalogInv, UNCHANGED <<req, mixed, product, plan, moved>>, TablesOK',
           InStatus({"ACTIVE"})' = InStatus({"ACTIVE"}), BreakingNeedsApproval', LevelsKnown',
           \A v \in Registered : /\ v \in Registered' /\ version'[v].status = version[v].status
                                 /\ Cleared(v) => Cleared(v)'
    PROVE  CatalogInv'
<1>1. RequestsOK' /\ Lone'
  BY DEF CatalogInv, RequestsOK, Lone, Shape, At, LifecyclePoints, MigrationPoints, Idle, CommandType, Versions, StatusType
<1>2. StatesInv'
  <2>1. OneVersion' /\ Pointer'
    BY DEF CatalogInv, StatesInv, OneVersion, Pointer
  <2>2. ASSUME NEW t \in Requests, ~mixed' PROVE Fresh(req[t])'
    <3>1. Fresh(req[t]) /\ Approved(req[t])
      BY <2>2 DEF CatalogInv, StatesInv, ApprovalInv
    <3> QED
      BY <3>1 DEF Fresh, Approved
  <2> QED
    BY <2>1, <2>2 DEF StatesInv
<1>3. ApprovalInv'
  <2>1. ASSUME NEW t \in Requests PROVE Approved(req[t])'
    <3>1. Approved(req[t])
      BY DEF CatalogInv, ApprovalInv
    <3> QED
      BY <3>1 DEF Approved
  <2> QED
    BY <2>1 DEF ApprovalInv
<1>4. MoveInv'
  BY DEF CatalogInv, MoveInv, PlanInv, Migrates, Tallied
<1>5. SparesInv'
  BY DEF CatalogInv, SparesInv, Spares
<1> QED
  BY <1>1, <1>2, <1>3, <1>4, <1>5 DEF CatalogInv

LEMMA RegisterKeeps ==
    ASSUME CatalogInv, NEW v \in Versions, Register(v)
    PROVE  CatalogInv'
<1>1. PICK level \in Levels :
        /\ latest' = [latest EXCEPT ![v] = level]
        /\ breaking' = IF level = "BREAKING" THEN breaking \cup {v} ELSE breaking
  BY DEF Register, Levels
<1>2. /\ UNCHANGED <<req, mixed, product, plan, moved, approved, sub, dryRun>> /\ v \notin Registered
      /\ version' = [version EXCEPT ![v] = [status |-> "DRAFT", pred |-> v - 1, grace |-> None]]
  BY DEF Register
<1>3. [status |-> "DRAFT", pred |-> v - 1, grace |-> None] \in VersionRow
  <2>1. v - 1 \in {0, None} \cup Versions
    BY VersionsAreNumbered DEF Versions
  <2> QED
    BY <2>1 DEF VersionRow, StatusType
<1>4. /\ version' \in [Versions -> VersionRow] /\ version'[v].status = "DRAFT"
      /\ \A w \in Versions \ {v} : version'[w] = version[w]
  BY <1>2, <1>3 DEF CatalogInv, TablesOK
<1>5. Registered' = Registered \cup {v}
  BY <1>4, Statuses DEF Registered, StatusType
<1>6. TablesOK'
  <2>1. breaking' \subseteq Registered' /\ latest' \in [Versions -> Levels]
    BY <1>1, <1>5 DEF CatalogInv, TablesOK
  <2> QED
    BY <1>2, <1>4, <1>5, <2>1 DEF CatalogInv, TablesOK, Versions, SubRow, PlanType
<1>7. InStatus({"ACTIVE"})' = InStatus({"ACTIVE"})
  BY <1>2, <1>4, Statuses DEF InStatus, Registered, StatusType
<1>8. breaking \subseteq Registered /\ breaking \subseteq Versions \ {v}
  BY <1>2 DEF CatalogInv, TablesOK, Registered
<1>9. BreakingNeedsApproval'
  BY <1>1, <1>2, <1>4, <1>8 DEF CatalogInv, ApprovalInv, BreakingNeedsApproval
<1>10. LevelsKnown'
  BY <1>1, <1>2, <1>8 DEF CatalogInv, TablesOK, ApprovalInv, LevelsKnown
<1>11. \A w \in Registered : /\ w \in Registered' /\ version'[w].status = version[w].status
                             /\ Cleared(w) => Cleared(w)'
  BY <1>1, <1>2, <1>4, <1>5 DEF Cleared, Registered
<1> QED
  BY <1>2, <1>6, <1>7, <1>9, <1>10, <1>11, TablesKeep

LEMMA EvaluateKeeps ==
    ASSUME CatalogInv, NEW v \in Versions, Evaluate(v)
    PROVE  CatalogInv'
<1>1. PICK level \in Levels : latest' = [latest EXCEPT ![v] = level]
  BY DEF Evaluate, Levels
<1>2. UNCHANGED <<req, mixed, product, plan, moved, approved, sub, breaking, version>> /\ dryRun' = dryRun \cup {v}
  BY DEF Evaluate
<1>3. Registered' = Registered /\ InStatus({"ACTIVE"})' = InStatus({"ACTIVE"})
  BY <1>2 DEF Registered, InStatus
<1>4. TablesOK'
  BY <1>1, <1>2, <1>3 DEF CatalogInv, TablesOK, Versions, SubRow, PlanType, VersionRow
<1>5. BreakingNeedsApproval'
  BY <1>2 DEF CatalogInv, ApprovalInv, BreakingNeedsApproval
<1>6. LevelsKnown'
  <2>1. breaking \subseteq Versions
    BY DEF CatalogInv, TablesOK, Registered
  <2> QED
    BY <1>1, <1>2, <2>1 DEF CatalogInv, TablesOK, ApprovalInv, LevelsKnown
<1>7. \A w \in Registered : /\ w \in Registered' /\ version'[w].status = version[w].status
                            /\ Cleared(w) => Cleared(w)'
  BY <1>2, <1>3 DEF Cleared
<1> QED
  BY <1>2, <1>3, <1>4, <1>5, <1>6, <1>7, TablesKeep

LEMMA ApproveKeeps ==
    ASSUME CatalogInv, NEW v \in Versions, Approve(v)
    PROVE  CatalogInv'
<1>1. UNCHANGED <<req, mixed, product, plan, moved, latest, sub, breaking, version, dryRun>>
      /\ approved' = approved \cup {v}
  BY DEF Approve, aux
<1>2. Registered' = Registered /\ InStatus({"ACTIVE"})' = InStatus({"ACTIVE"})
  BY <1>1 DEF Registered, InStatus
<1>3. TablesOK'
  BY <1>1, <1>2 DEF CatalogInv, TablesOK, Versions, SubRow, PlanType, VersionRow
<1>4. BreakingNeedsApproval' /\ LevelsKnown'
  BY <1>1 DEF CatalogInv, ApprovalInv, BreakingNeedsApproval, LevelsKnown
<1>5. \A w \in Registered : /\ w \in Registered' /\ version'[w].status = version[w].status
                            /\ Cleared(w) => Cleared(w)'
  BY <1>1, <1>2 DEF Cleared
<1> QED
  BY <1>1, <1>2, <1>3, <1>4, <1>5, TablesKeep

LEMMA GraceKeeps ==
    ASSUME CatalogInv, NEW v \in Versions, GracePeriodEnds(v)
    PROVE  CatalogInv'
<1>1. UNCHANGED <<req, mixed, product, plan, moved, latest, sub, breaking, approved, dryRun>>
      /\ version' = [version EXCEPT ![v].grace = "over"]
  BY DEF GracePeriodEnds, aux
<1>2. version' \in [Versions -> VersionRow] /\ \A w \in Versions : version'[w].status = version[w].status
  BY <1>1 DEF CatalogInv, TablesOK, VersionRow
<1>3. Registered' = Registered /\ InStatus({"ACTIVE"})' = InStatus({"ACTIVE"})
  BY <1>2 DEF Registered, InStatus
<1>4. TablesOK'
  BY <1>1, <1>2, <1>3 DEF CatalogInv, TablesOK, Versions, SubRow, PlanType
<1>5. BreakingNeedsApproval' /\ LevelsKnown'
  <2>1. breaking \subseteq Versions
    BY DEF CatalogInv, TablesOK, Registered
  <2> QED
    BY <1>1, <1>2, <2>1 DEF CatalogInv, ApprovalInv, BreakingNeedsApproval, LevelsKnown
<1>6. \A w \in Registered : /\ w \in Registered' /\ version'[w].status = version[w].status
                            /\ Cleared(w) => Cleared(w)'
  BY <1>1, <1>2, <1>3 DEF Cleared, Registered
<1> QED
  BY <1>1, <1>3, <1>4, <1>5, <1>6, TablesKeep

LEMMA SubscriptionKeeps ==
    ASSUME CatalogInv, UNCHANGED <<tables, plan, req, aux>>, sub' \in [Subs -> SubRow],
           \A s \in Subs : sub'[s].last # None => sub'[s].last \in Registered
    PROVE  CatalogInv'
<1> USE DEF tables, aux
<1>1. Registered' = Registered /\ InStatus({"ACTIVE"})' = InStatus({"ACTIVE"})
  BY DEF Registered, InStatus
<1>2. TablesOK'
  BY <1>1 DEF CatalogInv, TablesOK, Versions, PlanType, VersionRow
<1>3. BreakingNeedsApproval' /\ LevelsKnown'
  BY DEF CatalogInv, ApprovalInv, BreakingNeedsApproval, LevelsKnown
<1>4. \A w \in Registered : /\ w \in Registered' /\ version'[w].status = version[w].status
                            /\ Cleared(w) => Cleared(w)'
  BY <1>1 DEF Cleared
<1> QED
  BY <1>1, <1>2, <1>3, <1>4, TablesKeep

LEMMA SubscribeKeeps ==
    ASSUME CatalogInv, NEW s \in Subs, Subscribe(s)
    PROVE  CatalogInv'
<1>1. PICK policy \in Policies : sub' = [sub EXCEPT ![s].status = "ACTIVE", ![s].policy = policy]
  BY DEF Subscribe
<1>2. policy \in AllPolicies
  BY PoliciesAreKnown
<1>3. sub \in [Subs -> SubRow] /\ \A t \in Subs : sub[t].last # None => sub[t].last \in Registered
  BY DEF CatalogInv, TablesOK
<1>4. sub' \in [Subs -> SubRow] /\ \A t \in Subs : sub'[t].last = sub[t].last
  BY <1>1, <1>2, <1>3 DEF SubRow
<1> QED
  BY <1>3, <1>4, SubscriptionKeeps DEF Subscribe

LEMMA DeliverKeeps ==
    ASSUME CatalogInv, NEW s \in Subs, Deliver(s)
    PROVE  CatalogInv'
<1> PICK v : v = Served(s)
  OBVIOUS
<1>1. v # None /\ sub' = [sub EXCEPT ![s].last = v]
  BY DEF Deliver
<1>2. sub \in [Subs -> SubRow] /\ \A t \in Subs : sub[t].last # None => sub[t].last \in Registered
  BY DEF CatalogInv, TablesOK
<1>3. v \in Registered
  <2>1. sub[s].policy \in AllPolicies
    BY <1>2 DEF SubRow
  <2> QED
    BY <1>1, <2>1, ResolvedIsRegistered DEF Served
<1>4. sub' \in [Subs -> SubRow] /\ sub'[s].last = v /\ \A t \in Subs \ {s} : sub'[t].last = sub[t].last
  <2>1. v \in Versions
    BY <1>3 DEF Registered
  <2> QED
    BY <1>1, <1>2, <2>1 DEF SubRow
<1> QED
  BY <1>2, <1>3, <1>4, SubscriptionKeeps DEF Deliver

LEMMA PlanKeeps ==
    ASSUME CatalogInv, NEW to \in Versions, CreateMigration(to)
    PROVE  CatalogInv'
<1> PICK rows : rows = [s \in Subs |->
        IF s \in Active /\ \/ sub[s].policy = [type |-> "EXACT", value |-> Highest(InStatus({"ACTIVE"}))]
                           \/ Resolve(sub[s].policy, "DELIVER", s \in OptedIn, None) = Highest(InStatus({"ACTIVE"}))
        THEN "PENDING" ELSE None]
  OBVIOUS
<1> PICK from : from = Highest(InStatus({"ACTIVE"}))
  OBVIOUS
<1>1. /\ plan.status = None /\ InStatus({"ACTIVE"}) # {}
      /\ plan' = [status |-> "PLANNED", from |-> from, to |-> to, level |-> latest[to], rows |-> rows]
      /\ UNCHANGED <<tables, sub, req, aux>>
  BY DEF CreateMigration
<1>2. rows \in [Subs -> PlanRows] /\ \A s \in Subs : rows[s] \in {None, "PENDING"}
  BY DEF PlanRows
<1>3. from \in Versions
  BY <1>1, HighestIsOne DEF InStatus
<1>4. /\ plan' \in PlanType /\ plan'.to = to /\ plan'.status = "PLANNED" /\ plan'.rows = rows
      /\ "PLANNED" # None
  BY <1>1, <1>2, <1>3, NoneIsNothing DEF PlanType, CatalogInv, TablesOK
<1> USE DEF tables, aux
<1>5. TablesOK'
  BY <1>1, <1>4 DEF CatalogInv, TablesOK, VersionRow, SubRow, Registered, Versions
<1>6. RequestsOK' /\ Lone'
  BY <1>1 DEF CatalogInv, RequestsOK, Lone, Shape, At, LifecyclePoints, MigrationPoints, Idle, CommandType, Versions, StatusType
<1>7. StatesInv' /\ ApprovalInv' /\ SparesInv'
  <2>1. StatesInv'
    BY <1>1 DEF CatalogInv, StatesInv, OneVersion, Pointer, InStatus, Fresh
  <2>2. ApprovalInv'
    BY <1>1 DEF CatalogInv, ApprovalInv, BreakingNeedsApproval, LevelsKnown, Approved, Cleared, Registered
  <2>3. SparesInv'
    BY <1>1 DEF CatalogInv, SparesInv, Spares
  <2> QED
    BY <2>1, <2>2, <2>3
<1>8. MoveInv'
  <2>1. PlanInv'
    BY <1>2, <1>4, NoneIsNothing DEF PlanInv, Tallied
  <2>2. ASSUME NEW t \in Requests PROVE Migrates(req[t])'
    <3>1. req[t].pc \notin MigrationPoints /\ req[t].todo = {}
      BY <1>1 DEF CatalogInv, MoveInv, Migrates
    <3> QED
      BY <1>1, <3>1 DEF Migrates, MigrationPoints
  <2> QED
    BY <2>1, <2>2 DEF MoveInv
<1> QED
  BY <1>5, <1>6, <1>7, <1>8 DEF CatalogInv

-----------------------------------------------------------------------------
(* The invariant, and what follows from it.                                *)

LEMMA CatalogInit ==
    ASSUME Init
    PROVE  CatalogInv
<1>1. \A v \in Versions : version[v].status = IF v = 1 THEN "ACTIVE" ELSE None
  BY DEF Init
<1>2. 1 \in Versions /\ "ACTIVE" # None /\ 1 # None
  BY VersionsAreNumbered, Statuses, NoneIsNothing DEF Versions, StatusType
<1>3. InStatus({"ACTIVE"}) = {1}
  BY <1>1, <1>2 DEF InStatus
<1>4. \A r \in Requests : req[r] = Idle
  BY DEF Init
<1>5. TablesOK
  <2>1. version \in [Versions -> VersionRow]
    BY DEF Init, VersionRow, StatusType
  <2>2. sub \in [Subs -> SubRow] /\ \A s \in Subs : sub[s].last = None
    BY DEF Init, SubRow, AllPolicies
  <2>3. plan \in PlanType /\ plan.status = None
    BY DEF Init, PlanType, PlanRows
  <2>4. product \in [status : {"ACTIVE", "RETIRED"}, current : Versions \cup {None}]
    BY <1>2 DEF Init
  <2> QED
    BY <2>1, <2>2, <2>3, <2>4 DEF Init, TablesOK, Levels
<1>6. RequestsOK
  BY <1>4, IdleShape DEF Init, RequestsOK, Shape
<1>7. Lone
  BY <1>4, IdleShape DEF Lone, At
<1>8. StatesInv
  <2>1. \A r \in Requests : Fresh(req[r])
    BY <1>4, IdleShape DEF Fresh, LifecyclePoints
  <2> QED
    BY <1>2, <1>3, <2>1 DEF StatesInv, OneVersion, Pointer, Init
<1>9. ApprovalInv
  <2>1. \A r \in Requests : Approved(req[r])
    BY <1>4, IdleShape DEF Approved, LifecyclePoints
  <2> QED
    BY <2>1 DEF ApprovalInv, BreakingNeedsApproval, LevelsKnown, Init
<1>10. MoveInv
  <2>1. \A r \in Requests : Migrates(req[r])
    BY <1>4, IdleShape DEF Migrates, MigrationPoints
  <2>2. PlanInv
    BY NoneIsNothing DEF PlanInv, Init, Tallied
  <2> QED
    BY <2>1, <2>2 DEF MoveInv
<1>11. SparesInv
  BY <1>4, IdleShape DEF SparesInv, Spares
<1> QED
  BY <1>5, <1>6, <1>7, <1>8, <1>9, <1>10, <1>11 DEF CatalogInv

LEMMA CatalogStutter ==
    ASSUME CatalogInv, UNCHANGED vars
    PROVE  CatalogInv'
<1>1. sub' \in [Subs -> SubRow] /\ \A s \in Subs : sub'[s].last # None => sub'[s].last \in Registered
  BY DEF vars, CatalogInv, TablesOK, SubRow, Versions
<1> QED
  BY <1>1, SubscriptionKeeps DEF vars

LEMMA CatalogStep ==
    ASSUME CatalogInv, Next
    PROVE  CatalogInv'
<1>1. CASE \E r \in Requests : Lifecycle(r)
  <2> PICK r \in Requests : Lifecycle(r)
    BY <1>1
  <2>1. CASE \E v \in Versions : \/ ActivateVersion(r, v, "BETA") \/ ActivateVersion(r, v, "ACTIVE")
                                 \/ DeprecateVersion(r, v) \/ RollbackVersion(r, v) \/ RetireVersion(r, v)
    BY <2>1, ActivateKeeps, DeprecateVersionKeeps, RollbackVersionKeeps, RetireVersionKeeps
  <2>2. CASE PromoteToBeta(r) \/ FindActiveVersion(r) \/ Supersede(r) \/ Deprecate(r)
    BY <2>2, PromoteKeeps, FindActiveKeeps, SupersedeKeeps, DeprecateKeeps
  <2>3. CASE Rollback(r) \/ CheckBlockers(r) \/ Retire(r)
    BY <2>3, RollbackKeeps, CheckKeeps, RetireKeeps
  <2> QED
    BY <2>1, <2>2, <2>3 DEF Lifecycle
<1>2. CASE \E r \in Requests : ExecuteMigration(r) \/ MigrationStep(r)
  BY <1>2, ExecuteKeeps, JudgeKeeps, StartKeeps, MoveKeeps, RecordKeeps, TallyKeeps, FinishKeeps DEF MigrationStep
<1>3. CASE \E v \in Versions : Register(v) \/ Evaluate(v) \/ Approve(v) \/ GracePeriodEnds(v) \/ CreateMigration(v)
  BY <1>3, RegisterKeeps, EvaluateKeeps, ApproveKeeps, GraceKeeps, PlanKeeps
<1>4. CASE \E s \in Subs : Subscribe(s) \/ Deliver(s)
  BY <1>4, SubscribeKeeps, DeliverKeeps
<1> QED
  BY <1>1, <1>2, <1>3, <1>4 DEF Next

\* The inductive invariant: the tables agree with each other and with every copy a command
\* decides on, as far as commands come one after the other.
THEOREM CatalogCorrect == Spec => []CatalogInv
<1>1. Init => CatalogInv
  BY CatalogInit
<1>2. CatalogInv /\ [Next]_vars => CatalogInv'
  BY CatalogStep, CatalogStutter
<1> QED
  BY <1>1, <1>2, PTL DEF Spec

\* A set without two elements has at most one.
LEMMA AtMostOne ==
    ASSUME NEW S, \A x, y \in S : x = y
    PROVE  Cardinality(S) <= 1
<1>1. CASE S = {}
  BY <1>1, FS_EmptySet
<1>2. CASE S # {}
  <2>1. PICK x \in S : TRUE
    BY <1>2
  <2>2. S = {x}
    BY <2>1
  <2>3. Cardinality({x}) = 1
    BY FS_Singleton
  <2> QED
    BY <2>2, <2>3
<1> QED
  BY <1>1, <1>2

\* A product has one ACTIVE version at most however commands overlap; as long as they do not,
\* current_active_version names it; and no BREAKING version has left DRAFT without an approval
\* or a later evaluation.
THEOREM VersionsStayConsistent == Spec => []VersionsAreConsistent
<1>1. CatalogInv => VersionsAreConsistent
  <2> SUFFICES ASSUME CatalogInv PROVE VersionsAreConsistent
    OBVIOUS
  <2>1. TypeOK
    <3>1. version \in [Versions -> [status : DOMAIN ALLOWED_TRANSITIONS \cup {None},
                                    pred : {0, None} \cup Versions, grace : {None, "running", "over"}]]
      BY Statuses DEF CatalogInv, TablesOK, VersionRow
    <3>2. /\ product.current \in Versions \cup {None}
          /\ approved \subseteq Versions /\ breaking \subseteq Registered
      BY DEF CatalogInv, TablesOK
    <3>3. \A s \in Subs : sub[s].policy \in AllPolicies /\ (sub[s].last # None => sub[s].last \in Registered)
      BY DEF CatalogInv, TablesOK, SubRow
    <3>4. \A r \in Requests : At(r, "idle") => req[r] = Idle
      BY DEF CatalogInv, RequestsOK, Shape, At
    <3>5. \A r \in Requests : req[r].todo \subseteq {s \in Subs : plan.rows[s] # None}
      BY DEF CatalogInv, RequestsOK, Shape, CommandType, MoveInv, Migrates
    <3> QED
      BY <3>1, <3>2, <3>3, <3>4, <3>5 DEF TypeOK
  <2>2. OneActive
    BY AtMostOne DEF CatalogInv, StatesInv, OneVersion, OneActive
  <2>3. PointerNamesActive /\ BreakingNeedsApproval
    BY DEF CatalogInv, StatesInv, Pointer, PointerNamesActive, ApprovalInv
  <2> QED
    BY <2>1, <2>2, <2>3 DEF VersionsAreConsistent
<1> QED
  BY <1>1, CatalogCorrect, PTL

\* An unforced retirement takes the version from nobody but a pinned or opted-in subscription,
\* and a plan reported COMPLETED has moved every subscription it lists.
THEOREM CommandsKeepTheirWordAlways == Spec => []CommandsKeepTheirWord
<1>1. CatalogInv => CommandsKeepTheirWord
  <2> SUFFICES ASSUME CatalogInv PROVE CommandsKeepTheirWord
    OBVIOUS
  <2>1. RetirementSparesUsers
    BY DEF CatalogInv, SparesInv, Spares, RetirementSparesUsers, At
  <2>2. CompletedMeansMoved
    BY DEF CatalogInv, MoveInv, PlanInv, Tallied, CompletedMeansMoved
  <2> QED
    BY <2>1, <2>2 DEF CommandsKeepTheirWord
<1> QED
  BY <1>1, CatalogCorrect, PTL

\* As long as commands come one after the other, a version moves along the state machine only:
\* every write is decided on a status the version still has.
THEOREM LifecycleStaysLegal == Spec => LifecycleIsLegal
<1> DEFINE Legal == ~mixed => \A v \in Registered : version'[v].status # version[v].status
                               => version'[v].status \in ALLOWED_TRANSITIONS[version[v].status]
<1>1. CatalogInv /\ [Next]_vars => Legal
  <2> SUFFICES ASSUME CatalogInv, [Next]_vars, ~mixed, NEW v \in Registered,
                      version'[v].status # version[v].status
               PROVE  version'[v].status \in ALLOWED_TRANSITIONS[version[v].status]
    OBVIOUS
  <2>1. v \in Versions /\ version \in [Versions -> VersionRow]
    BY DEF Registered, CatalogInv, TablesOK
  <2>2. /\ "BETA" \in ALLOWED_TRANSITIONS["DRAFT"] /\ "ACTIVE" \in ALLOWED_TRANSITIONS["DRAFT"]
        /\ "ACTIVE" \in ALLOWED_TRANSITIONS["BETA"] /\ "RETIRED" \in ALLOWED_TRANSITIONS["BETA"]
        /\ "DEPRECATED" \in ALLOWED_TRANSITIONS["ACTIVE"]
        /\ "RETIRED" \in ALLOWED_TRANSITIONS["DEPRECATED"] /\ "ACTIVE" \in ALLOWED_TRANSITIONS["DEPRECATED"]
    BY DEF ALLOWED_TRANSITIONS
  <2>3. ASSUME NEW r \in Requests, PromoteToBeta(r)
        PROVE  version'[v].status \in ALLOWED_TRANSITIONS[version[v].status]
    <3>1. req[r].pc = "beta" /\ version' = [version EXCEPT ![req[r].v].status = "BETA"]
      BY <2>3 DEF PromoteToBeta, At, SetStatus
    <3>2. req[r].v \in Versions /\ version[req[r].v].status = "DRAFT"
      BY <3>1, CommandStands DEF LifecyclePoints, Shape
    <3>3. v = req[r].v /\ version'[v].status = "BETA"
      BY <2>1, <3>1, <3>2 DEF VersionRow
    <3> QED
      BY <2>2, <3>2, <3>3
  <2>4. ASSUME NEW r \in Requests, Deprecate(r)
        PROVE  version'[v].status \in ALLOWED_TRANSITIONS[version[v].status]
    <3>1. /\ req[r].pc = "deprecate"
          /\ version' = [version EXCEPT ![req[r].v].status = "DEPRECATED", ![req[r].v].grace = "running"]
      BY <2>4 DEF Deprecate, At
    <3>2. req[r].v \in Versions /\ version[req[r].v].status = "ACTIVE"
      BY <3>1, CommandStands DEF LifecyclePoints, Shape
    <3>3. v = req[r].v /\ version'[v].status = "DEPRECATED"
      BY <2>1, <3>1, <3>2 DEF VersionRow
    <3> QED
      BY <2>2, <3>2, <3>3
  <2>5. ASSUME NEW r \in Requests, Retire(r)
        PROVE  version'[v].status \in ALLOWED_TRANSITIONS[version[v].status]
    <3>1. req[r].pc = "retire" /\ version' = [version EXCEPT ![req[r].v].status = "RETIRED"]
      BY <2>5 DEF Retire, At, SetStatus
    <3>2. req[r].v \in Versions /\ version[req[r].v].status \in {"BETA", "DEPRECATED"}
      BY <3>1, CommandStands DEF LifecyclePoints, Shape
    <3>3. v = req[r].v /\ version'[v].status = "RETIRED"
      BY <2>1, <3>1, <3>2 DEF VersionRow
    <3> QED
      BY <2>2, <3>2, <3>3
  <2>6. ASSUME NEW r \in Requests, Supersede(r)
        PROVE  version'[v].status \in ALLOWED_TRANSITIONS[version[v].status]
    <3>1. CASE version' = version
      BY <3>1
    <3>2. CASE version' # version
      <4> PICK n : n = req[r].v
        OBVIOUS
      <4> PICK old : old = req[r].active
        OBVIOUS
      <4>1. /\ req[r].pc = "supersede"
            /\ version' = [w \in Versions |->
                  CASE w = n   -> [version[w] EXCEPT !.status = "ACTIVE", !.pred = old]
                    [] w = old /\ old # n -> [version[w] EXCEPT !.status = "DEPRECATED",
                                                !.grace = IF @ = None THEN "running" ELSE @]
                    [] OTHER   -> version[w]]
        BY <2>6, <3>2 DEF Supersede, At, Rejected, tables
      <4>2. n \in Versions /\ version[n].status \in {"DRAFT", "BETA"} /\ old \in Versions \cup {None}
        BY <4>1, CommandStands DEF LifecyclePoints, Shape
      <4>3. old \in Versions => version[old].status = "ACTIVE"
        BY <4>1, NoneIsNothing DEF CatalogInv, StatesInv, Fresh
      <4>4. CASE v = n
        <5>1. version'[v] = [version[v] EXCEPT !.status = "ACTIVE", !.pred = old] /\ version[v] \in VersionRow
          BY <2>1, <4>1, <4>4
        <5>2. version'[v].status = "ACTIVE"
          BY <5>1 DEF VersionRow
        <5> QED
          BY <2>2, <4>2, <4>4, <5>2
      <4>5. CASE v = old /\ old # n
        <5> PICK g : g = IF version[v].grace = None THEN "running" ELSE version[v].grace
          OBVIOUS
        <5>1. version[v] \in VersionRow
          BY <2>1
        <5>2. version'[v] = [version[v] EXCEPT !.status = "DEPRECATED", !.grace = g]
          <6>1. version'[v] = [version[v] EXCEPT !.status = "DEPRECATED", !.grace = IF @ = None THEN "running" ELSE @]
            BY <2>1, <4>1, <4>5
          <6> QED
            BY <5>1, <6>1 DEF VersionRow
        <5>3. version'[v].status = "DEPRECATED"
          BY <5>1, <5>2 DEF VersionRow
        <5> QED
          BY <2>1, <2>2, <4>3, <4>5, <5>3
      <4>6. CASE v # n /\ v # old
        BY <2>1, <4>1, <4>6
      <4> QED
        BY <4>4, <4>5, <4>6
    <3> QED
      BY <3>1, <3>2
  <2>7. ASSUME NEW r \in Requests, Rollback(r)
        PROVE  version'[v].status \in ALLOWED_TRANSITIONS[version[v].status]
    <3>1. CASE version' = version
      BY <3>1
    <3>2. CASE version' # version
      <4> PICK n : n = req[r].v
        OBVIOUS
      <4> PICK old : old = req[r].active
        OBVIOUS
      <4>1. /\ req[r].pc = "rollback"
            /\ version' = [version EXCEPT ![old].status = "DEPRECATED", ![old].grace = "running", ![n].status = "ACTIVE"]
        BY <2>7, <3>2 DEF Rollback, At, Rejected, tables
      <4>2. n \in Versions /\ version[n].status = "DEPRECATED" /\ old \in Versions
        BY <4>1, CommandStands DEF LifecyclePoints, Shape
      <4>3. version[old].status = "ACTIVE"
        BY <4>1, <4>2, NoneIsNothing DEF CatalogInv, StatesInv, Fresh
      <4>4. old # n
        BY <4>2, <4>3
      <4>5. /\ version'[n].status = "ACTIVE" /\ version'[old].status = "DEPRECATED"
            /\ \A w \in Versions \ {n, old} : version'[w] = version[w]
        <5>1. version[n] \in VersionRow /\ version[old] \in VersionRow
          BY <2>1, <4>2
        <5>2. version'[n] = [version[n] EXCEPT !.status = "ACTIVE"]
          BY <2>1, <4>1, <4>2, <4>4
        <5>3. version'[old] = [version[old] EXCEPT !.status = "DEPRECATED", !.grace = "running"]
          BY <2>1, <4>1, <4>2, <4>4, <5>1 DEF VersionRow
        <5>4. \A w \in Versions \ {n, old} : version'[w] = version[w]
          BY <2>1, <4>1
        <5> QED
          BY <5>1, <5>2, <5>3, <5>4 DEF VersionRow
      <4> QED
        BY <2>1, <2>2, <4>2, <4>3, <4>5
    <3> QED
      BY <3>1, <3>2
  <2>8. ASSUME NEW w \in Versions, Register(w)
        PROVE  version'[v].status \in ALLOWED_TRANSITIONS[version[v].status]
    <3>1. w \notin Registered /\ version' = [version EXCEPT ![w] = [status |-> "DRAFT", pred |-> w - 1, grace |-> None]]
      BY <2>8 DEF Register
    <3>2. version'[v] = version[v]
      BY <2>1, <3>1
    <3> QED
      BY <3>2
  <2>9. ASSUME NEW w \in Versions, GracePeriodEnds(w)
        PROVE  version'[v].status \in ALLOWED_TRANSITIONS[version[v].status]
    <3>1. version'[v].status = version[v].status
      BY <2>1, <2>9 DEF GracePeriodEnds, VersionRow
    <3> QED
      BY <3>1
  <2>10. CASE version' = version
    BY <2>10
  <2>11. \/ version' = version
         \/ \E r \in Requests : PromoteToBeta(r) \/ Deprecate(r) \/ Retire(r) \/ Supersede(r) \/ Rollback(r)
         \/ \E w \in Versions : Register(w) \/ GracePeriodEnds(w)
    <3>1. CASE UNCHANGED vars
      BY <3>1 DEF vars, tables
    <3>2. CASE \E r \in Requests : Lifecycle(r)
      BY <3>2 DEF Lifecycle, ActivateVersion, DeprecateVersion, RollbackVersion, RetireVersion, Begin,
         FindActiveVersion, CheckBlockers, Rejected, tables
    <3>3. CASE \E r \in Requests : ExecuteMigration(r) \/ MigrationStep(r)
      BY <3>3 DEF ExecuteMigration, MigrationStep, JudgeBreaking, StartMoving, Move, RecordMove, Tally, Finish,
         Begin, tables
    <3>4. CASE \E w \in Versions : Register(w) \/ Evaluate(w) \/ Approve(w) \/ GracePeriodEnds(w) \/ CreateMigration(w)
      BY <3>4 DEF Evaluate, Approve, CreateMigration, tables
    <3>5. CASE \E s \in Subs : Subscribe(s) \/ Deliver(s)
      BY <3>5 DEF Subscribe, Deliver, tables
    <3> QED
      BY <3>1, <3>2, <3>3, <3>4, <3>5 DEF Next
  <2> QED
    BY <2>3, <2>4, <2>5, <2>6, <2>7, <2>8, <2>9, <2>10, <2>11
<1> QED
  BY <1>1, CatalogCorrect, PTL DEF Spec, LifecycleIsLegal

-----------------------------------------------------------------------------
(* ServiceConsole: the pages over other services *)

\* The operations and the statuses of the items of a kind.
OpsOf(k) ==
    CASE k = "ingestion"    -> {"ingest", "silver"}
      [] k = "run"          -> {"gold", "publish"}
      [] k = "job"          -> {"run"}
      [] k = "version"      -> {"activate", "beta", "deprecate", "rollback", "retire", "approve", "optin"}
      [] k = "migration"    -> {"create", "execute"}
      [] k = "subscription" -> {"subscribe", "pause", "resume", "cancel", "publishNow"}
      [] OTHER              -> {}
StatusesOf(k) ==
    CASE k = "ingestion"    -> {"NONE", "RUNNING", "FAILED", "COMPLETED"}
      [] k = "run"          -> {"COMPLETED"}
      [] k = "job"          -> {"PENDING", "RUNNING", "SUCCEEDED", "FAILED"}
      [] k = "version"      -> {"DRAFT", "BETA", "ACTIVE", "DEPRECATED", "RETIRED"}
      [] k = "migration"    -> {"NONE", "PLANNED", "IN_PROGRESS", "BLOCKED", "COMPLETED"}
      [] k = "subscription" -> {"NONE", "PENDING", "ACTIVE", "PAUSED", "SUSPENDED", "CANCELLED"}
      [] k = "execution"    -> {"RUNNING", "SUCCEEDED", "FAILED"}
      [] OTHER              -> {"EXPORTING", "READY", "FAILED", "SKIPPED_DUPLICATE"}
Kinds   == {"ingestion", "run", "job", "version", "migration", "subscription", "execution", "publication"}
Worked  == {"job", "ingestion"}   \* the kinds a worker or a poller takes up
AllOps  == LakehouseCalls \cup PublicationCalls \cup JobCalls \cup CatalogCalls \cup SubscriptionCalls \cup ScheduleCalls
Words   == (UNION {StatusesOf(k) : k \in Kinds}) \cup {"SKIPPED", "NOT_ENTITLED", "refused", "done", Empty} \cup Refusals
AnyFilter == Filters \cup {"ALL"}
Shown == on \cup {"pipelines"}   \* the pages that may be open
Flashes == [says : Words, red : BOOLEAN, of : 0..MaxCalls]
TabType == [page : Pages \cup {"unavailable", "error", "crashed", Empty}, filter : AnyFilter, due : SUBSET Items,
            rows : [Items -> Words], flash : Flashes, waiting : 0..MaxCalls]

ConsoleShape ==
    /\ there \subseteq Items /\ status \in [Items -> Words]
    /\ call \in [Calls -> [user : Users \cup {Empty}, op : AllOps \cup {Empty}, item : Items \cup {Empty},
                           pc : {"unmade", "sent", "running", "ran", "answered"}, result : Words, answer : Words]]
    /\ tab \in [Users -> TabType]

\* What a call is about, and how it ended: an answer is the refusal, or the result, unless a job was taken up again.
Shared(n) == \E m \in Made \ {n} : call[m].item = call[n].item
CallOK(n) ==
    /\ call[n].pc # "unmade" => /\ call[n].item \in there /\ call[n].user \in Users
                                /\ call[n].op \in OpsOf(KindOf[call[n].item])
    /\ call[n].pc = "running" => call[n].op \in Long
    /\ call[n].pc = "ran" => /\ call[n].op = "run" /\ call[n].result \in {"SUCCEEDED", "FAILED"}
                             /\ status[call[n].item] = call[n].result \/ Shared(n)
    /\ call[n].pc = "answered" =>
          \/ call[n].result = "refused" /\ call[n].answer \in Refusals
          \/ call[n].result = call[n].answer /\ call[n].answer \notin Refusals \cup {"refused"}
          \/ /\ call[n].op = "run" /\ call[n].result # "refused" /\ call[n].answer \in StatusesOf("job")
             /\ Shared(n)

\* A job or an ingestion that is worked on is worked on by one call, or by its worker.
Tracking(i) == {n \in Calls : call[n].item = i /\ call[n].pc = "running" /\ call[n].op \in Tracked}
RunnerOK(i) ==
    /\ \A n, m \in Tracking(i) : n = m
    /\ i \in worker => Tracking(i) = {}
    /\ i \in worker \/ Tracking(i) # {} => status[i] = "RUNNING"
    /\ KindOf[i] = "job" /\ status[i] = "RUNNING" => i \in worker \/ Tracking(i) # {}

\* A flash message is the one of an answered call of the tab's user.
FlashOK(u) ==
    LET n == tab[u].flash.of
    IN  IF n = 0 THEN tab[u].flash.says # "done"
        ELSE /\ call[n].pc = "answered" /\ call[n].user = u
             /\ IF tab[u].page = "crashed" THEN ~tab[u].flash.red /\ tab[u].flash.says = Empty /\ call[n].answer \in Refusals \ AnswersOf(call[n].op)
                                           ELSE tab[u].flash = FlashOf(n)
TabOK(u) ==
    /\ tab[u].due \subseteq On(tab[u].page)
    /\ \A i \in Items : tab[u].rows[i] # Empty => i \in On(tab[u].page)
    /\ tab[u].page \in Pages => tab[u].page \in Shown
    /\ LET n == tab[u].waiting
       IN  n # 0 => call[n].pc # "unmade" /\ call[n].user = u /\ tab[u].page = PageOf[KindOf[call[n].item]]
    /\ FlashOK(u)

ConsoleInv ==
    /\ ConsoleShape
    /\ \E k \in 0..MaxCalls : Made = 1..k
    /\ \A n \in Calls : CallOK(n)
    /\ \A i \in there : status[i] \in StatusesOf(KindOf[i])
    /\ worker \subseteq {i \in there : KindOf[i] \in Worked}
    /\ \A i \in there : KindOf[i] \in Worked => RunnerOK(i)
    /\ \A u \in Users : TabOK(u)

-----------------------------------------------------------------------------
\* The tables of the services, operation by operation and kind by kind.
LEMMA ConsoleKinds ==
    /\ DOMAIN PageOf = Kinds
    /\ Pages = {"lakehouse", "pipelines", "queue", "catalog", "subscriptions", "observability"}
    /\ \A k \in Kinds : PageOf[k] = "subscriptions" <=> k = "subscription"
<1>1. DOMAIN PageOf = Kinds
  BY DEF PageOf, Kinds
<1>2. Pages = {"lakehouse", "pipelines", "queue", "catalog", "subscriptions", "observability"}
  BY DEF PageOf, Pages
<1>3. \A k \in Kinds : PageOf[k] = "subscriptions" <=> k = "subscription"
  BY DEF PageOf, Kinds
<1> QED
  BY <1>1, <1>2, <1>3

LEMMA LongOps == Long = {"ingest", "silver", "gold", "publish", "run", "execute", "publishNow"}
BY DEF Long, Ends

LEMMA EndsAre ==
    /\ Ends["ingest"] = {"COMPLETED", "FAILED"} /\ Ends["run"] = {"SUCCEEDED", "FAILED"}
    /\ Ends["execute"] = {"COMPLETED", "BLOCKED"} /\ Ends["publish"] = {"READY", "FAILED", "SKIPPED_DUPLICATE"}
    /\ \A op \in Long : Ends[op] \subseteq Words \ (Refusals \cup {"refused"})
<1>1. /\ Ends["ingest"] = {"COMPLETED", "FAILED"} /\ Ends["run"] = {"SUCCEEDED", "FAILED"}
      /\ Ends["execute"] = {"COMPLETED", "BLOCKED"} /\ Ends["publish"] = {"READY", "FAILED", "SKIPPED_DUPLICATE"}
  BY DEF Ends
<1>2. ASSUME NEW op \in Long
      PROVE  Ends[op] \subseteq {"COMPLETED", "FAILED", "SKIPPED_DUPLICATE", "READY", "SUCCEEDED", "BLOCKED", "SKIPPED"}
  BY LongOps DEF Ends
<1>3. {"COMPLETED", "FAILED", "SKIPPED_DUPLICATE", "READY", "SUCCEEDED", "BLOCKED", "SKIPPED"} \subseteq Words
  <2>1. {"COMPLETED", "FAILED"} \subseteq StatusesOf("ingestion") /\ "SUCCEEDED" \in StatusesOf("job")
        /\ "BLOCKED" \in StatusesOf("migration") /\ {"READY", "SKIPPED_DUPLICATE"} \subseteq StatusesOf("publication")
    BY DEF StatusesOf
  <2>2. {"ingestion", "job", "migration", "publication"} \subseteq Kinds
    BY DEF Kinds
  <2>3. "SKIPPED" \in Words
    BY DEF Words
  <2>4. ASSUME NEW k \in Kinds, NEW s \in StatusesOf(k) PROVE s \in Words
    BY DEF Words
  <2> QED
    BY <2>1, <2>2, <2>3, <2>4
<1>4. {"COMPLETED", "FAILED", "SKIPPED_DUPLICATE", "READY", "SUCCEEDED", "BLOCKED", "SKIPPED"} \cap (Refusals \cup {"refused"}) = {}
  BY DEF Refusals
<1> QED
  BY <1>1, <1>2, <1>3, <1>4

\* From where an operation starts, by the table of its service.
LEMMA FromAre ==
    /\ From("run") = {"PENDING", "FAILED", "SUCCEEDED"}
    /\ From("ingest") = {"NONE", "RUNNING", "FAILED", "COMPLETED"} /\ From("silver") = {"COMPLETED"}
    /\ From("gold") = {"COMPLETED"} /\ From("publish") = {"COMPLETED"}
    /\ From("activate") = {"DRAFT", "BETA"} /\ From("beta") = {"DRAFT"} /\ From("deprecate") = {"ACTIVE"}
    /\ From("rollback") = {"DEPRECATED"} /\ From("retire") = {"BETA", "DEPRECATED"}
    /\ From("approve") = {"DRAFT", "BETA", "ACTIVE", "DEPRECATED", "RETIRED"}
    /\ From("optin") = {"DRAFT", "BETA", "ACTIVE", "DEPRECATED", "RETIRED"}
    /\ From("create") = {"NONE"} /\ From("execute") = {"PLANNED", "IN_PROGRESS", "BLOCKED", "COMPLETED"}
    /\ From("publishNow") = {"PENDING", "ACTIVE", "PAUSED", "SUSPENDED", "CANCELLED"}
    /\ From("subscribe") = {"NONE", "CANCELLED"} /\ From("pause") = {"ACTIVE"}
    /\ From("resume") = {"PENDING", "PAUSED", "SUSPENDED"}
    /\ From("cancel") = {"PENDING", "ACTIVE", "PAUSED", "SUSPENDED"}
<1>1. DOMAIN JobFrom = {"run"}
  BY DEF JobFrom
<1>2. DOMAIN LakehouseFrom = {"ingest", "silver", "gold", "publish"}
  BY DEF LakehouseFrom
<1>3. DOMAIN VersionFrom = {"activate", "beta", "deprecate", "rollback", "retire", "approve", "optin"}
  BY DEF VersionFrom
<1>4. DOMAIN MigrationFrom = {"create", "execute"}
  BY DEF MigrationFrom
<1>5. DOMAIN ScheduleFrom = {"publishNow"}
  BY DEF ScheduleFrom
<1>6. DOMAIN SubscriptionFrom = {"subscribe", "pause", "resume", "cancel"}
  BY DEF SubscriptionFrom
<1>7. From("run") = {"PENDING", "FAILED", "SUCCEEDED"}
  <2>1. JobFrom["run"] = {"PENDING", "FAILED", "SUCCEEDED"}
    BY DEF JobFrom
  <2> QED
    BY <1>1, <1>2, <1>3, <1>4, <1>5, <1>6, <2>1 DEF From
<1>8. From("ingest") = {"NONE", "RUNNING", "FAILED", "COMPLETED"}
  <2>1. LakehouseFrom["ingest"] = {"NONE", "RUNNING", "FAILED", "COMPLETED"}
    BY DEF LakehouseFrom
  <2> QED
    BY <1>1, <1>2, <1>3, <1>4, <1>5, <1>6, <2>1 DEF From
<1>9. From("silver") = {"COMPLETED"}
  <2>1. LakehouseFrom["silver"] = {"COMPLETED"}
    BY DEF LakehouseFrom
  <2> QED
    BY <1>1, <1>2, <1>3, <1>4, <1>5, <1>6, <2>1 DEF From
<1>10. From("gold") = {"COMPLETED"}
  <2>1. LakehouseFrom["gold"] = {"COMPLETED"}
    BY DEF LakehouseFrom
  <2> QED
    BY <1>1, <1>2, <1>3, <1>4, <1>5, <1>6, <2>1 DEF From
<1>11. From("publish") = {"COMPLETED"}
  <2>1. LakehouseFrom["publish"] = {"COMPLETED"}
    BY DEF LakehouseFrom
  <2> QED
    BY <1>1, <1>2, <1>3, <1>4, <1>5, <1>6, <2>1 DEF From
<1>12. From("activate") = {"DRAFT", "BETA"}
  <2>1. VersionFrom["activate"] = {"DRAFT", "BETA"}
    BY DEF VersionFrom
  <2> QED
    BY <1>1, <1>2, <1>3, <1>4, <1>5, <1>6, <2>1 DEF From
<1>13. From("beta") = {"DRAFT"}
  <2>1. VersionFrom["beta"] = {"DRAFT"}
    BY DEF VersionFrom
  <2> QED
    BY <1>1, <1>2, <1>3, <1>4, <1>5, <1>6, <2>1 DEF From
<1>14. From("deprecate") = {"ACTIVE"}
  <2>1. VersionFrom["deprecate"] = {"ACTIVE"}
    BY DEF VersionFrom
  <2> QED
    BY <1>1, <1>2, <1>3, <1>4, <1>5, <1>6, <2>1 DEF From
<1>15. From("rollback") = {"DEPRECATED"}
  <2>1. VersionFrom["rollback"] = {"DEPRECATED"}
    BY DEF VersionFrom
  <2> QED
    BY <1>1, <1>2, <1>3, <1>4, <1>5, <1>6, <2>1 DEF From
<1>16. From("retire") = {"BETA", "DEPRECATED"}
  <2>1. VersionFrom["retire"] = {"BETA", "DEPRECATED"}
    BY DEF VersionFrom
  <2> QED
    BY <1>1, <1>2, <1>3, <1>4, <1>5, <1>6, <2>1 DEF From
<1>17. From("approve") = {"DRAFT", "BETA", "ACTIVE", "DEPRECATED", "RETIRED"}
  <2>1. VersionFrom["approve"] = {"DRAFT", "BETA", "ACTIVE", "DEPRECATED", "RETIRED"}
    BY DEF VersionFrom
  <2> QED
    BY <1>1, <1>2, <1>3, <1>4, <1>5, <1>6, <2>1 DEF From
<1>18. From("optin") = {"DRAFT", "BETA", "ACTIVE", "DEPRECATED", "RETIRED"}
  <2>1. VersionFrom["optin"] = {"DRAFT", "BETA", "ACTIVE", "DEPRECATED", "RETIRED"}
    BY DEF VersionFrom
  <2> QED
    BY <1>1, <1>2, <1>3, <1>4, <1>5, <1>6, <2>1 DEF From
<1>19. From("create") = {"NONE"}
  <2>1. MigrationFrom["create"] = {"NONE"}
    BY DEF MigrationFrom
  <2> QED
    BY <1>1, <1>2, <1>3, <1>4, <1>5, <1>6, <2>1 DEF From
<1>20. From("execute") = {"PLANNED", "IN_PROGRESS", "BLOCKED", "COMPLETED"}
  <2>1. MigrationFrom["execute"] = {"PLANNED", "IN_PROGRESS", "BLOCKED", "COMPLETED"}
    BY DEF MigrationFrom
  <2> QED
    BY <1>1, <1>2, <1>3, <1>4, <1>5, <1>6, <2>1 DEF From
<1>21. From("publishNow") = {"PENDING", "ACTIVE", "PAUSED", "SUSPENDED", "CANCELLED"}
  <2>1. ScheduleFrom["publishNow"] = {"PENDING", "ACTIVE", "PAUSED", "SUSPENDED", "CANCELLED"}
    BY DEF ScheduleFrom
  <2> QED
    BY <1>1, <1>2, <1>3, <1>4, <1>5, <1>6, <2>1 DEF From
<1>22. From("subscribe") = {"NONE", "CANCELLED"}
  <2>1. SubscriptionFrom["subscribe"] = {"NONE", "CANCELLED"}
    BY DEF SubscriptionFrom
  <2> QED
    BY <1>1, <1>2, <1>3, <1>4, <1>5, <1>6, <2>1 DEF From
<1>23. From("pause") = {"ACTIVE"}
  <2>1. SubscriptionFrom["pause"] = {"ACTIVE"}
    BY DEF SubscriptionFrom
  <2> QED
    BY <1>1, <1>2, <1>3, <1>4, <1>5, <1>6, <2>1 DEF From
<1>24. From("resume") = {"PENDING", "PAUSED", "SUSPENDED"}
  <2>1. SubscriptionFrom["resume"] = {"PENDING", "PAUSED", "SUSPENDED"}
    BY DEF SubscriptionFrom
  <2> QED
    BY <1>1, <1>2, <1>3, <1>4, <1>5, <1>6, <2>1 DEF From
<1>25. From("cancel") = {"PENDING", "ACTIVE", "PAUSED", "SUSPENDED"}
  <2>1. SubscriptionFrom["cancel"] = {"PENDING", "ACTIVE", "PAUSED", "SUSPENDED"}
    BY DEF SubscriptionFrom
  <2> QED
    BY <1>1, <1>2, <1>3, <1>4, <1>5, <1>6, <2>1 DEF From
<1> QED
  BY <1>7, <1>8, <1>9, <1>10, <1>11, <1>12, <1>13, <1>14, <1>15, <1>16, <1>17, <1>18, <1>19, <1>20, <1>21, <1>22,
     <1>23, <1>24, <1>25

\* An operation that ends at once leaves a status of the item's kind.
LEMMA ToIsAStatus ==
    ASSUME NEW k \in Kinds, NEW op \in OpsOf(k), NEW s \in StatusesOf(k), op \notin Long
    PROVE  To(op, s) \in StatusesOf(k) /\ k \notin Worked
<1>1. CASE k = "version"
  BY <1>1 DEF OpsOf, StatusesOf, To, VersionTo, SubscriptionTo, Worked
<1>2. CASE k = "migration"
  BY <1>2, LongOps DEF OpsOf, StatusesOf, To, VersionTo, SubscriptionTo, Worked
<1>3. CASE k = "subscription"
  BY <1>3, LongOps DEF OpsOf, StatusesOf, To, VersionTo, SubscriptionTo, Worked
<1>4. k \in {"version", "migration", "subscription"}
  BY LongOps DEF OpsOf, Kinds
<1> QED
  BY <1>1, <1>2, <1>3, <1>4

\* An operation that shows at its item leaves a status of the item's kind as well.
LEMMA TrackedStatus ==
    ASSUME NEW k \in Kinds, NEW op \in OpsOf(k), op \in Tracked
    PROVE  /\ During[op] \in StatusesOf(k) /\ Ends[op] \subseteq StatusesOf(k) /\ op \in Long
           /\ k \in Worked => During[op] = "RUNNING" /\ "RUNNING" \notin Ends[op]
           /\ k = "job" <=> op = "run"
<1>1. k \in {"ingestion", "job", "migration"}
  BY DEF OpsOf, Tracked, Kinds
<1>2. /\ k = "ingestion" => op = "ingest"
      /\ k = "job" => op = "run"
      /\ k = "migration" => op = "execute"
  BY <1>1 DEF OpsOf, Tracked
<1>3. During["ingest"] = "RUNNING" /\ During["run"] = "RUNNING" /\ During["execute"] = "IN_PROGRESS"
  BY DEF During
<1> QED
  BY <1>1, <1>2, <1>3, EndsAre, LongOps DEF StatusesOf, Worked

LEMMA InitiallyAre ==
    \A k \in Kinds : Initially[k] \subseteq StatusesOf(k) /\ (k \in Worked => "RUNNING" \notin Initially[k])
<1> SUFFICES ASSUME NEW k \in Kinds
             PROVE  Initially[k] \subseteq StatusesOf(k) /\ (k \in Worked => "RUNNING" \notin Initially[k])
  OBVIOUS
<1>1. CASE k = "ingestion" BY <1>1 DEF Initially, StatusesOf
<1>2. CASE k = "run" BY <1>2 DEF Initially, StatusesOf, Worked
<1>3. CASE k = "job" BY <1>3 DEF Initially, StatusesOf
<1>4. CASE k = "version" BY <1>4 DEF Initially, StatusesOf, Worked
<1>5. CASE k = "migration" BY <1>5 DEF Initially, StatusesOf, Worked
<1>6. CASE k = "subscription" BY <1>6 DEF Initially, StatusesOf, Worked
<1>7. CASE k = "execution" BY <1>7 DEF Initially, StatusesOf, Worked
<1>8. CASE k = "publication" BY <1>8 DEF Initially, StatusesOf, Worked
<1> QED
  BY <1>1, <1>2, <1>3, <1>4, <1>5, <1>6, <1>7, <1>8 DEF Kinds

LEMMA StatusesAreWords == \A k \in Kinds : StatusesOf(k) \subseteq Words
BY DEF Words

LEMMA OtherWords == {"SKIPPED", "NOT_ENTITLED", "refused", "done", Empty} \cup Refusals \subseteq Words
BY DEF Words

LEMMA ConsoleStarts == ASSUME ConsoleBounds, ConsoleInit PROVE ConsoleInv
<1>1. there \subseteq Items /\ worker = {} /\ KindOf \in [Items -> Kinds]
  BY ConsoleKinds DEF ConsoleBounds, ConsoleInit
<1>2. PICK s \in [there -> UNION {Initially[KindOf[i]] : i \in there}] :
         /\ \A i \in there : s[i] \in Initially[KindOf[i]]
         /\ status = [i \in Items |-> IF i \in there THEN s[i] ELSE Empty]
  BY DEF ConsoleInit
<1>3. ASSUME NEW i \in there PROVE status[i] \in Initially[KindOf[i]]
  BY <1>1, <1>2
<1>4. \A i \in there : status[i] \in StatusesOf(KindOf[i])
  BY <1>1, <1>3, InitiallyAre
<1>5. call = [n \in Calls |-> CallOf(Empty, Empty, Empty, "unmade", Empty, Empty)]
      /\ tab = [u \in Users |-> Bare(Empty, NoFlash)] /\ MaxCalls \in Nat /\ Empty \notin Pages \cup {"done"}
  BY DEF ConsoleInit, ConsoleBounds
<1>6. Empty \in Words
  BY OtherWords
<1>7. ConsoleShape
  <2>1. status \in [Items -> Words]
    <3>1. ASSUME NEW i \in Items PROVE (IF i \in there THEN s[i] ELSE Empty) \in Words
      <4>1. CASE i \in there
        <5>1. status[i] = s[i]
          BY <1>2, <4>1
        <5> QED
          BY <1>1, <1>4, <4>1, <5>1, StatusesAreWords
      <4>2. CASE i \notin there
        BY <1>6, <4>2
      <4> QED
        BY <4>1, <4>2
    <3> QED
      BY <1>2, <3>1
  <2>2. call \in [Calls -> [user : Users \cup {Empty}, op : AllOps \cup {Empty}, item : Items \cup {Empty},
                            pc : {"unmade", "sent", "running", "ran", "answered"}, result : Words, answer : Words]]
    BY <1>5, <1>6 DEF CallOf
  <2>3. tab \in [Users -> TabType]
    BY <1>5, <1>6 DEF Bare, TabOf, NoRows, NoFlash, TabType, Flashes, AnyFilter
  <2> QED
    BY <1>1, <2>1, <2>2, <2>3 DEF ConsoleShape
<1>8. \A n \in Calls : call[n].pc = "unmade"
  BY <1>5 DEF CallOf
<1>9. Made = 1..0 /\ 0 \in 0..MaxCalls
  BY <1>5, <1>8 DEF Made
<1>10. \A n \in Calls : CallOK(n)
  BY <1>8 DEF CallOK
<1>11. ASSUME NEW i \in there, KindOf[i] \in Worked PROVE RunnerOK(i)
  <2>1. status[i] # "RUNNING" /\ Tracking(i) = {}
    BY <1>1, <1>3, <1>8, <1>11, InitiallyAre DEF Tracking
  <2> QED
    BY <1>1, <2>1 DEF RunnerOK
<1>12. ASSUME NEW u \in Users PROVE TabOK(u)
  <2>1. tab[u] = [page |-> Empty, filter |-> "ALL", due |-> {}, rows |-> [i \in Items |-> Empty],
                  flash |-> [says |-> Empty, red |-> FALSE, of |-> 0], waiting |-> 0]
    BY <1>5 DEF Bare, TabOf, NoRows, NoFlash
  <2> QED
    BY <1>5, <2>1 DEF TabOK, FlashOK
<1>13. worker \subseteq {i \in there : KindOf[i] \in Worked}
  BY <1>1
<1> QED
  BY <1>4, <1>7, <1>9, <1>10, <1>11, <1>12, <1>13 DEF ConsoleInv

-----------------------------------------------------------------------------
\* The parts of the invariant.
LEMMA ConsoleParts ==
    ASSUME ConsoleBounds, ConsoleInv
    PROVE  /\ ConsoleShape /\ MaxCalls \in Nat /\ KindOf \in [Items -> Kinds]
           /\ \A n \in Calls : CallOK(n)
           /\ \A i \in there : status[i] \in StatusesOf(KindOf[i]) /\ i \in Items /\ KindOf[i] \in Kinds
           /\ worker \subseteq {i \in there : KindOf[i] \in Worked}
           /\ \A i \in there : KindOf[i] \in Worked => RunnerOK(i)
           /\ \A u \in Users : TabOK(u)
<1>1. ConsoleShape /\ MaxCalls \in Nat /\ KindOf \in [Items -> Kinds]
  BY ConsoleKinds DEF ConsoleInv, ConsoleBounds
<1>2. \A i \in there : i \in Items /\ KindOf[i] \in Kinds
  BY <1>1 DEF ConsoleShape
<1> QED
  BY <1>1, <1>2 DEF ConsoleInv

\* A call that was sent and not answered moves on: tabs notice nothing.
LEMMA CallMoves ==
    ASSUME ConsoleBounds, ConsoleInv, NEW n \in Calls, NEW pc \in {"running", "ran", "answered"},
           NEW result \in Words, NEW answer \in Words,
           call[n].pc \in {"sent", "running", "ran"}, call' = Set(n, pc, result, answer), UNCHANGED <<there, on, tab>>
    PROVE  /\ call'[n] = CallOf(call[n].user, call[n].op, call[n].item, pc, result, answer)
           /\ \A m \in Calls \ {n} : call'[m] = call[m]
           /\ call' \in [Calls -> [user : Users \cup {Empty}, op : AllOps \cup {Empty}, item : Items \cup {Empty},
                                   pc : {"unmade", "sent", "running", "ran", "answered"}, result : Words, answer : Words]]
           /\ Made' = Made /\ n \in Made
           /\ \A m \in Calls : Shared(m)' <=> Shared(m)
           /\ \A u \in Users : TabOK(u)'
<1>1. ConsoleShape /\ MaxCalls \in Nat
  BY ConsoleParts
<1>2. call'[n] = CallOf(call[n].user, call[n].op, call[n].item, pc, result, answer)
      /\ \A m \in Calls \ {n} : call'[m] = call[m]
  BY <1>1 DEF ConsoleShape, Set
<1>3. call' \in [Calls -> [user : Users \cup {Empty}, op : AllOps \cup {Empty}, item : Items \cup {Empty},
                           pc : {"unmade", "sent", "running", "ran", "answered"}, result : Words, answer : Words]]
  <2>1. CallOf(call[n].user, call[n].op, call[n].item, pc, result, answer) \in
            [user : Users \cup {Empty}, op : AllOps \cup {Empty}, item : Items \cup {Empty},
             pc : {"unmade", "sent", "running", "ran", "answered"}, result : Words, answer : Words]
    BY <1>1 DEF ConsoleShape, CallOf
  <2> QED
    BY <1>1, <2>1 DEF ConsoleShape, Set
<1>4. call'[n].pc = pc /\ call'[n].user = call[n].user /\ call'[n].op = call[n].op /\ call'[n].item = call[n].item
      /\ call'[n].result = result /\ call'[n].answer = answer
  BY <1>2 DEF CallOf
<1>5. \A m \in Calls : call'[m].item = call[m].item /\ call'[m].user = call[m].user
                       /\ (call'[m].pc = "unmade" <=> call[m].pc = "unmade")
  BY <1>2, <1>4
<1>6. Made' = Made /\ n \in Made
  BY <1>5 DEF Made, Calls
<1>7. \A m \in Calls : Shared(m)' <=> Shared(m)
  <2>1. Made \subseteq Calls
    BY DEF Made
  <2> QED
    BY <1>5, <1>6, <2>1 DEF Shared
<1>8. ASSUME NEW u \in Users PROVE TabOK(u)'
  <2>1. TabOK(u) /\ tab[u].waiting \in 0..MaxCalls /\ tab[u].flash.of \in 0..MaxCalls
    BY <1>1, ConsoleParts DEF ConsoleShape, TabType, Flashes, AnyFilter
  <2>2. tab'[u] = tab[u] /\ On(tab[u].page)' = On(tab[u].page)
    BY DEF On
  <2>3. tab[u].waiting # 0 => tab[u].waiting \in Calls
    BY <1>1, <2>1 DEF Calls
  <2>4. ASSUME tab[u].flash.of # 0
        PROVE  call'[tab[u].flash.of] = call[tab[u].flash.of] /\ FlashOf(tab[u].flash.of)' = FlashOf(tab[u].flash.of)
    <3>1. tab[u].flash.of \in Calls
      BY <1>1, <2>1, <2>4 DEF Calls
    <3>2. call[tab[u].flash.of].pc = "answered"
      BY <2>1, <2>4 DEF TabOK, FlashOK
    <3>3. call'[tab[u].flash.of] = call[tab[u].flash.of]
      BY <1>2, <3>1, <3>2
    <3> QED
      BY <2>2, <3>3 DEF FlashOf, LakehouseFlash, CatalogFlash, SubscriptionFlash
  <2>5. FlashOK(u)'
    BY <2>1, <2>2, <2>4 DEF FlashOK, TabOK
  <2> QED
    BY <1>5, <2>1, <2>2, <2>3, <2>5 DEF TabOK, Shown
<1> QED
  BY <1>2, <1>3, <1>6, <1>7, <1>8

\* Which calls stay what they were when one of them moves on, and perhaps sets the status of its item.
LEMMA OthersStay ==
    ASSUME ConsoleBounds, ConsoleInv, NEW n \in Calls, NEW pc \in {"running", "ran", "answered"},
           NEW result \in Words, NEW answer \in Words,
           call[n].pc \in {"sent", "running", "ran"}, call' = Set(n, pc, result, answer), UNCHANGED <<there, on, tab>>,
           \A i \in Items : status'[i] # status[i] => i = call[n].item,
           NEW m \in Calls \ {n}
    PROVE  CallOK(m)'
<1>1. call'[m] = call[m] /\ (Shared(m)' <=> Shared(m)) /\ n \in Made /\ CallOK(m)
  BY CallMoves, ConsoleParts
<1>2. ASSUME call[m].pc = "ran", status[call[m].item] = call[m].result
      PROVE  status'[call[m].item] = call[m].result \/ Shared(m)
  <2>1. call[m].item \in Items
    BY <1>1, <1>2, ConsoleParts DEF CallOK
  <2>2. CASE call[m].item = call[n].item
    BY <1>1, <2>2 DEF Shared
  <2>3. CASE call[m].item # call[n].item
    BY <1>2, <2>1, <2>3
  <2> QED
    BY <2>2, <2>3
<1> QED
  BY <1>1, <1>2 DEF CallOK

LEMMA TrackingMoves ==
    ASSUME ConsoleBounds, ConsoleInv, NEW n \in Calls, NEW pc \in {"running", "ran", "answered"},
           NEW result \in Words, NEW answer \in Words,
           call[n].pc \in {"sent", "running", "ran"}, call' = Set(n, pc, result, answer), UNCHANGED <<there, on, tab>>,
           NEW i
    PROVE  /\ call[n].item # i => Tracking(i)' = Tracking(i)
           /\ call[n].item = i => Tracking(i)' = (Tracking(i) \ {n})
                                     \cup (IF pc = "running" /\ call[n].op \in Tracked THEN {n} ELSE {})
<1>1. call'[n] = CallOf(call[n].user, call[n].op, call[n].item, pc, result, answer)
      /\ \A m \in Calls \ {n} : call'[m] = call[m]
  BY CallMoves
<1>2. call'[n].item = call[n].item /\ call'[n].op = call[n].op /\ call'[n].pc = pc
  BY <1>1 DEF CallOf
<1> QED
  BY <1>1, <1>2 DEF Tracking, Calls

\* A step of a call that leaves the statuses alone, or does not touch what a worker may take up.
LEMMA ServiceStep ==
    ASSUME ConsoleBounds, ConsoleInv, NEW n \in Calls, NEW pc \in {"running", "ran", "answered"},
           NEW result \in Words, NEW answer \in Words,
           call[n].pc \in {"sent", "running", "ran"}, call' = Set(n, pc, result, answer), UNCHANGED <<there, on, worker, tab>>,
           NEW i \in Items, i = call[n].item,
           \A j \in Items : status'[j] # status[j] => j = i,
           status' \in [Items -> Words], status'[i] \in StatusesOf(KindOf[i]),
           CallOK(n)', KindOf[i] \in Worked => RunnerOK(i)'
    PROVE  ConsoleInv'
<1>1. /\ ConsoleShape /\ KindOf \in [Items -> Kinds]
      /\ \A j \in there : status[j] \in StatusesOf(KindOf[j]) /\ j \in Items
      /\ worker \subseteq {j \in there : KindOf[j] \in Worked}
      /\ \A j \in there : KindOf[j] \in Worked => RunnerOK(j)
      /\ CallOK(n)
  BY ConsoleParts
<1>2. ConsoleShape'
  BY <1>1, CallMoves DEF ConsoleShape
<1>3. \E k \in 0..MaxCalls : Made' = 1..k
  BY CallMoves DEF ConsoleInv
<1>4. \A m \in Calls : CallOK(m)'
  BY OthersStay
<1>5. ASSUME NEW j \in there PROVE status'[j] \in StatusesOf(KindOf[j])
  BY <1>1
<1>6. ASSUME NEW j \in there, KindOf[j] \in Worked PROVE RunnerOK(j)'
  <2>1. CASE i = j
    BY <1>6, <2>1
  <2>2. CASE j # i
    <3>1. Tracking(j)' = Tracking(j) /\ status'[j] = status[j]
      BY <1>1, <2>2, TrackingMoves
    <3> QED
      BY <1>1, <1>6, <3>1 DEF RunnerOK
  <2> QED
    BY <2>1, <2>2
<1>7. \A u \in Users : TabOK(u)'
  BY CallMoves
<1>8. (\A m \in Calls : CallOK(m))'
  BY <1>4 DEF Calls
<1> QED
  BY <1>1, <1>2, <1>3, <1>5, <1>6, <1>7, <1>8 DEF ConsoleInv

\* The service's judgement of an operation that was sent.
LEMMA OperationKeeps == ASSUME ConsoleBounds, ConsoleInv, NEW n \in Calls, Judge(n) PROVE ConsoleInv'
<1> DEFINE op == call[n].op
<1>0. PICK i \in Items : i = call[n].item
  BY ConsoleParts DEF CallOK, Judge
<1>1. /\ call[n].pc = "sent" /\ UNCHANGED <<there, on, worker, tab>>
      /\ \/ Refuse(n)
         \/ /\ status[i] \in From(op) /\ op \notin Long
            /\ status' = [status EXCEPT ![i] = To(op, @)]
            /\ call' = Set(n, "answered", "done", "done")
         \/ /\ status[i] \in From(op) /\ op \in Long \ Tracked
            /\ call' = Set(n, "running", Empty, Empty) /\ UNCHANGED status
         \/ /\ op \in {"ingest", "execute"} /\ status[i] \in {"COMPLETED", "RUNNING"}
            /\ call' = Set(n, "answered", "SKIPPED_DUPLICATE", "SKIPPED_DUPLICATE") /\ UNCHANGED status
         \/ /\ op \in Tracked /\ status[i] \in From(op) \ (IF op = "run" THEN {} ELSE {"COMPLETED", "RUNNING"})
            /\ status' = [status EXCEPT ![i] = During[op]]
            /\ call' = Set(n, "running", Empty, Empty)
  BY <1>0 DEF Judge
<1>2. /\ i \in there /\ i \in Items /\ KindOf[i] \in Kinds /\ op \in OpsOf(KindOf[i]) /\ call[n].user \in Users
      /\ status \in [Items -> Words] /\ status[i] \in StatusesOf(KindOf[i])
      /\ KindOf[i] \in Worked => RunnerOK(i)
  BY <1>0, <1>1, ConsoleParts DEF CallOK, ConsoleShape
<1>3. ASSUME NEW pc \in {"running", "ran", "answered"}, NEW result \in Words, NEW answer \in Words,
             call' = Set(n, pc, result, answer), pc # "running" \/ op \notin Tracked
      PROVE  Tracking(i)' = Tracking(i)
  <2>1. n \notin Tracking(i)
    BY <1>1 DEF Tracking
  <2> QED
    BY <1>0, <1>1, <1>3, <2>1, TrackingMoves
<1>4. ASSUME NEW result \in Words, NEW answer \in Words, call' = Set(n, "answered", result, answer),
             \/ result = "refused" /\ answer \in Refusals
             \/ result = answer /\ answer \notin Refusals \cup {"refused"}
      PROVE  CallOK(n)'
  <2>1. call'[n] = CallOf(call[n].user, op, i, "answered", result, answer)
    BY <1>0, <1>1, <1>4, CallMoves
  <2> QED
    BY <1>1, <1>2, <1>4, <2>1 DEF CallOK, CallOf
<1>5. ASSUME call' = Set(n, "running", Empty, Empty), op \in Long PROVE CallOK(n)'
  <2>1. call'[n] = CallOf(call[n].user, op, i, "running", Empty, Empty)
    BY <1>0, <1>1, <1>5, CallMoves, OtherWords
  <2> QED
    BY <1>1, <1>2, <1>5, <2>1 DEF CallOK, CallOf
<1>6. ASSUME UNCHANGED status, Tracking(i)' = Tracking(i), KindOf[i] \in Worked PROVE RunnerOK(i)'
  BY <1>1, <1>2, <1>6 DEF RunnerOK
<1>7. CASE Refuse(n)
  <2>1. PICK code \in Refusals : call' = Set(n, "answered", "refused", code)
    BY <1>7 DEF Refuse
  <2>2. UNCHANGED status /\ code \in Words /\ "refused" \in Words
    BY <1>7, OtherWords DEF Refuse
  <2>3. CallOK(n)' /\ (KindOf[i] \in Worked => RunnerOK(i)')
    BY <1>3, <1>4, <1>6, <2>1, <2>2
  <2> QED
    BY <1>0, <1>1, <1>2, <2>1, <2>2, <2>3, ServiceStep
<1>8. CASE status[i] \in From(op) /\ op \notin Long /\ status' = [status EXCEPT ![i] = To(op, @)]
           /\ call' = Set(n, "answered", "done", "done")
  <2>1. To(op, status[i]) \in StatusesOf(KindOf[i]) /\ KindOf[i] \notin Worked
    BY <1>2, <1>8, ToIsAStatus
  <2>2. status' \in [Items -> Words] /\ status'[i] \in StatusesOf(KindOf[i])
        /\ \A j \in Items : status'[j] # status[j] => j = i
    BY <1>2, <1>8, <2>1, StatusesAreWords
  <2>3. "done" \in Words /\ "done" \notin Refusals \cup {"refused"}
    BY OtherWords DEF Refusals
  <2>4. CallOK(n)'
    BY <1>4, <1>8, <2>3
  <2> QED
    BY <1>0, <1>1, <1>8, <2>1, <2>2, <2>3, <2>4, ServiceStep
<1>9. CASE op \in Long \ Tracked /\ call' = Set(n, "running", Empty, Empty) /\ UNCHANGED status
  <2>1. Empty \in Words
    BY OtherWords
  <2>2. CallOK(n)' /\ (KindOf[i] \in Worked => RunnerOK(i)')
    BY <1>3, <1>5, <1>6, <1>9, <2>1
  <2> QED
    BY <1>0, <1>1, <1>2, <1>9, <2>1, <2>2, ServiceStep
<1>10. CASE /\ op \in {"ingest", "execute"}
            /\ call' = Set(n, "answered", "SKIPPED_DUPLICATE", "SKIPPED_DUPLICATE") /\ UNCHANGED status
  <2>1. "SKIPPED_DUPLICATE" \in Words /\ "SKIPPED_DUPLICATE" \notin Refusals \cup {"refused"}
    BY EndsAre, LongOps
  <2>2. CallOK(n)' /\ (KindOf[i] \in Worked => RunnerOK(i)')
    BY <1>3, <1>4, <1>6, <1>10, <2>1
  <2> QED
    BY <1>0, <1>1, <1>2, <1>10, <2>1, <2>2, ServiceStep
<1>11. CASE /\ op \in Tracked /\ status[i] \in From(op) \ (IF op = "run" THEN {} ELSE {"COMPLETED", "RUNNING"})
            /\ status' = [status EXCEPT ![i] = During[op]]
            /\ call' = Set(n, "running", Empty, Empty)
  <2>1. /\ During[op] \in StatusesOf(KindOf[i]) /\ op \in Long
        /\ KindOf[i] \in Worked => During[op] = "RUNNING"
    BY <1>2, <1>11, TrackedStatus
  <2>2. status' \in [Items -> Words] /\ status'[i] \in StatusesOf(KindOf[i])
        /\ (\A j \in Items : status'[j] # status[j] => j = i) /\ Empty \in Words
    BY <1>2, <1>11, <2>1, StatusesAreWords, OtherWords
  <2>3. CallOK(n)'
    BY <1>5, <1>11, <2>1
  <2>4. ASSUME KindOf[i] \in Worked PROVE RunnerOK(i)'
    <3>1. status[i] # "RUNNING"
      BY <1>11, FromAre
    <3>2. Tracking(i) = {} /\ i \notin worker
      BY <1>2, <2>4, <3>1 DEF RunnerOK
    <3>3. Tracking(i)' = {n}
      BY <1>0, <1>1, <1>11, <2>2, <3>2, TrackingMoves
    <3>4. status'[i] = "RUNNING"
      BY <1>2, <1>11, <2>1, <2>4
    <3> QED
      BY <1>1, <3>2, <3>3, <3>4 DEF RunnerOK
  <2> QED
    BY <1>0, <1>1, <1>11, <2>2, <2>3, <2>4, ServiceStep
<1> QED
  BY <1>1, <1>7, <1>8, <1>9, <1>10, <1>11

\* The work ends; only an operation that is tracked says so at its item.
LEMMA WorkEndsKeeps == ASSUME ConsoleBounds, ConsoleInv, NEW n \in Calls, WorkEnds(n) PROVE ConsoleInv'
<1> DEFINE op == call[n].op
<1>0. PICK i \in Items : i = call[n].item
  BY ConsoleParts DEF CallOK, WorkEnds
<1>1. /\ call[n].pc = "running" /\ UNCHANGED <<there, on, worker, tab>>
      /\ \E s \in Ends[op] :
            /\ status' = IF op \in Tracked THEN [status EXCEPT ![i] = s] ELSE status
            /\ call' = IF op = "run" THEN Set(n, "ran", s, Empty) ELSE Set(n, "answered", s, s)
  BY <1>0 DEF WorkEnds
<1>2. /\ i \in there /\ i \in Items /\ KindOf[i] \in Kinds /\ op \in OpsOf(KindOf[i]) /\ call[n].user \in Users /\ op \in Long
      /\ status \in [Items -> Words] /\ status[i] \in StatusesOf(KindOf[i])
      /\ KindOf[i] \in Worked => RunnerOK(i)
  BY <1>0, <1>1, ConsoleParts DEF CallOK, ConsoleShape
<1>3. PICK s \in Ends[op] :
         /\ status' = IF op \in Tracked THEN [status EXCEPT ![i] = s] ELSE status
         /\ call' = IF op = "run" THEN Set(n, "ran", s, Empty) ELSE Set(n, "answered", s, s)
  BY <1>1
<1>4. s \in Words /\ s \notin Refusals \cup {"refused"} /\ Empty \in Words
  BY <1>2, EndsAre, OtherWords
<1>5. PICK pc \in {"ran", "answered"}, answer \in {s, Empty} :
         /\ call' = Set(n, pc, s, answer) /\ (op = "run" <=> pc = "ran") /\ (pc = "answered" => answer = s)
  BY <1>3
<1>6. call'[n] = CallOf(call[n].user, op, i, pc, s, answer) /\ (Shared(n)' <=> Shared(n))
  BY <1>0, <1>1, <1>4, <1>5, CallMoves
<1>7. status' \in [Items -> Words] /\ status'[i] \in StatusesOf(KindOf[i]) /\ (\A j \in Items : status'[j] # status[j] => j = i)
  <2>1. op \in Tracked => s \in StatusesOf(KindOf[i])
    BY <1>2, TrackedStatus
  <2> QED
    BY <1>2, <1>3, <1>4, <2>1
<1>8. CallOK(n)'
  <2>1. op = "run" => s \in {"SUCCEEDED", "FAILED"} /\ status'[i] = s
    BY <1>2, <1>3, EndsAre DEF Tracked
  <2> QED
    BY <1>1, <1>2, <1>4, <1>5, <1>6, <2>1 DEF CallOK, CallOf
<1>9. ASSUME KindOf[i] \in Worked PROVE RunnerOK(i)'
  <2>1. Tracking(i)' = Tracking(i) \ {n}
    BY <1>0, <1>1, <1>4, <1>5, TrackingMoves
  <2>2. CASE op \in Tracked
    <3>1. n \in Tracking(i)
      BY <1>0, <1>1, <2>2 DEF Tracking
    <3>2. Tracking(i)' = {} /\ i \notin worker
      BY <1>2, <1>9, <2>1, <3>1 DEF RunnerOK
    <3>3. status'[i] = s /\ s # "RUNNING"
      BY <1>2, <1>3, <1>9, <2>2, TrackedStatus
    <3> QED
      BY <1>1, <3>2, <3>3 DEF RunnerOK
  <2>3. CASE op \notin Tracked
    <3>1. Tracking(i)' = Tracking(i) /\ UNCHANGED status
      BY <1>3, <2>1, <2>3 DEF Tracking
    <3> QED
      BY <1>1, <1>2, <1>9, <3>1 DEF RunnerOK
  <2> QED
    BY <2>2, <2>3
<1> QED
  BY <1>0, <1>1, <1>4, <1>5, <1>7, <1>8, <1>9, ServiceStep

\* The job is read again for the answer: whoever took it up again in between shares it.
LEMMA ReadBackKeeps == ASSUME ConsoleBounds, ConsoleInv, NEW n \in Calls, ReadBack(n) PROVE ConsoleInv'
<1> DEFINE op == call[n].op
<1>0. PICK i \in Items : i = call[n].item
  BY ConsoleParts DEF CallOK, ReadBack
<1>1. /\ call[n].pc = "ran" /\ call' = Set(n, "answered", call[n].result, status[i])
      /\ UNCHANGED <<there, on, status, worker, tab>>
  BY <1>0 DEF ReadBack
<1>2. /\ i \in there /\ i \in Items /\ KindOf[i] \in Kinds /\ op \in OpsOf(KindOf[i]) /\ call[n].user \in Users
      /\ status \in [Items -> Words] /\ status[i] \in StatusesOf(KindOf[i])
      /\ KindOf[i] \in Worked => RunnerOK(i)
      /\ op = "run" /\ call[n].result \in {"SUCCEEDED", "FAILED"} /\ (status[i] = call[n].result \/ Shared(n))
      /\ call[n].result \in Words /\ status[i] \in Words
  BY <1>0, <1>1, ConsoleParts DEF CallOK, ConsoleShape
<1>3. call'[n] = CallOf(call[n].user, op, i, "answered", call[n].result, status[i]) /\ (Shared(n)' <=> Shared(n))
  BY <1>0, <1>1, <1>2, CallMoves
<1>4. KindOf[i] = "job"
  BY <1>2, TrackedStatus DEF Tracked
<1>5. CallOK(n)'
  <2>1. /\ call'[n].pc = "answered" /\ call'[n].item = i /\ call'[n].user = call[n].user /\ call'[n].op = op
        /\ call'[n].result = call[n].result /\ call'[n].answer = status[i]
    BY <1>3 DEF CallOf
  <2>2. "SUCCEEDED" \notin Refusals \cup {"refused"} /\ "FAILED" \notin Refusals \cup {"refused"}
    BY DEF Refusals
  <2>3. call'[n].item \in there' /\ call'[n].user \in Users /\ call'[n].op \in OpsOf(KindOf[call'[n].item])
    BY <1>1, <1>2, <2>1
  <2>4. \/ call'[n].result = call'[n].answer /\ call'[n].answer \notin Refusals \cup {"refused"}
        \/ /\ call'[n].op = "run" /\ call'[n].result # "refused" /\ call'[n].answer \in StatusesOf("job")
           /\ Shared(n)'
    BY <1>2, <1>3, <1>4, <2>1, <2>2
  <2> QED
    BY <2>1, <2>3, <2>4 DEF CallOK
<1>6. Tracking(i)' = Tracking(i)
  <2>1. n \notin Tracking(i)
    BY <1>1 DEF Tracking
  <2>2. Tracking(i)' = (Tracking(i) \ {n}) \cup {}
    BY <1>0, <1>1, <1>2, TrackingMoves
  <2> QED
    BY <2>1, <2>2
<1>7. KindOf[i] \in Worked => RunnerOK(i)'
  BY <1>1, <1>2, <1>6 DEF RunnerOK
<1> QED
  BY <1>0, <1>1, <1>2, <1>5, <1>7, ServiceStep

\* Nothing a tab is judged by has changed.
LEMMA TabStays ==
    ASSUME NEW u, TabOK(u), tab'[u] = tab[u], UNCHANGED <<there, on, call>>
    PROVE  TabOK(u)'
<1>1. \A n : FlashOf(n)' = FlashOf(n)
  BY DEF FlashOf, LakehouseFlash, CatalogFlash, SubscriptionFlash
<1>2. \A page : On(page)' = On(page)
  BY DEF On
<1>3. FlashOK(u)'
  BY <1>1 DEF TabOK, FlashOK
<1> QED
  BY <1>2, <1>3 DEF TabOK, Shown

\* A worker, a poller or an event changes an item's status; no call notices.
LEMMA OwnStepKeeps == ASSUME ConsoleBounds, ConsoleInv, NEW i \in there, OwnStep(i) PROVE ConsoleInv'
<1>1. UNCHANGED <<there, on, call, tab>>
  BY DEF OwnStep
<1>2. /\ ConsoleShape /\ KindOf \in [Items -> Kinds] /\ i \in Items /\ KindOf[i] \in Kinds
      /\ \A j \in there : status[j] \in StatusesOf(KindOf[j])
      /\ worker \subseteq {j \in there : KindOf[j] \in Worked}
      /\ \A j \in there : KindOf[j] \in Worked => RunnerOK(j)
      /\ status \in [Items -> Words] /\ (KindOf[i] \in Worked => RunnerOK(i))
  BY ConsoleParts DEF ConsoleShape
<1>3. ASSUME NEW s \in StatusesOf(KindOf[i]), status' = [status EXCEPT ![i] = s],
             worker' \ {i} = worker \ {i}, i \in worker' => KindOf[i] \in Worked,
             KindOf[i] \in Worked => RunnerOK(i)',
             KindOf[i] = "job" => status[i] \notin {"SUCCEEDED", "FAILED"}
      PROVE  ConsoleInv'
  <2>1. status' \in [Items -> Words] /\ status'[i] = s /\ \A j \in Items \ {i} : status'[j] = status[j]
    BY <1>2, <1>3, StatusesAreWords
  <2>2. ConsoleShape' /\ Made' = Made
    BY <1>1, <1>2, <2>1 DEF ConsoleShape, Made
  <2>3. ASSUME NEW n \in Calls PROVE CallOK(n)'
    <3>1. CallOK(n) /\ call' = call /\ (Shared(n)' <=> Shared(n))
      BY <1>1, <2>2, ConsoleParts DEF Shared
    <3>2. ASSUME call[n].pc = "ran" PROVE status'[call[n].item] = call[n].result \/ Shared(n)
      <4>1. call[n].item \in Items /\ KindOf[call[n].item] = "job"
        BY <3>1, <3>2, ConsoleParts, TrackedStatus DEF CallOK, Tracked
      <4>2. CASE call[n].item = i
        BY <1>3, <3>1, <3>2, <4>1, <4>2 DEF CallOK
      <4>3. CASE call[n].item # i
        BY <2>1, <3>1, <3>2, <4>1, <4>3 DEF CallOK
      <4> QED
        BY <4>2, <4>3
    <3> QED
      BY <1>1, <3>1, <3>2 DEF CallOK
  <2>4. ASSUME NEW j \in there PROVE status'[j] \in StatusesOf(KindOf[j]) /\ (KindOf[j] \in Worked => RunnerOK(j)')
    <3>1. CASE j = i
      BY <1>3, <2>1, <3>1
    <3>2. CASE j # i
      <4>1. status'[j] = status[j] /\ (j \in worker' <=> j \in worker) /\ Tracking(j)' = Tracking(j)
        BY <1>1, <1>2, <1>3, <2>1, <3>2, ConsoleParts DEF Tracking
      <4> QED
        BY <1>2, <4>1 DEF RunnerOK
    <3> QED
      BY <3>1, <3>2
  <2>5. \A u \in Users : TabOK(u)'
    <3>1. \A u \in Users : TabOK(u)
      BY ConsoleParts
    <3> QED
      BY <1>1, <3>1, TabStays
  <2>6. worker' \subseteq {j \in there' : KindOf[j] \in Worked}
    BY <1>1, <1>2, <1>3
  <2>7. \E k \in 0..MaxCalls : Made' = 1..k
    BY <2>2 DEF ConsoleInv
  <2>8. (\A n \in Calls : CallOK(n))'
    BY <2>3 DEF Calls
  <2> QED
    BY <1>1, <2>2, <2>4, <2>5, <2>6, <2>7, <2>8 DEF ConsoleInv
<1>4. Tracking(i)' = Tracking(i)
  BY <1>1 DEF Tracking
<1>5. CASE /\ i \notin worker /\ status[i] \in {"PENDING", "NONE"} /\ KindOf[i] \in {"job", "ingestion"}
           /\ status' = [status EXCEPT ![i] = "RUNNING"] /\ worker' = worker \cup {i}
  <2>1. KindOf[i] \in Worked /\ "RUNNING" \in StatusesOf(KindOf[i]) /\ Tracking(i) = {} /\ status'[i] = "RUNNING"
    BY <1>2, <1>5 DEF Worked, StatusesOf, RunnerOK
  <2>2. RunnerOK(i)'
    BY <1>4, <1>5, <2>1 DEF RunnerOK
  <2> QED
    BY <1>3, <1>5, <2>1, <2>2
<1>6. CASE /\ i \in worker
           /\ \E s \in Ends[IF KindOf[i] = "job" THEN "run" ELSE "ingest"] : status' = [status EXCEPT ![i] = s]
           /\ worker' = worker \ {i}
  <2>1. PICK s \in Ends[IF KindOf[i] = "job" THEN "run" ELSE "ingest"] : status' = [status EXCEPT ![i] = s]
    BY <1>6
  <2>2. KindOf[i] \in Worked /\ status[i] = "RUNNING" /\ Tracking(i) = {} /\ status'[i] = s
    BY <1>2, <1>6, <2>1 DEF RunnerOK
  <2>3. s \in StatusesOf(KindOf[i]) /\ s # "RUNNING"
    BY <2>1, <2>2, EndsAre DEF Worked, StatusesOf
  <2>4. RunnerOK(i)'
    BY <1>4, <1>6, <2>2, <2>3 DEF RunnerOK
  <2> QED
    BY <1>3, <1>6, <2>1, <2>2, <2>3, <2>4
<1>7. CASE /\ KindOf[i] \in {"execution", "publication"}
           /\ \E s \in Ends[IF KindOf[i] = "execution" THEN "run" ELSE "publish"] : status' = [status EXCEPT ![i] = s]
           /\ UNCHANGED worker
  <2>1. PICK s \in Ends[IF KindOf[i] = "execution" THEN "run" ELSE "publish"] : status' = [status EXCEPT ![i] = s]
    BY <1>7
  <2>2. s \in StatusesOf(KindOf[i]) /\ KindOf[i] \notin Worked /\ KindOf[i] # "job"
    BY <1>7, <2>1, EndsAre DEF Worked, StatusesOf
  <2> QED
    BY <1>2, <1>3, <1>7, <2>1, <2>2
<1>8. CASE /\ KindOf[i] = "subscription"
           /\ status' = [status EXCEPT ![i] = "SUSPENDED"] /\ UNCHANGED worker
  <2>1. "SUSPENDED" \in StatusesOf(KindOf[i]) /\ KindOf[i] \notin Worked /\ KindOf[i] # "job"
    BY <1>8 DEF Worked, StatusesOf
  <2> QED
    BY <1>2, <1>3, <1>8, <2>1
<1> QED
  BY <1>5, <1>6, <1>7, <1>8 DEF OwnStep

-----------------------------------------------------------------------------
\* A step of one tab that makes no call.
LEMMA TabMoves ==
    ASSUME ConsoleBounds, ConsoleInv, UNCHANGED <<there, on, status, worker, call>>,
           NEW u \in Users, NEW t \in TabType, tab' = [tab EXCEPT ![u] = t], tab'[u] = t => TabOK(u)'
    PROVE  ConsoleInv'
<1>1. ConsoleShape /\ \A v \in Users : TabOK(v)
  BY ConsoleParts
<1>2. ConsoleShape' /\ tab'[u] = t /\ \A v \in Users \ {u} : tab'[v] = tab[v]
  BY <1>1 DEF ConsoleShape
<1>3. ASSUME NEW v \in Users PROVE TabOK(v)'
  <2>1. CASE v = u
    BY <1>2, <2>1
  <2>2. CASE v # u
    <3>1. tab'[v] = tab[v] /\ TabOK(v)
      BY <1>1, <1>2, <2>2
    <3> QED
      BY <3>1, TabStays
  <2> QED
    BY <2>1, <2>2
<1>4. /\ \E k \in 0..MaxCalls : Made' = 1..k
      /\ (\A n \in Calls : CallOK(n))' /\ (\A i \in there : KindOf[i] \in Worked => RunnerOK(i))'
      /\ (\A i \in there : status[i] \in StatusesOf(KindOf[i]))' /\ (worker \subseteq {i \in there : KindOf[i] \in Worked})'
  BY DEF ConsoleInv, Made, CallOK, Shared, RunnerOK, Tracking
<1> QED
  BY <1>2, <1>3, <1>4 DEF ConsoleInv

\* Pages without a call that is waited for: one that is loading, and one without rows.
LEMMA LoadingKeeps ==
    ASSUME ConsoleBounds, ConsoleInv, UNCHANGED <<there, on, status, worker, call>>, NEW u \in Users,
           NEW page \in Pages, page \in Shown, NEW filter \in AnyFilter,
           NEW flash \in Flashes,
           flash.of = 0 => flash.says # "done",
           flash.of # 0 => call[flash.of].pc = "answered" /\ call[flash.of].user = u /\ flash = FlashOf(flash.of),
           tab' = [tab EXCEPT ![u] = Loading(page, filter, flash)]
    PROVE  ConsoleInv'
<1> DEFINE t == Loading(page, filter, flash)
<1>1. t = [page |-> page, filter |-> filter, due |-> On(page), rows |-> [i \in Items |-> Empty], flash |-> flash, waiting |-> 0]
  BY DEF Loading, TabOf, NoRows
<1>2. t \in TabType /\ MaxCalls \in Nat
  <2>1. On(page) \subseteq Items /\ Empty \in Words /\ 0 \in 0..MaxCalls
    BY ConsoleParts, OtherWords DEF On, ConsoleShape
  <2> QED
    BY <1>1, <2>1, ConsoleParts DEF TabType
<1>3. page # "crashed"
  BY ConsoleKinds
<1> HIDE DEF t
<1>4. ASSUME tab'[u] = t PROVE TabOK(u)'
  <2>1. tab'[u].page = page /\ tab'[u].due = On(page) /\ tab'[u].rows = [i \in Items |-> Empty] /\ tab'[u].flash = flash
        /\ tab'[u].waiting = 0
    BY <1>1, <1>4
  <2>2. On(page)' = On(page) /\ FlashOf(flash.of)' = FlashOf(flash.of)
    BY DEF On, FlashOf, LakehouseFlash, CatalogFlash, SubscriptionFlash
  <2>3. FlashOK(u)'
    BY <1>3, <2>1, <2>2 DEF FlashOK
  <2> QED
    BY <2>1, <2>2, <2>3 DEF TabOK, Shown
<1> QED
  BY <1>2, <1>4, TabMoves DEF t

LEMMA BareKeeps ==
    ASSUME ConsoleBounds, ConsoleInv, UNCHANGED <<there, on, status, worker, call>>, NEW u \in Users,
           NEW page \in {"unavailable", "error", "crashed"},
           NEW flash \in Flashes, flash.says = Empty, flash.red = FALSE,
           flash.of # 0 => /\ call[flash.of].pc = "answered" /\ call[flash.of].user = u /\ page = "crashed"
                           /\ call[flash.of].answer \in Refusals \ AnswersOf(call[flash.of].op),
           tab' = [tab EXCEPT ![u] = Bare(page, flash)]
    PROVE  ConsoleInv'
<1> DEFINE t == Bare(page, flash)
<1>1. t = [page |-> page, filter |-> "ALL", due |-> {}, rows |-> [i \in Items |-> Empty], flash |-> flash, waiting |-> 0]
  BY DEF Bare, TabOf, NoRows
<1>2. t \in TabType /\ MaxCalls \in Nat
  BY <1>1, ConsoleParts, OtherWords DEF TabType, AnyFilter
<1>3. page \notin Pages /\ Empty # "done"
  BY ConsoleKinds DEF ConsoleBounds
<1> HIDE DEF t
<1>4. ASSUME tab'[u] = t PROVE TabOK(u)'
  <2>1. tab'[u].page = page /\ tab'[u].due = {} /\ tab'[u].rows = [i \in Items |-> Empty] /\ tab'[u].flash = flash
        /\ tab'[u].waiting = 0
    BY <1>1, <1>4
  <2>2. FlashOK(u)'
    BY <1>3, <2>1 DEF FlashOK
  <2> QED
    BY <1>3, <2>1, <2>2 DEF TabOK
<1> QED
  BY <1>2, <1>4, TabMoves DEF t

LEMMA NoFlashIsEmpty ==
    NoFlash \in [says : Words, red : BOOLEAN, of : {0}] /\ NoFlash.says = Empty /\ NoFlash.red = FALSE /\ NoFlash.of = 0
BY OtherWords DEF NoFlash

LEMMA OpenPageKeeps == ASSUME ConsoleBounds, ConsoleInv, NEW u \in Users, NEW page \in Pages, OpenPage(u, page) PROVE ConsoleInv'
<1>1. UNCHANGED <<there, on, status, worker, call>>
      /\ tab' = [tab EXCEPT ![u] = IF page \in on THEN Loading(page, "ALL", NoFlash) ELSE Bare("unavailable", NoFlash)]
  BY DEF OpenPage
<1>2. NoFlash \in Flashes /\ Empty # "done"
  BY NoFlashIsEmpty, ConsoleParts DEF ConsoleBounds, Flashes, AnyFilter, Shown
<1>3. CASE page \in on
  <2>1. page \in Shown /\ "ALL" \in AnyFilter
    BY <1>3 DEF Shown, AnyFilter
  <2> QED
    BY <1>1, <1>2, <1>3, <2>1, NoFlashIsEmpty, LoadingKeeps
<1>4. CASE page \notin on
  BY <1>1, <1>2, <1>4, NoFlashIsEmpty, BareKeeps
<1> QED
  BY <1>3, <1>4

\* A row appears, with the status that was read or with what stands for a failure.
LEMMA RowKeeps ==
    ASSUME ConsoleBounds, ConsoleInv, UNCHANGED <<there, on, status, worker, call>>, NEW u \in Users,
           NEW i \in tab[u].due, NEW s \in Words, tab' = [tab EXCEPT ![u] = ShowRow(tab[u], i, s)]
    PROVE  ConsoleInv'
<1> DEFINE t == ShowRow(tab[u], i, s)
<1>1. t = [page |-> tab[u].page, filter |-> tab[u].filter, due |-> tab[u].due \ {i}, rows |-> [tab[u].rows EXCEPT ![i] = s],
           flash |-> tab[u].flash, waiting |-> tab[u].waiting]
  BY DEF ShowRow, TabOf
<1>2. tab[u] \in TabType /\ TabOK(u) /\ i \in On(tab[u].page)
  BY ConsoleParts DEF ConsoleShape, TabOK
<1>3. t \in TabType
  BY <1>1, <1>2 DEF TabType
<1>4. \A j \in Items : [tab[u].rows EXCEPT ![i] = s][j] # Empty => j \in On(tab[u].page)
  BY <1>2 DEF TabType, TabOK
<1> HIDE DEF t
<1>5. ASSUME tab'[u] = t PROVE TabOK(u)'
  <2>1. tab'[u].page = tab[u].page /\ tab'[u].due = tab[u].due \ {i} /\ tab'[u].rows = [tab[u].rows EXCEPT ![i] = s]
        /\ tab'[u].flash = tab[u].flash /\ tab'[u].waiting = tab[u].waiting
    BY <1>1, <1>5
  <2>2. (\A n : FlashOf(n)' = FlashOf(n)) /\ (\A page : On(page)' = On(page))
    BY DEF FlashOf, LakehouseFlash, CatalogFlash, SubscriptionFlash, On
  <2>3. FlashOK(u)'
    BY <1>2, <2>1, <2>2 DEF FlashOK, TabOK
  <2> QED
    BY <1>2, <1>4, <2>1, <2>2, <2>3 DEF TabOK, Shown
<1> QED
  BY <1>3, <1>5, TabMoves DEF t

LEMMA RowFailsKeeps == ASSUME ConsoleBounds, ConsoleInv, NEW u \in Users, NEW i \in there, RowFails(u, i) PROVE ConsoleInv'
<1>1. UNCHANGED <<there, on, status, worker, call>> /\ i \in tab[u].due /\ KindOf[i] \in Kinds
  BY ConsoleParts DEF RowFails
<1>2. CASE KindOf[i] \in DOMAIN Fallback
  <2>1. PICK s \in Fallback[KindOf[i]] : tab' = [tab EXCEPT ![u] = ShowRow(tab[u], i, s)]
    BY <1>2, ConsoleParts DEF RowFails, ConsoleShape
  <2>2. s \in {"NONE", "NOT_ENTITLED"}
    BY <1>2, <2>1 DEF Fallback
  <2>3. "NONE" \in Words
    BY StatusesAreWords DEF StatusesOf, Kinds
  <2>4. s \in Words
    BY <2>2, <2>3, OtherWords
  <2> QED
    BY <1>1, <2>1, <2>4, RowKeeps
<1>3. CASE KindOf[i] \notin DOMAIN Fallback
  <2>1. tab' = [tab EXCEPT ![u] = Bare("error", NoFlash)]
    BY <1>3 DEF RowFails
  <2>2. NoFlash \in Flashes
    BY NoFlashIsEmpty, ConsoleParts DEF Flashes
  <2> QED
    BY <1>1, <2>1, <2>2, NoFlashIsEmpty, BareKeeps
<1> QED
  BY <1>2, <1>3

LEMMA ReadRowKeeps == ASSUME ConsoleBounds, ConsoleInv, NEW u \in Users, NEW i \in there, ReadRow(u, i) PROVE ConsoleInv'
<1>1. /\ UNCHANGED <<there, on, status, worker, call>> /\ i \in tab[u].due
      /\ tab' = [tab EXCEPT ![u] = ShowRow(tab[u], i, status[i])]
  BY ConsoleParts DEF ReadRow, ConsoleShape
<1>2. status[i] \in Words
  BY ConsoleParts DEF ConsoleShape
<1> QED
  BY <1>1, <1>2, RowKeeps

LEMMA FilterKeeps == ASSUME ConsoleBounds, ConsoleInv, NEW u \in Users, Filter(u) PROVE ConsoleInv'
<1>1. PICK f \in Filters : tab' = [tab EXCEPT ![u].filter = f]
  BY DEF Filter
<1>2. UNCHANGED <<there, on, status, worker, call>> /\ tab[u] \in TabType /\ TabOK(u) /\ tab \in [Users -> TabType]
  BY ConsoleParts DEF ConsoleShape, Filter
<1> DEFINE t == [tab[u] EXCEPT !.filter = f]
<1>3. t \in TabType /\ tab' = [tab EXCEPT ![u] = t]
  BY <1>1, <1>2 DEF TabType, AnyFilter
<1>4. t.page = tab[u].page /\ t.due = tab[u].due /\ t.rows = tab[u].rows /\ t.flash = tab[u].flash /\ t.waiting = tab[u].waiting
  BY <1>2 DEF TabType
<1> HIDE DEF t
<1>5. ASSUME tab'[u] = t PROVE TabOK(u)'
  <2>1. (\A n : FlashOf(n)' = FlashOf(n)) /\ (\A page : On(page)' = On(page))
    BY <1>2 DEF FlashOf, LakehouseFlash, CatalogFlash, SubscriptionFlash, On
  <2>2. FlashOK(u)'
    BY <1>2, <1>4, <1>5, <2>1 DEF FlashOK, TabOK
  <2> QED
    BY <1>2, <1>4, <1>5, <2>1, <2>2 DEF TabOK, Shown
<1> QED
  BY <1>2, <1>3, <1>5, TabMoves

\* What a flash message is made of, whichever client made the call.
LEMMA FlashTypes ==
    ASSUME NEW n \in 0..MaxCalls, call[n].answer \in Words
    PROVE  FlashOf(n) \in Flashes /\ FlashOf(n).of = n
<1>1. {"done", "refused"} \subseteq Words /\ "FAILED" \in Words
  BY OtherWords, EndsAre, LongOps
<1>2. LakehouseFlash(n) \in Flashes /\ LakehouseFlash(n).of = n
  BY <1>1 DEF LakehouseFlash, Flashes
<1>3. CatalogFlash(n) \in Flashes /\ CatalogFlash(n).of = n
  BY <1>1 DEF CatalogFlash, Flashes
<1> QED
  BY <1>2, <1>3 DEF FlashOf, SubscriptionFlash

LEMMA RedirectKeeps == ASSUME ConsoleBounds, ConsoleInv, NEW u \in Users, Redirect(u) PROVE ConsoleInv'
<1> DEFINE n == tab[u].waiting
           p == Landing(u)
           f == IF p = tab[u].page THEN tab[u].filter ELSE "ALL"
<1>1. /\ n # 0 /\ call[n].pc = "answered" /\ UNCHANGED <<there, on, status, worker, call>>
      /\ tab' = [tab EXCEPT ![u] = IF call[n].answer \in Refusals \ AnswersOf(call[n].op)
                                   THEN Bare("crashed", [says |-> Empty, red |-> FALSE, of |-> n])
                                   ELSE Loading(p, f, FlashOf(n))]
  BY DEF Redirect
<1>2. /\ tab[u] \in TabType /\ TabOK(u) /\ n \in 0..MaxCalls /\ n \in Calls /\ call[n].user = u /\ call[n].answer \in Words
      /\ CallOK(n) /\ tab[u].page = PageOf[KindOf[call[n].item]] /\ KindOf[call[n].item] \in Kinds
  BY <1>1, ConsoleParts DEF ConsoleShape, TabOK, TabType, CallOK, Calls
<1>3. tab[u].page \in Pages
  BY <1>2, ConsoleKinds DEF Pages
<1>4. p \in Pages /\ p \in Shown /\ f \in AnyFilter
  BY <1>2, <1>3, ConsoleKinds DEF Landing, TabOK, TabType, AnyFilter, Shown
<1>5. CASE call[n].answer \in Refusals \ AnswersOf(call[n].op)
  <2> DEFINE g == [says |-> Empty, red |-> FALSE, of |-> n]
  <2>1. g \in Flashes /\ g.says = Empty /\ g.red = FALSE /\ g.of = n
    BY <1>2, OtherWords DEF Flashes
  <2>2. tab' = [tab EXCEPT ![u] = Bare("crashed", g)]
    BY <1>1, <1>5
  <2> HIDE DEF g, n
  <2> QED
    BY <1>1, <1>2, <1>5, <2>1, <2>2, BareKeeps
<1>6. CASE call[n].answer \notin Refusals \ AnswersOf(call[n].op)
  <2>1. FlashOf(n) \in Flashes /\ FlashOf(n).of = n
    BY <1>2, FlashTypes
  <2>2. tab' = [tab EXCEPT ![u] = Loading(p, f, FlashOf(n))]
    BY <1>1, <1>6
  <2>3. call[n].pc = "answered" /\ call[n].user = u /\ n # 0
    BY <1>1, <1>2
  <2> HIDE DEF n, p, f
  <2> DEFINE g == FlashOf(n)
  <2>4. /\ g \in Flashes
        /\ g.of = 0 => g.says # "done"
        /\ g.of # 0 => call[g.of].pc = "answered" /\ call[g.of].user = u /\ g = FlashOf(g.of)
    BY <2>1, <2>3
  <2> HIDE DEF g
  <2>5. tab' = [tab EXCEPT ![u] = Loading(p, f, g)]
    BY <2>2 DEF g
  <2>6. UNCHANGED <<there, on, status, worker, call>>
    BY <1>1
  <2> QED
    BY <1>4, <2>4, <2>5, <2>6, ZenonT(60), LoadingKeeps
<1> QED
  BY <1>5, <1>6

LEMMA BrokenKeeps == ASSUME ConsoleBounds, ConsoleInv, NEW u \in Users, Broken(u) PROVE ConsoleInv'
<1> DEFINE n == tab[u].waiting
<1>1. /\ n # 0 /\ UNCHANGED <<there, on, status, worker, call>>
      /\ tab' = IF call[n].op \in SubscriptionCalls \cup ScheduleCalls
                THEN [tab EXCEPT ![u] = Loading("subscriptions", "ALL", [says |-> "refused", red |-> TRUE, of |-> 0])]
                ELSE [tab EXCEPT ![u] = Bare("error", NoFlash)]
  BY DEF Broken
<1>2. /\ tab[u] \in TabType /\ TabOK(u) /\ n \in Calls /\ MaxCalls \in Nat
      /\ CallOK(n) /\ call[n].pc # "unmade" /\ tab[u].page = PageOf[KindOf[call[n].item]] /\ KindOf[call[n].item] \in Kinds
  BY <1>1, ConsoleParts DEF ConsoleShape, TabOK, TabType, CallOK, Calls
<1>3. CASE call[n].op \in SubscriptionCalls \cup ScheduleCalls
  <2>1. call[n].op \in {"subscribe", "pause", "resume", "cancel", "publishNow"} /\ call[n].op \in OpsOf(KindOf[call[n].item])
    BY <1>2, <1>3 DEF SubscriptionCalls, ScheduleCalls, CallOK
  <2>2. KindOf[call[n].item] = "subscription"
    BY <1>2, <2>1 DEF OpsOf, Kinds
  <2>3. "subscriptions" \in Pages /\ "subscriptions" \in Shown
    BY <1>2, <2>2, ConsoleKinds DEF TabOK
  <2> DEFINE g == [says |-> "refused", red |-> TRUE, of |-> 0]
  <2>4. g \in Flashes /\ g.of = 0 /\ g.says # "done"
    BY <1>2, OtherWords DEF Flashes
  <2>5. tab' = [tab EXCEPT ![u] = Loading("subscriptions", "ALL", g)]
    BY <1>1, <1>3
  <2> HIDE DEF g
  <2>6. "ALL" \in AnyFilter
    BY DEF AnyFilter
  <2> QED
    BY <1>1, <2>3, <2>4, <2>5, <2>6, ZenonT(60), LoadingKeeps
<1>4. CASE call[n].op \notin SubscriptionCalls \cup ScheduleCalls
  <2>1. NoFlash \in Flashes
    BY NoFlashIsEmpty, ConsoleParts DEF Flashes
  <2>2. tab' = [tab EXCEPT ![u] = Bare("error", NoFlash)]
    BY <1>1, <1>4
  <2> QED
    BY <1>1, <2>1, <2>2, NoFlashIsEmpty, BareKeeps
<1> QED
  BY <1>3, <1>4

-----------------------------------------------------------------------------
\* A row offers operations of its item's kind only.
LEMMA OfferedOps ==
    ASSUME NEW i, KindOf[i] \in Kinds, NEW s, NEW op \in Offered(i, s)
    PROVE  op \in OpsOf(KindOf[i])
<1>1. CASE KindOf[i] = "job"
  BY <1>1 DEF Offered, JobActions, OpsOf
<1>2. CASE KindOf[i] = "ingestion"
  BY <1>2 DEF Offered, RowActions, OpsOf
<1>3. CASE KindOf[i] = "run"
  BY <1>3 DEF Offered, RunActions, OpsOf
<1>4. CASE KindOf[i] = "version"
  <2>1. op \in VersionActions(s)
    BY <1>4 DEF Offered
  <2>2. op \in {"activate", "beta", "approve", "retire", "optin", "deprecate", "rollback"}
    BY <2>1 DEF VersionActions
  <2> QED
    BY <1>4, <2>2 DEF OpsOf
<1>5. CASE KindOf[i] = "migration"
  BY <1>5 DEF Offered, MigrationActions, OpsOf
<1>6. CASE KindOf[i] = "subscription"
  BY <1>6 DEF Offered, CardActions, PanelActions, SubscribeForm, OpsOf
<1>7. CASE KindOf[i] = "execution"
  BY <1>7 DEF Offered, ObservabilityActions
<1>8. CASE KindOf[i] = "publication"
  BY <1>8 DEF Offered
<1> QED
  BY <1>1, <1>2, <1>3, <1>4, <1>5, <1>6, <1>7, <1>8 DEF Kinds

LEMMA OpsAreKnown == \A k \in Kinds : OpsOf(k) \subseteq AllOps
BY DEF OpsOf, Kinds, AllOps, LakehouseCalls, PublicationCalls, JobCalls, CatalogCalls, SubscriptionCalls, ScheduleCalls

\* A click sends the next call; the tab waits for it.
LEMMA ClickKeeps == ASSUME ConsoleBounds, ConsoleInv, NEW u \in Users, NEW i \in there, Click(u, i) PROVE ConsoleInv'
<1>1. PICK k \in 0..MaxCalls : Made = 1..k
  BY DEF ConsoleInv
<1>2. MaxCalls \in Nat /\ k \in Nat /\ ConsoleShape /\ i \in Items /\ KindOf[i] \in Kinds /\ Empty # "done" /\ Empty \in Words
  BY <1>1, ConsoleParts, OtherWords DEF ConsoleBounds
<1>3. Cardinality(1..k) = k
  BY <1>2, FS_Interval
<1>4. PICK n \in Calls : n = Cardinality(Made) + 1
  BY DEF Click
<1>5. n = k + 1
  BY <1>1, <1>3, <1>4
<1>6. PICK op \in Offered(i, tab[u].rows[i]) : call' = [call EXCEPT ![n] = CallOf(u, op, i, "sent", Empty, Empty)]
  BY <1>4 DEF Click
<1>7. /\ i \in On(tab[u].page) /\ UNCHANGED <<there, on, status, worker>>
      /\ tab' = [tab EXCEPT ![u] = TabOf(@.page, @.filter, {}, @.rows, NoFlash, n)]
  BY <1>4 DEF Click
<1>8. op \in OpsOf(KindOf[i]) /\ op \in AllOps
  BY <1>2, <1>6, OfferedOps, OpsAreKnown
<1>9. call[n].pc = "unmade"
  <2>1. n \notin Made
    BY <1>1, <1>2, <1>5
  <2> QED
    BY <2>1 DEF Made
<1>10. /\ call'[n] = [user |-> u, op |-> op, item |-> i, pc |-> "sent", result |-> Empty, answer |-> Empty]
       /\ \A m \in Calls \ {n} : call'[m] = call[m]
       /\ call' \in [Calls -> [user : Users \cup {Empty}, op : AllOps \cup {Empty}, item : Items \cup {Empty},
                               pc : {"unmade", "sent", "running", "ran", "answered"}, result : Words, answer : Words]]
  BY <1>2, <1>6, <1>8 DEF ConsoleShape, CallOf
<1>11. Made' = Made \cup {n} /\ Made \subseteq Calls
  BY <1>10 DEF Made, Calls
<1>12. \E l \in 0..MaxCalls : Made' = 1..l
  <2>1. k + 1 \in 0..MaxCalls
    BY <1>2, <1>4, <1>5 DEF Calls
  <2>2. Made' = 1..(k + 1)
    BY <1>1, <1>2, <1>5, <1>11
  <2> QED
    BY <2>1, <2>2
<1>13. ASSUME NEW m \in Calls PROVE CallOK(m)'
  <2>1. CASE m = n
    <3>1. call'[m].pc = "sent" /\ call'[m].item = i /\ call'[m].user = u /\ call'[m].op = op
      BY <1>10, <2>1
    <3> QED
      BY <1>7, <1>8, <3>1 DEF CallOK
  <2>2. CASE m # n
    <3>1. call'[m] = call[m] /\ CallOK(m)
      BY <1>10, <2>2, ConsoleParts
    <3>2. Shared(m) => Shared(m)'
      <4>1. ASSUME NEW l \in Made \ {m}, call[l].item = call[m].item PROVE Shared(m)'
        <5>1. call'[l] = call[l] /\ l \in Made' \ {m}
          <6>1. l # n
            BY <1>9 DEF Made
          <6> QED
            BY <1>10, <1>11, <6>1
        <5> QED
          BY <3>1, <4>1, <5>1 DEF Shared
      <4> QED
        BY <4>1 DEF Shared
    <3> QED
      BY <1>7, <3>1, <3>2 DEF CallOK
  <2> QED
    BY <2>1, <2>2
<1>14. ASSUME NEW j \in there, KindOf[j] \in Worked PROVE RunnerOK(j)'
  <2>1. Tracking(j)' = Tracking(j)
    <3>1. n \notin Tracking(j)
      BY <1>9 DEF Tracking
    <3>2. ~(call'[n].pc = "running")
      BY <1>10
    <3> QED
      BY <1>10, <3>1, <3>2 DEF Tracking, Calls
  <2> QED
    BY <1>7, <1>14, <2>1, ConsoleParts DEF RunnerOK
<1>15. tab \in [Users -> TabType]
  BY <1>2 DEF ConsoleShape
<1> DEFINE t == TabOf(tab[u].page, tab[u].filter, {}, tab[u].rows, NoFlash, n)
<1>16. /\ t = [page |-> tab[u].page, filter |-> tab[u].filter, due |-> {}, rows |-> tab[u].rows, flash |-> NoFlash, waiting |-> n]
       /\ t \in TabType
  <2>1. NoFlash \in Flashes /\ n \in 0..MaxCalls
    BY <1>2, NoFlashIsEmpty DEF Flashes, Calls
  <2> QED
    BY <1>15, <2>1 DEF TabOf, TabType
<1>17. tab'[u] = t /\ (\A v \in Users \ {u} : tab'[v] = tab[v])
  BY <1>7, <1>15
<1>18. tab' \in [Users -> TabType]
  BY <1>7, <1>15, <1>16
<1> HIDE DEF t
<1>19. ASSUME NEW v \in Users PROVE TabOK(v)'
  <2>0. TabOK(v) /\ \A page : On(page)' = On(page)
    BY <1>7, ConsoleParts DEF On
  <2>1. CASE v = u
    <3>1. tab'[v].page = tab[u].page /\ tab'[v].due = {} /\ tab'[v].rows = tab[u].rows /\ tab'[v].flash = NoFlash /\ tab'[v].waiting = n
      BY <1>16, <1>17, <2>1
    <3>2. FlashOK(v)'
      BY <1>2, <3>1, NoFlashIsEmpty DEF FlashOK
    <3>3. call'[n].pc # "unmade" /\ call'[n].user = v /\ tab'[v].page = PageOf[KindOf[call'[n].item]]
      BY <1>7, <1>10, <2>1, <3>1 DEF On
    <3> QED
      BY <1>7, <2>0, <2>1, <3>1, <3>2, <3>3 DEF TabOK, Shown
  <2>2. CASE v # u
    <3>1. tab'[v] = tab[v] /\ tab[v].waiting \in 0..MaxCalls /\ tab[v].flash.of \in 0..MaxCalls
      BY <1>15, <1>17, <2>2 DEF TabType, Flashes
    <3>2. ASSUME tab[v].waiting # 0 PROVE call'[tab[v].waiting] = call[tab[v].waiting]
      <4>1. tab[v].waiting \in Calls /\ tab[v].waiting # n
        BY <1>2, <1>9, <2>0, <3>1, <3>2 DEF TabOK, Calls
      <4> QED
        BY <1>10, <4>1
    <3>3. ASSUME tab[v].flash.of # 0
          PROVE  call'[tab[v].flash.of] = call[tab[v].flash.of] /\ FlashOf(tab[v].flash.of)' = FlashOf(tab[v].flash.of)
      <4>1. tab[v].flash.of \in Calls /\ tab[v].flash.of # n
        BY <1>2, <1>9, <2>0, <3>1, <3>3 DEF TabOK, FlashOK, Calls
      <4>2. call'[tab[v].flash.of] = call[tab[v].flash.of]
        BY <1>10, <4>1
      <4> QED
        BY <3>1, <4>2 DEF FlashOf, LakehouseFlash, CatalogFlash, SubscriptionFlash
    <3>4. FlashOK(v)'
      BY <2>0, <3>1, <3>3 DEF FlashOK, TabOK
    <3> QED
      BY <1>7, <2>0, <3>1, <3>2, <3>4 DEF TabOK, Shown
  <2> QED
    BY <2>1, <2>2
<1>20. ConsoleShape'
  BY <1>2, <1>7, <1>10, <1>18 DEF ConsoleShape
<1>21. (\A m \in Calls : CallOK(m))' /\ (\A j \in there : KindOf[j] \in Worked => RunnerOK(j))'
       /\ (\A j \in there : status[j] \in StatusesOf(KindOf[j]))' /\ (worker \subseteq {j \in there : KindOf[j] \in Worked})'
  BY <1>7, <1>13, <1>14, ConsoleParts DEF Calls
<1> QED
  BY <1>12, <1>19, <1>20, <1>21 DEF ConsoleInv

LEMMA ConsoleKeeps == ASSUME ConsoleBounds, ConsoleInv, [ConsoleNext]_consoleVars PROVE ConsoleInv'
<1>1. CASE UNCHANGED consoleVars
  BY <1>1 DEF consoleVars, ConsoleInv, ConsoleShape, Made, CallOK, Shared, RunnerOK, Tracking, TabOK, FlashOK, FlashOf,
     LakehouseFlash, CatalogFlash, SubscriptionFlash, On, Shown
<1>2. ASSUME NEW n \in Calls, Judge(n) \/ WorkEnds(n) \/ ReadBack(n) PROVE ConsoleInv'
  BY <1>2, OperationKeeps, WorkEndsKeeps, ReadBackKeeps
<1>3. ASSUME NEW i \in there, OwnStep(i) PROVE ConsoleInv'
  BY <1>3, OwnStepKeeps
<1>4. ASSUME NEW u \in Users, TabNext(u) PROVE ConsoleInv'
  <2>1. ASSUME NEW page \in Pages, OpenPage(u, page) PROVE ConsoleInv'
    BY <2>1, OpenPageKeeps
  <2>2. ASSUME NEW i \in there, ReadRow(u, i) \/ RowFails(u, i) \/ Click(u, i) PROVE ConsoleInv'
    BY <2>2, ReadRowKeeps, RowFailsKeeps, ClickKeeps
  <2>3. ASSUME Filter(u) \/ Redirect(u) \/ Broken(u) PROVE ConsoleInv'
    BY <2>3, FilterKeeps, RedirectKeeps, BrokenKeeps
  <2> QED
    BY <1>4, <2>1, <2>2, <2>3 DEF TabNext
<1> QED
  BY <1>1, <1>2, <1>3, <1>4 DEF ConsoleNext, ServiceNext

\* Whatever tabs, services and workers do: every call is one its tab was offered, its answer is how it ended, a job or an
\* ingestion has one runner, and every flash message is the one of an answered call of the tab's own user.
THEOREM ConsoleCorrect == ASSUME ConsoleBounds PROVE ConsoleSpec => []ConsoleInv
<1>1. ConsoleInit => ConsoleInv
  BY ConsoleStarts
<1>2. ConsoleInv /\ [ConsoleNext]_consoleVars => ConsoleInv'
  BY ConsoleKeeps
<1> QED
  BY <1>1, <1>2, PTL DEF ConsoleSpec

-----------------------------------------------------------------------------
\* What the invariant says of the pages.
LEMMA RefusalIsTold ==
    ASSUME NEW n \in Calls, CallOK(n), call[n].pc = "answered"
    PROVE  call[n].result = "refused" <=> call[n].answer \in Refusals
<1>1. \A s \in StatusesOf("job") : s \notin Refusals
  BY DEF StatusesOf, Refusals
<1> QED
  BY <1>1 DEF CallOK

\* The flash message of a tab that did not crash.
LEMMA FlashIsOf ==
    ASSUME ConsoleBounds, ConsoleInv, NEW u \in Users, NEW n, n = tab[u].flash.of, n # 0
    PROVE  /\ n \in Calls /\ call[n].pc = "answered" /\ call[n].user = u /\ CallOK(n)
           /\ call[n].item \in there /\ KindOf[call[n].item] \in Kinds /\ call[n].op \in OpsOf(KindOf[call[n].item])
           /\ tab[u].page # "crashed" => tab[u].flash = FlashOf(n)
           /\ tab[u].page = "crashed" => /\ ~tab[u].flash.red /\ tab[u].flash.says = Empty
                                         /\ call[n].answer \in Refusals \ AnswersOf(call[n].op)
           /\ call[n].result = "refused" <=> call[n].answer \in Refusals
<1>1. TabOK(u) /\ n \in 0..MaxCalls /\ MaxCalls \in Nat
  BY ConsoleParts DEF ConsoleShape, TabType, Flashes
<1>2. n \in Calls
  BY <1>1 DEF Calls
<1>3. FlashOK(u) /\ CallOK(n)
  BY <1>1, <1>2, ConsoleParts DEF TabOK
<1>4. /\ call[n].pc = "answered" /\ call[n].user = u
      /\ tab[u].page # "crashed" => tab[u].flash = FlashOf(n)
      /\ tab[u].page = "crashed" => /\ ~tab[u].flash.red /\ tab[u].flash.says = Empty
                                    /\ call[n].answer \in Refusals \ AnswersOf(call[n].op)
  BY <1>3 DEF FlashOK
<1>5. call[n].item \in there /\ call[n].op \in OpsOf(KindOf[call[n].item])
  BY <1>3, <1>4 DEF CallOK
<1> QED
  BY <1>2, <1>3, <1>4, <1>5, ConsoleParts, RefusalIsTold

LEMMA TypesHold == ASSUME ConsoleBounds, ConsoleInv PROVE ConsoleTypeOK
<1>1. ASSUME NEW u \in Users
      PROVE  /\ tab[u].waiting # 0 => call[tab[u].waiting].user = u /\ tab[u].page \in Pages
             /\ \A i \in Items : tab[u].rows[i] # Empty => i \in On(tab[u].page)
             /\ tab[u].page \in Pages => tab[u].page \in on \cup {"pipelines"}
  <2>1. TabOK(u) /\ tab[u].waiting \in 0..MaxCalls /\ MaxCalls \in Nat
    BY ConsoleParts DEF ConsoleShape, TabType
  <2>2. ASSUME tab[u].waiting # 0 PROVE call[tab[u].waiting].user = u /\ tab[u].page \in Pages
    <3>1. tab[u].waiting \in Calls
      BY <2>1, <2>2 DEF Calls
    <3>2. call[tab[u].waiting].pc # "unmade" /\ call[tab[u].waiting].user = u
          /\ tab[u].page = PageOf[KindOf[call[tab[u].waiting].item]]
      BY <2>1, <2>2 DEF TabOK
    <3>3. call[tab[u].waiting].item \in there
      BY <3>1, <3>2, ConsoleParts DEF CallOK
    <3>4. KindOf[call[tab[u].waiting].item] \in DOMAIN PageOf
      BY <3>3, ConsoleParts, ConsoleKinds
    <3> QED
      BY <3>2, <3>4 DEF Pages
  <2> QED
    BY <2>1, <2>2 DEF TabOK, Shown
<1>2. ASSUME NEW i \in worker PROVE i \in Items /\ status[i] = "RUNNING"
  <2>1. i \in there /\ i \in Items /\ RunnerOK(i)
    BY <1>2, ConsoleParts
  <2> QED
    BY <1>2, <2>1 DEF RunnerOK
<1> QED
  BY <1>1, <1>2 DEF ConsoleTypeOK

LEMMA OneRunnerHolds == ASSUME ConsoleBounds, ConsoleInv PROVE OneRunner
<1> SUFFICES ASSUME NEW i \in there, KindOf[i] = "job"
             PROVE  Cardinality(Doing(i)) + Cardinality(worker \cap {i}) = (IF status[i] = "RUNNING" THEN 1 ELSE 0)
  BY DEF OneRunner
<1>1. RunnerOK(i)
  BY ConsoleParts DEF Worked
<1>2. Doing(i) = Tracking(i)
  <2>1. ASSUME NEW n \in Doing(i) PROVE call[n].op \in Tracked
    <3>1. n \in Calls /\ call[n].item = i /\ call[n].pc = "running" /\ CallOK(n)
      BY <2>1, ConsoleParts DEF Doing
    <3>2. call[n].op \in OpsOf("job")
      BY <3>1 DEF CallOK
    <3> QED
      BY <3>2 DEF OpsOf, Tracked
  <2> QED
    BY <2>1 DEF Doing, Tracking
<1>3. worker \cap {i} = IF i \in worker THEN {i} ELSE {}
  OBVIOUS
<1>4. Cardinality({}) = 0 /\ \A x : Cardinality({x}) = 1
  BY FS_EmptySet, FS_Singleton
<1>5. CASE Tracking(i) = {}
  <2>1. i \in worker <=> status[i] = "RUNNING"
    BY <1>1, <1>5 DEF RunnerOK
  <2>2. Cardinality(Doing(i)) = 0
    BY <1>2, <1>4, <1>5
  <2>3. Cardinality(worker \cap {i}) = IF i \in worker THEN 1 ELSE 0
    BY <1>3, <1>4
  <2> QED
    BY <2>1, <2>2, <2>3
<1>6. CASE Tracking(i) # {}
  <2>1. PICK n : n \in Tracking(i)
    BY <1>6
  <2>2. Tracking(i) = {n} /\ i \notin worker /\ status[i] = "RUNNING"
    BY <1>1, <2>1 DEF RunnerOK
  <2> QED
    BY <1>2, <1>3, <1>4, <2>2
<1> QED
  BY <1>5, <1>6

LEMMA OfferedHolds == ASSUME ConsoleBounds, ConsoleInv PROVE OfferedCanStart
<1> SUFFICES ASSUME NEW i \in there, KindOf[i] # "run", NEW op \in Offered(i, status[i])
             PROVE  status[i] \in From(op)
  BY DEF OfferedCanStart
<1> DEFINE s == status[i]
<1>1. KindOf[i] \in Kinds /\ s \in StatusesOf(KindOf[i])
  BY ConsoleParts
<1>2. CASE KindOf[i] = "job"
  BY <1>2, FromAre DEF Offered, JobActions
<1>3. CASE KindOf[i] = "ingestion"
  BY <1>1, <1>3, FromAre DEF Offered, RowActions, StatusesOf
<1>4. CASE KindOf[i] = "version"
  <2>1. op \in VersionActions(s) /\ s \in {"DRAFT", "BETA", "ACTIVE", "DEPRECATED", "RETIRED"}
    BY <1>1, <1>4 DEF Offered, StatusesOf
  <2> QED
    BY <2>1, FromAre DEF VersionActions
<1>5. CASE KindOf[i] = "migration"
  BY <1>5, FromAre DEF Offered, MigrationActions
<1>6. CASE KindOf[i] = "subscription"
  <2>1. op \in CardActions(s) /\ s \in {"NONE", "PENDING", "ACTIVE", "PAUSED", "SUSPENDED", "CANCELLED"}
    BY <1>1, <1>6 DEF Offered, StatusesOf
  <2> QED
    BY <2>1, FromAre DEF CardActions, SubscribeForm, PanelActions
<1>7. CASE KindOf[i] = "execution"
  BY <1>7 DEF Offered, ObservabilityActions
<1>8. CASE KindOf[i] = "publication"
  BY <1>8 DEF Offered
<1> QED
  BY <1>1, <1>2, <1>3, <1>4, <1>5, <1>6, <1>7, <1>8 DEF Kinds

LEMMA SuccessHolds == ASSUME ConsoleBounds, ConsoleInv PROVE SuccessIsEarned
<1> SUFFICES ASSUME NEW u \in Users, tab[u].flash.says = "done"
             PROVE  call[tab[u].flash.of].user = u /\ call[tab[u].flash.of].result # "refused"
  BY DEF SuccessIsEarned
<1> DEFINE n == tab[u].flash.of
<1>1. n # 0
  BY ConsoleParts DEF TabOK, FlashOK
<1>2. tab[u].page # "crashed"
  BY <1>1, FlashIsOf DEF ConsoleBounds
<1>3. call[n].user = u /\ tab[u].flash = FlashOf(n) /\ (call[n].result = "refused" <=> call[n].answer \in Refusals)
  BY <1>1, <1>2, FlashIsOf
<1>4. "done" \notin Refusals
  BY DEF Refusals
<1>5. FlashOf(n).says = "done" => call[n].answer \notin Refusals
  BY <1>4 DEF FlashOf, LakehouseFlash, CatalogFlash, SubscriptionFlash
<1> QED
  BY <1>3, <1>5

LEMMA OutcomeHolds == ASSUME ConsoleBounds, ConsoleInv PROVE FlashIsOwnOutcome
<1> SUFFICES ASSUME NEW u \in Users, NEW n, n = tab[u].flash.of, n # 0,
                    call[n].op \in Long \ {"execute", "publishNow"}, tab[u].page # "crashed"
             PROVE  \/ call[n].result = "refused" /\ tab[u].flash.red /\ tab[u].flash.says \in Refusals \cup {"FAILED"}
                    \/ tab[u].flash.says = call[n].result
                    \/ call[n].op = "run" /\ \E m \in Made \ {n} : call[m].item = call[n].item
  BY DEF FlashIsOwnOutcome
<1>1. CallOK(n) /\ call[n].pc = "answered" /\ tab[u].flash = FlashOf(n)
      /\ (call[n].result = "refused" <=> call[n].answer \in Refusals)
  BY FlashIsOf
<1>2. FlashOf(n) = LakehouseFlash(n)
  BY LongOps DEF FlashOf, CatalogCalls, SubscriptionCalls, ScheduleCalls
<1>3. /\ tab[u].flash.says = IF call[n].answer \in Refusals /\ call[n].op = "ingest" THEN "FAILED" ELSE call[n].answer
      /\ call[n].answer \in Refusals => tab[u].flash.red
  <2>1. LakehouseFlash(n).says = IF call[n].answer \in Refusals /\ call[n].op = "ingest" THEN "FAILED" ELSE call[n].answer
    BY DEF LakehouseFlash
  <2>2. call[n].answer \in Refusals => LakehouseFlash(n).red
    BY DEF LakehouseFlash
  <2>3. tab[u].flash = LakehouseFlash(n)
    BY <1>1, <1>2
  <2> QED
    BY <2>1, <2>2, <2>3
<1>4. \/ call[n].answer \in Refusals
      \/ call[n].result = call[n].answer /\ call[n].answer \notin Refusals
      \/ call[n].op = "run" /\ Shared(n)
  BY <1>1 DEF CallOK
<1> QED
  BY <1>1, <1>3, <1>4 DEF Shared

LEMMA RedHolds == ASSUME ConsoleBounds, ConsoleInv PROVE RedIsFailure
<1> SUFFICES ASSUME NEW u \in Users, NEW n, n = tab[u].flash.of, n # 0
             PROVE  /\ call[n].result = "refused" => tab[u].flash.red \/ tab[u].page = "crashed"
                    /\ tab[u].flash.red => call[n].result \in {"refused", "FAILED"}
                    /\ tab[u].page = "crashed" => KindOf[call[n].item] \notin {"version", "migration", "subscription"}
  BY DEF RedIsFailure
<1>1. /\ CallOK(n) /\ call[n].pc = "answered" /\ (call[n].result = "refused" <=> call[n].answer \in Refusals)
      /\ KindOf[call[n].item] \in Kinds /\ call[n].op \in OpsOf(KindOf[call[n].item])
  BY FlashIsOf
<1>2. CASE tab[u].page = "crashed"
  <2>1. ~tab[u].flash.red /\ AnswersOf(call[n].op) # Refusals
    BY <1>2, FlashIsOf
  <2>2. call[n].op \notin CatalogCalls \cup SubscriptionCalls \cup ScheduleCalls
    <3>1. \A op \in CatalogCalls \cup SubscriptionCalls \cup ScheduleCalls :
             op \notin LakehouseCalls \cup PublicationCalls \cup JobCalls
      BY DEF CatalogCalls, SubscriptionCalls, ScheduleCalls, LakehouseCalls, PublicationCalls, JobCalls
    <3>2. \A op \in CatalogCalls \cup SubscriptionCalls \cup ScheduleCalls : AnswersOf(op) = Refusals
      BY <3>1 DEF AnswersOf, CatalogAnswers, SubscriptionAnswers, ScheduleAnswers
    <3> QED
      BY <2>1, <3>2
  <2>3. \A k \in {"version", "migration", "subscription"} :
           OpsOf(k) \subseteq CatalogCalls \cup SubscriptionCalls \cup ScheduleCalls
    BY DEF OpsOf, CatalogCalls, SubscriptionCalls, ScheduleCalls
  <2> QED
    BY <1>1, <1>2, <2>1, <2>2, <2>3
<1>3. CASE tab[u].page # "crashed"
  <2>1. tab[u].flash = FlashOf(n)
    BY <1>3, FlashIsOf
  <2>2. call[n].answer \in Refusals => FlashOf(n).red
    BY DEF FlashOf, LakehouseFlash, CatalogFlash, SubscriptionFlash
  <2>3. FlashOf(n).red => \/ call[n].answer \in Refusals
                          \/ call[n].answer = "FAILED" /\ call[n].op \in {"ingest", "publish"}
    BY DEF FlashOf, LakehouseFlash, CatalogFlash, SubscriptionFlash
  <2>4. call[n].answer = "FAILED" /\ call[n].op \in {"ingest", "publish"} => call[n].result = "FAILED"
    <3>1. "FAILED" \notin Refusals
      BY DEF Refusals
    <3> QED
      BY <1>1, <3>1 DEF CallOK
  <2> QED
    BY <1>1, <1>3, <2>1, <2>2, <2>3, <2>4
<1> QED
  BY <1>2, <1>3

\* A page never tells its user what the services did not do: a job has one runner, an offered operation may start, and
\* "done", red and the status in a flash message are true of the user's own operation and of how it ended.
THEOREM ConsoleStaysTruthful == ASSUME ConsoleBounds PROVE ConsoleSpec => []ConsoleTellsTheTruth
<1>1. ConsoleInv => ConsoleTellsTheTruth
  BY TypesHold, OneRunnerHolds, OfferedHolds, SuccessHolds, OutcomeHolds, RedHolds DEF ConsoleTellsTheTruth
<1> QED
  BY <1>1, ConsoleCorrect, PTL
=============================================================================
