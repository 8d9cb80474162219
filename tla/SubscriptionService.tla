------------------------- MODULE SubscriptionService -------------------------
(***************************************************************************)
(* subscription-service: the subscriptions of one tenant to one product    *)
(* and the tenant's entitlement to it.  A request checks on the pool what  *)
(* it read (status, entitlement, the catalog's answers) and writes later   *)
(* in a transaction, guarded by the row's version.  Denying an entitlement *)
(* suspends an ACTIVE subscription in the same transaction.                *)
(* The catalog is asked and may refuse; ProductCatalog models its answers. *)
(***************************************************************************)
EXTENDS Naturals, FiniteSets

CONSTANTS
    Subs,        \* subscription ids, in no order
    Requests,    \* concurrent requests
    Keys,        \* Idempotency-Key values the client uses
    KeyedOperations, \* the operations it sends under a key
    None,
    MaxVersion,  \* bound on the version of a subscription or an entitlement
    MaxChanges   \* bound on the version of a delivery preference

\* A row that is inserted has version 1.
ASSUME BoundsArePositive == MaxVersion \in Nat \ {0} /\ MaxChanges \in Nat \ {0}

VARIABLES
    sub,      \* subscriptions: status and version (status None: no row)
    pref,     \* subscription_delivery_preferences: version
    ent,      \* entitlements: effect and version; its validity window is not kept
    lock,     \* the request whose transaction holds the entitlement's row lock
    req,      \* per request: operation, target, key, program counter and what it has read
    recorded, \* idempotency_records: the keys whose outcome is saved
    intent,   \* the operation and target the client sends under a key
    runs,     \* auxiliary: how often the operation of a key was carried out, up to twice
    excused,  \* auxiliary: keys repeated, or whose server crashed, before the outcome was saved
    overtaken \* auxiliary: subscriptions made ACTIVE by a request an entitlement change overtook

rows == <<sub, pref, ent>>
aux  == <<runs, excused, overtaken>>
vars == <<rows, lock, req, recorded, intent, aux>>

StatusType == {"PENDING", "ACTIVE", "PAUSED", "SUSPENDED", "CANCELLED"}
Effects    == {"ALLOW", "DENY"}
\* transition-rules.ts
ALLOWED_TRANSITIONS == [PENDING   |-> {"ACTIVE", "CANCELLED"},
                        ACTIVE    |-> {"PAUSED", "SUSPENDED", "CANCELLED"},
                        PAUSED    |-> {"ACTIVE", "SUSPENDED", "CANCELLED"},
                        SUSPENDED |-> {"ACTIVE", "CANCELLED"},
                        CANCELLED |-> {}]
\* The LifecycleTransition each route hands to transition(): where it leads.  activate
\* hands over the same one as resume.
LifecycleRoutes == [resume |-> "ACTIVE", pause |-> "PAUSED", suspend |-> "SUSPENDED", cancel |-> "CANCELLED"]

PatchRoutes       == {"policy", "preference"}
EntitlementRoutes == {"grant", "allow", "deny", "update"}
IdempotentRoutes  == {"create", "pause", "resume", "cancel"}
ASSUME KeysOnIdempotentRoutes == KeyedOperations \subseteq IdempotentRoutes
Operations == {"create"} \cup DOMAIN LifecycleRoutes \cup PatchRoutes \cup EntitlementRoutes
ASSUME NoneIsNothing == None \notin Subs \cup Requests \cup Keys \cup Operations \cup StatusType \cup Effects

IdleRequest == [op |-> None, on |-> None, key |-> None, pc |-> "idle", status |-> None,
                ver |-> 0, effect |-> None, write |-> None]
At(r, point)   == req[r].pc = point
Goto(r, point) == req' = [req EXCEPT ![r].pc = point]

\* Mutant: what a request read is left to the next one.
MutantDone(r) == Goto(r, "idle")

Done(r) == req' = [req EXCEPT ![r] = IdleRequest]

\* A transaction that ends, either way, releases the row lock it holds.
Release(r)     == lock' = IF lock = r THEN None ELSE lock

Live == {s \in Subs : sub[s].status \notin {None, "CANCELLED"}}
\* evaluateEntitlement: no row or DENY is a denial.  An ALLOW outside its validity window
\* is one too: a check may refuse whatever the effect is.
Allows(e) == e.effect = "ALLOW"
NeedsEligibility(op) == op \in {"create", "resume"}

Init ==
    /\ sub = [s \in Subs |-> [status |-> None, ver |-> 0]]
    /\ pref = [s \in Subs |-> 0]
    /\ ent = [effect |-> None, ver |-> 0]
    /\ lock = None
    /\ req = [r \in Requests |-> IdleRequest]
    /\ recorded = {} /\ intent = [k \in Keys |-> None]
    /\ runs = [k \in Keys |-> 0]
    /\ excused = {} /\ overtaken = {}

--------------------------------------------------------------------------
(* Requests and the idempotency key *)

Begin(op) ==
    CASE op = "create"            -> "entitled"
      [] op \in EntitlementRoutes -> "current"
      [] OTHER                    -> "load"
Targets(op) ==
    CASE op = "create"            -> {s \in Subs : sub[s].status = None /\ \A r \in Requests : req[r].on # s}
      [] op \in EntitlementRoutes -> {None}
      [] OTHER                    -> {s \in Subs : sub[s].status # None}
Payload(op, s) == [op |-> op, on |-> IF op = "create" THEN None ELSE s]
Repeats(k)     == \E r \in Requests : k # None /\ req[r].key = k

\* withIdempotency, look-up: an unrecorded key lets the handler run.  The client sends
\* one payload under a key; a creation gets a fresh subscription id.
Receive(r) ==
    /\ At(r, "idle")
    /\ \E op \in Operations : \E s \in Targets(op), k \in Keys \cup {None} :
        /\ k # None => /\ op \in KeyedOperations /\ k \notin recorded
                       /\ intent[k] \in {None, Payload(op, s)}
        /\ req' = [req EXCEPT ![r] = [IdleRequest EXCEPT !.op = op, !.on = s, !.key = k, !.pc = Begin(op)]]
        /\ intent' = IF k = None THEN intent ELSE [intent EXCEPT ![k] = Payload(op, s)]
        /\ excused' = IF Repeats(k) THEN excused \cup {k} ELSE excused
    /\ UNCHANGED <<rows, lock, recorded, runs, overtaken>>

\* withIdempotency, saveIdempotencyRecord: a record that is there already stays.
Save(r) ==
    /\ At(r, "save")
    /\ recorded' = recorded \cup {req[r].key}
    /\ Done(r)
    /\ UNCHANGED <<rows, lock, intent, aux>>

\* The operation of a request is carried out; a keyed one goes on to save its outcome.
CarriedOut(r) ==
    LET k == req[r].key IN
    /\ runs' = IF k = None THEN runs ELSE [runs EXCEPT ![k] = 1 + IF @ = 0 THEN 0 ELSE 1]
    /\ IF k = None THEN Done(r) ELSE req' = [req EXCEPT ![r].pc = "save", ![r].ver = 0, ![r].effect = None]

\* A check fails: the handler answers with an error, which is not recorded.
Refused(r) == Done(r) /\ Release(r) /\ UNCHANGED <<rows, recorded, intent, aux>>
Advance(r, point) == Goto(r, point) /\ UNCHANGED <<rows, lock, recorded, intent, aux>>

--------------------------------------------------------------------------
(* Subscriptions *)

\* findOwnedSubscriptionOrThrow on the pool and what is decided on that copy:
\* assertTransition, or that a CANCELLED subscription cannot be modified.
Permitted(op, status) == IF op \in PatchRoutes THEN status # "CANCELLED"
                         ELSE LifecycleRoutes[op] \in ALLOWED_TRANSITIONS[status]
Load(r) ==
    /\ At(r, "load")
    /\ LET row == sub[req[r].on]  op == req[r].op IN
       IF Permitted(op, row.status)
       THEN /\ req' = [req EXCEPT ![r].ver = row.ver,
                                  ![r].pc = IF NeedsEligibility(op) THEN "entitled"
                                            ELSE IF op \in PatchRoutes THEN "catalog" ELSE "status"]
            /\ UNCHANGED <<rows, lock, recorded, intent, aux>>
       ELSE Refused(r)

\* assertProductActive, a call the catalog may refuse, then assertEntitlementAllows: read on
\* the pool, outside any transaction.
AssertEntitlement(r) ==
    /\ At(r, "entitled")
    /\ \/ /\ Allows(ent)
          /\ req' = [req EXCEPT ![r].effect = ent.effect, ![r].pc = "catalog"]
          /\ UNCHANGED <<rows, lock, recorded, intent, aux>>
       \/ Refused(r)

\* resolveVersionPolicy, and validateDeliveryCapability for all but a policy change: calls
\* to the catalog, which may refuse.
AskCatalog(r) ==
    /\ At(r, "catalog")
    /\ \/ Advance(r, CASE req[r].op = "create" -> "insert"
                       [] req[r].op \in PatchRoutes -> req[r].op
                       [] OTHER -> "status")
       \/ Refused(r)

\* Whether a denial overtook an activation that passed its check: one that has committed,
\* or that holds the row lock and is about to.
Overtook(r) == req[r].effect = "ALLOW" /\ (ent.effect = "DENY" \/ lock # None)

\* createSubscription, transaction: one live subscription per tenant and product, a unique
\* index; the subscription is ACTIVE and comes with its delivery preference.
InsertSubscription(r) ==
    /\ At(r, "insert")
    /\ LET s == req[r].on IN
       IF Live = {}
       THEN /\ sub' = [sub EXCEPT ![s] = [status |-> "ACTIVE", ver |-> 1]]
            /\ pref' = [pref EXCEPT ![s] = 1]
            /\ overtaken' = IF Overtook(r) THEN overtaken \cup {s} ELSE overtaken
            /\ CarriedOut(r)
            /\ UNCHANGED <<ent, lock, recorded, intent, excused>>
       ELSE Refused(r)

\* Mutant: the row is updated by id alone.
MutantIsCurrent(s, ver) == sub[s].ver < MaxVersion
\* UPDATE ... WHERE version = expected: the row is the one that was read.
IsCurrent(s, ver) == sub[s].ver = ver /\ ver < MaxVersion

\* transition, transaction.
UpdateStatus(r) ==
    /\ At(r, "status")
    /\ LET s == req[r].on  to == LifecycleRoutes[req[r].op] IN
       IF IsCurrent(s, req[r].ver)
       THEN /\ sub' = [sub EXCEPT ![s] = [status |-> to, ver |-> @.ver + 1]]
            /\ overtaken' = IF to = "ACTIVE" /\ Overtook(r) THEN overtaken \cup {s} ELSE overtaken \ {s}
            /\ CarriedOut(r)
            /\ UNCHANGED <<pref, ent, lock, recorded, intent, excused>>
       ELSE Refused(r)

\* updateSubscriptionVersionPolicyCommand, transaction.
UpdatePolicy(r) ==
    /\ At(r, "policy")
    /\ IF IsCurrent(req[r].on, req[r].ver)
       THEN /\ sub' = [sub EXCEPT ![req[r].on].ver = @ + 1]
            /\ Done(r)
            /\ UNCHANGED <<pref, ent, lock, recorded, intent, aux>>
       ELSE Refused(r)

\* updateSubscriptionDeliveryPreference: the preference's own version is read after the
\* checks, and only that version guards the write.
ReadPreference(r) ==
    /\ At(r, "preference")
    /\ req' = [req EXCEPT ![r].ver = pref[req[r].on], ![r].pc = "write preference"]
    /\ UNCHANGED <<rows, lock, recorded, intent, aux>>
UpdatePreference(r) ==
    /\ At(r, "write preference")
    /\ LET s == req[r].on IN
       IF pref[s] = req[r].ver /\ pref[s] < MaxChanges
       THEN /\ pref' = [pref EXCEPT ![s] = @ + 1]
            /\ Done(r)
            /\ UNCHANGED <<sub, ent, lock, recorded, intent, aux>>
       ELSE Refused(r)

--------------------------------------------------------------------------
(* Entitlements: each operation is one transaction *)

\* The row as the transaction first sees it.  An update carries the version its client
\* last saw and keeps the effect; a grant carries an effect of its own.
ReadEntitlement(r) ==
    /\ At(r, "current")
    /\ IF req[r].op # "grant" /\ ent.effect = None THEN Refused(r)
       ELSE \E expected \in 1..MaxVersion, write \in Effects :
            /\ CASE req[r].op = "grant" -> expected = 1
                 [] req[r].op = "update" -> expected <= ent.ver
                 [] OTHER -> expected = ent.ver
            /\ CASE req[r].op = "allow"  -> write = "ALLOW"
                 [] req[r].op = "deny"   -> write = "DENY"
                 [] req[r].op = "update" -> write = ent.effect
                 [] OTHER -> TRUE
            /\ req' = [req EXCEPT ![r].ver = expected, ![r].write = write, ![r].pc = "lock"]
            /\ UNCHANGED <<rows, lock, recorded, intent, aux>>

\* Mutant: an update does not compare the version.
MutantUpdateEntitlement(r) ==
    /\ At(r, "lock") /\ lock = None /\ ent.ver < MaxVersion
    /\ lock' = r
    /\ Goto(r, IF req[r].write = "DENY" /\ req[r].op # "update" THEN "cascade" ELSE "commit")
    /\ UNCHANGED <<rows, recorded, intent, aux>>

\* upsertEntitlement, setEntitlementEffect: the write waits for the row lock and holds it.
UpdateEntitlement(r) ==
    /\ At(r, "lock") /\ lock = None
    /\ IF ent.ver < MaxVersion /\ (req[r].op = "grant" \/ ent.ver = req[r].ver)
       THEN /\ lock' = r
            /\ Goto(r, IF req[r].write = "DENY" /\ req[r].op # "update" THEN "cascade" ELSE "commit")
            /\ UNCHANGED <<rows, recorded, intent, aux>>
       ELSE Refused(r)

\* Mutant: the denial does not look for a subscription.
MutantFindActive(r) == At(r, "cascade") /\ Advance(r, "commit")

\* suspendActiveSubscriptionForRevokedEntitlement: the live subscription, if it is ACTIVE.
FindActive(r) ==
    /\ At(r, "cascade")
    /\ \/ \E s \in Live : /\ sub[s].status = "ACTIVE"
                          /\ req' = [req EXCEPT ![r].on = s, ![r].ver = sub[s].ver,
                                                ![r].status = "ACTIVE", ![r].pc = "commit"]
          /\ UNCHANGED <<rows, lock, recorded, intent, aux>>
       \/ /\ \A s \in Live : sub[s].status # "ACTIVE"
          /\ Advance(r, "commit")

\* The end of the transaction: the suspension, if one is due, and the entitlement together,
\* or neither.
CommitEntitlement(r) ==
    /\ At(r, "commit")
    /\ LET s == req[r].on  cascades == req[r].status = "ACTIVE" IN
       IF cascades /\ ~IsCurrent(s, req[r].ver) THEN Refused(r)
       ELSE /\ ent' = [effect |-> req[r].write, ver |-> ent.ver + 1]
            /\ sub' = IF cascades THEN [sub EXCEPT ![s] = [status |-> "SUSPENDED", ver |-> @.ver + 1]] ELSE sub
            /\ overtaken' = IF cascades THEN overtaken \ {s} ELSE overtaken
            /\ Release(r) /\ Done(r)
            /\ UNCHANGED <<pref, recorded, intent, runs, excused>>

--------------------------------------------------------------------------
(* Environment *)

\* The server of a request dies: its transaction is rolled back, its outcome is not saved.
Crash(r) ==
    /\ ~At(r, "idle")
    /\ excused' = IF req[r].key = None THEN excused ELSE excused \cup {req[r].key}
    /\ Done(r) /\ Release(r)
    /\ UNCHANGED <<rows, recorded, intent, runs, overtaken>>

SubscriptionStep(r) ==
    \/ Load(r) \/ AssertEntitlement(r) \/ AskCatalog(r)
    \/ InsertSubscription(r) \/ UpdateStatus(r) \/ UpdatePolicy(r)
    \/ ReadPreference(r) \/ UpdatePreference(r) \/ Save(r)
EntitlementStep(r) ==
    ReadEntitlement(r) \/ UpdateEntitlement(r) \/ FindActive(r) \/ CommitEntitlement(r)
Next == \E r \in Requests : Receive(r) \/ SubscriptionStep(r) \/ EntitlementStep(r) \/ Crash(r)

Spec == Init /\ [][Next]_vars

--------------------------------------------------------------------------
(* Properties *)

\* The rows and requests keep their shape.
TypeOK ==
    /\ sub \in [Subs -> [status : StatusType \cup {None}, ver : 0..MaxVersion]]
    /\ pref \in [Subs -> 0..MaxChanges]
    /\ ent \in [effect : Effects \cup {None}, ver : 0..MaxVersion]
    /\ lock \in Requests \cup {None}
    /\ recorded \subseteq Keys /\ excused \subseteq Keys /\ overtaken \subseteq Subs
    /\ \A r \in Requests : req[r].pc = "idle" <=> req[r].op = None

\* A subscription is ACTIVE under a denied entitlement only if the request that made it
\* ACTIVE had passed its check before the denial: every other one the denial suspends.
DeniedOnlyWhenOvertaken ==
    ent.effect = "DENY" => \A s \in Subs : sub[s].status = "ACTIVE" => s \in overtaken

\* Whatever the requests read and however late they write, a subscription only moves along
\* ALLOWED_TRANSITIONS: in particular nothing revives one that was cancelled meanwhile.
TransitionsAreLegal ==
    [][\A s \in Subs : sub'[s].status # sub[s].status /\ sub[s].status # None
         => sub'[s].status \in ALLOWED_TRANSITIONS[sub[s].status]]_vars

\* Moving the validity window never brings back the effect it had read: after a denial
\* only a grant or an allow makes the entitlement ALLOW again.
DenialIsNotLost ==
    [][ent.effect = "DENY" /\ ent'.effect = "ALLOW"
         => \E r \in Requests : At(r, "commit") /\ req[r].op \in {"grant", "allow"} /\ lock = r]_vars

\* A key whose request is repeated only after the first has answered is carried out once.
KeyRunsOnce == \A k \in Keys : runs[k] > 1 => k \in excused

\* entitlement.service.ts: a subscription can never become delivery-eligible on its own.
\* (An ACTIVE subscription whose entitlement is denied.)
ActiveIsEntitled == \A s \in Subs : sub[s].status = "ACTIVE" => ent.effect # "DENY"

\* Overlapping requests neither leave a denied subscription ACTIVE, unless its own request had passed the check
\* before the denial, nor carry out an idempotency key twice, unless its two requests overlapped or one died.
RequestsAreIsolated == TypeOK /\ DeniedOnlyWhenOvertaken /\ KeyRunsOnce
=============================================================================
