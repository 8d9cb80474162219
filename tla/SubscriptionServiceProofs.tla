----------------------- MODULE SubscriptionServiceProofs -----------------------
(***************************************************************************)
(* Who may read a product, and what a customer reads of it.  First what    *)
(* subscription-service guarantees for any number of subscriptions,        *)
(* overlapping requests and idempotency keys, and wherever a server dies.  *)
(* A request decides on copies it read outside its transaction, so the     *)
(* invariant says of every copy that it is still true or will be refused.  *)
(* Then what the customer API serves for any number of Gold runs,          *)
(* overlapping refreshes and customers: what a refresh has read is Gold,   *)
(* or Gold has moved on past all of it.                                    *)
(***************************************************************************)
EXTENDS SubscriptionService, ServingApi, FiniteSetTheorems, WellFoundedInduction, TLAPS

Lifecycles == DOMAIN LifecycleRoutes
Points == {"idle", "entitled", "load", "current", "catalog", "status", "insert", "policy", "preference",
           "write preference", "save", "lock", "cascade", "commit"}

RequestType == [op : Operations \cup {None}, on : Subs \cup {None}, key : Keys \cup {None}, pc : Points,
                status : {"ACTIVE", None}, ver : Nat, effect : {"ALLOW", None}, write : Effects \cup {None}]

\* Which operation can be where, and what it remembers there.
Shape(q) ==
    /\ q \in RequestType
    /\ q.pc = "idle" <=> q.op = None
    /\ q.pc = "load" => q.op \in Lifecycles \cup PatchRoutes
    /\ q.pc = "entitled" => q.op \in {"create", "resume"}
    /\ q.pc = "catalog" => q.op \in {"create", "resume"} \cup PatchRoutes
    /\ q.pc = "status" => q.op \in Lifecycles
    /\ q.pc = "insert" => q.op = "create"
    /\ q.pc = "policy" => q.op = "policy"
    /\ q.pc \in {"preference", "write preference"} => q.op = "preference"
    /\ q.pc = "save" => q.key \in Keys /\ q.op \in IdempotentRoutes
    /\ q.pc \in {"current", "lock", "cascade", "commit"} => q.op \in EntitlementRoutes
    /\ q.pc \in {"lock", "cascade", "commit"} => q.write \in Effects
    /\ q.pc = "cascade" => q.op # "update" /\ q.write = "DENY"
    /\ q.pc \in {"lock", "cascade", "commit"} /\ q.op = "deny" => q.write = "DENY"
    /\ q.key # None => q.op \in IdempotentRoutes
    /\ q.op \in {"create"} \cup Lifecycles \cup PatchRoutes => q.on \in Subs
    /\ q.pc \in {"catalog", "insert", "status"} /\ q.op \in {"create", "resume"} => q.effect = "ALLOW"
    /\ q.status # None => q.pc = "commit" /\ q.on \in Subs /\ q.op # "update" /\ q.write = "DENY"

\* A request that has checked the status of a subscription and will write it.
Changing(q) == q.pc \in {"entitled", "catalog", "status"} /\ q.op \in Lifecycles
Creating(q) == q.op = "create" /\ q.pc # "save"

\* What a request read of the row of its subscription still holds, or the version has moved on.
Reads(q, row) ==
    /\ q.op \in Lifecycles \cup PatchRoutes => row.status # None
    /\ Changing(q) => /\ q.ver <= row.ver
                      /\ q.ver = row.ver => Permitted(q.op, row.status)
    /\ q.status # None => /\ q.ver <= row.ver
                          /\ row.status # None
                          /\ q.ver = row.ver => row.status = "ACTIVE"
    /\ Creating(q) => row.status = None

\* A fresh subscription id is known to the request that creates it only.
Alone(r) == Creating(req[r]) => \A p \in Requests \ {r} : req[p].on # req[r].on

\* What request r read of the entitlement e: it is current while r holds the row's lock l.
Knows(r, q, e, l) ==
    /\ q.pc \in {"cascade", "commit"} <=> l = r
    /\ l = r => e.ver < MaxVersion
    /\ q.pc = "lock" /\ q.op = "update" =>
         /\ q.ver <= e.ver
         /\ q.ver = e.ver => q.write = e.effect
    /\ q.pc = "commit" /\ q.op = "update" => q.write = e.effect

OneLive == \A s, t \in Live : s = t

\* Of a denial about to commit: it suspends what is ACTIVE, or that was overtaken.
Denies(r) ==
    req[r].pc = "commit" /\ req[r].op # "update" /\ req[r].write = "DENY" =>
      \A s \in Subs : sub[s].status = "ACTIVE" => s \in overtaken \/ (req[r].status = "ACTIVE" /\ s = req[r].on)

\* A key that was neither repeated nor cut off: one request at most has it, none
\* once its outcome is saved, and it was carried out before that once at most.
KeyInv(k) ==
    k \notin excused =>
      /\ \A r, p \in Requests : req[r].key = k /\ req[p].key = k => r = p
      /\ k \in recorded => \A r \in Requests : req[r].key # k
      /\ runs[k] <= 1
      /\ runs[k] = 1 => k \in recorded \/ \E r \in Requests : req[r].key = k /\ req[r].pc = "save"

RowsOK ==
    /\ sub \in [Subs -> [status : StatusType \cup {None}, ver : 0..MaxVersion]]
    /\ pref \in [Subs -> 0..MaxChanges]
    /\ ent \in [effect : Effects \cup {None}, ver : 0..MaxVersion]
    /\ lock \in Requests \cup {None}
    /\ recorded \subseteq Keys /\ excused \subseteq Keys /\ overtaken \subseteq Subs
    /\ runs \in [Keys -> 0..2]

RequestsOK == req \in [Requests -> RequestType] /\ \A r \in Requests : Shape(req[r])
CopiesInv  == \A r \in Requests : Reads(req[r], sub[req[r].on]) /\ Alone(r) /\ Knows(r, req[r], ent, lock)
DenialInv  == OneLive /\ DeniedOnlyWhenOvertaken /\ \A r \in Requests : Denies(r)
KeysInv    == \A k \in Keys : KeyInv(k)

SubscriptionInv == RowsOK /\ RequestsOK /\ CopiesInv /\ DenialInv /\ KeysInv

-----------------------------------------------------------------------------
(* What a step of one request leaves alone.                                *)

Step(r) == Receive(r) \/ SubscriptionStep(r) \/ EntitlementStep(r) \/ Crash(r)

\* A step that moves a request on, or to the lock with what it will write, keeps the rest of it.
LEMMA PcMoves ==
    ASSUME NEW r \in Requests, req \in [Requests -> RequestType], NEW p, req' = [req EXCEPT ![r].pc = p]
    PROVE  /\ req'[r].pc = p /\ req'[r].op = req[r].op /\ req'[r].on = req[r].on /\ req'[r].key = req[r].key
           /\ req'[r].status = req[r].status /\ req'[r].ver = req[r].ver /\ req'[r].write = req[r].write
<1>1. req'[r] = [req[r] EXCEPT !.pc = p] /\ req[r] \in RequestType
  OBVIOUS
<1> QED
  BY <1>1 DEF RequestType

LEMMA LockMoves ==
    ASSUME NEW r \in Requests, req \in [Requests -> RequestType], NEW v, NEW e,
           req' = [req EXCEPT ![r].ver = v, ![r].write = e, ![r].pc = "lock"]
    PROVE  /\ req'[r].pc = "lock" /\ req'[r].op = req[r].op /\ req'[r].on = req[r].on
           /\ req'[r].key = req[r].key /\ req'[r].status = req[r].status
<1>1. req[r] \in RequestType
  OBVIOUS
<1>2. req'[r] = [req[r] EXCEPT !.ver = v, !.write = e, !.pc = "lock"]
  BY Zenon
<1> QED
  BY <1>1, <1>2 DEF RequestType

Finds(r, s) ==
    /\ sub[s].status = "ACTIVE"
    /\ req' = [req EXCEPT ![r].on = s, ![r].ver = sub[s].ver, ![r].status = "ACTIVE", ![r].pc = "commit"]
LEMMA ActiveFound ==
    ASSUME NEW r, FindActive(r)
    PROVE  \/ req' = [req EXCEPT ![r].pc = "commit"] /\ \A s \in Live : sub[s].status # "ACTIVE"
           \/ \E s \in Live : Finds(r, s)
BY Zenon DEF Finds, FindActive, Advance, Goto

-----------------------------------------------------------------------------
(* The request that takes the step.                                        *)

LEMMA IdleShape == Shape(IdleRequest)
BY NoneIsNothing DEF Shape, IdleRequest, RequestType, Points, IdempotentRoutes, Operations,
   Lifecycles, LifecycleRoutes,
   PatchRoutes, EntitlementRoutes

\* The operations by where their requests go.
LEMMA Routes ==
    /\ Lifecycles = {"resume", "pause", "suspend", "cancel"}
    /\ Operations = {"create", "resume", "pause", "suspend", "cancel", "policy", "preference", "grant", "allow", "deny",
                     "update"}
    /\ \A op \in Lifecycles : LifecycleRoutes[op] \in StatusType
BY DEF Lifecycles, LifecycleRoutes, Operations, PatchRoutes, EntitlementRoutes, StatusType

LEMMA LoadShape ==
    ASSUME RowsOK, RequestsOK, NEW r \in Requests, Load(r), NEW q, q = [req[r] EXCEPT
             !.ver = sub[req[r].on].ver,
             !.pc = IF NeedsEligibility(req[r].op) THEN "entitled"
                    ELSE IF req[r].op \in PatchRoutes THEN "catalog" ELSE "status"]
    PROVE  Shape(q)
<1>1. req[r] \in RequestType /\ Shape(req[r]) /\ req[r].pc = "load"
  BY DEF RequestsOK, Load, At
<1>2. req[r].op \in Lifecycles \cup PatchRoutes /\ req[r].on \in Subs
  BY <1>1 DEF Shape
<1>3. sub[req[r].on].ver \in Nat
  BY <1>2 DEF RowsOK
<1> PICK p : p = IF NeedsEligibility(req[r].op) THEN "entitled"
                 ELSE IF req[r].op \in PatchRoutes THEN "catalog" ELSE "status"
  OBVIOUS
<1>4. /\ p \in {"entitled", "catalog", "status"}
      /\ p = "entitled" => req[r].op = "resume"
      /\ p = "catalog" => req[r].op \in PatchRoutes
      /\ p = "status" => req[r].op \in Lifecycles \ {"resume"}
  BY <1>2, Routes DEF NeedsEligibility, PatchRoutes
<1>5. /\ q \in RequestType
      /\ q.pc = p /\ q.op = req[r].op /\ q.on = req[r].on /\ q.key = req[r].key /\ q.status = req[r].status
  <2>1. q = [req[r] EXCEPT !.ver = sub[req[r].on].ver, !.pc = p] /\ p \in Points
    BY <1>4 DEF Points
  <2> QED
    BY <1>1, <1>3, <2>1 DEF RequestType
<1>6. /\ req[r].status = None
      /\ req[r].key # None => req[r].op \in IdempotentRoutes
  BY <1>1 DEF Shape
<1> QED
  BY <1>2, <1>4, <1>5, <1>6, NoneIsNothing, Routes DEF Shape, PatchRoutes

LEMMA GotoShape ==
    ASSUME NEW q, Shape(q), NEW p \in Points, NEW n, n = [q EXCEPT !.pc = p],
           \/ q.pc = "catalog" /\ \/ p = "insert" /\ q.op = "create"
                                  \/ q.op \in PatchRoutes /\ p = q.op
                                  \/ p = "status" /\ q.op = "resume"
           \/ q.pc = "lock" /\ p = "commit"
           \/ q.pc = "lock" /\ p = "cascade" /\ q.write = "DENY" /\ q.op # "update"
           \/ q.pc = "cascade" /\ p = "commit"
    PROVE  Shape(n)
<1>1. /\ n \in RequestType
      /\ n.pc = p /\ n.ver = q.ver /\ n.op = q.op /\ n.on = q.on /\ n.key = q.key /\ n.status = q.status
      /\ n.effect = q.effect /\ n.write = q.write
  BY DEF RequestType, Shape
<1>2. /\ q.key # None => q.op \in IdempotentRoutes
      /\ q.op \in {"create"} \cup Lifecycles \cup PatchRoutes => q.on \in Subs
      /\ q.status = None
  BY DEF Shape
<1>3. CASE q.pc = "catalog"
  <2>1. q.op \in {"create", "resume"} => q.effect = "ALLOW"
    BY <1>3 DEF Shape
  <2>2. CASE p = "insert" /\ q.op = "create"
    <3>1. n.effect = "ALLOW" /\ n.on \in Subs
      BY <1>1, <1>2, <2>1, <2>2
    <3> QED
      BY <1>1, <1>2, <2>2, <3>1, NoneIsNothing, Routes DEF Shape, PatchRoutes
  <2>3. CASE p = "status" /\ q.op = "resume"
    <3>1. n.effect = "ALLOW" /\ n.on \in Subs /\ "resume" \in Lifecycles
      BY <1>1, <1>2, <2>1, <2>3, Routes
    <3> QED
      BY <1>1, <1>2, <2>3, <3>1, NoneIsNothing DEF Shape, PatchRoutes
  <2>4. CASE q.op \in PatchRoutes /\ p = q.op
    BY <1>1, <1>2, <2>4, NoneIsNothing, Routes DEF Shape, PatchRoutes
  <2> QED
    BY <1>3, <2>2, <2>3, <2>4
<1>4. CASE q.pc \in {"lock", "cascade"}
  <2>1. q.op \in EntitlementRoutes /\ q.write \in Effects /\ (q.op = "deny" => q.write = "DENY")
    BY <1>4 DEF Shape
  <2>2. p \in {"cascade", "commit"} /\ (p = "cascade" => q.write = "DENY" /\ q.op # "update")
    BY <1>4
  <2> QED
    BY <1>1, <1>2, <2>1, <2>2, NoneIsNothing, Routes DEF Shape, EntitlementRoutes
<1> QED
  BY <1>3, <1>4

LEMMA ReceiveShape ==
    ASSUME NEW op \in Operations, NEW s \in Targets(op), NEW k \in Keys \cup {None},
           k # None => op \in KeyedOperations,
           NEW q, q = [IdleRequest EXCEPT !.op = op, !.on = s, !.key = k, !.pc = Begin(op)]
    PROVE  Shape(q)
<1> PICK p : p = Begin(op)
  OBVIOUS
<1>1. /\ p \in {"entitled", "current", "load"}
      /\ p = "entitled" => op = "create"
      /\ p = "current" => op \in EntitlementRoutes
      /\ p = "load" => op \in Lifecycles \cup PatchRoutes
  BY Routes DEF Begin, EntitlementRoutes, PatchRoutes
<1>2. s \in Subs \cup {None} /\ (op \in {"create"} \cup Lifecycles \cup PatchRoutes => s \in Subs)
  BY Routes DEF Targets, EntitlementRoutes, PatchRoutes
<1>3. /\ q.op = op /\ q.on = s /\ q.key = k /\ q.pc = p /\ q.status = None /\ q.ver = 0 /\ q.effect = None
      /\ q.write = None /\ q \in RequestType
  BY <1>1, <1>2 DEF IdleRequest, RequestType, Points
<1> QED
  BY <1>1, <1>2, <1>3, NoneIsNothing, KeysOnIdempotentRoutes, Routes DEF Shape, IdempotentRoutes

LEMMA CarriedOutShape ==
    ASSUME NEW q, Shape(q), q.key # None, q.status = None,
           NEW n, n = [q EXCEPT !.pc = "save", !.ver = 0, !.effect = None]
    PROVE  Shape(n)
<1>1. /\ n \in RequestType
      /\ n.pc = "save" /\ n.op = q.op /\ n.on = q.on /\ n.key = q.key /\ n.status = None
  BY DEF RequestType, Shape, Points
<1> QED
  <2>1. q.key \in Keys /\ q.op \in IdempotentRoutes
    BY DEF Shape, RequestType
  <2>2. q.op \in {"create"} \cup Lifecycles \cup PatchRoutes => q.on \in Subs
    BY DEF Shape
  <2> QED
    BY <1>1, <2>1, <2>2, NoneIsNothing, Routes DEF Shape, IdempotentRoutes

LEMMA ReadEntitlementShape ==
    ASSUME NEW q, Shape(q), q.pc = "current", NEW v \in Nat, NEW e \in Effects, q.op = "deny" => e = "DENY",
           NEW n, n = [q EXCEPT !.ver = v, !.write = e, !.pc = "lock"]
    PROVE  Shape(n)
<1>1. /\ n \in RequestType
      /\ n.pc = "lock" /\ n.op = q.op /\ n.on = q.on /\ n.key = q.key /\ n.status = q.status /\ n.write = e
  BY DEF RequestType, Shape, Points
<1> QED
  BY <1>1, NoneIsNothing, Routes DEF Shape, EntitlementRoutes

LEMMA FindActiveShape ==
    ASSUME NEW q, Shape(q), q.pc = "cascade", NEW s \in Subs, NEW v \in Nat,
           NEW n, n = [q EXCEPT !.on = s, !.ver = v, !.status = "ACTIVE", !.pc = "commit"]
    PROVE  Shape(n)
<1>1. /\ n \in RequestType
      /\ n.pc = "commit" /\ n.op = q.op /\ n.on = s /\ n.key = q.key /\ n.status = "ACTIVE" /\ n.write = q.write
  BY DEF RequestType, Shape, Points
<1> QED
  BY <1>1, NoneIsNothing, Routes DEF Shape, EntitlementRoutes

LEMMA AssertShape ==
    ASSUME NEW q, Shape(q), q.pc = "entitled", NEW n, n = [q EXCEPT !.effect = "ALLOW", !.pc = "catalog"]
    PROVE  Shape(n)
<1>1. /\ n \in RequestType
      /\ n.pc = "catalog" /\ n.op = q.op /\ n.on = q.on /\ n.key = q.key /\ n.status = q.status
      /\ n.effect = "ALLOW"
  BY DEF RequestType, Shape, Points
<1> QED
  BY <1>1, NoneIsNothing, Routes DEF Shape

\* Every step leaves its request in such a shape.
LEMMA ActorShape ==
    ASSUME RowsOK, RequestsOK, NEW r \in Requests, Step(r)
    PROVE  \E q : Shape(q) /\ req' = [req EXCEPT ![r] = q]
<1> DEFINE Goal == \E q : Shape(q) /\ req' = [req EXCEPT ![r] = q]
<1>0. req \in [Requests -> RequestType] /\ Shape(req[r])
  BY DEF RequestsOK
<1>d. ASSUME Done(r) PROVE Goal
  BY <1>d, IdleShape DEF Done
<1>c. ASSUME CarriedOut(r), req[r].pc \in {"insert", "status"} PROVE Goal
  <2>1. req[r].status = None
    BY <1>0, <1>c DEF Shape
  <2>2. CASE req[r].key = None
    BY <1>c, <1>d, <2>2 DEF CarriedOut
  <2>3. CASE req[r].key # None
    BY <1>0, <1>c, <2>1, <2>3, CarriedOutShape DEF CarriedOut
  <2> QED
    BY <2>2, <2>3
<1>1. CASE Receive(r)
  <2>1. PICK op \in Operations : \E s \in Targets(op), k \in Keys \cup {None} :
          /\ k # None => op \in KeyedOperations
          /\ req' = [req EXCEPT ![r] = [IdleRequest EXCEPT !.op = op, !.on = s, !.key = k, !.pc = Begin(op)]]
    BY <1>1 DEF Receive
  <2> QED
    BY <2>1, ReceiveShape
<1>2. CASE Load(r)
  BY <1>0, <1>2, <1>d, LoadShape DEF Load, Refused
<1>3. CASE AssertEntitlement(r)
  BY <1>0, <1>3, <1>d, AssertShape DEF AssertEntitlement, Allows, Refused, At
<1>4. CASE AskCatalog(r)
  <2>1. CASE Done(r)
    BY <1>d, <2>1
  <2>2. PICK p : /\ p = CASE req[r].op = "create" -> "insert"
                          [] req[r].op \in PatchRoutes -> req[r].op
                          [] OTHER -> "status"
    OBVIOUS
  <2>3. /\ req[r].pc = "catalog" /\ p \in Points
        /\ \/ p = "insert" /\ req[r].op = "create"
           \/ req[r].op \in PatchRoutes /\ p = req[r].op
           \/ p = "status" /\ req[r].op = "resume"
    BY <1>0, <1>4, <2>2 DEF AskCatalog, At, Shape, PatchRoutes, Points
  <2>4. CASE req' = [req EXCEPT ![r].pc = p]
    BY <1>0, <2>3, <2>4, GotoShape
  <2> QED
    BY <1>4, <2>1, <2>2, <2>4 DEF AskCatalog, Refused, Advance, Goto
<1>5. CASE InsertSubscription(r) \/ UpdateStatus(r)
  BY <1>5, <1>c, <1>d DEF InsertSubscription, UpdateStatus, Refused, At
<1>6. CASE UpdatePolicy(r) \/ UpdatePreference(r) \/ Save(r) \/ Crash(r) \/ CommitEntitlement(r)
  BY <1>6, <1>d DEF UpdatePolicy, UpdatePreference, Save, Crash, CommitEntitlement, Refused
<1>7. CASE ReadPreference(r)
  <2>1. req[r].pc = "preference" /\ req[r].on \in Subs /\ req[r].op = "preference"
    BY <1>0, <1>7 DEF ReadPreference, At, Shape, PatchRoutes
  <2> PICK q : q = [req[r] EXCEPT !.ver = pref[req[r].on], !.pc = "write preference"]
    OBVIOUS
  <2>2. pref[req[r].on] \in Nat
    BY <2>1 DEF RowsOK
  <2>3. /\ q \in RequestType /\ q.pc = "write preference" /\ q.op = req[r].op /\ q.on = req[r].on
        /\ q.key = req[r].key /\ q.status = req[r].status
    <3>1. req[r] \in RequestType /\ "write preference" \in Points
      BY <1>0 DEF Points, Shape
    <3> QED
      BY <2>2, <3>1 DEF RequestType
  <2>4. Shape(q)
    BY <1>0, <2>1, <2>3, NoneIsNothing, Routes DEF Shape, IdempotentRoutes
  <2> QED
    BY <1>7, <2>4 DEF ReadPreference
<1>8. CASE ReadEntitlement(r)
  <2>1. CASE Done(r)
    BY <1>d, <2>1
  <2>2. CASE ~Done(r)
    <3>1. PICK v \in 1..MaxVersion, e \in Effects :
            /\ req[r].op = "deny" => e = "DENY"
            /\ req' = [req EXCEPT ![r].ver = v, ![r].write = e, ![r].pc = "lock"]
      BY <1>8, <2>2 DEF ReadEntitlement, Refused
    <3>2. v \in Nat
      BY BoundsArePositive
    <3>3. req[r].pc = "current"
      BY <1>8 DEF ReadEntitlement, At
    <3> QED
      <4> PICK q : q = [req[r] EXCEPT !.ver = v, !.write = e, !.pc = "lock"]
        OBVIOUS
      <4>1. Shape(q)
        BY <1>0, <3>1, <3>2, <3>3, ReadEntitlementShape
      <4>2. req' = [req EXCEPT ![r] = q]
        BY <1>0, <3>1
      <4> QED
        BY <4>1, <4>2
  <2> QED
    BY <2>1, <2>2
<1>9. CASE UpdateEntitlement(r)
  <2>1. PICK p : p = IF req[r].write = "DENY" /\ req[r].op # "update" THEN "cascade" ELSE "commit"
    OBVIOUS
  <2>2. req[r].pc = "lock" /\ p \in Points /\ (p = "cascade" => req[r].write = "DENY" /\ req[r].op # "update")
    BY <1>9, <2>1 DEF UpdateEntitlement, At, Points
  <2>3. CASE req' = [req EXCEPT ![r].pc = p]
    BY <1>0, <2>1, <2>2, <2>3, GotoShape
  <2> QED
    BY <1>9, <1>d, <2>1, <2>3 DEF UpdateEntitlement, Refused, Goto
<1>10. CASE FindActive(r)
  <2>1. req[r].pc = "cascade" /\ "commit" \in Points
    BY <1>10 DEF FindActive, At, Points
  <2>2. CASE Goto(r, "commit")
    BY <1>0, <2>1, <2>2, GotoShape DEF Goto
  <2>3. CASE ~Goto(r, "commit")
    <3>1. PICK s \in Live : req' = [req EXCEPT ![r].on = s, ![r].ver = sub[s].ver, ![r].status = "ACTIVE",
                                               ![r].pc = "commit"]
      BY <1>10, <2>3 DEF FindActive, Advance
    <3>2. s \in Subs /\ sub[s].ver \in Nat
      BY DEF Live, RowsOK
    <3> QED
      <4> PICK q : q = [req[r] EXCEPT !.on = s, !.ver = sub[s].ver, !.status = "ACTIVE", !.pc = "commit"]
        OBVIOUS
      <4>1. Shape(q)
        BY <1>0, <2>1, <3>2, FindActiveShape
      <4>2. req' = [req EXCEPT ![r] = q]
        BY <1>0, <3>1
      <4> QED
        BY <4>1, <4>2
  <2> QED
    BY <2>2, <2>3
<1> QED
  BY <1>1, <1>2, <1>3, <1>4, <1>5, <1>6, <1>7, <1>8, <1>9, <1>10
     DEF Step, SubscriptionStep, EntitlementStep

LEMMA RequestsKept ==
    ASSUME RowsOK, RequestsOK, NEW r \in Requests, Step(r)
    PROVE  RequestsOK' /\ \A p \in Requests \ {r} : req'[p] = req[p]
<1>1. PICK q : Shape(q) /\ req' = [req EXCEPT ![r] = q]
  BY ActorShape
<1>2. q \in RequestType /\ req'[r] = q
  BY <1>1 DEF RequestsOK, Shape
<1>3. req' \in [Requests -> RequestType] /\ \A p \in Requests \ {r} : req'[p] = req[p]
  BY <1>1, <1>2 DEF RequestsOK
<1> QED
  BY <1>1, <1>2, <1>3 DEF RequestsOK

-----------------------------------------------------------------------------
(* What a step does to the rows.                                           *)

\* A step of r that inserts subscription s, changes its status, only its version, or
\* suspends it with a denial.
Inserted(r, s) ==
    /\ req[r].pc = "insert" /\ req[r].on = s
    /\ sub[s].status = None /\ Live = {}
    /\ sub'[s].status = "ACTIVE"
    /\ overtaken' = IF Overtook(r) THEN overtaken \cup {s} ELSE overtaken
    /\ UNCHANGED <<ent, lock>>
Changed(r, s) ==
    /\ sub[s].status # None
    /\ sub'[s].status \in ALLOWED_TRANSITIONS[sub[s].status]
    /\ sub'[s].ver = sub[s].ver + 1
    /\ sub'[s].status = "ACTIVE" => req[r].effect = "ALLOW"
    /\ overtaken' = IF sub'[s].status = "ACTIVE" /\ Overtook(r) THEN overtaken \cup {s} ELSE overtaken \ {s}
    /\ UNCHANGED <<ent, lock>>
Renewed(s) ==
    /\ sub[s].status # None /\ sub'[s].status = sub[s].status
    /\ sub'[s].ver = sub[s].ver + 1
    /\ UNCHANGED <<ent, lock, overtaken>>
Suspended(r, s) ==
    /\ req[r].pc = "commit" /\ req[r].status = "ACTIVE" /\ req[r].on = s
    /\ sub[s].status = "ACTIVE" /\ sub'[s].status = "SUSPENDED"
    /\ sub'[s].ver = sub[s].ver + 1
    /\ overtaken' = overtaken \ {s}

Written(r, s) ==
    /\ \A t \in Subs \ {s} : sub'[t] = sub[t]
    /\ Inserted(r, s) \/ Changed(r, s) \/ Renewed(s) \/ Suspended(r, s)

\* A transition that is permitted leads to an allowed status.
LEMMA PermittedIsAllowed ==
    ASSUME NEW op \in Lifecycles, NEW st, Permitted(op, st)
    PROVE  LifecycleRoutes[op] \in ALLOWED_TRANSITIONS[st]
BY Routes DEF Permitted, PatchRoutes

LEMMA SubStep ==
    ASSUME SubscriptionInv, NEW r \in Requests, Step(r)
    PROVE  UNCHANGED <<sub, overtaken>> \/ \E s \in Subs : Written(r, s)
<1>0. /\ RowsOK /\ Shape(req[r]) /\ Reads(req[r], sub[req[r].on]) /\ Knows(r, req[r], ent, lock)
  BY DEF SubscriptionInv, RequestsOK, CopiesInv
<1> DEFINE Goal == UNCHANGED <<sub, overtaken>> \/ \E s \in Subs : Written(r, s)
<1>r. ASSUME Refused(r) PROVE Goal
  BY <1>r DEF Refused, rows, aux
<1>1. CASE Receive(r) \/ Crash(r) \/ AskCatalog(r) \/ Save(r) \/ ReadPreference(r)
  BY <1>1, <1>r DEF Receive, Crash, AskCatalog, Save, ReadPreference, Advance, rows, aux
<1>l. CASE Load(r)
  BY <1>l, <1>r DEF Load, rows, aux
<1>a. CASE AssertEntitlement(r)
  BY <1>a, <1>r DEF AssertEntitlement, rows, aux
<1>p. CASE UpdatePreference(r)
  <2>1. Refused(r) \/ (sub' = sub /\ overtaken' = overtaken)
    BY <1>p, Zenon DEF UpdatePreference, aux
  <2> QED
    BY <1>r, <2>1
<1>2. CASE ReadEntitlement(r) \/ UpdateEntitlement(r) \/ FindActive(r)
  BY <1>2, <1>r DEF ReadEntitlement, UpdateEntitlement, FindActive, Advance, rows, aux
<1>3. CASE InsertSubscription(r)
  <2>1. PICK s : s = req[r].on
    OBVIOUS
  <2>2. req[r].pc = "insert" /\ s \in Subs /\ sub[s].status = None
    BY <1>0, <1>3, <2>1 DEF InsertSubscription, At, Shape, Reads, Creating
  <2>3. CASE ~Refused(r)
    <3>1. /\ Live = {} /\ sub' = [sub EXCEPT ![s] = [status |-> "ACTIVE", ver |-> 1]]
          /\ overtaken' = IF Overtook(r) THEN overtaken \cup {s} ELSE overtaken
          /\ UNCHANGED <<ent, lock>>
      BY <1>3, <2>1, <2>3 DEF InsertSubscription
    <3>2. Written(r, s)
      BY <1>0, <2>1, <2>2, <3>1 DEF Written, Inserted, RowsOK
    <3> QED
      BY <2>2, <3>2
  <2> QED
    BY <1>r, <2>3
<1>4. CASE UpdateStatus(r)
  <2>1. PICK s, to : s = req[r].on /\ to = LifecycleRoutes[req[r].op]
    OBVIOUS
  <2>2. /\ req[r].pc = "status" /\ req[r].op \in Lifecycles /\ s \in Subs /\ sub[s].status # None
        /\ req[r].op = "resume" => req[r].effect = "ALLOW"
    BY <1>0, <1>4, <2>1, Routes DEF UpdateStatus, At, Shape, Reads, Changing
  <2>3. CASE ~Refused(r)
    <3>1. /\ sub[s].ver = req[r].ver
          /\ sub' = [sub EXCEPT ![s] = [status |-> to, ver |-> @.ver + 1]]
          /\ overtaken' = IF to = "ACTIVE" /\ Overtook(r) THEN overtaken \cup {s} ELSE overtaken \ {s}
          /\ UNCHANGED <<ent, lock>>
      BY <1>4, <2>1, <2>3 DEF UpdateStatus, IsCurrent
    <3>2. Permitted(req[r].op, sub[s].status)
      BY <1>0, <2>1, <2>2, <3>1 DEF Reads, Changing
    <3>3. to \in ALLOWED_TRANSITIONS[sub[s].status]
      BY <2>1, <2>2, <3>2, PermittedIsAllowed
    <3>4. to = "ACTIVE" => req[r].effect = "ALLOW"
      BY <2>1, <2>2, Routes DEF LifecycleRoutes
    <3>5. sub'[s] = [status |-> to, ver |-> sub[s].ver + 1] /\ \A t \in Subs \ {s} : sub'[t] = sub[t]
      BY <1>0, <2>2, <3>1 DEF RowsOK
    <3>6. Written(r, s)
      BY <2>2, <3>1, <3>3, <3>4, <3>5 DEF Written, Changed
    <3> QED
      BY <2>2, <3>6
  <2> QED
    BY <1>r, <2>3
<1>5. CASE UpdatePolicy(r)
  <2>1. PICK s : s = req[r].on
    OBVIOUS
  <2>2. s \in Subs /\ sub[s].status # None
    BY <1>0, <1>5, <2>1 DEF UpdatePolicy, At, Shape, Reads, PatchRoutes
  <2>3. CASE ~Refused(r)
    <3>1. /\ sub' = [sub EXCEPT ![s].ver = @ + 1]
          /\ UNCHANGED <<ent, lock, overtaken>>
      BY <1>5, <2>1, <2>3 DEF UpdatePolicy, aux
    <3>2. Written(r, s)
      BY <1>0, <2>2, <3>1 DEF Written, Renewed, RowsOK
    <3> QED
      BY <2>2, <3>2
  <2> QED
    BY <1>r, <2>3
<1>6. CASE CommitEntitlement(r)
  <2>1. PICK s : s = req[r].on
    OBVIOUS
  <2>2. CASE req[r].status = "ACTIVE" /\ ~Refused(r)
    <3>1. s \in Subs /\ req[r].pc = "commit"
      BY <1>0, <1>6, <2>1, <2>2, NoneIsNothing DEF CommitEntitlement, At, Shape, StatusType
    <3>2. /\ sub[s].ver = req[r].ver
          /\ sub' = [sub EXCEPT ![s] = [status |-> "SUSPENDED", ver |-> @.ver + 1]]
          /\ overtaken' = overtaken \ {s}
      BY <1>6, <2>1, <2>2 DEF CommitEntitlement, IsCurrent
    <3>3. sub[s].status = "ACTIVE"
      BY <1>0, <2>1, <2>2, <3>2, NoneIsNothing DEF Reads, StatusType
    <3>4. Written(r, s)
      BY <1>0, <2>1, <2>2, <3>1, <3>2, <3>3 DEF Written, Suspended, RowsOK
    <3> QED
      BY <3>1, <3>4
  <2>3. CASE req[r].status # "ACTIVE"
    BY <1>6, <1>r, <2>3 DEF CommitEntitlement
  <2> QED
    BY <1>r, <2>2, <2>3
<1> QED
  BY <1>1, <1>l, <1>a, <1>p, <1>2, <1>3, <1>4, <1>5, <1>6
     DEF Step, SubscriptionStep, EntitlementStep

\* No step takes a row out of its type.
LEMMA RowsKept ==
    ASSUME SubscriptionInv, NEW r \in Requests, Step(r)
    PROVE  RowsOK'
<1>0. /\ RowsOK /\ Shape(req[r]) /\ req[r] \in RequestType /\ Reads(req[r], sub[req[r].on])
      /\ Knows(r, req[r], ent, lock)
  BY DEF SubscriptionInv, RequestsOK, CopiesInv
<1>b. 0 \in 0..MaxVersion /\ 1 \in 0..MaxVersion /\ 1 \in 0..MaxChanges
  BY BoundsArePositive
<1>l. ASSUME Release(r) PROVE lock' \in Requests \cup {None}
  BY <1>0, <1>l DEF Release, RowsOK
<1>r. ASSUME Refused(r) PROVE RowsOK'
  BY <1>0, <1>l, <1>r DEF Refused, RowsOK, rows, aux
<1>c. ASSUME CarriedOut(r) PROVE runs' \in [Keys -> 0..2]
  <2>1. req[r].key \in Keys \cup {None}
    BY <1>0 DEF RequestType
  <2> QED
    BY <1>0, <1>c, <2>1 DEF CarriedOut, RowsOK
<1>1. CASE Receive(r)
  <2>1. PICK k \in Keys \cup {None} : excused' = IF Repeats(k) THEN excused \cup {k} ELSE excused
    BY <1>1 DEF Receive
  <2>2. excused' \subseteq Keys
    BY <1>0, <2>1 DEF Repeats, RowsOK
  <2>3. UNCHANGED <<rows, lock, recorded, runs, overtaken>>
    BY <1>1 DEF Receive
  <2> QED
    BY <1>0, <2>2, <2>3 DEF RowsOK, rows
<1>2. CASE Load(r) \/ AssertEntitlement(r) \/ AskCatalog(r) \/ ReadPreference(r) \/ ReadEntitlement(r) \/ FindActive(r)
  BY <1>0, <1>2, <1>r
     DEF Load, AssertEntitlement, AskCatalog, ReadPreference, ReadEntitlement, FindActive, Advance,
     RowsOK, rows, aux
<1>3. CASE UpdateEntitlement(r)
  BY <1>0, <1>3, <1>r DEF UpdateEntitlement, RowsOK, rows, aux
<1>4. CASE Crash(r)
  <2>1. req[r].key \in Keys \cup {None}
    BY <1>0 DEF RequestType
  <2> QED
    BY <1>0, <1>4, <1>l, <2>1 DEF Crash, RowsOK, rows
<1>5. CASE Save(r)
  <2>1. req[r].key \in Keys
    BY <1>0, <1>5 DEF Save, At, Shape
  <2> QED
    BY <1>0, <1>5, <2>1 DEF Save, RowsOK, rows, aux
<1>6. CASE InsertSubscription(r)
  <2>1. req[r].on \in Subs
    BY <1>0, <1>6 DEF InsertSubscription, At, Shape
  <2>2. CASE ~Refused(r)
    <3>1. /\ sub' = [sub EXCEPT ![req[r].on] = [status |-> "ACTIVE", ver |-> 1]]
          /\ pref' = [pref EXCEPT ![req[r].on] = 1]
          /\ overtaken' \subseteq overtaken \cup {req[r].on}
          /\ CarriedOut(r) /\ UNCHANGED <<ent, lock, recorded, excused>>
      BY <1>6, <2>2 DEF InsertSubscription
    <3>2. [status |-> "ACTIVE", ver |-> 1] \in [status : StatusType \cup {None}, ver : 0..MaxVersion]
      BY <1>b DEF StatusType
    <3> QED
      BY <1>0, <1>b, <1>c, <2>1, <3>1, <3>2 DEF RowsOK
  <2> QED
    BY <1>r, <2>2
<1>7. CASE UpdateStatus(r)
  <2>1. req[r].on \in Subs /\ req[r].op \in Lifecycles
    BY <1>0, <1>7 DEF UpdateStatus, At, Shape
  <2>2. CASE ~Refused(r)
    <3> PICK to : to = LifecycleRoutes[req[r].op]
      OBVIOUS
    <3>1. /\ sub[req[r].on].ver < MaxVersion
          /\ sub' = [sub EXCEPT ![req[r].on] = [status |-> to, ver |-> @.ver + 1]]
          /\ overtaken' \subseteq overtaken \cup {req[r].on}
          /\ CarriedOut(r) /\ UNCHANGED <<pref, ent, lock, recorded, excused>>
      BY <1>7, <2>2 DEF UpdateStatus, IsCurrent
    <3>2. sub[req[r].on].ver + 1 \in 0..MaxVersion /\ to \in StatusType
      BY <1>0, <2>1, <3>1, BoundsArePositive, Routes DEF RowsOK
    <3> QED
      BY <1>0, <1>c, <2>1, <3>1, <3>2 DEF RowsOK
  <2> QED
    BY <1>r, <2>2
<1>8. CASE UpdatePolicy(r)
  <2>1. req[r].on \in Subs
    BY <1>0, <1>8 DEF UpdatePolicy, At, Shape, PatchRoutes
  <2>2. CASE ~Refused(r)
    <3>1. /\ sub[req[r].on].ver < MaxVersion
          /\ sub' = [sub EXCEPT ![req[r].on].ver = @ + 1]
          /\ UNCHANGED <<pref, ent, lock, recorded, runs, excused, overtaken>>
      BY <1>8, <2>2 DEF UpdatePolicy, IsCurrent, aux
    <3>2. sub[req[r].on].ver + 1 \in 0..MaxVersion
      BY <1>0, <2>1, <3>1, BoundsArePositive DEF RowsOK
    <3> QED
      BY <1>0, <2>1, <3>1, <3>2 DEF RowsOK
  <2> QED
    BY <1>r, <2>2
<1>9. CASE UpdatePreference(r)
  <2>1. req[r].on \in Subs
    BY <1>0, <1>9 DEF UpdatePreference, At, Shape, PatchRoutes
  <2>2. CASE ~Refused(r)
    <3>1. /\ pref[req[r].on] < MaxChanges
          /\ pref' = [pref EXCEPT ![req[r].on] = @ + 1]
          /\ UNCHANGED <<sub, ent, lock, recorded, runs, excused, overtaken>>
      BY <1>9, <2>2 DEF UpdatePreference, aux
    <3> QED
      BY <1>0, <2>1, <3>1, BoundsArePositive DEF RowsOK
  <2> QED
    BY <1>r, <2>2
<1>10. CASE CommitEntitlement(r)
  <2>1. /\ req[r].write \in Effects /\ (req[r].status = "ACTIVE" => req[r].on \in Subs)
        /\ lock = r /\ ent.ver < MaxVersion
    BY <1>0, <1>10, NoneIsNothing DEF CommitEntitlement, At, Shape, StatusType, Knows
  <2>2. CASE ~Refused(r)
    <3>1. /\ ent' = [effect |-> req[r].write, ver |-> ent.ver + 1]
          /\ overtaken' \subseteq overtaken
          /\ Release(r) /\ UNCHANGED <<pref, recorded, runs, excused>>
      BY <1>10, <2>2 DEF CommitEntitlement
    <3>2. ent' \in [effect : Effects \cup {None}, ver : 0..MaxVersion]
      BY <1>0, <2>1, <3>1, BoundsArePositive DEF RowsOK
    <3>3. CASE req[r].status = "ACTIVE"
      <4>1. /\ sub[req[r].on].ver < MaxVersion
            /\ sub' = [sub EXCEPT ![req[r].on] = [status |-> "SUSPENDED", ver |-> @.ver + 1]]
        BY <1>10, <2>2, <3>3 DEF CommitEntitlement, IsCurrent
      <4>2. sub[req[r].on].ver + 1 \in 0..MaxVersion /\ "SUSPENDED" \in StatusType
        BY <1>0, <2>1, <3>3, <4>1, BoundsArePositive DEF RowsOK, StatusType
      <4>3. sub' \in [Subs -> [status : StatusType \cup {None}, ver : 0..MaxVersion]]
        BY <1>0, <2>1, <3>3, <4>1, <4>2 DEF RowsOK
      <4> QED
        BY <1>0, <1>l, <3>1, <3>2, <4>3 DEF RowsOK
    <3>4. CASE req[r].status # "ACTIVE"
      <4>1. sub' = sub
        BY <1>10, <2>2, <3>4 DEF CommitEntitlement
      <4> QED
        BY <1>0, <1>l, <3>1, <3>2, <4>1 DEF RowsOK
    <3> QED
      BY <3>3, <3>4
  <2> QED
    BY <1>r, <2>2
<1> QED
  BY <1>1, <1>2, <1>3, <1>4, <1>5, <1>6, <1>7, <1>8, <1>9, <1>10
     DEF Step, SubscriptionStep, EntitlementStep

-----------------------------------------------------------------------------
(* What a step does to the entitlement and its row lock.                   *)

\* A step of r that neither takes nor gives back the lock, takes it, ends without
\* writing, or commits.
Keeps(r) == UNCHANGED <<ent, lock>> /\ Knows(r, req'[r], ent, lock)
Locks(r) ==
    /\ ent' = ent /\ lock = None /\ lock' = r /\ ent.ver < MaxVersion
    /\ req'[r].pc \in {"cascade", "commit"}
    /\ req'[r].pc = "commit" /\ req'[r].op = "update" => req'[r].write = ent.effect
    /\ sub' = sub
Ends(r) == ent' = ent /\ lock' = (IF lock = r THEN None ELSE lock) /\ req'[r] = IdleRequest
Commits(r) ==
    /\ req[r].pc = "commit" /\ lock = r /\ lock' = None /\ req'[r] = IdleRequest
    /\ ent' = [effect |-> req[r].write, ver |-> ent.ver + 1]
    /\ req[r].status # "ACTIVE" => UNCHANGED <<sub, overtaken>>
    /\ req[r].status = "ACTIVE" => Suspended(r, req[r].on)

LEMMA LockStep ==
    ASSUME SubscriptionInv, NEW r \in Requests, Step(r)
    PROVE  Keeps(r) \/ Locks(r) \/ Ends(r) \/ Commits(r)
<1> DEFINE Goal == Keeps(r) \/ Locks(r) \/ Ends(r) \/ Commits(r)
<1>0. /\ req \in [Requests -> RequestType] /\ Shape(req[r]) /\ req[r] \in RequestType
      /\ Reads(req[r], sub[req[r].on]) /\ Knows(r, req[r], ent, lock) /\ RowsOK
  BY DEF SubscriptionInv, RequestsOK, CopiesInv
<1>d. ASSUME Done(r) PROVE req'[r] = IdleRequest
  BY <1>0, <1>d DEF Done
<1>r. ASSUME Refused(r) PROVE Goal
  BY <1>0, <1>r, <1>d DEF Refused, Release, Ends, rows
<1>k. ASSUME lock # r, UNCHANGED <<ent, lock>>, req'[r].pc \notin {"lock", "cascade", "commit"} PROVE Goal
  BY <1>k DEF Keeps, Knows
<1>e. ASSUME Done(r), UNCHANGED <<ent, lock>>, req[r].pc \notin {"cascade", "commit"} PROVE Goal
  BY <1>0, <1>d, <1>e DEF Knows, Ends
<1>c. ASSUME CarriedOut(r), req[r].pc \in {"insert", "status"}, UNCHANGED <<ent, lock>> PROVE Goal
  <2>1. CASE req[r].key = None
    BY <1>c, <1>e, <2>1 DEF CarriedOut
  <2>2. CASE req[r].key # None
    <3>1. req'[r].pc = "save"
      BY <1>0, <1>c, <2>2 DEF CarriedOut, RequestType
    <3> QED
      BY <1>0, <1>c, <1>k, <3>1 DEF Knows
  <2> QED
    BY <2>1, <2>2
<1>1. CASE Receive(r)
  <2>1. PICK op \in Operations : \E s \in Targets(op), k \in Keys \cup {None} :
          req' = [req EXCEPT ![r] = [IdleRequest EXCEPT !.op = op, !.on = s, !.key = k, !.pc = Begin(op)]]
    BY <1>1 DEF Receive
  <2>2. req'[r].pc \in {"entitled", "current", "load"}
    BY <1>0, <2>1 DEF IdleRequest, Begin
  <2> QED
    BY <1>0, <1>1, <1>k, <2>2 DEF Receive, At, Knows, rows
<1>2. CASE Load(r) /\ ~Refused(r)
  <2>1. req'[r].pc \in {"entitled", "catalog", "status"} /\ UNCHANGED <<ent, lock>>
    BY <1>0, <1>2 DEF Load, RequestType, rows
  <2> QED
    BY <1>0, <1>2, <1>k, <2>1 DEF Load, At, Knows
<1>3. CASE AssertEntitlement(r) /\ ~Refused(r)
  <2>1. req'[r].pc = "catalog" /\ UNCHANGED <<ent, lock>>
    BY <1>0, <1>3 DEF AssertEntitlement, RequestType, rows
  <2> QED
    BY <1>0, <1>3, <1>k, <2>1 DEF AssertEntitlement, At, Knows
<1>4. CASE AskCatalog(r) /\ ~Refused(r)
  <2>1. req'[r].pc \in {"insert", "status"} \cup PatchRoutes /\ UNCHANGED <<ent, lock>>
    BY <1>0, <1>4 DEF AskCatalog, Advance, Goto, RequestType, rows
  <2> QED
    BY <1>0, <1>4, <1>k, <2>1 DEF AskCatalog, At, Knows, PatchRoutes
<1>5. CASE InsertSubscription(r) /\ ~Refused(r)
  BY <1>5, <1>c DEF InsertSubscription, At
<1>6. CASE UpdateStatus(r) /\ ~Refused(r)
  BY <1>6, <1>c DEF UpdateStatus, At
<1>7. CASE (UpdatePolicy(r) \/ UpdatePreference(r) \/ Save(r)) /\ ~Refused(r)
  BY <1>7, <1>e DEF UpdatePolicy, UpdatePreference, Save, At, rows
<1>8. CASE ReadPreference(r)
  <2>1. req'[r].pc = "write preference" /\ UNCHANGED <<ent, lock>>
    BY <1>0, <1>8 DEF ReadPreference, RequestType, rows
  <2> QED
    BY <1>0, <1>8, <1>k, <2>1 DEF ReadPreference, At, Knows
<1>9. CASE ReadEntitlement(r) /\ ~Refused(r)
  <2>1. PICK v \in 1..MaxVersion, e \in Effects :
          /\ req[r].op = "update" => v <= ent.ver /\ e = ent.effect
          /\ req' = [req EXCEPT ![r].ver = v, ![r].write = e, ![r].pc = "lock"]
          /\ UNCHANGED <<rows, lock>>
    BY <1>9 DEF ReadEntitlement
  <2>2. req'[r].op = req[r].op /\ req'[r].ver = v /\ req'[r].write = e /\ req'[r].pc = "lock"
    BY <1>0, <2>1 DEF RequestType
  <2>3. lock # r
    BY <1>0, <1>9 DEF ReadEntitlement, At, Knows
  <2> QED
    BY <2>1, <2>2, <2>3 DEF Keeps, Knows, rows
<1>10. CASE UpdateEntitlement(r) /\ ~Refused(r)
  <2>1. PICK p : p = IF req[r].write = "DENY" /\ req[r].op # "update" THEN "cascade" ELSE "commit"
    OBVIOUS
  <2>2. /\ req[r].pc = "lock" /\ lock = None /\ lock' = r /\ ent.ver < MaxVersion
        /\ req[r].op = "update" => ent.ver = req[r].ver
        /\ req' = [req EXCEPT ![r].pc = p] /\ ent' = ent /\ sub' = sub
    BY <1>10, <2>1 DEF UpdateEntitlement, At, Goto, rows
  <2>3. req'[r].pc = p /\ req'[r].op = req[r].op /\ req'[r].write = req[r].write
    BY <1>0, <2>2 DEF RequestType
  <2>4. req[r].op = "update" => req[r].write = ent.effect
    <3>1. req[r].op = "update" => req[r].ver = ent.ver /\ req[r].pc = "lock"
      BY <2>2
    <3> QED
      BY <1>0, <3>1 DEF Knows
  <2> QED
    BY <2>1, <2>2, <2>3, <2>4 DEF Locks
<1>11. CASE FindActive(r)
  <2>1. UNCHANGED <<ent, lock>> /\ lock = r /\ ent.ver < MaxVersion /\ req[r].op # "update"
    BY <1>0, <1>11 DEF FindActive, Advance, At, rows, Shape, Knows
  <2>2. CASE req' = [req EXCEPT ![r].pc = "commit"]
    <3>1. req'[r].pc = "commit" /\ req'[r].op = req[r].op
      BY <1>0, <2>2 DEF RequestType
    <3> QED
      BY <2>1, <3>1 DEF Keeps, Knows
  <2>3. ASSUME NEW s \in Live, Finds(r, s) PROVE Goal
    <3>1. req'[r] = [req[r] EXCEPT !.on = s, !.ver = sub[s].ver, !.status = "ACTIVE", !.pc = "commit"]
      BY <1>0, <2>3 DEF Finds
    <3>2. req'[r].pc = "commit" /\ req'[r].op = req[r].op
      BY <1>0, <3>1 DEF RequestType
    <3> QED
      BY <2>1, <3>2 DEF Keeps, Knows
  <2> QED
    BY <1>11, <2>2, <2>3, ActiveFound, Zenon
<1>12. CASE CommitEntitlement(r) /\ ~Refused(r)
  <2>1. req[r].pc = "commit" /\ lock = r
    BY <1>0, <1>12 DEF CommitEntitlement, At, Knows
  <2>2. /\ ent' = [effect |-> req[r].write, ver |-> ent.ver + 1]
        /\ lock' = None /\ req'[r] = IdleRequest
        /\ req[r].status # "ACTIVE" => UNCHANGED <<sub, overtaken>>
    BY <1>12, <1>d, <2>1 DEF CommitEntitlement, Release
  <2>3. req[r].status = "ACTIVE" => Suspended(r, req[r].on)
    <3> SUFFICES ASSUME req[r].status = "ACTIVE" PROVE Suspended(r, req[r].on)
      OBVIOUS
    <3>1. req[r].on \in Subs /\ "ACTIVE" # None
      BY <1>0, <2>1, NoneIsNothing DEF Shape, StatusType
    <3>2. /\ sub[req[r].on].ver = req[r].ver
          /\ sub' = [sub EXCEPT ![req[r].on] = [status |-> "SUSPENDED", ver |-> @.ver + 1]]
          /\ overtaken' = overtaken \ {req[r].on}
      BY <1>12 DEF CommitEntitlement, IsCurrent
    <3>3. sub[req[r].on].status = "ACTIVE"
      BY <1>0, <3>1, <3>2 DEF Reads
    <3> QED
      BY <1>0, <2>1, <3>1, <3>2, <3>3 DEF Suspended, RowsOK
  <2> QED
    BY <2>1, <2>2, <2>3 DEF Commits
<1>13. CASE Crash(r)
  BY <1>13, <1>d DEF Crash, Release, Ends, rows
<1> QED
  BY <1>r, <1>1, <1>2, <1>3, <1>4, <1>5, <1>6, <1>7, <1>8, <1>9, <1>10, <1>11, <1>12, <1>13
     DEF Step, SubscriptionStep, EntitlementStep

-----------------------------------------------------------------------------
(* What the requests read still holds after a step.                        *)

\* A request keeps what it read of a row that stays, or moves on to a later version.
LEMMA ReadsStay ==
    ASSUME NEW q, q.ver \in Nat, NEW row, NEW row2, row.ver \in Nat, row2.ver \in Nat, Reads(q, row),
           row2 = row \/ (row.status # None /\ row2.status # None /\ row2.ver > row.ver)
    PROVE  Reads(q, row2)
BY DEF Reads

\* So does a request that only goes on.
LEMMA ReadsSame ==
    ASSUME NEW q, NEW n, NEW row, Reads(q, row), n.op = q.op, n.ver = q.ver, n.status = q.status,
           Changing(n) => Changing(q), Creating(n) => Creating(q)
    PROVE  Reads(n, row)
BY DEF Reads

\* A request about nothing, or about the entitlement, reads no subscription.
LEMMA ReadsNothing ==
    ASSUME NEW q, Shape(q), q.status = None, q.op \notin {"create"} \cup Lifecycles \cup PatchRoutes, NEW row
    PROVE  Reads(q, row) /\ ~Creating(q)
BY DEF Reads, Changing, Creating

LEMMA OfNoRow ==
    ASSUME NEW q, Shape(q), q.on \notin Subs, NEW row
    PROVE  Reads(q, row)
BY DEF Shape, Reads, Changing, Creating

LEMMA RowMoves ==
    ASSUME SubscriptionInv, NEW r \in Requests, Step(r), NEW s \in Subs
    PROVE  \/ sub'[s] = sub[s]
           \/ Inserted(r, s)
           \/ sub[s].status # None /\ sub'[s].status # None /\ sub'[s].ver > sub[s].ver
<1>1. RowsOK /\ RowsOK'
  BY RowsKept DEF SubscriptionInv
<1>2. sub[s].ver \in Nat
  BY <1>1 DEF RowsOK
<1>3. CASE \E t \in Subs : Written(r, t)
  <2>1. PICK t \in Subs : Written(r, t)
    BY <1>3
  <2>2. CASE t = s
    <3>1. CASE Changed(r, s)
      <4>1. sub[s].status \in StatusType
        BY <1>1, <3>1 DEF Changed, RowsOK
      <4>2. sub'[s].status \in StatusType
        BY <3>1, <4>1 DEF Changed, ALLOWED_TRANSITIONS, StatusType
      <4> QED
        BY <1>2, <3>1, <4>2, NoneIsNothing DEF Changed
    <3>2. CASE Renewed(s)
      BY <1>2, <3>2 DEF Renewed
    <3>3. CASE Suspended(r, s)
      BY <1>2, <3>3, NoneIsNothing DEF Suspended, StatusType
    <3> QED
      BY <2>1, <2>2, <3>1, <3>2, <3>3 DEF Written
  <2> QED
    BY <2>1, <2>2 DEF Written
<1> QED
  BY <1>3, SubStep

\* What the request that takes the step turns to: the subscription it had, none, one
\* that is there, or, when it is to create one, one that no other knows of.
Aims(r) ==
    \/ req'[r].on = req[r].on /\ (Creating(req'[r]) => Creating(req[r]))
    \/ ~Creating(req'[r]) /\ (req'[r].on \in Subs => sub[req'[r].on].status # None)
    \/ \A p \in Requests : req[p].on # req'[r].on

LEMMA ActorReads ==
    ASSUME SubscriptionInv, NEW r \in Requests, Step(r)
    PROVE  Reads(req'[r], sub'[req'[r].on]) /\ Aims(r)
<1> DEFINE Goal == Reads(req'[r], sub'[req'[r].on]) /\ Aims(r)
<1>0. /\ req \in [Requests -> RequestType] /\ Shape(req[r]) /\ req[r] \in RequestType /\ RowsOK
      /\ Reads(req[r], sub[req[r].on])
  BY DEF SubscriptionInv, RequestsOK, CopiesInv
<1>s. Shape(req'[r]) /\ req'[r] \in RequestType
  BY RequestsKept DEF SubscriptionInv, RequestsOK
<1>d. ASSUME Done(r) PROVE Goal
  <2>1. req'[r] = IdleRequest
    BY <1>0, <1>d DEF Done
  <2>2. /\ req'[r].op = None /\ req'[r].on = None /\ req'[r].status = None
        /\ None \notin {"create"} \cup Lifecycles \cup PatchRoutes /\ None \notin Subs
    BY <2>1, NoneIsNothing, Routes DEF IdleRequest, PatchRoutes
  <2> QED
    BY <1>s, <2>2, ReadsNothing DEF Aims
<1>r. ASSUME Refused(r) PROVE Goal
  BY <1>d, <1>r DEF Refused
<1>c. ASSUME CarriedOut(r), req[r].pc \in {"insert", "status"}, sub'[req[r].on].status # None PROVE Goal
  <2>1. CASE req[r].key = None
    BY <1>c, <1>d, <2>1 DEF CarriedOut
  <2>2. CASE req[r].key # None
    <3>1. /\ req'[r].pc = "save" /\ req'[r].on = req[r].on /\ req'[r].status = req[r].status
      BY <1>0, <1>c, <2>2 DEF CarriedOut, RequestType
    <3>2. req[r].status = None
      BY <1>0, <1>c DEF Shape
    <3> QED
      BY <1>c, <3>1, <3>2 DEF Aims, Reads, Changing, Creating
  <2> QED
    BY <2>1, <2>2
<1>g. ASSUME sub' = sub, req'[r].op = req[r].op, req'[r].on = req[r].on, req'[r].ver = req[r].ver,
             req'[r].status = req[r].status, Changing(req'[r]) => Changing(req[r]), Creating(req[r])
                                                                                  \/ ~Creating(req'[r])
      PROVE  Goal
  BY <1>0, <1>g, ReadsSame DEF Aims
<1>e. ASSUME req[r].pc \in {"current", "lock"}, req'[r].op = req[r].op, req'[r].on = req[r].on,
             req'[r].status = req[r].status
      PROVE  Goal
  <2>1. req'[r].status = None /\ req'[r].op \in EntitlementRoutes
    BY <1>0, <1>e DEF Shape
  <2>2. req'[r].op \notin {"create"} \cup Lifecycles \cup PatchRoutes
    BY <2>1, Routes DEF EntitlementRoutes, PatchRoutes
  <2> QED
    BY <1>e, <1>s, <2>1, <2>2, ReadsNothing DEF Aims
<1>1. CASE Receive(r)
  <2>1. PICK op \in Operations : \E s \in Targets(op), k \in Keys \cup {None} :
          req' = [req EXCEPT ![r] = [IdleRequest EXCEPT !.op = op, !.on = s, !.key = k, !.pc = Begin(op)]]
    BY <1>1 DEF Receive
  <2>2. PICK s \in Targets(op), k \in Keys \cup {None} :
          req' = [req EXCEPT ![r] = [IdleRequest EXCEPT !.op = op, !.on = s, !.key = k, !.pc = Begin(op)]]
    BY <2>1
  <2>3. /\ req'[r].op = op /\ req'[r].on = s /\ req'[r].pc = Begin(op) /\ req'[r].status = None
        /\ sub' = sub
    BY <1>0, <1>1, <2>2 DEF IdleRequest, Receive, rows
  <2>4. CASE op = "create"
    <3>1. sub[s].status = None /\ (\A p \in Requests : req[p].on # s)
      BY <2>4 DEF Targets, EntitlementRoutes
    <3>2. "create" \notin Lifecycles \cup PatchRoutes
      BY Routes DEF PatchRoutes
    <3> QED
      BY <2>3, <2>4, <3>1, <3>2 DEF Aims, Reads, Changing
  <2>5. CASE op \in EntitlementRoutes
    <3>1. op \notin {"create"} \cup Lifecycles \cup PatchRoutes /\ s = None
      BY <2>5, Routes DEF EntitlementRoutes, PatchRoutes, Targets
    <3> QED
      BY <1>s, <2>3, <3>1, ReadsNothing, NoneIsNothing DEF Aims
  <2>6. CASE op \notin {"create"} \cup EntitlementRoutes
    <3>1. sub[s].status # None /\ Begin(op) = "load"
      BY <2>6 DEF Targets, Begin
    <3> QED
      BY <2>3, <2>6, <3>1 DEF Aims, Reads, Changing, Creating
  <2> QED
    BY <2>4, <2>5, <2>6
<1>2. CASE Load(r) /\ ~Refused(r)
  <2>1. /\ req[r].pc = "load" /\ Permitted(req[r].op, sub[req[r].on].status) /\ sub' = sub
    BY <1>2 DEF Load, At, rows
  <2>2. PICK p : p = IF NeedsEligibility(req[r].op) THEN "entitled"
                     ELSE IF req[r].op \in PatchRoutes THEN "catalog" ELSE "status"
    OBVIOUS
  <2>3. req' = [req EXCEPT ![r].ver = sub[req[r].on].ver, ![r].pc = p]
    BY <1>2, <2>2 DEF Load
  <2>4. /\ req'[r].op = req[r].op /\ req'[r].on = req[r].on /\ req'[r].ver = sub[req[r].on].ver
        /\ req'[r].status = req[r].status
    BY <1>0, <2>3 DEF RequestType
  <2>5. /\ req[r].op \in Lifecycles \cup PatchRoutes /\ req[r].on \in Subs /\ req[r].status = None
        /\ sub[req[r].on].ver \in Nat
    BY <1>0, <2>1 DEF Shape, RowsOK
  <2>6. "create" \notin Lifecycles \cup PatchRoutes
    BY Routes DEF PatchRoutes
  <2> QED
    BY <1>0, <2>1, <2>4, <2>5, <2>6 DEF Aims, Reads, Changing, Creating
<1>3. CASE AssertEntitlement(r) /\ ~Refused(r)
  <2>1. /\ req[r].pc = "entitled" /\ sub' = sub
        /\ req' = [req EXCEPT ![r].effect = ent.effect, ![r].pc = "catalog"]
    BY <1>3 DEF AssertEntitlement, At, rows
  <2>2. /\ req'[r].op = req[r].op /\ req'[r].on = req[r].on /\ req'[r].ver = req[r].ver
        /\ req'[r].status = req[r].status /\ req'[r].pc = "catalog"
    BY <1>0, <2>1 DEF RequestType
  <2> QED
    BY <1>g, <2>1, <2>2 DEF Changing, Creating
<1>4. CASE AskCatalog(r) /\ ~Refused(r)
  <2>1. PICK p : p = CASE req[r].op = "create" -> "insert"
                       [] req[r].op \in PatchRoutes -> req[r].op
                       [] OTHER -> "status"
    OBVIOUS
  <2>2. req[r].pc = "catalog" /\ sub' = sub /\ req' = [req EXCEPT ![r].pc = p]
    BY <1>4, <2>1 DEF AskCatalog, At, Advance, Goto, rows
  <2>3. /\ req'[r].op = req[r].op /\ req'[r].on = req[r].on /\ req'[r].ver = req[r].ver
        /\ req'[r].status = req[r].status /\ req'[r].pc = p
    BY <1>0, <2>2 DEF RequestType
  <2> QED
    BY <1>g, <2>2, <2>3 DEF Changing, Creating
<1>5. CASE InsertSubscription(r) /\ ~Refused(r)
  <2>1. /\ req[r].pc = "insert" /\ CarriedOut(r) /\ req[r].on \in Subs
        /\ sub' = [sub EXCEPT ![req[r].on] = [status |-> "ACTIVE", ver |-> 1]]
    BY <1>0, <1>5 DEF InsertSubscription, At, Shape
  <2>2. sub'[req[r].on].status # None
    BY <1>0, <2>1, NoneIsNothing DEF RowsOK, StatusType
  <2> QED
    BY <1>c, <2>1, <2>2
<1>6. CASE UpdateStatus(r) /\ ~Refused(r)
  <2>1. PICK to : to = LifecycleRoutes[req[r].op]
    OBVIOUS
  <2>2. /\ req[r].pc = "status" /\ CarriedOut(r) /\ req[r].on \in Subs /\ req[r].op \in Lifecycles
        /\ sub' = [sub EXCEPT ![req[r].on] = [status |-> to, ver |-> @.ver + 1]]
    BY <1>0, <1>6, <2>1 DEF UpdateStatus, At, Shape
  <2>3. sub'[req[r].on].status # None
    BY <1>0, <2>1, <2>2, NoneIsNothing, Routes DEF RowsOK
  <2> QED
    BY <1>c, <2>2, <2>3
<1>7. CASE UpdatePolicy(r) \/ UpdatePreference(r) \/ Save(r) \/ Crash(r) \/ CommitEntitlement(r)
  BY <1>7, <1>d, <1>r DEF UpdatePolicy, UpdatePreference, Save, Crash, CommitEntitlement
<1>8. CASE ReadPreference(r)
  <2>1. /\ req[r].pc = "preference" /\ sub' = sub
        /\ req' = [req EXCEPT ![r].ver = pref[req[r].on], ![r].pc = "write preference"]
    BY <1>8 DEF ReadPreference, At, rows
  <2>2. /\ req'[r].op = req[r].op /\ req'[r].on = req[r].on /\ req'[r].pc = "write preference"
        /\ req'[r].status = req[r].status
    BY <1>0, <2>1 DEF RequestType
  <2>3. req[r].op = "preference" /\ req[r].status = None /\ "preference" \notin Lifecycles \cup {"create"}
    BY <1>0, <2>1, Routes DEF Shape
  <2> QED
    BY <1>0, <2>1, <2>2, <2>3 DEF Aims, Reads, Changing, Creating
<1>9. CASE ReadEntitlement(r) /\ ~Refused(r)
  <2>1. PICK v \in 1..MaxVersion, e \in Effects :
          req' = [req EXCEPT ![r].ver = v, ![r].write = e, ![r].pc = "lock"]
    BY <1>9 DEF ReadEntitlement
  <2>2. req'[r].op = req[r].op /\ req'[r].on = req[r].on /\ req'[r].status = req[r].status
    BY <1>0, <2>1 DEF RequestType
  <2> QED
    BY <1>9, <1>e, <2>2 DEF ReadEntitlement, At
<1>10. CASE UpdateEntitlement(r) /\ ~Refused(r)
  <2>1. PICK p : p = IF req[r].write = "DENY" /\ req[r].op # "update" THEN "cascade" ELSE "commit"
    OBVIOUS
  <2>2. req' = [req EXCEPT ![r].pc = p]
    BY <1>10, <2>1 DEF UpdateEntitlement, Goto
  <2>3. req'[r].op = req[r].op /\ req'[r].on = req[r].on /\ req'[r].status = req[r].status
    BY <1>0, <2>2, PcMoves
  <2> QED
    BY <1>10, <1>e, <2>3 DEF UpdateEntitlement, At
<1>11. CASE FindActive(r)
  <2>1. req[r].pc = "cascade" /\ sub' = sub /\ req[r].op \in EntitlementRoutes
    BY <1>0, <1>11 DEF FindActive, At, Advance, rows, Shape
  <2>2. req[r].op \notin {"create"} \cup Lifecycles \cup PatchRoutes
    BY <2>1, Routes DEF EntitlementRoutes, PatchRoutes
  <2>3. CASE req' = [req EXCEPT ![r].pc = "commit"]
    <3>1. /\ req'[r].op = req[r].op /\ req'[r].on = req[r].on /\ req'[r].ver = req[r].ver
          /\ req'[r].status = req[r].status /\ req'[r].pc = "commit"
      BY <1>0, <2>3 DEF RequestType
    <3> QED
      BY <1>g, <2>1, <2>2, <3>1 DEF Changing, Creating
  <2>4. ASSUME NEW s \in Live, Finds(r, s)
        PROVE  Goal
    <3>1. s \in Subs /\ sub[s].ver \in Nat /\ sub[s].status # None
      BY <1>0 DEF Live, RowsOK
    <3>2. req'[r] = [req[r] EXCEPT !.on = s, !.ver = sub[s].ver, !.status = "ACTIVE", !.pc = "commit"]
      BY <1>0, <2>4 DEF Finds
    <3>3. /\ req'[r].op = req[r].op /\ req'[r].on = s /\ req'[r].ver = sub[s].ver /\ req'[r].pc = "commit"
      BY <1>0, <3>2 DEF RequestType
    <3> QED
      BY <2>1, <2>2, <2>4, <3>1, <3>3 DEF Finds, Aims, Reads, Changing, Creating
  <2> QED
    BY <1>11, <2>3, <2>4, ActiveFound, Zenon
<1> QED
  BY <1>r, <1>1, <1>2, <1>3, <1>4, <1>5, <1>6, <1>7, <1>8, <1>9, <1>10, <1>11
     DEF Step, SubscriptionStep, EntitlementStep

LEMMA CopiesKept ==
    ASSUME SubscriptionInv, NEW r \in Requests, Step(r)
    PROVE  CopiesInv'
<1>0. /\ RowsOK /\ RowsOK' /\ CopiesInv
      /\ \A p \in Requests : Shape(req[p]) /\ Shape(req'[p])
      /\ \A p \in Requests \ {r} : req'[p] = req[p]
  BY RowsKept, RequestsKept DEF SubscriptionInv, RequestsOK
<1>1. Reads(req'[r], sub'[req'[r].on]) /\ Aims(r)
  BY ActorReads
<1>2. ASSUME NEW p \in Requests \ {r} PROVE Reads(req[p], sub'[req[p].on])
  <2>1. PICK s : s = req[p].on
    OBVIOUS
  <2>2. CASE s \notin Subs
    BY <1>0, <2>1, <2>2, OfNoRow
  <2>3. CASE s \in Subs /\ ~Inserted(r, s)
    <3>1. /\ req[p].ver \in Nat /\ sub[s].ver \in Nat /\ sub'[s].ver \in Nat
          /\ Reads(req[p], sub[s])
      <4>1. req[p].ver \in Nat
        BY <1>0 DEF Shape, RequestType
      <4>2. sub[s].ver \in Nat /\ sub'[s].ver \in Nat
        BY <1>0, <2>3 DEF RowsOK
      <4> QED
        BY <1>0, <2>1, <4>1, <4>2 DEF CopiesInv
    <3>2. sub'[s] = sub[s] \/ (sub[s].status # None /\ sub'[s].status # None /\ sub'[s].ver > sub[s].ver)
      BY <2>3, RowMoves
    <3>3. Reads(req[p], sub'[s])
      BY <3>1, <3>2, ReadsStay
    <3> QED
      BY <2>1, <3>3
  <2>4. CASE Inserted(r, s)
    <3>1. Creating(req[r]) /\ req[r].on = s
      BY <1>0, <2>4 DEF Inserted, Creating, Shape
    <3> QED
      BY <1>0, <2>1, <3>1 DEF CopiesInv, Alone
  <2> QED
    BY <2>2, <2>3, <2>4
<1>3. ASSUME NEW p \in Requests PROVE Alone(p)'
  <2>1. \A t \in Requests : Creating(req[t]) => req[t].on \in Subs /\ sub[req[t].on].status = None
    BY <1>0 DEF CopiesInv, Reads, Creating, Shape
  <2>2. CASE p = r
    <3> SUFFICES ASSUME Creating(req'[r]), NEW t \in Requests \ {r} PROVE req'[t].on # req'[r].on
      BY <2>2 DEF Alone
    <3>1. req'[t] = req[t]
      BY <1>0
    <3>2. CASE req'[r].on = req[r].on /\ Creating(req[r])
      BY <1>0, <3>1, <3>2 DEF CopiesInv, Alone
    <3> QED
      BY <1>1, <3>1, <3>2 DEF Aims
  <2>3. CASE p # r
    <3> SUFFICES ASSUME Creating(req[p]), NEW t \in Requests \ {p} PROVE req'[t].on # req[p].on
      BY <1>0, <2>3 DEF Alone
    <3>1. req[t].on # req[p].on
      BY <1>0 DEF CopiesInv, Alone
    <3>2. CASE t = r
      <4>1. CASE req'[r].on = req[r].on
        BY <3>1, <3>2, <4>1
      <4>2. CASE req'[r].on \in Subs => sub[req'[r].on].status # None
        BY <2>1, <3>2, <4>2
      <4>3. CASE \A u \in Requests : req[u].on # req'[r].on
        BY <3>2, <4>3
      <4> QED
        BY <1>1, <4>1, <4>2, <4>3 DEF Aims
    <3>3. CASE t # r
      BY <1>0, <3>1, <3>3
    <3> QED
      BY <3>2, <3>3
  <2> QED
    BY <2>2, <2>3
<1>4. ASSUME NEW p \in Requests PROVE Knows(p, req'[p], ent', lock')
  <2>1. Knows(p, req[p], ent, lock) /\ Knows(r, req[r], ent, lock) /\ None # r /\ None # p /\ ent.ver \in Nat
    BY <1>0, NoneIsNothing DEF CopiesInv, RowsOK
  <2>2. p # r => req'[p] = req[p]
    BY <1>0
  <2>3. CASE Keeps(r)
    BY <2>1, <2>2, <2>3 DEF Keeps
  <2>4. CASE Locks(r)
    BY <2>1, <2>2, <2>4 DEF Locks, Knows
  <2>5. CASE Ends(r)
    <3>1. req'[r].pc = "idle"
      BY <2>5 DEF Ends, IdleRequest
    <3> QED
      BY <2>1, <2>2, <2>5, <3>1 DEF Ends, Knows
  <2>6. CASE Commits(r)
    <3>1. req'[r].pc = "idle" /\ ent'.ver = ent.ver + 1 /\ lock = r /\ lock' = None
      BY <2>6 DEF Commits, IdleRequest
    <3>2. CASE p = r
      BY <2>1, <3>1, <3>2 DEF Knows
    <3>3. CASE p # r
      <4>1. req[p].pc \notin {"cascade", "commit"} /\ req[p].ver \in Nat
        BY <1>0, <2>1, <3>1, <3>3 DEF Knows, Shape, RequestType
      <4> QED
        BY <2>1, <2>2, <3>1, <3>3, <4>1 DEF Knows
    <3> QED
      BY <3>2, <3>3
  <2> QED
    BY <2>3, <2>4, <2>5, <2>6, LockStep
<1>5. ASSUME NEW p \in Requests PROVE Reads(req'[p], sub'[req'[p].on])
  BY <1>0, <1>1, <1>2
<1> QED
  BY <1>3, <1>4, <1>5 DEF CopiesInv

-----------------------------------------------------------------------------
(* Denials.                                                                *)

\* Of a step that leads to the end of a denial: it looked for what is ACTIVE.
LEMMA ActorDenies ==
    ASSUME SubscriptionInv, NEW r \in Requests, Step(r),
           req'[r].pc = "commit", req'[r].op # "update", req'[r].write = "DENY"
    PROVE  /\ UNCHANGED <<sub, overtaken>>
           /\ \A s \in Subs : sub[s].status = "ACTIVE" => req'[r].status = "ACTIVE" /\ s = req'[r].on
<1>0. /\ req \in [Requests -> RequestType] /\ Shape(req[r]) /\ req[r] \in RequestType /\ RowsOK /\ OneLive
      /\ Reads(req[r], sub[req[r].on])
  BY DEF SubscriptionInv, RequestsOK, CopiesInv, DenialInv
<1>d. ~Done(r)
  BY <1>0 DEF Done, IdleRequest
<1>r. ~Refused(r)
  BY <1>d DEF Refused
<1>c. ~CarriedOut(r)
  <2>1. ASSUME req' = [req EXCEPT ![r].pc = "save", ![r].ver = 0, ![r].effect = None] PROVE FALSE
    BY <1>0, <2>1 DEF RequestType
  <2> QED
    BY <1>d, <2>1 DEF CarriedOut
<1>1. CASE Receive(r)
  <2>1. PICK op \in Operations : \E s \in Targets(op), k \in Keys \cup {None} :
          req' = [req EXCEPT ![r] = [IdleRequest EXCEPT !.op = op, !.on = s, !.key = k, !.pc = Begin(op)]]
    BY <1>1 DEF Receive
  <2> QED
    BY <1>0, <2>1 DEF IdleRequest, Begin
<1>2. CASE Load(r)
  BY <1>0, <1>2, <1>r DEF Load, RequestType
<1>3. CASE AssertEntitlement(r)
  BY <1>0, <1>3, <1>r DEF AssertEntitlement, RequestType
<1>4. CASE AskCatalog(r)
  <2>1. PICK p : p = CASE req[r].op = "create" -> "insert"
                       [] req[r].op \in PatchRoutes -> req[r].op
                       [] OTHER -> "status"
    OBVIOUS
  <2>2. req' = [req EXCEPT ![r].pc = p] /\ p # "commit"
    BY <1>4, <1>r, <2>1 DEF AskCatalog, Advance, Goto, PatchRoutes
  <2> QED
    BY <1>0, <2>2 DEF RequestType
<1>5. CASE InsertSubscription(r) \/ UpdateStatus(r)
  BY <1>5, <1>r, <1>c DEF InsertSubscription, UpdateStatus
<1>6. CASE UpdatePolicy(r) \/ UpdatePreference(r) \/ Save(r) \/ Crash(r) \/ CommitEntitlement(r)
  BY <1>6, <1>d, <1>r DEF UpdatePolicy, UpdatePreference, Save, Crash, CommitEntitlement
<1>7. CASE ReadPreference(r)
  BY <1>0, <1>7 DEF ReadPreference, RequestType
<1>8. CASE ReadEntitlement(r)
  <2>1. PICK v \in 1..MaxVersion, e \in Effects :
          req' = [req EXCEPT ![r].ver = v, ![r].write = e, ![r].pc = "lock"]
    BY <1>8, <1>r DEF ReadEntitlement
  <2> QED
    BY <1>0, <2>1, LockMoves
<1>9. CASE UpdateEntitlement(r)
  <2>1. PICK p : p = IF req[r].write = "DENY" /\ req[r].op # "update" THEN "cascade" ELSE "commit"
    OBVIOUS
  <2>2. req' = [req EXCEPT ![r].pc = p]
    BY <1>9, <1>r, <2>1 DEF UpdateEntitlement, Goto
  <2>3. req'[r].pc = p /\ req'[r].op = req[r].op /\ req'[r].write = req[r].write
    BY <1>0, <2>2, PcMoves
  <2> QED
    BY <2>1, <2>3
<1>10. CASE FindActive(r)
  <2>1. UNCHANGED <<sub, overtaken>>
    BY <1>10 DEF FindActive, Advance, rows, aux
  <2>2. \A s \in Subs : sub[s].status = "ACTIVE" => s \in Live
    BY NoneIsNothing DEF Live, StatusType
  <2>3. CASE \A s \in Live : sub[s].status # "ACTIVE"
    BY <2>1, <2>2, <2>3
  <2>4. ASSUME NEW s \in Live, Finds(r, s)
        PROVE  req'[r].status = "ACTIVE" /\ \A t \in Live : t = req'[r].on
    <3>1. req'[r] = [req[r] EXCEPT !.on = s, !.ver = sub[s].ver, !.status = "ACTIVE", !.pc = "commit"]
      BY <1>0, <2>4 DEF Finds
    <3>2. req'[r].on = s /\ req'[r].status = "ACTIVE"
      BY <1>0, <3>1 DEF RequestType
    <3> QED
      BY <1>0, <3>2 DEF OneLive
  <2> QED
    <3>1. CASE \E s \in Live : Finds(r, s)
      <4>1. req'[r].status = "ACTIVE" /\ \A t \in Live : t = req'[r].on
        BY <2>4, <3>1
      <4>2. \A s \in Subs : sub[s].status = "ACTIVE" => s = req'[r].on
        BY <2>2, <4>1, Zenon
      <4> QED
        BY <2>1, <4>1, <4>2, Zenon
    <3> QED
      BY <1>10, <2>3, <3>1, ActiveFound, Zenon
<1> QED
  BY <1>1, <1>2, <1>3, <1>4, <1>5, <1>6, <1>7, <1>8, <1>9, <1>10
     DEF Step, SubscriptionStep, EntitlementStep

\* A subscription that a step makes ACTIVE although its request was overtaken is marked;
\* a mark is only taken away with the status.
LEMMA Marked ==
    ASSUME SubscriptionInv, NEW r \in Requests, Step(r), NEW s \in Subs, sub'[s].status = "ACTIVE",
           ent.effect = "DENY" \/ lock # None,
           sub[s].status = "ACTIVE" => s \in overtaken
    PROVE  s \in overtaken'
<1>0. Shape(req[r]) /\ RowsOK
  BY DEF SubscriptionInv, RequestsOK
<1>1. CASE \E t \in Subs : Written(r, t)
  <2>1. PICK t \in Subs : Written(r, t)
    BY <1>1
  <2>2. CASE t # s
    <3>1. sub'[s] = sub[s] /\ s \in overtaken
      BY <2>1, <2>2 DEF Written
    <3> QED
      BY <2>1, <2>2, <3>1 DEF Written, Inserted, Changed, Renewed, Suspended
  <2>3. CASE Inserted(r, s)
    <3>1. req[r].effect = "ALLOW"
      BY <1>0, <2>3 DEF Inserted, Shape
    <3> QED
      BY <2>3, <3>1 DEF Inserted, Overtook
  <2>4. CASE Changed(r, s)
    BY <2>4 DEF Changed, Overtook
  <2>5. CASE Renewed(s)
    BY <2>5 DEF Renewed
  <2>6. ~Suspended(r, s)
    BY DEF Suspended
  <2> QED
    BY <2>1, <2>2, <2>3, <2>4, <2>5, <2>6 DEF Written
<1> QED
  BY <1>1, SubStep

LEMMA LiveKept ==
    ASSUME SubscriptionInv, NEW r \in Requests, Step(r)
    PROVE  OneLive'
<1>0. RowsOK /\ OneLive
  BY DEF SubscriptionInv, DenialInv
<1>1. CASE UNCHANGED <<sub, overtaken>>
  BY <1>0, <1>1 DEF OneLive, Live
<1>2. CASE \E s \in Subs : Written(r, s)
  <2>1. PICK s \in Subs : Written(r, s)
    BY <1>2
  <2>2. \A t \in Subs \ {s} : sub'[t] = sub[t]
    BY <2>1 DEF Written
  <2>3. CASE Inserted(r, s)
    <3>1. Live' \subseteq {s}
      BY <2>2, <2>3 DEF Inserted, Live
    <3> QED
      BY <3>1 DEF OneLive
  <2>4. CASE ~Inserted(r, s)
    <3>1. s \in Live \/ s \notin Live'
      <4>1. CASE Changed(r, s)
        <5>1. sub[s].status \in StatusType
          BY <1>0, <4>1 DEF Changed, RowsOK
        <5> QED
          BY <4>1, <5>1 DEF Changed, ALLOWED_TRANSITIONS, StatusType, Live
      <4>2. CASE Renewed(s)
        BY <4>2 DEF Renewed, Live
      <4>3. CASE Suspended(r, s)
        BY <4>3, NoneIsNothing DEF Suspended, Live, StatusType
      <4> QED
        BY <2>1, <2>4, <4>1, <4>2, <4>3 DEF Written
    <3>2. Live' \subseteq Live
      BY <2>2, <3>1 DEF Live
    <3> QED
      BY <1>0, <3>2 DEF OneLive
  <2> QED
    BY <2>3, <2>4
<1> QED
  BY <1>1, <1>2, SubStep

LEMMA DenialKept ==
    ASSUME SubscriptionInv, NEW r \in Requests, Step(r)
    PROVE  DenialInv'
<1>0. /\ RowsOK /\ DeniedOnlyWhenOvertaken
      /\ \A p \in Requests : Shape(req[p]) /\ Denies(p) /\ Knows(p, req[p], ent, lock)
      /\ \A p \in Requests \ {r} : req'[p] = req[p]
  BY RequestsKept DEF SubscriptionInv, RequestsOK, CopiesInv, DenialInv
<1>1. CASE Commits(r)
  <2>1. /\ req[r].pc = "commit" /\ lock = r /\ req'[r].pc = "idle" /\ ent'.effect = req[r].write
    BY <1>1 DEF Commits, IdleRequest
  <2>2. ASSUME NEW p \in Requests PROVE Denies(p)'
    <3>1. p # r => req[p].pc # "commit"
      BY <1>0, <2>1 DEF Knows
    <3> QED
      BY <1>0, <2>1, <3>1 DEF Denies
  <2>3. CASE req[r].status # "ACTIVE"
    <3>1. UNCHANGED <<sub, overtaken>>
      BY <1>1, <2>3 DEF Commits
    <3>2. ASSUME req[r].op = "update" PROVE DeniedOnlyWhenOvertaken'
      <4>1. ent'.effect = ent.effect
        BY <1>0, <2>1, <3>2 DEF Knows
      <4> QED
        BY <1>0, <3>1, <4>1 DEF DeniedOnlyWhenOvertaken
    <3>3. ASSUME req[r].op # "update" PROVE DeniedOnlyWhenOvertaken'
      <4>1. req[r].write = "DENY" => \A s \in Subs : sub[s].status = "ACTIVE" => s \in overtaken
        BY <1>0, <2>1, <2>3, <3>3 DEF Denies
      <4> QED
        BY <2>1, <3>1, <4>1 DEF DeniedOnlyWhenOvertaken
    <3>4. DeniedOnlyWhenOvertaken'
      BY <3>2, <3>3
    <3> QED
      BY <2>2, <3>4, LiveKept DEF DenialInv
  <2>4. CASE req[r].status = "ACTIVE"
    <3>1. PICK s : s = req[r].on
      OBVIOUS
    <3>2. /\ s \in Subs /\ req[r].op # "update" /\ req[r].write = "DENY"
      BY <1>0, <2>4, <3>1, NoneIsNothing DEF Shape, StatusType
    <3>3. Suspended(r, s)
      BY <1>1, <2>4, <3>1 DEF Commits
    <3>4. PICK t \in Subs : Written(r, t)
      BY <3>2, <3>3, SubStep DEF Suspended
    <3>5. t = s
      BY <3>2, <3>3, <3>4 DEF Written, Suspended
    <3>6. \A u \in Subs \ {s} : sub'[u] = sub[u]
      BY <3>4, <3>5 DEF Written
    <3>7. \A u \in Subs \ {s} : sub[u].status = "ACTIVE" => u \in overtaken
      BY <1>0, <2>1, <3>1, <3>2 DEF Denies
    <3>8. overtaken' = overtaken \ {s} /\ sub'[s].status = "SUSPENDED"
      BY <3>3 DEF Suspended
    <3>9. DeniedOnlyWhenOvertaken'
      BY <3>6, <3>7, <3>8 DEF DeniedOnlyWhenOvertaken
    <3> QED
      BY <2>2, <3>9, LiveKept DEF DenialInv
  <2> QED
    BY <2>3, <2>4
<1>2. CASE ent' = ent
  <2>1. DeniedOnlyWhenOvertaken'
    <3> SUFFICES ASSUME ent.effect = "DENY", NEW s \in Subs, sub'[s].status = "ACTIVE" PROVE s \in overtaken'
      BY <1>2 DEF DeniedOnlyWhenOvertaken
    <3> QED
      BY <1>0, Marked DEF DeniedOnlyWhenOvertaken
  <2>2. ASSUME NEW p \in Requests PROVE Denies(p)'
    <3> SUFFICES ASSUME req'[p].pc = "commit", req'[p].op # "update", req'[p].write = "DENY", NEW s \in Subs,
                        sub'[s].status = "ACTIVE"
                 PROVE  s \in overtaken' \/ (req'[p].status = "ACTIVE" /\ s = req'[p].on)
      BY DEF Denies
    <3>1. CASE p = r
      BY <3>1, ActorDenies
    <3>2. CASE p # r
      <4>1. req'[p] = req[p] /\ lock = p /\ lock # None /\ lock # r /\ Denies(p)
        BY <1>0, <3>2, NoneIsNothing DEF Knows
      <4>2. CASE sub[s].status = "ACTIVE" => s \in overtaken
        BY <4>1, <4>2, Marked
      <4>3. CASE s = req[p].on /\ req[p].status = "ACTIVE"
        BY <4>1, <4>3
      <4> QED
        BY <4>1, <4>2, <4>3 DEF Denies
    <3> QED
      BY <3>1, <3>2
  <2> QED
    BY <2>1, <2>2, LiveKept DEF DenialInv
<1> QED
  BY <1>1, <1>2, LockStep DEF Keeps, Locks, Ends

-----------------------------------------------------------------------------
(* Idempotency keys.                                                       *)

\* A step of r leaves the keys alone, if need be excusing its own; takes up a key;
\* carries out the operation of its key; or saves the outcome.
Drops(r) ==
    /\ UNCHANGED <<recorded, runs>> /\ excused \subseteq excused'
    /\ req'[r].key \in {req[r].key, None}
    /\ req[r].pc = "save" => req[r].key \in excused'
TakesUp(r) ==
    /\ UNCHANGED <<recorded, runs>> /\ excused \subseteq excused'
    /\ req[r].key = None /\ req[r].pc = "idle"
    /\ req'[r].key \in Keys \ recorded
    /\ (\E p \in Requests : req[p].key = req'[r].key) => req'[r].key \in excused'
RunsKey(r) ==
    /\ UNCHANGED <<recorded, excused>>
    /\ req[r].key \in Keys /\ req[r].pc # "save"
    /\ runs' = [runs EXCEPT ![req[r].key] = 1 + IF @ = 0 THEN 0 ELSE 1]
    /\ req'[r].key = req[r].key /\ req'[r].pc = "save"
Saves(r) ==
    /\ UNCHANGED <<runs, excused>>
    /\ req[r].key \in Keys /\ recorded' = recorded \cup {req[r].key}
    /\ req'[r].key = None

LEMMA KeyStep ==
    ASSUME SubscriptionInv, NEW r \in Requests, Step(r)
    PROVE  Drops(r) \/ TakesUp(r) \/ RunsKey(r) \/ Saves(r)
<1> DEFINE Goal == Drops(r) \/ TakesUp(r) \/ RunsKey(r) \/ Saves(r)
<1>0. /\ req \in [Requests -> RequestType] /\ Shape(req[r]) /\ req[r] \in RequestType /\ RowsOK
  BY DEF SubscriptionInv, RequestsOK
<1>d. ASSUME Done(r) PROVE req'[r].key = None
  BY <1>0, <1>d DEF Done, IdleRequest
<1>u. ASSUME req'[r].key \in {req[r].key, None}, UNCHANGED <<recorded, runs, excused>>, req[r].pc # "save"
      PROVE  Goal
  BY <1>u DEF Drops
<1>r. ASSUME Refused(r), req[r].pc # "save" PROVE Goal
  BY <1>d, <1>r, <1>u DEF Refused, aux
<1>c. ASSUME CarriedOut(r), UNCHANGED <<recorded, excused>>, req[r].pc \in {"insert", "status"} PROVE Goal
  <2>1. CASE req[r].key = None
    BY <1>c, <1>d, <1>u, <2>1 DEF CarriedOut
  <2>2. CASE req[r].key # None
    <3>1. /\ req[r].key \in Keys
          /\ runs' = [runs EXCEPT ![req[r].key] = 1 + IF @ = 0 THEN 0 ELSE 1]
          /\ req' = [req EXCEPT ![r].pc = "save", ![r].ver = 0, ![r].effect = None]
      BY <1>0, <1>c, <2>2 DEF CarriedOut, RequestType
    <3>2. req'[r].key = req[r].key /\ req'[r].pc = "save"
      BY <1>0, <3>1 DEF RequestType
    <3> QED
      BY <1>c, <3>1, <3>2 DEF RunsKey
  <2> QED
    BY <2>1, <2>2
<1>1. CASE Receive(r)
  <2>1. PICK op \in Operations : \E s \in Targets(op), k \in Keys \cup {None} :
          /\ k # None => op \in KeyedOperations /\ k \notin recorded
          /\ req' = [req EXCEPT ![r] = [IdleRequest EXCEPT !.op = op, !.on = s, !.key = k, !.pc = Begin(op)]]
          /\ excused' = IF Repeats(k) THEN excused \cup {k} ELSE excused
    BY <1>1 DEF Receive
  <2>2. PICK s \in Targets(op), k \in Keys \cup {None} :
          /\ k # None => op \in KeyedOperations /\ k \notin recorded
          /\ req' = [req EXCEPT ![r] = [IdleRequest EXCEPT !.op = op, !.on = s, !.key = k, !.pc = Begin(op)]]
          /\ excused' = IF Repeats(k) THEN excused \cup {k} ELSE excused
    BY <2>1
  <2>3. req'[r].key = k /\ excused \subseteq excused'
    BY <1>0, <2>2 DEF IdleRequest
  <2>4. UNCHANGED <<recorded, runs>> /\ req[r].pc = "idle"
    BY <1>1 DEF Receive, At
  <2>5. req[r].key = None
    BY <1>0, <2>4, NoneIsNothing, Routes DEF Shape, IdempotentRoutes
  <2>6. CASE k = None
    BY <2>3, <2>4, <2>6 DEF Drops
  <2>7. CASE k # None
    BY <2>2, <2>3, <2>4, <2>5, <2>7 DEF TakesUp, Repeats
  <2> QED
    BY <2>6, <2>7
<1>2. CASE Load(r)
  <2>1. CASE ~Refused(r)
    <3>1. UNCHANGED <<recorded, runs, excused>> /\ req'[r].key = req[r].key
      BY <1>0, <1>2, <2>1 DEF Load, RequestType, aux
    <3> QED
      BY <1>2, <1>u, <3>1 DEF Load, At
  <2> QED
    BY <1>2, <1>r, <2>1 DEF Load, At
<1>3. CASE AssertEntitlement(r)
  <2>1. CASE ~Refused(r)
    <3>1. UNCHANGED <<recorded, runs, excused>> /\ req'[r].key = req[r].key
      BY <1>0, <1>3, <2>1 DEF AssertEntitlement, RequestType, aux
    <3> QED
      BY <1>3, <1>u, <3>1 DEF AssertEntitlement, At
  <2> QED
    BY <1>3, <1>r, <2>1 DEF AssertEntitlement, At
<1>4. CASE AskCatalog(r)
  <2>1. CASE ~Refused(r)
    <3>1. UNCHANGED <<recorded, runs, excused>> /\ \E p : req' = [req EXCEPT ![r].pc = p]
      BY <1>4, <2>1 DEF AskCatalog, Advance, Goto, aux
    <3>2. req'[r].key = req[r].key
      BY <1>0, <3>1 DEF RequestType
    <3> QED
      BY <1>4, <1>u, <3>1, <3>2 DEF AskCatalog, At
  <2> QED
    BY <1>4, <1>r, <2>1 DEF AskCatalog, At
<1>5. CASE InsertSubscription(r)
  BY <1>5, <1>c, <1>r DEF InsertSubscription, At
<1>6. CASE UpdateStatus(r)
  BY <1>6, <1>c, <1>r DEF UpdateStatus, At
<1>7. CASE UpdatePolicy(r) \/ UpdatePreference(r) \/ CommitEntitlement(r)
  <2>1. req[r].pc # "save"
    BY <1>7 DEF UpdatePolicy, UpdatePreference, CommitEntitlement, At
  <2>2. CASE ~Refused(r)
    <3>1. UNCHANGED <<recorded, runs, excused>> /\ Done(r)
      BY <1>7, <2>2 DEF UpdatePolicy, UpdatePreference, CommitEntitlement, aux
    <3> QED
      BY <1>d, <1>u, <2>1, <3>1
  <2> QED
    BY <1>r, <2>1, <2>2
<1>8. CASE ReadPreference(r)
  <2>1. UNCHANGED <<recorded, runs, excused>> /\ req'[r].key = req[r].key
    <3>1. UNCHANGED <<recorded, runs, excused>>
      BY <1>8 DEF ReadPreference, aux
    <3>2. req'[r].key = req[r].key
      BY <1>0, <1>8 DEF ReadPreference, RequestType
    <3> QED
      BY <3>1, <3>2
  <2> QED
    BY <1>8, <1>u, <2>1 DEF ReadPreference, At
<1>9. CASE ReadEntitlement(r)
  <2>1. CASE ~Refused(r)
    <3>1. UNCHANGED <<recorded, runs, excused>> /\ \E v, e : req' = [req EXCEPT ![r].ver = v, ![r].write = e, ![r].pc = "lock"]
      BY <1>9, <2>1 DEF ReadEntitlement, aux
    <3>2. req'[r].key = req[r].key
      BY <1>0, <3>1 DEF RequestType
    <3> QED
      <4>1. req[r].pc # "save"
        BY <1>9 DEF ReadEntitlement, At
      <4> QED
        BY <1>u, <3>1, <3>2, <4>1
  <2> QED
    BY <1>9, <1>r, <2>1 DEF ReadEntitlement, At
<1>10. CASE UpdateEntitlement(r)
  <2>1. CASE ~Refused(r)
    <3>1. UNCHANGED <<recorded, runs, excused>> /\ \E p : req' = [req EXCEPT ![r].pc = p]
      <4>1. UNCHANGED <<recorded, runs, excused>>
        BY <1>10, <2>1 DEF UpdateEntitlement, aux
      <4>2. \E p : req' = [req EXCEPT ![r].pc = p]
        BY <1>10, <2>1 DEF UpdateEntitlement, Goto
      <4> QED
        BY <4>1, <4>2
    <3>2. req'[r].key = req[r].key
      BY <1>0, <3>1 DEF RequestType
    <3> QED
      BY <1>10, <1>u, <3>1, <3>2 DEF UpdateEntitlement, At
  <2> QED
    BY <1>10, <1>r, <2>1 DEF UpdateEntitlement, At
<1>11. CASE FindActive(r)
  <2>1. UNCHANGED <<recorded, runs, excused>> /\ req[r].pc # "save"
    BY <1>11 DEF FindActive, Advance, At, aux
  <2>2. CASE req' = [req EXCEPT ![r].pc = "commit"]
    <3>1. req'[r].key = req[r].key
      BY <1>0, <2>2 DEF RequestType
    <3> QED
      BY <1>u, <2>1, <3>1
  <2>3. ASSUME NEW s \in Live, Finds(r, s) PROVE Goal
    <3>1. req'[r] = [req[r] EXCEPT !.on = s, !.ver = sub[s].ver, !.status = "ACTIVE", !.pc = "commit"]
      BY <1>0, <2>3 DEF Finds
    <3>2. req'[r].key = req[r].key
      BY <1>0, <3>1 DEF RequestType
    <3> QED
      BY <1>u, <2>1, <3>2
  <2> QED
    BY <1>11, <2>2, <2>3, ActiveFound
<1>12. CASE Save(r)
  BY <1>0, <1>12, <1>d DEF Save, At, Shape, Saves, aux
<1>13. CASE Crash(r)
  <2>1. req[r].pc = "save" => req[r].key # None
    BY <1>0, NoneIsNothing DEF Shape
  <2> QED
    BY <1>13, <1>d, <2>1 DEF Crash, Drops
<1> QED
  BY <1>1, <1>2, <1>3, <1>4, <1>5, <1>6, <1>7, <1>8, <1>9, <1>10, <1>11, <1>12, <1>13
     DEF Step, SubscriptionStep, EntitlementStep

LEMMA KeysKept ==
    ASSUME SubscriptionInv, NEW r \in Requests, Step(r)
    PROVE  KeysInv'
<1> SUFFICES ASSUME NEW k \in Keys, k \notin excused' PROVE
      /\ \A p, t \in Requests : req'[p].key = k /\ req'[t].key = k => p = t
      /\ k \in recorded' => \A p \in Requests : req'[p].key # k
      /\ runs'[k] <= 1
      /\ runs'[k] = 1 => k \in recorded' \/ \E p \in Requests : req'[p].key = k /\ req'[p].pc = "save"
  BY DEF KeysInv, KeyInv
<1>0. /\ \A p \in Requests \ {r} : req'[p] = req[p]
      /\ runs \in [Keys -> 0..2] /\ k # None
  BY RequestsKept, NoneIsNothing DEF SubscriptionInv, RowsOK
<1>1. k \notin excused
  BY KeyStep DEF Drops, TakesUp, RunsKey, Saves
<1>2. /\ \A p, t \in Requests : req[p].key = k /\ req[t].key = k => p = t
      /\ k \in recorded => \A p \in Requests : req[p].key # k
      /\ runs[k] <= 1
      /\ runs[k] = 1 => k \in recorded \/ \E p \in Requests : req[p].key = k /\ req[p].pc = "save"
  BY <1>1 DEF SubscriptionInv, KeysInv, KeyInv
<1>3. CASE Drops(r)
  BY <1>0, <1>2, <1>3 DEF Drops
<1>4. CASE TakesUp(r)
  BY <1>0, <1>2, <1>4 DEF TakesUp
<1>5. CASE RunsKey(r)
  <2>1. CASE req[r].key = k
    <3>1. runs[k] = 0
      BY <1>0, <1>2, <1>5, <2>1 DEF RunsKey
    <3> QED
      BY <1>0, <1>2, <1>5, <2>1, <3>1 DEF RunsKey
  <2>2. CASE req[r].key # k
    BY <1>0, <1>2, <1>5, <2>2 DEF RunsKey
  <2> QED
    BY <2>1, <2>2
<1>6. CASE Saves(r)
  BY <1>0, <1>2, <1>6 DEF Saves
<1> QED
  BY <1>3, <1>4, <1>5, <1>6, KeyStep

-----------------------------------------------------------------------------
(* The theorems.                                                           *)

LEMMA InitInv == Init => SubscriptionInv
<1> SUFFICES ASSUME Init PROVE SubscriptionInv
  OBVIOUS
<1>1. RowsOK
  BY BoundsArePositive DEF Init, RowsOK
<1>2. \A r \in Requests : req[r] = IdleRequest
  BY DEF Init
<1>3. RequestsOK
  <2>1. IdleRequest \in RequestType
    BY IdleShape DEF Shape
  <2>2. req \in [Requests -> RequestType]
    BY <2>1 DEF Init
  <2> QED
    BY <1>2, <2>2, IdleShape DEF RequestsOK
<1>4. CopiesInv
  <2>1. \A r \in Requests : req[r].op = None /\ req[r].on = None /\ req[r].status = None /\ req[r].pc = "idle"
    BY <1>2 DEF IdleRequest
  <2>2. None \notin {"create"} \cup Lifecycles \cup PatchRoutes /\ None \notin Requests /\ lock = None
    BY NoneIsNothing, Routes DEF Init, PatchRoutes
  <2> QED
    BY <2>1, <2>2 DEF CopiesInv, Reads, Changing, Creating, Alone, Knows
<1>5. DenialInv
  <2>1. \A s \in Subs : sub[s].status = None
    BY DEF Init
  <2>2. \A r \in Requests : req[r].pc = "idle"
    BY <1>2 DEF IdleRequest
  <2> QED
    BY <2>1, <2>2, NoneIsNothing
       DEF DenialInv, OneLive, Live, DeniedOnlyWhenOvertaken, Denies, StatusType
<1>6. KeysInv
  <2>1. \A r \in Requests : req[r].key = None
    BY <1>2 DEF IdleRequest
  <2> QED
    BY <2>1, NoneIsNothing DEF Init, KeysInv, KeyInv
<1> QED
  BY <1>1, <1>3, <1>4, <1>5, <1>6 DEF SubscriptionInv

LEMMA NextInv ==
    ASSUME SubscriptionInv, [Next]_vars
    PROVE  SubscriptionInv'
<1>1. CASE Next
  <2>1. PICK r \in Requests : Step(r)
    BY <1>1 DEF Next, Step
  <2> QED
    BY <2>1, RowsKept, RequestsKept, CopiesKept, DenialKept, KeysKept DEF SubscriptionInv
<1>2. CASE UNCHANGED vars
  BY <1>2 DEF vars, rows, aux, SubscriptionInv, RowsOK, RequestsOK, CopiesInv, Alone, DenialInv,
     OneLive, Live,
     DeniedOnlyWhenOvertaken, Denies, KeysInv, KeyInv
<1> QED
  BY <1>1, <1>2

\* For any number of subscriptions, overlapping requests and keys, wherever servers die:
\* SubscriptionInv holds in every reachable state.
THEOREM SubscriptionCorrect == Spec => []SubscriptionInv
<1> QED
  BY InitInv, NextInv, PTL DEF Spec

\* However requests overlap, a subscription is ACTIVE under a denied entitlement only if
\* its activation had passed its check before the denial (the denial suspends every other
\* one), and a key is carried out twice only if it was repeated or its server died
\* before the outcome was saved.
THEOREM RequestsStayIsolated == Spec => []RequestsAreIsolated
<1>1. SubscriptionInv => RequestsAreIsolated
  <2> SUFFICES ASSUME SubscriptionInv PROVE RequestsAreIsolated
    OBVIOUS
  <2>1. TypeOK
    BY DEF SubscriptionInv, RowsOK, RequestsOK, Shape, TypeOK
  <2>2. KeyRunsOnce
    <3> SUFFICES ASSUME NEW k \in Keys, runs[k] > 1, k \notin excused PROVE FALSE
      BY DEF KeyRunsOnce
    <3> QED
      BY DEF SubscriptionInv, RowsOK, KeysInv, KeyInv
  <2> QED
    BY <2>1, <2>2 DEF RequestsAreIsolated, SubscriptionInv, DenialInv
<1> QED
  BY <1>1, SubscriptionCorrect, PTL

\* Whatever a request read, its late write moves a subscription along ALLOWED_TRANSITIONS only.
THEOREM TransitionsStayLegal == Spec => TransitionsAreLegal
<1> DEFINE Legal == \A s \in Subs : sub'[s].status # sub[s].status /\ sub[s].status # None
                      => sub'[s].status \in ALLOWED_TRANSITIONS[sub[s].status]
<1>1. SubscriptionInv /\ [Next]_vars => [Legal]_vars
  <2> SUFFICES ASSUME SubscriptionInv, Next PROVE Legal
    OBVIOUS
  <2>1. PICK r \in Requests : Step(r)
    BY DEF Next, Step
  <2>2. CASE UNCHANGED <<sub, overtaken>>
    BY <2>2
  <2>3. CASE \E s \in Subs : Written(r, s)
    <3>1. PICK s \in Subs : Written(r, s)
      BY <2>3
    <3> SUFFICES ASSUME NEW t \in Subs, sub'[t].status # sub[t].status, sub[t].status # None
                 PROVE  sub'[t].status \in ALLOWED_TRANSITIONS[sub[t].status]
      OBVIOUS
    <3>2. t = s
      BY <3>1 DEF Written
    <3>3. CASE Suspended(r, s)
      BY <3>2, <3>3 DEF Suspended, ALLOWED_TRANSITIONS
    <3> QED
      BY <3>1, <3>2, <3>3 DEF Written, Inserted, Changed, Renewed
  <2> QED
    BY <2>1, <2>2, <2>3, SubStep
<1> QED
  BY <1>1, SubscriptionCorrect, PTL DEF Spec, TransitionsAreLegal

\* Moving the validity window of an entitlement never brings back the effect it had read:
\* what was denied is allowed again by a grant or an allow only, under the row lock.
THEOREM DenialIsKept == Spec => DenialIsNotLost
<1> DEFINE NotLost == ent.effect = "DENY" /\ ent'.effect = "ALLOW"
                        => \E r \in Requests : At(r, "commit") /\ req[r].op \in {"grant", "allow"} /\ lock = r
<1>1. SubscriptionInv /\ [Next]_vars => [NotLost]_vars
  <2> SUFFICES ASSUME SubscriptionInv, Next, ent.effect = "DENY", ent'.effect = "ALLOW"
               PROVE  \E r \in Requests : At(r, "commit") /\ req[r].op \in {"grant", "allow"} /\ lock = r
    OBVIOUS
  <2>1. PICK r \in Requests : Step(r)
    BY DEF Next, Step
  <2>2. Commits(r)
    BY <2>1, LockStep DEF Keeps, Locks, Ends
  <2>3. req[r].pc = "commit" /\ lock = r /\ req[r].write = "ALLOW"
    BY <2>2 DEF Commits
  <2>4. req[r].op \in EntitlementRoutes \ {"deny"}
    BY <2>3 DEF SubscriptionInv, RequestsOK, Shape
  <2>5. req[r].op # "update"
    BY <2>3 DEF SubscriptionInv, CopiesInv, Knows
  <2> QED
    BY <2>3, <2>4, <2>5 DEF At, EntitlementRoutes
<1> QED
  BY <1>1, SubscriptionCorrect, PTL DEF Spec, DenialIsNotLost
-----------------------------------------------------------------------------
(* serving-projection-service and data-product-api-service.                *)

Stamps      == 0..MaxStamp
ProductVersions == 1..LastVersion
Cursors     == [date : Dates, event : Events]
RefreshType == [type : {"FULL", "INCREMENTAL", Nil}, pc : {"idle", "read", "write"}, since : Stamps, read : SUBSET Events,
                rows : [Events -> Row], snapshot : Stamps, behind : SUBSET Events, overtaken : BOOLEAN]
ClientType  == [request : [pc : {"idle", "resolve", "query"}, version : ProductVersions \cup {Nil}],
                scan : [cursor : Cursors \cup {Nil}, bound : ProductVersions \cup {Nil}, got : SUBSET Events,
                        repeated : SUBSET Events, stable : SUBSET Events, versions : SUBSET (ProductVersions \cup {Nil})],
                done : BOOLEAN]

StoreShape ==
    /\ gold \in [Events -> Row] /\ live \in [Events -> Row] /\ served \in [Events -> Stamps] /\ late \subseteq Events
    /\ snapshot \in Nat /\ clock \in Stamps /\ newest \in Stamps /\ checkpoint \in Stamps \cup {Nil} /\ refreshes \in Nat
    /\ writer \in [Writers -> [stamp : Stamps, rows : SUBSET Events, date : Dates \cup {0}]]
    /\ refresh \in [Refreshers -> RefreshType]
    /\ \A e \in Events : live[e].stamp > 0 => live[e].date \in Dates
    /\ \A e \in Events : gold[e].stamp > 0 => gold[e].date \in Dates
    /\ \A w \in Writers : writer[w].stamp > 0 => writer[w].date \in Dates
CustomerShape == version \in ProductVersions /\ client \in [Clients -> ClientType]

\* A snapshot is committed with a stamp of its own.
Writing  == {w \in Writers : writer[w].stamp > 0}
StampInv ==
    /\ snapshot + Cardinality(Writing) <= clock /\ newest <= clock
    /\ \A w \in Writing : writer[w].stamp <= clock /\ writer[w].stamp # newest
    /\ \A w, v \in Writing : w # v => writer[w].stamp # writer[v].stamp
    /\ \A e \in Events : gold[e].stamp <= newest

\* What was committed by a stamp that a refresh has started from, or the last one has reached, has been served.
Covered(b) == b <= newest /\ \A e \in Events \ late : gold[e].stamp <= b => gold[e].stamp <= served[e]
CoverInv ==
    /\ checkpoint # Nil => Covered(checkpoint)
    /\ \A r \in Refreshers : Covered(refresh[r].since)
    /\ \A e \in Events : live[e].stamp <= served[e] /\ served[e] <= newest /\ (e \notin late => served[e] <= gold[e].stamp)

\* What a refresh has read is Gold, or Gold has moved on past all of it.
ReadInv(q) ==
    /\ q.pc = "idle" => q.read = {}
    /\ q.type = "FULL" => q.since = 0
    /\ q.pc = "write" =>
          /\ q.read = {e \in Events : q.rows[e].stamp > q.since}
          /\ \A e \in Events : q.rows[e].stamp <= newest /\ (q.rows[e].stamp > 0 => q.rows[e].date \in Dates)
          /\ \A e \in Events \ late : gold[e].stamp # q.rows[e].stamp =>
                gold[e].stamp > q.since /\ \A d \in Events : gold[e].stamp > q.rows[d].stamp
          /\ ~q.overtaken => \A e \in Events \ q.behind : live[e].stamp <= q.rows[e].stamp
RefreshInv == \A r \in Refreshers : ReadInv(refresh[r])

\* A scan has got what lies before its cursor, once.
ScanOK(c) ==
    /\ client[c].scan.versions \subseteq {client[c].scan.bound}
    /\ client[c].scan.cursor # Nil => \A e \in client[c].scan.stable :
          e \in Present /\ e \notin client[c].scan.repeated /\ (e \in client[c].scan.got <=> ~After(e, client[c].scan.cursor))
    /\ client[c].done => /\ client[c].request.pc = "idle"
                         /\ client[c].scan.stable \subseteq client[c].scan.got \ client[c].scan.repeated
ScanInv == \A c \in Clients : ScanOK(c)

StoreInv    == StoreShape /\ StampInv /\ CoverInv /\ RefreshInv
CustomerInv == CustomerShape /\ ScanInv
ServingInv  == StoreInv /\ CustomerInv

-----------------------------------------------------------------------------
LEMMA ServingFacts ==
    /\ MaxStamp \in Nat /\ 0 \in Stamps /\ Stamps \subseteq Nat /\ Events \subseteq Nat /\ Dates \subseteq Nat
    /\ IsFiniteSet(Events) /\ IsFiniteSet(Writers) /\ PageSize \in Nat \ {0} /\ 1 \in ProductVersions
    /\ Nil \notin Stamps /\ Nil \notin Cursors
    /\ Absent \in Row /\ Absent.stamp = 0
<1>1. Nil \notin Cursors
  <2> SUFFICES ASSUME Nil \in Cursors PROVE FALSE
    OBVIOUS
  <2>1. PICK d \in Dates, e \in Events : Nil = [date |-> d, event |-> e]
    BY DEF Cursors
  <2> QED
    BY <2>1, ServingBounds
<1>2. Absent \in Row /\ Absent.stamp = 0
  BY ServingBounds DEF Absent, Row
<1>3. MaxStamp \in Nat /\ 0 \in Stamps /\ Stamps \subseteq Nat /\ 1 \in ProductVersions /\ Nil \notin Stamps
  BY ServingBounds DEF Stamps, ProductVersions
<1> QED
  BY <1>1, <1>2, <1>3, ServingBounds

LEMMA RowsRead ==
    ASSUME NEW f \in [Events -> Row], NEW e \in Events
    PROVE  /\ f[e] \in Row /\ f[e].stamp \in Stamps /\ f[e].snapshot \in Stamps /\ f[e].date \in Dates \cup {0}
           /\ f[e].stamp \in Nat /\ f[e].date \in Nat
BY ServingFacts DEF Row, Stamps

LEMMA LargestIs ==
    ASSUME NEW S, S \subseteq Stamps, S # {}
    PROVE  Largest(S) \in S /\ \A y \in S : y <= Largest(S)
<1> DEFINE T == {MaxStamp - x : x \in S}
<1>0. MaxStamp \in Nat /\ \A x \in S : x \in Nat /\ MaxStamp - x \in Nat
  BY ServingFacts DEF Stamps
<1>1. T \subseteq Nat /\ T # {}
  BY <1>0
<1>2. PICK t \in T : \A u \in T : <<u, t>> \notin OpToRel(<, Nat)
  <2> HIDE DEF T
  <2> QED
    BY <1>1, WFMin, NatLessThanWellFounded
<1>3. PICK x \in S : t = MaxStamp - x
  BY <1>2
<1>4. ASSUME NEW y \in S PROVE y <= x
  <2>1. MaxStamp - y \in T /\ MaxStamp - y \in Nat /\ t \in Nat
    BY <1>0, <1>3
  <2>2. ~(MaxStamp - y < t)
    <3> HIDE DEF T
    <3> QED
      BY <1>2, <2>1 DEF OpToRel
  <2>3. MaxStamp \in Nat /\ x \in Nat /\ y \in Nat
    BY <1>0
  <2> QED
    <3> HIDE DEF T
    <3> QED
      BY <1>3, <2>1, <2>2, <2>3
<1>5. \E z \in S : \A y \in S : y <= z
  BY <1>4
<1> QED
  BY <1>5 DEF Largest

\* A page has a last row, however many rows have its date.
LEMMA LastExists ==
    ASSUME live \in [Events -> Row], NEW page, page \subseteq Events, page # {}
    PROVE  \E e \in page : \A d \in page \ {e} : Before(d, e)
<1> DEFINE Above(e) == {d \in page : Before(e, d)}
           T == {Above(e) : e \in page}
           R == StrictSubsetOrdering(page)
<1>0. IsFiniteSet(page) /\ \A e \in page : live[e].date \in Nat /\ e \in Nat
  BY ServingFacts, FS_Subset, RowsRead
<1>1. T \subseteq FiniteSubsetsOf(page) /\ T # {}
  <2>1. FiniteSubsetsOf(page) = SUBSET page
    BY <1>0, FS_FiniteSubsetsOfFinite
  <2>2. \A e \in page : Above(e) \in SUBSET page
    OBVIOUS
  <2>3. T \subseteq SUBSET page
    <3> HIDE DEF Above
    <3> QED
      BY <2>2
  <2>4. T # {}
    <3> HIDE DEF Above
    <3> QED
      OBVIOUS
  <2> QED
    BY <2>1, <2>3, <2>4
<1>2. PICK t \in T : \A u \in T : <<u, t>> \notin R
  <2> HIDE DEF T, R
  <2> QED
    BY <1>1, FS_StrictSubsetOrderingWellFounded, WFMin DEF R
<1>3. PICK e \in page : t = Above(e)
  BY <1>2
<1>4. ASSUME NEW d \in page \ {e} PROVE Before(d, e)
  <2> SUFFICES ASSUME Before(e, d) PROVE FALSE
    BY <1>0 DEF Before
  <2>1. Above(d) \subseteq Above(e) /\ d \in Above(e) \ Above(d)
    BY <1>0 DEF Before
  <2>2. <<Above(d), Above(e)>> \in R
    BY <2>1 DEF StrictSubsetOrdering
  <2> QED
    BY <1>2, <1>3, <2>2
<1> QED
  BY <1>4

-----------------------------------------------------------------------------
(* The first state, and what an action leaves alone.                       *)

LEMMA ServingStarts == ServingInit => ServingInv
<1> SUFFICES ASSUME ServingInit PROVE ServingInv
  OBVIOUS
<1>1. StoreShape
  BY ServingFacts DEF ServingInit, StoreShape, RefreshType, Row, Absent, Stamps
<1>2. StampInv
  <2>1. Writing = {}
    BY DEF ServingInit, Writing
  <2> QED
    BY <2>1, FS_EmptySet, ServingFacts DEF ServingInit, StampInv, Absent
<1>3. CoverInv
  BY ServingFacts DEF ServingInit, CoverInv, Covered, Absent
<1>4. RefreshInv
  BY DEF ServingInit, RefreshInv, ReadInv
<1>5. CustomerInv
  BY ServingFacts DEF ServingInit, CustomerInv, CustomerShape, ClientType, ScanInv, ScanOK, NoScan, NoRequest
<1> QED
  BY <1>1, <1>2, <1>3, <1>4, <1>5 DEF ServingInv, StoreInv

LEMMA StoreIsLeft ==
    ASSUME StoreInv, UNCHANGED <<projection, live, served>>
    PROVE  StoreInv'
<1>1. /\ gold' = gold /\ snapshot' = snapshot /\ clock' = clock /\ newest' = newest /\ writer' = writer /\ live' = live
      /\ served' = served /\ checkpoint' = checkpoint /\ refresh' = refresh /\ refreshes' = refreshes /\ late' = late
  BY DEF projection
<1>2. StoreShape'
  BY <1>1 DEF StoreInv, StoreShape
<1>3. StampInv'
  <2>1. Writing' = Writing
    BY <1>1 DEF Writing
  <2> QED
    BY <1>1, <2>1 DEF StoreInv, StampInv
<1>4. CoverInv'
  BY <1>1 DEF StoreInv, CoverInv, Covered
<1>5. RefreshInv'
  BY <1>1 DEF StoreInv, RefreshInv, ReadInv
<1> QED
  BY <1>2, <1>3, <1>4, <1>5 DEF StoreInv

LEMMA CustomersAreLeft ==
    ASSUME CustomerInv, version' \in ProductVersions, live' = live, client' = client
    PROVE  CustomerInv'
BY DEF CustomerInv, CustomerShape, ScanInv, ScanOK, Present, After

-----------------------------------------------------------------------------
(* Gold runs.                                                              *)

LEMMA StampKeeps ==
    ASSUME ServingInv, NEW w \in Writers, Stamp(w)
    PROVE  ServingInv'
<1> USE ServingFacts DEF ServingInv, StoreInv
<1>0. /\ writer[w].stamp = 0 /\ clock < MaxStamp /\ clock' = clock + 1
      /\ gold' = gold /\ snapshot' = snapshot /\ newest' = newest /\ live' = live /\ served' = served /\ late' = late
      /\ checkpoint' = checkpoint /\ refresh' = refresh /\ refreshes' = refreshes
      /\ version' = version /\ client' = client
  BY DEF Stamp
<1>1. PICK batch \in SUBSET Events, date \in Dates :
        writer' = [writer EXCEPT ![w] = [stamp |-> clock', rows |-> batch, date |-> date]]
  BY DEF Stamp
<1>2. clock \in Nat /\ clock' \in Stamps /\ clock' > 0 /\ newest \in Nat /\ snapshot \in Nat
  BY <1>0 DEF StoreShape, Stamps
<1>3. StoreShape'
  BY <1>0, <1>1, <1>2 DEF StoreShape
<1>4. StampInv'
  <2>0. writer \in [Writers -> [stamp : Stamps, rows : SUBSET Events, date : Dates \cup {0}]]
    BY DEF StoreShape
  <2>1. Writing' = Writing \cup {w} /\ w \notin Writing
    BY <1>0, <1>1, <1>2, <2>0 DEF Writing
  <2>2. IsFiniteSet(Writing)
    BY FS_Subset DEF Writing
  <2>3. Cardinality(Writing') = Cardinality(Writing) + 1 /\ Cardinality(Writing) \in Nat
    BY <2>1, <2>2, FS_AddElement, FS_CardinalityType
  <2>4. snapshot' + Cardinality(Writing') <= clock' /\ newest' <= clock'
    BY <1>0, <1>2, <2>3 DEF StampInv
  <2>5. \A v \in Writing : v # w /\ writer'[v] = writer[v] /\ writer[v].stamp \in Nat /\ writer[v].stamp <= clock
    BY <1>1, <2>0, <2>1 DEF StampInv, Writing
  <2>6. writer'[w].stamp = clock + 1
    BY <1>0, <1>1, <2>0
  <2>7. \A v \in Writing' : writer'[v].stamp <= clock' /\ writer'[v].stamp # newest'
    BY <1>0, <1>2, <2>1, <2>5, <2>6 DEF StampInv
  <2>8. \A u, v \in Writing' : u # v => writer'[u].stamp # writer'[v].stamp
    BY <1>2, <2>1, <2>5, <2>6 DEF StampInv
  <2> QED
    BY <1>0, <2>4, <2>7, <2>8 DEF StampInv
<1>5. CoverInv'
  BY <1>0 DEF CoverInv, Covered
<1>6. RefreshInv'
  BY <1>0 DEF RefreshInv, ReadInv
<1>7. CustomerInv'
  BY <1>0, CustomersAreLeft DEF CustomerInv, CustomerShape
<1> QED
  BY <1>3, <1>4, <1>5, <1>6, <1>7

LEMMA CommitKeeps ==
    ASSUME ServingInv, NEW w \in Writers, Commit(w)
    PROVE  ServingInv'
<1> USE ServingFacts DEF ServingInv, StoreInv
<1> DEFINE b == writer[w]
           new == [date |-> b.date, stamp |-> b.stamp, snapshot |-> 0]
<1>0. /\ b.stamp > 0 /\ snapshot' = snapshot + 1
      /\ gold' = [e \in Events |-> IF e \in b.rows THEN new ELSE gold[e]]
      /\ late' = IF b.stamp < newest THEN late \cup b.rows ELSE late \ b.rows
      /\ newest' = Largest({newest, b.stamp})
      /\ writer' = [writer EXCEPT ![w] = [stamp |-> 0, rows |-> {}, date |-> 0]]
      /\ clock' = clock /\ live' = live /\ served' = served
      /\ checkpoint' = checkpoint /\ refresh' = refresh /\ refreshes' = refreshes
      /\ version' = version /\ client' = client
  BY DEF Commit
<1>1. /\ writer \in [Writers -> [stamp : Stamps, rows : SUBSET Events, date : Dates \cup {0}]]
      /\ gold \in [Events -> Row] /\ live \in [Events -> Row] /\ served \in [Events -> Stamps] /\ late \subseteq Events
      /\ refresh \in [Refreshers -> RefreshType] /\ checkpoint \in Stamps \cup {Nil}
      /\ clock \in Nat /\ newest \in Stamps /\ newest \in Nat /\ snapshot \in Nat
  BY DEF StoreShape
<1>2. /\ b.stamp \in Stamps /\ b.stamp \in Nat /\ b.rows \subseteq Events /\ b.date \in Dates /\ w \in Writing
      /\ b.stamp <= clock /\ b.stamp # newest /\ new \in Row /\ new.stamp = b.stamp
      /\ new.date = b.date
  BY <1>0, <1>1 DEF StoreShape, StampInv, Writing, Row, Stamps
<1>3. newest' \in Stamps /\ newest' \in Nat /\ newest <= newest' /\ b.stamp <= newest' /\ newest' \in {newest, b.stamp}
  <2>1. {newest, b.stamp} \subseteq Stamps
    BY <1>1, <1>2
  <2> QED
    BY <1>0, <2>1, LargestIs
<1>4. \A e \in Events : gold'[e] = IF e \in b.rows THEN new ELSE gold[e]
  BY <1>0
<1>5. \A e \in Events : gold[e].stamp \in Nat /\ gold[e].stamp <= newest /\ served[e] \in Nat
  BY <1>1, RowsRead DEF StampInv
<1>6. late' \subseteq Events /\ \A e \in Events \ late' : IF e \in b.rows THEN b.stamp > newest ELSE e \notin late
  <2>1. CASE b.stamp < newest
    BY <1>0, <1>1, <1>2, <2>1
  <2>2. CASE ~(b.stamp < newest)
    <3>1. b.stamp > newest /\ late' = late \ b.rows
      BY <1>0, <1>1, <1>2, <2>2
    <3> QED
      BY <1>1, <3>1
  <2> QED
    BY <2>1, <2>2
<1>7. StoreShape'
  <2>1. gold' \in [Events -> Row]
    BY <1>0, <1>1, <1>2
  <2>2. writer' \in [Writers -> [stamp : Stamps, rows : SUBSET Events, date : Dates \cup {0}]]
    BY <1>0, <1>1
  <2>3. ASSUME NEW e \in Events, gold'[e].stamp > 0 PROVE gold'[e].date \in Dates
    <3>1. CASE e \in b.rows
      <4>1. gold'[e] = new
        BY <1>4, <3>1
      <4> QED
        BY <1>2, <4>1
    <3>2. CASE e \notin b.rows
      BY <1>4, <2>3, <3>2 DEF StoreShape
    <3> QED
      BY <3>1, <3>2
  <2>4. \A v \in Writers : writer'[v].stamp > 0 => writer'[v].date \in Dates
    BY <1>0, <1>1 DEF StoreShape
  <2> QED
    BY <1>0, <1>1, <1>3, <1>6, <2>1, <2>2, <2>3, <2>4 DEF StoreShape
<1>8. StampInv'
  <2>1. Writing' = Writing \ {w}
    BY <1>0, <1>1 DEF Writing
  <2>2. IsFiniteSet(Writing)
    BY FS_Subset DEF Writing
  <2>3. Cardinality(Writing') = Cardinality(Writing) - 1 /\ Cardinality(Writing) \in Nat
    BY <1>2, <2>1, <2>2, FS_RemoveElement, FS_CardinalityType
  <2>4. snapshot' + Cardinality(Writing') <= clock'
    BY <1>0, <1>1, <2>3 DEF StampInv
  <2>5. newest' <= clock'
    BY <1>0, <1>1, <1>2, <1>3 DEF StampInv
  <2>6. \A v \in Writing' : v # w /\ v \in Writing /\ writer'[v] = writer[v]
    BY <1>0, <1>1, <2>1 DEF Writing
  <2>7. \A v \in Writing' : writer'[v].stamp <= clock' /\ writer'[v].stamp # newest'
    BY <1>0, <1>2, <1>3, <2>6 DEF StampInv
  <2>8. \A u, v \in Writing' : u # v => writer'[u].stamp # writer'[v].stamp
    BY <2>6 DEF StampInv
  <2>9. ASSUME NEW e \in Events PROVE gold'[e].stamp <= newest'
    <3>1. gold'[e].stamp = (IF e \in b.rows THEN b.stamp ELSE gold[e].stamp)
      BY <1>2, <1>4
    <3> HIDE DEF b
    <3> QED
      BY <1>1, <1>2, <1>3, <1>5, <3>1
  <2> QED
    BY <2>4, <2>5, <2>7, <2>8, <2>9 DEF StampInv
<1>9. CoverInv'
  <2>1. ASSUME NEW c \in Nat, Covered(c) PROVE Covered(c)'
    <3>1. c <= newest'
      BY <1>1, <1>3, <2>1 DEF Covered
    <3>2. ASSUME NEW e \in Events \ late', gold'[e].stamp <= c PROVE gold'[e].stamp <= served'[e]
      <4>1. e \notin b.rows
        <5>1. e \in b.rows => gold'[e].stamp = b.stamp /\ b.stamp > newest
          BY <1>2, <1>4, <1>6, <3>2
        <5>2. c <= newest /\ newest \in Nat /\ b.stamp \in Nat
          BY <1>1, <1>2, <2>1 DEF Covered
        <5> HIDE DEF b
        <5> QED
          BY <2>1, <3>2, <5>1, <5>2
      <4> QED
        BY <1>0, <1>4, <1>6, <2>1, <3>2, <4>1 DEF Covered
    <3> QED
      BY <3>1, <3>2 DEF Covered
  <2>2. checkpoint' # Nil => Covered(checkpoint)'
    BY <1>0, <1>1, <2>1 DEF CoverInv
  <2>3. \A r \in Refreshers : Covered(refresh[r].since)'
    BY <1>0, <1>1, <2>1 DEF CoverInv, RefreshType
  <2>4. ASSUME NEW e \in Events
        PROVE  live'[e].stamp <= served'[e] /\ served'[e] <= newest' /\ (e \notin late' => served'[e] <= gold'[e].stamp)
    <3>1. served[e] <= newest
      BY DEF CoverInv
    <3>2. gold'[e].stamp = (IF e \in b.rows THEN b.stamp ELSE gold[e].stamp)
      BY <1>2, <1>4
    <3>3. served' = served /\ live' = live /\ (e \notin late /\ e \notin b.rows => served[e] <= gold[e].stamp)
          /\ live[e].stamp <= served[e] /\ b.stamp \in Nat /\ newest \in Nat /\ served[e] \in Nat
      BY <1>0, <1>1, <1>2, <1>5 DEF CoverInv
    <3>4. e \in b.rows => e \in late' \/ (b.stamp > newest /\ served[e] <= newest)
      <4>1. CASE b.stamp < newest
        BY <1>0, <4>1
      <4>2. CASE ~(b.stamp < newest)
        BY <1>1, <1>2, <3>1, <4>2
      <4> QED
        BY <4>1, <4>2
    <3>5. gold[e].stamp \in Nat /\ newest' \in Nat /\ newest <= newest' /\ (e \notin late' /\ e \notin b.rows => e \notin late)
      BY <1>3, <1>5, <1>6
    <3> HIDE DEF b
    <3> QED
      BY <3>1, <3>2, <3>3, <3>4, <3>5
  <2> QED
    BY <1>0, <2>2, <2>3, <2>4 DEF CoverInv
<1>10. RefreshInv'
  <2> SUFFICES ASSUME NEW r \in Refreshers PROVE ReadInv(refresh[r])'
    BY <1>0 DEF RefreshInv
  <2> DEFINE q == refresh[r]
  <2>0. q \in RefreshType /\ q.since \in Nat /\ q.rows \in [Events -> Row] /\ ReadInv(q)
    BY <1>1 DEF RefreshInv, RefreshType
  <2>1. \A e \in Events : q.rows[e].stamp \in Nat
    BY <2>0, RowsRead
  <2>2. q.since <= newest
    BY <1>1 DEF CoverInv, Covered
  <2>3. q.pc = "write" => \A e \in Events : q.rows[e].stamp <= newest' /\ (q.rows[e].stamp > 0 => q.rows[e].date \in Dates)
    BY <1>1, <1>3, <2>0, <2>1 DEF ReadInv
  <2>4. ASSUME q.pc = "write", NEW e \in Events \ late', gold'[e].stamp # q.rows[e].stamp
        PROVE  gold'[e].stamp > q.since /\ \A d \in Events : gold'[e].stamp > q.rows[d].stamp
    <3>1. CASE e \in b.rows
      BY <1>1, <1>2, <1>4, <1>6, <2>0, <2>1, <2>2, <2>4, <3>1 DEF ReadInv
    <3>2. CASE e \notin b.rows
      BY <1>4, <1>6, <2>0, <2>4, <3>2 DEF ReadInv
    <3> QED
      BY <3>1, <3>2
  <2> QED
    BY <1>0, <2>0, <2>3, <2>4 DEF ReadInv
<1>11. CustomerInv'
  BY <1>0, CustomersAreLeft DEF CustomerInv, CustomerShape
<1> QED
  BY <1>7, <1>8, <1>9, <1>10, <1>11

-----------------------------------------------------------------------------
(* Projection runs.                                                        *)

\* A run moves to another point of its own: what the others know is not touched.
LEMMA RunMoves ==
    ASSUME StoreInv, NEW r \in Refreshers, NEW q \in RefreshType, refresh' = [refresh EXCEPT ![r] = q],
           gold' = gold, snapshot' = snapshot, clock' = clock, newest' = newest, writer' = writer, live' = live, served' = served,
           checkpoint' = checkpoint, late' = late, refreshes' \in Nat, Covered(q.since), ReadInv(q)
    PROVE  StoreInv'
<1> USE DEF StoreInv
<1>0. refresh \in [Refreshers -> RefreshType] /\ \A s \in Refreshers : refresh'[s] = IF s = r THEN q ELSE refresh[s]
  BY DEF StoreShape
<1>1. StoreShape'
  BY DEF StoreShape
<1>2. StampInv'
  <2>1. Writing' = Writing
    BY DEF Writing
  <2> QED
    BY <2>1 DEF StampInv
<1>3. CoverInv'
  BY <1>0 DEF CoverInv, Covered
<1>4. RefreshInv'
  <2> SUFFICES ASSUME NEW s \in Refreshers PROVE ReadInv(refresh[s])'
    BY DEF RefreshInv
  <2>1. CASE s = r
    BY <1>0, <2>1 DEF ReadInv
  <2>2. CASE s # r
    BY <1>0, <2>2 DEF ReadInv, RefreshInv
  <2> QED
    BY <2>1, <2>2
<1> QED
  BY <1>1, <1>2, <1>3, <1>4

LEMMA StartRunKeeps ==
    ASSUME ServingInv, NEW r \in Refreshers, NEW type \in {"FULL", "INCREMENTAL"}, StartRun(r, type)
    PROVE  ServingInv'
<1> DEFINE start == IF type = "FULL" THEN 0 ELSE checkpoint
           q == [refresh[r] EXCEPT !.type = type, !.pc = "read", !.since = start]
<1>0. /\ refresh[r] \in RefreshType /\ checkpoint \in Stamps \cup {Nil} /\ (checkpoint # Nil => Covered(checkpoint))
      /\ refreshes \in Nat /\ Covered(refresh[r].since) /\ ReadInv(refresh[r]) /\ refresh \in [Refreshers -> RefreshType]
  BY DEF ServingInv, StoreInv, StoreShape, CoverInv, RefreshInv
<1>1. refresh' = [refresh EXCEPT ![r] = q] /\ refreshes' \in Nat
  <2>1. /\ refresh' = [refresh EXCEPT ![r].type = type, ![r].pc = "read", ![r].since = start]
        /\ refreshes' = refreshes + 1
    BY DEF StartRun
  <2>2. refreshes' \in Nat
    BY <1>0, <2>1
  <2>3. refresh' = [refresh EXCEPT ![r] = q]
    <3> HIDE DEF start
    <3> QED
      BY <1>0, <2>1 DEF RefreshType
  <2> QED
    BY <2>2, <2>3
<1>2. checkpoint \in Stamps \/ type = "FULL"
  BY <1>0 DEF StartRun
<1>3. q \in RefreshType /\ q.since \in Stamps /\ q.pc = "read" /\ q.type = type
  BY <1>0, <1>2, ServingFacts DEF RefreshType
<1>4. Covered(q.since)
  <2>1. CASE type = "FULL"
    <3>1. q.since = 0
      BY <1>0, <2>1 DEF RefreshType
    <3>2. newest \in Nat /\ served \in [Events -> Stamps] /\ gold \in [Events -> Row]
      BY ServingFacts DEF ServingInv, StoreInv, StoreShape
    <3>3. \A e \in Events : served[e] \in Nat /\ gold[e].stamp \in Nat
      BY <3>2, RowsRead, ServingFacts
    <3> HIDE DEF q
    <3> QED
      BY <3>1, <3>2, <3>3 DEF Covered
  <2>2. CASE type # "FULL"
    <3>1. q.since = checkpoint
      BY <1>0, <2>2 DEF RefreshType
    <3> QED
      BY <1>0, <1>2, <2>2, <3>1, ServingFacts
  <2> QED
    BY <2>1, <2>2
<1>5. ReadInv(q)
  BY <1>0, <1>3 DEF ReadInv, RefreshType
<1>6. /\ gold' = gold /\ snapshot' = snapshot /\ clock' = clock /\ newest' = newest /\ writer' = writer /\ live' = live
      /\ served' = served /\ checkpoint' = checkpoint /\ late' = late /\ version' = version /\ client' = client
  BY DEF StartRun
<1>7. StoreInv'
  <2> HIDE DEF q
  <2> QED
    BY <1>1, <1>3, <1>4, <1>5, <1>6, RunMoves DEF ServingInv
<1>8. CustomerInv'
  BY <1>6, CustomersAreLeft DEF ServingInv, CustomerInv, CustomerShape
<1> QED
  BY <1>7, <1>8 DEF ServingInv

LEMMA ReadGoldKeeps ==
    ASSUME ServingInv, NEW r \in Refreshers, ReadGold(r)
    PROVE  ServingInv'
<1> DEFINE q == [refresh[r] EXCEPT !.pc = "write", !.rows = gold, !.snapshot = snapshot,
                                   !.read = {e \in Events : gold[e].stamp > refresh[r].since}, !.behind = late]
<1>0. /\ refresh[r] \in RefreshType /\ refresh \in [Refreshers -> RefreshType] /\ refreshes \in Nat
      /\ Covered(refresh[r].since) /\ ReadInv(refresh[r])
      /\ gold \in [Events -> Row] /\ late \subseteq Events /\ snapshot \in Nat /\ clock \in Stamps
  BY DEF ServingInv, StoreInv, StoreShape, CoverInv, RefreshInv
<1>1. refresh' = [refresh EXCEPT ![r] = q]
  BY <1>0 DEF ReadGold
<1>2. snapshot \in Stamps
  <2>1. IsFiniteSet(Writing)
    BY ServingFacts, FS_Subset DEF Writing
  <2>2. Cardinality(Writing) \in Nat /\ snapshot + Cardinality(Writing) <= clock
    BY <2>1, FS_CardinalityType DEF ServingInv, StoreInv, StampInv
  <2> QED
    BY <1>0, <2>2, ServingFacts DEF Stamps
<1>3. /\ q \in RefreshType /\ q.since = refresh[r].since /\ q.pc = "write" /\ q.type = refresh[r].type /\ q.rows = gold
      /\ q.read = {e \in Events : gold[e].stamp > refresh[r].since} /\ q.behind = late
  BY <1>0, <1>2 DEF RefreshType
<1>4. ReadInv(q)
  <2>1. \A e \in Events : gold[e].stamp <= newest /\ (gold[e].stamp > 0 => gold[e].date \in Dates)
    BY DEF ServingInv, StoreInv, StoreShape, StampInv
  <2>2. \A e \in Events \ late : live[e].stamp <= gold[e].stamp
    <3> SUFFICES ASSUME NEW e \in Events \ late PROVE live[e].stamp <= gold[e].stamp
      OBVIOUS
    <3>1. live[e].stamp \in Nat /\ gold[e].stamp \in Nat /\ served[e] \in Nat
      BY RowsRead, ServingFacts DEF ServingInv, StoreInv, StoreShape
    <3> QED
      BY <3>1 DEF ServingInv, StoreInv, CoverInv
  <2> HIDE DEF q
  <2> QED
    BY <1>0, <1>3, <2>1, <2>2 DEF ReadInv
<1>5. /\ gold' = gold /\ snapshot' = snapshot /\ clock' = clock /\ newest' = newest /\ writer' = writer /\ live' = live
      /\ served' = served /\ checkpoint' = checkpoint /\ late' = late /\ refreshes' = refreshes
      /\ version' = version /\ client' = client
  BY DEF ReadGold
<1>6. StoreInv'
  <2> HIDE DEF q
  <2> QED
    BY <1>0, <1>1, <1>3, <1>4, <1>5, RunMoves DEF ServingInv
<1>7. CustomerInv'
  BY <1>5, CustomersAreLeft DEF ServingInv, CustomerInv, CustomerShape
<1> QED
  BY <1>6, <1>7 DEF ServingInv

\* A run that has ended remembers nothing.
Ended(q) == [q EXCEPT !.type = Nil, !.pc = "idle", !.since = 0, !.read = {}, !.rows = [e \in Events |-> Absent],
                      !.snapshot = 0, !.behind = {}, !.overtaken = FALSE]
LEMMA EndedIs ==
    ASSUME StoreInv, NEW r \in Refreshers
    PROVE  /\ Idle(r) = [refresh EXCEPT ![r] = Ended(refresh[r])]
           /\ Ended(refresh[r]) \in RefreshType /\ ReadInv(Ended(refresh[r])) /\ Covered(0)
           /\ Ended(refresh[r]).since = 0 /\ Ended(refresh[r]).pc = "idle"
<1>0. refresh \in [Refreshers -> RefreshType] /\ refresh[r] \in RefreshType
  BY DEF StoreInv, StoreShape
<1>1. Idle(r) = [refresh EXCEPT ![r] = Ended(refresh[r])]
  BY <1>0 DEF Idle, Ended
<1>2. /\ Ended(refresh[r]) \in RefreshType /\ Ended(refresh[r]).since = 0 /\ Ended(refresh[r]).pc = "idle"
      /\ Ended(refresh[r]).read = {}
  BY <1>0, ServingFacts DEF Ended, RefreshType
<1>3. ReadInv(Ended(refresh[r]))
  BY <1>2 DEF ReadInv
<1>4. Covered(0)
  <2>1. newest \in Nat /\ served \in [Events -> Stamps] /\ gold \in [Events -> Row]
    BY ServingFacts DEF StoreInv, StoreShape
  <2>2. \A e \in Events : served[e] \in Nat /\ gold[e].stamp \in Nat
    BY <2>1, RowsRead, ServingFacts
  <2> QED
    BY <2>1, <2>2 DEF Covered
<1> QED
  BY <1>1, <1>2, <1>3, <1>4

LEMMA FailRunKeeps ==
    ASSUME ServingInv, NEW r \in Refreshers, FailRun(r)
    PROVE  ServingInv'
<1>1. /\ gold' = gold /\ snapshot' = snapshot /\ clock' = clock /\ newest' = newest /\ writer' = writer /\ live' = live
      /\ served' = served /\ checkpoint' = checkpoint /\ late' = late /\ refreshes' = refreshes
      /\ version' = version /\ client' = client /\ refresh' = Idle(r) /\ refreshes \in Nat
  BY DEF FailRun, ServingInv, StoreInv, StoreShape
<1>2. StoreInv'
  BY <1>1, EndedIs, RunMoves DEF ServingInv
<1>3. CustomerInv'
  BY <1>1, CustomersAreLeft DEF ServingInv, CustomerInv, CustomerShape
<1> QED
  BY <1>2, <1>3 DEF ServingInv

\* What a refresh puts in the place of a row.
LEMMA ReplacedIs ==
    ASSUME StoreInv, NEW r \in Refreshers, refresh[r].pc = "write"
    PROVE  /\ Replaced(r) \in [Events -> Row]
           /\ \A e \in Events :
                /\ refresh[r].rows[e].stamp \in Nat /\ refresh[r].since \in Nat
                /\ Replaced(r)[e].stamp > 0 => Replaced(r)[e].date \in Dates
                /\ Replaced(r)[e].stamp = IF e \in refresh[r].read \/ refresh[r].type = "FULL"
                                          THEN refresh[r].rows[e].stamp ELSE live[e].stamp
<1> DEFINE q == refresh[r]
<1>0. /\ q \in RefreshType /\ live \in [Events -> Row] /\ q.rows \in [Events -> Row] /\ q.snapshot \in Stamps
      /\ q.since \in Nat /\ ReadInv(q)
  BY ServingFacts DEF StoreInv, StoreShape, RefreshType, RefreshInv
<1>1. \A e \in Events : /\ q.rows[e].stamp \in Nat /\ ServingRow(r, e) \in Row
                        /\ ServingRow(r, e).stamp = q.rows[e].stamp /\ ServingRow(r, e).date = q.rows[e].date
  BY <1>0, RowsRead DEF ServingRow, Row, Stamps
<1>2. \A e \in Events : Replaced(r)[e] = IF e \in q.read THEN ServingRow(r, e) ELSE IF q.type = "FULL" THEN Absent ELSE live[e]
  BY DEF Replaced
<1>3. Replaced(r) \in [Events -> Row]
  BY <1>0, <1>1, ServingFacts DEF Replaced
<1>4. ASSUME NEW e \in Events
      PROVE  /\ Replaced(r)[e].stamp > 0 => Replaced(r)[e].date \in Dates
             /\ Replaced(r)[e].stamp = IF e \in q.read \/ q.type = "FULL" THEN q.rows[e].stamp ELSE live[e].stamp
  <2>1. CASE e \in q.read
    BY <1>0, <1>1, <1>2, <2>1 DEF ReadInv
  <2>2. CASE e \notin q.read /\ q.type = "FULL"
    <3>1. Replaced(r)[e] = Absent /\ q.since = 0 /\ ~(q.rows[e].stamp > 0)
      BY <1>0, <1>2, <2>2 DEF ReadInv
    <3> QED
      BY <1>1, <2>2, <3>1, ServingFacts
  <2>3. CASE e \notin q.read /\ q.type # "FULL"
    <3>1. Replaced(r)[e] = live[e]
      BY <1>2, <2>3
    <3> QED
      BY <2>3, <3>1 DEF StoreInv, StoreShape
  <2> QED
    BY <2>1, <2>2, <2>3
<1> QED
  BY <1>0, <1>1, <1>3, <1>4

\* A checkpoint is not before where the run started or the rows it read, and not after the newest of Gold.
LEMMA MaxIs ==
    ASSUME StoreInv, NEW r \in Refreshers, refresh[r].pc = "write"
    PROVE  /\ MaxUpdatedAt(r) \in Stamps /\ MaxUpdatedAt(r) <= newest
           /\ MaxUpdatedAt(r) = refresh[r].since \/ \E e \in Events : MaxUpdatedAt(r) = refresh[r].rows[e].stamp
<1> DEFINE q == refresh[r]
           S == {q.rows[e].stamp : e \in q.read} \cup {q.since}
<1>0. /\ q \in RefreshType /\ q.rows \in [Events -> Row] /\ q.since \in Stamps /\ q.read \subseteq Events
      /\ ReadInv(q) /\ Covered(q.since)
  BY DEF StoreInv, StoreShape, RefreshType, RefreshInv, CoverInv
<1>1. S \subseteq Stamps /\ S # {}
  BY <1>0, RowsRead
<1>2. MaxUpdatedAt(r) \in S
  <2>1. Largest(S) \in S
    <3> HIDE DEF S
    <3> QED
      BY <1>1, LargestIs
  <2> QED
    BY <2>1 DEF MaxUpdatedAt
<1>3. \A x \in S : x <= newest
  BY <1>0 DEF ReadInv, Covered
<1> QED
  BY <1>0, <1>1, <1>2, <1>3

LEMMA PublishKeepsStore ==
    ASSUME ServingInv, NEW r \in Refreshers, Publish(r)
    PROVE  StoreInv'
<1> DEFINE q == refresh[r]
<1>0. /\ q.pc = "write" /\ live' = Replaced(r) /\ checkpoint' = MaxUpdatedAt(r)
      /\ served' = [e \in Events |-> Largest({served[e], live'[e].stamp})]
      /\ refresh' = [s \in Refreshers |-> IF s # r /\ refresh[s].pc = "write"
                                          THEN [refresh[s] EXCEPT !.overtaken = TRUE] ELSE Idle(r)[s]]
      /\ gold' = gold /\ snapshot' = snapshot /\ clock' = clock /\ newest' = newest /\ writer' = writer
      /\ refreshes' = refreshes /\ late' = late
  BY DEF Publish
<1>1. /\ StoreInv /\ refresh \in [Refreshers -> RefreshType] /\ q \in RefreshType /\ q.read \subseteq Events
      /\ gold \in [Events -> Row] /\ live \in [Events -> Row] /\ served \in [Events -> Stamps] /\ newest \in Nat
      /\ ReadInv(q) /\ Covered(q.since)
  BY ServingFacts DEF ServingInv, StoreInv, StoreShape, RefreshInv, CoverInv, RefreshType
<1>2. /\ live' \in [Events -> Row]
      /\ \A e \in Events :
           /\ q.rows[e].stamp \in Nat /\ q.since \in Nat /\ (live'[e].stamp > 0 => live'[e].date \in Dates)
           /\ live'[e].stamp = IF e \in q.read \/ q.type = "FULL" THEN q.rows[e].stamp ELSE live[e].stamp
  BY <1>0, <1>1, ReplacedIs
<1>3. \A e \in Events : /\ live'[e].stamp \in Stamps /\ served[e] \in Stamps /\ gold[e].stamp \in Nat /\ live[e].stamp \in Nat
                        /\ live'[e].stamp \in Nat /\ served[e] \in Nat
  BY <1>1, <1>2, RowsRead, ServingFacts
<1>4. \A e \in Events : /\ served'[e] \in {served[e], live'[e].stamp} /\ served'[e] \in Stamps /\ served'[e] \in Nat
                        /\ served[e] <= served'[e] /\ live'[e].stamp <= served'[e]
  <2> SUFFICES ASSUME NEW e \in Events
               PROVE  /\ served'[e] \in {served[e], live'[e].stamp} /\ served'[e] \in Stamps /\ served'[e] \in Nat
                      /\ served[e] <= served'[e] /\ live'[e].stamp <= served'[e]
    OBVIOUS
  <2>1. {served[e], live'[e].stamp} \subseteq Stamps
    BY <1>3
  <2>2. served'[e] = Largest({served[e], live'[e].stamp})
    BY <1>0
  <2> QED
    BY <2>1, <2>2, LargestIs, ServingFacts
<1>5. /\ checkpoint' \in Stamps /\ checkpoint' \in Nat /\ checkpoint' <= newest
      /\ checkpoint' = q.since \/ \E d \in Events : checkpoint' = q.rows[d].stamp
  BY <1>0, <1>1, MaxIs, ServingFacts
\* An event of Gold that was not written after the read is the row that was read.
<1>6. \A e \in Events \ late : gold[e].stamp = q.rows[e].stamp \/ (gold[e].stamp > checkpoint' /\ gold[e].stamp > q.rows[e].stamp)
  BY <1>0, <1>1, <1>5 DEF ReadInv
<1>7. refresh' \in [Refreshers -> RefreshType]
      /\ \A s \in Refreshers : \/ s = r /\ refresh'[s] = Ended(refresh[s])
                               \/ s # r /\ refresh[s].pc = "write" /\ refresh'[s] = [refresh[s] EXCEPT !.overtaken = TRUE]
                               \/ s # r /\ refresh[s].pc # "write" /\ refresh'[s] = refresh[s]
  <2>1. Idle(r) = [refresh EXCEPT ![r] = Ended(refresh[r])] /\ Ended(refresh[r]) \in RefreshType
    BY <1>1, EndedIs
  <2>2. \A s \in Refreshers : refresh[s] \in RefreshType /\ [refresh[s] EXCEPT !.overtaken = TRUE] \in RefreshType
    BY <1>1 DEF RefreshType
  <2>3. \A s \in Refreshers : Idle(r)[s] = IF s = r THEN Ended(refresh[s]) ELSE refresh[s]
    BY <1>1, <2>1
  <2> HIDE DEF q
  <2> QED
    BY <1>0, <2>1, <2>2, <2>3
<1>8. StoreShape'
  <2>1. served' \in [Events -> Stamps]
    BY <1>0, <1>4
  <2> QED
    BY <1>0, <1>1, <1>2, <1>5, <1>7, <2>1 DEF StoreInv, StoreShape
<1>9. StampInv'
  <2>1. Writing' = Writing
    BY <1>0 DEF Writing
  <2> QED
    BY <1>0, <1>1, <2>1 DEF StoreInv, StampInv
<1>10. CoverInv'
  <2>1. ASSUME NEW c, Covered(c) PROVE Covered(c)'
    <3>1. \A e \in Events \ late : gold[e].stamp <= c => gold[e].stamp <= served'[e]
      BY <1>3, <1>4, <2>1 DEF Covered
    <3> QED
      BY <1>0, <2>1, <3>1 DEF Covered
  <2>2. Covered(checkpoint)'
    <3> SUFFICES ASSUME NEW e \in Events \ late, gold[e].stamp <= checkpoint' PROVE gold[e].stamp <= served'[e]
      BY <1>0, <1>5 DEF Covered
    <3>1. gold[e].stamp = q.rows[e].stamp
      BY <1>3, <1>5, <1>6
    <3>2. CASE e \in q.read
      BY <1>2, <1>4, <3>1, <3>2
    <3>3. CASE e \notin q.read
      <4>1. gold[e].stamp <= q.since
        BY <1>0, <1>1, <1>2, <3>1, <3>3 DEF ReadInv
      <4> QED
        BY <1>1, <1>3, <1>4, <4>1 DEF Covered
    <3> QED
      BY <3>2, <3>3
  <2>3. ASSUME NEW s \in Refreshers PROVE Covered(refresh[s].since)'
    <3>1. Covered(refresh[s].since) /\ Covered(0) /\ refresh[s] \in RefreshType /\ Ended(refresh[s]).since = 0
      BY <1>1, EndedIs DEF StoreInv, CoverInv
    <3>2. refresh'[s].since \in {refresh[s].since, 0}
      BY <1>7, <3>1 DEF RefreshType
    <3>3. Covered(refresh'[s].since)
      BY <3>1, <3>2
    <3>4. \A e \in Events \ late : gold[e].stamp <= refresh'[s].since => gold[e].stamp <= served'[e]
      BY <1>3, <1>4, <3>3 DEF Covered
    <3>5. refresh'[s].since <= newest
      BY <3>3 DEF Covered
    <3> QED
      BY <1>0, <3>4, <3>5 DEF Covered
  <2>4. ASSUME NEW e \in Events
        PROVE  live'[e].stamp <= served'[e] /\ served'[e] <= newest' /\ (e \notin late' => served'[e] <= gold'[e].stamp)
    <3>1. served[e] <= newest /\ q.rows[e].stamp <= newest /\ live[e].stamp <= served[e]
          /\ (e \notin late => served[e] <= gold[e].stamp)
      BY <1>0, <1>1 DEF StoreInv, CoverInv, ReadInv
    <3>2. e \notin late => q.rows[e].stamp <= gold[e].stamp
      BY <1>2, <1>3, <1>6
    <3>3. live'[e].stamp \in {q.rows[e].stamp, live[e].stamp}
      BY <1>2
    <3> QED
      BY <1>0, <1>1, <1>2, <1>3, <1>4, <3>1, <3>2, <3>3
  <2> QED
    BY <2>2, <2>3, <2>4 DEF CoverInv
<1>11. RefreshInv'
  <2> SUFFICES ASSUME NEW s \in Refreshers PROVE ReadInv(refresh[s])'
    BY DEF RefreshInv
  <2>0. ReadInv(refresh[s]) /\ refresh[s] \in RefreshType
    BY <1>1 DEF StoreInv, RefreshInv
  <2>1. CASE refresh'[s] = Ended(refresh[s])
    <3>1. refresh'[s].read = {} /\ refresh'[s].pc = "idle" /\ refresh'[s].since = 0
      BY <2>0, <2>1 DEF Ended, RefreshType
    <3> QED
      BY <3>1 DEF ReadInv
  <2>2. CASE refresh[s].pc = "write" /\ refresh'[s] = [refresh[s] EXCEPT !.overtaken = TRUE]
    <3>1. /\ refresh'[s].read = refresh[s].read /\ refresh'[s].pc = "write" /\ refresh'[s].since = refresh[s].since
          /\ refresh'[s].rows = refresh[s].rows /\ refresh'[s].type = refresh[s].type /\ refresh'[s].overtaken
      BY <2>0, <2>2 DEF RefreshType
    <3> QED
      BY <1>0, <2>0, <2>2, <3>1 DEF ReadInv
  <2>3. CASE refresh[s].pc # "write" /\ refresh'[s] = refresh[s]
    BY <2>0, <2>3 DEF ReadInv
  <2> QED
    BY <1>7, <2>1, <2>2, <2>3
<1> QED
  BY <1>8, <1>9, <1>10, <1>11 DEF StoreInv

\* The events a scan still watches have kept their place.
LEMMA PublishKeepsScans ==
    ASSUME ServingInv, NEW r \in Refreshers, Publish(r)
    PROVE  CustomerInv'
<1>0. /\ client' = [c \in Clients |-> [client[c] EXCEPT !.scan.stable = {e \in @ : ~Moved(e, live')}]]
      /\ version' = version /\ client \in [Clients -> ClientType]
  BY DEF Publish, Watch, ServingInv, CustomerInv, CustomerShape
<1>1. ASSUME NEW c \in Clients
      PROVE  /\ client'[c] \in ClientType /\ client'[c].done = client[c].done /\ client'[c].request = client[c].request
             /\ client'[c].scan.cursor = client[c].scan.cursor /\ client'[c].scan.bound = client[c].scan.bound
             /\ client'[c].scan.got = client[c].scan.got /\ client'[c].scan.repeated = client[c].scan.repeated
             /\ client'[c].scan.versions = client[c].scan.versions
             /\ client'[c].scan.stable = {e \in client[c].scan.stable : ~Moved(e, live')}
  BY <1>0, <1>1 DEF ClientType
<1>2. CustomerShape'
  BY <1>0, <1>1 DEF ServingInv, CustomerInv, CustomerShape
<1>3. ASSUME NEW c \in Clients PROVE ScanOK(c)'
  <2>0. ScanOK(c) /\ client[c].scan.stable \subseteq Events
    BY <1>0 DEF ServingInv, CustomerInv, ScanInv, ClientType
  <2>1. ASSUME NEW e \in client'[c].scan.stable, client[c].scan.cursor # Nil
        PROVE  e \in Present' /\ (After(e, client[c].scan.cursor)' <=> After(e, client[c].scan.cursor))
    <3>1. e \in client[c].scan.stable /\ live'[e].date = live[e].date /\ (live'[e].stamp = 0 <=> live[e].stamp = 0)
      BY <1>1, <2>1 DEF Moved
    <3>2. e \in Present
      BY <2>0, <2>1, <3>1 DEF ScanOK
    <3>3. live' \in [Events -> Row] /\ e \in Events
      BY <2>0, <3>1, PublishKeepsStore DEF StoreInv, StoreShape
    <3>4. live'[e].stamp \in Nat /\ live'[e].stamp # 0
      <4>1. \A f \in [Events -> Row] : f[e].stamp \in Nat
        BY <3>3, RowsRead
      <4>2. live[e].stamp # 0
        BY <3>2 DEF Present
      <4> QED
        BY <3>1, <3>3, <4>1, <4>2
    <3> QED
      BY <1>1, <3>1, <3>3, <3>4 DEF Present, After
  <2>2. client'[c].scan.cursor # Nil => \A e \in client'[c].scan.stable :
          /\ e \in Present' /\ e \notin client'[c].scan.repeated
          /\ e \in client'[c].scan.got <=> ~After(e, client[c].scan.cursor)'
    BY <1>1, <2>0, <2>1 DEF ScanOK
  <2> QED
    BY <1>1, <2>0, <2>2 DEF ScanOK, After
<1> QED
  BY <1>2, <1>3 DEF CustomerInv, ScanInv

-----------------------------------------------------------------------------
(* The customer API.                                                       *)

LEMMA BeforeOrders ==
    ASSUME live \in [Events -> Row], NEW d \in Events, NEW e \in Events
    PROVE  /\ d # e => Before(d, e) \/ Before(e, d)
           /\ ~(Before(d, e) /\ Before(e, d)) /\ ~Before(d, d)
           /\ \A f \in Events : Before(d, e) /\ Before(e, f) => Before(d, f)
<1>1. d \in Nat /\ e \in Nat /\ \A f \in Events : f \in Nat /\ live[f].date \in Nat
  BY ServingFacts, RowsRead
<1> QED
  BY <1>1 DEF Before

\* A page holds the first of what matches, and all of it when that is no more than a page.
LEMMA PageIs ==
    ASSUME live \in [Events -> Row], NEW cursor
    PROVE  /\ Page(cursor) \subseteq Matching(cursor) /\ Matching(cursor) \subseteq Present /\ Present \subseteq Events
           /\ Cardinality(Matching(cursor)) <= PageSize => Page(cursor) = Matching(cursor)
           /\ \A e \in Matching(cursor), l \in Page(cursor) : Before(e, l) => e \in Page(cursor)
<1> DEFINE M == Matching(cursor)
           Ahead(e) == {d \in M : Before(d, e)}
<1>0. Page(cursor) \subseteq M /\ M \subseteq Present /\ Present \subseteq Events
  BY DEF Page, Matching, Present
<1>1. IsFiniteSet(M) /\ Cardinality(M) \in Nat
  BY <1>0, ServingFacts, FS_Subset, FS_CardinalityType
<1>2. ASSUME NEW e \in M PROVE /\ IsFiniteSet(Ahead(e)) /\ Cardinality(Ahead(e)) \in Nat /\ Cardinality(Ahead(e)) < Cardinality(M)
  <2>1. Ahead(e) \subseteq M /\ e \notin Ahead(e)
    BY <1>0, BeforeOrders
  <2>2. Ahead(e) # M
    BY <1>2, <2>1
  <2> HIDE DEF Ahead, M
  <2> QED
    BY <1>1, <2>1, <2>2, FS_Subset, FS_CardinalityType
<1>3. \A e \in M : e \in Page(cursor) <=> Cardinality(Ahead(e)) < PageSize
  BY DEF Page
<1>4. ASSUME Cardinality(M) <= PageSize PROVE Page(cursor) = M
  <2>1. \A e \in M : Cardinality(Ahead(e)) < PageSize
    <3> HIDE DEF Ahead, M
    <3> QED
      BY <1>1, <1>2, <1>4, ServingFacts
  <2> QED
    BY <1>0, <1>3, <2>1
<1>5. ASSUME NEW e \in M, NEW l \in Page(cursor), Before(e, l) PROVE e \in Page(cursor)
  <2>0. l \in M /\ l \in Events /\ e \in Events
    BY <1>0, <1>5
  <2>1. Ahead(e) \subseteq Ahead(l)
    BY <1>0, <1>5, <2>0, BeforeOrders
  <2>2. Cardinality(Ahead(e)) <= Cardinality(Ahead(l)) /\ Cardinality(Ahead(e)) \in Nat /\ Cardinality(Ahead(l)) \in Nat
    <3>1. IsFiniteSet(Ahead(l)) /\ Cardinality(Ahead(l)) \in Nat /\ Cardinality(Ahead(e)) \in Nat
      BY <1>2, <2>0
    <3> HIDE DEF Ahead
    <3> QED
      BY <2>1, <3>1, FS_Subset
  <2>3. Cardinality(Ahead(l)) < PageSize
    BY <1>3, <1>5, <2>0
  <2>4. Cardinality(Ahead(e)) < PageSize
    <3> HIDE DEF Ahead
    <3> QED
      BY <2>2, <2>3, ServingFacts
  <2> QED
    BY <1>3, <2>4
<1> QED
  BY <1>0, <1>4, <1>5

\* A request that does not change what a scan has got.
LEMMA RequestMoves ==
    ASSUME CustomerInv, NEW c \in Clients, NEW q \in ClientType, client' = [client EXCEPT ![c] = q],
           version' = version, live' = live, q.scan = client[c].scan \/ q.scan = NoScan, q.done = client[c].done,
           q.done => q.request.pc = "idle" /\ q.scan = client[c].scan
    PROVE  CustomerInv'
<1>0. client \in [Clients -> ClientType] /\ \A d \in Clients : client'[d] = IF d = c THEN q ELSE client[d]
  BY DEF CustomerInv, CustomerShape
<1>1. CustomerShape'
  BY <1>0 DEF CustomerInv, CustomerShape
<1>2. ASSUME NEW d \in Clients PROVE ScanOK(d)'
  <2>0. ScanOK(d)
    BY DEF CustomerInv, ScanInv
  <2>1. CASE d # c
    BY <1>0, <2>0, <2>1 DEF ScanOK, Present, After
  <2>2. CASE d = c /\ q.scan = client[c].scan
    BY <1>0, <2>0, <2>2 DEF ScanOK, Present, After
  <2>3. CASE d = c /\ q.scan = NoScan /\ ~q.done
    BY <1>0, <2>0, <2>3 DEF ScanOK, NoScan
  <2> QED
    BY <2>1, <2>2, <2>3
<1> QED
  BY <1>1, <1>2 DEF CustomerInv, ScanInv

LEMMA AskKeeps ==
    ASSUME CustomerInv, NEW c \in Clients, Ask(c) \/ ResolveVersion(c) \/ RejectQuery(c)
    PROVE  CustomerInv'
<1>0. client \in [Clients -> ClientType] /\ client[c] \in ClientType /\ version \in ProductVersions /\ ScanOK(c)
  BY DEF CustomerInv, CustomerShape, ScanInv
<1>1. version' = version /\ live' = live
  BY DEF Ask, ResolveVersion, RejectQuery, unchangedProjection
<1>2. CASE Ask(c)
  <2> DEFINE q == [client[c] EXCEPT !.request = [@ EXCEPT !.pc = "resolve"]]
  <2>1. client' = [client EXCEPT ![c] = q] /\ ~client[c].done
    BY <1>0, <1>2 DEF Ask, ClientType
  <2>2. q \in ClientType /\ q.scan = client[c].scan /\ q.done = client[c].done
    BY <1>0 DEF ClientType
  <2> HIDE DEF q
  <2> QED
    BY <1>1, <2>1, <2>2, RequestMoves
<1>3. CASE ResolveVersion(c)
  <2> DEFINE q == [client[c] EXCEPT !.request = [pc |-> "query", version |-> version]]
  <2>1. client' = [client EXCEPT ![c] = q] /\ client[c].request.pc = "resolve"
    BY <1>0, <1>3 DEF ResolveVersion
  <2>2. q \in ClientType /\ q.scan = client[c].scan /\ q.done = client[c].done
    BY <1>0 DEF ClientType
  <2>3. ~client[c].done
    BY <1>0, <2>1 DEF ScanOK
  <2> HIDE DEF q
  <2> QED
    BY <1>1, <2>1, <2>2, <2>3, RequestMoves
<1>4. CASE RejectQuery(c)
  <2> DEFINE q == [client[c] EXCEPT !.request = NoRequest, !.scan = NoScan]
  <2>1. client' = [client EXCEPT ![c] = q] /\ client[c].request.pc # "idle"
    BY <1>0, <1>4 DEF RejectQuery
  <2>2. q \in ClientType /\ q.scan = NoScan /\ q.done = client[c].done
    BY <1>0 DEF ClientType, NoRequest, NoScan
  <2>3. ~client[c].done
    BY <1>0, <2>1 DEF ScanOK
  <2> HIDE DEF q
  <2> QED
    BY <1>1, <2>1, <2>2, <2>3, RequestMoves
<1> QED
  BY <1>2, <1>3, <1>4

LEMMA QueryPageKeeps ==
    ASSUME CustomerInv, live \in [Events -> Row], \A e \in Events : live[e].stamp > 0 => live[e].date \in Dates,
           NEW c \in Clients, QueryPage(c)
    PROVE  CustomerInv'
<1> DEFINE scan == Fresh(c)
           page == Page(scan.cursor)
           next == IF page = {} THEN scan.cursor ELSE [date |-> live[Last(page)].date, event |-> Last(page)]
           new  == [cursor |-> next, bound |-> client[c].request.version, got |-> scan.got \cup page,
                    repeated |-> scan.repeated \cup (scan.got \cap page), stable |-> scan.stable,
                    versions |-> scan.versions \cup {client[c].request.version}]
           over == Cardinality(Matching(scan.cursor)) <= PageSize
<1>0. /\ client \in [Clients -> ClientType] /\ client[c] \in ClientType /\ version \in ProductVersions /\ ScanOK(c)
      /\ CursorMatches(c) /\ version' = version /\ live' = live
  BY DEF CustomerInv, CustomerShape, ScanInv, QueryPage, unchangedProjection
<1>1. client' = [client EXCEPT ![c].request = NoRequest, ![c].done = over, ![c].scan = new]
  BY DEF QueryPage
<1>2. /\ Present \subseteq Events /\ scan.cursor \in Cursors \cup {Nil} /\ scan.got \subseteq Events /\ scan.repeated \subseteq Events
      /\ scan.stable \subseteq Events /\ scan.versions \subseteq ProductVersions \cup {Nil}
      /\ scan.cursor = Nil => scan.got = {} /\ scan.repeated = {} /\ scan.stable = Present /\ scan.versions = {}
      /\ scan.cursor # Nil => scan = client[c].scan
  BY <1>0 DEF Fresh, NoScan, Present, ClientType
<1>3. /\ page \subseteq Matching(scan.cursor) /\ Matching(scan.cursor) \subseteq Present /\ (over => page = Matching(scan.cursor))
      /\ \A e \in Matching(scan.cursor), l \in page : Before(e, l) => e \in page
  BY PageIs
\* What a scan watches and has not got comes after its cursor.
<1>4. \A e \in scan.stable : /\ e \in Present /\ e \notin scan.repeated
                             /\ e \in scan.got <=> ~(scan.cursor = Nil \/ After(e, scan.cursor))
  BY <1>0, <1>2 DEF ScanOK
<1>5. \A e \in page : After(e, scan.cursor)
  BY <1>3 DEF Matching
<1>6. \A e \in scan.stable : e \notin new.repeated
  BY <1>4, <1>5 DEF After
<1>7. page # {} => Last(page) \in page /\ \A d \in page \ {Last(page)} : Before(d, Last(page))
  <2> HIDE DEF page
  <2> QED
    BY <1>2, <1>3, LastExists DEF Last
<1>8. next \in Cursors \cup {Nil}
  <2>1. CASE page = {}
    BY <1>2, <2>1
  <2>2. CASE page # {}
    <3>1. Last(page) \in Events /\ live[Last(page)].stamp > 0
      BY <1>2, <1>3, <1>7, <2>2 DEF Present
    <3> QED
      BY <2>2, <3>1 DEF Cursors
  <2> QED
    BY <2>1, <2>2
\* What the new cursor leaves behind is what the scan has got.
<1>9. ASSUME next # Nil, NEW e \in scan.stable PROVE e \in new.got <=> ~After(e, next)
  <2>1. CASE page = {}
    BY <1>4, <1>9, <2>1 DEF After
  <2>2. CASE page # {}
    <3> DEFINE l == Last(page)
    <3>0. l \in page /\ l \in Events /\ e \in Events /\ e \in Present /\ next = [date |-> live[l].date, event |-> l] /\ next # Nil
      BY <1>2, <1>3, <1>4, <1>7, <1>9, <2>2
    <3>1. After(e, next) <=> Before(l, e)
      BY <3>0 DEF After, Before
    <3>2. e \in page => ~Before(l, e)
      BY <1>2, <1>3, <1>7, <3>0, BeforeOrders
    <3>3. e \in scan.got => ~Before(l, e)
      <4> SUFFICES ASSUME e \in scan.got, Before(l, e) PROVE FALSE
        OBVIOUS
      <4>1. scan.cursor # Nil /\ ~After(e, scan.cursor) /\ After(l, scan.cursor)
        BY <1>4, <1>5, <3>0 DEF After
      <4>2. scan.cursor \in Cursors /\ scan.cursor.date \in Nat /\ scan.cursor.event \in Nat
        BY <1>2, <4>1, ServingFacts DEF Cursors
      <4>3. live[l].date \in Nat /\ live[e].date \in Nat /\ l \in Nat /\ e \in Nat
        BY <3>0, RowsRead, ServingFacts
      <4> HIDE DEF l, scan
      <4> QED
        BY <4>1, <4>2, <4>3 DEF After, Before
    <3>4. ~Before(l, e) => e \in page \cup scan.got
      <4> SUFFICES ASSUME ~Before(l, e), e \notin scan.got PROVE e \in page
        OBVIOUS
      <4>1. e \in Matching(scan.cursor)
        BY <1>4, <3>0 DEF Matching, After
      <4>2. e = l \/ Before(e, l)
        BY <3>0, BeforeOrders
      <4> QED
        BY <1>3, <3>0, <4>1, <4>2
    <3> QED
      BY <3>1, <3>2, <3>3, <3>4
  <2> QED
    BY <2>1, <2>2
<1>10. over => scan.stable \subseteq new.got \ new.repeated
  <2> SUFFICES ASSUME over, NEW e \in scan.stable PROVE e \in new.got
    BY <1>6
  <2>1. e \in scan.got \/ e \in Matching(scan.cursor)
    BY <1>4 DEF Matching, After
  <2> QED
    BY <1>3, <2>1
<1>11. new.versions \subseteq {new.bound}
  <2>1. CASE scan.cursor = Nil
    BY <1>2, <2>1
  <2>2. CASE scan.cursor # Nil
    BY <1>0, <1>2, <2>2 DEF ScanOK, CursorMatches
  <2> QED
    BY <2>1, <2>2
<1>12. /\ client' \in [Clients -> ClientType]
       /\ client'[c].scan = new /\ client'[c].done = over /\ client'[c].request = NoRequest
       /\ \A d \in Clients \ {c} : client'[d] = client[d]
  <2>1. new \in [cursor : Cursors \cup {Nil}, bound : ProductVersions \cup {Nil}, got : SUBSET Events,
                 repeated : SUBSET Events, stable : SUBSET Events, versions : SUBSET (ProductVersions \cup {Nil})]
    <3>1. client[c].request.version \in ProductVersions \cup {Nil} /\ page \subseteq Events
      BY <1>0, <1>2, <1>3 DEF ClientType
    <3> HIDE DEF next, page, scan
    <3> QED
      BY <1>2, <1>8, <3>1
  <2>2. over \in BOOLEAN /\ NoRequest \in [pc : {"idle", "resolve", "query"}, version : ProductVersions \cup {Nil}]
    BY DEF NoRequest
  <2> HIDE DEF new, over
  <2> QED
    BY <1>0, <1>1, <2>1, <2>2 DEF ClientType
<1>13. ScanOK(c)'
  <2>1. next # Nil => \A e \in scan.stable : e \in Present /\ e \notin new.repeated /\ (e \in new.got <=> ~After(e, next))
    BY <1>4, <1>6, <1>9
  <2>2. new.cursor = next /\ new.stable = scan.stable
    OBVIOUS
  <2>3. NoRequest.pc = "idle"
    BY DEF NoRequest
  <2> HIDE DEF new, next, scan, over
  <2> QED
    BY <1>0, <1>10, <1>11, <1>12, <2>1, <2>2, <2>3 DEF ScanOK, After, Present
<1>14. ASSUME NEW d \in Clients \ {c} PROVE ScanOK(d)'
  <2>1. client'[d] = client[d] /\ ScanOK(d)
    BY <1>12 DEF CustomerInv, ScanInv
  <2> QED
    BY <1>0, <2>1 DEF ScanOK, Present, After
<1>15. CustomerShape'
  BY <1>0, <1>12 DEF CustomerShape
<1> QED
  BY <1>13, <1>14, <1>15 DEF CustomerInv, ScanInv

-----------------------------------------------------------------------------
LEMMA ServingSteps == ServingInv /\ [ServingNext]_servingVars => ServingInv'
<1> SUFFICES ASSUME ServingInv, [ServingNext]_servingVars PROVE ServingInv'
  OBVIOUS
<1>0. StoreInv /\ CustomerInv /\ version \in ProductVersions
  BY DEF ServingInv, CustomerInv, CustomerShape
<1>1. CASE \E w \in Writers : Stamp(w) \/ Commit(w)
  BY <1>1, StampKeeps, CommitKeeps
<1>2. CASE \E r \in Refreshers : ReadGold(r) \/ FailRun(r) \/ \E type \in {"FULL", "INCREMENTAL"} : StartRun(r, type)
  BY <1>2, ReadGoldKeeps, FailRunKeeps, StartRunKeeps
<1>3. CASE \E r \in Refreshers : Publish(r)
  BY <1>3, PublishKeepsStore, PublishKeepsScans DEF ServingInv
<1>4. CASE Upgrade \/ Revoke
  <2>1. UNCHANGED <<projection, live, served>> /\ live' = live /\ client' = client
    BY <1>4 DEF Upgrade, Revoke, unchangedProjection
  <2>2. version' \in ProductVersions
    BY <1>0, <1>4, ServingBounds DEF Upgrade, Revoke, ProductVersions
  <2> QED
    BY <1>0, <2>1, <2>2, StoreIsLeft, CustomersAreLeft DEF ServingInv
<1>5. CASE \E c \in Clients : Ask(c) \/ ResolveVersion(c) \/ RejectQuery(c) \/ QueryPage(c)
  <2>1. PICK c \in Clients : Ask(c) \/ ResolveVersion(c) \/ RejectQuery(c) \/ QueryPage(c)
    BY <1>5
  <2>2. UNCHANGED <<projection, live, served>>
    BY <2>1 DEF Ask, ResolveVersion, RejectQuery, QueryPage, unchangedProjection
  <2>3. live \in [Events -> Row] /\ \A e \in Events : live[e].stamp > 0 => live[e].date \in Dates
    BY <1>0 DEF StoreInv, StoreShape
  <2>4. CustomerInv'
    BY <1>0, <2>1, <2>3, AskKeeps, QueryPageKeeps
  <2> QED
    BY <1>0, <2>2, <2>4, StoreIsLeft DEF ServingInv
<1>6. CASE \E c \in Clients : SavePage(c) \/ Revalidate(c)
  <2>1. UNCHANGED <<projection, live, served>> /\ live' = live /\ client' = client /\ version' = version
    BY <1>6 DEF SavePage, Revalidate, unchangedProjection
  <2> QED
    BY <1>0, <2>1, StoreIsLeft, CustomersAreLeft DEF ServingInv
<1>7. CASE UNCHANGED servingVars
  <2>1. UNCHANGED <<projection, live, served>> /\ live' = live /\ client' = client /\ version' = version
    BY <1>7 DEF servingVars
  <2> QED
    BY <1>0, <2>1, StoreIsLeft, CustomersAreLeft DEF ServingInv
<1> QED
  BY <1>1, <1>2, <1>3, <1>4, <1>5, <1>6, <1>7 DEF ServingNext

\* gold_writer.py, event_performance_projector.py, repository.py, event-performance-query.service.ts: the invariant above holds
\* throughout, for any number of Gold runs, overlapping refreshes and customers.
THEOREM ServingCorrect == ServingSpec => []ServingInv
<1> QED
  BY ServingStarts, ServingSteps, PTL DEF ServingSpec

LEMMA ReadsFollow == ServingInv => ReadsAreConsistent
<1> SUFFICES ASSUME ServingInv PROVE ReadsAreConsistent
  OBVIOUS
<1>0. /\ StoreShape /\ StampInv /\ CoverInv /\ RefreshInv /\ CustomerShape /\ ScanInv
      /\ gold \in [Events -> Row] /\ live \in [Events -> Row] /\ snapshot \in Nat /\ clock \in Nat /\ clock <= MaxStamp
      /\ \A e \in Events : live[e].stamp \in Nat /\ gold[e].stamp \in Nat /\ served[e] \in Nat
  BY ServingFacts, RowsRead DEF ServingInv, StoreInv, CustomerInv, StoreShape, Stamps
<1>1. ServingTypeOK
  <2>1. IsFiniteSet(Writing)
    BY ServingFacts, FS_Subset DEF Writing
  <2>2. Cardinality(Writing) \in Nat /\ snapshot + Cardinality(Writing) <= clock
    BY <1>0, <2>1, FS_CardinalityType DEF StampInv
  <2>3. snapshot <= MaxStamp
    BY <1>0, <2>2, ServingFacts
  <2>4. \A r \in Refreshers : refresh[r].read \subseteq Events /\ (refresh[r].pc = "idle" => refresh[r].read = {})
    BY <1>0 DEF StoreShape, RefreshType, RefreshInv, ReadInv
  <2> QED
    BY <1>0, <2>3, <2>4 DEF ServingTypeOK, StoreShape, CustomerShape, Stamps, ProductVersions
<1>2. LagIsRecoverable
  <2> SUFFICES ASSUME NEW e \in Events, checkpoint # Nil, live[e].stamp # gold[e].stamp, e \notin late,
                      ~(live[e].stamp < served[e])
               PROVE  gold[e].stamp > checkpoint
    BY DEF LagIsRecoverable
  <2>1. checkpoint \in Nat /\ Covered(checkpoint)
    BY <1>0, ServingFacts DEF StoreShape, CoverInv
  <2>2. live[e].stamp <= served[e] /\ served[e] <= gold[e].stamp
    BY <1>0 DEF CoverInv
  <2>3. gold[e].stamp <= checkpoint => gold[e].stamp <= served[e]
    BY <2>1 DEF Covered
  <2> QED
    BY <1>0, <2>1, <2>2, <2>3
<1>3. PagingIsComplete
  BY <1>0 DEF PagingIsComplete, ScanInv, ScanOK
<1>4. OneVersionPerScan
  <2> SUFFICES ASSUME NEW c \in Clients PROVE Cardinality(client[c].scan.versions) <= 1
    BY DEF OneVersionPerScan
  <2>1. client[c].scan.versions \subseteq {client[c].scan.bound}
    BY <1>0 DEF ScanInv, ScanOK
  <2>2. IsFiniteSet({client[c].scan.bound}) /\ Cardinality({client[c].scan.bound}) = 1
    BY FS_Singleton
  <2> QED
    BY <2>1, <2>2, FS_Subset
<1> QED
  BY <1>1, <1>2, <1>3, <1>4 DEF ReadsAreConsistent

\* What customers read is explained by what the refreshes did: a row that lags is one the next refresh reads, unless it came
\* late or an older one was written over it; a finished scan missed nothing that kept its place; its pages show one version.
THEOREM ReadsStayConsistent == ServingSpec => []ReadsAreConsistent
<1> QED
  BY ReadsFollow, ServingCorrect, PTL

LEMMA PublishMovesForward ==
    ASSUME ServingInv, NEW r \in Refreshers, Publish(r), ~refresh[r].overtaken, NEW e \in Events
    PROVE  live'[e].stamp >= live[e].stamp \/ e \in refresh[r].behind
<1>1. /\ refresh[r].pc = "write" /\ live' = Replaced(r) /\ ReadInv(refresh[r]) /\ live[e].stamp \in Nat
      /\ \A d \in Events \ refresh[r].behind : live[d].stamp <= refresh[r].rows[d].stamp
  BY RowsRead DEF Publish, ServingInv, StoreInv, StoreShape, RefreshInv, ReadInv
<1>2. /\ refresh[r].rows[e].stamp \in Nat
      /\ live'[e].stamp = IF e \in refresh[r].read \/ refresh[r].type = "FULL" THEN refresh[r].rows[e].stamp ELSE live[e].stamp
  BY <1>1, ReplacedIs DEF ServingInv
<1> QED
  BY <1>1, <1>2

\* swap_staging_into_live, upsert_live: a refresh takes no served row back or off the API, unless another one published after
\* it had read or Gold itself had gone back when it read.
THEOREM RefreshesKeepMovingForward == ServingSpec => RefreshesMoveForward
<1>1. ServingInv /\ [ServingNext]_servingVars => [MovesForward]_servingVars
  <2> SUFFICES ASSUME ServingInv, ServingNext, NEW r \in Refreshers, refresh[r].pc = "write", refresh'[r].pc = "idle",
                      ~refresh[r].overtaken, NEW e \in Events
               PROVE  live'[e].stamp >= live[e].stamp \/ e \in refresh[r].behind
    BY DEF MovesForward
  <2>0. live[e].stamp \in Nat
    BY RowsRead DEF ServingInv, StoreInv, StoreShape
  <2>1. live' = live \/ \E s \in Refreshers : Publish(s)
    BY DEF ServingNext, Stamp, Commit, StartRun, ReadGold, FailRun, Upgrade, Revoke, Ask, ResolveVersion, QueryPage, RejectQuery,
           SavePage, Revalidate, unchangedProjection
  <2>2. ASSUME NEW s \in Refreshers, Publish(s), s # r PROVE FALSE
    <3>1. refresh'[r] = [refresh[r] EXCEPT !.overtaken = TRUE] /\ refresh[r] \in RefreshType
      BY <2>2 DEF Publish, ServingInv, StoreInv, StoreShape
    <3> QED
      BY <3>1 DEF RefreshType
  <2> QED
    BY <2>0, <2>1, <2>2, PublishMovesForward
<1> QED
  BY <1>1, ServingCorrect, PTL DEF ServingSpec, RefreshesMoveForward
=============================================================================
