------------------------- MODULE PortalCatalogProofs -------------------------
(***************************************************************************)
(* What the portal and the copies data-exchange-service keeps agree on,    *)
(* for any number of tenants, products, datasets, grants and actions that  *)
(* run at the same time, wherever a push is lost or an actor dies.  The    *)
(* invariant speaks of one pair of a tenant and a dataset at a time: an    *)
(* action that decides on the pair still owes the copy what it has written, *)
(* and no other action of an opposite mind decides on it, unless the pair  *)
(* is excused.  The last part is about the explorer of the admin console:  *)
(* every answer in flight holds the ends of its edges, so merging one      *)
(* keeps the graph together, and what collapses is closed under the calls. *)
(***************************************************************************)
EXTENDS PortalCatalog, RelationshipExplorer, FiniteSetTheorems, TLAPS

GrantOps   == {"grant", "grantOnce", "setStatus"}
LinkOps    == {"associate", "create"}
DatasetOps == LinkOps \cup {"dissociate", "delete"}
Points     == {"idle", "read", "write", "list", "copy", "insert", "holders", "remove", "push"}
EntType    == {NoGrant} \cup [tenant : TenantIds, product : Products, status : {"ACTIVE", "REVOKED"}]
ActionType == [op : GrantOps \cup DatasetOps \cup {"idle"}, tenant : TenantIds \cup {Blank}, product : Products \cup {Blank},
               dataset : Datasets \cup {Blank}, allow : BOOLEAN, on : Entitlements \cup {Blank}, pc : Points,
               ask : SUBSET TenantIds, under : SUBSET Products, push : SUBSET (TenantIds \X Datasets \X BOOLEAN)]
SyncType   == [pc : {"idle", "datasets", "entitlements"}, alone : BOOLEAN, datasets : SUBSET Datasets,
               allowed : SUBSET Pairs, todo : SUBSET Pairs]

\* Where an action can be, and what it asks and pushes.
ShapeOK(c) ==
    /\ \/ c = NoAction
       \/ /\ c.op \in GrantOps /\ c.tenant \in TenantIds /\ c.product \in Products
          /\ c.pc \in {"read", "write", "list", "push"} /\ c.ask = {} /\ \A x \in c.push : x[1] = c.tenant /\ x[3] = c.allow
          /\ IF c.op = "setStatus" THEN c.on \in Entitlements ELSE c.allow
       \/ /\ c.op \in LinkOps /\ c.product \in Products /\ c.dataset \in Datasets /\ c.allow
          /\ c.pc \in {"write", "copy", "read", "insert", "holders", "push"} /\ c.ask = {}
          /\ \A x \in c.push : x[2] = c.dataset /\ x[3]
          /\ c.pc \in {"write", "copy"} => c.op = "create"
       \/ /\ c.op = "dissociate" /\ c.product \in Products /\ c.dataset \in Datasets /\ ~c.allow
          /\ c.pc \in {"write", "holders", "push"} /\ \A x \in c.push : x[2] = c.dataset
       \/ /\ c.op = "delete" /\ c.dataset \in Datasets /\ ~c.allow
          /\ c.pc \in {"write", "remove"} /\ c.ask = {} /\ c.push = {}
    /\ c.push # {} \/ c.ask # {} => c.pc = "push"

\* setStatus writes the grant it was asked for.
OnInv(c) == c.op = "setStatus" => ent[c.on].tenant = c.tenant /\ ent[c.on].product = c.product /\ ent[c.on].status # "ABSENT"

TypeInv ==
    /\ ent \in [Entitlements -> EntType] /\ links \in [Products \X Datasets -> Nat]
    /\ dataset \in [Datasets -> {"absent", "present", "deleted"}]
    /\ action \in [Actors -> ActionType] /\ sync \in SyncType
    /\ \A s \in Actors : ShapeOK(action[s]) /\ OnInv(action[s])
    /\ dsCopy \subseteq {d \in Datasets : dataset[d] # "absent"} /\ entCopy \subseteq TenantIds \X dsCopy
    /\ excused \subseteq Pairs /\ cut \subseteq Pairs /\ clean \in BOOLEAN

\* A dataset is linked, and acted on, only after it was created, and one action creates it.
Creates(c) == c.op = "create" /\ c.pc = "write"
DatasetInv ==
    /\ \A p \in Products, d \in Datasets : links[<<p, d>>] > 0 => dataset[d] # "absent"
    /\ \A s \in Actors : action[s].op \in DatasetOps =>
          IF Creates(action[s])
          THEN /\ dataset[action[s].dataset] = "absent"
               /\ \A u \in Actors \ {s} : action[u].op \in DatasetOps => action[u].dataset # action[s].dataset
          ELSE dataset[action[s].dataset] # "absent"

\* However many actions found no link, they are no more than there are actors.
Inserts(c, p, d)  == c.op \in LinkOps /\ c.pc = "insert" /\ c.product = p /\ c.dataset = d
Inserting(p, d) == {s \in Actors : Inserts(action[s], p, d)}
PileInv == \A p \in Products, d \in Datasets : links[<<p, d>>] + Cardinality(Inserting(p, d)) <= Cardinality(Actors)

\* A grant of the tenant covers the product.
Covers(t, p) == EntitledToAny(t, {p})

\* What an action that decides on the pair knows of it.
Knows(c, t, d) ==
    /\ c.op \in GrantOps /\ c.tenant = t /\ c.allow /\ c.pc = "list" => Covers(t, c.product)
    /\ c.op \in LinkOps /\ c.dataset = d /\ c.pc = "holders" => links[<<c.product, d>>] > 0
    /\ c.op = "dissociate" /\ c.dataset = d /\ c.pc = "push" => c.under = ProductsOf(d)
    /\ <<t, d, TRUE>> \in c.push => Entitled(t, d)
    /\ <<t, d, FALSE>> \in c.push => ~Entitled(t, d) \/ (c.op = "setStatus" /\ <<t, d>> \in cut)

\* It is going to take the pair from the copy, or to put it there.
Withdraws(c, t, d) ==
    \/ c.op = "setStatus" /\ c.tenant = t /\ ~c.allow /\ c.pc = "list" /\ links[<<c.product, d>>] > 0
    \/ c.op = "dissociate" /\ c.dataset = d /\ c.pc = "holders" /\ Covers(t, c.product)
    \/ c.op = "dissociate" /\ c.dataset = d /\ t \in c.ask
    \/ c.op = "delete" /\ c.dataset = d /\ c.pc = "remove"
    \/ <<t, d, FALSE>> \in c.push
Extends(c, t, d) ==
    \/ c.op \in GrantOps /\ c.tenant = t /\ c.allow /\ c.pc = "list" /\ links[<<c.product, d>>] > 0
    \/ c.op \in LinkOps /\ c.dataset = d /\ c.pc = "holders" /\ Covers(t, c.product)
    \/ <<t, d, TRUE>> \in c.push

OneMind(t, d) ==
    \A s, u \in Actors : s # u /\ <<t, d>> \in Concerns(action[s]) /\ <<t, d>> \in Concerns(action[u]) =>
        action[s].allow /\ action[u].allow
NoMore(t, d) == dataset[d] = "present" /\ <<t, d>> \in entCopy => Entitled(t, d) \/ \E s \in Actors : Withdraws(action[s], t, d)
NoLess(t, d) == dataset[d] = "present" /\ Entitled(t, d) => <<t, d>> \in entCopy \cup cut \/ \E s \in Actors : Extends(action[s], t, d)
PairOK(t, d) == OneMind(t, d) /\ (\A s \in Actors : Knows(action[s], t, d)) /\ NoMore(t, d) /\ NoLess(t, d)
PairInv == \A t \in TenantIds, d \in Datasets : <<t, d>> \notin excused => PairOK(t, d)

\* A reconciliation writes what it read, and nobody decided meanwhile on a pair that is not excused; if it is alone,
\* nothing has changed since it read.
Agrees(t, d) == <<t, d>> \in entCopy <=> Entitled(t, d)
Quiet == \A s \in Actors : action[s] = NoAction
SyncInv ==
    /\ sync.pc = "idle" => ~sync.alone
    /\ sync.datasets \subseteq {d \in Datasets : dataset[d] # "absent"} /\ sync.allowed \subseteq TenantIds \X sync.datasets
    /\ sync.todo \subseteq TenantIds \X sync.datasets
    /\ sync.pc = "datasets" => sync.todo = TenantIds \X sync.datasets
    /\ sync.pc = "entitlements" => sync.datasets \subseteq dsCopy
    /\ sync.pc # "idle" => \A t \in TenantIds, d \in Datasets : <<t, d>> \notin excused =>
          /\ \A s \in Actors : <<t, d>> \notin Concerns(action[s])
          /\ d \in sync.datasets => (<<t, d>> \in sync.allowed <=> Entitled(t, d))
AloneInv ==
    sync.alone => /\ Quiet /\ sync.datasets = Present
                  /\ \A t \in TenantIds, d \in Present : /\ <<t, d>> \in sync.allowed <=> Entitled(t, d)
                                                         /\ <<t, d>> \notin sync.todo => Agrees(t, d)
CleanInv ==
    clean => /\ Quiet /\ (sync.pc # "idle" => sync.alone)
             /\ Present \subseteq dsCopy /\ \A t \in TenantIds, d \in Present : Agrees(t, d)

CatalogInv == TypeInv /\ DatasetInv /\ PileInv /\ PairInv /\ SyncInv /\ AloneInv /\ CleanInv

-----------------------------------------------------------------------------
(* Grants, links and the pairs they cover, before and after a step *)

LEMMA CoversIs ==
    ASSUME NEW t, NEW p
    PROVE  /\ Covers(t, p) <=> \E e \in Entitlements : ent[e].tenant = t /\ ent[e].product = p /\ ent[e].status = "ACTIVE"
           /\ Covers(t, p)' <=> \E e \in Entitlements : ent'[e].tenant = t /\ ent'[e].product = p /\ ent'[e].status = "ACTIVE"
BY DEF Covers, EntitledToAny

LEMMA EntitledIs ==
    ASSUME NEW t, NEW d
    PROVE  /\ Entitled(t, d) <=> \E p \in Products : links[<<p, d>>] > 0 /\ Covers(t, p)
           /\ Entitled(t, d)' <=> \E p \in Products : links'[<<p, d>>] > 0 /\ Covers(t, p)'
BY DEF Entitled, Covers, EntitledToAny, ProductsOf

LEMMA CoversStay ==
    ASSUME ent' = ent, NEW t, NEW p
    PROVE  Covers(t, p)' <=> Covers(t, p)
BY CoversIs

\* A pair an action decides on is one of its tenant or of its dataset.
LEMMA ConcernsIs ==
    ASSUME NEW c \in ActionType, ShapeOK(c), NEW t \in TenantIds, NEW d \in Datasets
    PROVE  <<t, d>> \in Concerns(c) <=> (c.op \in GrantOps /\ c.tenant = t) \/ (c.op \in DatasetOps /\ c.dataset = d)
<1>1. CASE c.op \in GrantOps
  <2>1. Concerns(c) = {c.tenant} \X Datasets /\ c.op \notin DatasetOps
    BY <1>1 DEF Concerns, GrantOps, DatasetOps, LinkOps
  <2> QED
    BY <1>1, <2>1
<1>2. CASE c.op \in DatasetOps
  <2>1. Concerns(c) = TenantIds \X {c.dataset} /\ c.op \notin GrantOps
    BY <1>2 DEF Concerns, GrantOps, DatasetOps, LinkOps
  <2> QED
    BY <1>2, <2>1
<1>3. CASE c.op = "idle"
  <2>1. Concerns(c) = {}
    BY <1>3 DEF Concerns
  <2> QED
    BY <1>3, <2>1 DEF GrantOps, DatasetOps, LinkOps
<1> QED
  BY <1>1, <1>2, <1>3 DEF ActionType

\* What it pushes are pairs it decides on.
LEMMA PushesConcern ==
    ASSUME NEW c \in ActionType, ShapeOK(c), NEW t \in TenantIds, NEW d \in Datasets, NEW b, <<t, d, b>> \in c.push
    PROVE  <<t, d>> \in Concerns(c) /\ c.pc = "push" /\ b \in BOOLEAN
<1>1. b \in BOOLEAN /\ c.pc = "push"
  BY DEF ActionType, ShapeOK
<1>2. (c.op \in GrantOps /\ c.tenant = t) \/ (c.op \in DatasetOps /\ c.dataset = d)
  BY DEF ShapeOK, NoAction, DatasetOps
<1> QED
  BY <1>1, <1>2, ConcernsIs

-----------------------------------------------------------------------------
(* What a step makes of the action that takes it *)

Others(s)     == action' \in [Actors -> ActionType] /\ \A u \in Actors \ {s} : action'[u] = action[u]
SameAction(s) ==
    /\ action'[s].op = action[s].op /\ action'[s].tenant = action[s].tenant /\ action'[s].product = action[s].product
    /\ action'[s].dataset = action[s].dataset /\ action'[s].allow = action[s].allow /\ action'[s].on = action[s].on
Waits(s)      == action'[s].ask = {} /\ action'[s].push = {}

LEMMA Blanks ==
    /\ NoAction \in ActionType /\ ShapeOK(NoAction) /\ NoAction.op = "idle" /\ NoAction.pc = "idle" /\ NoAction.ask = {}
    /\ NoAction.push = {} /\ ~NoAction.allow /\ Concerns(NoAction) = {}
<1>1. NoAction.op = "idle" /\ NoAction.pc = "idle" /\ NoAction.ask = {} /\ NoAction.push = {} /\ ~NoAction.allow
  BY DEF NoAction
<1>2. NoAction \in ActionType
  BY DEF NoAction, ActionType, Points
<1>3. Concerns(NoAction) = {}
  BY <1>1 DEF Concerns
<1> QED
  BY <1>1, <1>2, <1>3 DEF ShapeOK

LEMMA Ends ==
    ASSUME TypeInv, NEW s \in Actors, Done(s)
    PROVE  Others(s) /\ action'[s] = NoAction
BY Blanks DEF TypeInv, Done, Others

LEMMA Goes ==
    ASSUME TypeInv, NEW s \in Actors, NEW pc \in Points, GoTo(s, pc)
    PROVE  /\ Others(s) /\ SameAction(s) /\ action'[s].pc = pc
           /\ action'[s].ask = action[s].ask /\ action'[s].push = action[s].push /\ action'[s].under = action[s].under
<1>1. action \in [Actors -> ActionType] /\ action[s] \in ActionType
  BY DEF TypeInv
<1>2. [action[s] EXCEPT !.pc = pc] \in ActionType
  BY <1>1 DEF ActionType
<1>3. action' = [action EXCEPT ![s] = [action[s] EXCEPT !.pc = pc]]
  BY DEF GoTo
<1> QED
  BY <1>1, <1>2, <1>3 DEF Others, SameAction, ActionType

LEMMA Fans ==
    ASSUME TypeInv, NEW s \in Actors, NEW pushes \in SUBSET (TenantIds \X Datasets \X BOOLEAN), Fan(s, pushes)
    PROVE  /\ Others(s)
           /\ \/ pushes = {} /\ action'[s] = NoAction
              \/ SameAction(s) /\ action'[s].pc = "push" /\ action'[s].ask = action[s].ask /\ action'[s].push = pushes
<1>1. action \in [Actors -> ActionType] /\ action[s] \in ActionType
  BY DEF TypeInv
<1>2. CASE pushes = {}
  BY <1>2, Ends DEF Fan, Done
<1>3. CASE pushes # {}
  <2> DEFINE b == [[action[s] EXCEPT !.pc = "push"] EXCEPT !.push = pushes]
  <2>1. action' = [action EXCEPT ![s] = b]
    BY <1>1, <1>3 DEF Fan
  <2>2. b \in ActionType /\ b.pc = "push" /\ b.push = pushes /\ b.ask = action[s].ask
        /\ b.op = action[s].op /\ b.tenant = action[s].tenant /\ b.product = action[s].product
        /\ b.dataset = action[s].dataset /\ b.allow = action[s].allow /\ b.on = action[s].on
    BY <1>1 DEF ActionType, Points
  <2> HIDE DEF b
  <2> QED
    BY <1>1, <2>1, <2>2 DEF Others, SameAction
<1> QED
  BY <1>2, <1>3

LEMMA Sends ==
    ASSUME TypeInv, NEW s \in Actors, NEW x, Sent(s, x), action[s].pc = "push"
    PROVE  /\ Others(s)
           /\ \/ action[s].push \subseteq {x} /\ action[s].ask = {} /\ action'[s] = NoAction
              \/ /\ SameAction(s) /\ action'[s].pc = "push" /\ action'[s].ask = action[s].ask
                 /\ action'[s].push = action[s].push \ {x} /\ action'[s].under = action[s].under
<1>1. action \in [Actors -> ActionType] /\ action[s] \in ActionType
  BY DEF TypeInv
<1>2. CASE action[s].push = {x} /\ action[s].ask = {}
  BY <1>1, <1>2, Blanks DEF Sent, Others
<1>3. CASE ~(action[s].push = {x} /\ action[s].ask = {})
  <2> DEFINE b == [action[s] EXCEPT !.push = action[s].push \ {x}]
  <2>1. action' = [action EXCEPT ![s] = b]
    BY <1>1, <1>3 DEF Sent
  <2>2. b \in ActionType /\ b.pc = "push" /\ b.push = action[s].push \ {x} /\ b.ask = action[s].ask /\ b.under = action[s].under
        /\ b.op = action[s].op /\ b.tenant = action[s].tenant /\ b.product = action[s].product
        /\ b.dataset = action[s].dataset /\ b.allow = action[s].allow /\ b.on = action[s].on
    BY <1>1 DEF ActionType
  <2> HIDE DEF b
  <2> QED
    BY <1>1, <2>1, <2>2 DEF Others, SameAction
<1> QED
  BY <1>2, <1>3

\* The two steps of a dissociation that collect the tenants and judge one of them.
LEMMA Lists ==
    ASSUME TypeInv, NEW s \in Actors, ListRemaining(s)
    PROVE  /\ Others(s)
           /\ \/ HoldersOf(action[s].product) = {} /\ action'[s] = NoAction
              \/ /\ SameAction(s) /\ action'[s].pc = "push" /\ action'[s].ask = HoldersOf(action[s].product)
                 /\ action'[s].push = action[s].push /\ action'[s].under = ProductsOf(action[s].dataset)
<1>1. action \in [Actors -> ActionType] /\ action[s] \in ActionType
  BY DEF TypeInv
<1> DEFINE h == HoldersOf(action[s].product)
           k == ProductsOf(action[s].dataset)
<1>2. h \subseteq TenantIds /\ k \subseteq Products
  BY DEF HoldersOf, ProductsOf
<1>3. action' = [action EXCEPT ![s] = IF h = {} THEN NoAction
                       ELSE [[[action[s] EXCEPT !.pc = "push"] EXCEPT !.ask = h] EXCEPT !.under = k]]
  BY <1>1 DEF ListRemaining
<1> HIDE DEF h, k
<1>4. CASE h = {}
  BY <1>1, <1>3, <1>4, Blanks DEF Others, h
<1>5. CASE h # {}
  <2> DEFINE b == [[[action[s] EXCEPT !.pc = "push"] EXCEPT !.ask = h] EXCEPT !.under = k]
  <2>1. b \in ActionType /\ b.pc = "push" /\ b.push = action[s].push /\ b.ask = h /\ b.under = k
        /\ b.op = action[s].op /\ b.tenant = action[s].tenant /\ b.product = action[s].product
        /\ b.dataset = action[s].dataset /\ b.allow = action[s].allow /\ b.on = action[s].on
    BY <1>1, <1>2 DEF ActionType, Points
  <2>2. action' = [action EXCEPT ![s] = b]
    BY <1>3, <1>5
  <2> HIDE DEF b
  <2> QED
    BY <1>1, <2>1, <2>2 DEF Others, SameAction, h, k
<1> QED
  BY <1>4, <1>5

LEMMA Judges ==
    ASSUME TypeInv, NEW s \in Actors, Recompute(s)
    PROVE  \E t \in action[s].ask :
              /\ Others(s) /\ SameAction(s) /\ action'[s].pc = "push" /\ action'[s].ask = action[s].ask \ {t}
              /\ action'[s].push = action[s].push \cup {<<t, action[s].dataset, EntitledToAny(t, action[s].under)>>}
              /\ action'[s].under = action[s].under
<1>1. action \in [Actors -> ActionType] /\ action[s] \in ActionType /\ action[s].pc = "push" /\ action[s].op = "dissociate"
  BY DEF TypeInv, Recompute, At
<1>2. PICK t \in action[s].ask :
         action' = [action EXCEPT ![s].ask = @ \ {t},
                        ![s].push = @ \cup {<<t, action[s].dataset, StillEntitled(t, action[s].under)>>}]
  BY DEF Recompute
<1> DEFINE e == EntitledToAny(t, action[s].under)
           x == <<t, action[s].dataset, e>>
           b == [[action[s] EXCEPT !.ask = action[s].ask \ {t}] EXCEPT !.push = action[s].push \cup {x}]
<1>3. action' = [action EXCEPT ![s] = b]
  BY <1>1, <1>2 DEF StillEntitled
<1>4. action[s].dataset \in Datasets /\ t \in TenantIds /\ e \in BOOLEAN
  <2>1. ShapeOK(action[s])
    BY DEF TypeInv
  <2> QED
    BY <1>1, <1>2, <2>1 DEF ShapeOK, NoAction, ActionType, EntitledToAny, GrantOps, LinkOps
<1> HIDE DEF e
<1>5. x \in TenantIds \X Datasets \X BOOLEAN
  BY <1>4
<1> HIDE DEF x
<1>6. b \in ActionType /\ b.pc = "push" /\ b.push = action[s].push \cup {x} /\ b.ask = action[s].ask \ {t}
      /\ b.under = action[s].under
      /\ b.op = action[s].op /\ b.tenant = action[s].tenant /\ b.product = action[s].product
      /\ b.dataset = action[s].dataset /\ b.allow = action[s].allow /\ b.on = action[s].on
  BY <1>1, <1>5 DEF ActionType
<1> HIDE DEF b
<1>7. Others(s) /\ SameAction(s) /\ action'[s].pc = "push" /\ action'[s].ask = action[s].ask \ {t}
      /\ action'[s].push = action[s].push \cup {x} /\ action'[s].under = action[s].under
  BY <1>1, <1>3, <1>6 DEF Others, SameAction
<1> QED
  BY <1>2, <1>7 DEF x, e

-----------------------------------------------------------------------------
(* What an action knows of a pair, when it does not decide on it and when the pair stays as it is *)

LEMMA Apart ==
    ASSUME TypeInv, NEW u \in Actors, NEW t \in TenantIds, NEW d \in Datasets, <<t, d>> \notin Concerns(action[u])
    PROVE  Knows(action[u], t, d) /\ ~Withdraws(action[u], t, d) /\ ~Extends(action[u], t, d)
<1>1. action[u] \in ActionType /\ ShapeOK(action[u])
  BY DEF TypeInv
<1>2. ~(action[u].op \in GrantOps /\ action[u].tenant = t) /\ ~(action[u].op \in DatasetOps /\ action[u].dataset = d)
  BY <1>1, ConcernsIs
<1>3. \A b : <<t, d, b>> \notin action[u].push
  BY <1>1, PushesConcern
<1> QED
  BY <1>2, <1>3 DEF Knows, Withdraws, Extends, GrantOps, DatasetOps, LinkOps

LEMMA ApartLater ==
    ASSUME TypeInv', NEW u \in Actors, NEW t \in TenantIds, NEW d \in Datasets, <<t, d>> \notin Concerns(action'[u])
    PROVE  Knows(action[u], t, d)' /\ ~Withdraws(action[u], t, d)' /\ ~Extends(action[u], t, d)'
<1>1. action'[u] \in ActionType /\ ShapeOK(action'[u])
  BY DEF TypeInv
<1>2. ~(action'[u].op \in GrantOps /\ action'[u].tenant = t) /\ ~(action'[u].op \in DatasetOps /\ action'[u].dataset = d)
  BY <1>1, ConcernsIs
<1>3. \A b : <<t, d, b>> \notin action'[u].push
  BY <1>1, PushesConcern
<1> QED
  BY <1>2, <1>3 DEF Knows, Withdraws, Extends, GrantOps, DatasetOps, LinkOps

\* Who only allows takes nothing away.
LEMMA AllowKeeps ==
    ASSUME TypeInv, NEW u \in Actors, NEW t \in TenantIds, NEW d \in Datasets, action[u].allow
    PROVE  /\ ~Withdraws(action[u], t, d) /\ <<t, d, FALSE>> \notin action[u].push
           /\ action[u].op \notin {"dissociate", "delete", "idle"}
<1>1. action[u] \in ActionType /\ ShapeOK(action[u])
  BY DEF TypeInv
<1>2. action[u].op \notin {"dissociate", "delete", "idle"}
  BY <1>1, Blanks DEF ShapeOK, GrantOps, LinkOps
<1>3. <<t, d, FALSE>> \notin action[u].push
  BY <1>1, <1>2, Blanks DEF ShapeOK, GrantOps, LinkOps
<1> QED
  BY <1>2, <1>3 DEF Withdraws

Same(t, d) ==
    /\ \A p \in Products : (Covers(t, p)' <=> Covers(t, p)) /\ links'[<<p, d>>] = links[<<p, d>>]
    /\ <<t, d>> \in entCopy' <=> <<t, d>> \in entCopy
    /\ <<t, d>> \in cut => <<t, d>> \in cut'

LEMMA SameEntitled ==
    ASSUME NEW t, NEW d, Same(t, d)
    PROVE  (Entitled(t, d)' <=> Entitled(t, d)) /\ ProductsOf(d)' = ProductsOf(d)
<1>1. Entitled(t, d)' <=> Entitled(t, d)
  BY EntitledIs DEF Same
<1>2. ProductsOf(d)' = ProductsOf(d)
  BY DEF Same, ProductsOf
<1> QED
  BY <1>1, <1>2

LEMMA SameKnown ==
    ASSUME TypeInv, NEW u \in Actors, NEW t \in TenantIds, NEW d \in Datasets, action'[u] = action[u], Same(t, d)
    PROVE  /\ Knows(action[u], t, d) => Knows(action[u], t, d)'
           /\ Withdraws(action[u], t, d)' <=> Withdraws(action[u], t, d)
           /\ Extends(action[u], t, d)' <=> Extends(action[u], t, d)
<1>1. action[u] \in ActionType /\ ShapeOK(action[u])
  BY DEF TypeInv
<1>2. action[u].op \in GrantOps \cup LinkOps \cup {"dissociate"} => action[u].product \in Products
  BY <1>1, Blanks DEF ShapeOK, GrantOps, LinkOps
<1>3. (Entitled(t, d)' <=> Entitled(t, d)) /\ ProductsOf(d)' = ProductsOf(d)
  BY SameEntitled
<1>4. Knows(action[u], t, d) => Knows(action[u], t, d)'
  BY <1>2, <1>3 DEF Knows, Same
<1>5. Withdraws(action[u], t, d)' <=> Withdraws(action[u], t, d)
  BY <1>2 DEF Withdraws, Same, GrantOps
<1>6. Extends(action[u], t, d)' <=> Extends(action[u], t, d)
  BY <1>2 DEF Extends, Same
<1> QED
  BY <1>4, <1>5, <1>6

-----------------------------------------------------------------------------
(* A pair that is not excused, over the steps of an action that may decide on it *)

Continues(s) == Others(s) /\ (SameAction(s) \/ action'[s] = NoAction)

LEMMA ConcernsShrink ==
    ASSUME NEW s \in Actors, Continues(s), NEW u \in Actors
    PROVE  Concerns(action'[u]) \subseteq Concerns(action[u])
<1>1. CASE u # s
  BY <1>1 DEF Continues, Others
<1>2. CASE u = s /\ action'[s] = NoAction
  BY <1>2, Blanks
<1>3. CASE u = s /\ SameAction(s)
  BY <1>3 DEF SameAction, Concerns
<1> QED
  BY <1>1, <1>2, <1>3 DEF Continues

LEMMA MindStays ==
    ASSUME NEW s \in Actors, Continues(s), NEW t \in TenantIds, NEW d \in Datasets, OneMind(t, d)
    PROVE  OneMind(t, d)'
<1> SUFFICES ASSUME NEW v \in Actors, NEW u \in Actors, v # u,
                    <<t, d>> \in Concerns(action'[v]), <<t, d>> \in Concerns(action'[u])
             PROVE  action'[v].allow /\ action'[u].allow
  BY DEF OneMind
<1>1. action[v].allow /\ action[u].allow
  BY ConcernsShrink DEF OneMind
<1>2. \A w \in Actors : <<t, d>> \in Concerns(action'[w]) => action'[w].allow = action[w].allow
  BY Blanks DEF Continues, Others, SameAction
<1> QED
  BY <1>1, <1>2

LEMMA QuietStep ==
    ASSUME TypeInv, NEW s \in Actors, NEW t \in TenantIds, NEW d \in Datasets, PairOK(t, d), OneMind(t, d)',
           \A u \in Actors \ {s} : action'[u] = action[u], Same(t, d), dataset'[d] = "present" => dataset[d] = "present",
           Knows(action[s], t, d)',
           Withdraws(action[s], t, d) => Withdraws(action[s], t, d)' \/ Entitled(t, d) \/ dataset'[d] # "present",
           Extends(action[s], t, d) => Extends(action[s], t, d)' \/ ~Entitled(t, d) \/ dataset'[d] # "present"
    PROVE  PairOK(t, d)'
<1>1. Entitled(t, d)' <=> Entitled(t, d)
  BY SameEntitled
<1>2. \A u \in Actors : Knows(action[u], t, d)'
  BY SameKnown DEF PairOK
<1>3. NoMore(t, d)'
  <2>1. SUFFICES ASSUME dataset'[d] = "present", <<t, d>> \in entCopy', ~Entitled(t, d)'
                 PROVE  \E u \in Actors : Withdraws(action[u], t, d)'
    BY DEF NoMore
  <2>2. PICK u \in Actors : Withdraws(action[u], t, d)
    BY <1>1, <2>1 DEF PairOK, NoMore, Same
  <2>3. Withdraws(action[u], t, d)'
    BY <1>1, <2>1, <2>2, SameKnown
  <2> QED
    BY <2>3
<1>4. NoLess(t, d)'
  <2>1. SUFFICES ASSUME dataset'[d] = "present", Entitled(t, d)', <<t, d>> \notin entCopy' \cup cut'
                 PROVE  \E u \in Actors : Extends(action[u], t, d)'
    BY DEF NoLess
  <2>2. PICK u \in Actors : Extends(action[u], t, d)
    BY <1>1, <2>1 DEF PairOK, NoLess, Same
  <2>3. Extends(action[u], t, d)'
    BY <1>1, <2>1, <2>2, SameKnown
  <2> QED
    BY <2>3
<1> QED
  BY <1>2, <1>3, <1>4 DEF PairOK

\* A grant or a link is written: the action still has to carry it to the copy.
LEMMA Gain ==
    ASSUME TypeInv, TypeInv', NEW s \in Actors, NEW t \in TenantIds, NEW d \in Datasets, PairOK(t, d), OneMind(t, d)',
           \A u \in Actors \ {s} : action'[u] = action[u],
           \A p \in Products : (Covers(t, p) => Covers(t, p)') /\ (links[<<p, d>>] > 0 => links'[<<p, d>>] > 0),
           entCopy' = entCopy, cut' = cut, dataset'[d] = dataset[d],
           <<t, d>> \in Concerns(action[s]), action[s].allow, ~Extends(action[s], t, d), Knows(action[s], t, d)',
           Entitled(t, d)' => Entitled(t, d) \/ Extends(action[s], t, d)'
    PROVE  PairOK(t, d)'
<1>1. Entitled(t, d) => Entitled(t, d)'
  BY EntitledIs
<1>2. \A u \in Actors \ {s} : <<t, d>> \in Concerns(action[u]) => action[u].allow
  BY DEF PairOK, OneMind
<1>3. ASSUME NEW u \in Actors \ {s} PROVE Knows(action[u], t, d)' /\ (Extends(action[u], t, d) => Extends(action[u], t, d)')
  <2>1. CASE <<t, d>> \notin Concerns(action[u])
    BY <2>1, Apart, ApartLater
  <2>2. CASE <<t, d>> \in Concerns(action[u])
    <3>1. action[u].op \notin {"dissociate", "delete", "idle"} /\ <<t, d, FALSE>> \notin action[u].push
      BY <1>2, <2>2, AllowKeeps
    <3>2. action[u] \in ActionType /\ ShapeOK(action[u])
      BY DEF TypeInv
    <3>3. action[u].product \in Products
      BY <3>1, <3>2, Blanks DEF ShapeOK
    <3>4. Knows(action[u], t, d)
      BY DEF PairOK
    <3>5. Knows(action[u], t, d)'
      BY <1>1, <3>1, <3>3, <3>4 DEF Knows
    <3>6. Extends(action[u], t, d) => Extends(action[u], t, d)'
      BY <3>3 DEF Extends
    <3> QED
      BY <3>5, <3>6
  <2> QED
    BY <2>1, <2>2
<1>4. NoMore(t, d)'
  <2>1. SUFFICES ASSUME dataset[d] = "present", <<t, d>> \in entCopy PROVE Entitled(t, d)
    BY <1>1 DEF NoMore
  <2>2. \A u \in Actors : ~Withdraws(action[u], t, d)
    BY <1>2, Apart, AllowKeeps
  <2> QED
    BY <2>1, <2>2 DEF PairOK, NoMore
<1>5. NoLess(t, d)'
  <2>1. SUFFICES ASSUME dataset[d] = "present", Entitled(t, d), <<t, d>> \notin entCopy \cup cut
                 PROVE  \E u \in Actors : Extends(action[u], t, d)'
    BY DEF NoLess
  <2>2. PICK u \in Actors \ {s} : Extends(action[u], t, d)
    BY <2>1 DEF PairOK, NoLess
  <2> QED
    BY <1>3, <2>2
<1> QED
  BY <1>3, <1>4, <1>5 DEF PairOK

\* A grant or a link is taken away: nobody else decides on the pair, and the action still has to tell the copy.
LEMMA Loss ==
    ASSUME TypeInv, TypeInv', NEW s \in Actors, NEW t \in TenantIds, NEW d \in Datasets, PairOK(t, d), OneMind(t, d)',
           \A u \in Actors \ {s} : action'[u] = action[u], entCopy' = entCopy, cut' = cut, dataset'[d] = dataset[d],
           <<t, d>> \in Concerns(action[s]), ~action[s].allow, ~Extends(action[s], t, d), ~Withdraws(action[s], t, d),
           Knows(action[s], t, d)', Entitled(t, d)' => Entitled(t, d),
           Entitled(t, d) => Entitled(t, d)' \/ Withdraws(action[s], t, d)'
    PROVE  PairOK(t, d)'
<1>1. ASSUME NEW u \in Actors \ {s}
      PROVE  Knows(action[u], t, d)' /\ ~Withdraws(action[u], t, d) /\ ~Extends(action[u], t, d)
  <2>1. <<t, d>> \notin Concerns(action[u])
    BY DEF PairOK, OneMind
  <2> QED
    BY <2>1, Apart, ApartLater
<1>2. dataset[d] = "present" /\ <<t, d>> \in entCopy => Entitled(t, d)
  BY <1>1 DEF PairOK, NoMore
<1>3. dataset[d] = "present" /\ Entitled(t, d) => <<t, d>> \in entCopy \cup cut
  BY <1>1 DEF PairOK, NoLess
<1>4. NoMore(t, d)'
  BY <1>2 DEF NoMore
<1>5. NoLess(t, d)'
  BY <1>3 DEF NoLess
<1> QED
  BY <1>1, <1>4, <1>5 DEF PairOK

-----------------------------------------------------------------------------
(* Steps that only go on, and requests that begin *)

Walk(s, ops, from, to) ==
    /\ action[s].op \in ops /\ action[s].pc = from /\ action[s].push = {} /\ action[s].ask = {}
    /\ Others(s) /\ SameAction(s) /\ action'[s].pc = to /\ Waits(s)
Leave(s, ops, from) ==
    /\ action[s].op \in ops /\ action[s].pc = from /\ action[s].push = {} /\ action[s].ask = {}
    /\ Others(s) /\ action'[s] = NoAction

LEMMA Walked ==
    ASSUME TypeInv, NEW s \in Actors, NEW ops, NEW from, from # "push", NEW to \in Points, At(s, ops, from), GoTo(s, to)
    PROVE  Walk(s, ops, from, to) /\ Continues(s)
<1>1. ShapeOK(action[s])
  BY DEF TypeInv
<1>2. action[s].op \in ops /\ action[s].pc = from /\ action[s].push = {} /\ action[s].ask = {}
  BY <1>1 DEF ShapeOK, At
<1>3. /\ Others(s) /\ SameAction(s) /\ action'[s].pc = to
      /\ action'[s].ask = action[s].ask /\ action'[s].push = action[s].push
  BY Goes
<1> QED
  BY <1>2, <1>3 DEF Walk, Waits, Continues

LEMMA Left ==
    ASSUME TypeInv, NEW s \in Actors, NEW ops, NEW from, from # "push", At(s, ops, from), Done(s)
    PROVE  Leave(s, ops, from) /\ Continues(s)
<1>1. ShapeOK(action[s])
  BY DEF TypeInv
<1>2. action[s].op \in ops /\ action[s].pc = from /\ action[s].push = {} /\ action[s].ask = {}
  BY <1>1 DEF ShapeOK, At
<1> QED
  BY <1>2, Ends DEF Leave, Continues

\* Where a walk may lead.
Legal(ops, to) ==
    \/ ops \subseteq GrantOps /\ to \in {"write", "list"}
    \/ ops \subseteq LinkOps /\ to \in {"insert", "holders"}
    \/ ops = {"create"} /\ to \in {"copy", "read"}
    \/ ops = {"dissociate"} /\ to = "holders"
    \/ ops = {"delete"} /\ to = "remove"

LEMMA WalkShape ==
    ASSUME TypeInv, NEW s \in Actors, NEW ops, NEW from, NEW to, Walk(s, ops, from, to), Legal(ops, to)
    PROVE  ShapeOK(action'[s])
<1> DEFINE a == action[s]
           b == action'[s]
<1>1. ShapeOK(a)
  BY DEF TypeInv
<1>2. /\ a.op \in ops /\ b.op = a.op /\ b.tenant = a.tenant /\ b.product = a.product /\ b.dataset = a.dataset /\ b.allow = a.allow
      /\ b.on = a.on /\ b.pc = to /\ b.ask = {} /\ b.push = {}
  BY DEF Walk, SameAction, Waits
<1>3. a.op # "idle" => a # NoAction
  BY Blanks
<1> SUFFICES ShapeOK(b)
  OBVIOUS
<1> HIDE DEF a, b
<1>4. CASE ops \subseteq GrantOps /\ to \in {"write", "list"}
  BY <1>1, <1>2, <1>3, <1>4 DEF ShapeOK, GrantOps, LinkOps
<1>5. CASE ops \subseteq LinkOps /\ to \in {"insert", "holders"}
  BY <1>1, <1>2, <1>3, <1>5 DEF ShapeOK, GrantOps, LinkOps
<1>6. CASE ops = {"create"} /\ to \in {"copy", "read"}
  BY <1>1, <1>2, <1>3, <1>6 DEF ShapeOK, GrantOps, LinkOps
<1>7. CASE ops = {"dissociate"} /\ to = "holders"
  BY <1>1, <1>2, <1>3, <1>7 DEF ShapeOK, GrantOps, LinkOps
<1>8. CASE ops = {"delete"} /\ to = "remove"
  BY <1>1, <1>2, <1>3, <1>8 DEF ShapeOK, GrantOps, LinkOps
<1> QED
  BY <1>4, <1>5, <1>6, <1>7, <1>8 DEF Legal

\* A request as it is handed in.
Fresh(c) ==
    /\ c \in ActionType /\ ShapeOK(c) /\ OnInv(c) /\ c.push = {} /\ c.ask = {} /\ c.pc \in {"read", "write"} /\ c # NoAction
    /\ c.op \in DatasetOps => IF c.op = "create"
                              THEN dataset[c.dataset] = "absent" /\ c.pc = "write" /\ \A u \in Actors : action[u].dataset # c.dataset
                              ELSE dataset[c.dataset] = "present"

LEMMA Submitted ==
    ASSUME TypeInv, NEW c \in Submittable
    PROVE  Fresh(c)
<1> USE DEF GrantOps, LinkOps, DatasetOps, Points
<1> DEFINE G1 == {Entry("grant", g[1], g[2], Blank, TRUE, Blank, "write") : g \in TenantIds \X Products}
           G2 == {Entry("grantOnce", g[1], g[2], Blank, TRUE, Blank, "read") : g \in TenantIds \X Products}
           G3 == {Entry("setStatus", ent[e].tenant, ent[e].product, Blank, allow, e, "write") :
                     e \in {x \in Entitlements : ent[x].status # "ABSENT"}, allow \in BOOLEAN}
           G4 == {Entry("associate", Blank, l[1], l[2], TRUE, Blank, "read") : l \in Products \X Present}
           G5 == {Entry("create", Blank, l[1], l[2], TRUE, Blank, "write") : l \in Products \X Unused}
           G6 == {Entry("dissociate", Blank, l[1], l[2], FALSE, Blank, "write") : l \in Products \X Present}
           G7 == {Entry("delete", Blank, Blank, d, FALSE, Blank, "write") : d \in Present}
<1>0. c.op # "idle" => c # NoAction
  BY Blanks
<1>1. CASE c \in G1
  <2>1. PICK g \in TenantIds \X Products :
           c = Entry("grant", g[1], g[2], Blank, TRUE, Blank, "write")
    BY <1>1
  <2>2. g[1] \in TenantIds /\ g[2] \in Products
    OBVIOUS
  <2>3. c \in ActionType /\ c.op = "grant" /\ c.tenant = g[1] /\ c.product = g[2] /\ c.allow /\ c.pc = "write"
        /\ c.ask = {} /\ c.push = {}
    BY <2>1, <2>2 DEF Entry, NoAction, ActionType
  <2> QED
    BY <1>0, <2>2, <2>3 DEF Fresh, ShapeOK, OnInv
<1>2. CASE c \in G2
  <2>1. PICK g \in TenantIds \X Products :
           c = Entry("grantOnce", g[1], g[2], Blank, TRUE, Blank, "read")
    BY <1>2
  <2>2. g[1] \in TenantIds /\ g[2] \in Products
    OBVIOUS
  <2>3. c \in ActionType /\ c.op = "grantOnce" /\ c.tenant = g[1] /\ c.product = g[2] /\ c.allow /\ c.pc = "read"
        /\ c.ask = {} /\ c.push = {}
    BY <2>1, <2>2 DEF Entry, NoAction, ActionType
  <2> QED
    BY <1>0, <2>2, <2>3 DEF Fresh, ShapeOK, OnInv
<1>3. CASE c \in G3
  <2>1. PICK e \in {x \in Entitlements : ent[x].status # "ABSENT"}, allow \in BOOLEAN :
           c = Entry("setStatus", ent[e].tenant, ent[e].product, Blank, allow, e, "write")
    BY <1>3
  <2>2. ent[e].tenant \in TenantIds /\ ent[e].product \in Products
    BY DEF TypeInv, EntType, NoGrant
  <2>3. c \in ActionType /\ c.op = "setStatus" /\ c.tenant = ent[e].tenant /\ c.product = ent[e].product /\ c.on = e /\ c.pc = "write"
        /\ c.ask = {} /\ c.push = {}
    BY <2>1, <2>2 DEF Entry, NoAction, ActionType
  <2> QED
    BY <1>0, <2>2, <2>3 DEF Fresh, ShapeOK, OnInv
<1>4. CASE c \in G4
  <2>1. PICK l \in Products \X Present :
           c = Entry("associate", Blank, l[1], l[2], TRUE, Blank, "read")
    BY <1>4
  <2>2. l[1] \in Products /\ l[2] \in Datasets /\ dataset[l[2]] = "present"
    BY DEF Present
  <2>3. c \in ActionType /\ c.op = "associate" /\ c.product = l[1] /\ c.dataset = l[2] /\ c.allow /\ c.pc = "read"
        /\ c.ask = {} /\ c.push = {}
    BY <2>1, <2>2 DEF Entry, NoAction, ActionType
  <2> QED
    BY <1>0, <2>2, <2>3 DEF Fresh, ShapeOK, OnInv
<1>5. CASE c \in G5
  <2>1. PICK l \in Products \X Unused :
           c = Entry("create", Blank, l[1], l[2], TRUE, Blank, "write")
    BY <1>5
  <2>2. l[1] \in Products /\ l[2] \in Datasets /\ dataset[l[2]] = "absent" /\ \A s \in Actors : action[s].dataset # l[2]
    BY DEF Unused
  <2>3. c \in ActionType /\ c.op = "create" /\ c.product = l[1] /\ c.dataset = l[2] /\ c.allow /\ c.pc = "write"
        /\ c.ask = {} /\ c.push = {}
    BY <2>1, <2>2 DEF Entry, NoAction, ActionType
  <2> QED
    BY <1>0, <2>2, <2>3 DEF Fresh, ShapeOK, OnInv
<1>6. CASE c \in G6
  <2>1. PICK l \in Products \X Present :
           c = Entry("dissociate", Blank, l[1], l[2], FALSE, Blank, "write")
    BY <1>6
  <2>2. l[1] \in Products /\ l[2] \in Datasets /\ dataset[l[2]] = "present"
    BY DEF Present
  <2>3. c \in ActionType /\ c.op = "dissociate" /\ c.product = l[1] /\ c.dataset = l[2] /\ ~c.allow /\ c.pc = "write"
        /\ c.ask = {} /\ c.push = {}
    BY <2>1, <2>2 DEF Entry, NoAction, ActionType
  <2> QED
    BY <1>0, <2>2, <2>3 DEF Fresh, ShapeOK, OnInv
<1>7. CASE c \in G7
  <2>1. PICK d \in Present :
           c = Entry("delete", Blank, Blank, d, FALSE, Blank, "write")
    BY <1>7
  <2>2. d \in Datasets /\ dataset[d] = "present"
    BY DEF Present
  <2>3. c \in ActionType /\ c.op = "delete" /\ c.dataset = d /\ ~c.allow /\ c.pc = "write"
        /\ c.ask = {} /\ c.push = {}
    BY <2>1, <2>2 DEF Entry, NoAction, ActionType
  <2> QED
    BY <1>0, <2>2, <2>3 DEF Fresh, ShapeOK, OnInv
<1>8. Submittable = G1 \cup G2 \cup G3 \cup G4 \cup G5 \cup G6 \cup G7
  BY DEF Submittable
<1> HIDE DEF G1, G2, G3, G4, G5, G6, G7
<1> QED
  BY <1>1, <1>2, <1>3, <1>4, <1>5, <1>6, <1>7, <1>8

LEMMA ConcernsPairs ==
    ASSUME NEW c \in ActionType, ShapeOK(c)
    PROVE  Concerns(c) \subseteq Pairs
<1>1. CASE c = NoAction
  BY <1>1, Blanks
<1>2. CASE c.op \in GrantOps /\ c.tenant \in TenantIds
  BY <1>2 DEF Concerns, GrantOps, Pairs
<1>3. CASE c.op \in DatasetOps /\ c.dataset \in Datasets
  BY <1>3 DEF Concerns, DatasetOps, LinkOps, Pairs
<1> QED
  BY <1>1, <1>2, <1>3 DEF ShapeOK, DatasetOps

-----------------------------------------------------------------------------
(* Types over the steps of an action *)

EntKept ==
    /\ ent' \in [Entitlements -> EntType]
    /\ \A e \in Entitlements : ent[e].status # "ABSENT" =>
          ent'[e].status # "ABSENT" /\ ent'[e].tenant = ent[e].tenant /\ ent'[e].product = ent[e].product
LinksKept    == links' \in [Products \X Datasets -> Nat]
DatasetsKept ==
    /\ dataset' \in [Datasets -> {"absent", "present", "deleted"}]
    /\ \A d \in Datasets : dataset[d] # "absent" => dataset'[d] # "absent"
CopyKept     == dsCopy' \subseteq {d \in Datasets : dataset'[d] # "absent"} /\ entCopy' \subseteq TenantIds \X dsCopy'
MarksKept    == excused' \subseteq Pairs /\ cut' \subseteq Pairs /\ clean' \in BOOLEAN /\ sync' \in SyncType

LEMMA PortalStays ==
    ASSUME TypeInv, UNCHANGED portal
    PROVE  EntKept /\ LinksKept /\ DatasetsKept /\ ent' = ent /\ links' = links /\ dataset' = dataset
<1>1. ent' = ent /\ links' = links /\ dataset' = dataset
  BY DEF portal
<1> QED
  BY <1>1 DEF TypeInv, EntKept, LinksKept, DatasetsKept

LEMMA CopyStays ==
    ASSUME TypeInv, UNCHANGED copy, DatasetsKept
    PROVE  CopyKept /\ dsCopy' = dsCopy /\ entCopy' = entCopy
<1>1. dsCopy' = dsCopy /\ entCopy' = entCopy
  BY DEF copy
<1> QED
  BY <1>1 DEF TypeInv, CopyKept, DatasetsKept

LEMMA TypeKept ==
    ASSUME TypeInv, NEW s \in Actors, Others(s), ShapeOK(action'[s]), OnInv(action[s])',
           EntKept, LinksKept, DatasetsKept, CopyKept, MarksKept
    PROVE  TypeInv'
<1>1. ASSUME NEW u \in Actors \ {s} PROVE ShapeOK(action'[u]) /\ OnInv(action[u])'
  <2>1. action'[u] = action[u] /\ ShapeOK(action[u]) /\ OnInv(action[u])
    BY DEF TypeInv, Others
  <2>2. action[u].op = "setStatus" => action[u].on \in Entitlements
    BY <2>1, Blanks DEF ShapeOK, LinkOps
  <2> QED
    BY <2>1, <2>2 DEF OnInv, EntKept
<1>2. action' \in [Actors -> ActionType]
  BY DEF Others
<1>3. \A u \in Actors : ShapeOK(action[u])' /\ OnInv(action[u])'
  BY <1>1
<1> QED
  BY <1>2, <1>3 DEF TypeInv, EntKept, LinksKept, DatasetsKept, CopyKept, MarksKept

LEMMA TypeWalk ==
    ASSUME TypeInv, NEW s \in Actors, Continues(s), SameAction(s) => ShapeOK(action'[s]),
           EntKept, LinksKept, DatasetsKept, CopyKept, MarksKept
    PROVE  TypeInv'
<1>1. ShapeOK(action[s]) /\ OnInv(action[s])
  BY DEF TypeInv
<1>2. CASE action'[s] = NoAction
  <2>1. OnInv(action[s])'
    BY <1>2, Blanks DEF OnInv
  <2> QED
    BY <1>2, <2>1, Blanks, TypeKept DEF Continues
<1>3. CASE SameAction(s)
  <2>1. action[s].op = "setStatus" => action[s].on \in Entitlements
    BY <1>1, Blanks DEF ShapeOK, LinkOps
  <2>2. OnInv(action[s])'
    BY <1>1, <1>3, <2>1 DEF OnInv, SameAction, EntKept
  <2> QED
    BY <1>3, <2>2, TypeKept DEF Continues
<1> QED
  BY <1>2, <1>3 DEF Continues

\* A step of the action that leaves the portal's rows alone.
LEMMA TypeIdle ==
    ASSUME TypeInv, NEW s \in Actors, Continues(s), SameAction(s) => ShapeOK(action'[s]), UNCHANGED <<portal, copy, sync, clean>>,
           excused' \subseteq Pairs, cut' \subseteq Pairs
    PROVE  TypeInv'
<1>1. EntKept /\ LinksKept /\ DatasetsKept /\ CopyKept
  BY PortalStays, CopyStays
<1>2. MarksKept
  BY DEF MarksKept, TypeInv
<1> QED
  BY <1>1, <1>2, TypeWalk

-----------------------------------------------------------------------------
(* What each step makes of its action *)

LEMMA FindDuplicateIs ==
    ASSUME TypeInv, NEW s \in Actors, FindDuplicate(s)
    PROVE  Continues(s) /\ (Walk(s, {"grantOnce"}, "read", "write") \/ Leave(s, {"grantOnce"}, "read"))
BY Walked, Left DEF FindDuplicate, Points

LEMMA CreateEntitlementIs ==
    ASSUME TypeInv, NEW s \in Actors, CreateEntitlement(s)
    PROVE  Continues(s) /\ Walk(s, {"grant", "grantOnce"}, "write", "list")
BY Walked DEF CreateEntitlement, Points

LEMMA SetEntitlementStatusIs ==
    ASSUME TypeInv, NEW s \in Actors, SetEntitlementStatus(s)
    PROVE  Continues(s) /\ Walk(s, {"setStatus"}, "write", "list")
BY Walked DEF SetEntitlementStatus, Points

LEMMA CreateDatasetIs ==
    ASSUME TypeInv, NEW s \in Actors, CreateDataset(s)
    PROVE  Continues(s) /\ Walk(s, {"create"}, "write", "copy")
BY Walked DEF CreateDataset, Points

LEMMA SyncDataProductIs ==
    ASSUME TypeInv, NEW s \in Actors, SyncDataProduct(s)
    PROVE  Continues(s) /\ Walk(s, {"create"}, "copy", "read")
BY Walked DEF SyncDataProduct, Points

LEMMA FindLinkIs ==
    ASSUME TypeInv, NEW s \in Actors, FindLink(s)
    PROVE  /\ Continues(s)
           /\ \/ Leave(s, LinkOps, "read")
              \/ Walk(s, LinkOps, "read", "insert") /\ ~(links[<<action[s].product, action[s].dataset>>] > 0)
BY Walked, Left DEF FindLink, Points, LinkOps

LEMMA InsertLinkIs ==
    ASSUME TypeInv, NEW s \in Actors, InsertLink(s)
    PROVE  Continues(s) /\ Walk(s, LinkOps, "insert", "holders")
BY Walked DEF InsertLink, Points, LinkOps

LEMMA DeleteLinkIs ==
    ASSUME TypeInv, NEW s \in Actors, DeleteLink(s)
    PROVE  Continues(s) /\ Walk(s, {"dissociate"}, "write", "holders")
BY Walked DEF DeleteLink, Points

LEMMA DissociateAllIs ==
    ASSUME TypeInv, NEW s \in Actors, DissociateAll(s)
    PROVE  Continues(s) /\ Walk(s, {"delete"}, "write", "remove")
BY Walked DEF DissociateAll, Points

LEMMA DeleteDatasetIs ==
    ASSUME TypeInv, NEW s \in Actors, DeleteDataset(s)
    PROVE  Continues(s) /\ Leave(s, {"delete"}, "remove")
BY Left DEF DeleteDataset

\* A step that begins to push: what it pushes, and for whom.
Pushes(s, ops, from, pushes) ==
    /\ action[s].op \in ops /\ action[s].pc = from /\ action[s].push = {} /\ action[s].ask = {} /\ Others(s)
    /\ \/ pushes = {} /\ action'[s] = NoAction
       \/ SameAction(s) /\ action'[s].pc = "push" /\ action'[s].ask = {} /\ action'[s].push = pushes

Told(s)     == {<<action[s].tenant, d, action[s].allow>> : d \in DatasetsOf(action[s].product)}
ToldLink(s) == {<<t, action[s].dataset, TRUE>> : t \in HoldersOf(action[s].product)}

LEMMA SyncEntitlementIs ==
    ASSUME TypeInv, NEW s \in Actors, SyncEntitlement(s)
    PROVE  Continues(s) /\ Pushes(s, GrantOps, "list", Told(s))
<1>1. action[s] \in ActionType /\ ShapeOK(action[s])
  BY DEF TypeInv
<1>2. action[s].op \in GrantOps /\ action[s].pc = "list" /\ Fan(s, Told(s))
  BY DEF SyncEntitlement, At, Told, GrantOps
<1>3. action[s].push = {} /\ action[s].ask = {} /\ action[s].tenant \in TenantIds /\ action[s].allow \in BOOLEAN
  BY <1>1, <1>2, Blanks DEF ShapeOK, ActionType, GrantOps, LinkOps
<1>4. Told(s) \in SUBSET (TenantIds \X Datasets \X BOOLEAN)
  <2> SUFFICES ASSUME NEW x \in Told(s) PROVE x \in TenantIds \X Datasets \X BOOLEAN
    OBVIOUS
  <2>1. PICK d \in Datasets : x = <<action[s].tenant, d, action[s].allow>>
    BY DEF Told, DatasetsOf
  <2> QED
    BY <1>3, <2>1
<1>5. /\ Others(s)
      /\ \/ Told(s) = {} /\ action'[s] = NoAction
         \/ SameAction(s) /\ action'[s].pc = "push" /\ action'[s].ask = action[s].ask /\ action'[s].push = Told(s)
  BY <1>2, <1>4, Fans
<1> QED
  BY <1>2, <1>3, <1>5 DEF Pushes, Continues

LEMMA ListHoldersIs ==
    ASSUME TypeInv, NEW s \in Actors, ListHolders(s)
    PROVE  Continues(s) /\ Pushes(s, LinkOps, "holders", ToldLink(s))
<1>1. action[s] \in ActionType /\ ShapeOK(action[s])
  BY DEF TypeInv
<1>2. action[s].op \in LinkOps /\ action[s].pc = "holders" /\ Fan(s, ToldLink(s))
  BY DEF ListHolders, At, ToldLink, LinkOps
<1>3. action[s].push = {} /\ action[s].ask = {} /\ action[s].dataset \in Datasets
  BY <1>1, <1>2, Blanks DEF ShapeOK, ActionType, GrantOps, LinkOps
<1>4. ToldLink(s) \in SUBSET (TenantIds \X Datasets \X BOOLEAN)
  <2> SUFFICES ASSUME NEW x \in ToldLink(s) PROVE x \in TenantIds \X Datasets \X BOOLEAN
    OBVIOUS
  <2>1. PICK t \in TenantIds : x = <<t, action[s].dataset, TRUE>>
    BY DEF ToldLink, HoldersOf
  <2> QED
    BY <1>3, <2>1
<1>5. /\ Others(s)
      /\ \/ ToldLink(s) = {} /\ action'[s] = NoAction
         \/ SameAction(s) /\ action'[s].pc = "push" /\ action'[s].ask = action[s].ask /\ action'[s].push = ToldLink(s)
  BY <1>2, <1>4, Fans
<1> QED
  BY <1>2, <1>3, <1>5 DEF Pushes, Continues

LEMMA ListRemainingIs ==
    ASSUME TypeInv, NEW s \in Actors, ListRemaining(s)
    PROVE  /\ Continues(s) /\ action[s].op = "dissociate" /\ action[s].pc = "holders" /\ action[s].push = {} /\ action[s].ask = {}
           /\ \/ HoldersOf(action[s].product) = {} /\ action'[s] = NoAction
              \/ /\ SameAction(s) /\ action'[s].pc = "push" /\ action'[s].ask = HoldersOf(action[s].product)
                 /\ action'[s].push = {} /\ action'[s].under = ProductsOf(action[s].dataset)
<1>1. ShapeOK(action[s])
  BY DEF TypeInv
<1>2. action[s].op = "dissociate" /\ action[s].pc = "holders" /\ action[s].push = {} /\ action[s].ask = {}
  BY <1>1 DEF ListRemaining, At, ShapeOK
<1> QED
  BY <1>2, Lists DEF Continues

LEMMA RecomputeIs ==
    ASSUME TypeInv, NEW s \in Actors, Recompute(s)
    PROVE  /\ Continues(s) /\ SameAction(s) /\ action[s].op = "dissociate" /\ action[s].pc = "push"
           /\ \E t \in action[s].ask :
              /\ action'[s].pc = "push" /\ action'[s].ask = action[s].ask \ {t} /\ action'[s].under = action[s].under
              /\ action'[s].push = action[s].push \cup {<<t, action[s].dataset, EntitledToAny(t, action[s].under)>>}
BY Judges DEF Continues, Recompute, At

\* One push that leaves, delivered or not.
OnePush(s, x) ==
    /\ action[s].pc = "push" /\ x \in action[s].push /\ Others(s)
    /\ \/ action[s].push \subseteq {x} /\ action[s].ask = {} /\ action'[s] = NoAction
       \/ /\ SameAction(s) /\ action'[s].pc = "push" /\ action'[s].ask = action[s].ask
          /\ action'[s].push = action[s].push \ {x} /\ action'[s].under = action[s].under

LEMMA SentIs ==
    ASSUME TypeInv, NEW s \in Actors, NEW x \in action[s].push, Sent(s, x)
    PROVE  /\ Continues(s) /\ OnePush(s, x) /\ x \in TenantIds \X Datasets \X BOOLEAN
           /\ <<x[1], x[2]>> \in Concerns(action[s])
<1>1. action[s] \in ActionType /\ ShapeOK(action[s])
  BY DEF TypeInv
<1>2. action[s].pc = "push" /\ x \in TenantIds \X Datasets \X BOOLEAN
  BY <1>1 DEF ShapeOK, ActionType
<1>3. x = <<x[1], x[2], x[3]>> /\ x[1] \in TenantIds /\ x[2] \in Datasets
  BY <1>2
<1>4. <<x[1], x[2]>> \in Concerns(action[s])
  BY <1>1, <1>3, PushesConcern
<1>5. OnePush(s, x)
  BY <1>2, Sends DEF OnePush
<1> QED
  BY <1>2, <1>4, <1>5 DEF Continues, OnePush

LEMMA ActorDiesIs ==
    ASSUME TypeInv, NEW s \in Actors, ActorDies(s)
    PROVE  Continues(s) /\ action'[s] = NoAction /\ action[s] # NoAction
BY Ends DEF ActorDies, Continues

-----------------------------------------------------------------------------
(* The type invariant *)

LEMMA PushShape ==
    ASSUME TypeInv, NEW s \in Actors, NEW x, OnePush(s, x), SameAction(s)
    PROVE  ShapeOK(action'[s])
<1> DEFINE a == action[s]
           b == action'[s]
<1>1. ShapeOK(a) /\ a.pc = "push"
  BY DEF TypeInv, OnePush
<1>2. CASE b = NoAction
  BY <1>2, Blanks
<1>3. CASE b # NoAction
  <2>1. /\ b.op = a.op /\ b.tenant = a.tenant /\ b.product = a.product /\ b.dataset = a.dataset /\ b.allow = a.allow
        /\ b.on = a.on /\ b.pc = "push" /\ b.ask = a.ask /\ b.push \subseteq a.push
    BY <1>3 DEF OnePush, SameAction
  <2>2. a # NoAction
    BY <1>1, Blanks
  <2> HIDE DEF a, b
  <2>3. ShapeOK(b)
    BY <1>1, <2>1, <2>2 DEF ShapeOK, GrantOps, LinkOps
  <2> QED
    BY <2>3 DEF b
<1> QED
  BY <1>2, <1>3

LEMMA PushesShape ==
    ASSUME TypeInv, NEW s \in Actors, NEW ops, NEW from, NEW pushes, Pushes(s, ops, from, pushes), SameAction(s),
           action[s].op \in GrantOps \cup LinkOps,
           action[s].op \in GrantOps => \A x \in pushes : x[1] = action[s].tenant /\ x[3] = action[s].allow,
           action[s].op \in LinkOps => \A x \in pushes : x[2] = action[s].dataset /\ x[3]
    PROVE  ShapeOK(action'[s])
<1> DEFINE a == action[s]
           b == action'[s]
<1>1. ShapeOK(a)
  BY DEF TypeInv
<1>2. a.op # "idle" /\ a # NoAction /\ b # NoAction
  BY Blanks DEF GrantOps, LinkOps, SameAction
<1>3. /\ b.op = a.op /\ b.tenant = a.tenant /\ b.product = a.product /\ b.dataset = a.dataset /\ b.allow = a.allow
      /\ b.on = a.on /\ b.pc = "push" /\ b.ask = {} /\ b.push = pushes
  BY <1>2 DEF Pushes, SameAction
<1>4. a.op \in GrantOps \cup LinkOps /\ (a.op \in GrantOps => \A x \in pushes : x[1] = a.tenant /\ x[3] = a.allow)
      /\ (a.op \in LinkOps => \A x \in pushes : x[2] = a.dataset /\ x[3])
  OBVIOUS
<1> SUFFICES ShapeOK(b)
  OBVIOUS
<1> HIDE DEF a, b
<1>5. CASE a.op \in GrantOps
  BY <1>1, <1>2, <1>3, <1>4, <1>5 DEF ShapeOK, GrantOps, LinkOps
<1>6. CASE a.op \in LinkOps
  BY <1>1, <1>2, <1>3, <1>4, <1>6 DEF ShapeOK, GrantOps, LinkOps
<1> QED
  BY <1>4, <1>5, <1>6

\* Steps that write no row of the portal and no copy.
LEMMA IdleTypes ==
    ASSUME TypeInv, NEW s \in Actors,
           FindDuplicate(s) \/ SyncEntitlement(s) \/ FindLink(s) \/ ListHolders(s) \/ ListRemaining(s) \/ Recompute(s)
             \/ PushFails(s) \/ ActorDies(s)
    PROVE  TypeInv'
<1>0. excused \subseteq Pairs /\ cut \subseteq Pairs /\ action[s] \in ActionType /\ ShapeOK(action[s])
  BY DEF TypeInv
<1>1. CASE FindDuplicate(s)
  <2>1. SameAction(s) => ShapeOK(action'[s])
    BY <1>1, FindDuplicateIs, WalkShape, Blanks DEF Legal, GrantOps, Leave
  <2> QED
    BY <1>0, <1>1, <2>1, FindDuplicateIs, TypeIdle DEF FindDuplicate
<1>2. CASE SyncEntitlement(s)
  <2>1. SameAction(s) => ShapeOK(action'[s])
    <3>1. \A x \in Told(s) : x[1] = action[s].tenant /\ x[3] = action[s].allow
      BY DEF Told
    <3> QED
      BY <1>2, <3>1, SyncEntitlementIs, PushesShape DEF Pushes, GrantOps, LinkOps
  <2>2. cut' \subseteq Pairs
    <3>1. cut' = cut \cup {x \in {action[s].tenant} \X DatasetsOf(action[s].product) : ~action[s].allow /\ Entitled(x[1], x[2])}
      BY <1>2 DEF SyncEntitlement
    <3>2. action[s].tenant \in TenantIds
      BY <1>0, <1>2, Blanks DEF SyncEntitlement, At, ShapeOK, LinkOps
    <3> QED
      BY <1>0, <3>1, <3>2 DEF DatasetsOf, Pairs
  <2> QED
    BY <1>0, <1>2, <2>1, <2>2, SyncEntitlementIs, TypeIdle DEF SyncEntitlement
<1>3. CASE FindLink(s)
  <2>1. SameAction(s) => ShapeOK(action'[s])
    BY <1>3, FindLinkIs, WalkShape, Blanks DEF Legal, LinkOps, Leave
  <2> QED
    BY <1>0, <1>3, <2>1, FindLinkIs, TypeIdle DEF FindLink
<1>4. CASE ListHolders(s)
  <2>1. SameAction(s) => ShapeOK(action'[s])
    <3>1. ASSUME NEW x \in ToldLink(s) PROVE x[2] = action[s].dataset /\ x[3]
      <4>1. PICK t \in TenantIds : x = <<t, action[s].dataset, TRUE>>
        BY DEF ToldLink, HoldersOf
      <4> QED
        BY <4>1
    <3> QED
      BY <1>4, <3>1, ListHoldersIs, PushesShape DEF Pushes, GrantOps, LinkOps
  <2> QED
    BY <1>0, <1>4, <2>1, ListHoldersIs, TypeIdle DEF ListHolders
<1>5. CASE ListRemaining(s)
  <2>1. SameAction(s) => ShapeOK(action'[s])
    <3>1. CASE action'[s] = NoAction
      BY <3>1, Blanks
    <3>2. CASE action'[s] # NoAction /\ SameAction(s)
      <4>1. action[s].op = "dissociate" /\ action'[s].pc = "push" /\ action'[s].push = {}
        BY <1>5, <3>2, ListRemainingIs
      <4> QED
        BY <1>0, <3>2, <4>1, Blanks DEF ShapeOK, SameAction, GrantOps, LinkOps
    <3> QED
      BY <3>1, <3>2
  <2> QED
    BY <1>0, <1>5, <2>1, ListRemainingIs, TypeIdle DEF ListRemaining
<1>6. CASE Recompute(s)
  <2>1. ShapeOK(action'[s])
    <3>1. PICK t \in action[s].ask :
             /\ action'[s].pc = "push"
             /\ action'[s].push = action[s].push \cup {<<t, action[s].dataset, EntitledToAny(t, action[s].under)>>}
      BY <1>6, RecomputeIs
    <3>2. SameAction(s) /\ action[s].op = "dissociate"
      BY <1>6, RecomputeIs
    <3>3. \A x \in action[s].push : x[2] = action[s].dataset
      BY <1>0, <3>2, Blanks DEF ShapeOK, GrantOps, LinkOps
    <3>4. \A x \in action'[s].push : x[2] = action'[s].dataset
      BY <3>1, <3>2, <3>3 DEF SameAction
    <3> QED
      BY <1>0, <3>1, <3>2, <3>4, Blanks DEF ShapeOK, SameAction, GrantOps, LinkOps
  <2> QED
    BY <1>0, <1>6, <2>1, RecomputeIs, TypeIdle DEF Recompute
<1>7. ASSUME NEW x \in action[s].push, Sent(s, x), excused' = excused \cup {<<x[1], x[2]>>}, PushFails(s) PROVE TypeInv'
  <2>1. Continues(s) /\ OnePush(s, x) /\ x \in TenantIds \X Datasets \X BOOLEAN
    BY <1>7, SentIs
  <2>2. <<x[1], x[2]>> \in Pairs
    BY <2>1 DEF Pairs
  <2> QED
    BY <1>0, <1>7, <2>1, <2>2, PushShape, TypeIdle DEF PushFails
<1>8. ASSUME At(s, {"create"}, "copy"), GoTo(s, "read"), excused' = excused \cup TenantIds \X {action[s].dataset}, PushFails(s)
      PROVE  TypeInv'
  <2>1. Continues(s) /\ Walk(s, {"create"}, "copy", "read")
    BY <1>8, Walked DEF Points
  <2>2. ShapeOK(action'[s])
    BY <2>1, WalkShape DEF Legal
  <2>3. action[s].dataset \in Datasets
    BY <1>0, <1>8, Blanks DEF At, ShapeOK, GrantOps
  <2>4. excused' \subseteq Pairs
    BY <1>0, <1>8, <2>3 DEF Pairs
  <2> QED
    BY <1>0, <1>8, <2>1, <2>2, <2>4, TypeIdle DEF PushFails
<1>9. CASE PushFails(s)
  BY <1>7, <1>8, <1>9 DEF PushFails
<1>10. CASE ActorDies(s)
  <2>1. excused' \subseteq Pairs
    BY <1>0, <1>10, ConcernsPairs DEF ActorDies
  <2> QED
    BY <1>0, <1>10, <2>1, ActorDiesIs, Blanks, TypeIdle DEF ActorDies
<1> QED
  BY <1>1, <1>2, <1>3, <1>4, <1>5, <1>6, <1>9, <1>10

LEMMA GrantTypes ==
    ASSUME TypeInv, NEW s \in Actors, CreateEntitlement(s) \/ SetEntitlementStatus(s)
    PROVE  TypeInv'
<1>0. action[s] \in ActionType /\ ShapeOK(action[s]) /\ OnInv(action[s]) /\ ent \in [Entitlements -> EntType]
  BY DEF TypeInv
<1>1. links' = links /\ dataset' = dataset /\ UNCHANGED <<copy, sync, excused, cut, clean>>
  BY DEF CreateEntitlement, SetEntitlementStatus
<1>2. LinksKept /\ DatasetsKept /\ CopyKept /\ MarksKept
  BY <1>1, CopyStays DEF TypeInv, LinksKept, DatasetsKept, MarksKept
<1>3. CASE CreateEntitlement(s)
  <2>1. PICK e \in Entitlements :
           /\ ent[e].status = "ABSENT"
           /\ ent' = [ent EXCEPT ![e] = [tenant |-> action[s].tenant, product |-> action[s].product, status |-> "ACTIVE"]]
    BY <1>3 DEF CreateEntitlement
  <2>2. action[s].tenant \in TenantIds /\ action[s].product \in Products
    BY <1>0, <1>3, Blanks DEF CreateEntitlement, At, ShapeOK, LinkOps
  <2>3. EntKept
    BY <1>0, <2>1, <2>2 DEF EntKept, EntType
  <2>4. Continues(s) /\ ShapeOK(action'[s])
    BY <1>3, CreateEntitlementIs, WalkShape DEF Legal, GrantOps
  <2> QED
    BY <1>2, <2>3, <2>4, TypeWalk
<1>4. CASE SetEntitlementStatus(s)
  <2> DEFINE e == action[s].on
             new == IF action[s].allow THEN "ACTIVE" ELSE "REVOKED"
  <2>1. e \in Entitlements /\ ent[e].status # "ABSENT"
    BY <1>0, <1>4, Blanks DEF SetEntitlementStatus, At, ShapeOK, LinkOps, OnInv
  <2>2. ent' = [ent EXCEPT ![e] = [ent[e] EXCEPT !.status = new]]
    BY <1>4 DEF SetEntitlementStatus
  <2>3. ent[e] \in [tenant : TenantIds, product : Products, status : {"ACTIVE", "REVOKED"}]
    BY <1>0, <2>1 DEF EntType, NoGrant
  <2>4. new \in {"ACTIVE", "REVOKED"}
    OBVIOUS
  <2> HIDE DEF e, new
  <2>5. EntKept
    BY <1>0, <2>1, <2>2, <2>3, <2>4 DEF EntKept, EntType
  <2>6. Continues(s) /\ ShapeOK(action'[s])
    BY <1>4, SetEntitlementStatusIs, WalkShape DEF Legal, GrantOps
  <2> QED
    BY <1>2, <2>5, <2>6, TypeWalk
<1> QED
  BY <1>3, <1>4

LEMMA DatasetTypes ==
    ASSUME TypeInv, DatasetInv, NEW s \in Actors,
           CreateDataset(s) \/ SyncDataProduct(s) \/ InsertLink(s) \/ DeleteLink(s) \/ DissociateAll(s) \/ DeleteDataset(s)
    PROVE  TypeInv'
<1>0. /\ action[s] \in ActionType /\ ShapeOK(action[s]) /\ ent \in [Entitlements -> EntType]
      /\ links \in [Products \X Datasets -> Nat] /\ dataset \in [Datasets -> {"absent", "present", "deleted"}]
      /\ dsCopy \subseteq {d \in Datasets : dataset[d] # "absent"} /\ entCopy \subseteq TenantIds \X dsCopy
  BY DEF TypeInv
<1>1. ent' = ent /\ UNCHANGED <<sync, excused, cut, clean>> /\ entCopy' = entCopy
  BY DEF CreateDataset, SyncDataProduct, InsertLink, DeleteLink, DissociateAll, DeleteDataset, portal, copy
<1>2. EntKept /\ MarksKept
  BY <1>1 DEF TypeInv, EntKept, MarksKept
<1>3. ASSUME action[s].op \in DatasetOps PROVE action[s].dataset \in Datasets
  BY <1>0, <1>3, Blanks DEF ShapeOK, DatasetOps, LinkOps, GrantOps
<1>4. ASSUME action[s].op \in LinkOps \cup {"dissociate"}
      PROVE  /\ <<action[s].product, action[s].dataset>> \in Products \X Datasets
             /\ links[<<action[s].product, action[s].dataset>>] \in Nat
  <2>1. action[s].product \in Products /\ action[s].dataset \in Datasets
    BY <1>0, <1>4, Blanks DEF ShapeOK, LinkOps, GrantOps
  <2> QED
    BY <1>0, <2>1
<1>5. CASE CreateDataset(s) \/ DeleteDataset(s)
  <2>1. action[s].op \in {"create", "delete"}
    BY <1>5 DEF CreateDataset, DeleteDataset, At
  <2>2. action[s].dataset \in Datasets
    BY <1>3, <2>1 DEF DatasetOps, LinkOps
  <2>3. dataset' = [dataset EXCEPT ![action[s].dataset] = "present"] \/ dataset' = [dataset EXCEPT ![action[s].dataset] = "deleted"]
    BY <1>5 DEF CreateDataset, DeleteDataset
  <2>4. DatasetsKept
    BY <1>0, <2>2, <2>3 DEF DatasetsKept
  <2>5. LinksKept /\ dsCopy' = dsCopy
    BY <1>0, <1>5 DEF CreateDataset, DeleteDataset, LinksKept, copy
  <2>6. CopyKept
    BY <1>0, <1>1, <2>4, <2>5 DEF CopyKept, DatasetsKept
  <2>7. Continues(s) /\ (SameAction(s) => ShapeOK(action'[s]))
    BY <1>5, CreateDatasetIs, DeleteDatasetIs, WalkShape, Blanks DEF Legal, Leave
  <2> QED
    BY <1>2, <2>4, <2>5, <2>6, <2>7, TypeWalk
<1>6. CASE SyncDataProduct(s)
  <2>1. action[s].op = "create" /\ action[s].pc = "copy" /\ UNCHANGED portal /\ dsCopy' = dsCopy \cup {action[s].dataset}
    BY <1>6 DEF SyncDataProduct, At
  <2>2. action[s].dataset \in Datasets /\ dataset[action[s].dataset] # "absent"
    BY <1>3, <2>1 DEF DatasetOps, LinkOps, DatasetInv, Creates
  <2>3. LinksKept /\ DatasetsKept /\ dataset' = dataset
    BY <2>1, PortalStays
  <2>4. CopyKept
    BY <1>0, <1>1, <2>1, <2>2, <2>3 DEF CopyKept
  <2>5. Continues(s) /\ ShapeOK(action'[s])
    BY <1>6, SyncDataProductIs, WalkShape DEF Legal
  <2> QED
    BY <1>2, <2>3, <2>4, <2>5, TypeWalk
<1>7. CASE InsertLink(s) \/ DeleteLink(s) \/ DissociateAll(s)
  <2>1. dataset' = dataset /\ UNCHANGED copy
    BY <1>7 DEF InsertLink, DeleteLink, DissociateAll
  <2>2. DatasetsKept
    BY <1>0, <2>1 DEF DatasetsKept
  <2>3. CopyKept
    BY <2>1, <2>2, CopyStays
  <2>4. LinksKept
    <3>1. CASE InsertLink(s)
      <4>1. action[s].op \in LinkOps
        BY <3>1 DEF InsertLink, At, LinkOps
      <4> QED
        BY <1>0, <1>4, <3>1, <4>1 DEF InsertLink, LinksKept
    <3>2. CASE DeleteLink(s)
      <4>1. action[s].op = "dissociate"
        BY <3>2 DEF DeleteLink, At
      <4> QED
        BY <1>0, <1>4, <3>2, <4>1 DEF DeleteLink, LinksKept
    <3>3. CASE DissociateAll(s)
      BY <1>0, <3>3 DEF DissociateAll, LinksKept
    <3> QED
      BY <1>7, <3>1, <3>2, <3>3
  <2>5. Continues(s) /\ ShapeOK(action'[s])
    BY <1>7, InsertLinkIs, DeleteLinkIs, DissociateAllIs, WalkShape DEF Legal, LinkOps
  <2> QED
    BY <1>2, <2>2, <2>3, <2>4, <2>5, TypeWalk
<1> QED
  BY <1>5, <1>6, <1>7

LEMMA SubmitTypes ==
    ASSUME TypeInv, NEW s \in Actors, Submit(s)
    PROVE  TypeInv'
<1>1. PICK c \in Submittable :
         /\ action' = [action EXCEPT ![s] = c]
         /\ excused' = excused \cup Crossings(s, c) \cup (IF sync.pc = "idle" THEN {} ELSE Concerns(c))
  BY DEF Submit
<1>2. Fresh(c)
  BY Submitted
<1>3. Others(s) /\ action'[s] = c
  BY <1>1, <1>2 DEF TypeInv, Others, Fresh
<1>4. UNCHANGED <<portal, copy, cut>> /\ clean' = FALSE /\ sync' = [sync EXCEPT !.alone = FALSE]
  BY DEF Submit
<1>5. EntKept /\ LinksKept /\ DatasetsKept /\ CopyKept /\ ent' = ent
  BY <1>4, PortalStays, CopyStays
<1>6. MarksKept
  <2>1. sync' \in SyncType
    BY <1>4 DEF TypeInv, SyncType
  <2>2. Concerns(c) \subseteq Pairs
    BY <1>2, ConcernsPairs DEF Fresh
  <2>3. \A x \in Actors : Crossed(c, action[x]) \subseteq Pairs
    BY <2>2 DEF Crossed
  <2>4. Crossings(s, c) \subseteq Pairs
    BY <2>3 DEF Crossings
  <2>5. excused' \subseteq Pairs
    BY <1>1, <2>2, <2>4 DEF TypeInv
  <2> QED
    BY <1>4, <2>1, <2>5 DEF TypeInv, MarksKept
<1>7. OnInv(action[s])'
  BY <1>2, <1>3, <1>5 DEF Fresh, OnInv
<1> QED
  BY <1>2, <1>3, <1>5, <1>6, <1>7, TypeKept DEF Fresh

LEMMA UpsertTypes ==
    ASSUME TypeInv, NEW s \in Actors, UpsertEntitlement(s)
    PROVE  TypeInv'
<1>1. PICK x \in action[s].push :
        /\ entCopy' = Delivered(x[1], x[2], x[3]) /\ Sent(s, x)
        /\ cut' = IF x[3] THEN cut \ {<<x[1], x[2]>>} ELSE cut
        /\ excused' = IF x[2] \in dsCopy THEN excused ELSE excused \cup {<<x[1], x[2]>>}
  BY DEF UpsertEntitlement
<1>2. Continues(s) /\ OnePush(s, x) /\ x \in TenantIds \X Datasets \X BOOLEAN
  BY <1>1, SentIs
<1>3. UNCHANGED <<portal, dsCopy, sync, clean>>
  BY DEF UpsertEntitlement
<1>4. EntKept /\ LinksKept /\ DatasetsKept /\ dataset' = dataset
  BY <1>3, PortalStays
<1>5. x[1] \in TenantIds /\ x[2] \in Datasets
  BY <1>2
<1>6. CopyKept
  BY <1>1, <1>3, <1>4, <1>5 DEF CopyKept, Delivered, TypeInv
<1>7. MarksKept
  BY <1>1, <1>3, <1>5 DEF MarksKept, TypeInv, Pairs
<1> QED
  BY <1>2, <1>4, <1>6, <1>7, PushShape, TypeWalk

LEMMA TypeStep ==
    ASSUME TypeInv, DatasetInv, NEW s \in Actors, CallStep(s)
    PROVE  TypeInv'
BY IdleTypes, GrantTypes, DatasetTypes, SubmitTypes, UpsertTypes DEF CallStep

-----------------------------------------------------------------------------
(* Pairs a step does not decide on *)

LEMMA RowsStay ==
    ASSUME NEW t, NEW d, UNCHANGED portal, UNCHANGED entCopy, cut \subseteq cut'
    PROVE  Same(t, d) /\ dataset' = dataset
<1>1. ent' = ent /\ links' = links /\ dataset' = dataset
  BY DEF portal
<1>2. \A p \in Products : Covers(t, p)' <=> Covers(t, p)
  BY <1>1, CoversStay
<1> QED
  BY <1>1, <1>2 DEF Same

LEMMA IdleStays ==
    ASSUME TypeInv, NEW s \in Actors, NEW t \in TenantIds, NEW d \in Datasets,
           Submit(s) \/ FindDuplicate(s) \/ SyncEntitlement(s) \/ FindLink(s) \/ ListHolders(s) \/ ListRemaining(s) \/ Recompute(s)
             \/ PushFails(s) \/ ActorDies(s) \/ SyncDataProduct(s)
    PROVE  Same(t, d) /\ dataset' = dataset
<1>1. UNCHANGED portal /\ UNCHANGED entCopy
  BY DEF Submit, FindDuplicate, SyncEntitlement, FindLink, ListHolders, ListRemaining, Recompute, PushFails, ActorDies,
         SyncDataProduct, copy
<1>2. cut \subseteq cut'
  BY DEF Submit, FindDuplicate, SyncEntitlement, FindLink, ListHolders, ListRemaining, Recompute, PushFails, ActorDies,
         SyncDataProduct
<1> QED
  BY <1>1, <1>2, RowsStay

\* A grant that is written covers nothing but its tenant, with its product.
LEMMA GrantWrites ==
    ASSUME TypeInv, NEW s \in Actors, CreateEntitlement(s) \/ SetEntitlementStatus(s), NEW t \in TenantIds, NEW p \in Products
    PROVE  /\ t # action[s].tenant \/ p # action[s].product => (Covers(t, p)' <=> Covers(t, p))
           /\ action[s].allow => /\ Covers(t, p) => Covers(t, p)'
                                 /\ t = action[s].tenant /\ p = action[s].product => Covers(t, p)'
           /\ ~action[s].allow => (Covers(t, p)' => Covers(t, p))
           /\ links' = links /\ dataset' = dataset /\ entCopy' = entCopy /\ cut' = cut
<1>0. action[s] \in ActionType /\ ShapeOK(action[s]) /\ OnInv(action[s]) /\ ent \in [Entitlements -> EntType]
  BY DEF TypeInv
<1>1. links' = links /\ dataset' = dataset /\ entCopy' = entCopy /\ cut' = cut
  BY DEF CreateEntitlement, SetEntitlementStatus, copy
<1>2. CASE CreateEntitlement(s)
  <2>1. PICK e \in Entitlements :
           /\ ent[e].status = "ABSENT"
           /\ ent' = [ent EXCEPT ![e] = [tenant |-> action[s].tenant, product |-> action[s].product, status |-> "ACTIVE"]]
    BY <1>2 DEF CreateEntitlement
  <2>2. action[s].allow
    BY <1>0, <1>2, Blanks DEF CreateEntitlement, At, ShapeOK, LinkOps
  <2>3. /\ \A x \in Entitlements \ {e} : ent'[x] = ent[x]
        /\ ent'[e].tenant = action[s].tenant /\ ent'[e].product = action[s].product /\ ent'[e].status = "ACTIVE"
    BY <1>0, <2>1
  <2>4. t = action[s].tenant /\ p = action[s].product => Covers(t, p)'
    BY <2>3, CoversIs
  <2>5. Covers(t, p) => Covers(t, p)'
    BY <2>1, <2>3, CoversIs
  <2>6. t # action[s].tenant \/ p # action[s].product => (Covers(t, p)' => Covers(t, p))
    BY <2>3, CoversIs
  <2> QED
    BY <1>1, <2>2, <2>4, <2>5, <2>6
<1>3. CASE SetEntitlementStatus(s)
  <2> DEFINE e == action[s].on
             new == IF action[s].allow THEN "ACTIVE" ELSE "REVOKED"
  <2>1. e \in Entitlements /\ ent[e].tenant = action[s].tenant /\ ent[e].product = action[s].product /\ ent[e].status # "ABSENT"
    BY <1>0, <1>3, Blanks DEF SetEntitlementStatus, At, ShapeOK, LinkOps, OnInv
  <2>2. ent' = [ent EXCEPT ![e] = [ent[e] EXCEPT !.status = new]]
    BY <1>3 DEF SetEntitlementStatus
  <2>3. ent[e] \in [tenant : TenantIds, product : Products, status : {"ACTIVE", "REVOKED"}]
    BY <1>0, <2>1 DEF EntType, NoGrant
  <2>4. action[s].allow \in BOOLEAN /\ (action[s].allow => new = "ACTIVE") /\ (~action[s].allow => new = "REVOKED")
    BY <1>0 DEF ActionType
  <2> HIDE DEF e, new
  <2>5. /\ \A x \in Entitlements \ {e} : ent'[x] = ent[x]
        /\ ent'[e].tenant = action[s].tenant /\ ent'[e].product = action[s].product /\ ent'[e].status = new
    BY <1>0, <2>1, <2>2, <2>3
  <2>6. action[s].allow => /\ Covers(t, p) => Covers(t, p)'
                           /\ t = action[s].tenant /\ p = action[s].product => Covers(t, p)'
    BY <2>1, <2>4, <2>5, CoversIs
  <2>7. ~action[s].allow => (Covers(t, p)' => Covers(t, p))
    BY <2>1, <2>4, <2>5, CoversIs
  <2>8. t # action[s].tenant \/ p # action[s].product => (Covers(t, p)' <=> Covers(t, p))
    BY <2>1, <2>5, CoversIs
  <2> QED
    BY <1>1, <2>6, <2>7, <2>8
<1> QED
  BY <1>2, <1>3

\* A step on the links of a dataset leaves the others.
LEMMA LinkWrites ==
    ASSUME TypeInv, NEW s \in Actors, InsertLink(s) \/ DeleteLink(s) \/ DissociateAll(s), NEW t,
           NEW p \in Products, NEW d \in Datasets
    PROVE  /\ d # action[s].dataset => links'[<<p, d>>] = links[<<p, d>>]
           /\ InsertLink(s) => /\ links'[<<p, d>>] = IF p = action[s].product /\ d = action[s].dataset
                                                     THEN links[<<p, d>>] + 1 ELSE links[<<p, d>>]
           /\ DeleteLink(s) => /\ links'[<<p, d>>] <= links[<<p, d>>]
                               /\ p # action[s].product => links'[<<p, d>>] = links[<<p, d>>]
           /\ DissociateAll(s) => /\ links'[<<p, d>>] <= links[<<p, d>>]
                                  /\ d = action[s].dataset => links'[<<p, d>>] = 0
           /\ links[<<p, d>>] \in Nat /\ Covers(t, p)' = Covers(t, p) /\ dataset' = dataset /\ entCopy' = entCopy /\ cut' = cut
<1>0. links \in [Products \X Datasets -> Nat] /\ <<p, d>> \in Products \X Datasets
  BY DEF TypeInv
<1>1. ent' = ent /\ dataset' = dataset /\ entCopy' = entCopy /\ cut' = cut
  BY DEF InsertLink, DeleteLink, DissociateAll, copy
<1>2. Covers(t, p)' = Covers(t, p)
  BY <1>1 DEF Covers, EntitledToAny
<1>3. CASE InsertLink(s)
  BY <1>0, <1>1, <1>2, <1>3 DEF InsertLink, DeleteLink, DissociateAll, At, LinkOps
<1>4. CASE DeleteLink(s)
  BY <1>0, <1>1, <1>2, <1>4 DEF InsertLink, DeleteLink, DissociateAll, At
<1>5. CASE DissociateAll(s)
  BY <1>0, <1>1, <1>2, <1>5 DEF InsertLink, DeleteLink, DissociateAll, At
<1> QED
  BY <1>3, <1>4, <1>5

LEMMA PushWrites ==
    ASSUME TypeInv, NEW s \in Actors, UpsertEntitlement(s), NEW t \in TenantIds, NEW d \in Datasets
    PROVE  \E x \in action[s].push :
              /\ Continues(s) /\ OnePush(s, x) /\ x \in TenantIds \X Datasets \X BOOLEAN
              /\ <<x[1], x[2]>> \in Concerns(action[s])
              /\ UNCHANGED portal
              /\ <<t, d>> # <<x[1], x[2]>> => Same(t, d)
              /\ x[2] \notin dsCopy => <<x[1], x[2]>> \in excused'
              /\ x[2] \in dsCopy /\ x[3] => <<x[1], x[2]>> \in entCopy' /\ cut' = cut \ {<<x[1], x[2]>>}
              /\ x[2] \in dsCopy /\ ~x[3] => <<x[1], x[2]>> \notin entCopy' /\ cut' = cut
<1>1. PICK x \in action[s].push :
        /\ entCopy' = Delivered(x[1], x[2], x[3]) /\ Sent(s, x)
        /\ cut' = IF x[3] THEN cut \ {<<x[1], x[2]>>} ELSE cut
        /\ excused' = IF x[2] \in dsCopy THEN excused ELSE excused \cup {<<x[1], x[2]>>}
  BY DEF UpsertEntitlement
<1>2. Continues(s) /\ OnePush(s, x) /\ x \in TenantIds \X Datasets \X BOOLEAN /\ <<x[1], x[2]>> \in Concerns(action[s])
  BY <1>1, SentIs
<1>3. UNCHANGED portal
  BY DEF UpsertEntitlement
<1>4. ASSUME <<t, d>> # <<x[1], x[2]>> PROVE Same(t, d)
  <2>1. ent' = ent /\ links' = links
    BY <1>3 DEF portal
  <2>2. \A p \in Products : Covers(t, p)' <=> Covers(t, p)
    BY <2>1, CoversStay
  <2>3. (<<t, d>> \in entCopy' <=> <<t, d>> \in entCopy) /\ (<<t, d>> \in cut => <<t, d>> \in cut')
    BY <1>1, <1>4 DEF Delivered
  <2> QED
    BY <2>1, <2>2, <2>3 DEF Same
<1>5. x[2] \notin dsCopy => <<x[1], x[2]>> \in excused'
  BY <1>1
<1>6. x[2] \in dsCopy /\ x[3] => <<x[1], x[2]>> \in entCopy' /\ cut' = cut \ {<<x[1], x[2]>>}
  BY <1>1 DEF Delivered
<1>7. x[2] \in dsCopy /\ ~x[3] => <<x[1], x[2]>> \notin entCopy' /\ cut' = cut
  BY <1>1 DEF Delivered
<1> QED
  BY <1>2, <1>3, <1>4, <1>5, <1>6, <1>7

LEMMA StepContinues ==
    ASSUME TypeInv, NEW s \in Actors, CallStep(s), ~Submit(s)
    PROVE  Continues(s) /\ action[s] # NoAction
<1>0. ShapeOK(action[s])
  BY DEF TypeInv
<1>1. CASE FindDuplicate(s) \/ CreateEntitlement(s) \/ SetEntitlementStatus(s) \/ SyncEntitlement(s)
  BY <1>1, FindDuplicateIs, CreateEntitlementIs, SetEntitlementStatusIs, SyncEntitlementIs, Blanks DEF Walk, Leave, Pushes, GrantOps
<1>2. CASE CreateDataset(s) \/ SyncDataProduct(s) \/ FindLink(s) \/ InsertLink(s) \/ ListHolders(s)
  BY <1>2, CreateDatasetIs, SyncDataProductIs, FindLinkIs, InsertLinkIs, ListHoldersIs, Blanks DEF Walk, Leave, Pushes, LinkOps
<1>3. CASE DeleteLink(s) \/ ListRemaining(s) \/ Recompute(s) \/ DissociateAll(s) \/ DeleteDataset(s)
  BY <1>3, DeleteLinkIs, ListRemainingIs, RecomputeIs, DissociateAllIs, DeleteDatasetIs, Blanks DEF Walk, Leave
<1>4. CASE UpsertEntitlement(s)
  <2>1. PICK x \in action[s].push : Sent(s, x)
    BY <1>4 DEF UpsertEntitlement
  <2> QED
    BY <2>1, SentIs, Blanks
<1>5. CASE PushFails(s)
  <2>1. CASE \E x \in action[s].push : Sent(s, x)
    BY <2>1, SentIs, Blanks
  <2>2. CASE At(s, {"create"}, "copy") /\ GoTo(s, "read")
    BY <2>2, Walked, Blanks DEF Points, Walk
  <2> QED
    BY <1>5, <2>1, <2>2 DEF PushFails
<1>6. CASE ActorDies(s)
  BY <1>6, ActorDiesIs
<1> QED
  BY <1>1, <1>2, <1>3, <1>4, <1>5, <1>6 DEF CallStep

\* What an action does not decide on, its step does not touch.
LEMMA Untouched ==
    ASSUME TypeInv, NEW s \in Actors, CallStep(s), NEW t \in TenantIds, NEW d \in Datasets, <<t, d>> \notin Concerns(action[s])
    PROVE  Same(t, d) /\ (dataset'[d] = "present" => dataset[d] = "present")
<1>0. action[s] \in ActionType /\ ShapeOK(action[s]) /\ dataset \in [Datasets -> {"absent", "present", "deleted"}]
  BY DEF TypeInv
<1>1. ~(action[s].op \in GrantOps /\ action[s].tenant = t) /\ ~(action[s].op \in DatasetOps /\ action[s].dataset = d)
  BY <1>0, ConcernsIs
<1>2. CASE Submit(s) \/ FindDuplicate(s) \/ SyncEntitlement(s) \/ FindLink(s) \/ ListHolders(s) \/ ListRemaining(s) \/ Recompute(s)
             \/ PushFails(s) \/ ActorDies(s) \/ SyncDataProduct(s)
  BY <1>2, IdleStays
<1>3. CASE CreateEntitlement(s) \/ SetEntitlementStatus(s)
  <2>1. action[s].tenant # t
    BY <1>1, <1>3 DEF CreateEntitlement, SetEntitlementStatus, At, GrantOps
  <2>2. \A p \in Products : Covers(t, p)' <=> Covers(t, p)
    BY <1>3, <2>1, GrantWrites
  <2>3. links' = links /\ dataset' = dataset /\ entCopy' = entCopy /\ cut' = cut
    BY <1>3 DEF CreateEntitlement, SetEntitlementStatus, copy
  <2> QED
    BY <2>2, <2>3 DEF Same
<1>4. CASE CreateDataset(s) \/ DeleteDataset(s)
  <2>1. action[s].dataset # d
    BY <1>1, <1>4 DEF CreateDataset, DeleteDataset, At, DatasetOps, LinkOps
  <2>2. ent' = ent /\ links' = links /\ entCopy' = entCopy /\ cut' = cut /\ dataset'[d] = dataset[d]
    BY <1>0, <1>4, <2>1 DEF CreateDataset, DeleteDataset, copy
  <2>3. \A p \in Products : Covers(t, p)' <=> Covers(t, p)
    BY <2>2, CoversStay
  <2> QED
    BY <2>2, <2>3 DEF Same
<1>5. CASE InsertLink(s) \/ DeleteLink(s) \/ DissociateAll(s)
  <2>1. action[s].dataset # d
    BY <1>1, <1>5 DEF InsertLink, DeleteLink, DissociateAll, At, DatasetOps, LinkOps
  <2>2. \A p \in Products : Covers(t, p)' = Covers(t, p) /\ links'[<<p, d>>] = links[<<p, d>>]
    BY <1>5, <2>1, LinkWrites
  <2>3. dataset' = dataset /\ entCopy' = entCopy /\ cut' = cut
    BY <1>5 DEF InsertLink, DeleteLink, DissociateAll, copy
  <2> QED
    BY <2>2, <2>3 DEF Same
<1>6. CASE UpsertEntitlement(s)
  <2>1. PICK x \in action[s].push : <<x[1], x[2]>> \in Concerns(action[s]) /\ UNCHANGED portal /\ (<<t, d>> # <<x[1], x[2]>> => Same(t, d))
    BY <1>6, PushWrites
  <2> QED
    BY <2>1 DEF portal
<1> QED
  BY <1>2, <1>3, <1>4, <1>5, <1>6 DEF CallStep

-----------------------------------------------------------------------------
(* The pairs an action decides on *)

\* An action that waits for its next look at the portal, or has just ended.
LEMMA Resting ==
    ASSUME NEW s \in Actors, NEW t \in TenantIds, NEW d \in Datasets, action[s].push = {}, action[s].ask = {},
           action[s].pc \notin {"list", "holders", "remove", "push"}
    PROVE  ~Withdraws(action[s], t, d) /\ ~Extends(action[s], t, d)
BY DEF Withdraws, Extends

LEMMA RestingLater ==
    ASSUME NEW s \in Actors, NEW t \in TenantIds, NEW d \in Datasets, action'[s].push = {},
           action'[s].pc \notin {"list", "holders", "push"}
    PROVE  Knows(action[s], t, d)'
BY DEF Knows

LEMMA RestStep ==
    ASSUME TypeInv, NEW s \in Actors, NEW t \in TenantIds, NEW d \in Datasets, PairOK(t, d), Continues(s), Same(t, d),
           dataset'[d] = "present" => dataset[d] = "present",
           action[s].push = {}, action[s].ask = {}, action[s].pc \notin {"list", "holders", "remove", "push"},
           action'[s].push = {}, action'[s].pc \notin {"list", "holders", "push"}
    PROVE  PairOK(t, d)'
<1>1. OneMind(t, d)'
  BY MindStays DEF PairOK
<1>2. ~Withdraws(action[s], t, d) /\ ~Extends(action[s], t, d) /\ Knows(action[s], t, d)'
  BY Resting, RestingLater
<1> QED
  BY <1>1, <1>2, QuietStep DEF Continues, Others

LEMMA ApartStep ==
    ASSUME TypeInv, TypeInv', NEW s \in Actors, CallStep(s), ~Submit(s), NEW t \in TenantIds, NEW d \in Datasets,
           <<t, d>> \notin Concerns(action[s]), PairOK(t, d)
    PROVE  PairOK(t, d)'
<1>1. Continues(s) /\ OneMind(t, d)'
  BY StepContinues, MindStays DEF PairOK
<1>2. Same(t, d) /\ (dataset'[d] = "present" => dataset[d] = "present")
  BY Untouched
<1>3. ~Withdraws(action[s], t, d) /\ ~Extends(action[s], t, d)
  BY Apart
<1>4. Knows(action[s], t, d)'
  BY <1>1, ConcernsShrink, ApartLater
<1> QED
  BY <1>1, <1>2, <1>3, <1>4, QuietStep DEF Continues, Others

\* A look at the portal that finds what it looks for, or not.
LEMMA LookStep ==
    ASSUME TypeInv, NEW s \in Actors, FindDuplicate(s) \/ FindLink(s) \/ SyncDataProduct(s),
           NEW t \in TenantIds, NEW d \in Datasets, PairOK(t, d)
    PROVE  PairOK(t, d)'
<1>1. Same(t, d) /\ dataset' = dataset
  BY IdleStays
<1>2. /\ Continues(s) /\ action[s].push = {} /\ action[s].ask = {} /\ action[s].pc \notin {"list", "holders", "remove", "push"}
      /\ action'[s].push = {} /\ action'[s].pc \notin {"list", "holders", "push"}
  <2>1. CASE FindDuplicate(s)
    BY <2>1, FindDuplicateIs, Blanks DEF Walk, Leave, Waits
  <2>2. CASE FindLink(s)
    BY <2>2, FindLinkIs, Blanks DEF Walk, Leave, Waits
  <2>3. CASE SyncDataProduct(s)
    BY <2>3, SyncDataProductIs DEF Walk, Waits
  <2> QED
    BY <2>1, <2>2, <2>3
<1> QED
  BY <1>1, <1>2, RestStep

\* A grant that is made, taken back or given again.
LEMMA GrantStep ==
    ASSUME TypeInv, TypeInv', NEW s \in Actors, CreateEntitlement(s) \/ SetEntitlementStatus(s),
           NEW t \in TenantIds, NEW d \in Datasets, <<t, d>> \in Concerns(action[s]), PairOK(t, d)
    PROVE  PairOK(t, d)'
<1>0. action[s] \in ActionType /\ ShapeOK(action[s])
  BY DEF TypeInv
<1>1. \E ops : Walk(s, ops, "write", "list") /\ ops \subseteq GrantOps /\ Continues(s)
  BY CreateEntitlementIs, SetEntitlementStatusIs DEF GrantOps
<1>2. /\ action[s].op \in GrantOps /\ action[s].pc = "write" /\ action[s].push = {} /\ action[s].ask = {}
      /\ Continues(s) /\ SameAction(s) /\ action'[s].pc = "list" /\ action'[s].ask = {} /\ action'[s].push = {}
  BY <1>1 DEF Walk, Waits
<1>3. t = action[s].tenant /\ action[s].product \in Products
  BY <1>0, <1>2, ConcernsIs, Blanks DEF ShapeOK, GrantOps, DatasetOps, LinkOps
<1>4. OneMind(t, d)' /\ \A u \in Actors \ {s} : action'[u] = action[u]
  BY <1>2, MindStays DEF PairOK, Continues, Others
<1>5. ~Withdraws(action[s], t, d) /\ ~Extends(action[s], t, d)
  BY <1>2, Resting
<1>6. links' = links /\ dataset' = dataset /\ entCopy' = entCopy /\ cut' = cut
  BY DEF CreateEntitlement, SetEntitlementStatus, copy
<1>7. CASE action[s].allow
  <2>1. \A p \in Products : (Covers(t, p) => Covers(t, p)') /\ (p # action[s].product => (Covers(t, p)' <=> Covers(t, p)))
    BY <1>7, GrantWrites
  <2>2. Covers(t, action[s].product)'
    <3>1. \A p \in Products : p = action[s].product => Covers(t, p)'
      BY <1>3, <1>7, GrantWrites
    <3> QED
      BY <1>2, <1>3, <3>1 DEF SameAction
  <2>3. Knows(action[s], t, d)'
    BY <1>2, <2>2 DEF Knows, LinkOps, GrantOps, SameAction
  <2>4. ASSUME Entitled(t, d)', ~Entitled(t, d) PROVE Extends(action[s], t, d)'
    <3>1. PICK p \in Products : links[<<p, d>>] > 0 /\ Covers(t, p)'
      BY <1>6, <2>4, EntitledIs
    <3>2. p = action[s].product
      BY <2>1, <2>4, <3>1, EntitledIs
    <3> QED
      BY <1>2, <1>3, <1>6, <1>7, <3>1, <3>2 DEF Extends, SameAction
  <2> QED
    BY <1>4, <1>5, <1>6, <1>7, <2>1, <2>3, <2>4, Gain
<1>8. CASE ~action[s].allow
  <2>1. \A p \in Products : (Covers(t, p)' => Covers(t, p)) /\ (p # action[s].product => (Covers(t, p)' <=> Covers(t, p)))
    BY <1>8, GrantWrites
  <2>2. Knows(action[s], t, d)'
    BY <1>2, <1>8 DEF Knows, LinkOps, GrantOps, SameAction
  <2>3. Entitled(t, d)' => Entitled(t, d)
    BY <1>6, <2>1, EntitledIs
  <2>4. ASSUME Entitled(t, d), ~Entitled(t, d)' PROVE Withdraws(action[s], t, d)'
    <3>1. PICK p \in Products : links[<<p, d>>] > 0 /\ Covers(t, p)
      BY <2>4, EntitledIs
    <3>2. p = action[s].product
      BY <1>6, <2>1, <2>4, <3>1, EntitledIs
    <3>3. action[s].op = "setStatus"
      BY <1>0, <1>2, <1>8, Blanks DEF ShapeOK, GrantOps, LinkOps
    <3> QED
      BY <1>2, <1>3, <1>6, <1>8, <3>1, <3>2, <3>3 DEF Withdraws, SameAction
  <2> QED
    BY <1>4, <1>5, <1>6, <1>8, <2>2, <2>3, <2>4, Loss
<1> QED
  BY <1>7, <1>8

\* The decision of a grant is turned into pushes.
LEMMA TellStep ==
    ASSUME TypeInv, NEW s \in Actors, SyncEntitlement(s),
           NEW t \in TenantIds, NEW d \in Datasets, <<t, d>> \in Concerns(action[s]), PairOK(t, d)
    PROVE  PairOK(t, d)'
<1>0. action[s] \in ActionType /\ ShapeOK(action[s])
  BY DEF TypeInv
<1>1. Continues(s) /\ Pushes(s, GrantOps, "list", Told(s))
  BY SyncEntitlementIs
<1>2. action[s].op \in GrantOps /\ action[s].pc = "list" /\ action[s].push = {} /\ action[s].ask = {} /\ action[s].allow \in BOOLEAN
  BY <1>0, <1>1 DEF Pushes, ActionType
<1>3. t = action[s].tenant /\ action[s].product \in Products /\ (~action[s].allow => action[s].op = "setStatus")
  BY <1>0, <1>2, ConcernsIs, Blanks DEF ShapeOK, GrantOps, DatasetOps, LinkOps
<1>4. /\ action'[s].push = Told(s) /\ action'[s].pc \in {"push", "idle"} /\ action'[s].op # "dissociate"
      /\ Told(s) # {} => SameAction(s)
  BY <1>1, <1>2, Blanks DEF Pushes, SameAction, GrantOps
<1>5. \A b : <<t, d, b>> \in Told(s) <=> links[<<action[s].product, d>>] > 0 /\ b = action[s].allow
  BY <1>3 DEF Told, DatasetsOf
<1>6. Same(t, d) /\ dataset' = dataset
  BY IdleStays
<1>7. Entitled(t, d)' <=> Entitled(t, d)
  BY <1>6, SameEntitled
<1>8. /\ action[s].allow => (\A b : <<t, d, b>> \in Told(s) => b = TRUE)
      /\ ~action[s].allow => (\A b : <<t, d, b>> \in Told(s) => b = FALSE)
  BY <1>2, <1>5
<1>9. Knows(action[s], t, d)'
  <2>1. ASSUME <<t, d, TRUE>> \in Told(s) PROVE Entitled(t, d)'
    <3>1. action[s].allow /\ links[<<action[s].product, d>>] > 0
      BY <1>2, <1>5, <2>1
    <3>2. Covers(t, action[s].product)
      BY <1>2, <1>3, <3>1 DEF PairOK, Knows
    <3> QED
      BY <1>3, <1>7, <3>1, <3>2, EntitledIs
  <2>2. ASSUME <<t, d, FALSE>> \in Told(s) PROVE ~Entitled(t, d)' \/ (action'[s].op = "setStatus" /\ <<t, d>> \in cut')
    <3>1. ~action[s].allow /\ links[<<action[s].product, d>>] > 0
      BY <1>2, <1>5, <2>2
    <3>2. SameAction(s) /\ action[s].op = "setStatus"
      BY <1>3, <1>4, <2>2, <3>1
    <3>3. cut' = cut \cup {x \in {action[s].tenant} \X DatasetsOf(action[s].product) : ~action[s].allow /\ Entitled(x[1], x[2])}
      BY DEF SyncEntitlement
    <3>4. <<t, d>> \in {action[s].tenant} \X DatasetsOf(action[s].product)
      BY <1>3, <3>1 DEF DatasetsOf
    <3>5. Entitled(t, d) => <<t, d>> \in cut'
      BY <3>1, <3>3, <3>4
    <3> QED
      BY <1>7, <3>2, <3>5 DEF SameAction
  <2> QED
    BY <1>4, <2>1, <2>2 DEF Knows
<1>10. Withdraws(action[s], t, d) => Withdraws(action[s], t, d)'
  <2>1. SUFFICES ASSUME Withdraws(action[s], t, d) PROVE <<t, d, FALSE>> \in Told(s)
    BY <1>4 DEF Withdraws
  <2>2. ~action[s].allow /\ links[<<action[s].product, d>>] > 0
    BY <1>2, <2>1 DEF Withdraws
  <2> QED
    BY <1>2, <1>5, <2>2
<1>11. Extends(action[s], t, d) => Extends(action[s], t, d)'
  <2>1. SUFFICES ASSUME Extends(action[s], t, d) PROVE <<t, d, TRUE>> \in Told(s)
    BY <1>4 DEF Extends
  <2>2. action[s].allow /\ links[<<action[s].product, d>>] > 0
    BY <1>2, <2>1 DEF Extends
  <2> QED
    BY <1>2, <1>5, <2>2
<1>12. OneMind(t, d)' /\ \A u \in Actors \ {s} : action'[u] = action[u]
  BY <1>1, MindStays DEF PairOK, Continues, Others
<1> QED
  BY <1>6, <1>9, <1>10, <1>11, <1>12, QuietStep

\* A link is added: whoever holds the product is looked for afterwards.
LEMMA LinkStep ==
    ASSUME TypeInv, TypeInv', NEW s \in Actors, InsertLink(s),
           NEW t \in TenantIds, NEW d \in Datasets, <<t, d>> \in Concerns(action[s]), PairOK(t, d)
    PROVE  PairOK(t, d)'
<1>0. action[s] \in ActionType /\ ShapeOK(action[s])
  BY DEF TypeInv
<1>1. /\ action[s].op \in LinkOps /\ action[s].pc = "insert" /\ action[s].push = {} /\ action[s].ask = {}
      /\ Continues(s) /\ SameAction(s) /\ action'[s].pc = "holders" /\ action'[s].push = {}
  BY InsertLinkIs DEF Walk, Waits
<1>2. d = action[s].dataset /\ action[s].product \in Products /\ action[s].allow
  BY <1>0, <1>1, ConcernsIs, Blanks DEF ShapeOK, GrantOps, DatasetOps, LinkOps
<1>3. OneMind(t, d)' /\ \A u \in Actors \ {s} : action'[u] = action[u]
  BY <1>1, MindStays DEF PairOK, Continues, Others
<1>4. ~Withdraws(action[s], t, d) /\ ~Extends(action[s], t, d)
  BY <1>1, Resting
<1>5. /\ \A p \in Products : /\ links[<<p, d>>] \in Nat /\ Covers(t, p)' = Covers(t, p)
                             /\ links'[<<p, d>>] = IF p = action[s].product THEN links[<<p, d>>] + 1 ELSE links[<<p, d>>]
      /\ dataset' = dataset /\ entCopy' = entCopy /\ cut' = cut
  <2>1. dataset' = dataset /\ entCopy' = entCopy /\ cut' = cut
    BY DEF InsertLink, copy
  <2> QED
    BY <1>2, <2>1, LinkWrites
<1>6. links'[<<action[s].product, d>>] > 0
  BY <1>2, <1>5
<1>7. Knows(action[s], t, d)'
  BY <1>1, <1>6 DEF Knows, SameAction, GrantOps, LinkOps
<1>8. ASSUME Entitled(t, d)', ~Entitled(t, d) PROVE Extends(action[s], t, d)'
  <2>1. PICK p \in Products : links'[<<p, d>>] > 0 /\ Covers(t, p)'
    BY <1>8, EntitledIs
  <2>2. p = action[s].product
    BY <1>5, <1>8, <2>1, EntitledIs
  <2> QED
    BY <1>1, <1>2, <2>1, <2>2 DEF Extends, SameAction
<1>9. \A p \in Products : (Covers(t, p) => Covers(t, p)') /\ (links[<<p, d>>] > 0 => links'[<<p, d>>] > 0)
  BY <1>5
<1> QED
  BY <1>2, <1>3, <1>4, <1>5, <1>7, <1>8, <1>9, Gain

\* A link goes, or all of a dataset.
LEMMA UnlinkStep ==
    ASSUME TypeInv, TypeInv', NEW s \in Actors, DeleteLink(s) \/ DissociateAll(s),
           NEW t \in TenantIds, NEW d \in Datasets, <<t, d>> \in Concerns(action[s]), PairOK(t, d)
    PROVE  PairOK(t, d)'
<1>0. action[s] \in ActionType /\ ShapeOK(action[s])
  BY DEF TypeInv
<1>1. /\ action[s].pc = "write" /\ action[s].push = {} /\ action[s].ask = {}
      /\ Continues(s) /\ SameAction(s) /\ action'[s].push = {}
      /\ \/ DeleteLink(s) /\ action[s].op = "dissociate" /\ action'[s].pc = "holders"
         \/ DissociateAll(s) /\ action[s].op = "delete" /\ action'[s].pc = "remove"
  BY DeleteLinkIs, DissociateAllIs DEF Walk, Waits
<1>2. d = action[s].dataset /\ ~action[s].allow
  BY <1>0, <1>1, ConcernsIs, Blanks DEF ShapeOK, GrantOps, DatasetOps, LinkOps
<1>3. OneMind(t, d)' /\ \A u \in Actors \ {s} : action'[u] = action[u]
  BY <1>1, MindStays DEF PairOK, Continues, Others
<1>4. ~Withdraws(action[s], t, d) /\ ~Extends(action[s], t, d)
  BY <1>1, Resting
<1>5. /\ \A p \in Products : links[<<p, d>>] \in Nat /\ Covers(t, p)' = Covers(t, p) /\ links'[<<p, d>>] <= links[<<p, d>>]
      /\ DeleteLink(s) => \A p \in Products : p # action[s].product => links'[<<p, d>>] = links[<<p, d>>]
      /\ dataset' = dataset /\ entCopy' = entCopy /\ cut' = cut
  <2>1. dataset' = dataset /\ entCopy' = entCopy /\ cut' = cut
    BY DEF DeleteLink, DissociateAll, copy
  <2> QED
    BY <2>1, LinkWrites
<1>6. links' \in [Products \X Datasets -> Nat]
  BY DEF TypeInv
<1>7. Entitled(t, d)' => Entitled(t, d)
  <2>1. \A p \in Products : links'[<<p, d>>] \in Nat
    BY <1>6
  <2> QED
    BY <1>5, <2>1, EntitledIs
<1>8. Knows(action[s], t, d)'
  BY <1>1 DEF Knows, SameAction, GrantOps, LinkOps
<1>9. ASSUME Entitled(t, d), ~Entitled(t, d)' PROVE Withdraws(action[s], t, d)'
  <2>1. CASE DissociateAll(s) /\ action[s].op = "delete" /\ action'[s].pc = "remove"
    BY <1>1, <1>2, <2>1 DEF Withdraws, SameAction
  <2>2. CASE DeleteLink(s) /\ action[s].op = "dissociate" /\ action'[s].pc = "holders"
    <3>1. PICK p \in Products : links[<<p, d>>] > 0 /\ Covers(t, p)
      BY <1>9, EntitledIs
    <3>2. p = action[s].product
      BY <1>5, <1>9, <2>2, <3>1, EntitledIs
    <3>3. Covers(t, action[s].product)'
      BY <1>1, <1>5, <3>1, <3>2 DEF SameAction
    <3> QED
      BY <1>1, <1>2, <2>2, <3>3 DEF Withdraws, SameAction
  <2> QED
    BY <1>1, <2>1, <2>2
<1> QED
  BY <1>2, <1>3, <1>4, <1>5, <1>7, <1>8, <1>9, Loss

\* The tenants a new link is for.
LEMMA HoldersStep ==
    ASSUME TypeInv, NEW s \in Actors, ListHolders(s),
           NEW t \in TenantIds, NEW d \in Datasets, <<t, d>> \in Concerns(action[s]), PairOK(t, d)
    PROVE  PairOK(t, d)'
<1>0. action[s] \in ActionType /\ ShapeOK(action[s])
  BY DEF TypeInv
<1>1. Continues(s) /\ Pushes(s, LinkOps, "holders", ToldLink(s))
  BY ListHoldersIs
<1>2. action[s].op \in LinkOps /\ action[s].pc = "holders" /\ action[s].push = {} /\ action[s].ask = {}
  BY <1>1 DEF Pushes
<1>3. d = action[s].dataset /\ action[s].product \in Products /\ action[s].allow
  BY <1>0, <1>2, ConcernsIs, Blanks DEF ShapeOK, GrantOps, DatasetOps, LinkOps
<1>4. action'[s].push = ToldLink(s) /\ action'[s].pc \in {"push", "idle"} /\ action'[s].op # "dissociate"
  BY <1>1, <1>2, Blanks DEF Pushes, SameAction, LinkOps
<1>5. \A b : <<t, d, b>> \in ToldLink(s) <=> Covers(t, action[s].product) /\ b = TRUE
  BY <1>3 DEF ToldLink, HoldersOf, Covers
<1>6. Same(t, d) /\ dataset' = dataset
  BY IdleStays
<1>7. Entitled(t, d)' <=> Entitled(t, d)
  BY <1>6, SameEntitled
<1>8. links[<<action[s].product, d>>] > 0
  BY <1>2, <1>3 DEF PairOK, Knows
<1>9. Knows(action[s], t, d)'
  <2>1. <<t, d, TRUE>> \in ToldLink(s) => Entitled(t, d)'
    BY <1>3, <1>5, <1>7, <1>8, EntitledIs
  <2>2. <<t, d, FALSE>> \notin ToldLink(s)
    BY <1>5
  <2> QED
    BY <1>4, <2>1, <2>2 DEF Knows
<1>10. ~Withdraws(action[s], t, d)
  BY <1>3, AllowKeeps
<1>11. Extends(action[s], t, d) => Extends(action[s], t, d)'
  <2>1. SUFFICES ASSUME Extends(action[s], t, d) PROVE <<t, d, TRUE>> \in ToldLink(s)
    BY <1>4 DEF Extends
  <2>2. Covers(t, action[s].product)
    BY <1>2, <2>1 DEF Extends
  <2> QED
    BY <1>5, <2>2
<1>12. OneMind(t, d)' /\ \A u \in Actors \ {s} : action'[u] = action[u]
  BY <1>1, MindStays DEF PairOK, Continues, Others
<1> QED
  BY <1>6, <1>9, <1>10, <1>11, <1>12, QuietStep

\* The tenants a link was for, and the products that remain.
LEMMA RemainingStep ==
    ASSUME TypeInv, NEW s \in Actors, ListRemaining(s),
           NEW t \in TenantIds, NEW d \in Datasets, <<t, d>> \in Concerns(action[s]), PairOK(t, d)
    PROVE  PairOK(t, d)'
<1>0. action[s] \in ActionType /\ ShapeOK(action[s])
  BY DEF TypeInv
<1>1. /\ Continues(s) /\ action[s].op = "dissociate" /\ action[s].pc = "holders" /\ action[s].push = {} /\ action[s].ask = {}
      /\ \/ HoldersOf(action[s].product) = {} /\ action'[s] = NoAction
         \/ /\ SameAction(s) /\ action'[s].pc = "push" /\ action'[s].ask = HoldersOf(action[s].product)
            /\ action'[s].push = {} /\ action'[s].under = ProductsOf(action[s].dataset)
  BY ListRemainingIs
<1>2. d = action[s].dataset
  BY <1>0, <1>1, ConcernsIs, Blanks DEF ShapeOK, GrantOps, DatasetOps, LinkOps
<1>3. Same(t, d) /\ dataset' = dataset
  BY IdleStays
<1>4. ProductsOf(d)' = ProductsOf(d)
  BY <1>3, SameEntitled
<1>5. Knows(action[s], t, d)'
  <2>1. CASE action'[s] = NoAction
    BY <2>1, Blanks, RestingLater
  <2>2. CASE /\ SameAction(s) /\ action'[s].pc = "push" /\ action'[s].push = {} /\ action'[s].under = ProductsOf(action[s].dataset)
    BY <1>1, <1>2, <1>4, <2>2 DEF Knows, SameAction, GrantOps, LinkOps
  <2> QED
    BY <1>1, <2>1, <2>2
<1>6. Withdraws(action[s], t, d) => Withdraws(action[s], t, d)'
  <2>1. SUFFICES ASSUME Withdraws(action[s], t, d) PROVE Withdraws(action[s], t, d)'
    OBVIOUS
  <2>2. Covers(t, action[s].product)
    BY <1>1, <2>1 DEF Withdraws
  <2>3. t \in HoldersOf(action[s].product)
    BY <2>2 DEF HoldersOf, Covers
  <2> QED
    BY <1>1, <1>2, <2>3 DEF Withdraws, SameAction
<1>7. ~Extends(action[s], t, d)
  BY <1>1 DEF Extends, GrantOps, LinkOps
<1>8. OneMind(t, d)' /\ \A u \in Actors \ {s} : action'[u] = action[u]
  BY <1>1, MindStays DEF PairOK, Continues, Others
<1> QED
  BY <1>3, <1>5, <1>6, <1>7, <1>8, QuietStep

\* One of those tenants is judged by the products that remain.
LEMMA JudgeStep ==
    ASSUME TypeInv, NEW s \in Actors, Recompute(s),
           NEW t \in TenantIds, NEW d \in Datasets, <<t, d>> \in Concerns(action[s]), PairOK(t, d)
    PROVE  PairOK(t, d)'
<1>0. action[s] \in ActionType /\ ShapeOK(action[s])
  BY DEF TypeInv
<1>1. Continues(s) /\ SameAction(s) /\ action[s].op = "dissociate" /\ action[s].pc = "push"
  BY RecomputeIs
<1>2. PICK k \in action[s].ask :
         /\ action'[s].pc = "push" /\ action'[s].ask = action[s].ask \ {k} /\ action'[s].under = action[s].under
         /\ action'[s].push = action[s].push \cup {<<k, action[s].dataset, EntitledToAny(k, action[s].under)>>}
  BY RecomputeIs
<1>3. d = action[s].dataset
  BY <1>0, <1>1, ConcernsIs, Blanks DEF ShapeOK, GrantOps, DatasetOps, LinkOps
<1>4. Same(t, d) /\ dataset' = dataset
  BY IdleStays
<1>5. (Entitled(t, d)' <=> Entitled(t, d)) /\ ProductsOf(d)' = ProductsOf(d)
  BY <1>4, SameEntitled
<1>6. action[s].under = ProductsOf(d) /\ Knows(action[s], t, d)
  BY <1>1, <1>3 DEF PairOK, Knows
<1>7. EntitledToAny(t, action[s].under) = Entitled(t, d) /\ Entitled(t, d) \in BOOLEAN
  BY <1>6 DEF Entitled, EntitledToAny
<1> DEFINE b == EntitledToAny(k, action[s].under)
<1>8. k = t => (b = TRUE /\ Entitled(t, d)) \/ (b = FALSE /\ ~Entitled(t, d))
  BY <1>7
<1>9. action'[s].push = action[s].push \cup {<<k, d, b>>}
  BY <1>2, <1>3
<1> HIDE DEF b
<1>10. Knows(action[s], t, d)'
  <2>1. <<t, d, TRUE>> \in action'[s].push => Entitled(t, d)'
    <3>1. CASE <<t, d, TRUE>> \in action[s].push
      BY <1>5, <1>6, <3>1 DEF Knows
    <3>2. CASE <<t, d, TRUE>> = <<k, d, b>>
      BY <1>5, <1>8, <3>2
    <3> QED
      BY <1>9, <3>1, <3>2
  <2>2. <<t, d, FALSE>> \in action'[s].push => ~Entitled(t, d)'
    <3>1. CASE <<t, d, FALSE>> \in action[s].push
      BY <1>1, <1>5, <1>6, <3>1 DEF Knows
    <3>2. CASE <<t, d, FALSE>> = <<k, d, b>>
      BY <1>5, <1>8, <3>2
    <3> QED
      BY <1>9, <3>1, <3>2
  <2> QED
    BY <1>1, <1>2, <1>3, <1>5, <1>6, <2>1, <2>2 DEF Knows, SameAction, GrantOps, LinkOps
<1>11. Withdraws(action[s], t, d) => Withdraws(action[s], t, d)' \/ Entitled(t, d)
  <2>1. SUFFICES ASSUME Withdraws(action[s], t, d), ~Entitled(t, d) PROVE Withdraws(action[s], t, d)'
    OBVIOUS
  <2>2. t \in action[s].ask \/ <<t, d, FALSE>> \in action[s].push
    BY <1>1, <2>1 DEF Withdraws
  <2>3. CASE t # k /\ t \in action[s].ask
    BY <1>1, <1>2, <1>3, <2>3 DEF Withdraws, SameAction
  <2>4. CASE t = k
    <3>1. b = FALSE
      BY <1>8, <2>1, <2>4
    <3>2. <<t, d, FALSE>> \in action'[s].push
      BY <1>9, <2>4, <3>1
    <3> QED
      BY <3>2 DEF Withdraws
  <2>5. CASE <<t, d, FALSE>> \in action[s].push
    BY <1>9, <2>5 DEF Withdraws
  <2> QED
    BY <2>2, <2>3, <2>4, <2>5
<1>12. Extends(action[s], t, d) => Extends(action[s], t, d)'
  BY <1>1, <1>9 DEF Extends, GrantOps, LinkOps
<1>13. OneMind(t, d)' /\ \A u \in Actors \ {s} : action'[u] = action[u]
  BY <1>1, MindStays DEF PairOK, Continues, Others
<1> QED
  BY <1>4, <1>10, <1>11, <1>12, <1>13, QuietStep

\* A dataset that has just been created has no link and no copy yet.
LEMMA CreateStep ==
    ASSUME TypeInv, TypeInv', DatasetInv, NEW s \in Actors, CreateDataset(s),
           NEW t \in TenantIds, NEW d \in Datasets, <<t, d>> \in Concerns(action[s]), PairOK(t, d)
    PROVE  PairOK(t, d)'
<1>0. action[s] \in ActionType /\ ShapeOK(action[s])
  BY DEF TypeInv
<1>1. /\ Continues(s) /\ action[s].op = "create" /\ action[s].pc = "write" /\ action'[s].push = {} /\ action'[s].pc = "copy"
  BY CreateDatasetIs DEF Walk, Waits
<1>2. d = action[s].dataset
  BY <1>0, <1>1, ConcernsIs, Blanks DEF ShapeOK, GrantOps, DatasetOps, LinkOps
<1>3. dataset[d] = "absent"
  BY <1>1, <1>2 DEF DatasetInv, Creates, DatasetOps, LinkOps
<1>4. ~Entitled(t, d) /\ <<t, d>> \notin entCopy
  <2>1. \A p \in Products : ~(links[<<p, d>>] > 0)
    BY <1>3 DEF DatasetInv
  <2>2. d \notin dsCopy
    BY <1>3 DEF TypeInv
  <2> QED
    BY <2>1, <2>2, EntitledIs DEF TypeInv
<1>5. ent' = ent /\ links' = links /\ entCopy' = entCopy /\ cut' = cut
  BY DEF CreateDataset, copy
<1>6. Same(t, d)
  BY <1>5, CoversStay DEF Same
<1>7. ~Entitled(t, d)' /\ <<t, d>> \notin entCopy'
  BY <1>4, <1>5, <1>6, SameEntitled
<1>8. ASSUME NEW u \in Actors PROVE Knows(action[u], t, d)'
  <2>1. CASE u = s
    BY <1>1, <2>1, RestingLater
  <2>2. CASE u # s
    BY <1>1, <1>6, <2>2, SameKnown DEF PairOK, Continues, Others
  <2> QED
    BY <2>1, <2>2
<1>9. OneMind(t, d)' /\ NoMore(t, d)' /\ NoLess(t, d)'
  BY <1>1, <1>7, MindStays DEF PairOK, NoMore, NoLess
<1> QED
  BY <1>8, <1>9 DEF PairOK

LEMMA DeleteStep ==
    ASSUME TypeInv, NEW s \in Actors, DeleteDataset(s),
           NEW t \in TenantIds, NEW d \in Datasets, <<t, d>> \in Concerns(action[s]), PairOK(t, d)
    PROVE  PairOK(t, d)'
<1>0. action[s] \in ActionType /\ ShapeOK(action[s]) /\ dataset \in [Datasets -> {"absent", "present", "deleted"}]
  BY DEF TypeInv
<1>1. Continues(s) /\ action[s].op = "delete" /\ action'[s] = NoAction
  BY DeleteDatasetIs DEF Leave
<1>2. d = action[s].dataset
  BY <1>0, <1>1, ConcernsIs, Blanks DEF ShapeOK, GrantOps, DatasetOps, LinkOps
<1>3. dataset'[d] # "present"
  BY <1>0, <1>2 DEF DeleteDataset
<1>4. Same(t, d)
  BY CoversStay DEF DeleteDataset, Same, copy
<1>5. Knows(action[s], t, d)'
  BY <1>1, Blanks, RestingLater
<1>6. OneMind(t, d)' /\ \A u \in Actors \ {s} : action'[u] = action[u]
  BY <1>1, MindStays DEF PairOK, Continues, Others
<1> QED
  BY <1>3, <1>4, <1>5, <1>6, QuietStep

\* A push for another pair.
LEMMA OtherPush ==
    ASSUME TypeInv, NEW s \in Actors, NEW x \in TenantIds \X Datasets \X BOOLEAN, OnePush(s, x), Continues(s),
           NEW t \in TenantIds, NEW d \in Datasets, <<t, d>> # <<x[1], x[2]>>, Same(t, d), dataset' = dataset, PairOK(t, d)
    PROVE  PairOK(t, d)'
<1>0. action[s] \in ActionType /\ ShapeOK(action[s])
  BY DEF TypeInv
<1>1. \A b : <<t, d, b>> # x
  OBVIOUS
<1>2. Knows(action[s], t, d) /\ (Entitled(t, d)' <=> Entitled(t, d)) /\ ProductsOf(d)' = ProductsOf(d)
  BY SameEntitled DEF PairOK
<1>3. OneMind(t, d)' /\ \A u \in Actors \ {s} : action'[u] = action[u]
  BY MindStays DEF PairOK, Continues, Others
<1>4. CASE action[s].push \subseteq {x} /\ action[s].ask = {} /\ action'[s] = NoAction
  <2>1. ~Withdraws(action[s], t, d) /\ ~Extends(action[s], t, d)
    BY <1>1, <1>4 DEF Withdraws, Extends, OnePush
  <2>2. Knows(action[s], t, d)'
    BY <1>4, Blanks, RestingLater
  <2> QED
    BY <1>3, <2>1, <2>2, QuietStep
<1>5. CASE /\ SameAction(s) /\ action'[s].pc = "push" /\ action'[s].ask = action[s].ask
           /\ action'[s].push = action[s].push \ {x} /\ action'[s].under = action[s].under
  <2>1. \A b : <<t, d, b>> \in action'[s].push <=> <<t, d, b>> \in action[s].push
    BY <1>1, <1>5
  <2>2. action[s].pc = "push"
    BY DEF OnePush
  <2>3. Knows(action[s], t, d)'
    BY <1>2, <1>5, <2>1, <2>2 DEF Knows, SameAction, Same
  <2>4. Withdraws(action[s], t, d) => Withdraws(action[s], t, d)'
    BY <1>5, <2>1, <2>2 DEF Withdraws, SameAction
  <2>5. Extends(action[s], t, d) => Extends(action[s], t, d)'
    BY <1>5, <2>1, <2>2 DEF Extends, SameAction
  <2> QED
    BY <1>3, <2>3, <2>4, <2>5, QuietStep
<1> QED
  BY <1>4, <1>5 DEF OnePush

\* The push for this pair arrives.
LEMMA ArrivalStep ==
    ASSUME TypeInv, TypeInv', NEW s \in Actors, NEW x \in TenantIds \X Datasets \X BOOLEAN, OnePush(s, x), Continues(s),
           NEW t \in TenantIds, NEW d \in Datasets, t = x[1], d = x[2], UNCHANGED portal,
           x[3] => <<t, d>> \in entCopy' /\ cut' = cut \ {<<t, d>>},
           ~x[3] => <<t, d>> \notin entCopy' /\ cut' = cut,
           PairOK(t, d)
    PROVE  PairOK(t, d)'
<1>0. action[s] \in ActionType /\ ShapeOK(action[s]) /\ action[s].pc = "push" /\ x \in action[s].push
  BY DEF TypeInv, OnePush
<1>1. x = <<t, d, x[3]>> /\ x[3] \in BOOLEAN
  OBVIOUS
<1>2. <<t, d>> \in Concerns(action[s])
  BY <1>0, <1>1, PushesConcern
<1>3. ent' = ent /\ links' = links /\ dataset' = dataset
  BY DEF portal
<1>4. \A p \in Products : (Covers(t, p)' <=> Covers(t, p)) /\ links'[<<p, d>>] = links[<<p, d>>]
  BY <1>3, CoversStay
<1>5. (Entitled(t, d)' <=> Entitled(t, d)) /\ ProductsOf(d)' = ProductsOf(d)
  BY <1>3, <1>4, EntitledIs DEF ProductsOf
<1>6. OneMind(t, d)' /\ \A u \in Actors : Knows(action[u], t, d)
  BY MindStays DEF PairOK
<1>7. /\ action'[s].pc \in {"push", "idle"} /\ action'[s].push \subseteq action[s].push
      /\ action'[s].pc = "push" => SameAction(s) /\ action'[s].under = action[s].under
  BY Blanks DEF OnePush
<1>8. Knows(action[s], t, d)
  BY <1>6
<1>9. x[3] => Entitled(t, d)
  BY <1>0, <1>1, <1>8 DEF Knows
<1>10. ~x[3] => ~Entitled(t, d) \/ <<t, d>> \in cut
  BY <1>0, <1>1, <1>8 DEF Knows
<1>11. <<t, d, FALSE>> \notin action'[s].push
  <2>1. CASE ~x[3]
    BY <1>1, <2>1, Blanks DEF OnePush
  <2>2. CASE x[3]
    <3>1. SUFFICES ASSUME <<t, d, FALSE>> \in action[s].push PROVE FALSE
      BY <1>7
    <3>2. action[s].op = "setStatus" /\ action[s] # NoAction
      BY <1>0, <1>8, <1>9, <2>2, <3>1, Blanks DEF Knows
    <3>3. x[3] = action[s].allow /\ FALSE = action[s].allow
      BY <1>0, <3>1, <3>2 DEF ShapeOK, LinkOps
    <3> QED
      BY <2>2, <3>3
  <2> QED
    BY <1>1, <2>1, <2>2
<1>12. Knows(action[s], t, d)'
  <2>1. <<t, d, TRUE>> \in action'[s].push => Entitled(t, d)'
    BY <1>5, <1>7, <1>8 DEF Knows
  <2> QED
    BY <1>0, <1>5, <1>7, <1>8, <1>11, <2>1 DEF Knows, SameAction
<1>13. ASSUME NEW u \in Actors \ {s} PROVE Knows(action[u], t, d)'
  <2>1. action'[u] = action[u]
    BY DEF Continues, Others
  <2>2. CASE <<t, d>> \notin Concerns(action[u])
    BY <2>1, <2>2, ApartLater
  <2>3. CASE <<t, d>> \in Concerns(action[u])
    <3>1. action[u].allow /\ action[s].allow
      BY <1>2, <2>3 DEF PairOK, OneMind
    <3>2. action[u].op \notin {"dissociate", "delete", "idle"} /\ <<t, d, FALSE>> \notin action[u].push
      BY <3>1, AllowKeeps
    <3>3. action[u] \in ActionType /\ ShapeOK(action[u])
      BY DEF TypeInv
    <3>4. action[u].product \in Products
      BY <3>2, <3>3, Blanks DEF ShapeOK
    <3> QED
      BY <1>4, <1>5, <1>6, <2>1, <3>2, <3>4 DEF Knows
  <2> QED
    BY <2>2, <2>3
<1>14. NoMore(t, d)'
  BY <1>5, <1>9 DEF NoMore
<1>15. NoLess(t, d)'
  BY <1>5, <1>10 DEF NoLess
<1> QED
  BY <1>6, <1>12, <1>13, <1>14, <1>15 DEF PairOK

LEMMA UpsertStep ==
    ASSUME TypeInv, TypeInv', NEW s \in Actors, UpsertEntitlement(s),
           NEW t \in TenantIds, NEW d \in Datasets, <<t, d>> \notin excused', PairOK(t, d)
    PROVE  PairOK(t, d)'
<1>1. PICK x \in action[s].push :
         /\ Continues(s) /\ OnePush(s, x) /\ x \in TenantIds \X Datasets \X BOOLEAN
         /\ UNCHANGED portal
         /\ <<t, d>> # <<x[1], x[2]>> => Same(t, d)
         /\ x[2] \notin dsCopy => <<x[1], x[2]>> \in excused'
         /\ x[2] \in dsCopy /\ x[3] => <<x[1], x[2]>> \in entCopy' /\ cut' = cut \ {<<x[1], x[2]>>}
         /\ x[2] \in dsCopy /\ ~x[3] => <<x[1], x[2]>> \notin entCopy' /\ cut' = cut
  BY PushWrites
<1>2. CASE <<t, d>> # <<x[1], x[2]>>
  <2>1. Same(t, d) /\ dataset' = dataset
    BY <1>1, <1>2 DEF portal
  <2> QED
    BY <1>1, <1>2, <2>1, OtherPush
<1>3. CASE <<t, d>> = <<x[1], x[2]>>
  <2>1. t = x[1] /\ d = x[2]
    BY <1>3
  <2>2. x[2] \in dsCopy
    BY <1>1, <1>3
  <2>3. /\ x[3] => <<t, d>> \in entCopy' /\ cut' = cut \ {<<t, d>>}
        /\ ~x[3] => <<t, d>> \notin entCopy' /\ cut' = cut
    BY <1>1, <1>3, <2>2
  <2> QED
    BY <1>1, <2>1, <2>3, ArrivalStep
<1> QED
  BY <1>2, <1>3

\* A push that is lost, or an actor that dies, excuses the pairs it leaves behind.
LEMMA FailStep ==
    ASSUME TypeInv, NEW s \in Actors, PushFails(s) \/ ActorDies(s), NEW t \in TenantIds, NEW d \in Datasets,
           <<t, d>> \in Concerns(action[s]), <<t, d>> \notin excused', PairOK(t, d)
    PROVE  PairOK(t, d)'
<1>0. action[s] \in ActionType /\ ShapeOK(action[s])
  BY DEF TypeInv
<1>1. Same(t, d) /\ dataset' = dataset
  BY IdleStays
<1>2. CASE ActorDies(s)
  BY <1>2 DEF ActorDies
<1>3. ASSUME NEW x \in action[s].push, Sent(s, x), excused' = excused \cup {<<x[1], x[2]>>} PROVE PairOK(t, d)'
  <2>1. Continues(s) /\ OnePush(s, x) /\ x \in TenantIds \X Datasets \X BOOLEAN
    BY <1>3, SentIs
  <2>2. <<t, d>> # <<x[1], x[2]>>
    BY <1>3
  <2> QED
    BY <1>1, <2>1, <2>2, OtherPush
<1>4. ASSUME At(s, {"create"}, "copy"), excused' = excused \cup TenantIds \X {action[s].dataset} PROVE FALSE
  <2>1. action[s].op = "create"
    BY <1>4 DEF At
  <2>2. action[s].dataset = d
    BY <1>0, <2>1, ConcernsIs DEF GrantOps
  <2> QED
    BY <1>4, <2>2
<1> QED
  BY <1>2, <1>3, <1>4 DEF PushFails

\* A new action that crosses another one of an opposite mind excuses the pairs both decide on.
LEMMA SubmitStep ==
    ASSUME TypeInv, NEW s \in Actors, Submit(s), NEW t \in TenantIds, NEW d \in Datasets,
           <<t, d>> \notin excused', PairOK(t, d)
    PROVE  PairOK(t, d)'
<1>1. PICK c \in Submittable :
         /\ action' = [action EXCEPT ![s] = c]
         /\ excused' = excused \cup Crossings(s, c) \cup (IF sync.pc = "idle" THEN {} ELSE Concerns(c))
  BY DEF Submit
<1>2. Fresh(c)
  BY Submitted
<1>3. action[s] = NoAction /\ action'[s] = c /\ \A u \in Actors \ {s} : action'[u] = action[u]
  BY <1>1 DEF TypeInv, Submit
<1>4. Same(t, d) /\ dataset' = dataset
  BY IdleStays
<1>5. ~Withdraws(action[s], t, d) /\ ~Extends(action[s], t, d)
  BY <1>3, Blanks, Resting
<1>6. Knows(action[s], t, d)'
  <2>1. action'[s].push = {} /\ action'[s].pc \notin {"list", "holders", "push"}
    BY <1>2, <1>3 DEF Fresh
  <2> QED
    BY <2>1, RestingLater
<1>7. ASSUME NEW u \in Actors \ {s}, <<t, d>> \in Concerns(c), <<t, d>> \in Concerns(action[u]) PROVE c.allow /\ action[u].allow
  <2>1. <<t, d>> \notin Crossed(c, action[u])
    BY <1>1 DEF Crossings
  <2> QED
    BY <1>7, <2>1 DEF Crossed
<1>8. OneMind(t, d)'
  <2> SUFFICES ASSUME NEW v \in Actors, NEW u \in Actors, v # u,
                      <<t, d>> \in Concerns(action'[v]), <<t, d>> \in Concerns(action'[u])
               PROVE  action'[v].allow /\ action'[u].allow
    BY DEF OneMind
  <2>1. CASE v = s
    BY <1>3, <1>7, <2>1
  <2>2. CASE u = s
    BY <1>3, <1>7, <2>2
  <2>3. CASE v # s /\ u # s
    BY <1>3, <2>3 DEF PairOK, OneMind
  <2> QED
    BY <2>1, <2>2, <2>3
<1> QED
  BY <1>3, <1>4, <1>5, <1>6, <1>8, QuietStep

LEMMA ExcusesGrow ==
    ASSUME NEW s \in Actors, CallStep(s)
    PROVE  excused \subseteq excused'
BY DEF CallStep, Submit, FindDuplicate, CreateEntitlement, SetEntitlementStatus, SyncEntitlement, CreateDataset, SyncDataProduct,
       FindLink, InsertLink, ListHolders, DeleteLink, ListRemaining, Recompute, DissociateAll, DeleteDataset, UpsertEntitlement,
       PushFails, ActorDies

LEMMA PairStep ==
    ASSUME TypeInv, TypeInv', DatasetInv, PairInv, NEW s \in Actors, CallStep(s)
    PROVE  PairInv'
<1> SUFFICES ASSUME NEW t \in TenantIds, NEW d \in Datasets, <<t, d>> \notin excused' PROVE PairOK(t, d)'
  BY DEF PairInv
<1>1. PairOK(t, d)
  BY ExcusesGrow DEF PairInv
<1>2. CASE Submit(s)
  BY <1>1, <1>2, SubmitStep
<1>3. CASE ~Submit(s) /\ <<t, d>> \notin Concerns(action[s])
  BY <1>1, <1>3, ApartStep
<1>4. CASE ~Submit(s) /\ <<t, d>> \in Concerns(action[s])
  <2>1. CASE FindDuplicate(s) \/ FindLink(s) \/ SyncDataProduct(s)
    BY <1>1, <2>1, LookStep
  <2>2. CASE CreateEntitlement(s) \/ SetEntitlementStatus(s)
    BY <1>1, <1>4, <2>2, GrantStep
  <2>3. CASE SyncEntitlement(s)
    BY <1>1, <1>4, <2>3, TellStep
  <2>4. CASE CreateDataset(s)
    BY <1>1, <1>4, <2>4, CreateStep
  <2>5. CASE InsertLink(s)
    BY <1>1, <1>4, <2>5, LinkStep
  <2>6. CASE ListHolders(s)
    BY <1>1, <1>4, <2>6, HoldersStep
  <2>7. CASE DeleteLink(s) \/ DissociateAll(s)
    BY <1>1, <1>4, <2>7, UnlinkStep
  <2>8. CASE ListRemaining(s)
    BY <1>1, <1>4, <2>8, RemainingStep
  <2>9. CASE Recompute(s)
    BY <1>1, <1>4, <2>9, JudgeStep
  <2>10. CASE DeleteDataset(s)
    BY <1>1, <1>4, <2>10, DeleteStep
  <2>11. CASE UpsertEntitlement(s)
    BY <1>1, <2>11, UpsertStep
  <2>12. CASE PushFails(s) \/ ActorDies(s)
    BY <1>1, <1>4, <2>12, FailStep
  <2> QED
    BY <1>4, <2>1, <2>2, <2>3, <2>4, <2>5, <2>6, <2>7, <2>8, <2>9, <2>10, <2>11, <2>12 DEF CallStep
<1> QED
  BY <1>2, <1>3, <1>4

-----------------------------------------------------------------------------
(* Datasets and their links *)

LEMMA DatasetMoves ==
    ASSUME TypeInv, NEW s \in Actors, CallStep(s), NEW d \in Datasets
    PROVE  /\ dataset[d] # "absent" => dataset'[d] # "absent"
           /\ dataset'[d] # dataset[d] => action[s].op \in DatasetOps /\ action[s].dataset = d
<1>0. dataset \in [Datasets -> {"absent", "present", "deleted"}]
  BY DEF TypeInv
<1>1. CASE CreateDataset(s)
  BY <1>0, <1>1 DEF CreateDataset, At, DatasetOps, LinkOps
<1>2. CASE DeleteDataset(s)
  BY <1>0, <1>2 DEF DeleteDataset, At, DatasetOps, LinkOps
<1>3. CASE ~CreateDataset(s) /\ ~DeleteDataset(s)
  <2>1. dataset' = dataset
    BY <1>3 DEF CallStep, Submit, FindDuplicate, CreateEntitlement, SetEntitlementStatus, SyncEntitlement, SyncDataProduct,
           FindLink, InsertLink, ListHolders, DeleteLink, ListRemaining, Recompute, DissociateAll, UpsertEntitlement,
           PushFails, ActorDies, portal
  <2> QED
    BY <2>1
<1> QED
  BY <1>1, <1>2, <1>3

LEMMA LinkMoves ==
    ASSUME TypeInv, NEW s \in Actors, CallStep(s), ~InsertLink(s), NEW p \in Products, NEW d \in Datasets
    PROVE  links'[<<p, d>>] <= links[<<p, d>>]
<1>0. links[<<p, d>>] \in Nat
  BY DEF TypeInv
<1>1. CASE DeleteLink(s) \/ DissociateAll(s)
  BY <1>1, LinkWrites DEF DeleteLink, DissociateAll, At
<1>2. CASE ~DeleteLink(s) /\ ~DissociateAll(s)
  <2>1. links' = links
    BY <1>2 DEF CallStep, Submit, FindDuplicate, CreateEntitlement, SetEntitlementStatus, SyncEntitlement, CreateDataset,
           SyncDataProduct, FindLink, InsertLink, ListHolders, ListRemaining, Recompute, DeleteDataset, UpsertEntitlement,
           PushFails, ActorDies, portal
  <2> QED
    BY <1>0, <2>1
<1> QED
  BY <1>1, <1>2

\* Who creates a dataset began so, and who inserts a link has looked for it.
LEMMA Whereto ==
    ASSUME TypeInv, NEW s \in Actors, CallStep(s), ~Submit(s)
    PROVE  /\ action'[s].pc = "insert" => FindLink(s)
           /\ ~Creates(action'[s])
           /\ Creates(action[s]) => CreateDataset(s) \/ action'[s] = NoAction
<1>1. CASE FindDuplicate(s) \/ CreateEntitlement(s) \/ SetEntitlementStatus(s) \/ SyncEntitlement(s)
  BY <1>1, FindDuplicateIs, CreateEntitlementIs, SetEntitlementStatusIs, SyncEntitlementIs, Blanks
     DEF Walk, Leave, Pushes, GrantOps, Creates, SameAction
<1>2. CASE CreateDataset(s) \/ SyncDataProduct(s) \/ FindLink(s) \/ InsertLink(s) \/ ListHolders(s)
  BY <1>2, CreateDatasetIs, SyncDataProductIs, FindLinkIs, InsertLinkIs, ListHoldersIs, Blanks
     DEF Walk, Leave, Pushes, LinkOps, Creates, SameAction
<1>3. CASE DeleteLink(s) \/ ListRemaining(s) \/ Recompute(s) \/ DissociateAll(s) \/ DeleteDataset(s)
  BY <1>3, DeleteLinkIs, ListRemainingIs, RecomputeIs, DissociateAllIs, DeleteDatasetIs, Blanks DEF Walk, Leave, Creates, SameAction
<1>4. ASSUME NEW x \in action[s].push, Sent(s, x)
      PROVE  action'[s].pc # "insert" /\ ~Creates(action'[s]) /\ ~Creates(action[s])
  BY <1>4, SentIs, Blanks DEF OnePush, Creates
<1>5. CASE UpsertEntitlement(s)
  BY <1>4, <1>5 DEF UpsertEntitlement
<1>6. CASE PushFails(s)
  <2>1. CASE At(s, {"create"}, "copy") /\ GoTo(s, "read")
    BY <2>1, Walked DEF Points, Walk, Creates
  <2> QED
    BY <1>4, <1>6, <2>1 DEF PushFails
<1>7. CASE ActorDies(s)
  BY <1>7, ActorDiesIs, Blanks DEF Creates
<1> QED
  BY <1>1, <1>2, <1>3, <1>5, <1>6, <1>7 DEF CallStep

LEMMA SubmitIs ==
    ASSUME TypeInv, NEW s \in Actors, Submit(s)
    PROVE  Fresh(action'[s]) /\ Others(s) /\ action[s] = NoAction
<1>1. PICK c \in Submittable : action' = [action EXCEPT ![s] = c]
  BY DEF Submit
<1>2. Fresh(c)
  BY Submitted
<1> QED
  BY <1>1, <1>2 DEF TypeInv, Others, Fresh, Submit

LEMMA DatasetStep ==
    ASSUME TypeInv, DatasetInv, NEW s \in Actors, CallStep(s)
    PROVE  DatasetInv'
<1>0. \A u \in Actors : /\ action[u] \in ActionType /\ ShapeOK(action[u])
                        /\ action[u].op \in DatasetOps => action[u].dataset \in Datasets
  <2> SUFFICES ASSUME NEW u \in Actors
               PROVE  /\ action[u] \in ActionType /\ ShapeOK(action[u])
                      /\ action[u].op \in DatasetOps => action[u].dataset \in Datasets
    OBVIOUS
  <2>1. action[u] \in ActionType /\ ShapeOK(action[u])
    BY DEF TypeInv
  <2> QED
    BY <2>1, Blanks DEF ShapeOK, DatasetOps, LinkOps, GrantOps
<1>1. ASSUME NEW p \in Products, NEW d \in Datasets, links'[<<p, d>>] > 0 PROVE dataset'[d] # "absent"
  <2>1. links[<<p, d>>] \in Nat
    BY DEF TypeInv
  <2>2. CASE links[<<p, d>>] > 0
    BY <2>2, DatasetMoves DEF DatasetInv
  <2>3. CASE ~(links[<<p, d>>] > 0)
    <3>1. InsertLink(s)
      <4>1. ~InsertLink(s) => links'[<<p, d>>] <= links[<<p, d>>]
        BY LinkMoves
      <4>2. links' \in [Products \X Datasets -> Nat]
        BY TypeStep DEF TypeInv
      <4>3. links'[<<p, d>>] \in Nat
        BY <4>2
      <4> QED
        BY <1>1, <2>1, <2>3, <4>1, <4>3
    <3>2. d = action[s].dataset
      <4>1. d # action[s].dataset => links'[<<p, d>>] = links[<<p, d>>]
        BY <3>1, LinkWrites
      <4> QED
        BY <1>1, <2>3, <4>1
    <3>3. action[s].op \in DatasetOps /\ ~Creates(action[s])
      BY <3>1 DEF InsertLink, At, DatasetOps, LinkOps, Creates
    <3> QED
      BY <3>2, <3>3, DatasetMoves DEF DatasetInv
  <2> QED
    BY <2>2, <2>3
<1>2. CASE Submit(s)
  <2>1. Fresh(action'[s]) /\ Others(s) /\ action[s] = NoAction
    BY <1>2, SubmitIs
  <2>2. dataset' = dataset
    BY <1>2 DEF Submit, portal
  <2>3. ASSUME NEW v \in Actors, action'[v].op \in DatasetOps
        PROVE  IF Creates(action'[v])
               THEN /\ dataset'[action'[v].dataset] = "absent"
                    /\ \A u \in Actors \ {v} : action'[u].op \in DatasetOps => action'[u].dataset # action'[v].dataset
               ELSE dataset'[action'[v].dataset] # "absent"
    <3>1. CASE v = s
      <4>1. \A u \in Actors \ {s} : action'[u] = action[u]
        BY <2>1 DEF Others
      <4> QED
        BY <2>1, <2>2, <2>3, <3>1, <4>1 DEF Fresh, Creates
    <3>2. CASE v # s
      <4>1. action'[v] = action[v] /\ \A u \in Actors \ {s} : action'[u] = action[u]
        BY <2>1, <3>2 DEF Others
      <4>2. CASE Creates(action[v])
        <5>1. /\ dataset[action[v].dataset] = "absent"
              /\ \A u \in Actors \ {v} : action[u].op \in DatasetOps => action[u].dataset # action[v].dataset
          BY <2>3, <4>1, <4>2 DEF DatasetInv
        <5>2. action'[s].op \in DatasetOps => action'[s].dataset # action[v].dataset
          BY <2>1, <5>1 DEF Fresh
        <5> QED
          BY <2>2, <4>1, <4>2, <5>1, <5>2
      <4>3. CASE ~Creates(action[v])
        BY <2>2, <2>3, <4>1, <4>3 DEF DatasetInv
      <4> QED
        BY <4>2, <4>3
    <3> QED
      BY <3>1, <3>2
  <2> QED
    BY <1>1, <2>3 DEF DatasetInv, Creates
<1>3. CASE ~Submit(s)
  <2>1. Continues(s) /\ ~Creates(action'[s]) /\ (Creates(action[s]) => CreateDataset(s) \/ action'[s] = NoAction)
    BY <1>3, StepContinues, Whereto
  <2>2. \A u \in Actors : action'[u].op \in DatasetOps => action[u].op \in DatasetOps /\ action'[u].dataset = action[u].dataset
    BY <2>1, Blanks DEF Continues, Others, SameAction, DatasetOps, LinkOps
  <2>3. ASSUME NEW v \in Actors, action'[v].op \in DatasetOps
        PROVE  IF Creates(action'[v])
               THEN /\ dataset'[action'[v].dataset] = "absent"
                    /\ \A u \in Actors \ {v} : action'[u].op \in DatasetOps => action'[u].dataset # action'[v].dataset
               ELSE dataset'[action'[v].dataset] # "absent"
    <3>0. action[v].dataset \in Datasets /\ action[v].op \in DatasetOps /\ action'[v].dataset = action[v].dataset
      BY <1>0, <2>2, <2>3
    <3>1. CASE Creates(action[v])
      <4>1. /\ dataset[action[v].dataset] = "absent"
            /\ \A u \in Actors \ {v} : action[u].op \in DatasetOps => action[u].dataset # action[v].dataset
        BY <3>0, <3>1 DEF DatasetInv
      <4>2. CASE v = s
        <5>1. CreateDataset(s)
          BY <2>1, <2>3, <3>1, <4>2, Blanks DEF DatasetOps, LinkOps
        <5>2. dataset'[action[s].dataset] = "present"
          BY <3>0, <4>2, <5>1 DEF CreateDataset, TypeInv
        <5> QED
          BY <2>1, <3>0, <4>2, <5>2
      <4>3. CASE v # s
        <5>1. action'[v] = action[v]
          BY <2>1, <4>3 DEF Continues, Others
        <5>2. dataset'[action[v].dataset] = "absent"
          BY <3>0, <4>1, <4>3, DatasetMoves
        <5> QED
          BY <2>2, <3>1, <4>1, <5>1, <5>2
      <4> QED
        BY <4>2, <4>3
    <3>2. CASE ~Creates(action[v])
      <4>1. dataset[action[v].dataset] # "absent"
        BY <3>0, <3>2 DEF DatasetInv
      <4>2. dataset'[action[v].dataset] # "absent"
        BY <3>0, <4>1, DatasetMoves
      <4>3. ~Creates(action'[v])
        BY <2>1, <3>2 DEF Continues, Others
      <4> QED
        BY <3>0, <4>2, <4>3
    <3> QED
      BY <3>1, <3>2
  <2> QED
    BY <1>1, <2>3 DEF DatasetInv, Creates
<1> QED
  BY <1>2, <1>3

-----------------------------------------------------------------------------
(* No more rows for a pair than there are actors *)

LEMMA InsertingSize ==
    ASSUME NEW p, NEW d
    PROVE  /\ IsFiniteSet(Actors) /\ Cardinality(Actors) \in Nat
           /\ Inserting(p, d) \subseteq Actors /\ Cardinality(Inserting(p, d)) \in Nat
           /\ Inserting(p, d)' \subseteq Actors /\ Cardinality(Inserting(p, d)') \in Nat
           /\ Cardinality(Inserting(p, d)') <= Cardinality(Actors)
<1>1. IsFiniteSet(Actors) /\ Cardinality(Actors) \in Nat
  BY CatalogBounds, FS_CardinalityType
<1>2. Inserting(p, d) \subseteq Actors /\ Inserting(p, d)' \subseteq Actors
  BY DEF Inserting
<1> QED
  BY <1>1, <1>2, FS_Subset, FS_CardinalityType

LEMMA PileStep ==
    ASSUME TypeInv, TypeInv', PileInv, NEW s \in Actors, CallStep(s)
    PROVE  PileInv'
<1> SUFFICES ASSUME NEW p \in Products, NEW d \in Datasets
             PROVE  links'[<<p, d>>] + Cardinality(Inserting(p, d)') <= Cardinality(Actors)
  BY DEF PileInv
<1>1. links[<<p, d>>] + Cardinality(Inserting(p, d)) <= Cardinality(Actors) /\ links[<<p, d>>] \in Nat
  BY DEF PileInv, TypeInv
<1>2. \A u \in Actors \ {s} : action'[u] = action[u]
  BY StepContinues, SubmitIs DEF Continues, Others
<1>3. CASE Inserting(p, d)' \subseteq Inserting(p, d) /\ links'[<<p, d>>] <= links[<<p, d>>]
  <2>1. Cardinality(Inserting(p, d)') <= Cardinality(Inserting(p, d))
    BY <1>3, InsertingSize, FS_Subset
  <2>2. links'[<<p, d>>] \in Int
    BY DEF TypeInv
  <2> QED
    BY <1>1, <1>3, <2>1, <2>2, InsertingSize
<1>4. CASE InsertLink(s) /\ p = action[s].product /\ d = action[s].dataset
  <2>1. links'[<<p, d>>] = links[<<p, d>>] + 1
    BY <1>4, LinkWrites
  <2>2. action[s].op \in LinkOps /\ action[s].pc = "insert" /\ action'[s].pc = "holders"
    BY <1>4, InsertLinkIs DEF Walk
  <2>3. s \in Inserting(p, d) /\ Inserting(p, d)' = Inserting(p, d) \ {s}
    BY <1>2, <1>4, <2>2 DEF Inserting, Inserts
  <2>4. IsFiniteSet(Inserting(p, d))
    BY InsertingSize, FS_Subset
  <2>5. Cardinality(Inserting(p, d)') = Cardinality(Inserting(p, d)) - 1
    BY <2>3, <2>4, FS_RemoveElement
  <2> QED
    BY <1>1, <2>1, <2>5, InsertingSize
<1>5. CASE InsertLink(s) /\ ~(p = action[s].product /\ d = action[s].dataset)
  <2>1. links'[<<p, d>>] = links[<<p, d>>]
    BY <1>5, LinkWrites
  <2>2. action'[s].pc = "holders"
    BY <1>5, InsertLinkIs DEF Walk
  <2>3. Inserting(p, d)' \subseteq Inserting(p, d)
    BY <1>2, <2>2 DEF Inserting, Inserts
  <2> QED
    BY <1>1, <1>3, <2>1, <2>3
<1>6. CASE ~InsertLink(s)
  <2>1. links'[<<p, d>>] <= links[<<p, d>>]
    BY <1>6, LinkMoves
  <2>2. CASE ~Inserts(action'[s], p, d)
    <3>1. Inserting(p, d)' \subseteq Inserting(p, d)
      BY <1>2, <2>2 DEF Inserting
    <3> QED
      BY <1>3, <2>1, <3>1
  <2>3. CASE Inserts(action'[s], p, d)
    <3>1. ~Submit(s)
      BY <2>3, SubmitIs DEF Inserts, Fresh
    <3>2. FindLink(s)
      BY <2>3, <3>1, Whereto DEF Inserts
    <3>3. SameAction(s) /\ ~(links[<<action[s].product, action[s].dataset>>] > 0)
      BY <2>3, <3>2, FindLinkIs, Blanks DEF Inserts, Walk, Leave
    <3>4. links'[<<p, d>>] = 0
      <4>1. ~(links[<<p, d>>] > 0) /\ links' = links
        BY <2>3, <3>2, <3>3 DEF Inserts, SameAction, FindLink, portal
      <4> QED
        BY <1>1, <4>1
    <3> QED
      BY <3>4, InsertingSize
  <2> QED
    BY <2>2, <2>3
<1> QED
  BY <1>4, <1>5, <1>6

-----------------------------------------------------------------------------
(* The reconciliation beside the actions *)

LEMMA SyncFrame ==
    ASSUME NEW s \in Actors, CallStep(s)
    PROVE  /\ dsCopy \subseteq dsCopy'
           /\ ~Submit(s) => sync' = sync /\ clean' = clean
BY DEF CallStep, Submit, FindDuplicate, CreateEntitlement, SetEntitlementStatus, SyncEntitlement, CreateDataset, SyncDataProduct,
       FindLink, InsertLink, ListHolders, DeleteLink, ListRemaining, Recompute, DissociateAll, DeleteDataset, UpsertEntitlement,
       PushFails, ActorDies, copy

\* Whoever asks for something spoils a quiet run, and nothing else can happen in one.
LEMMA QuietEnds ==
    ASSUME TypeInv, AloneInv, CleanInv, NEW s \in Actors, CallStep(s)
    PROVE  AloneInv' /\ CleanInv'
<1>1. CASE Submit(s)
  <2>1. ~sync'.alone /\ ~clean'
    BY <1>1 DEF Submit, TypeInv, SyncType
  <2> QED
    BY <2>1 DEF AloneInv, CleanInv
<1>2. CASE ~Submit(s)
  <2>1. action[s] # NoAction /\ sync' = sync /\ clean' = clean
    BY <1>2, StepContinues, SyncFrame
  <2>2. ~Quiet
    BY <2>1 DEF Quiet
  <2>3. ~sync'.alone /\ ~clean'
    BY <2>1, <2>2 DEF AloneInv, CleanInv
  <2> QED
    BY <2>3 DEF AloneInv, CleanInv
<1> QED
  BY <1>1, <1>2

LEMMA SyncStep ==
    ASSUME TypeInv, SyncInv, NEW s \in Actors, CallStep(s)
    PROVE  SyncInv'
<1>1. /\ sync'.pc = sync.pc /\ sync'.datasets = sync.datasets /\ sync'.allowed = sync.allowed /\ sync'.todo = sync.todo
      /\ sync'.alone => sync.alone
  <2>1. sync \in SyncType
    BY DEF TypeInv
  <2>2. CASE Submit(s)
    BY <2>1, <2>2 DEF Submit, SyncType
  <2>3. CASE ~Submit(s)
    BY <2>3, SyncFrame
  <2> QED
    BY <2>2, <2>3
<1>2. sync.datasets \subseteq {d \in Datasets : dataset'[d] # "absent"}
  BY DatasetMoves DEF SyncInv
<1>3. dsCopy \subseteq dsCopy'
  BY SyncFrame
<1>4. ASSUME sync.pc # "idle", NEW t \in TenantIds, NEW d \in Datasets, <<t, d>> \notin excused'
      PROVE  /\ \A u \in Actors : <<t, d>> \notin Concerns(action'[u])
             /\ d \in sync.datasets => (<<t, d>> \in sync.allowed <=> Entitled(t, d)')
  <2>1. <<t, d>> \notin excused
    BY <1>4, ExcusesGrow
  <2>2. /\ \A u \in Actors : <<t, d>> \notin Concerns(action[u])
        /\ d \in sync.datasets => (<<t, d>> \in sync.allowed <=> Entitled(t, d))
    BY <1>4, <2>1 DEF SyncInv
  <2>3. Entitled(t, d)' <=> Entitled(t, d)
    BY <2>2, Untouched, SameEntitled
  <2>4. \A u \in Actors : <<t, d>> \notin Concerns(action'[u])
    <3>1. CASE Submit(s)
      <4>1. PICK c \in Submittable :
               /\ action' = [action EXCEPT ![s] = c]
               /\ excused' = excused \cup Crossings(s, c) \cup (IF sync.pc = "idle" THEN {} ELSE Concerns(c))
        BY <3>1 DEF Submit
      <4>2. action'[s] = c /\ \A u \in Actors \ {s} : action'[u] = action[u]
        BY <4>1 DEF TypeInv
      <4> QED
        BY <1>4, <2>2, <4>1, <4>2
    <3>2. CASE ~Submit(s)
      BY <2>2, <3>2, StepContinues, ConcernsShrink
    <3> QED
      BY <3>1, <3>2
  <2> QED
    BY <2>2, <2>3, <2>4
<1> QED
  BY <1>1, <1>2, <1>3, <1>4 DEF SyncInv

LEMMA CallKeeps ==
    ASSUME CatalogInv, NEW s \in Actors, CallStep(s)
    PROVE  CatalogInv'
<1>1. TypeInv'
  BY TypeStep DEF CatalogInv
<1>2. DatasetInv' /\ PileInv' /\ PairInv'
  BY <1>1, DatasetStep, PileStep, PairStep DEF CatalogInv
<1>3. SyncInv' /\ AloneInv' /\ CleanInv'
  BY SyncStep, QuietEnds DEF CatalogInv
<1> QED
  BY <1>1, <1>2, <1>3 DEF CatalogInv

-----------------------------------------------------------------------------
(* The steps of the reconciliation *)

SyncMoves == SyncReads \/ SyncDatasets \/ SyncEntitlements \/ SyncEnds \/ SyncDies

LEMMA SyncRests ==
    ASSUME SyncMoves
    PROVE  ent' = ent /\ links' = links /\ dataset' = dataset /\ action' = action
BY DEF SyncMoves, SyncReads, SyncDatasets, SyncEntitlements, SyncEnds, SyncDies, portal

\* It touches no row of the portal and no action.
LEMMA SyncSteady ==
    ASSUME SyncMoves, DatasetInv, PileInv
    PROVE  DatasetInv' /\ PileInv' /\ (Quiet' <=> Quiet) /\ Present' = Present
           /\ \A t, d : (Entitled(t, d)' <=> Entitled(t, d))
<1>1. ent' = ent /\ links' = links /\ dataset' = dataset /\ action' = action
  BY SyncRests
<1>2. DatasetInv'
  BY <1>1 DEF DatasetInv
<1>3. PileInv'
  BY <1>1 DEF PileInv, Inserting
<1>4. \A t, d : (Entitled(t, d)' <=> Entitled(t, d))
  BY <1>1 DEF Entitled, EntitledToAny, ProductsOf
<1> QED
  BY <1>1, <1>2, <1>3, <1>4 DEF Quiet, Present

LEMMA PairSame ==
    ASSUME SyncMoves, NEW t \in TenantIds, NEW d \in Datasets, PairOK(t, d),
           <<t, d>> \in entCopy' <=> <<t, d>> \in entCopy, <<t, d>> \in cut' <=> <<t, d>> \in cut
    PROVE  PairOK(t, d)'
<1>1. ent' = ent /\ links' = links /\ dataset' = dataset /\ action' = action
  BY SyncRests
<1>2. (Entitled(t, d)' <=> Entitled(t, d)) /\ ProductsOf(d)' = ProductsOf(d) /\ \A p : (Covers(t, p)' <=> Covers(t, p))
  BY <1>1 DEF Entitled, EntitledToAny, ProductsOf, Covers
<1>3. \A u \in Actors : Knows(action[u], t, d) => Knows(action[u], t, d)'
  BY <1>1, <1>2 DEF Knows
<1>4. \A u \in Actors : (Withdraws(action[u], t, d)' <=> Withdraws(action[u], t, d)) /\ (Extends(action[u], t, d)' <=> Extends(action[u], t, d))
  BY <1>1, <1>2 DEF Withdraws, Extends
<1> QED
  BY <1>1, <1>2, <1>3, <1>4 DEF PairOK, OneMind, NoMore, NoLess

\* A pair nobody decides on, whose copy agrees with the portal.
LEMMA PairAgrees ==
    ASSUME TypeInv', NEW t \in TenantIds, NEW d \in Datasets, \A u \in Actors : <<t, d>> \notin Concerns(action'[u]),
           dataset'[d] = "present" => Agrees(t, d)'
    PROVE  PairOK(t, d)'
BY ApartLater DEF PairOK, OneMind, NoMore, NoLess, Agrees

LEMMA SyncTypes ==
    ASSUME TypeInv, SyncInv, SyncMoves
    PROVE  TypeInv'
<1>0. ent' = ent /\ links' = links /\ dataset' = dataset /\ action' = action
  BY SyncRests
<1>1. SUFFICES /\ sync' \in SyncType /\ dsCopy' \subseteq {d \in Datasets : dataset[d] # "absent"} /\ entCopy' \subseteq TenantIds \X dsCopy'
               /\ excused' \subseteq Pairs /\ cut' \subseteq Pairs /\ clean' \in BOOLEAN
  BY <1>0 DEF TypeInv, OnInv
<1>2. /\ sync \in SyncType /\ dsCopy \subseteq {d \in Datasets : dataset[d] # "absent"} /\ entCopy \subseteq TenantIds \X dsCopy
      /\ excused \subseteq Pairs /\ cut \subseteq Pairs /\ clean \in BOOLEAN
  BY DEF TypeInv
<1>3. NoSync \in SyncType
  BY DEF NoSync, SyncType
<1>4. CASE SyncReads
  <2>1. sync' \in SyncType
    <3> DEFINE al == {x \in TenantIds \X Present : Entitled(x[1], x[2])}
               lone == \A s \in Actors : action[s] = NoAction
    <3>1. al \subseteq Pairs /\ Present \subseteq Datasets /\ TenantIds \X Present \subseteq Pairs /\ lone \in BOOLEAN
      BY DEF Present, Pairs
    <3>2. sync' = [pc |-> "datasets", alone |-> lone, datasets |-> Present, allowed |-> al, todo |-> TenantIds \X Present]
      BY <1>4 DEF SyncReads
    <3> HIDE DEF al, lone
    <3> QED
      BY <3>1, <3>2 DEF SyncType
  <2>2. \A s \in Actors : Concerns(action[s]) \subseteq Pairs
    BY ConcernsPairs DEF TypeInv
  <2>3. excused' \subseteq Pairs
    BY <1>2, <1>4, <2>2 DEF SyncReads
  <2> QED
    BY <1>2, <1>4, <2>1, <2>3 DEF SyncReads, copy
<1>5. CASE SyncDatasets
  BY <1>2, <1>5 DEF SyncDatasets, SyncInv, SyncType
<1>6. CASE SyncEntitlements
  <2>1. PICK x \in sync.todo :
          /\ entCopy' = IF x \in sync.allowed THEN entCopy \cup {x} ELSE entCopy \ {x}
          /\ sync' = [sync EXCEPT !.todo = sync.todo \ {x}]
    BY <1>6 DEF SyncEntitlements
  <2>2. x \in TenantIds \X dsCopy
    BY <1>6 DEF SyncEntitlements, SyncInv
  <2> QED
    BY <1>2, <1>6, <2>1, <2>2 DEF SyncEntitlements, SyncType
<1>7. CASE SyncEnds \/ SyncDies
  <2>1. sync' = NoSync /\ UNCHANGED copy /\ clean' \in BOOLEAN /\ excused' \subseteq excused /\ cut' \subseteq cut
    BY <1>2, <1>7 DEF SyncEnds, SyncDies, SyncType
  <2> QED
    BY <1>2, <1>3, <2>1 DEF copy
<1> QED
  BY <1>4, <1>5, <1>6, <1>7 DEF SyncMoves

LEMMA ReadsKeep ==
    ASSUME CatalogInv, SyncReads
    PROVE  CatalogInv'
<1>0. SyncMoves /\ SyncReads
  BY DEF SyncMoves
<1>1. TypeInv'
  BY <1>0, SyncTypes DEF CatalogInv
<1>2. DatasetInv' /\ PileInv' /\ (Quiet' <=> Quiet) /\ Present' = Present /\ \A t, d : (Entitled(t, d)' <=> Entitled(t, d))
  BY <1>0, SyncSteady DEF CatalogInv
<1>3. UNCHANGED <<dsCopy, entCopy, cut, clean>> /\ action' = action /\ dataset' = dataset /\ excused \subseteq excused'
      /\ \A s \in Actors : Concerns(action[s]) \subseteq excused'
  BY <1>0, SyncRests DEF SyncReads, copy
<1>4. /\ sync'.pc = "datasets" /\ (sync'.alone <=> Quiet) /\ sync'.datasets = Present /\ sync'.todo = TenantIds \X Present
      /\ sync'.allowed = {x \in TenantIds \X Present : Entitled(x[1], x[2])}
  BY <1>0 DEF SyncReads, Quiet
<1>5. PairInv'
  <2> SUFFICES ASSUME NEW t \in TenantIds, NEW d \in Datasets, <<t, d>> \notin excused' PROVE PairOK(t, d)'
    BY DEF PairInv
  <2>1. PairOK(t, d)
    BY <1>3 DEF CatalogInv, PairInv
  <2> QED
    BY <1>0, <1>3, <2>1, PairSame
<1>6. ASSUME NEW t \in TenantIds, NEW d \in Present PROVE <<t, d>> \in sync'.allowed <=> Entitled(t, d)'
  BY <1>2, <1>4
<1>7. SyncInv'
  <2>1. ASSUME NEW t \in TenantIds, NEW d \in Datasets, <<t, d>> \notin excused'
        PROVE  \A s \in Actors : <<t, d>> \notin Concerns(action'[s])
    BY <1>3, <2>1
  <2>2. Present \subseteq {d \in Datasets : dataset'[d] # "absent"}
    BY <1>3 DEF Present
  <2> QED
    BY <1>4, <1>6, <2>1, <2>2 DEF SyncInv
<1>8. AloneInv'
  BY <1>2, <1>4, <1>6 DEF AloneInv
<1>9. CleanInv'
  <2> SUFFICES ASSUME clean PROVE CleanInv'
    BY <1>3 DEF CleanInv
  <2>1. Quiet /\ Present \subseteq dsCopy /\ \A t \in TenantIds, d \in Present : Agrees(t, d)
    BY DEF CatalogInv, CleanInv
  <2>2. \A t \in TenantIds, d \in Present : Agrees(t, d)'
    BY <1>2, <1>3, <2>1 DEF Agrees
  <2> QED
    BY <1>2, <1>3, <1>4, <2>1, <2>2 DEF CleanInv
<1> QED
  BY <1>1, <1>2, <1>5, <1>7, <1>8, <1>9 DEF CatalogInv

LEMMA DatasetsKeep ==
    ASSUME CatalogInv, SyncDatasets
    PROVE  CatalogInv'
<1>0. SyncMoves /\ SyncDatasets
  BY DEF SyncMoves
<1>1. TypeInv'
  BY <1>0, SyncTypes DEF CatalogInv
<1>2. DatasetInv' /\ PileInv' /\ (Quiet' <=> Quiet) /\ Present' = Present /\ \A t, d : (Entitled(t, d)' <=> Entitled(t, d))
  BY <1>0, SyncSteady DEF CatalogInv
<1>3. UNCHANGED <<entCopy, excused, cut, clean>> /\ action' = action /\ dataset' = dataset /\ dsCopy' = dsCopy \cup sync.datasets
  BY <1>0, SyncRests DEF SyncDatasets
<1>4. /\ sync.pc = "datasets" /\ sync'.pc = "entitlements" /\ sync'.alone = sync.alone /\ sync'.datasets = sync.datasets
      /\ sync'.todo = sync.todo /\ sync'.allowed = sync.allowed
  BY <1>0 DEF SyncDatasets, CatalogInv, TypeInv, SyncType
<1>5. PairInv'
  <2> SUFFICES ASSUME NEW t \in TenantIds, NEW d \in Datasets, <<t, d>> \notin excused' PROVE PairOK(t, d)'
    BY DEF PairInv
  <2> QED
    BY <1>0, <1>3, PairSame DEF CatalogInv, PairInv
<1>6. SyncInv'
  BY <1>2, <1>3, <1>4 DEF CatalogInv, SyncInv
<1>7. AloneInv'
  BY <1>2, <1>3, <1>4 DEF CatalogInv, AloneInv, Agrees
<1>8. CleanInv'
  BY <1>2, <1>3, <1>4 DEF CatalogInv, CleanInv, Agrees
<1> QED
  BY <1>1, <1>2, <1>5, <1>6, <1>7, <1>8 DEF CatalogInv

\* What it writes for a pair that is not excused is what the portal says, since nobody has decided on the pair meanwhile.
LEMMA EntitlementsKeep ==
    ASSUME CatalogInv, SyncEntitlements
    PROVE  CatalogInv'
<1>0. SyncMoves /\ SyncEntitlements
  BY DEF SyncMoves
<1>1. TypeInv'
  BY <1>0, SyncTypes DEF CatalogInv
<1>2. DatasetInv' /\ PileInv' /\ (Quiet' <=> Quiet) /\ Present' = Present /\ \A t, d : (Entitled(t, d)' <=> Entitled(t, d))
  BY <1>0, SyncSteady DEF CatalogInv
<1>3. UNCHANGED <<dsCopy, excused, cut, clean>> /\ action' = action /\ dataset' = dataset
  BY <1>0, SyncRests DEF SyncEntitlements
<1>4. PICK x \in sync.todo :
        /\ entCopy' = IF x \in sync.allowed THEN entCopy \cup {x} ELSE entCopy \ {x}
        /\ sync' = [sync EXCEPT !.todo = sync.todo \ {x}]
  BY <1>0 DEF SyncEntitlements
<1>5. /\ sync.pc = "entitlements" /\ sync'.pc = "entitlements" /\ sync'.alone = sync.alone /\ sync'.datasets = sync.datasets
      /\ sync'.todo = sync.todo \ {x} /\ sync'.allowed = sync.allowed
  BY <1>0, <1>4 DEF SyncEntitlements, CatalogInv, TypeInv, SyncType
<1>6. x \in TenantIds \X sync.datasets
  BY DEF CatalogInv, SyncInv
<1>7. \A y : y # x => (y \in entCopy' <=> y \in entCopy)
  BY <1>4
<1>8. x \in entCopy' <=> x \in sync.allowed
  BY <1>4
<1>9. PairInv'
  <2> SUFFICES ASSUME NEW t \in TenantIds, NEW d \in Datasets, <<t, d>> \notin excused' PROVE PairOK(t, d)'
    BY DEF PairInv
  <2>1. CASE <<t, d>> # x
    BY <1>0, <1>3, <1>7, <2>1, PairSame DEF CatalogInv, PairInv
  <2>2. CASE <<t, d>> = x
    <3>1. \A s \in Actors : <<t, d>> \notin Concerns(action[s])
      BY <1>3, <1>5 DEF CatalogInv, SyncInv
    <3>2. <<t, d>> \in sync.allowed <=> Entitled(t, d)
      BY <1>3, <1>5, <1>6, <2>2 DEF CatalogInv, SyncInv
    <3>3. Agrees(t, d)'
      BY <1>2, <1>8, <2>2, <3>2 DEF Agrees
    <3> QED
      BY <1>1, <1>3, <3>1, <3>3, PairAgrees
  <2> QED
    BY <2>1, <2>2
<1>10. SyncInv'
  BY <1>2, <1>3, <1>5 DEF CatalogInv, SyncInv
<1>11. ASSUME sync.alone, NEW t \in TenantIds, NEW d \in Present, <<t, d>> \notin sync'.todo PROVE Agrees(t, d)'
  <2>1. <<t, d>> \in sync.allowed <=> Entitled(t, d)
    BY <1>11 DEF CatalogInv, AloneInv
  <2>2. CASE <<t, d>> = x
    BY <1>2, <1>8, <2>1, <2>2 DEF Agrees
  <2>3. CASE <<t, d>> # x
    <3>1. Agrees(t, d)
      BY <1>5, <1>11, <2>3 DEF CatalogInv, AloneInv
    <3> QED
      BY <1>2, <1>7, <2>3, <3>1 DEF Agrees
  <2> QED
    BY <2>2, <2>3
<1>12. AloneInv'
  BY <1>2, <1>5, <1>11 DEF CatalogInv, AloneInv
<1>13. CleanInv'
  <2> SUFFICES ASSUME clean PROVE CleanInv'
    BY <1>3 DEF CleanInv
  <2>1. Quiet /\ sync.alone /\ Present \subseteq dsCopy /\ \A t \in TenantIds, d \in Present : Agrees(t, d)
    BY <1>5 DEF CatalogInv, CleanInv
  <2>2. ASSUME NEW t \in TenantIds, NEW d \in Present PROVE Agrees(t, d)'
    <3>1. CASE <<t, d>> = x
      <4>1. <<t, d>> \notin sync'.todo
        BY <1>5, <3>1
      <4> QED
        BY <1>11, <2>1, <4>1
    <3>2. CASE <<t, d>> # x
      BY <1>2, <1>7, <2>1, <3>2 DEF Agrees
    <3> QED
      BY <3>1, <3>2
  <2> QED
    BY <1>2, <1>3, <1>5, <2>1, <2>2 DEF CleanInv
<1> QED
  BY <1>1, <1>2, <1>9, <1>10, <1>12, <1>13 DEF CatalogInv

LEMMA EndsKeep ==
    ASSUME CatalogInv, SyncEnds
    PROVE  CatalogInv'
<1>0. SyncMoves /\ SyncEnds
  BY DEF SyncMoves
<1>1. TypeInv'
  BY <1>0, SyncTypes DEF CatalogInv
<1>2. DatasetInv' /\ PileInv' /\ (Quiet' <=> Quiet) /\ Present' = Present /\ \A t, d : (Entitled(t, d)' <=> Entitled(t, d))
  BY <1>0, SyncSteady DEF CatalogInv
<1>3. /\ UNCHANGED <<dsCopy, entCopy>> /\ action' = action /\ dataset' = dataset
      /\ sync.pc = "entitlements" /\ sync.todo = {} /\ (clean' <=> clean \/ sync.alone)
      /\ \A y \in Pairs : (~sync.alone \/ y[2] \notin sync.datasets) => (y \in excused' <=> y \in excused) /\ (y \in cut' <=> y \in cut)
  BY <1>0, SyncRests DEF SyncEnds, copy
<1>4. sync'.pc = "idle" /\ ~sync'.alone /\ sync'.datasets = {} /\ sync'.allowed = {} /\ sync'.todo = {}
  BY <1>0 DEF SyncEnds, NoSync
<1>5. ASSUME sync.alone PROVE Quiet /\ Present \subseteq dsCopy /\ sync.datasets = Present /\ \A t \in TenantIds, d \in Present : Agrees(t, d)
  BY <1>3, <1>5 DEF CatalogInv, AloneInv, SyncInv
<1>6. PairInv'
  <2> SUFFICES ASSUME NEW t \in TenantIds, NEW d \in Datasets, <<t, d>> \notin excused' PROVE PairOK(t, d)'
    BY DEF PairInv
  <2>1. CASE ~sync.alone \/ d \notin sync.datasets
    <3>1. <<t, d>> \in Pairs /\ <<t, d>>[2] = d
      BY DEF Pairs
    <3>2. <<t, d>> \notin excused /\ (<<t, d>> \in cut' <=> <<t, d>> \in cut)
      BY <1>3, <2>1, <3>1
    <3> QED
      BY <1>0, <1>3, <3>2, PairSame DEF CatalogInv, PairInv
  <2>2. CASE sync.alone /\ d \in sync.datasets
    <3>1. Quiet /\ Agrees(t, d)
      BY <1>5, <2>2
    <3>2. \A s \in Actors : <<t, d>> \notin Concerns(action'[s])
      BY <1>3, <3>1, Blanks DEF Quiet
    <3>3. Agrees(t, d)'
      BY <1>2, <1>3, <3>1 DEF Agrees
    <3> QED
      BY <1>1, <3>2, <3>3, PairAgrees
  <2> QED
    BY <2>1, <2>2
<1>7. SyncInv' /\ AloneInv'
  BY <1>4 DEF SyncInv, AloneInv
<1>8. CleanInv'
  <2> SUFFICES ASSUME clean \/ sync.alone PROVE CleanInv'
    BY <1>3 DEF CleanInv
  <2>1. Quiet /\ Present \subseteq dsCopy /\ \A t \in TenantIds, d \in Present : Agrees(t, d)
    BY <1>5 DEF CatalogInv, CleanInv
  <2>2. \A t \in TenantIds, d \in Present : Agrees(t, d)'
    BY <1>2, <1>3, <2>1 DEF Agrees
  <2> QED
    BY <1>2, <1>3, <1>4, <2>1, <2>2 DEF CleanInv
<1> QED
  BY <1>1, <1>2, <1>6, <1>7, <1>8 DEF CatalogInv

LEMMA DiesKeep ==
    ASSUME CatalogInv, SyncDies
    PROVE  CatalogInv'
<1>0. SyncMoves /\ SyncDies
  BY DEF SyncMoves
<1>1. TypeInv'
  BY <1>0, SyncTypes DEF CatalogInv
<1>2. DatasetInv' /\ PileInv' /\ (Quiet' <=> Quiet) /\ Present' = Present /\ \A t, d : (Entitled(t, d)' <=> Entitled(t, d))
  BY <1>0, SyncSteady DEF CatalogInv
<1>3. UNCHANGED <<dsCopy, entCopy, excused, cut, clean>> /\ action' = action /\ dataset' = dataset
  BY <1>0, SyncRests DEF SyncDies, copy
<1>4. sync'.pc = "idle" /\ ~sync'.alone /\ sync'.datasets = {} /\ sync'.allowed = {} /\ sync'.todo = {}
  BY <1>0 DEF SyncDies, NoSync
<1>5. PairInv'
  <2> SUFFICES ASSUME NEW t \in TenantIds, NEW d \in Datasets, <<t, d>> \notin excused' PROVE PairOK(t, d)'
    BY DEF PairInv
  <2> QED
    BY <1>0, <1>3, PairSame DEF CatalogInv, PairInv
<1>6. SyncInv' /\ AloneInv'
  BY <1>4 DEF SyncInv, AloneInv
<1>7. CleanInv'
  BY <1>2, <1>3, <1>4 DEF CatalogInv, CleanInv, Agrees
<1> QED
  BY <1>1, <1>2, <1>5, <1>6, <1>7 DEF CatalogInv

-----------------------------------------------------------------------------
(* The theorems *)

LEMMA CatalogStarts ==
    ASSUME CatalogInit
    PROVE  CatalogInv
<1>1. /\ action = [s \in Actors |-> NoAction] /\ \A s \in Actors : action[s] = NoAction
      /\ dataset \in [Datasets -> {"absent", "present"}] /\ dsCopy = Present
      /\ links \in [Products \X Datasets -> 0..1] /\ (\A x \in DOMAIN links : links[x] > 0 => x[2] \in Present)
      /\ entCopy = {x \in Pairs : Entitled(x[1], x[2])} /\ sync = NoSync /\ excused = {} /\ cut = {} /\ clean = FALSE
  BY DEF CatalogInit
<1>2. \A p \in Products, d \in Datasets : links[<<p, d>>] \in 0..1 /\ (links[<<p, d>>] > 0 => d \in Present)
  <2> SUFFICES ASSUME NEW p \in Products, NEW d \in Datasets
               PROVE  links[<<p, d>>] \in 0..1 /\ (links[<<p, d>>] > 0 => d \in Present)
    OBVIOUS
  <2>1. <<p, d>> \in Products \X Datasets /\ <<p, d>>[2] = d
    OBVIOUS
  <2> QED
    BY <1>1, <2>1
<1>3. TypeInv
  <2>1. ent \in [Entitlements -> EntType]
    BY DEF CatalogInit, EntType
  <2>2. links \in [Products \X Datasets -> Nat]
    BY <1>1
  <2>3. entCopy \subseteq TenantIds \X dsCopy
    <3> SUFFICES ASSUME NEW x \in entCopy PROVE x \in TenantIds \X dsCopy
      OBVIOUS
    <3>1. x \in TenantIds \X Datasets /\ Entitled(x[1], x[2])
      BY <1>1 DEF Pairs
    <3>2. PICK p \in Products : links[<<p, x[2]>>] > 0
      BY <3>1, EntitledIs
    <3> QED
      BY <1>1, <1>2, <3>1, <3>2
  <2>4. action \in [Actors -> ActionType] /\ \A s \in Actors : ShapeOK(action[s]) /\ OnInv(action[s])
    BY <1>1, Blanks DEF OnInv
  <2>5. sync \in SyncType
    BY <1>1 DEF NoSync, SyncType
  <2> QED
    BY <1>1, <2>1, <2>2, <2>3, <2>4, <2>5 DEF TypeInv, Present
<1>4. DatasetInv
  <2>1. \A s \in Actors : action[s].op \notin DatasetOps
    BY <1>1, Blanks DEF DatasetOps, LinkOps
  <2> QED
    BY <1>2, <2>1 DEF DatasetInv, Present
<1>5. PileInv
  <2> SUFFICES ASSUME NEW p \in Products, NEW d \in Datasets
               PROVE  links[<<p, d>>] + Cardinality(Inserting(p, d)) <= Cardinality(Actors)
    BY DEF PileInv
  <2>1. Inserting(p, d) = {}
    BY <1>1, Blanks DEF Inserting, Inserts
  <2>2. Cardinality(Inserting(p, d)) = 0
    BY <2>1, FS_EmptySet
  <2>3. Cardinality(Actors) # 0 /\ Cardinality(Actors) \in Nat
    BY CatalogBounds, FS_EmptySet, FS_CardinalityType
  <2> QED
    BY <1>2, <2>2, <2>3
<1>6. ASSUME NEW t \in TenantIds, NEW d \in Datasets PROVE PairOK(t, d)
  <2>1. \A s \in Actors : <<t, d>> \notin Concerns(action[s])
    BY <1>1, Blanks
  <2>2. <<t, d>> \in entCopy <=> Entitled(t, d)
    BY <1>1 DEF Pairs
  <2> QED
    BY <1>3, <2>1, <2>2, Apart DEF PairOK, OneMind, NoMore, NoLess
<1>7. SyncInv /\ AloneInv /\ CleanInv
  BY <1>1 DEF SyncInv, AloneInv, CleanInv, NoSync
<1> QED
  BY <1>3, <1>4, <1>5, <1>6, <1>7 DEF CatalogInv, PairInv

LEMMA CatalogStutters ==
    ASSUME CatalogInv, UNCHANGED catalogVars
    PROVE  CatalogInv'
<1>1. ent' = ent /\ links' = links /\ dataset' = dataset /\ dsCopy' = dsCopy /\ entCopy' = entCopy /\ action' = action
      /\ sync' = sync /\ excused' = excused /\ cut' = cut /\ clean' = clean
  BY DEF catalogVars, portal, copy
<1>2. \A t, d : (Entitled(t, d)' <=> Entitled(t, d)) /\ ProductsOf(d)' = ProductsOf(d)
  BY <1>1 DEF Entitled, EntitledToAny, ProductsOf
<1>3. \A t, p : (Covers(t, p)' <=> Covers(t, p))
  BY <1>1 DEF Covers, EntitledToAny
<1>4. \A u \in Actors, t \in TenantIds, d \in Datasets :
          /\ Knows(action[u], t, d)' <=> Knows(action[u], t, d)
          /\ Withdraws(action[u], t, d)' <=> Withdraws(action[u], t, d)
          /\ Extends(action[u], t, d)' <=> Extends(action[u], t, d)
  BY <1>1, <1>2, <1>3 DEF Knows, Withdraws, Extends
<1>5. PairInv'
  BY <1>1, <1>2, <1>4 DEF CatalogInv, PairInv, PairOK, OneMind, NoMore, NoLess
<1>6. TypeInv'
  BY <1>1 DEF CatalogInv, TypeInv, OnInv
<1>7. DatasetInv' /\ PileInv'
  BY <1>1 DEF CatalogInv, DatasetInv, PileInv, Inserting
<1>8. SyncInv' /\ AloneInv' /\ CleanInv'
  BY <1>1, <1>2 DEF CatalogInv, SyncInv, AloneInv, CleanInv, Quiet, Present, Agrees
<1> QED
  BY <1>5, <1>6, <1>7, <1>8 DEF CatalogInv

LEMMA PartsFollow ==
    ASSUME CatalogInv
    PROVE  CopiesFollow
<1>1. CatalogTypeOK
  <2>1. \A e \in Entitlements : ent[e] = NoGrant \/ (ent[e].tenant \in TenantIds /\ ent[e].product \in Products
                                                     /\ ent[e].status \in {"ACTIVE", "REVOKED"})
    BY DEF CatalogInv, TypeInv, EntType
  <2>2. ASSUME NEW x \in Products \X Datasets PROVE links[x] \in 0..Cardinality(Actors)
    <3>1. PICK p \in Products, d \in Datasets : x = <<p, d>>
      OBVIOUS
    <3>2. links[<<p, d>>] \in Nat /\ links[<<p, d>>] + Cardinality(Inserting(p, d)) <= Cardinality(Actors)
      BY DEF CatalogInv, TypeInv, PileInv
    <3> QED
      BY <3>1, <3>2, InsertingSize
  <2>3. \A s \in Actors : action[s].push # {} \/ action[s].ask # {} => action[s].pc = "push"
    BY DEF CatalogInv, TypeInv, ShapeOK
  <2>4. dsCopy \subseteq Datasets /\ entCopy \subseteq TenantIds \X dsCopy /\ excused \subseteq Pairs /\ cut \subseteq Pairs
    BY DEF CatalogInv, TypeInv
  <2> QED
    BY <2>1, <2>2, <2>3, <2>4 DEF CatalogTypeOK
<1>2. ASSUME NEW x \in Pairs, Settled(x)
      PROVE  (x \in entCopy => Entitled(x[1], x[2])) /\ (Entitled(x[1], x[2]) => x \in entCopy \cup cut)
  <2>1. PICK t \in TenantIds, d \in Datasets : x = <<t, d>>
    BY DEF Pairs
  <2>2. x[1] = t /\ x[2] = d /\ dataset[d] = "present" /\ <<t, d>> \notin excused /\ \A s \in Actors : <<t, d>> \notin Concerns(action[s])
    BY <1>2, <2>1 DEF Settled, Present
  <2>3. PairOK(t, d) /\ \A s \in Actors : ~Withdraws(action[s], t, d) /\ ~Extends(action[s], t, d)
    BY <2>2, Apart DEF CatalogInv, PairInv
  <2> QED
    BY <2>1, <2>2, <2>3 DEF PairOK, NoMore, NoLess
<1>3. CopyGrantsNoMore /\ CopyGrantsNoLess
  BY <1>2 DEF CopyGrantsNoMore, CopyGrantsNoLess
<1>4. ReconciliationRepairs
  <2> SUFFICES ASSUME clean, NEW x \in TenantIds \X Present PROVE Present \subseteq dsCopy /\ (x \in entCopy <=> Entitled(x[1], x[2]))
    BY DEF ReconciliationRepairs, CatalogInv, CleanInv
  <2>1. PICK t \in TenantIds, d \in Present : x = <<t, d>>
    OBVIOUS
  <2> QED
    BY <2>1 DEF CatalogInv, CleanInv, Agrees
<1> QED
  BY <1>1, <1>3, <1>4 DEF CopiesFollow

\* catalog-sync.ts, entitlements.ts, datasets.ts, sync-cdep-catalog.ts: the invariant above holds throughout, for any number of
\* tenants, products, datasets, grants and server actions at the same time.
THEOREM CopiesCorrect == CatalogSpec => []CatalogInv
<1>1. CatalogInit => CatalogInv
  BY CatalogStarts
<1>2. CatalogInv /\ [CatalogNext]_catalogVars => CatalogInv'
  BY CallKeeps, ReadsKeep, DatasetsKeep, EntitlementsKeep, EndsKeep, DiesKeep, CatalogStutters DEF CatalogNext
<1> QED
  BY <1>1, <1>2, PTL DEF CatalogSpec

\* A pair nobody decides on any more, for which no push was lost and no two actions of opposite minds crossed, is allowed on
\* the copy exactly when a grant covers it, up to the pairs a revocation of one grant cut off; and sync:cdep run alone mends the rest.
THEOREM CopiesStayFollowed == CatalogSpec => []CopiesFollow
<1>1. CatalogInv => CopiesFollow
  BY PartsFollow
<1> QED
  BY <1>1, CopiesCorrect, PTL

-----------------------------------------------------------------------------
(* The relationship explorer. *)

\* An answer holds the ends of its edges, and the node it was asked for unless that was deleted.
AnswerOK(n, answer) ==
    /\ answer.nodes \subseteq All /\ answer.edges \subseteq Edges
    /\ n \in answer.nodes \cup deleted
    /\ \A e \in answer.edges : {e[2], e[3]} \subseteq answer.nodes \cup deleted

FetchType == [node : All, read : BOOLEAN, answer : [nodes : SUBSET All, edges : SUBSET Edges]]
FetchesOK == fetches \subseteq FetchType /\ \A f \in fetches : f.read => AnswerOK(f.node, f.answer)

ExplorerInv ==
    /\ ExplorerTypeOK /\ ChildrenAreShown /\ EdgesHaveEnds /\ SelectionIsShown /\ FetchesOK
    /\ childrenOf \in [All -> SUBSET All] /\ deleted \subseteq DatasetNodes

-----------------------------------------------------------------------------
\* What collapses with a node is closed under collapseNode's calls, and is the child of an expanded node.
LEMMA BelowIsClosed ==
    ASSUME NEW n
    PROVE  Calls(n) \subseteq Below(n) /\ Closed(Below(n))
<1>1. Calls(n) \subseteq Below(n)
  BY DEF Below, Calls
<1>2. ASSUME NEW m \in Below(n), NEW c \in Calls(m) PROVE c \in Below(n)
  <2>1. c \in expanded
    BY DEF Calls
  <2>2. ASSUME NEW S \in SUBSET expanded, Calls(n) \subseteq S, Closed(S) PROVE c \in S
    <3>1. m \in S
      BY <2>2 DEF Below
    <3> QED
      BY <2>2, <3>1 DEF Closed
  <2> QED
    BY <2>1, <2>2 DEF Below
<1> QED
  BY <1>1, <1>2 DEF Closed

LEMMA BelowAreChildren ==
    ASSUME NEW n \in expanded, NEW m \in Below(n)
    PROVE  m \in expanded /\ \E k \in expanded : m \in childrenOf[k]
<1> DEFINE S == {x \in expanded : \E k \in expanded : x \in childrenOf[k]}
<1>1. Calls(n) \subseteq S /\ Closed(S) /\ S \in SUBSET expanded
  BY DEF Calls, Closed
<1>2. m \in S
  <2> HIDE DEF S
  <2> QED
    BY <1>1 DEF Below
<1> QED
  BY <1>2

LEMMA EdgeEnds ==
    /\ \A o \in OrgNodes, t \in TenantNodes : OWNS(o, t) \in Edges /\ OWNS(o, t)[2] = o /\ OWNS(o, t)[3] = t
    /\ \A t \in TenantNodes, p \in ProductNodes :
          ENTITLED(t, p) \in Edges /\ ENTITLED(t, p)[2] = t /\ ENTITLED(t, p)[3] = p
    /\ \A p \in ProductNodes, d \in DatasetNodes : USES(p, d) \in Edges /\ USES(p, d)[2] = p /\ USES(p, d)[3] = d
<1>1. \A o \in OrgNodes, t \in TenantNodes : OWNS(o, t) \in Edges /\ OWNS(o, t)[2] = o /\ OWNS(o, t)[3] = t
  BY DEF OWNS, Edges
<1>2. \A t \in TenantNodes, p \in ProductNodes :
          ENTITLED(t, p) \in Edges /\ ENTITLED(t, p)[2] = t /\ ENTITLED(t, p)[3] = p
  BY DEF ENTITLED, Edges
<1>3. \A p \in ProductNodes, d \in DatasetNodes : USES(p, d) \in Edges /\ USES(p, d)[2] = p /\ USES(p, d)[3] = d
  BY DEF USES, Edges
<1> QED
  BY <1>1, <1>2, <1>3

\* Whatever is expanded, the answer holds the ends of its edges.
LEMMA ExpandAnswers ==
    ASSUME NEW n \in All, deleted \subseteq DatasetNodes
    PROVE  AnswerOK(n, Expand(n)) /\ Expand(n) \in [nodes : SUBSET All, edges : SUBSET Edges]
<1> DEFINE OK(m, a) == AnswerOK(m, a) /\ a \in [nodes : SUBSET All, edges : SUBSET Edges]
<1>1. ASSUME NEW m \in All, NEW ns \in SUBSET All, NEW es \in SUBSET Edges, m \in ns \cup deleted,
             \A e \in es : {e[2], e[3]} \subseteq ns \cup deleted
      PROVE  OK(m, Answer(ns, es))
  BY <1>1 DEF AnswerOK, Answer
<1>2. ASSUME NEW o \in OrgNodes PROVE OK(o, ExpandOrganization(o))
  <2> DEFINE own == {t \in TenantNodes : OwnerOf[t] = o}
             es  == {OWNS(o, t) : t \in own}
  <2>1. \A e \in es : e \in Edges /\ {e[2], e[3]} \subseteq {o} \cup own
    <3> SUFFICES ASSUME NEW t \in own PROVE OWNS(o, t) \in Edges /\ {OWNS(o, t)[2], OWNS(o, t)[3]} \subseteq {o} \cup own
      OBVIOUS
    <3> QED
      BY EdgeEnds
  <2>2. {o} \cup own \in SUBSET All /\ es \in SUBSET Edges /\ o \in All
    BY <2>1 DEF All
  <2> HIDE DEF own, es, OK
  <2>3. OK(o, Answer({o} \cup own, es))
    BY <1>1, <2>1, <2>2
  <2> QED
    BY <2>3 DEF ExpandOrganization, own, es
<1>3. ASSUME NEW t \in TenantNodes PROVE OK(t, ExpandTenant(t))
  <2> DEFINE held == {p \in ProductNodes : <<t, p>> \in grants}
             es   == {ENTITLED(t, p) : p \in held}
  <2>1. \A e \in es : e \in Edges /\ {e[2], e[3]} \subseteq {t} \cup held
    <3> SUFFICES ASSUME NEW p \in held
                 PROVE  ENTITLED(t, p) \in Edges /\ {ENTITLED(t, p)[2], ENTITLED(t, p)[3]} \subseteq {t} \cup held
      OBVIOUS
    <3> QED
      BY EdgeEnds
  <2>2. {t} \cup held \in SUBSET All /\ es \in SUBSET Edges /\ t \in All
    BY <2>1 DEF All
  <2> HIDE DEF held, es, OK
  <2>3. OK(t, Answer({t} \cup held, es))
    BY <1>1, <2>1, <2>2
  <2> QED
    BY <2>3 DEF ExpandTenant, held, es
<1>4. ASSUME NEW p \in ProductNodes PROVE OK(p, ExpandDataProduct(p))
  <2> DEFINE used    == {d \in DatasetNodes \ deleted : <<p, d>> \in linked}
             holders == {t \in TenantNodes : <<t, p>> \in grants}
             uses    == {USES(p, d) : d \in used}
             held    == {ENTITLED(t, p) : t \in holders}
             ns      == {p} \cup used \cup holders
  <2>1. \A e \in uses : e \in Edges /\ {e[2], e[3]} \subseteq ns
    <3> SUFFICES ASSUME NEW d \in used PROVE USES(p, d) \in Edges /\ {USES(p, d)[2], USES(p, d)[3]} \subseteq ns
      OBVIOUS
    <3> QED
      BY EdgeEnds
  <2>2. \A e \in held : e \in Edges /\ {e[2], e[3]} \subseteq ns
    <3> SUFFICES ASSUME NEW t \in holders
                 PROVE  ENTITLED(t, p) \in Edges /\ {ENTITLED(t, p)[2], ENTITLED(t, p)[3]} \subseteq ns
      OBVIOUS
    <3> QED
      BY EdgeEnds
  <2>3. ns \in SUBSET All /\ uses \cup held \in SUBSET Edges /\ p \in All /\ p \in ns
    BY <2>1, <2>2 DEF All
  <2> HIDE DEF uses, held, ns, OK
  <2>4. OK(p, Answer(ns, uses \cup held))
    BY <1>1, <2>1, <2>2, <2>3
  <2> QED
    BY <2>4 DEF ExpandDataProduct, uses, held, ns
<1>5. ASSUME NEW d \in DatasetNodes PROVE OK(d, ExpandDataset(d))
  <2> DEFINE users == {p \in ProductNodes : <<p, d>> \in linked}
             es    == {USES(p, d) : p \in users}
             ns    == ({d} \ deleted) \cup users
  <2>1. \A e \in es : e \in Edges /\ {e[2], e[3]} \subseteq ns \cup deleted
    <3> SUFFICES ASSUME NEW p \in users
                 PROVE  USES(p, d) \in Edges /\ {USES(p, d)[2], USES(p, d)[3]} \subseteq ns \cup deleted
      OBVIOUS
    <3> QED
      BY EdgeEnds
  <2>2. ns \in SUBSET All /\ es \in SUBSET Edges /\ d \in All /\ d \in ns \cup deleted
    BY <2>1 DEF All
  <2> HIDE DEF es, ns, OK
  <2>3. OK(d, Answer(ns, es))
    BY <1>1, <2>1, <2>2
  <2> QED
    BY <2>3 DEF ExpandDataset, es, ns
<1> HIDE DEF OK
<1>6. OK(n, Expand(n))
  <2>1. n \in OrgNodes \/ n \in TenantNodes \/ n \in ProductNodes \/ n \in DatasetNodes
    BY DEF All
  <2> QED
    BY <2>1, <1>2, <1>3, <1>4, <1>5 DEF Expand
<1> QED
  BY <1>6 DEF OK

LEMMA ExplorerStarts == ExplorerInit => ExplorerInv
BY DEF ExplorerInit, ExplorerInv, ExplorerTypeOK, ChildrenAreShown, EdgesHaveEnds, SelectionIsShown, FetchesOK, All

\* What ToggleCollapse does to a node that is shown.
LEMMA CollapseKeeps ==
    ASSUME ExplorerInv, NEW n \in expanded, n \in nodes, CollapseNode(n), UNCHANGED <<deleted, fetches>>
    PROVE  ExplorerInv'
<1> DEFINE collapsed == {n} \cup Below(n)
           gone      == (UNION {childrenOf[m] : m \in collapsed}) \ StillReferenced(collapsed)
<1>1. /\ nodes' = nodes \ gone /\ edges' = EdgesLeft(gone) /\ expanded' = expanded \ collapsed
      /\ childrenOf' = [m \in All |-> IF m \in collapsed THEN {} ELSE childrenOf[m]]
      /\ selectedNode' \in FallBack(gone, collapsed)
  BY DEF CollapseNode
<1>2. ExplorerTypeOK /\ ChildrenAreShown /\ EdgesHaveEnds /\ SelectionIsShown /\ FetchesOK
      /\ childrenOf \in [All -> SUBSET All] /\ deleted \subseteq DatasetNodes
  BY DEF ExplorerInv
<1>3. collapsed \subseteq expanded
  BY DEF Below
<1>4. collapsed \subseteq nodes
  <2> SUFFICES ASSUME NEW m \in Below(n) PROVE m \in nodes
    OBVIOUS
  <2>1. \E k \in expanded : m \in childrenOf[k]
    BY BelowAreChildren
  <2> QED
    BY <1>2, <2>1 DEF ChildrenAreShown
<1>5. ASSUME NEW m \in collapsed, NEW c \in childrenOf[m], c \in expanded PROVE c \in collapsed
  <2>1. c \in Calls(m)
    BY <1>5 DEF Calls
  <2> QED
    BY <2>1, BelowIsClosed DEF Closed
<1>6. ASSUME NEW m \in expanded \ collapsed PROVE m \notin gone /\ childrenOf[m] \cap gone = {}
  <2>1. m \notin gone
    BY <1>5, <1>6 DEF StillReferenced
  <2>2. childrenOf[m] \cap gone = {}
    BY <1>6 DEF StillReferenced
  <2> QED
    BY <2>1, <2>2
<1>7. expanded \subseteq All
  BY <1>2 DEF ExplorerTypeOK, All
<1> HIDE DEF collapsed, gone
<1>8. ExplorerTypeOK'
  BY <1>1, <1>2, <1>6 DEF ExplorerTypeOK, EdgesLeft
<1>9. ChildrenAreShown' /\ childrenOf' \in [All -> SUBSET All]
  <2>1. ASSUME NEW m \in expanded' PROVE childrenOf'[m] \subseteq nodes'
    <3>1. m \in expanded \ collapsed /\ m \in All
      BY <1>1, <1>7
    <3>2. childrenOf'[m] = childrenOf[m]
      BY <1>1, <3>1
    <3> QED
      BY <1>1, <1>2, <1>6, <3>1, <3>2 DEF ChildrenAreShown
  <2> QED
    BY <1>1, <1>2, <2>1 DEF ChildrenAreShown
<1>10. EdgesHaveEnds'
  BY <1>1, <1>2 DEF EdgesHaveEnds, EdgesLeft
<1>11. SelectionIsShown'
  BY <1>1, <1>2, <1>4 DEF SelectionIsShown, FallBack
<1>12. FetchesOK'
  BY <1>2 DEF FetchesOK, AnswerOK
<1> QED
  BY <1>2, <1>8, <1>9, <1>10, <1>11, <1>12 DEF ExplorerInv

\* A request that joins the others has read nothing yet.
LEMMA AskKeeps ==
    ASSUME FetchesOK, NEW n \in All, fetches' \in {fetches, fetches \cup {AskFor(n)}}, deleted \subseteq deleted'
    PROVE  FetchesOK'
<1>1. AskFor(n) \in FetchType /\ ~AskFor(n).read
  BY DEF AskFor, Answer, FetchType
<1> QED
  BY <1>1 DEF FetchesOK, AnswerOK

LEMMA ExplorerKeeps == ASSUME ExplorerInv, [ExplorerNext]_explorer PROVE ExplorerInv'
<1>1. /\ ExplorerTypeOK /\ ChildrenAreShown /\ EdgesHaveEnds /\ SelectionIsShown /\ FetchesOK
      /\ childrenOf \in [All -> SUBSET All] /\ deleted \subseteq DatasetNodes
  BY DEF ExplorerInv
<1>2. ASSUME UNCHANGED <<deleted, graph>>, SelectionIsShown', FetchesOK' PROVE ExplorerInv'
  BY <1>1, <1>2 DEF ExplorerInv, ExplorerTypeOK, ChildrenAreShown, EdgesHaveEnds, graph
<1>3. CASE Serve
  <2>1. PICK f \in fetches : fetches' = (fetches \ {f}) \cup {[node |-> f.node, read |-> TRUE, answer |-> Expand(f.node)]}
    BY <1>3 DEF Serve
  <2>2. UNCHANGED <<deleted, graph, selectedNode>>
    BY <1>3 DEF Serve, server
  <2> DEFINE g == [node |-> f.node, read |-> TRUE, answer |-> Expand(f.node)]
  <2>3. f \in FetchType
    BY <1>1 DEF FetchesOK
  <2>5. AnswerOK(f.node, Expand(f.node)) /\ Expand(f.node) \in [nodes : SUBSET All, edges : SUBSET Edges]
    BY <1>1, <2>3, ExpandAnswers DEF FetchType
  <2>6. g \in FetchType /\ AnswerOK(g.node, g.answer)
    BY <2>3, <2>5 DEF FetchType
  <2> HIDE DEF g
  <2>7. FetchesOK'
    <3>1. fetches' = (fetches \ {f}) \cup {g}
      BY <2>1 DEF g
    <3>2. \A h \in fetches' : h \in FetchType /\ (h.read => AnswerOK(h.node, h.answer))
      BY <1>1, <2>6, <3>1 DEF FetchesOK
    <3> QED
      BY <2>2, <3>2 DEF FetchesOK, AnswerOK
  <2> QED
    BY <1>1, <1>2, <2>2, <2>7 DEF SelectionIsShown, graph
<1>4. CASE FetchFails
  <2>1. UNCHANGED <<deleted, graph, selectedNode>> /\ fetches' \subseteq fetches
    BY <1>4 DEF FetchFails, server
  <2>2. FetchesOK'
    BY <1>1, <2>1 DEF FetchesOK, AnswerOK
  <2> QED
    BY <1>1, <1>2, <2>1, <2>2 DEF SelectionIsShown, graph
<1>5. CASE Merge
  <2>1. PICK f \in fetches :
           /\ f.read /\ fetches' = fetches \ {f}
           /\ nodes' = nodes \cup f.answer.nodes /\ edges' = edges \cup f.answer.edges
           /\ expanded' = expanded \cup {f.node}
           /\ childrenOf' = [childrenOf EXCEPT ![f.node] = f.answer.nodes \ {f.node}]
    BY <1>5 DEF Merge
  <2>2. f.node \in All /\ AnswerOK(f.node, f.answer) /\ UNCHANGED <<deleted, selectedNode>>
    BY <1>1, <1>5, <2>1 DEF FetchesOK, FetchType, Merge, server
  <2>3. expanded \subseteq All
    BY <1>1 DEF ExplorerTypeOK, All
  <2>4. ExplorerTypeOK' /\ childrenOf' \in [All -> SUBSET All]
    BY <1>1, <2>1, <2>2 DEF ExplorerTypeOK, AnswerOK
  <2>5. ChildrenAreShown'
    BY <1>1, <2>1, <2>2, <2>3 DEF ChildrenAreShown
  <2>6. EdgesHaveEnds' /\ SelectionIsShown'
    BY <1>1, <2>1, <2>2 DEF EdgesHaveEnds, SelectionIsShown, AnswerOK
  <2>7. FetchesOK'
    BY <1>1, <2>1, <2>2 DEF FetchesOK, AnswerOK
  <2> QED
    BY <1>1, <2>2, <2>4, <2>5, <2>6, <2>7 DEF ExplorerInv
<1>6. CASE SelectNode
  <2>1. PICK n \in nodes : Select(n)
    BY <1>6 DEF SelectNode
  <2>2. n \in All /\ selectedNode' = n /\ fetches' \in {fetches, fetches \cup {AskFor(n)}} /\ UNCHANGED <<deleted, graph>>
    BY <1>1, <1>6, <2>1 DEF Select, ExplorerTypeOK, SelectNode, server
  <2>3. FetchesOK'
    BY <1>1, <2>2, AskKeeps
  <2>4. SelectionIsShown'
    BY <2>2 DEF SelectionIsShown, graph
  <2> QED
    BY <1>2, <2>2, <2>3, <2>4
<1>7. CASE SelectSearchResult
  <2>1. PICK n \in All \ deleted : Select(n) /\ nodes' = nodes \cup {n}
    BY <1>7 DEF SelectSearchResult
  <2>2. selectedNode' = n /\ fetches' \in {fetches, fetches \cup {AskFor(n)}}
        /\ UNCHANGED <<deleted, edges, expanded, childrenOf>>
    BY <1>7, <2>1 DEF Select, SelectSearchResult, server
  <2>3. FetchesOK'
    BY <1>1, <2>2, AskKeeps
  <2>4. ExplorerTypeOK' /\ ChildrenAreShown' /\ EdgesHaveEnds' /\ SelectionIsShown'
    BY <1>1, <2>1, <2>2 DEF ExplorerTypeOK, ChildrenAreShown, EdgesHaveEnds, SelectionIsShown
  <2> QED
    BY <1>1, <2>2, <2>3, <2>4 DEF ExplorerInv
<1>8. CASE SelectEdge
  <2>1. UNCHANGED <<deleted, graph, fetches>> /\ selectedNode' = NoNode
    BY <1>8 DEF SelectEdge, server
  <2>2. FetchesOK' /\ SelectionIsShown'
    BY <1>1, <2>1 DEF FetchesOK, AnswerOK, SelectionIsShown
  <2> QED
    BY <1>2, <2>1, <2>2
<1>9. CASE ToggleCollapse
  <2>1. PICK n \in (TreeRows \cap expanded) \ DatasetNodes :
           IF Endless(n) THEN crashed' = TRUE /\ UNCHANGED <<graph, selectedNode>>
           ELSE CollapseNode(n) /\ UNCHANGED crashed
    BY <1>9 DEF ToggleCollapse
  <2>2. UNCHANGED <<deleted, fetches>>
    BY <1>9 DEF ToggleCollapse, server
  <2>3. n \in nodes
    BY DEF TreeRows, RowsUnder
  <2>4. CASE Endless(n)
    <3>1. FetchesOK' /\ SelectionIsShown'
      BY <1>1, <2>1, <2>2, <2>4 DEF FetchesOK, AnswerOK, SelectionIsShown, graph
    <3> QED
      BY <1>2, <2>1, <2>2, <2>4, <3>1
  <2>5. CASE ~Endless(n)
    <3>1. CollapseNode(n) /\ n \in expanded
      BY <2>1, <2>5
    <3> QED
      BY <2>2, <2>3, <3>1, CollapseKeeps
  <2> QED
    BY <2>4, <2>5
<1>10. CASE Write
  <2>1. PICK w \in PanelOffers :
           IF Refreshed(w) \in nodes THEN CanAsk(Refreshed(w)) /\ fetches' = fetches \cup {AskFor(Refreshed(w))}
                                     ELSE UNCHANGED fetches
    BY <1>10 DEF Write
  <2>2. UNCHANGED <<deleted, graph, selectedNode>>
    BY <1>10 DEF Write
  <2>3. FetchesOK'
    <3>1. CASE Refreshed(w) \in nodes
      BY <1>1, <2>1, <2>2, <3>1, AskKeeps DEF ExplorerTypeOK
    <3>2. CASE Refreshed(w) \notin nodes
      BY <1>1, <2>1, <2>2, <3>2 DEF FetchesOK, AnswerOK
    <3> QED
      BY <3>1, <3>2
  <2> QED
    BY <1>1, <1>2, <2>2, <2>3 DEF SelectionIsShown, graph
<1>11. CASE DatasetDeleted
  <2>1. PICK d \in DatasetNodes \ deleted : deleted' = deleted \cup {d}
    BY <1>11 DEF DatasetDeleted
  <2>2. UNCHANGED <<nodes, edges, expanded, childrenOf, selectedNode, fetches>>
    BY <1>11 DEF DatasetDeleted, graph
  <2>3. ExplorerTypeOK' /\ ChildrenAreShown' /\ EdgesHaveEnds' /\ SelectionIsShown'
    BY <1>1, <2>1, <2>2 DEF ExplorerTypeOK, ChildrenAreShown, EdgesHaveEnds, SelectionIsShown
  <2>4. FetchesOK'
    BY <1>1, <2>1, <2>2 DEF FetchesOK, AnswerOK
  <2> QED
    BY <1>1, <2>1, <2>2, <2>3, <2>4 DEF ExplorerInv
<1>12. CASE UNCHANGED explorer
  <2>1. UNCHANGED <<deleted, graph, selectedNode, fetches>>
    BY <1>12 DEF explorer, server
  <2>2. FetchesOK' /\ SelectionIsShown'
    BY <1>1, <2>1 DEF FetchesOK, AnswerOK, SelectionIsShown, graph
  <2> QED
    BY <1>2, <2>1, <2>2
<1> QED
  BY <1>3, <1>4, <1>5, <1>6, <1>7, <1>8, <1>9, <1>10, <1>11, <1>12 DEF ExplorerNext

\* The explorer of the admin console, for any catalog, any number of requests in flight and of writes: what is shown
\* is made of the answers that were merged, and collapsing leaves no child of an expanded node behind.
THEOREM ExplorerCorrect == ExplorerSpec => []ExplorerInv
<1>1. ExplorerInit => ExplorerInv
  BY ExplorerStarts
<1>2. ExplorerInv /\ [ExplorerNext]_explorer => ExplorerInv'
  BY ExplorerKeeps
<1> QED
  BY <1>1, <1>2, PTL DEF ExplorerSpec

\* Answers, clicks and deletions in any order leave children shown, edges with both ends and a panel about a node
\* that is there.
THEOREM ExplorerStaysConsistent == ExplorerSpec => []ExplorerIsConsistent
<1>1. ExplorerInv => ExplorerIsConsistent
  BY DEF ExplorerInv, ExplorerIsConsistent
<1> QED
  BY <1>1, ExplorerCorrect, PTL
=============================================================================
