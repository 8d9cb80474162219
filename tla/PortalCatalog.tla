---------------------------- MODULE PortalCatalog ----------------------------
(***************************************************************************)
(* Customer portal: entitlements are granted on data products, datasets    *)
(* hang under several data products, and data-exchange-service keeps its   *)
(* own copy of who may use which dataset.  The portal pushes every change  *)
(* to that copy after its own write, best effort, one request per dataset  *)
(* or tenant; npm run sync:cdep rebuilds the copy from a snapshot.         *)
(***************************************************************************)
EXTENDS Naturals, FiniteSets

CONSTANTS
    TenantIds, Products, Datasets,
    Entitlements,     \* entitlement ids
    Actors,           \* server actions that may run at the same time
    Blank,
    MaxChanges, MaxFailures, MaxSyncs

\* What an instance gives the constants.
ASSUME CatalogBounds ==
    MaxChanges \in Nat /\ MaxFailures \in Nat /\ MaxSyncs \in Nat /\ IsFiniteSet(Actors) /\ Actors # {}

VARIABLES
    ent,      \* entitlements: tenantId, dataProductId, status
    links,    \* dataProductDatasets: how many rows a pair has
    dataset,  \* datasets: absent, present or deleted (an id is never used again)
    dsCopy,   \* exchange.data_products
    entCopy,  \* exchange.tenant_data_product_entitlements that allow
    action,   \* per actor: the server action under way
    sync,     \* the sync:cdep run under way
    changes, failures, syncs,
    excused,  \* auxiliary: pairs whose copy nobody vouches for: a push was lost, or two actions crossed
    cut,      \* auxiliary: pairs a revocation cut off while another grant covered them
    clean     \* auxiliary: sync:cdep has run alone, and nothing was started since

portal      == <<ent, links, dataset>>
copy        == <<dsCopy, entCopy>>
bounds      == <<changes, failures, syncs>>
catalogVars == <<portal, copy, action, sync, bounds, excused, cut, clean>>

Pairs    == TenantIds \X Datasets
NoGrant  == [tenant |-> Blank, product |-> Blank, status |-> "ABSENT"]
NoAction == [op |-> "idle", tenant |-> Blank, product |-> Blank, dataset |-> Blank, allow |-> FALSE,
             on |-> Blank, pc |-> "idle", ask |-> {}, under |-> {}, push |-> {}]
NoSync   == [pc |-> "idle", alone |-> FALSE, datasets |-> {}, allowed |-> {}, todo |-> {}]

\* isEntitledToAny: an ACTIVE grant on one of the products; expiresAt is not looked at.
EntitledToAny(t, products) ==
    \E e \in Entitlements : ent[e].tenant = t /\ ent[e].product \in products /\ ent[e].status = "ACTIVE"
Present        == {d \in Datasets : dataset[d] = "present"}
ProductsOf(d)  == {p \in Products : links[<<p, d>>] > 0}
DatasetsOf(p)  == {d \in Datasets : links[<<p, d>>] > 0}
HoldersOf(p)   == {t \in TenantIds : EntitledToAny(t, {p})}
Entitled(t, d) == EntitledToAny(t, ProductsOf(d))

\* Watching starts with copies that agree with the portal, as after sync:cdep.
CatalogInit ==
    /\ ent \in [Entitlements -> {NoGrant} \cup [tenant : TenantIds, product : Products, status : {"ACTIVE"}]]
    /\ dataset \in [Datasets -> {"absent", "present"}] /\ dsCopy = Present
    /\ links \in [Products \X Datasets -> 0..1] /\ \A x \in DOMAIN links : links[x] > 0 => x[2] \in Present
    /\ entCopy = {x \in Pairs : Entitled(x[1], x[2])}
    /\ action = [s \in Actors |-> NoAction] /\ sync = NoSync
    /\ changes = 0 /\ failures = 0 /\ syncs = 0 /\ excused = {} /\ cut = {} /\ clean = FALSE

-----------------------------------------------------------------------------
At(s, ops, pc)  == action[s].op \in ops /\ action[s].pc = pc
GoTo(s, pc)     == action' = [action EXCEPT ![s].pc = pc]
Done(s)         == action' = [action EXCEPT ![s] = NoAction]
Fan(s, pushes)  == action' = [action EXCEPT ![s] = IF pushes = {} THEN NoAction ELSE [@ EXCEPT !.pc = "push", !.push = pushes]]

\* The pairs a server action decides on: one tenant's, or one dataset's.
Concerns(c) == CASE c.op \in {"grant", "grantOnce", "setStatus"} -> {c.tenant} \X Datasets
                 [] c.op = "idle" -> {}
                 [] OTHER -> TenantIds \X {c.dataset}
\* Two actions that both only allow cannot undo each other.
Crossed(c, d) == IF c.allow /\ d.allow THEN {} ELSE Concerns(c) \cap Concerns(d)
Crossings(s, c) == UNION {Crossed(c, action[x]) : x \in Actors \ {s}}

Entry(op, t, p, d, allow, on, pc) ==
    [NoAction EXCEPT !.op = op, !.tenant = t, !.product = p, !.dataset = d, !.allow = allow, !.on = on, !.pc = pc]

\* A dataset is created under an id that nobody has used.
Unused == {d \in Datasets : dataset[d] = "absent" /\ \A s \in Actors : action[s].dataset # d}

Submittable ==
         {Entry("grant", g[1], g[2], Blank, TRUE, Blank, "write") : g \in TenantIds \X Products}
    \cup {Entry("grantOnce", g[1], g[2], Blank, TRUE, Blank, "read") : g \in TenantIds \X Products}
    \cup {Entry("setStatus", ent[e].tenant, ent[e].product, Blank, allow, e, "write") :
             e \in {x \in Entitlements : ent[x].status # "ABSENT"}, allow \in BOOLEAN}
    \cup {Entry("associate", Blank, l[1], l[2], TRUE, Blank, "read") : l \in Products \X Present}
    \cup {Entry("create", Blank, l[1], l[2], TRUE, Blank, "write") : l \in Products \X Unused}
    \cup {Entry("dissociate", Blank, l[1], l[2], FALSE, Blank, "write") : l \in Products \X Present}
    \cup {Entry("delete", Blank, Blank, d, FALSE, Blank, "write") : d \in Present}

Submit(s) ==
    /\ action[s] = NoAction /\ changes < MaxChanges
    /\ \E c \in Submittable :
        /\ action' = [action EXCEPT ![s] = c]
        /\ excused' = excused \cup Crossings(s, c) \cup (IF sync.pc = "idle" THEN {} ELSE Concerns(c))
    /\ changes' = changes + 1 /\ clean' = FALSE /\ sync' = [sync EXCEPT !.alone = FALSE]
    /\ UNCHANGED <<portal, copy, failures, syncs, cut>>

\* grantEntitlementAction of the console refuses a second ACTIVE grant; the organization's own page does not look.
FindDuplicate(s) ==
    /\ At(s, {"grantOnce"}, "read")
    /\ IF EntitledToAny(action[s].tenant, {action[s].product}) THEN Done(s) ELSE GoTo(s, "write")
    /\ UNCHANGED <<portal, copy, sync, bounds, excused, cut, clean>>

CreateEntitlement(s) ==
    /\ At(s, {"grant", "grantOnce"}, "write")
    /\ \E e \in Entitlements :
        /\ ent[e].status = "ABSENT"
        /\ ent' = [ent EXCEPT ![e] = [tenant |-> action[s].tenant, product |-> action[s].product, status |-> "ACTIVE"]]
    /\ GoTo(s, "list")
    /\ UNCHANGED <<links, dataset, copy, sync, bounds, excused, cut, clean>>

\* revokeEntitlement and reactivateEntitlement.
SetEntitlementStatus(s) ==
    /\ At(s, {"setStatus"}, "write")
    /\ ent' = [ent EXCEPT ![action[s].on].status = IF action[s].allow THEN "ACTIVE" ELSE "REVOKED"]
    /\ GoTo(s, "list")
    /\ UNCHANGED <<links, dataset, copy, sync, bounds, excused, cut, clean>>

\* syncEntitlement: the decision on one grant goes to every dataset of its product, other grants are not looked at.
SyncEntitlement(s) ==
    LET c == action[s]
    IN /\ At(s, {"grant", "grantOnce", "setStatus"}, "list")
       /\ Fan(s, {<<c.tenant, d, c.allow>> : d \in DatasetsOf(c.product)})
       /\ cut' = cut \cup {x \in {c.tenant} \X DatasetsOf(c.product) : ~c.allow /\ Entitled(x[1], x[2])}
       /\ UNCHANGED <<portal, copy, sync, bounds, excused, clean>>

-----------------------------------------------------------------------------
\* createDatasetAction: the dataset, its best-effort copy, then the association.
CreateDataset(s) ==
    /\ At(s, {"create"}, "write")
    /\ dataset' = [dataset EXCEPT ![action[s].dataset] = "present"] /\ GoTo(s, "copy")
    /\ UNCHANGED <<ent, links, copy, sync, bounds, excused, cut, clean>>
SyncDataProduct(s) ==
    /\ At(s, {"create"}, "copy")
    /\ dsCopy' = dsCopy \cup {action[s].dataset} /\ GoTo(s, "read")
    /\ UNCHANGED <<portal, entCopy, sync, bounds, excused, cut, clean>>

\* associateDataset: a link that exists ends it; otherwise the row first, then the tenants it is for.
FindLink(s) ==
    /\ At(s, {"associate", "create"}, "read")
    /\ IF links[<<action[s].product, action[s].dataset>>] > 0 THEN Done(s) ELSE GoTo(s, "insert")
    /\ UNCHANGED <<portal, copy, sync, bounds, excused, cut, clean>>

InsertLink(s) ==
    /\ At(s, {"associate", "create"}, "insert")
    /\ links' = [links EXCEPT ![<<action[s].product, action[s].dataset>>] = @ + 1]
    /\ GoTo(s, "holders")
    /\ UNCHANGED <<ent, dataset, copy, sync, bounds, excused, cut, clean>>

ListHolders(s) ==
    /\ At(s, {"associate", "create"}, "holders")
    /\ Fan(s, {<<t, action[s].dataset, TRUE>> : t \in HoldersOf(action[s].product)})
    /\ UNCHANGED <<portal, copy, sync, bounds, excused, cut, clean>>

\* dissociateDataset: one row goes; whoever held the product is judged again by the products that remain.
DeleteLink(s) ==
    LET c == action[s]
    IN /\ At(s, {"dissociate"}, "write")
       /\ links' = [links EXCEPT ![<<c.product, c.dataset>>] = IF @ = 0 THEN 0 ELSE @ - 1]
       /\ GoTo(s, "holders")
       /\ UNCHANGED <<ent, dataset, copy, sync, bounds, excused, cut, clean>>
ListRemaining(s) ==
    LET holders == HoldersOf(action[s].product)
    IN /\ At(s, {"dissociate"}, "holders")
       /\ action' = [action EXCEPT ![s] = IF holders = {} THEN NoAction
                       ELSE [@ EXCEPT !.pc = "push", !.ask = holders, !.under = ProductsOf(action[s].dataset)]]
       /\ UNCHANGED <<portal, copy, sync, bounds, excused, cut, clean>>

MutantStillEntitled(t, products) == FALSE

StillEntitled(t, products) == EntitledToAny(t, products)

Recompute(s) ==
    LET c == action[s]
    IN /\ At(s, {"dissociate"}, "push")
       /\ \E t \in c.ask :
           action' = [action EXCEPT ![s].ask = @ \ {t}, ![s].push = @ \cup {<<t, c.dataset, StillEntitled(t, c.under)>>}]
       /\ UNCHANGED <<portal, copy, sync, bounds, excused, cut, clean>>

\* deleteDataset: every link, then the dataset; the copies are left as they are.
DissociateAll(s) ==
    /\ At(s, {"delete"}, "write")
    /\ links' = [x \in Products \X Datasets |-> IF x[2] = action[s].dataset THEN 0 ELSE links[x]] /\ GoTo(s, "remove")
    /\ UNCHANGED <<ent, dataset, copy, sync, bounds, excused, cut, clean>>
DeleteDataset(s) ==
    /\ At(s, {"delete"}, "remove")
    /\ dataset' = [dataset EXCEPT ![action[s].dataset] = "deleted"] /\ Done(s)
    /\ UNCHANGED <<ent, links, copy, sync, bounds, excused, cut, clean>>

-----------------------------------------------------------------------------
\* One PUT of data-exchange-service; a decision on a dataset it has never heard of breaks a foreign key.
Delivered(t, d, allow) == IF d \notin dsCopy THEN entCopy ELSE IF allow THEN entCopy \cup {<<t, d>>} ELSE entCopy \ {<<t, d>>}

Sent(s, x) ==
    action' = [action EXCEPT ![s] = IF @.push = {x} /\ @.ask = {} THEN NoAction ELSE [@ EXCEPT !.push = action[s].push \ {x}]]

UpsertEntitlement(s) ==
    /\ action[s].pc = "push"
    /\ \E x \in action[s].push :
        /\ entCopy' = Delivered(x[1], x[2], x[3]) /\ Sent(s, x)
        /\ cut' = IF x[3] THEN cut \ {<<x[1], x[2]>>} ELSE cut
        /\ excused' = IF x[2] \in dsCopy THEN excused ELSE excused \cup {<<x[1], x[2]>>}
    /\ UNCHANGED <<portal, dsCopy, sync, bounds, clean>>

\* pushBestEffort: a push that fails is logged and the action goes on.
PushFails(s) ==
    /\ failures < MaxFailures /\ failures' = failures + 1
    /\ \/ \E x \in action[s].push : Sent(s, x) /\ excused' = excused \cup {<<x[1], x[2]>>}
       \/ At(s, {"create"}, "copy") /\ GoTo(s, "read") /\ excused' = excused \cup TenantIds \X {action[s].dataset}
    /\ UNCHANGED <<portal, copy, sync, changes, syncs, cut, clean>>

\* The portal dies between two steps of an action.
ActorDies(s) ==
    /\ action[s] # NoAction /\ failures < MaxFailures /\ failures' = failures + 1
    /\ Done(s) /\ excused' = excused \cup Concerns(action[s])
    /\ UNCHANGED <<portal, copy, sync, changes, syncs, cut, clean>>

-----------------------------------------------------------------------------
\* npm run sync:cdep: a snapshot of the portal's collections, then every dataset, then every tenant with every dataset.
SyncReads ==
    /\ sync.pc = "idle" /\ syncs < MaxSyncs /\ syncs' = syncs + 1
    /\ sync' = [pc |-> "datasets", alone |-> \A s \in Actors : action[s] = NoAction, datasets |-> Present,
                allowed |-> {x \in TenantIds \X Present : Entitled(x[1], x[2])}, todo |-> TenantIds \X Present]
    /\ excused' = excused \cup UNION {Concerns(action[s]) : s \in Actors}
    /\ UNCHANGED <<portal, copy, action, changes, failures, cut, clean>>
SyncDatasets ==
    /\ sync.pc = "datasets" /\ sync' = [sync EXCEPT !.pc = "entitlements"] /\ dsCopy' = dsCopy \cup sync.datasets
    /\ UNCHANGED <<portal, entCopy, action, bounds, excused, cut, clean>>

SyncEntitlements ==
    /\ sync.pc = "entitlements" /\ sync.todo # {}
    /\ \E x \in sync.todo :
        /\ entCopy' = IF x \in sync.allowed THEN entCopy \cup {x} ELSE entCopy \ {x}
        /\ sync' = [sync EXCEPT !.todo = @ \ {x}]
    /\ UNCHANGED <<portal, dsCopy, action, bounds, excused, cut, clean>>

SyncEnds ==
    /\ sync.pc = "entitlements" /\ sync.todo = {} /\ sync' = NoSync
    /\ LET stay == {x \in Pairs : ~sync.alone \/ x[2] \notin sync.datasets}
       IN excused' = excused \cap stay /\ cut' = cut \cap stay /\ clean' = (clean \/ sync.alone)
    /\ UNCHANGED <<portal, copy, action, bounds>>
SyncDies ==
    /\ sync.pc # "idle" /\ sync' = NoSync
    /\ UNCHANGED <<portal, copy, action, bounds, excused, cut, clean>>

CallStep(s) ==
    \/ Submit(s) \/ FindDuplicate(s) \/ CreateEntitlement(s) \/ SetEntitlementStatus(s) \/ SyncEntitlement(s)
    \/ CreateDataset(s) \/ SyncDataProduct(s) \/ FindLink(s) \/ InsertLink(s) \/ ListHolders(s)
    \/ DeleteLink(s) \/ ListRemaining(s) \/ Recompute(s) \/ DissociateAll(s) \/ DeleteDataset(s)
    \/ UpsertEntitlement(s) \/ PushFails(s) \/ ActorDies(s)

CatalogNext == (\E s \in Actors : CallStep(s)) \/ SyncReads \/ SyncDatasets \/ SyncEntitlements \/ SyncEnds \/ SyncDies

CatalogSpec == CatalogInit /\ [][CatalogNext]_catalogVars

-----------------------------------------------------------------------------
\* Types, and what the bookkeeping implies: only datasets the service has heard of have decisions.
CatalogTypeOK ==
    /\ \A e \in Entitlements : ent[e] = NoGrant \/ (ent[e].tenant \in TenantIds /\ ent[e].product \in Products
                                                    /\ ent[e].status \in {"ACTIVE", "REVOKED"})
    /\ \A x \in Products \X Datasets : links[x] \in 0..Cardinality(Actors)
    /\ dsCopy \subseteq Datasets /\ entCopy \subseteq TenantIds \X dsCopy /\ excused \subseteq Pairs /\ cut \subseteq Pairs
    /\ \A s \in Actors : action[s].push # {} \/ action[s].ask # {} => action[s].pc = "push"

\* Nobody decides on the pair at the moment, no push for it was lost and no two actions crossed on it.
Settled(x) == x[2] \in Present /\ x \notin excused /\ \A s \in Actors : x \notin Concerns(action[s])

\* What data-exchange-service lets a tenant move, a product it is entitled to still covers: whatever the order of
\* grants, links, revocations and dissociations that ended, a settled pair is not allowed on the copy alone.
CopyGrantsNoMore == \A x \in Pairs : Settled(x) /\ x \in entCopy => Entitled(x[1], x[2])

\* And the other way round: a grant and a link made at the same moment reach the copy, since each action writes
\* first and looks for the other's rows afterwards.  Except a pair that a revocation of one grant cut off.
CopyGrantsNoLess == \A x \in Pairs : Settled(x) /\ Entitled(x[1], x[2]) => x \in entCopy \cup cut

\* A sync:cdep run with nothing going on beside it leaves the copies of every dataset equal to the portal.
ReconciliationRepairs ==
    clean => Present \subseteq dsCopy /\ \A x \in TenantIds \X Present : x \in entCopy <=> Entitled(x[1], x[2])

\* catalog-sync.ts, sync-cdep-catalog.ts: the copies data-exchange-service keeps allow what the portal grants, no more and no
\* less, once the actions on a pair have ended, and a reconciliation run alone repairs what they missed.
CopiesFollow == CatalogTypeOK /\ CopyGrantsNoMore /\ CopyGrantsNoLess /\ ReconciliationRepairs
=============================================================================
