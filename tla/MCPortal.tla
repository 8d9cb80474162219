------------------------------ MODULE MCPortal ------------------------------
(***************************************************************************)
(* Instances of PortalMembership, PortalAccounts, PortalCatalog and        *)
(* RelationshipExplorer for TLC.  They share no state, so each behaviour   *)
(* follows one of them while the others stay where they started.           *)
(***************************************************************************)
EXTENDS PortalMembership, PortalAccounts, PortalCatalog, RelationshipExplorer, TLC

CONSTANTS ada, bob, eve, root, acme, globex, a1, a2, g1, q1, q2, i1, i2,
          p1, p2, d1, e1, e2, s1, s2, ann, l1, l2

\* Two organizations with their admins, a newcomer and a superuser.
MCOrgOf    == a1 :> acme @@ a2 :> acme @@ g1 :> globex
MCDefaults == acme :> a1 @@ globex :> g1
MCUsers    == ada  :> [org |-> acme, tenant |-> a1, role |-> "CUSTOMER_ADMIN"]
           @@ bob  :> [org |-> globex, tenant |-> g1, role |-> "CUSTOMER_ADMIN"]
           @@ eve  :> [org |-> None, tenant |-> None, role |-> None]
           @@ root :> [org |-> None, tenant |-> None, role |-> "SUPERUSER"]
\* She has asked to join one and is invited by the other.
MCRequests    == q1 :> [org |-> acme, user |-> eve, status |-> "PENDING"]
MCInvitations == i1 :> [org |-> globex, tenant |-> g1, user |-> eve, role |-> "CUSTOMER_ADMIN", status |-> "PENDING"]

\* The explorer's only tenant and its organization.
MCOwnerOf == a1 :> acme
ASSUME ExplorerBounds

VARIABLE part   \* the module this behaviour follows

PortalInit ==
    /\ part \in {"membership", "catalog", "explorer", "accounts"}
    /\ MembershipInit /\ CatalogInit /\ ExplorerInit /\ AccountsInit
    /\ part # "accounts" => open
    /\ part # "catalog" => dataset = [d \in Datasets |-> "absent"] /\ ent = [e \in Entitlements |-> NoGrant]
    /\ IF part = "explorer" THEN grants = TenantNodes \X ProductNodes ELSE grants = {} /\ linked = {}

PortalNext ==
    \/ part = "membership" /\ MembershipNext /\ UNCHANGED <<part, catalogVars, explorer, accountVars>>
    \/ part = "catalog" /\ CatalogNext /\ UNCHANGED <<part, vars, explorer, accountVars>>
    \/ part = "explorer" /\ ExplorerNext /\ UNCHANGED <<part, vars, catalogVars, accountVars>>
    \/ part = "accounts" /\ AccountsNext /\ UNCHANGED <<part, vars, catalogVars, explorer>>

PortalSpec == PortalInit /\ [][PortalNext]_<<part, vars, catalogVars, explorer, accountVars>>

Interchangeable == Permutations({s1, s2}) \cup Permutations({p1, p2}) \cup Permutations({e1, e2})
=============================================================================
