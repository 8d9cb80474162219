----------------------------- MODULE MCDelivery -----------------------------
(***************************************************************************)
(* Instances of ScheduledDelivery and PortalTransfers for TLC: the promise *)
(* of scheduled delivery, and the pages from which customers exchange      *)
(* files.  They share no state, so each behaviour follows one of them      *)
(* while the other stays where it started.                                 *)
(***************************************************************************)
EXTENDS ScheduledDelivery, PortalTransfers, TLC

CONSTANTS e1, r1, q1, o1, c1, c2, ada, bob, acme, globex

\* One user of each tenant.
MCTenantOf == ada :> acme @@ bob :> globex
ASSUME TransferBounds

VARIABLE part   \* the module this behaviour follows

PartsInit ==
    /\ part \in {"delivery", "transfers"}
    /\ DeliveryInit /\ TransfersInit
    /\ part = "delivery" => backend = "mongo"

PartsNext ==
    \/ part = "delivery" /\ DeliveryNext /\ UNCHANGED <<part, transferVars>>
    \/ part = "transfers" /\ TransfersNext /\ UNCHANGED <<part, deliveryVars>>

PartsSpec == PartsInit /\ [][PartsNext]_<<part, deliveryVars, transferVars>>

\* Calls of a behaviour are interchangeable, and so are the customers with their tenants.
Customers == [v \in {ada, bob, acme, globex} |->
                CASE v = ada -> bob [] v = bob -> ada [] v = acme -> globex [] v = globex -> acme]
Symmetry  == Permutations(Calls) \cup {Customers}
=============================================================================
