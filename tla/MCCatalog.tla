------------------------------ MODULE MCCatalog ------------------------------
(***************************************************************************)
(* Instances of ProductCatalog and ContractRegistration for TLC: the life  *)
(* of a product's versions, and how contracts become versions.  They share *)
(* no state, so each behaviour follows one of them while the other stays   *)
(* where it started.                                                       *)
(***************************************************************************)
EXTENDS ProductCatalog, TLC

CONSTANTS s1, q1, q2, ann, bob, Callers, MaxRegistrations

\* The second version by name, and the first major.  Whoever follows the active version is in
\* nobody's way: such a subscription never stands for a DEPRECATED one.
MCPolicies == {[type |-> "EXACT", value |-> 2], [type |-> "PINNED_MAJOR", value |-> 1]}

Field(type, required, visible, grain, restricted, mask) ==
    [type |-> type, required |-> required, visible |-> visible, grain |-> grain, restricted |-> restricted, mask |-> mask]
Id    == Field("string", TRUE, TRUE, TRUE, FALSE, None)
Price == Field("decimal", FALSE, TRUE, FALSE, FALSE, None)
Doc(fields, api) == [fields |-> fields, quality |-> 1, sla |-> 1, retention |-> TRUE,
                     delivery |-> [m \in {"API"} |-> api]]
Base == Doc("id" :> Id @@ "price" :> Price, {"byId"})

\* A contract and what may become of it: fields dropped, retyped, required, hidden, denied, restricted without a mask;
\* another grain; a filter more or a delivery method more; a tighter quality rule and a looser SLA.
MCContracts ==
    {Base,
     Doc("id" :> Id, {"byId"}),
     Doc("id" :> Id @@ "price" :> [Price EXCEPT !.type = "string"], {"byId"}),
     Doc("id" :> Id @@ "price" :> [Price EXCEPT !.visible = FALSE], {"byId"}),
     Doc("id" :> Id @@ "price" :> [Price EXCEPT !.mask = "DENY"], {"byId"}),
     Doc("id" :> Id @@ "price" :> [Price EXCEPT !.required = TRUE, !.restricted = TRUE], {"byId"}),
     Doc("id" :> Id @@ "price" :> [Price EXCEPT !.grain = TRUE], {"byId", "byPrice"}),
     [Base EXCEPT !.delivery = [m \in {"API", "FILE"} |-> {}]],
     [Base EXCEPT !.quality = 2, !.sla = 0]}

V(a, b, c, short) == [major |-> a, minor |-> b, patch |-> c, short |-> short]
MCSemvers == {V(1, 0, 0, FALSE), V(1, 0, 0, TRUE), V(1, 0, 1, FALSE), V(1, 1, 0, FALSE), V(2, 0, 0, FALSE), V(2, 1, 0, FALSE)}

VARIABLES
    part,   \* the module this behaviour follows
    rows, reg, started, overlapped

registrationVars == <<rows, reg, started, overlapped>>
allVars          == <<part, vars, registrationVars>>

Registration == INSTANCE ContractRegistration WITH Contracts <- MCContracts, Semvers <- MCSemvers
ASSUME Registration!RegistrationBounds

PartsInit == part \in {"life cycle", "registration"} /\ Init /\ Registration!RegistrationInit

LifeCycle(step_) == part = "life cycle" /\ step_ /\ UNCHANGED <<part, registrationVars>>

\* The registrations stop when they are used up; the commands of the life cycle never all wait.
PartsNext ==
    \/ LifeCycle(Next)
    \/ part = "registration" /\ Registration!RegistrationNext /\ UNCHANGED <<part, vars>>
    \/ part = "registration" /\ UNCHANGED allVars

PartsSpec ==
    /\ PartsInit /\ [][PartsNext]_allVars
    /\ \A r \in Requests : WF_allVars(LifeCycle(MigrationStep(r)))

\* A part that is not followed keeps its first state, where these hold.
HistoryKeepsContracts == part = "registration" => Registration!HistoryKeepsContracts
SameMajorServes       == part = "registration" => Registration!SameMajorServes
=============================================================================
