--------------------------- MODULE MCSubscription ---------------------------
(***************************************************************************)
(* Instances of SubscriptionService, ServingApi and ServiceConsole for     *)
(* TLC: who may read a product, what a customer reads of it, and the pages *)
(* from which users operate the services.  They share no state, so each    *)
(* behaviour follows one of them while the others stay where they started. *)
(* All name their actors x1, x2 and y1, y2: one symmetry serves them.      *)
(***************************************************************************)
EXTENDS SubscriptionService, ServingApi, ServiceConsole, TLC

CONSTANTS x1, x2, y1, y2, k1, u1,
          ingestion, run, job, version1, migration, subscription, execution, publication

\* An item of every kind a page of the console shows.
MCKindOf == ingestion :> "ingestion" @@ run :> "run" @@ job :> "job" @@ version1 :> "version"
         @@ migration :> "migration" @@ subscription :> "subscription"
         @@ execution :> "execution" @@ publication :> "publication"

ASSUME ConsoleBounds

VARIABLE part   \* the module this behaviour follows

PartsInit ==
    /\ part \in {"subscriptions", "serving", "console"}
    /\ Init /\ ServingInit /\ ConsoleInit
    /\ part # "console" => there = {job} /\ on = Pages

PartsNext ==
    \/ part = "subscriptions" /\ Next /\ UNCHANGED <<part, servingVars, consoleVars>>
    \/ part = "serving" /\ ServingNext /\ UNCHANGED <<part, vars, consoleVars>>
    \/ part = "console" /\ ConsoleNext /\ UNCHANGED <<part, vars, servingVars>>
    \* These two stop when their runs and calls are used up; requests never all wait for each other.
    \/ part # "subscriptions" /\ UNCHANGED <<part, vars, servingVars, consoleVars>>

PartsSpec == PartsInit /\ [][PartsNext]_<<part, vars, servingVars, consoleVars>>

Symmetry == Permutations({x1, x2}) \cup Permutations({y1, y2})
=============================================================================
