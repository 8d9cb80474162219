---------------------------- MODULE MCPublication ----------------------------
(***************************************************************************)
(* Instances of PublicationService and DataExchange for TLC: the calls of  *)
(* the publisher, and the one exchange with its files that it or a         *)
(* customer works on.  They share no state, so each behaviour follows one  *)
(* of them while the other stays where it started.                         *)
(***************************************************************************)
EXTENDS PublicationService, DataExchange, TLC

CONSTANTS k1, k2, c1, c2, q1, q2, q3

VARIABLE part   \* the module this behaviour follows

allVars == <<part, publicationVars, exchangeVars>>

ASSUME ExchangeConstants

PartsInit ==
    /\ part \in {"publications", "exchange"}
    /\ PublicationInit /\ ExchangeInit
    /\ part # "exchange" => row.direction = "OUTBOUND"

Publications(step_) == part = "publications" /\ step_ /\ UNCHANGED <<part, exchangeVars>>
AnExchange(step_)   == part = "exchange" /\ step_ /\ UNCHANGED <<part, publicationVars>>

PartsNext ==
    \/ Publications(PublicationNext)
    \/ AnExchange(ExchangeNext)

\* Fairness is that of the part that is followed; the other has no step.
PartsSpec ==
    /\ PartsInit /\ [][PartsNext]_allVars
    /\ \A c \in Calls : WF_allVars(Publications(Work(c)))
    /\ \A r \in Requests : WF_allVars(AnExchange(Step(r)))
=============================================================================
