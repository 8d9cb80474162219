--------------------------- MODULE MCObservability ---------------------------
(* A small instance of Observability for TLC. *)
EXTENDS Observability, TLC

CONSTANTS pub, exch, idPub, idExch, poller, reconciler

\* A publication and its outbound exchange, which ends while it runs.
MCStageOf       == pub :> 1 @@ exch :> 2
MCPartOf        == pub :> {} @@ exch :> {pub}
MCIdentifiersOf == pub :> <<idPub, idExch>> @@ exch :> <<idExch>>
MCRules         == <<"PIPELINE_STUCK", "PUBLICATION_FAILED">>
MCRuleOf        == 1 :> "PUBLICATION_FAILED" @@ 2 :> None
=============================================================================
