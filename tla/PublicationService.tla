------------------------- MODULE PublicationService -------------------------
(***************************************************************************)
(* data-publication-service: POST /internal/v1/publications, the run it    *)
(* records and the OUTBOUND exchange it hands the artifact to.             *)
(*                                                                         *)
(* The endpoint is synchronous and served by a thread per request, so the  *)
(* requests ("calls") interleave at every statement.  A call records at    *)
(* most one publication run, which is named by the call.  All calls are    *)
(* for one organization, tenant, product, version, format and contract:    *)
(* the internal idempotency key then varies with the Gold snapshot alone.  *)
(***************************************************************************)
EXTENDS Naturals

CONSTANTS
  Calls,         \* requests, one publication run each at most
  Keys,          \* external idempotency keys: scheduler execution keys
  NoKey,         \* not a key
  MaxSnapshots,  \* bound: Gold snapshots ever produced
  MaxPubFaults,  \* bound: infrastructure errors raised in a call
  MaxPubCrashes  \* bound: crashes of the service

ASSUME PublicationBounds ==
  MaxSnapshots \in Nat /\ MaxPubFaults \in Nat /\ MaxPubCrashes \in Nat
ASSUME NoKeyAssumption == NoKey \notin Keys

VARIABLES
  gold,      \* latest completed Gold snapshot, 0 before the first one
  step,      \* where a call stands
  key,       \* its external_idempotency_key
  snapshot,  \* the Gold snapshot it resolved
  run,       \* status of its publication_runs row
  exchange,  \* status of the OUTBOUND exchange it created; COMPLETING is
             \* PREPARING with a completion on its way that nobody awaits
  answer,    \* what the client will receive, as the client classifies it
  code,      \* answer that mark_failed is about to give
  pubFaults, pubCrashes

request == <<step, key, snapshot, answer, code>>
bounds == <<pubFaults, pubCrashes>>
publicationVars == <<gold, request, run, exchange, bounds>>

\* update_status moves a run forward through these, in this order.
NextStatus ==
  [CREATED |-> "READING_GOLD",
   READING_GOLD |-> "PROJECTING_SCHEMA",
   PROJECTING_SCHEMA |-> "QUALITY_CHECK",
   QUALITY_CHECK |-> "EXPORTING",
   EXPORTING |-> "CALCULATING_CHECKSUM",
   CALCULATING_CHECKSUM |-> "CREATING_OUTBOUND_EXCHANGE",
   CREATING_OUTBOUND_EXCHANGE |-> "TRANSFERRING",
   TRANSFERRING |-> "REGISTERING_ARTIFACT"]

RunStatuses == DOMAIN NextStatus \cup
  {"absent", "REGISTERING_ARTIFACT", "READY", "FAILED"}

\* Statuses in which a contract, safety or quality rule can reject the data.
Rejecting == {"READING_GOLD", "PROJECTING_SCHEMA", "QUALITY_CHECK",
              "CALCULATING_CHECKSUM"}

ClientAnswers == {"none", "READY", "SKIPPED_DUPLICATE", "REJECTED", "FAILED",
                  "UNAVAILABLE", "REFUSED"}

Steps == {"unused", "entitlement", "external", "internal", "create", "run",
          "notify", "failing", "answered"}

InFlight(c) == step[c] \notin {"unused", "answered"}

PublicationTypeOK ==
  /\ gold \in 0..MaxSnapshots
  /\ step \in [Calls -> Steps]
  /\ key \in [Calls -> Keys \cup {NoKey}]
  /\ snapshot \in [Calls -> 0..MaxSnapshots]
  /\ run \in [Calls -> RunStatuses]
  /\ exchange \in [Calls -> {"none", "PREPARING", "COMPLETING", "READY", "FAILED"}]
  /\ answer \in [Calls -> ClientAnswers]
  /\ code \in [Calls -> {"none", "REJECTED", "FAILED"}]
  /\ pubFaults \in 0..MaxPubFaults
  /\ pubCrashes \in 0..MaxPubCrashes

PublicationInit ==
  /\ gold = 0
  /\ step = [c \in Calls |-> "unused"]
  /\ key = [c \in Calls |-> NoKey]
  /\ snapshot = [c \in Calls |-> 0]
  /\ run = [c \in Calls |-> "absent"]
  /\ exchange = [c \in Calls |-> "none"]
  /\ answer = [c \in Calls |-> "none"]
  /\ code = [c \in Calls |-> "none"]
  /\ pubFaults = 0
  /\ pubCrashes = 0

-----------------------------------------------------------------------------
\* data-lakehouse completes a SILVER_TO_GOLD run.
NewGold ==
  /\ gold < MaxSnapshots
  /\ gold' = gold + 1
  /\ UNCHANGED <<request, run, exchange, bounds>>

StepTo(c, from, to) ==
  /\ step[c] = from
  /\ step' = [step EXCEPT ![c] = to]

Respond(c, from, a) ==
  /\ StepTo(c, from, "answered")
  /\ answer' = [answer EXCEPT ![c] = a]

\* The POST arrives and the latest Gold of its scope is resolved; without
\* one the service answers 404.
Receive(c, k) ==
  /\ key' = [key EXCEPT ![c] = k]
  /\ snapshot' = [snapshot EXCEPT ![c] = gold]
  /\ IF gold = 0 THEN Respond(c, "unused", "UNAVAILABLE")
                 ELSE StepTo(c, "unused", "entitlement") /\ UNCHANGED answer
  /\ UNCHANGED <<gold, code, run, exchange, bounds>>

\* is_entitled: fails closed, so an unreachable subscription-service is also
\* a 403.
CheckEntitlement(c, entitled) ==
  /\ IF entitled THEN StepTo(c, "entitlement", "external") /\ UNCHANGED answer
                 ELSE Respond(c, "entitlement", "REFUSED")
  /\ UNCHANGED <<gold, key, snapshot, code, run, exchange, bounds>>

Ready == {c \in Calls : run[c] = "READY"}

\* Mutant: runs in every status are matched.
FindExternalAnyStatus(c) ==
  /\ IF \E d \in Calls \ {c} : run[d] # "absent" /\ key[d] = key[c]
       THEN Respond(c, "external", "SKIPPED_DUPLICATE")
       ELSE StepTo(c, "external", "internal") /\ UNCHANGED answer
  /\ UNCHANGED <<gold, key, snapshot, code, run, exchange, bounds>>

\* Mutant: the key is compared together with the snapshot.
FindExternalOfSnapshot(c) ==
  /\ IF \E d \in Ready : key[d] = key[c] /\ snapshot[d] = snapshot[c]
       THEN Respond(c, "external", "SKIPPED_DUPLICATE")
       ELSE StepTo(c, "external", "internal") /\ UNCHANGED answer
  /\ UNCHANGED <<gold, key, snapshot, code, run, exchange, bounds>>

\* find_by_external_idempotency_key matches READY runs only.
FindExternal(c) ==
  /\ IF \E d \in Ready : key[d] = key[c]
       THEN Respond(c, "external", "SKIPPED_DUPLICATE")
       ELSE StepTo(c, "external", "internal") /\ UNCHANGED answer
  /\ UNCHANGED <<gold, key, snapshot, code, run, exchange, bounds>>

\* The contract accepts the request or it is a 400; then
\* find_by_idempotency_key, READY runs only.
FindInternal(c) ==
  /\ \/ Respond(c, "internal", "REFUSED")
     \/ IF \E d \in Ready : snapshot[d] = snapshot[c]
          THEN Respond(c, "internal", "SKIPPED_DUPLICATE")
          ELSE StepTo(c, "internal", "create") /\ UNCHANGED answer
  /\ UNCHANGED <<gold, key, snapshot, code, run, exchange, bounds>>

\* create_run inserts the row; neither key is UNIQUE.
CreateRun(c) ==
  /\ StepTo(c, "create", "run")
  /\ run' = [run EXCEPT ![c] = "CREATED"]
  /\ UNCHANGED <<gold, key, snapshot, answer, code, exchange, bounds>>

\* The work of one status succeeds and update_status enters the next.
Advance(c) ==
  /\ step[c] = "run"
  /\ run[c] \in DOMAIN NextStatus
  /\ run[c] = "CREATING_OUTBOUND_EXCHANGE" => exchange[c] = "PREPARING"
  /\ run' = [run EXCEPT ![c] = NextStatus[run[c]]]
  /\ UNCHANGED <<gold, request, exchange, bounds>>

\* data-exchange-service creates the exchange; it never looks for another
\* one with the same sourcePublicationId.
CreateExchange(c) ==
  /\ step[c] = "run"
  /\ run[c] = "CREATING_OUTBOUND_EXCHANGE"
  /\ exchange[c] = "none"
  /\ exchange' = [exchange EXCEPT ![c] = "PREPARING"]
  /\ UNCHANGED <<gold, request, run, bounds>>

\* ... and verifies the uploaded bytes: from here the customer sees it.
CompleteExchange(c) ==
  /\ step[c] = "run"
  /\ run[c] = "REGISTERING_ARTIFACT"
  /\ exchange[c] = "PREPARING"
  /\ exchange' = [exchange EXCEPT ![c] = "READY"]
  /\ UNCHANGED <<gold, request, run, bounds>>

\* The checksum of the stored object differs: FAILED exchange, then an error.
ChecksumMismatch(c) ==
  /\ StepTo(c, "run", "failing")
  /\ run[c] = "REGISTERING_ARTIFACT"
  /\ exchange[c] = "PREPARING"
  /\ exchange' = [exchange EXCEPT ![c] = "FAILED"]
  /\ code' = [code EXCEPT ![c] = "FAILED"]
  /\ UNCHANGED <<gold, key, snapshot, answer, run, bounds>>

\* mark_ready.
MarkReady(c) ==
  /\ StepTo(c, "run", "notify")
  /\ run[c] = "REGISTERING_ARTIFACT"
  /\ exchange[c] = "READY"
  /\ run' = [run EXCEPT ![c] = "READY"]
  /\ UNCHANGED <<gold, key, snapshot, answer, code, exchange, bounds>>

\* Mutant: the notifier always raises, and the run is marked FAILED.
NotifyRaises(c) ==
  /\ StepTo(c, "notify", "failing")
  /\ code' = [code EXCEPT ![c] = "FAILED"]
  /\ UNCHANGED <<gold, key, snapshot, answer, run, exchange, bounds>>

\* The artifact is unlinked, the notifier called, the outcome returned.
Notify(c) ==
  /\ Respond(c, "notify", "READY")
  /\ UNCHANGED <<gold, key, snapshot, code, run, exchange, bounds>>

\* A rule rejects the data: a PublicationError with a permanent code.
Reject(c) ==
  /\ StepTo(c, "run", "failing")
  /\ run[c] \in Rejecting
  /\ code' = [code EXCEPT ![c] = "REJECTED"]
  /\ UNCHANGED <<gold, key, snapshot, answer, run, exchange, bounds>>

Completing == {c \in Calls : /\ InFlight(c)
                             /\ run[c] = "REGISTERING_ARTIFACT"
                             /\ exchange[c] = "PREPARING"}

\* _post gives up, after its timeout or with its process; the completion it
\* asked for may still be under way in data-exchange-service ...
Abandon(cs) ==
  \E late \in SUBSET (cs \cap Completing) :
    exchange' = [c \in Calls |-> IF c \in late THEN "COMPLETING" ELSE exchange[c]]

\* ... and end as if it had been awaited.
LateCompletion(c) ==
  /\ exchange[c] = "COMPLETING"
  /\ \E s \in {"READY", "FAILED"} : exchange' = [exchange EXCEPT ![c] = s]
  /\ UNCHANGED <<gold, request, run, bounds>>

\* A database, storage or exchange-service call throws: inside _execute the
\* run is marked FAILED next, anywhere else (the event after create_run or
\* after mark_failed has committed included) the client gets a 500.
CallThrows(c) ==
  /\ pubFaults < MaxPubFaults
  /\ pubFaults' = pubFaults + 1
  /\ \/ /\ step[c] \in {"run", "notify"}
        /\ StepTo(c, step[c], "failing")
        /\ code' = [code EXCEPT ![c] = "FAILED"]
        /\ Abandon({c})
        /\ UNCHANGED <<answer, run>>
     \/ /\ InFlight(c)
        /\ step[c] \in {"run", "notify"} => run[c] = "CREATED"
        /\ Respond(c, step[c], "UNAVAILABLE")
        /\ UNCHANGED <<code, run, exchange>>
     \/ /\ Respond(c, "failing", "UNAVAILABLE")
        /\ run' = [run EXCEPT ![c] = "FAILED"]
        /\ UNCHANGED <<code, exchange>>
  /\ UNCHANGED <<gold, key, snapshot, pubCrashes>>

\* Mutant: the client is answered but the run is left as it is.
MarkFailedForgotten(c) ==
  /\ Respond(c, "failing", code[c])
  /\ UNCHANGED <<gold, key, snapshot, code, run, exchange, bounds>>

\* mark_failed is an unguarded UPDATE.
MarkFailed(c) ==
  /\ Respond(c, "failing", code[c])
  /\ run' = [run EXCEPT ![c] = "FAILED"]
  /\ UNCHANGED <<gold, key, snapshot, code, exchange, bounds>>

\* The service dies: every connection breaks, every run stays as it is.
PublicationCrash ==
  /\ pubCrashes < MaxPubCrashes
  /\ pubCrashes' = pubCrashes + 1
  /\ \E c \in Calls : InFlight(c)
  /\ step' = [c \in Calls |-> IF InFlight(c) THEN "answered" ELSE step[c]]
  /\ answer' = [c \in Calls |-> IF InFlight(c) THEN "UNAVAILABLE" ELSE answer[c]]
  /\ Abandon(Calls)
  /\ UNCHANGED <<gold, key, snapshot, code, run, pubFaults>>

\* What a call does when nothing goes wrong with the infrastructure.
Work(c) ==
  \/ \E entitled \in BOOLEAN : CheckEntitlement(c, entitled)
  \/ FindExternal(c) \/ FindInternal(c) \/ CreateRun(c) \/ Advance(c)
  \/ CreateExchange(c) \/ CompleteExchange(c) \/ ChecksumMismatch(c)
  \/ MarkReady(c) \/ Notify(c) \/ Reject(c) \/ MarkFailed(c)

Internal ==
  \/ NewGold \/ PublicationCrash
  \/ \E c \in Calls : Work(c) \/ CallThrows(c) \/ LateCompletion(c)

PublicationNext == Internal \/ \E c \in Calls, k \in Keys : Receive(c, k)

PublicationSpec == PublicationInit /\ [][PublicationNext]_publicationVars

\* A thread runs on until it has answered or died.
FairPublicationSpec == PublicationSpec /\ \A c \in Calls : WF_publicationVars(Work(c))

-----------------------------------------------------------------------------
\* A run the customer is told about has its artifact behind it.
ReadyHasExchange == \A c \in Calls : run[c] = "READY" => exchange[c] = "READY"

\* SKIPPED_DUPLICATE is answered only if another call did deliver the same
\* execution or the same Gold snapshot.
DuplicateIsBacked ==
  \A c \in Calls : answer[c] = "SKIPPED_DUPLICATE" =>
    \E d \in Calls \ {c} : /\ exchange[d] = "READY"
                           /\ key[d] = key[c] \/ snapshot[d] = snapshot[c]

\* The quality gate and the contract are blocking: data that was rejected
\* never reaches an outbound exchange.
RejectedLeavesNothing ==
  \A c \in Calls : answer[c] = "REJECTED" =>
    run[c] = "FAILED" /\ exchange[c] = "none"

\* FAILED is reachable from any non-terminal status only: a READY run stays,
\* as long as no call met an infrastructure error (mark_failed after one has
\* no condition on the status).
ReadyStays ==
  [][pubFaults' = 0 => \A c \in Calls : run[c] = "READY" => run'[c] = "READY"]_publicationVars

\* A failure answer means that nothing was delivered under this call: an
\* exchange the customer can already see is not reported as failed, as long
\* as no call met an infrastructure error.
FailureDeliversNothing ==
  pubFaults = 0 => \A c \in Calls :
    answer[c] \in {"FAILED", "REJECTED", "REFUSED"} => exchange[c] # "READY"

\* Every call is answered, and its run does not stay half-way for ever
\* unless the service died or an error left it there.
EveryCallEnds ==
  \A c \in Calls :
    (step[c] = "entitlement") ~>
      /\ step[c] = "answered"
      /\ run[c] \in {"absent", "READY", "FAILED"} \/ pubFaults + pubCrashes > 0

\* What a call answered and a run says is backed by the exchange: READY has its artifact, a duplicate the artifact of
\* another call, a rejection no artifact, and a failure nothing the customer can see.
RunsAreBacked ==
  /\ PublicationTypeOK
  /\ ReadyHasExchange
  /\ DuplicateIsBacked
  /\ RejectedLeavesNothing
  /\ FailureDeliversNothing
=============================================================================
