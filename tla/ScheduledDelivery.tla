-------------------------- MODULE ScheduledDelivery --------------------------
(***************************************************************************)
(* scheduling-service and data-publication-service together: the processor *)
(* POSTs the execution key, the publication call runs on its own, and its  *)
(* answer comes back, or the scheduler's fetch() is aborted by its timeout *)
(* while the call goes on.                                                 *)
(***************************************************************************)
EXTENDS ScheduledExecution, PublicationService

CONSTANT MaxTimeouts   \* bound: fetch() calls aborted by their timeout

ASSUME TimeoutAssumption == MaxTimeouts \in Nat
ASSUME KeysAreExecutions == Keys = Executions
ASSUME CallsAreFinite == IsFiniteSet(Calls)
ASSUME NoneIsNoCall == None \notin Calls

VARIABLES call,        \* the call an activity is waiting for
          timeouts,    \* aborted fetches so far
          entitled,    \* what subscription-service would decide now
          authorized   \* the tenant was entitled at some time since the POST

linkVars == <<call, timeouts>>
accessVars == <<entitled, authorized>>
deliveryVars == <<vars, publicationVars, linkVars, accessVars>>

DeliveryTypeOK ==
  /\ TypeOK
  /\ PublicationTypeOK
  /\ call \in [Workers -> Calls \cup {None}]
  /\ timeouts \in 0..MaxTimeouts
  /\ entitled \in BOOLEAN
  /\ authorized \in [Calls -> BOOLEAN]

DeliveryInit ==
  /\ Init
  /\ PublicationInit
  /\ call = [w \in Workers |-> None]
  /\ timeouts = 0
  /\ entitled = TRUE
  /\ authorized = [c \in Calls |-> FALSE]

-----------------------------------------------------------------------------
\* The Scheduler alone: its entitlement check hears the present decision.
SchedulerStep ==
  /\ \/ \E e \in Executions \ ManualExecutions : ScheduleOccurrence(e)
     \/ \E w \in Runners : RunnerClaims(w)
     \/ \E w \in Requests, e \in ManualExecutions : ManualTrigger(w, e)
     \/ \E w \in Workers :
          \/ /\ LocalStep(w)
             /\ pc[w] = "entitlement" =>
                  pc'[w] \in {"fail", IF entitled THEN "version" ELSE "skip"}
          \/ Throws(w)
     \/ \E o \in Operators : Operate(o)
  /\ UNCHANGED <<publicationVars, linkVars, accessVars>>

\* A scheduler process dies and with it the connection of its activity.
SchedulerCrash ==
  /\ \E w \in Workers : Crash(w) /\ call' = [call EXCEPT ![w] = None]
  /\ UNCHANGED <<publicationVars, timeouts, accessVars>>

\* PublicationHttpClient.trigger: the POST reaches the service.
Post ==
  /\ \E w \in Workers, c \in Calls :
       /\ TriggerPublication(w)
       /\ Receive(c, exec[w])
       /\ call' = [call EXCEPT ![w] = c]
       /\ authorized' = [authorized EXCEPT ![c] = entitled]
  /\ UNCHANGED <<timeouts, entitled>>

\* The response arrives.
GetAnswer ==
  /\ \E w \in Workers :
       /\ call[w] # None
       /\ answer[call[w]] # "none"
       /\ PublicationAnswers(w, answer[call[w]])
       /\ call' = [call EXCEPT ![w] = None]
  /\ UNCHANGED <<publicationVars, timeouts, accessVars>>

\* The fetch is aborted, or the response is lost on its way; the call itself
\* is not cancelled.
LoseAnswer ==
  /\ timeouts < MaxTimeouts
  /\ timeouts' = timeouts + 1
  /\ \E w \in Workers : /\ call[w] # None
                        /\ PublicationAnswers(w, "UNAVAILABLE")
                        /\ call' = [call EXCEPT ![w] = None]
  /\ UNCHANGED <<publicationVars, accessVars>>

\* Publication Service alone: is_entitled allows only what is entitled now.
PublicationStep ==
  /\ Internal
  /\ \A c \in Calls :
       step[c] = "entitlement" /\ step'[c] = "external" => entitled
  /\ UNCHANGED <<vars, linkVars, accessVars>>

\* An administrator grants or revokes the entitlement.
SetEntitlement ==
  /\ entitled' = ~entitled
  /\ authorized' = [c \in Calls |-> authorized[c] \/ (InFlight(c) /\ ~entitled)]
  /\ UNCHANGED <<vars, publicationVars, linkVars>>

DeliveryNext ==
  \/ SchedulerStep \/ SchedulerCrash \/ Post \/ GetAnswer \/ LoseAnswer
  \/ PublicationStep \/ SetEntitlement

DeliverySpec == DeliveryInit /\ [][DeliveryNext]_deliveryVars

-----------------------------------------------------------------------------
Artifacts(e) == {c \in Calls : key[c] = e /\ exchange[c] = "READY"}

\* The execution key identical across retries is what keeps an execution
\* from creating a second artifact.
OneArtifactPerExecution ==
  \A e \in Executions : Cardinality(Artifacts(e)) <= 1

\* Every artifact of an execution beyond the first is due to an answer that
\* was lost or to a failure inside Publication Service.
ExtraArtifactsAreAccountedFor ==
  \A e \in Executions :
    Cardinality(Artifacts(e)) <= 1 + timeouts + pubFaults + pubCrashes

\* SUCCEEDED is never recorded without an artifact the customer can see, of
\* this execution or of the same Gold snapshot.
SucceededHasArtifact ==
  \A e \in Executions : status[e] = "SUCCEEDED" =>
    \E c, d \in Calls : /\ key[c] = e
                        /\ exchange[d] = "READY"
                        /\ key[d] = e \/ snapshot[d] = snapshot[c]

\* Nothing is exported for a tenant whose entitlement was revoked before the
\* POST and has not been granted again.
RevokedGetsNothing ==
  \A c \in Calls : run[c] # "absent" => authorized[c]

\* The refinement mapping to DeliveryPromise: an execution is open from its
\* insertion until its row is settled.
Outcome(s) ==
  CASE s = "absent" -> "absent"
    [] s = "SKIPPED" -> "skipped"
    [] s = "SUCCEEDED" -> "succeeded"
    [] s = "DEAD_LETTERED" -> "dead"
    [] OTHER -> "open"

Promise == INSTANCE DeliveryPromise
             WITH outcome <- [e \in Executions |-> Outcome(status[e])],
                  artifacts <- [e \in Executions |-> Cardinality(Artifacts(e))]

\* Without lost answers and failures inside Publication Service the two
\* services keep the promise.
KeepsPromise == Promise!Spec

\* What the scheduler records agrees with what was published: SUCCEEDED has an artifact behind it, and nothing was
\* exported for a tenant whose entitlement was revoked before the POST.
DeliveriesAreSound == DeliveryTypeOK /\ SucceededHasArtifact /\ RevokedGetsNothing
=============================================================================
