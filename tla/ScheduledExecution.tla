------------------------- MODULE ScheduledExecution -------------------------
(***************************************************************************)
(* The execution table of scheduling-service and everything that writes    *)
(* it: the due scan and the manual trigger that insert a row, the runner   *)
(* that claims rows, the processor that drives one claimed row through     *)
(* revalidation and dispatch, and the operator requests on dead letters.   *)
(*                                                                         *)
(* A row is named by its execution_key.  Every scan tick and every trigger *)
(* request is a concurrent activity: ticks are started by setInterval      *)
(* without waiting for the previous one, and several processes may run.    *)
(* An await is the only point where another activity can run, so an action *)
(* is one database statement or transaction, or one remote answer.         *)
(*                                                                         *)
(* Publication Service is external here: its answer is any the HTTP client *)
(* can produce.  ScheduledDelivery composes this module with a model of it.*)
(***************************************************************************)
EXTENDS Naturals, FiniteSets

CONSTANTS
  Executions,        \* execution keys, one scheduled_execution row each
  ManualExecutions,  \* those built from a trigger request's idempotency key
  Runners,           \* scan ticks (ExecutionRunner.runOnce activities)
  Requests,          \* manual-trigger HTTP requests in flight
  Operators,         \* dead-letter HTTP requests in flight
  None,              \* not an execution
  MAX_ATTEMPTS,      \* env.SCHEDULER_MAX_ATTEMPTS
  CLAIM_BATCH_SIZE,  \* rows claimed by one tick
  MaxRedrives,       \* bound: operator redrives of one execution
  MaxFaults,         \* bound: database errors an activity may meet
  MaxCrashes         \* bound: activities killed with their process

ASSUME AttemptsAssumption == MAX_ATTEMPTS \in Nat \ {0}
ASSUME BatchAssumption == CLAIM_BATCH_SIZE \in Nat \ {0}
ASSUME BoundsAssumption ==
  MaxRedrives \in Nat /\ MaxFaults \in Nat /\ MaxCrashes \in Nat
ASSUME NoneAssumption == None \notin Executions
ASSUME ManualAssumption == ManualExecutions \subseteq Executions
ASSUME ActivityAssumption == Runners \cap Requests = {}

VARIABLES
  status,         \* status column, "absent" while there is no row
  attempt_count,  \* attempt_count column
  letters,        \* number of scheduler_dead_letter rows of an execution
  resolved,       \* <<execution, n>>: its n-th dead letter has resolved_at
  redrives,       \* how often an execution was redriven
  pc,             \* where an activity stands
  exec,           \* the execution an activity is processing
  batch,          \* rows an activity claimed and has not started on
  attempt,        \* attemptCount in the claimed copy of a row
  category,       \* the failure category failOrRetry was called with
  caught,         \* the activity is inside the catch block of process()
  opc,            \* where a dead-letter request stands
  target,         \* <<execution, n>> the request read
  faults,         \* database errors so far
  crashes         \* crashes so far

rowVars == <<status, attempt_count>>
letterVars == <<letters, resolved, redrives>>
workVars == <<pc, exec, batch, attempt, category, caught>>
operatorVars == <<opc, target>>
boundVars == <<faults, crashes>>
vars == <<rowVars, letterVars, workVars, operatorVars, boundVars>>

Workers == Runners \cup Requests

InProgress == {"EVALUATING", "ELIGIBLE", "DISPATCHING"}

Statuses == {"absent", "PENDING", "RETRY_WAIT", "SKIPPED", "SUCCEEDED",
             "TERMINAL_FAILED", "DEAD_LETTERED"} \cup InProgress

\* Statuses in which the scheduler owes the execution nothing more.
Settled == {"SKIPPED", "SUCCEEDED", "DEAD_LETTERED"}

Retriable == {"TRANSIENT_DEPENDENCY_FAILURE", "INTERNAL_FAILURE"}

Categories == Retriable \cup
  {"none", "PERMANENT_CONFIGURATION_FAILURE", "PUBLICATION_REJECTED"}

\* The points of the processor that remain before the row's final write.
EvaluatingPoints == {"subscription", "entitlement", "version", "capability",
                     "eligible", "skip"}
DispatchingPoints == {"publish", "awaiting", "succeed"}
OpenPoints == EvaluatingPoints \cup DispatchingPoints
                \cup {"dispatch", "fail", "deadletter"}

Points == OpenPoints \cup {"idle", "triggered", "next", "audit"}

\* Answers of PublicationHttpClient.trigger; "UNAVAILABLE" is a retriable
\* DependencyError (timeout, lost response, 5xx, 404), "REFUSED" another 4xx.
Outcomes == {"READY", "SKIPPED_DUPLICATE", "REJECTED", "FAILED",
             "UNAVAILABLE", "REFUSED"}

TypeOK ==
  /\ status \in [Executions -> Statuses]
  /\ attempt_count \in [Executions -> Nat]
  /\ letters \in [Executions -> Nat]
  /\ resolved \subseteq Executions \X Nat
  /\ redrives \in [Executions -> Nat]
  /\ pc \in [Workers -> Points]
  /\ exec \in [Workers -> Executions \cup {None}]
  /\ batch \in [Workers -> SUBSET Executions]
  /\ attempt \in [Workers -> [Executions -> Nat]]
  /\ category \in [Workers -> Categories]
  /\ caught \in [Workers -> BOOLEAN]
  /\ opc \in [Operators -> {"idle", "redrive", "resolve"}]
  /\ target \in [Operators -> (Executions \X Nat) \cup {None}]
  /\ faults \in Nat
  /\ crashes \in Nat

-----------------------------------------------------------------------------
NoAttempt == [e \in Executions |-> 0]

Init ==
  /\ status = [e \in Executions |-> "absent"]
  /\ attempt_count = NoAttempt
  /\ letters = [e \in Executions |-> 0]
  /\ resolved = {}
  /\ redrives = [e \in Executions |-> 0]
  /\ pc = [w \in Workers |-> "idle"]
  /\ exec = [w \in Workers |-> None]
  /\ batch = [w \in Workers |-> {}]
  /\ attempt = [w \in Workers |-> NoAttempt]
  /\ category = [w \in Workers |-> "none"]
  /\ caught = [w \in Workers |-> FALSE]
  /\ opc = [o \in Operators |-> "idle"]
  /\ target = [o \in Operators |-> None]
  /\ faults = 0
  /\ crashes = 0

\* Move activity w from one point of the program to another.
Goto(w, from, to) ==
  /\ pc[w] = from
  /\ pc' = [pc EXCEPT ![w] = to]

\* An unguarded UPDATE ... WHERE id = $1 of the status column.
SetStatus(e, s) == status' = [status EXCEPT ![e] = s]

\* The activity ends and forgets everything it held in memory.
Forget(w) ==
  /\ pc' = [pc EXCEPT ![w] = "idle"]
  /\ exec' = [exec EXCEPT ![w] = None]
  /\ batch' = [batch EXCEPT ![w] = {}]
  /\ attempt' = [attempt EXCEPT ![w] = NoAttempt]
  /\ category' = [category EXCEPT ![w] = "none"]
  /\ caught' = [caught EXCEPT ![w] = FALSE]

-----------------------------------------------------------------------------
(* Creating and claiming rows.                                             *)

\* DueScheduleScanner inserts the row of a due occurrence, if absent.
ScheduleOccurrence(e) ==
  /\ status[e] = "absent"
  /\ SetStatus(e, "PENDING")
  /\ attempt_count' = [attempt_count EXCEPT ![e] = 0]
  /\ UNCHANGED <<letterVars, workVars, operatorVars, boundVars>>

\* Mutant: only PENDING rows are claimed.
ClaimableOnce == {e \in Executions : status[e] = "PENDING"}

\* Mutant: rows that look stranded are claimed again.
ClaimableWithStranded ==
  {e \in Executions : status[e] \in {"PENDING", "RETRY_WAIT"} \cup InProgress}

\* A RETRY_WAIT row is due once next_retry_at has passed: any may be.
Claimable == {e \in Executions : status[e] \in {"PENDING", "RETRY_WAIT"}}

\* The rows one claim statement may take: every PENDING row and whatever
\* retries are due, cut at the LIMIT.
Claims ==
  {rows \in SUBSET Claimable :
    /\ rows # {}
    /\ Cardinality(rows) <= CLAIM_BATCH_SIZE
    /\ \/ Cardinality(rows) = CLAIM_BATCH_SIZE
       \/ {e \in Executions : status[e] = "PENDING"} \subseteq rows}

\* The UPDATE of a claim, and the copy of the rows it returns.
Claim(w, rows) ==
  /\ status' = [e \in Executions |->
                 IF e \in rows THEN "EVALUATING" ELSE status[e]]
  /\ attempt_count' = [e \in Executions |->
                 IF e \in rows THEN attempt_count[e] + 1 ELSE attempt_count[e]]
  /\ pc' = [pc EXCEPT ![w] = "next"]
  /\ batch' = [batch EXCEPT ![w] = rows]
  /\ attempt' = [attempt EXCEPT ![w] = [e \in Executions |->
                 IF e \in rows THEN attempt_count[e] + 1 ELSE 0]]
  /\ UNCHANGED <<category, caught, letterVars, operatorVars, boundVars>>

\* ExecutionRunner.runOnce claims its batch.
RunnerClaims(w) ==
  /\ pc[w] = "idle"
  /\ \E rows \in Claims : Claim(w, rows)
  /\ UNCHANGED exec

\* Mutant: the insert overwrites a row that exists.
ManualTriggerUpserts(w, e) ==
  /\ Goto(w, "idle", "triggered")
  /\ exec' = [exec EXCEPT ![w] = e]
  /\ SetStatus(e, "PENDING")
  /\ UNCHANGED <<attempt_count, batch, attempt, category, caught, letterVars,
                 operatorVars, boundVars>>

\* ManualTriggerService.trigger: the subscription exists, the row of its
\* idempotency key is inserted unless it is already there.
ManualTrigger(w, e) ==
  /\ Goto(w, "idle", "triggered")
  /\ exec' = [exec EXCEPT ![w] = e]
  /\ SetStatus(e, IF status[e] = "absent" THEN "PENDING" ELSE status[e])
  /\ UNCHANGED <<attempt_count, batch, attempt, category, caught, letterVars,
                 operatorVars, boundVars>>

\* ... and then tries to claim that one row,
ManualClaim(w) ==
  /\ pc[w] = "triggered"
  /\ exec[w] \in Claimable
  /\ Claim(w, {exec[w]})
  /\ exec' = [exec EXCEPT ![w] = None]

\* ... or finds it taken, finished or not due, and returns it as it is.
ManualClaimLost(w) ==
  /\ pc[w] = "triggered"
  /\ status[exec[w]] # "PENDING"
  /\ Forget(w)
  /\ UNCHANGED <<rowVars, letterVars, operatorVars, boundVars>>

-----------------------------------------------------------------------------
(* ExecutionProcessor.process.  Steps that write nothing move the point;   *)
(* Fails and Answers are shared by every dependency call.                  *)

\* The next claimed row is taken up: SCHEDULE_EVALUATION_STARTED.
ProcessNext(w) ==
  /\ \E e \in batch[w] : /\ exec' = [exec EXCEPT ![w] = e]
                         /\ batch' = [batch EXCEPT ![w] = @ \ {e}]
  /\ Goto(w, "next", "subscription")
  /\ UNCHANGED <<rowVars, attempt, category, caught, letterVars, operatorVars,
                 boundVars>>

\* failOrRetry is entered with a category.
Fails(w, from, c) ==
  /\ Goto(w, from, "fail")
  /\ category' = [category EXCEPT ![w] = c]
  /\ UNCHANGED <<rowVars, exec, batch, attempt, caught, letterVars,
                 operatorVars, boundVars>>

\* A dependency answered and the pipeline moves on, or stops to skip.
Answers(w, from, to) ==
  /\ Goto(w, from, to)
  /\ UNCHANGED <<rowVars, exec, batch, attempt, category, caught, letterVars,
                 operatorVars, boundVars>>

\* A dependency call failed: transiently, or for a permanent reason.
DependencyFails(w, from) ==
  \E c \in {"TRANSIENT_DEPENDENCY_FAILURE", "PERMANENT_CONFIGURATION_FAILURE"} :
    Fails(w, from, c)

\* getDeliveryContext: found and ACTIVE, or the execution is skipped.
RevalidateSubscription(w, active) ==
  Answers(w, "subscription", IF active THEN "entitlement" ELSE "skip")

\* entitlement evaluate: ALLOW, or the execution is skipped.
RevalidateEntitlement(w, allow) ==
  Answers(w, "entitlement", IF allow THEN "version" ELSE "skip")

\* getProduct, resolveVersionPolicy and the lifecycle policy.
ResolveVersion(w, publishable) ==
  Answers(w, "version", IF publishable THEN "capability" ELSE "skip")

\* validateDeliveryCapability.
ValidateCapability(w, supported) ==
  Answers(w, "capability", IF supported THEN "eligible" ELSE "skip")

\* A write of the row by its processor, from one point to the next.
Write(w, from, s, to) ==
  /\ Goto(w, from, to)
  /\ SetStatus(exec[w], s)
  /\ UNCHANGED <<attempt_count, exec, batch, attempt, category, caught,
                 letterVars, operatorVars, boundVars>>

MarkEligible(w) == Write(w, "eligible", "ELIGIBLE", "dispatch")
MarkDispatching(w) == Write(w, "dispatch", "DISPATCHING", "publish")
MarkSucceeded(w) == Write(w, "succeed", "SUCCEEDED", "audit")
MarkSkipped(w) == Write(w, "skip", "SKIPPED", "audit")

\* The POST to Publication Service leaves.
TriggerPublication(w) == Answers(w, "publish", "awaiting")

\* Mutant: a 200 answer whose outcome is FAILED counts as delivered.
PublicationAnswersLoosely(w, outcome) ==
  IF outcome \in {"READY", "SKIPPED_DUPLICATE", "FAILED"}
    THEN Answers(w, "awaiting", "succeed")
    ELSE Fails(w, "awaiting", "TRANSIENT_DEPENDENCY_FAILURE")

\* ... and is answered, or given up on.
PublicationAnswers(w, outcome) ==
  CASE outcome \in {"READY", "SKIPPED_DUPLICATE"} ->
         Answers(w, "awaiting", "succeed")
    [] outcome \in {"FAILED", "UNAVAILABLE"} ->
         Fails(w, "awaiting", "TRANSIENT_DEPENDENCY_FAILURE")
    [] outcome = "REJECTED" -> Fails(w, "awaiting", "PUBLICATION_REJECTED")
    [] outcome = "REFUSED" ->
         Fails(w, "awaiting", "PERMANENT_CONFIGURATION_FAILURE")

\* failOrRetry decides on the claimed copy of the row, not on the row.
MayRetry(w) == category[w] \in Retriable /\ attempt[w][exec[w]] < MAX_ATTEMPTS

MarkRetryWait(w) == MayRetry(w) /\ Write(w, "fail", "RETRY_WAIT", "audit")

MarkTerminalFailed(w) ==
  ~MayRetry(w) /\ Write(w, "fail", "TERMINAL_FAILED", "deadletter")

\* Mutant: the status update does not commit with the dead letter.
MarkDeadLetteredByHalf(w) ==
  /\ Goto(w, "deadletter", "audit")
  /\ letters' = [letters EXCEPT ![exec[w]] = @ + 1]
  /\ UNCHANGED <<rowVars, resolved, redrives, exec, batch, attempt, category,
                 caught, operatorVars, boundVars>>

\* Mutant: the insert of the dead letter is forgotten.
MarkDeadLetteredWithoutLetter(w) ==
  /\ Goto(w, "deadletter", "audit")
  /\ SetStatus(exec[w], "DEAD_LETTERED")
  /\ UNCHANGED <<attempt_count, letterVars, exec, batch, attempt, category,
                 caught, operatorVars, boundVars>>

\* The second transaction of a terminal failure: status and dead letter.
MarkDeadLettered(w) ==
  /\ Goto(w, "deadletter", "audit")
  /\ SetStatus(exec[w], "DEAD_LETTERED")
  /\ letters' = [letters EXCEPT ![exec[w]] = @ + 1]
  /\ UNCHANGED <<attempt_count, resolved, redrives, exec, batch, attempt,
                 category, caught, operatorVars, boundVars>>

\* The last audit event is written: process returns, and the activity
\* takes up the next row of its batch or ends.
Finish(w) ==
  /\ pc[w] = "audit"
  /\ IF batch[w] = {}
       THEN Forget(w)
       ELSE /\ pc' = [pc EXCEPT ![w] = "next"]
            /\ exec' = [exec EXCEPT ![w] = None]
            /\ attempt' = [attempt EXCEPT ![w][exec[w]] = 0]
            /\ category' = [category EXCEPT ![w] = "none"]
            /\ caught' = [caught EXCEPT ![w] = FALSE]
            /\ UNCHANGED batch
  /\ UNCHANGED <<rowVars, letterVars, operatorVars, boundVars>>

\* The next database call of the activity throws (a write that did not
\* commit, or the audit event after one that did).  Inside process() the
\* catch block calls failOrRetry; before the try, or a second time, the
\* error leaves process() and ends the tick or the request.
Throws(w) ==
  /\ faults < MaxFaults
  /\ faults' = faults + 1
  /\ pc[w] \notin {"idle", "awaiting"}
  /\ IF pc[w] \in {"triggered", "next"} \/ caught[w]
       THEN Forget(w)
       ELSE /\ pc' = [pc EXCEPT ![w] = "fail"]
            /\ category' = [category EXCEPT ![w] = "INTERNAL_FAILURE"]
            /\ caught' = [caught EXCEPT ![w] = TRUE]
            /\ UNCHANGED <<exec, batch, attempt>>
  /\ UNCHANGED <<rowVars, letterVars, operatorVars, crashes>>

\* The process dies: rows stay as they were written, memory is gone.
Crash(w) ==
  /\ crashes < MaxCrashes
  /\ crashes' = crashes + 1
  /\ pc[w] # "idle"
  /\ Forget(w)
  /\ UNCHANGED <<rowVars, letterVars, operatorVars, faults>>

-----------------------------------------------------------------------------
(* DeadLetterService: each request reads first and writes later.           *)

OperatorGoto(o, from, to, t) ==
  /\ opc[o] = from
  /\ opc' = [opc EXCEPT ![o] = to]
  /\ target' = [target EXCEPT ![o] = t]

\* redrive reads the latest dead letter (unresolved) and its execution.
RedriveReads(o, e) ==
  /\ letters[e] > 0
  /\ <<e, letters[e]>> \notin resolved
  /\ status[e] = "DEAD_LETTERED"
  /\ redrives[e] < MaxRedrives
  /\ OperatorGoto(o, "idle", "redrive", <<e, letters[e]>>)
  /\ UNCHANGED <<rowVars, letterVars, workVars, boundVars>>

\* resetForRedrive, unguarded.
RedriveResets(o) ==
  LET e == target[o][1] IN
  /\ OperatorGoto(o, "redrive", "idle", None)
  /\ SetStatus(e, "PENDING")
  /\ attempt_count' = [attempt_count EXCEPT ![e] = 0]
  /\ redrives' = [redrives EXCEPT ![e] = @ + 1]
  /\ UNCHANGED <<letters, resolved, workVars, boundVars>>

\* resolve reads any unresolved dead letter,
ResolveReads(o, e) ==
  /\ \E n \in 1..letters[e] :
       /\ <<e, n>> \notin resolved
       /\ OperatorGoto(o, "idle", "resolve", <<e, n>>)
  /\ UNCHANGED <<rowVars, letterVars, workVars, boundVars>>

\* ... and marks it.
ResolveMarks(o) ==
  /\ OperatorGoto(o, "resolve", "idle", None)
  /\ resolved' = resolved \cup {target[o]}
  /\ UNCHANGED <<rowVars, letters, redrives, workVars, boundVars>>

-----------------------------------------------------------------------------
Revalidate(w) ==
  \/ \E ok \in BOOLEAN : \/ RevalidateSubscription(w, ok)
                         \/ RevalidateEntitlement(w, ok)
                         \/ ResolveVersion(w, ok)
                         \/ ValidateCapability(w, ok)
  \/ \E from \in {"subscription", "entitlement", "version", "capability"} :
       DependencyFails(w, from)

\* The steps of process() that touch the row or the dead letters.
Record(w) ==
  \/ MarkEligible(w) \/ MarkDispatching(w) \/ MarkSucceeded(w)
  \/ MarkSkipped(w) \/ MarkRetryWait(w) \/ MarkTerminalFailed(w)
  \/ MarkDeadLettered(w)

\* What an activity does on its own, without Publication Service.
LocalStep(w) ==
  \/ ManualClaim(w) \/ ManualClaimLost(w) \/ ProcessNext(w)
  \/ Revalidate(w) \/ Record(w) \/ Finish(w)

Operate(o) ==
  \/ \E e \in Executions : RedriveReads(o, e) \/ ResolveReads(o, e)
  \/ RedriveResets(o) \/ ResolveMarks(o)

Next ==
  \/ \E e \in Executions \ ManualExecutions : ScheduleOccurrence(e)
  \/ \E w \in Runners : RunnerClaims(w)
  \/ \E w \in Requests, e \in ManualExecutions : ManualTrigger(w, e)
  \/ \E w \in Workers : \/ LocalStep(w)
                        \/ TriggerPublication(w)
                        \/ \E outcome \in Outcomes : PublicationAnswers(w, outcome)
                        \/ Throws(w)
                        \/ Crash(w)
  \/ \E o \in Operators : Operate(o)

Spec == Init /\ [][Next]_vars

\* An activity's own steps follow one another, fetch() gives up after its
\* timeout, and scan ticks keep coming until every retry time has passed.
\* Operators, errors and crashes are not fair: they need not happen.
Fairness ==
  /\ \A w \in Workers :
       /\ WF_vars(LocalStep(w))
       /\ WF_vars(TriggerPublication(w))
       /\ WF_vars(\E outcome \in Outcomes : PublicationAnswers(w, outcome))
  /\ \A e \in Executions :
       SF_vars(\E w \in Runners : RunnerClaims(w) /\ e \in batch'[w])

FairSpec == Spec /\ Fairness

-----------------------------------------------------------------------------
(* Properties.                                                             *)

\* Activity w has claimed e and still owes it a final write.
Owns(w, e) == e \in batch[w] \/ (exec[w] = e /\ pc[w] \in OpenPoints)

\* FOR UPDATE SKIP LOCKED and the conditional single-row claim make sure
\* that no two activities ever process the same execution.
ExclusiveProcessing ==
  \A v, w \in Workers : \A e \in Executions :
    Owns(v, e) /\ Owns(w, e) => v = w

\* failOrRetry compares the attempt count of the copy that was claimed with
\* max_attempts: while an activity owns a row that copy is not stale.
ClaimedCopyIsCurrent ==
  \A w \in Workers : \A e \in Executions :
    Owns(w, e) => attempt[w][e] = attempt_count[e]

\* Every claimed attempt counts, so a row is never claimed more often than
\* max_attempts allows between two redrives.
AttemptsBounded == \A e \in Executions : attempt_count[e] <= MAX_ATTEMPTS

\* Exhausting the attempts dead-letters exactly once: an execution has one
\* dead letter per redrive, and one more while it is DEAD_LETTERED.
DeadLetteredOnce ==
  \A e \in Executions :
    letters[e] = redrives[e] + (IF status[e] = "DEAD_LETTERED" THEN 1 ELSE 0)

\* An execution is tried and dead-lettered as often as its redrives allow, and no more.
AttemptsAreAccountedFor == AttemptsBounded /\ DeadLetteredOnce

\* However audit writes fail and activities die, every redrive had a dead
\* letter of its own, and what is DEAD_LETTERED has one for the operator.
EveryRedriveHasItsLetter ==
  \A e \in Executions :
    letters[e] >= redrives[e] + (IF status[e] = "DEAD_LETTERED" THEN 1 ELSE 0)

LeavesSettledByRedriveOnly ==
  \A e \in Executions :
    status[e] \in Settled /\ status'[e] # status[e] =>
      /\ status[e] = "DEAD_LETTERED"
      /\ status'[e] = "PENDING"
      /\ redrives'[e] = redrives[e] + 1

\* No unguarded UPDATE of a late activity overwrites a settled execution:
\* only a redrive leaves DEAD_LETTERED, nothing leaves SKIPPED or SUCCEEDED.
SettledStays == [][LeavesSettledByRedriveOnly]_vars

\* A row that was inserted is eventually published, skipped or handed to an
\* operator as a dead letter.  It can be lost only to an error or a crash:
\* no interleaving of ticks, batch limits, retries and redrives loses it.
NeverLost ==
  \A e \in Executions :
    status[e] = "PENDING" ~> (status[e] \in Settled \/ faults + crashes > 0)

=============================================================================
