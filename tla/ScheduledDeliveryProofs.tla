------------------------ MODULE ScheduledDeliveryProofs ------------------------
(***************************************************************************)
(* What the scheduler, data-publication-service and the two together       *)
(* guarantee, for every number of executions, activities, attempts,        *)
(* redrives, calls, lost answers, errors and crashes.                      *)
(*                                                                         *)
(* ScheduledExecution comes first.  Its type correctness holds without     *)
(* further assumption; its safety properties are proved under Undisturbed: *)
(* no database error and no two dead-letter requests at a time.  Both are  *)
(* needed: a failed statement ends a claim early, and two redrives of one  *)
(* letter pick one number.                                                 *)
(*                                                                         *)
(* In the composition both services take their own steps or stutter        *)
(* (Projection), so their invariants are also invariants of it; what is    *)
(* added relates a waiting activity to the call it waits for.              *)
(***************************************************************************)
EXTENDS ScheduledDelivery, FiniteSetTheorems, TLAPS

-----------------------------------------------------------------------------
(* The scheduler on its own: type correctness.                            *)

\* A dead-letter request between its read and its write knows its letter.
TargetOK ==
  \A o \in Operators : opc[o] # "idle" => target[o] \in Executions \X Nat

TypeInv == TypeOK /\ TargetOK

LEMMA PointsTypes ==
  /\ OpenPoints \subseteq Points
  /\ {"idle", "triggered", "next", "audit"} \subseteq Points
  /\ InProgress \subseteq Statuses
  /\ Retriable \subseteq Categories
BY DEF OpenPoints, Points, InProgress, Statuses, Retriable, Categories

LEMMA InitTypes == Init => TypeInv
BY DEF Init, TypeInv, TypeOK, TargetOK, NoAttempt, Points, Statuses, Categories

\* Going on to the next row of a batch drops the copy of the finished one.
LEMMA FinishResets ==
  ASSUME TypeOK, NEW w \in Workers, Finish(w), batch[w] # {}
  PROVE  attempt' = [attempt EXCEPT ![w] = [e \in Executions |->
                      IF e = exec[w] THEN 0 ELSE attempt[w][e]]]
<1>1. attempt' = [attempt EXCEPT ![w] = [attempt[w] EXCEPT ![exec[w]] = 0]]
  BY DEF Finish
<1>2. attempt[w] \in [Executions -> Nat]
  BY DEF TypeOK
<1>3. [attempt[w] EXCEPT ![exec[w]] = 0] = [e \in Executions |->
        IF e = exec[w] THEN 0 ELSE attempt[w][e]]
  BY <1>2
<1> QED
  BY <1>1, <1>3

\* The steps of one activity.
LEMMA WorkerTypes ==
  ASSUME TypeInv, NEW w \in Workers,
         \/ RunnerClaims(w)
         \/ \E e \in ManualExecutions : ManualTrigger(w, e)
         \/ LocalStep(w)
         \/ TriggerPublication(w)
         \/ \E outcome \in Outcomes : PublicationAnswers(w, outcome)
         \/ Throws(w)
         \/ Crash(w)
  PROVE  TypeInv'
<1> USE DEF TypeInv, TypeOK, TargetOK, rowVars, letterVars, workVars,
            operatorVars, boundVars
<1>1. ASSUME NEW rows \in SUBSET Executions, Claim(w, rows),
             exec' \in [Workers -> Executions \cup {None}]
      PROVE  TypeInv'
  BY <1>1 DEF Claim, Statuses, InProgress, Points
<1>2. ASSUME RunnerClaims(w) PROVE TypeInv'
  BY <1>1, <1>2 DEF RunnerClaims, Claims, Claimable
<1>3. ASSUME NEW e \in ManualExecutions, ManualTrigger(w, e) PROVE TypeInv'
  BY <1>3, ManualAssumption DEF ManualTrigger, Goto, SetStatus, Statuses, Points
<1>4. ASSUME ManualClaim(w) PROVE TypeInv'
  BY <1>1, <1>4 DEF ManualClaim, Claimable
<1>5. ASSUME Forget(w), UNCHANGED <<rowVars, letterVars, operatorVars>>,
             faults' \in Nat, crashes' \in Nat
      PROVE  TypeInv'
  BY <1>5 DEF Forget, NoAttempt, Points, Categories
<1>6. ASSUME ManualClaimLost(w) PROVE TypeInv'
  BY <1>5, <1>6 DEF ManualClaimLost
<1>7. ASSUME ProcessNext(w) PROVE TypeInv'
  BY <1>7 DEF ProcessNext, Goto, Points, OpenPoints, EvaluatingPoints
<1>8. ASSUME NEW from, NEW to \in Points, Answers(w, from, to) PROVE TypeInv'
  BY <1>8 DEF Answers, Goto
<1>9. ASSUME NEW from, NEW c \in Categories, Fails(w, from, c) PROVE TypeInv'
  BY <1>9 DEF Fails, Goto, Points, OpenPoints
<1>10. ASSUME Revalidate(w) PROVE TypeInv'
  <2>1. ASSUME NEW ok \in BOOLEAN,
               \/ RevalidateSubscription(w, ok) \/ RevalidateEntitlement(w, ok)
               \/ ResolveVersion(w, ok) \/ ValidateCapability(w, ok)
        PROVE  TypeInv'
    BY <2>1, <1>8 DEF RevalidateSubscription, RevalidateEntitlement,
         ResolveVersion, ValidateCapability, Points, OpenPoints, EvaluatingPoints
  <2>2. ASSUME NEW from, DependencyFails(w, from) PROVE TypeInv'
    BY <2>2, <1>9 DEF DependencyFails, Categories, Retriable
  <2> QED
    BY <1>10, <2>1, <2>2 DEF Revalidate
<1>11. ASSUME NEW from, NEW s \in Statuses, NEW to \in Points,
              Write(w, from, s, to)
       PROVE  TypeInv'
  BY <1>11 DEF Write, Goto, SetStatus
<1>12. ASSUME MarkDeadLettered(w) PROVE TypeInv'
  <2>1. letters' = [e \in Executions |->
                     IF e = exec[w] THEN letters[e] + 1 ELSE letters[e]]
    BY <1>12, Zenon DEF MarkDeadLettered
  <2>2. status' \in [Executions -> Statuses] /\ pc' \in [Workers -> Points]
    BY <1>12 DEF MarkDeadLettered, Goto, SetStatus, Statuses, Points
  <2>3. letters' \in [Executions -> Nat]
    BY <2>1
  <2>4. UNCHANGED <<attempt_count, resolved, redrives, exec, batch, attempt,
                    category, caught, opc, target, faults, crashes>>
    BY <1>12 DEF MarkDeadLettered
  <2> QED
    BY <2>2, <2>3, <2>4
<1>13. ASSUME Record(w) PROVE TypeInv'
  BY <1>11, <1>12, <1>13 DEF Record, MarkEligible, MarkDispatching,
       MarkSucceeded, MarkSkipped, MarkRetryWait, MarkTerminalFailed,
       Statuses, InProgress, Points, OpenPoints, DispatchingPoints
<1>14. ASSUME Finish(w) PROVE TypeInv'
  <2>1. CASE batch[w] = {}
    BY <1>5, <1>14, <2>1 DEF Finish
  <2>2. CASE batch[w] # {}
    <3>1. attempt' = [attempt EXCEPT ![w] = [e \in Executions |->
                       IF e = exec[w] THEN 0 ELSE attempt[w][e]]]
      BY <1>14, <2>2, FinishResets
    <3>3. attempt' \in [Workers -> [Executions -> Nat]]
      BY <3>1
    <3>2. /\ pc' \in [Workers -> Points]
          /\ exec' \in [Workers -> Executions \cup {None}]
          /\ category' \in [Workers -> Categories]
          /\ caught' \in [Workers -> BOOLEAN]
          /\ UNCHANGED <<batch, rowVars, letterVars, operatorVars, boundVars>>
      BY <1>14, <2>2 DEF Finish, Points, Categories
    <3> QED BY <3>2, <3>3
  <2> QED BY <2>1, <2>2
<1>15. ASSUME LocalStep(w) PROVE TypeInv'
  BY <1>4, <1>6, <1>7, <1>10, <1>13, <1>14, <1>15 DEF LocalStep
<1>16. ASSUME TriggerPublication(w) PROVE TypeInv'
  BY <1>8, <1>16 DEF TriggerPublication, Points, OpenPoints, DispatchingPoints
<1>17. ASSUME NEW outcome \in Outcomes, PublicationAnswers(w, outcome)
       PROVE  TypeInv'
  <2>1. CASE outcome \in {"READY", "SKIPPED_DUPLICATE"}
    BY <1>8, <1>17, <2>1 DEF PublicationAnswers, Points, OpenPoints,
         DispatchingPoints
  <2>2. CASE outcome \in {"FAILED", "UNAVAILABLE", "REJECTED", "REFUSED"}
    BY <1>9, <1>17, <2>2 DEF PublicationAnswers, Categories, Retriable
  <2> QED BY <2>1, <2>2 DEF Outcomes
<1>18. ASSUME Throws(w) PROVE TypeInv'
  <2>1. CASE pc[w] \in {"triggered", "next"} \/ caught[w]
    BY <1>5, <1>18, <2>1 DEF Throws
  <2>2. CASE ~(pc[w] \in {"triggered", "next"} \/ caught[w])
    <3>1. /\ pc' \in [Workers -> Points]
          /\ category' \in [Workers -> Categories]
          /\ caught' \in [Workers -> BOOLEAN]
      BY <1>18, <2>2 DEF Throws, Points, OpenPoints, Categories, Retriable
    <3>2. faults' \in Nat
      BY <1>18 DEF Throws
    <3> QED BY <1>18, <2>2, <3>1, <3>2 DEF Throws
  <2> QED BY <2>1, <2>2
<1>19. ASSUME Crash(w) PROVE TypeInv'
  BY <1>5, <1>19 DEF Crash
<1> QED
  BY <1>2, <1>3, <1>15, <1>16, <1>17, <1>18, <1>19

\* The steps of one dead-letter request, and the scan's insert.
LEMMA OperatorTypes ==
  ASSUME TypeInv, NEW o \in Operators, Operate(o)
  PROVE  TypeInv'
<1> USE DEF TypeInv, TypeOK, TargetOK, rowVars, letterVars, workVars,
            operatorVars, boundVars
<1>1. ASSUME NEW e \in Executions, RedriveReads(o, e) PROVE TypeInv'
  BY <1>1 DEF RedriveReads, OperatorGoto
<1>2. ASSUME NEW e \in Executions, ResolveReads(o, e) PROVE TypeInv'
  BY <1>2 DEF ResolveReads, OperatorGoto
<1>3. ASSUME RedriveResets(o) PROVE TypeInv'
  BY <1>3 DEF RedriveResets, OperatorGoto, SetStatus, Statuses
<1>4. ASSUME ResolveMarks(o) PROVE TypeInv'
  BY <1>4 DEF ResolveMarks, OperatorGoto
<1> QED BY <1>1, <1>2, <1>3, <1>4 DEF Operate

LEMMA NextTypes == TypeInv /\ [Next]_vars => TypeInv'
<1> SUFFICES ASSUME TypeInv, [Next]_vars PROVE TypeInv'
  OBVIOUS
<1>1. ASSUME NEW e \in Executions, ScheduleOccurrence(e) PROVE TypeInv'
  BY <1>1 DEF ScheduleOccurrence, SetStatus, Statuses, TypeInv, TypeOK,
       TargetOK, letterVars, workVars, operatorVars, boundVars
<1>2. ASSUME UNCHANGED vars PROVE TypeInv'
  BY <1>2 DEF TypeInv, TypeOK, TargetOK, vars, rowVars, letterVars, workVars,
       operatorVars, boundVars
<1> QED
  BY <1>1, <1>2, WorkerTypes, OperatorTypes DEF Next, Workers

\* Every variable keeps its type, whatever the bounds and the interleaving.
THEOREM TypeCorrect == Spec => []TypeOK
<1>1. Init => TypeInv
  BY InitTypes
<1>2. TypeInv /\ [Next]_vars => TypeInv'
  BY NextTypes
<1>3. TypeInv => TypeOK
  BY DEF TypeInv
<1> QED
  BY <1>1, <1>2, <1>3, PTL DEF Spec

-----------------------------------------------------------------------------
(* The inductive invariant.                                                *)

\* No database error, and dead-letter requests one at a time.
Undisturbed == MaxFaults = 0 /\ \A o, p \in Operators : o = p

\* The statuses the row of an activity at point p can have.
StatusAt(p) ==
  IF p \in EvaluatingPoints THEN {"EVALUATING"}
  ELSE IF p = "dispatch" THEN {"ELIGIBLE"}
  ELSE IF p \in DispatchingPoints THEN {"DISPATCHING"}
  ELSE IF p = "fail" THEN InProgress
  ELSE {"TERMINAL_FAILED"}

\* What an activity holds in memory at each point.
MemoryInv ==
  \A w \in Workers :
    /\ pc[w] \in {"idle", "triggered"} => batch[w] = {}
    /\ pc[w] \in OpenPoints \cup {"triggered", "audit"} =>
         exec[w] \in Executions \ batch[w]

\* The row of an owned execution is where its owner left it.
OwnedRowInv ==
  \A w \in Workers :
    /\ \A e \in batch[w] : status[e] = "EVALUATING"
    /\ pc[w] \in OpenPoints => status[exec[w]] \in StatusAt(pc[w])

\* Attempts are counted from zero and a retry is still allowed one.
AttemptInv ==
  \A e \in Executions :
    /\ attempt_count[e] <= MAX_ATTEMPTS
    /\ status[e] \in {"absent", "PENDING"} => attempt_count[e] = 0
    /\ status[e] = "RETRY_WAIT" => attempt_count[e] < MAX_ATTEMPTS

\* What a redrive read is still true when it writes.
RedriveInv ==
  \A o \in Operators :
    opc[o] = "redrive" => status[target[o][1]] = "DEAD_LETTERED"

RowInv ==
  /\ MemoryInv
  /\ OwnedRowInv
  /\ ExclusiveProcessing
  /\ ClaimedCopyIsCurrent
  /\ AttemptInv
  /\ RedriveInv
  /\ DeadLetteredOnce

SafetyInv == TypeInv /\ RowInv

LEMMA InitSafe == Init => SafetyInv
<1> SUFFICES ASSUME Init PROVE RowInv
  BY InitTypes DEF SafetyInv
<1> USE DEF Init, NoAttempt
<1>1. MemoryInv /\ OwnedRowInv
  BY DEF MemoryInv, OwnedRowInv, OpenPoints, EvaluatingPoints, DispatchingPoints
<1>2. ExclusiveProcessing /\ ClaimedCopyIsCurrent
  BY DEF ExclusiveProcessing, ClaimedCopyIsCurrent, Owns, OpenPoints,
         EvaluatingPoints, DispatchingPoints
<1>3. AttemptInv
  BY AttemptsAssumption DEF AttemptInv
<1>4. RedriveInv /\ DeadLetteredOnce
  BY DEF RedriveInv, DeadLetteredOnce
<1> QED
  BY <1>1, <1>2, <1>3, <1>4 DEF RowInv

\* An activity moves between two points without touching its row.
LEMMA MoveSafe ==
  ASSUME SafetyInv, NEW w \in Workers,
         NEW from \in OpenPoints, NEW to \in OpenPoints,
         StatusAt(from) \subseteq StatusAt(to),
         Goto(w, from, to),
         UNCHANGED <<status, attempt_count, letters, redrives, exec, batch,
                     attempt, opc, target>>
  PROVE  RowInv'
<1> USE DEF SafetyInv, TypeInv, TypeOK, RowInv
<1>1. \A v \in Workers : /\ pc'[v] \in OpenPoints <=> pc[v] \in OpenPoints
                         /\ v # w => pc'[v] = pc[v]
  BY DEF Goto
<1>2. \A v \in Workers, e \in Executions : Owns(v, e)' <=> Owns(v, e)
  BY <1>1 DEF Owns
<1>3. MemoryInv'
  <2>1. from \notin {"idle", "triggered", "audit"} /\ to \notin {"idle", "triggered"}
    BY DEF OpenPoints, EvaluatingPoints, DispatchingPoints
  <2> QED
    BY <1>1, <2>1 DEF MemoryInv, Goto
<1>4. OwnedRowInv'
  BY <1>1 DEF OwnedRowInv, Goto
<1>5. ExclusiveProcessing' /\ ClaimedCopyIsCurrent'
  BY <1>2 DEF ExclusiveProcessing, ClaimedCopyIsCurrent
<1>6. AttemptInv' /\ RedriveInv' /\ DeadLetteredOnce'
  BY DEF AttemptInv, RedriveInv, DeadLetteredOnce
<1> QED
  BY <1>3, <1>4, <1>5, <1>6

\* Exclusive ownership: a write of the owner disturbs no other owner.
LEMMA OwnerWrites ==
  ASSUME SafetyInv, NEW w \in Workers, pc[w] \in OpenPoints,
         NEW to \in OpenPoints \cup {"audit"}, NEW s \in Statuses,
         s \notin {"absent", "PENDING"},
         s = "RETRY_WAIT" => attempt[w][exec[w]] < MAX_ATTEMPTS,
         to \in OpenPoints => s \in StatusAt(to),
         Goto(w, pc[w], to),
         SetStatus(exec[w], s),
         letters' = [e \in Executions |->
           IF e = exec[w] /\ s = "DEAD_LETTERED" THEN letters[e] + 1
                                                 ELSE letters[e]],
         UNCHANGED <<attempt_count, redrives, exec, batch, attempt, opc, target>>
  PROVE  RowInv'
<1> USE DEF SafetyInv, TypeInv, TypeOK, RowInv
<1>1. exec[w] \in Executions /\ exec[w] \notin batch[w] /\ Owns(w, exec[w])
  BY DEF MemoryInv, Owns
<1>2. \A v \in Workers : v # w => pc'[v] = pc[v] /\ ~Owns(v, exec[w])
  BY <1>1 DEF Goto, ExclusiveProcessing
<1>3. \A v \in Workers, e \in Executions : Owns(v, e)' => Owns(v, e)
  BY <1>2 DEF Owns, Goto
<1>4. \A e \in Executions : status'[e] = IF e = exec[w] THEN s ELSE status[e]
  BY DEF SetStatus
<1>5. status[exec[w]] \in InProgress \cup {"TERMINAL_FAILED"}
  BY DEF OwnedRowInv, StatusAt, InProgress
<1>6. MemoryInv'
  <2>1. to \notin {"idle", "triggered"}
    BY DEF OpenPoints, EvaluatingPoints, DispatchingPoints
  <2> QED
    BY <1>1, <2>1 DEF MemoryInv, Goto
<1>7. OwnedRowInv'
  <2> SUFFICES ASSUME NEW v \in Workers
               PROVE  /\ \A e \in batch[v] : status'[e] = "EVALUATING"
                      /\ pc'[v] \in OpenPoints =>
                           status'[exec[v]] \in StatusAt(pc'[v])
    BY DEF OwnedRowInv
  <2>1. CASE v = w
    BY <1>1, <1>4, <2>1 DEF OwnedRowInv, Goto
  <2>2. CASE v # w
    <3>1. exec[w] \notin batch[v]
      BY <1>2, <2>2 DEF Owns
    <3>2. pc[v] \in OpenPoints => exec[v] # exec[w] /\ exec[v] \in Executions
      BY <1>2, <2>2 DEF Owns, MemoryInv
    <3> QED
      BY <1>2, <1>4, <2>2, <3>1, <3>2 DEF OwnedRowInv
  <2> QED BY <2>1, <2>2
<1>8. ExclusiveProcessing' /\ ClaimedCopyIsCurrent'
  BY <1>3 DEF ExclusiveProcessing, ClaimedCopyIsCurrent
<1>9. AttemptInv'
  BY <1>1, <1>4 DEF AttemptInv, ClaimedCopyIsCurrent
<1>10. RedriveInv'
  BY <1>1, <1>4, <1>5 DEF RedriveInv, InProgress, TargetOK
<1>11. DeadLetteredOnce'
  BY <1>1, <1>4, <1>5 DEF DeadLetteredOnce, InProgress
<1> QED
  BY <1>6, <1>7, <1>8, <1>9, <1>10, <1>11

\* An activity ends, and owns nothing any more.
LEMMA ForgetSafe ==
  ASSUME SafetyInv, NEW w \in Workers, Forget(w),
         UNCHANGED <<rowVars, letterVars, operatorVars>>
  PROVE  RowInv'
<1> USE DEF SafetyInv, TypeInv, TypeOK, RowInv, Forget, rowVars, letterVars,
            operatorVars
<1>1. \A v \in Workers : v # w => /\ pc'[v] = pc[v] /\ exec'[v] = exec[v]
                                  /\ batch'[v] = batch[v]
                                  /\ attempt'[v] = attempt[v]
  OBVIOUS
<1>2. pc'[w] = "idle" /\ batch'[w] = {}
  OBVIOUS
<1>3. \A v \in Workers, e \in Executions : Owns(v, e)' => v # w /\ Owns(v, e)
  BY <1>1, <1>2 DEF Owns, OpenPoints, EvaluatingPoints, DispatchingPoints
<1>4. MemoryInv' /\ OwnedRowInv'
  BY <1>1, <1>2 DEF MemoryInv, OwnedRowInv, OpenPoints, EvaluatingPoints,
                    DispatchingPoints
<1>5. ExclusiveProcessing' /\ ClaimedCopyIsCurrent'
  BY <1>1, <1>3 DEF ExclusiveProcessing, ClaimedCopyIsCurrent
<1>6. AttemptInv' /\ RedriveInv' /\ DeadLetteredOnce'
  BY DEF AttemptInv, RedriveInv, DeadLetteredOnce
<1> QED
  BY <1>4, <1>5, <1>6

\* The rows of a claim were nobody's, because they were claimable.
LEMMA ClaimSafe ==
  ASSUME SafetyInv, NEW w \in Workers, NEW rows \in SUBSET Claimable,
         pc[w] \in {"idle", "triggered"}, Claim(w, rows),
         exec' \in [Workers -> Executions \cup {None}],
         \A v \in Workers : v # w => exec'[v] = exec[v]
  PROVE  RowInv'
<1> USE DEF SafetyInv, TypeInv, TypeOK, RowInv
<1>1. \A v \in Workers : v # w => /\ pc'[v] = pc[v] /\ batch'[v] = batch[v]
                                  /\ attempt'[v] = attempt[v]
  BY DEF Claim
<1>2. pc'[w] = "next" /\ batch'[w] = rows /\ rows \subseteq Executions
  BY DEF Claim, Claimable
<1>3. \A e \in Executions :
        /\ status'[e] = IF e \in rows THEN "EVALUATING" ELSE status[e]
        /\ attempt_count'[e] =
             IF e \in rows THEN attempt_count[e] + 1 ELSE attempt_count[e]
        /\ e \in rows => attempt'[w][e] = attempt_count[e] + 1
  BY DEF Claim
<1>4. \A e \in rows : status[e] \in {"PENDING", "RETRY_WAIT"}
  BY DEF Claimable
<1>5. \A v \in Workers, e \in Executions :
        Owns(v, e) => status[e] \in InProgress \cup {"TERMINAL_FAILED"}
  <2>1. \A v \in Workers : \A e \in batch[v] : status[e] \in InProgress
    BY DEF OwnedRowInv, InProgress
  <2>2. \A v \in Workers : pc[v] \in OpenPoints =>
          status[exec[v]] \in InProgress \cup {"TERMINAL_FAILED"}
    BY DEF OwnedRowInv, StatusAt, InProgress
  <2> QED
    BY <2>1, <2>2 DEF Owns
<1>6. \A v \in Workers, e \in rows : ~Owns(v, e)
  BY <1>2, <1>4, <1>5 DEF InProgress
<1>7. \A v \in Workers, e \in Executions :
        Owns(v, e)' <=> IF v = w THEN e \in rows ELSE Owns(v, e)
  BY <1>1, <1>2 DEF Owns, OpenPoints, EvaluatingPoints, DispatchingPoints
<1>8. MemoryInv'
  BY <1>1, <1>2 DEF MemoryInv, OpenPoints, EvaluatingPoints, DispatchingPoints
<1>9. OwnedRowInv'
  <2> SUFFICES ASSUME NEW v \in Workers
               PROVE  /\ \A e \in batch'[v] : status'[e] = "EVALUATING"
                      /\ pc'[v] \in OpenPoints =>
                           status'[exec'[v]] \in StatusAt(pc'[v])
    BY DEF OwnedRowInv
  <2>1. CASE v = w
    BY <1>2, <1>3, <2>1 DEF OpenPoints, EvaluatingPoints, DispatchingPoints
  <2>2. CASE v # w
    <3>1. \A e \in batch[v] : e \notin rows /\ e \in Executions
      BY <1>6, <2>2 DEF Owns
    <3>2. pc[v] \in OpenPoints => exec[v] \notin rows /\ exec[v] \in Executions
      BY <1>6, <2>2 DEF Owns, MemoryInv
    <3> QED
      BY <1>1, <1>3, <2>2, <3>1, <3>2 DEF OwnedRowInv
  <2> QED BY <2>1, <2>2
<1>10. ExclusiveProcessing'
  BY <1>6, <1>7 DEF ExclusiveProcessing
<1>11. ClaimedCopyIsCurrent'
  <2> SUFFICES ASSUME NEW v \in Workers, NEW e \in Executions, Owns(v, e)'
               PROVE  attempt'[v][e] = attempt_count'[e]
    BY DEF ClaimedCopyIsCurrent
  <2>1. CASE v = w
    BY <1>3, <1>7, <2>1
  <2>2. CASE v # w
    BY <1>1, <1>3, <1>6, <1>7, <2>2 DEF ClaimedCopyIsCurrent
  <2> QED
    BY <2>1, <2>2
<1>12. AttemptInv'
  BY <1>3, <1>4, AttemptsAssumption DEF AttemptInv
<1>13. UNCHANGED <<letters, redrives, opc, target>>
  BY DEF Claim, letterVars, operatorVars
<1>14. RedriveInv'
  BY <1>3, <1>4, <1>13 DEF RedriveInv, TargetOK
<1>15. DeadLetteredOnce'
  BY <1>3, <1>4, <1>13 DEF DeadLetteredOnce
<1> QED
  BY <1>8, <1>9, <1>10, <1>11, <1>12, <1>14, <1>15

\* The steps of process() and of a trigger request.
LEMMA LocalStepSafe ==
  ASSUME SafetyInv, NEW w \in Workers, LocalStep(w)
  PROVE  RowInv'
<1> USE DEF SafetyInv, TypeInv, TypeOK, RowInv, rowVars, letterVars,
            operatorVars, boundVars
<1>1. ASSUME ManualClaim(w) PROVE RowInv'
  <2>1. {exec[w]} \in SUBSET Claimable /\ exec[w] \in Executions
    BY <1>1 DEF ManualClaim, Claimable
  <2> QED
    BY <1>1, <2>1, ClaimSafe DEF ManualClaim
<1>2. ASSUME ManualClaimLost(w) PROVE RowInv'
  BY <1>2, ForgetSafe DEF ManualClaimLost
<1>3. ASSUME ProcessNext(w) PROVE RowInv'
  <2>1. PICK e \in batch[w] : /\ exec' = [exec EXCEPT ![w] = e]
                              /\ batch' = [batch EXCEPT ![w] = @ \ {e}]
    BY <1>3 DEF ProcessNext
  <2>2. /\ pc[w] = "next" /\ pc' = [pc EXCEPT ![w] = "subscription"]
        /\ UNCHANGED <<status, attempt_count, attempt, letters, redrives, opc,
                       target>>
    BY <1>3 DEF ProcessNext, Goto
  <2>3. e \in Executions
    OBVIOUS
  <2>4. \A v \in Workers, d \in Executions : Owns(v, d)' <=> Owns(v, d)
    BY <2>1, <2>2, <2>3 DEF Owns, OpenPoints, EvaluatingPoints, DispatchingPoints
  <2>5. MemoryInv'
    BY <2>1, <2>2, <2>3 DEF MemoryInv, OpenPoints, EvaluatingPoints,
                            DispatchingPoints
  <2>6. OwnedRowInv'
    BY <2>1, <2>2, <2>3 DEF OwnedRowInv, StatusAt, OpenPoints, EvaluatingPoints,
                            DispatchingPoints
  <2>7. ExclusiveProcessing' /\ ClaimedCopyIsCurrent'
    BY <2>2, <2>4 DEF ExclusiveProcessing, ClaimedCopyIsCurrent
  <2>8. AttemptInv' /\ RedriveInv' /\ DeadLetteredOnce'
    BY <2>2 DEF AttemptInv, RedriveInv, DeadLetteredOnce
  <2> QED
    BY <2>5, <2>6, <2>7, <2>8
<1>4. ASSUME NEW from \in OpenPoints, NEW to \in OpenPoints,
             StatusAt(from) \subseteq StatusAt(to),
             \/ Answers(w, from, to)
             \/ to = "fail" /\ \E c \in Categories : Fails(w, from, c)
      PROVE  RowInv'
  BY <1>4, MoveSafe DEF Answers, Fails
<1>5. ASSUME Revalidate(w) PROVE RowInv'
  <2>1. \A p \in EvaluatingPoints : p \in OpenPoints /\ StatusAt(p) = {"EVALUATING"}
    BY DEF OpenPoints, StatusAt
  <2>2. StatusAt("fail") = InProgress /\ "fail" \in OpenPoints
    BY DEF StatusAt, OpenPoints, EvaluatingPoints, DispatchingPoints
  <2>3. ASSUME NEW from \in EvaluatingPoints, NEW to \in EvaluatingPoints,
               Answers(w, from, to)
        PROVE  RowInv'
    BY <1>4, <2>1, <2>3
  <2>4. ASSUME NEW from \in EvaluatingPoints, DependencyFails(w, from)
        PROVE  RowInv'
    <3>1. StatusAt(from) \subseteq StatusAt("fail")
      BY <2>1, <2>2 DEF InProgress
    <3>2. \E c \in Categories : Fails(w, from, c)
      BY <2>4 DEF DependencyFails, Categories, Retriable
    <3> QED
      BY <1>4, <2>1, <2>2, <3>1, <3>2
  <2>5. {"subscription", "entitlement", "version", "capability", "eligible",
         "skip"} = EvaluatingPoints
    BY DEF EvaluatingPoints
  <2> QED
    BY <1>5, <2>3, <2>4, <2>5 DEF Revalidate, RevalidateSubscription,
         RevalidateEntitlement, ResolveVersion, ValidateCapability
<1>6. ASSUME NEW from \in OpenPoints, NEW to \in OpenPoints \cup {"audit"},
             NEW s \in Statuses \ {"absent", "PENDING", "DEAD_LETTERED"},
             s = "RETRY_WAIT" => attempt[w][exec[w]] < MAX_ATTEMPTS,
             to \in OpenPoints => s \in StatusAt(to),
             Write(w, from, s, to)
      PROVE  RowInv'
  <2>1. letters' = [e \in Executions |->
           IF e = exec[w] /\ s = "DEAD_LETTERED" THEN letters[e] + 1
                                                 ELSE letters[e]]
    BY <1>6 DEF Write
  <2> QED
    BY <1>6, <2>1, OwnerWrites DEF Write, Goto
<1>7. ASSUME MarkDeadLettered(w) PROVE RowInv'
  <2>1. letters' = [e \in Executions |->
           IF e = exec[w] /\ "DEAD_LETTERED" = "DEAD_LETTERED"
             THEN letters[e] + 1 ELSE letters[e]]
    BY <1>7, Zenon DEF MarkDeadLettered
  <2>2. /\ pc[w] = "deadletter" /\ Goto(w, pc[w], "audit")
        /\ SetStatus(exec[w], "DEAD_LETTERED")
        /\ UNCHANGED <<attempt_count, redrives, exec, batch, attempt, opc, target>>
    BY <1>7 DEF MarkDeadLettered, Goto
  <2>3. "deadletter" \in OpenPoints /\ "audit" \notin OpenPoints
    BY DEF OpenPoints, EvaluatingPoints, DispatchingPoints
  <2> QED
    BY <2>1, <2>2, <2>3, OwnerWrites DEF Statuses
<1>8. ASSUME Record(w) PROVE RowInv'
  <2>1. /\ {"eligible", "dispatch", "publish", "succeed", "skip", "fail",
            "deadletter"} \subseteq OpenPoints
        /\ "audit" \notin OpenPoints
        /\ "ELIGIBLE" \in StatusAt("dispatch")
        /\ "DISPATCHING" \in StatusAt("publish")
        /\ "TERMINAL_FAILED" \in StatusAt("deadletter")
    BY DEF StatusAt, OpenPoints, EvaluatingPoints, DispatchingPoints
  <2>2. {"ELIGIBLE", "DISPATCHING", "SUCCEEDED", "SKIPPED", "RETRY_WAIT",
         "TERMINAL_FAILED"} \subseteq Statuses \ {"absent", "PENDING", "DEAD_LETTERED"}
    BY DEF Statuses, InProgress
  <2> QED
    BY <1>6, <1>7, <1>8, <2>1, <2>2 DEF Record, MarkEligible, MarkDispatching,
         MarkSucceeded, MarkSkipped, MarkRetryWait, MarkTerminalFailed, MayRetry
<1>9. ASSUME Finish(w) PROVE RowInv'
  <2>1. CASE batch[w] = {}
    BY <1>9, <2>1, ForgetSafe DEF Finish
  <2>2. CASE batch[w] # {}
    <3>1. /\ pc[w] = "audit" /\ pc' = [pc EXCEPT ![w] = "next"]
          /\ exec' = [exec EXCEPT ![w] = None]
          /\ UNCHANGED <<batch, status, attempt_count, letters, redrives, opc,
                         target>>
      BY <1>9, <2>2 DEF Finish
    <3>2. attempt' = [attempt EXCEPT ![w] = [e \in Executions |->
                       IF e = exec[w] THEN 0 ELSE attempt[w][e]]]
      BY <1>9, <2>2, FinishResets
    <3>3. exec[w] \notin batch[w]
      BY <3>1 DEF MemoryInv
    <3>4. \A v \in Workers, e \in Executions : Owns(v, e)' <=> Owns(v, e)
      <4>1. \A v \in Workers : v # w => pc'[v] = pc[v] /\ exec'[v] = exec[v]
        BY <3>1
      <4>2. pc'[w] \notin OpenPoints /\ pc[w] \notin OpenPoints
        BY <3>1 DEF OpenPoints, EvaluatingPoints, DispatchingPoints
      <4> QED
        BY <3>1, <4>1, <4>2 DEF Owns
    <3>5. \A v \in Workers, e \in Executions :
            Owns(v, e) => attempt'[v][e] = attempt[v][e]
      <4>1. ASSUME NEW v \in Workers, NEW e \in Executions, v # w
            PROVE  attempt'[v][e] = attempt[v][e]
        BY <3>2, <4>1
      <4>2. ASSUME NEW e \in Executions, e # exec[w]
            PROVE  attempt'[w][e] = attempt[w][e]
        BY <3>2, <4>2
      <4>3. ~Owns(w, exec[w])
        BY <3>1, <3>3 DEF Owns, OpenPoints, EvaluatingPoints, DispatchingPoints
      <4> QED
        BY <4>1, <4>2, <4>3
    <3>6. MemoryInv' /\ OwnedRowInv'
      BY <3>1 DEF MemoryInv, OwnedRowInv, OpenPoints, EvaluatingPoints,
                  DispatchingPoints
    <3>7. ExclusiveProcessing' /\ ClaimedCopyIsCurrent'
      BY <3>1, <3>4, <3>5 DEF ExclusiveProcessing, ClaimedCopyIsCurrent
    <3>8. AttemptInv' /\ RedriveInv' /\ DeadLetteredOnce'
      BY <3>1 DEF AttemptInv, RedriveInv, DeadLetteredOnce
    <3> QED
      BY <3>6, <3>7, <3>8
  <2> QED BY <2>1, <2>2
<1> QED
  BY <1>1, <1>2, <1>3, <1>5, <1>8, <1>9 DEF LocalStep

\* The first rows of an execution, the claims of a tick, the calls to
\* Publication Service and a crash.
LEMMA WorkerSafe ==
  ASSUME Undisturbed, SafetyInv, NEW w \in Workers,
         \/ RunnerClaims(w)
         \/ \E e \in ManualExecutions : ManualTrigger(w, e)
         \/ LocalStep(w)
         \/ TriggerPublication(w)
         \/ \E outcome \in Outcomes : PublicationAnswers(w, outcome)
         \/ Throws(w)
         \/ Crash(w)
  PROVE  RowInv'
<1> USE DEF SafetyInv, TypeInv, TypeOK, RowInv, rowVars, letterVars,
            operatorVars, boundVars
<1>1. ASSUME RunnerClaims(w) PROVE RowInv'
  <2>1. PICK rows \in SUBSET Claimable : Claim(w, rows)
    BY <1>1 DEF RunnerClaims, Claims
  <2> QED
    BY <1>1, <2>1, ClaimSafe DEF RunnerClaims
<1>2. ASSUME NEW e \in ManualExecutions, ManualTrigger(w, e) PROVE RowInv'
  <2>1. /\ pc[w] = "idle" /\ pc' = [pc EXCEPT ![w] = "triggered"]
        /\ exec' = [exec EXCEPT ![w] = e]
        /\ UNCHANGED <<attempt_count, batch, attempt, letters, redrives, opc,
                       target>>
    BY <1>2 DEF ManualTrigger, Goto
  <2>2. e \in Executions
    BY ManualAssumption
  <2>3. \A d \in Executions :
          status'[d] = IF d = e /\ status[e] = "absent" THEN "PENDING" ELSE status[d]
    BY <1>2, <2>2 DEF ManualTrigger, SetStatus
  <2>4. \A v \in Workers, d \in Executions : Owns(v, d)' <=> Owns(v, d)
    BY <2>1 DEF Owns, OpenPoints, EvaluatingPoints, DispatchingPoints
  <2>5. MemoryInv'
    BY <2>1, <2>2 DEF MemoryInv, OpenPoints, EvaluatingPoints, DispatchingPoints
  <2>6. OwnedRowInv'
    <3>1. \A v \in Workers, d \in Executions : Owns(v, d) => status'[d] = status[d]
      <4>1. \A v \in Workers, d \in Executions : Owns(v, d) => status[d] # "absent"
        BY DEF Owns, OwnedRowInv, StatusAt, InProgress
      <4> QED
        BY <2>3, <4>1
    <3>2. \A v \in Workers : pc'[v] \in OpenPoints =>
            /\ pc'[v] = pc[v] /\ exec'[v] = exec[v]
            /\ exec[v] \in Executions /\ Owns(v, exec[v])
      BY <2>1 DEF MemoryInv, Owns, OpenPoints, EvaluatingPoints, DispatchingPoints
    <3>3. \A v \in Workers : \A d \in batch[v] : d \in Executions /\ Owns(v, d)
      BY DEF Owns
    <3> QED
      BY <2>1, <3>1, <3>2, <3>3 DEF OwnedRowInv
  <2>7. ExclusiveProcessing' /\ ClaimedCopyIsCurrent'
    BY <2>1, <2>4 DEF ExclusiveProcessing, ClaimedCopyIsCurrent
  <2>8. AttemptInv' /\ RedriveInv' /\ DeadLetteredOnce'
    BY <2>1, <2>2, <2>3 DEF AttemptInv, RedriveInv, DeadLetteredOnce, TargetOK
  <2> QED
    BY <2>5, <2>6, <2>7, <2>8
<1>3. ASSUME NEW from \in OpenPoints, NEW to \in OpenPoints,
             StatusAt(from) \subseteq StatusAt(to),
             \/ Answers(w, from, to)
             \/ to = "fail" /\ \E c \in Categories : Fails(w, from, c)
      PROVE  RowInv'
  BY <1>3, MoveSafe DEF Answers, Fails
<1>4. /\ {"publish", "awaiting", "succeed", "fail"} \subseteq OpenPoints
      /\ \A p \in {"publish", "awaiting", "succeed"} : StatusAt(p) = {"DISPATCHING"}
      /\ StatusAt("fail") = InProgress
      /\ "DISPATCHING" \in InProgress
  BY DEF StatusAt, OpenPoints, EvaluatingPoints, DispatchingPoints, InProgress
<1>5. ASSUME TriggerPublication(w) PROVE RowInv'
  BY <1>3, <1>4, <1>5 DEF TriggerPublication
<1>6. ASSUME NEW outcome \in Outcomes, PublicationAnswers(w, outcome)
      PROVE  RowInv'
  <2>1. CASE outcome \in {"READY", "SKIPPED_DUPLICATE"}
    BY <1>3, <1>4, <1>6, <2>1 DEF PublicationAnswers
  <2>2. CASE outcome \in {"FAILED", "UNAVAILABLE", "REJECTED", "REFUSED"}
    <3>1. \E c \in Categories : Fails(w, "awaiting", c)
      BY <1>6, <2>2 DEF PublicationAnswers, Categories, Retriable
    <3> QED
      BY <1>3, <1>4, <3>1
  <2> QED BY <2>1, <2>2 DEF Outcomes
<1>7. ~Throws(w)
  BY DEF Undisturbed, Throws
<1>8. ASSUME Crash(w) PROVE RowInv'
  BY <1>8, ForgetSafe DEF Crash
<1> QED
  BY <1>1, <1>2, <1>5, <1>6, <1>7, <1>8, LocalStepSafe

\* The only request resets only an execution that is still dead-lettered.
LEMMA OperatorSafe ==
  ASSUME Undisturbed, SafetyInv, NEW o \in Operators, Operate(o)
  PROVE  RowInv'
<1> USE DEF SafetyInv, TypeInv, TypeOK, RowInv, rowVars, letterVars, workVars,
            boundVars
<1>1. \A p \in Operators : p = o
  BY DEF Undisturbed
<1>2. ASSUME UNCHANGED <<status, attempt_count, letters, redrives, workVars>>,
             RedriveInv'
      PROVE  RowInv'
  BY <1>2 DEF MemoryInv, OwnedRowInv, ExclusiveProcessing,
       ClaimedCopyIsCurrent, Owns, AttemptInv, DeadLetteredOnce
<1>3. ASSUME NEW e \in Executions, RedriveReads(o, e) PROVE RowInv'
  <2>1. RedriveInv'
    BY <1>1, <1>3 DEF RedriveReads, OperatorGoto, RedriveInv
  <2> QED BY <1>2, <1>3, <2>1 DEF RedriveReads
<1>4. ASSUME NEW e \in Executions, ResolveReads(o, e) PROVE RowInv'
  <2>1. RedriveInv'
    BY <1>1, <1>4 DEF ResolveReads, OperatorGoto, RedriveInv
  <2> QED BY <1>2, <1>4, <2>1 DEF ResolveReads
<1>5. ASSUME ResolveMarks(o) PROVE RowInv'
  <2>1. RedriveInv'
    BY <1>1, <1>5 DEF ResolveMarks, OperatorGoto, RedriveInv
  <2> QED BY <1>2, <1>5, <2>1 DEF ResolveMarks
<1>6. ASSUME RedriveResets(o) PROVE RowInv'
  <2> DEFINE e == target[o][1]
  <2>1. e \in Executions /\ status[e] = "DEAD_LETTERED"
    BY <1>6 DEF RedriveResets, OperatorGoto, TargetOK, RedriveInv
  <2>2. \A d \in Executions :
          /\ status'[d] = IF d = e THEN "PENDING" ELSE status[d]
          /\ attempt_count'[d] = IF d = e THEN 0 ELSE attempt_count[d]
          /\ redrives'[d] = IF d = e THEN redrives[d] + 1 ELSE redrives[d]
    BY <1>6, <2>1 DEF RedriveResets, SetStatus
  <2>3. UNCHANGED <<letters, workVars>>
    BY <1>6 DEF RedriveResets
  <2> HIDE DEF e
  <2>4. \A w \in Workers : ~Owns(w, e)
    BY <2>1 DEF Owns, OwnedRowInv, StatusAt, InProgress
  <2>5. MemoryInv' /\ ExclusiveProcessing'
    BY <2>3 DEF MemoryInv, ExclusiveProcessing, Owns
  <2>6. ClaimedCopyIsCurrent'
    BY <2>2, <2>3, <2>4 DEF ClaimedCopyIsCurrent, Owns
  <2>7. OwnedRowInv'
    <3>1. \A w \in Workers : pc[w] \in OpenPoints => exec[w] # e /\ exec[w] \in Executions
      BY <2>4 DEF Owns, MemoryInv
    <3>2. \A w \in Workers : \A d \in batch[w] : d # e /\ d \in Executions
      BY <2>4 DEF Owns
    <3> QED
      BY <2>2, <2>3, <3>1, <3>2 DEF OwnedRowInv
  <2>8. AttemptInv'
    BY <2>2, AttemptsAssumption DEF AttemptInv
  <2>9. RedriveInv'
    BY <1>1, <1>6 DEF RedriveResets, OperatorGoto, RedriveInv
  <2>10. DeadLetteredOnce'
    BY <2>1, <2>2, <2>3 DEF DeadLetteredOnce
  <2> QED
    BY <2>5, <2>6, <2>7, <2>8, <2>9, <2>10
<1> QED
  BY <1>3, <1>4, <1>5, <1>6 DEF Operate

LEMMA NextSafe == Undisturbed /\ SafetyInv /\ [Next]_vars => SafetyInv'
<1> SUFFICES ASSUME Undisturbed, SafetyInv, [Next]_vars PROVE RowInv'
  BY NextTypes DEF SafetyInv
<1> USE DEF SafetyInv, TypeInv, TypeOK, RowInv
<1>1. ASSUME NEW e \in Executions, ScheduleOccurrence(e) PROVE RowInv'
  <2>1. status[e] = "absent" /\ UNCHANGED <<letters, redrives, workVars, opc, target>>
    BY <1>1 DEF ScheduleOccurrence, letterVars, operatorVars
  <2>2. \A d \in Executions :
          /\ status'[d] = IF d = e THEN "PENDING" ELSE status[d]
          /\ attempt_count'[d] = IF d = e THEN 0 ELSE attempt_count[d]
    BY <1>1 DEF ScheduleOccurrence, SetStatus
  <2>3. \A w \in Workers : ~Owns(w, e)
    BY <2>1 DEF Owns, OwnedRowInv, StatusAt, InProgress
  <2>4. MemoryInv' /\ ExclusiveProcessing'
    BY <2>1 DEF MemoryInv, ExclusiveProcessing, Owns, workVars
  <2>5. ClaimedCopyIsCurrent'
    BY <2>1, <2>2, <2>3 DEF ClaimedCopyIsCurrent, Owns, workVars
  <2>6. OwnedRowInv'
    <3>1. \A w \in Workers : pc[w] \in OpenPoints => exec[w] # e /\ exec[w] \in Executions
      BY <2>3 DEF Owns, MemoryInv
    <3>2. \A w \in Workers : \A d \in batch[w] : d # e /\ d \in Executions
      BY <2>3 DEF Owns
    <3> QED
      BY <2>1, <2>2, <3>1, <3>2 DEF OwnedRowInv, workVars
  <2>7. AttemptInv'
    BY <2>2, AttemptsAssumption DEF AttemptInv
  <2>8. RedriveInv' /\ DeadLetteredOnce'
    BY <2>1, <2>2 DEF RedriveInv, DeadLetteredOnce, TargetOK
  <2> QED
    BY <2>4, <2>5, <2>6, <2>7, <2>8
<1>2. ASSUME UNCHANGED vars PROVE RowInv'
  BY <1>2 DEF vars, rowVars, letterVars, workVars, operatorVars, MemoryInv,
       OwnedRowInv, ExclusiveProcessing, ClaimedCopyIsCurrent, Owns, AttemptInv,
       RedriveInv, DeadLetteredOnce
<1> QED
  BY <1>1, <1>2, WorkerSafe, OperatorSafe DEF Next, Workers

\* The inductive invariant holds, for any number of executions, overlapping
\* ticks, trigger requests, attempts, redrives and crashes.
THEOREM SafetyInvariant ==
  ASSUME Undisturbed PROVE Spec => []SafetyInv
<1>1. Init => SafetyInv
  BY InitSafe
<1>2. SafetyInv /\ [Next]_vars => SafetyInv'
  BY Undisturbed, NextSafe
<1> QED
  BY <1>1, <1>2, PTL DEF Spec

\* FOR UPDATE SKIP LOCKED and the conditional claim of one row leave every
\* execution with at most one activity.
THEOREM ProcessingIsExclusive ==
  ASSUME Undisturbed PROVE Spec => []ExclusiveProcessing
<1>1. SafetyInv => ExclusiveProcessing
  BY DEF SafetyInv, RowInv
<1> QED
  BY <1>1, SafetyInvariant, PTL

\* The attempt count failOrRetry decides on is the one in the table.
THEOREM CopiesAreCurrent ==
  ASSUME Undisturbed PROVE Spec => []ClaimedCopyIsCurrent
<1>1. SafetyInv => ClaimedCopyIsCurrent
  BY DEF SafetyInv, RowInv
<1> QED
  BY <1>1, SafetyInvariant, PTL

\* No execution is attempted more than max_attempts times per redrive.
THEOREM AttemptsStayBounded ==
  ASSUME Undisturbed PROVE Spec => []AttemptsBounded
<1>1. SafetyInv => AttemptsBounded
  BY DEF SafetyInv, RowInv, AttemptInv, AttemptsBounded
<1> QED
  BY <1>1, SafetyInvariant, PTL

\* Exhausting the attempts writes exactly one dead letter per redrive.
THEOREM DeadLettersAreExact ==
  ASSUME Undisturbed PROVE Spec => []DeadLetteredOnce
<1>1. SafetyInv => DeadLetteredOnce
  BY DEF SafetyInv, RowInv
<1> QED
  BY <1>1, SafetyInvariant, PTL

\* An execution is attempted as often as max_attempts and its redrives allow, and has one dead
\* letter for each redrive and one more while it is DEAD_LETTERED.
THEOREM EveryAttemptIsAccountedFor ==
  ASSUME Undisturbed PROVE Spec => []AttemptsAreAccountedFor
BY AttemptsStayBounded, DeadLettersAreExact, PTL DEF AttemptsAreAccountedFor

-----------------------------------------------------------------------------
(* Settled executions.                                                     *)

LEMMA SettledStep ==
  ASSUME Undisturbed, SafetyInv, Next
  PROVE  LeavesSettledByRedriveOnly
<1> USE DEF SafetyInv, TypeInv, TypeOK, RowInv, rowVars
<1>1. ASSUME \A e \in Executions :
               status[e] \in Settled => status'[e] = status[e]
      PROVE  LeavesSettledByRedriveOnly
  BY <1>1 DEF LeavesSettledByRedriveOnly
<1>2. ASSUME NEW e \in Executions, ScheduleOccurrence(e)
      PROVE  LeavesSettledByRedriveOnly
  BY <1>1, <1>2 DEF ScheduleOccurrence, SetStatus, Settled
<1>3. ASSUME NEW w \in Workers, NEW rows \in SUBSET Claimable, Claim(w, rows)
      PROVE  LeavesSettledByRedriveOnly
  BY <1>1, <1>3 DEF Claim, Claimable, Settled
<1>4. ASSUME NEW w \in Workers, RunnerClaims(w) PROVE LeavesSettledByRedriveOnly
  BY <1>3, <1>4 DEF RunnerClaims, Claims
<1>5. ASSUME NEW w \in Workers, NEW e \in ManualExecutions, ManualTrigger(w, e)
      PROVE  LeavesSettledByRedriveOnly
  BY <1>1, <1>5, ManualAssumption DEF ManualTrigger, SetStatus, Settled
<1>6. ASSUME NEW w \in Workers, pc[w] \in OpenPoints, NEW s,
             SetStatus(exec[w], s)
      PROVE  LeavesSettledByRedriveOnly
  <2>1. exec[w] \in Executions /\ status[exec[w]] \notin Settled
    BY <1>6 DEF MemoryInv, OwnedRowInv, StatusAt, InProgress, Settled
  <2> QED
    BY <1>1, <1>6, <2>1 DEF SetStatus
<1>7. ASSUME NEW w \in Workers, LocalStep(w) PROVE LeavesSettledByRedriveOnly
  <2>1. ASSUME ManualClaim(w) PROVE LeavesSettledByRedriveOnly
    BY <1>3, <2>1 DEF ManualClaim
  <2>2. ASSUME Record(w) PROVE LeavesSettledByRedriveOnly
    BY <1>6, <2>2 DEF Record, MarkEligible, MarkDispatching, MarkSucceeded,
         MarkSkipped, MarkRetryWait, MarkTerminalFailed, MarkDeadLettered,
         Write, Goto, OpenPoints, EvaluatingPoints, DispatchingPoints
  <2>3. ASSUME ManualClaimLost(w) \/ ProcessNext(w) \/ Revalidate(w) \/ Finish(w)
        PROVE  status' = status
    BY <2>3 DEF ManualClaimLost, ProcessNext, Revalidate, DependencyFails,
         RevalidateSubscription, RevalidateEntitlement, ResolveVersion,
         ValidateCapability, Answers, Fails, Finish
  <2> QED
    BY <1>1, <1>7, <2>1, <2>2, <2>3 DEF LocalStep
<1>8. ASSUME NEW w \in Workers,
             \/ TriggerPublication(w)
             \/ \E outcome \in Outcomes : PublicationAnswers(w, outcome)
             \/ Throws(w) \/ Crash(w)
      PROVE  status' = status
  BY <1>8 DEF TriggerPublication, PublicationAnswers, Answers, Fails, Throws,
       Crash, Outcomes
<1>9. ASSUME NEW o \in Operators, Operate(o) PROVE LeavesSettledByRedriveOnly
  <2>1. CASE RedriveResets(o)
    <3> DEFINE e == target[o][1]
    <3>1. e \in Executions /\ status[e] = "DEAD_LETTERED"
      BY <2>1 DEF RedriveResets, OperatorGoto, TargetOK, RedriveInv
    <3>2. /\ status' = [status EXCEPT ![e] = "PENDING"]
          /\ redrives' = [redrives EXCEPT ![e] = redrives[e] + 1]
      BY <2>1 DEF RedriveResets, SetStatus
    <3> HIDE DEF e
    <3> QED
      BY <3>1, <3>2 DEF LeavesSettledByRedriveOnly
  <2>2. CASE ~RedriveResets(o)
    BY <1>1, <1>9, <2>2 DEF Operate, RedriveReads, ResolveReads, ResolveMarks
  <2> QED BY <2>1, <2>2
<1> QED
  BY <1>1, <1>2, <1>4, <1>5, <1>7, <1>8, <1>9 DEF Next, Workers

\* No late or duplicate activity overwrites a settled execution.
THEOREM SettledExecutionsStay ==
  ASSUME Undisturbed PROVE Spec => SettledStays
<1>1. SafetyInv /\ [Next]_vars => [LeavesSettledByRedriveOnly]_vars
  BY Undisturbed, SettledStep
<1> QED
  BY <1>1, SafetyInvariant, PTL DEF Spec, SettledStays

-----------------------------------------------------------------------------
(* Dead letters in the presence of database errors.                        *)

OneOperator == \A o, p \in Operators : o = p

\* A redrive that has read its letter and not yet written.
PendingRedriveInv ==
  \A o \in Operators : opc[o] = "redrive" =>
    letters[target[o][1]] >= redrives[target[o][1]] + 1

LetterInv == TypeInv /\ EveryRedriveHasItsLetter /\ PendingRedriveInv

LEMMA LetterStep ==
  ASSUME OneOperator, LetterInv, [Next]_vars
  PROVE  EveryRedriveHasItsLetter' /\ PendingRedriveInv'
<1> USE DEF LetterInv, TypeInv, TypeOK, TargetOK, rowVars, letterVars,
            operatorVars, boundVars
<1>1. ASSUME UNCHANGED <<redrives, opc, target>>,
             \A e \in Executions :
               /\ letters'[e] \in Nat /\ letters'[e] >= letters[e]
               /\ status'[e] = "DEAD_LETTERED" =>
                    status[e] = "DEAD_LETTERED" \/ letters'[e] = letters[e] + 1
      PROVE  EveryRedriveHasItsLetter' /\ PendingRedriveInv'
  BY <1>1 DEF EveryRedriveHasItsLetter, PendingRedriveInv
<1>2. ASSUME UNCHANGED <<status, letters, redrives, opc, target>>
      PROVE  EveryRedriveHasItsLetter' /\ PendingRedriveInv'
  BY <1>1, <1>2
<1>3. ASSUME UNCHANGED <<letters, redrives, opc, target>>,
             NEW e, NEW s, s # "DEAD_LETTERED", SetStatus(e, s)
      PROVE  EveryRedriveHasItsLetter' /\ PendingRedriveInv'
  BY <1>1, <1>3 DEF SetStatus
<1>4. ASSUME NEW e \in Executions, ScheduleOccurrence(e)
      PROVE  EveryRedriveHasItsLetter' /\ PendingRedriveInv'
  BY <1>3, <1>4 DEF ScheduleOccurrence
<1>5. ASSUME NEW w \in Workers, NEW rows, Claim(w, rows)
      PROVE  EveryRedriveHasItsLetter' /\ PendingRedriveInv'
  BY <1>1, <1>5 DEF Claim
<1>6. ASSUME NEW w \in Workers, NEW e \in ManualExecutions, ManualTrigger(w, e)
      PROVE  EveryRedriveHasItsLetter' /\ PendingRedriveInv'
  BY <1>1, <1>6, ManualAssumption DEF ManualTrigger, SetStatus
<1>7. ASSUME NEW w \in Workers, Record(w)
      PROVE  EveryRedriveHasItsLetter' /\ PendingRedriveInv'
  <2>1. ASSUME NEW from, NEW s, NEW to, s # "DEAD_LETTERED", Write(w, from, s, to)
        PROVE  EveryRedriveHasItsLetter' /\ PendingRedriveInv'
    BY <1>3, <2>1 DEF Write
  <2>2. ASSUME MarkDeadLettered(w)
        PROVE  EveryRedriveHasItsLetter' /\ PendingRedriveInv'
    <3>1. letters' = [e \in Executions |->
                       IF e = exec[w] THEN letters[e] + 1 ELSE letters[e]]
      BY <2>2, Zenon DEF MarkDeadLettered
    <3>2. /\ status' = [status EXCEPT ![exec[w]] = "DEAD_LETTERED"]
          /\ UNCHANGED <<redrives, opc, target>>
      BY <2>2 DEF MarkDeadLettered, SetStatus
    <3> QED
      BY <1>1, <3>1, <3>2
  <2> QED
    BY <1>7, <2>1, <2>2 DEF Record, MarkEligible, MarkDispatching,
         MarkSucceeded, MarkSkipped, MarkRetryWait, MarkTerminalFailed
<1>8. ASSUME NEW w \in Workers, LocalStep(w)
      PROVE  EveryRedriveHasItsLetter' /\ PendingRedriveInv'
  <2>1. ASSUME ManualClaimLost(w) \/ ProcessNext(w) \/ Revalidate(w) \/ Finish(w)
        PROVE  UNCHANGED <<status, letters, redrives, opc, target>>
    BY <2>1 DEF ManualClaimLost, ProcessNext, Revalidate, DependencyFails,
         RevalidateSubscription, RevalidateEntitlement, ResolveVersion,
         ValidateCapability, Answers, Fails, Finish
  <2> QED
    BY <1>2, <1>5, <1>7, <1>8, <2>1 DEF LocalStep, ManualClaim
<1>9. ASSUME NEW w \in Workers,
             \/ TriggerPublication(w)
             \/ \E outcome \in Outcomes : PublicationAnswers(w, outcome)
             \/ Throws(w) \/ Crash(w)
      PROVE  UNCHANGED <<status, letters, redrives, opc, target>>
  BY <1>9 DEF TriggerPublication, PublicationAnswers, Answers, Fails, Throws,
       Crash, Outcomes
<1>10. ASSUME NEW o \in Operators, Operate(o)
       PROVE  EveryRedriveHasItsLetter' /\ PendingRedriveInv'
  <2>1. \A p \in Operators : p = o
    BY DEF OneOperator
  <2>2. ASSUME NEW e \in Executions, RedriveReads(o, e)
        PROVE  EveryRedriveHasItsLetter' /\ PendingRedriveInv'
    BY <2>1, <2>2 DEF RedriveReads, OperatorGoto, EveryRedriveHasItsLetter,
                      PendingRedriveInv
  <2>3. ASSUME NEW e \in Executions, ResolveReads(o, e)
        PROVE  EveryRedriveHasItsLetter' /\ PendingRedriveInv'
    BY <2>1, <2>3 DEF ResolveReads, OperatorGoto, EveryRedriveHasItsLetter,
                      PendingRedriveInv
  <2>4. ASSUME ResolveMarks(o)
        PROVE  EveryRedriveHasItsLetter' /\ PendingRedriveInv'
    BY <2>1, <2>4 DEF ResolveMarks, OperatorGoto, EveryRedriveHasItsLetter,
                      PendingRedriveInv
  <2>5. ASSUME RedriveResets(o)
        PROVE  EveryRedriveHasItsLetter' /\ PendingRedriveInv'
    <3> DEFINE e == target[o][1]
    <3>1. e \in Executions /\ letters[e] >= redrives[e] + 1
      BY <2>5 DEF RedriveResets, OperatorGoto, PendingRedriveInv
    <3>2. /\ status' = [status EXCEPT ![e] = "PENDING"]
          /\ redrives' = [redrives EXCEPT ![e] = redrives[e] + 1]
          /\ letters' = letters
          /\ opc'[o] = "idle"
      BY <2>5 DEF RedriveResets, SetStatus, OperatorGoto
    <3> HIDE DEF e
    <3>3. EveryRedriveHasItsLetter'
      BY <3>1, <3>2 DEF EveryRedriveHasItsLetter
    <3>4. PendingRedriveInv'
      BY <2>1, <3>2 DEF PendingRedriveInv
    <3> QED BY <3>3, <3>4
  <2> QED
    BY <1>10, <2>2, <2>3, <2>4, <2>5 DEF Operate
<1>11. CASE UNCHANGED vars
  BY <1>2, <1>11 DEF vars
<1> QED
  BY <1>2, <1>4, <1>5, <1>6, <1>8, <1>9, <1>10, <1>11 DEF Next, RunnerClaims,
     Workers

\* Database errors may write a dead letter too many, never one too few: for
\* any number of errors and crashes, with requests one at a time.
THEOREM RedrivesHaveLetters ==
  ASSUME OneOperator PROVE Spec => []EveryRedriveHasItsLetter
<1>1. Init => LetterInv
  BY InitTypes DEF LetterInv, Init, EveryRedriveHasItsLetter, PendingRedriveInv
<1>2. LetterInv /\ [Next]_vars => LetterInv'
  BY OneOperator, NextTypes, LetterStep DEF LetterInv
<1>3. LetterInv => EveryRedriveHasItsLetter
  BY DEF LetterInv
<1> QED
  BY <1>1, <1>2, <1>3, PTL DEF Spec


-----------------------------------------------------------------------------
(* data-publication-service on its own: what a call answers and what its   *)
(* run says is backed by the outbound exchange, and a READY run stays      *)
(* READY as long as no call met an infrastructure error.                   *)

LEMMA StatusTypes ==
  /\ DOMAIN NextStatus = {"CREATED", "READING_GOLD", "PROJECTING_SCHEMA",
       "QUALITY_CHECK", "EXPORTING", "CALCULATING_CHECKSUM",
       "CREATING_OUTBOUND_EXCHANGE", "TRANSFERRING"}
  /\ \A s \in DOMAIN NextStatus : NextStatus[s] \in RunStatuses
  /\ {"absent", "CREATED", "READY", "FAILED"} \subseteq RunStatuses
BY DEF NextStatus, RunStatuses

LEMMA PublicationInitTypes == PublicationInit => PublicationTypeOK
BY PublicationBounds DEF PublicationInit, PublicationTypeOK, Steps, RunStatuses, ClientAnswers

\* Answering and going on keep the types.
LEMMA RespondTypes ==
  ASSUME PublicationTypeOK, NEW c, NEW from, NEW a \in ClientAnswers, Respond(c, from, a)
  PROVE  step' \in [Calls -> Steps] /\ answer' \in [Calls -> ClientAnswers]
BY DEF Respond, StepTo, PublicationTypeOK, Steps

LEMMA StepToTypes ==
  ASSUME PublicationTypeOK, NEW c, NEW from, NEW to \in Steps, StepTo(c, from, to)
  PROVE  step' \in [Calls -> Steps]
BY DEF StepTo, PublicationTypeOK

LEMMA AbandonTypes ==
  ASSUME PublicationTypeOK, NEW cs, Abandon(cs)
  PROVE  exchange' \in [Calls -> {"none", "PREPARING", "COMPLETING", "READY", "FAILED"}]
<1>1. PICK late \in SUBSET (cs \cap Completing) :
        exchange' = [c \in Calls |-> IF c \in late THEN "COMPLETING" ELSE exchange[c]]
  BY DEF Abandon
<1> QED
  BY <1>1 DEF PublicationTypeOK

LEMMA WorkTypes == ASSUME PublicationTypeOK, NEW c \in Calls, Work(c) PROVE PublicationTypeOK'
<1> USE DEF PublicationTypeOK, request, bounds
<1>0. /\ {"external", "internal", "create", "run", "notify", "failing"} \subseteq Steps
      /\ {"REFUSED", "SKIPPED_DUPLICATE", "READY", "none", "REJECTED", "FAILED"} \subseteq ClientAnswers
  BY DEF Steps, ClientAnswers
<1>1. ASSUME NEW allowed \in BOOLEAN, CheckEntitlement(c, allowed) PROVE PublicationTypeOK'
  BY <1>0, <1>1, RespondTypes, StepToTypes DEF CheckEntitlement
<1>2. CASE FindExternal(c)
  BY <1>0, <1>2, RespondTypes, StepToTypes DEF FindExternal
<1>3. CASE FindInternal(c)
  BY <1>0, <1>3, RespondTypes, StepToTypes DEF FindInternal
<1>4. CASE CreateRun(c)
  BY <1>0, <1>4, StepToTypes, StatusTypes DEF CreateRun
<1>5. CASE Advance(c)
  BY <1>5, StatusTypes DEF Advance
<1>6. CASE CreateExchange(c)
  BY <1>6 DEF CreateExchange
<1>7. CASE CompleteExchange(c)
  BY <1>7 DEF CompleteExchange
<1>8. CASE ChecksumMismatch(c)
  BY <1>0, <1>8, StepToTypes DEF ChecksumMismatch
<1>9. CASE MarkReady(c)
  BY <1>0, <1>9, StepToTypes, StatusTypes DEF MarkReady
<1>10. CASE Notify(c)
  BY <1>0, <1>10, RespondTypes DEF Notify
<1>11. CASE Reject(c)
  BY <1>0, <1>11, StepToTypes DEF Reject
<1>12. CASE MarkFailed(c)
  BY <1>0, <1>12, RespondTypes, StatusTypes DEF MarkFailed
<1> QED
  BY <1>1, <1>2, <1>3, <1>4, <1>5, <1>6, <1>7, <1>8, <1>9, <1>10, <1>11, <1>12 DEF Work

LEMMA PublicationNextTypes == PublicationTypeOK /\ [PublicationNext]_publicationVars => PublicationTypeOK'
<1> SUFFICES ASSUME PublicationTypeOK, [PublicationNext]_publicationVars PROVE PublicationTypeOK'
  OBVIOUS
<1> USE DEF PublicationTypeOK, request, bounds
<1>0. /\ {"entitlement", "failing", "answered"} \subseteq Steps
      /\ "UNAVAILABLE" \in ClientAnswers
  BY DEF Steps, ClientAnswers
<1>1. CASE NewGold
  BY <1>1, PublicationBounds DEF NewGold
<1>2. CASE PublicationCrash
  BY <1>0, <1>2, AbandonTypes, PublicationBounds DEF PublicationCrash
<1>3. ASSUME NEW c \in Calls, CallThrows(c) PROVE PublicationTypeOK'
  BY <1>0, <1>3, AbandonTypes, RespondTypes, StepToTypes, StatusTypes, PublicationBounds DEF CallThrows
<1>4. ASSUME NEW c \in Calls, LateCompletion(c) PROVE PublicationTypeOK'
  BY <1>4 DEF LateCompletion
<1>5. ASSUME NEW c \in Calls, NEW k \in Keys, Receive(c, k) PROVE PublicationTypeOK'
  BY <1>0, <1>5, RespondTypes, StepToTypes DEF Receive
<1>6. CASE UNCHANGED publicationVars
  BY <1>6 DEF publicationVars
<1> QED
  BY <1>1, <1>2, <1>3, <1>4, <1>5, <1>6, WorkTypes DEF PublicationNext, Internal

\* Every variable has its type in every behaviour, crashes and errors included.
THEOREM PublicationTypes == PublicationSpec => []PublicationTypeOK
BY PublicationInitTypes, PublicationNextTypes, PTL DEF PublicationSpec

-----------------------------------------------------------------------------
(* What a call answered and a run says is backed by the exchange.          *)

\* Before its row is written a call has no run and no exchange.
Unrecorded == {"unused", "entitlement", "external", "internal", "create"}
\* Statuses of a run that has not asked for an exchange yet.
BeforeExchange == {"absent", "CREATED", "READING_GOLD", "PROJECTING_SCHEMA",
                   "QUALITY_CHECK", "EXPORTING", "CALCULATING_CHECKSUM"}
\* An exchange the customer cannot see, and that nobody is completing.
Hidden(c) == exchange[c] \in {"none", "FAILED"}

CallInv(c) ==
  /\ step[c] \in Unrecorded => run[c] = "absent" /\ exchange[c] = "none"
  /\ step[c] # "answered" => answer[c] = "none"
  /\ run[c] \in BeforeExchange => exchange[c] = "none"
  /\ run[c] = "READY" => exchange[c] = "READY"
  /\ step[c] = "failing" /\ code[c] = "REJECTED" => exchange[c] = "none"
  /\ answer[c] = "REJECTED" => run[c] = "FAILED" /\ exchange[c] = "none"
  /\ pubFaults = 0 /\ step[c] = "failing" => Hidden(c)
  /\ pubFaults = 0 /\ answer[c] \in {"FAILED", "REJECTED", "REFUSED"} => Hidden(c)

CallsInv == PublicationTypeOK /\ \A c \in Calls : CallInv(c)

\* What SKIPPED_DUPLICATE stands on: another call that did deliver.
Backed(c) ==
  \E d \in Calls \ {c} :
    /\ exchange[d] = "READY"
    /\ key[d] = key[c] \/ snapshot[d] = snapshot[c]
DuplicateInv == \A c \in Calls : answer[c] = "SKIPPED_DUPLICATE" => Backed(c)

RunInv == CallsInv /\ DuplicateInv

LEMMA InitRunInv == PublicationInit => RunInv
BY PublicationInitTypes DEF PublicationInit, RunInv, CallsInv, CallInv, DuplicateInv, Hidden, Unrecorded, BeforeExchange

LEMMA WorkKeepsCallInv ==
  ASSUME CallsInv, NEW c \in Calls, Work(c), NEW d \in Calls
  PROVE  CallInv(d)'
<1> USE DEF CallsInv, CallInv, Hidden, PublicationTypeOK, request, bounds, StepTo, Respond
<1>1. ASSUME NEW allowed \in BOOLEAN, CheckEntitlement(c, allowed) PROVE CallInv(d)'
  BY <1>1 DEF CheckEntitlement, Unrecorded
<1>2. CASE FindExternal(c)
  BY <1>2 DEF FindExternal, Unrecorded
<1>3. CASE FindInternal(c)
  BY <1>3 DEF FindInternal, Unrecorded
<1>4. CASE CreateRun(c)
  BY <1>4 DEF CreateRun, Unrecorded, BeforeExchange
<1>5. CASE Advance(c)
  BY <1>5, StatusTypes DEF Advance, NextStatus, BeforeExchange, Unrecorded
<1>6. CASE CreateExchange(c)
  BY <1>6 DEF CreateExchange, BeforeExchange, Unrecorded
<1>7. CASE CompleteExchange(c)
  BY <1>7 DEF CompleteExchange, BeforeExchange, Unrecorded
<1>8. CASE ChecksumMismatch(c)
  BY <1>8 DEF ChecksumMismatch, BeforeExchange, Unrecorded
<1>9. CASE MarkReady(c)
  BY <1>9 DEF MarkReady, BeforeExchange, Unrecorded
<1>10. CASE Notify(c)
  BY <1>10 DEF Notify, Unrecorded
<1>11. CASE Reject(c)
  BY <1>11 DEF Reject, Rejecting, BeforeExchange, Unrecorded
<1>12. CASE MarkFailed(c)
  BY <1>12 DEF MarkFailed, BeforeExchange, Unrecorded
<1> QED
  BY <1>1, <1>2, <1>3, <1>4, <1>5, <1>6, <1>7, <1>8, <1>9, <1>10, <1>11, <1>12 DEF Work

LEMMA NextKeepsCallsInv == CallsInv /\ [PublicationNext]_publicationVars => CallsInv'
<1> SUFFICES ASSUME CallsInv, [PublicationNext]_publicationVars PROVE CallsInv'
  OBVIOUS
<1>1. PublicationTypeOK'
  BY PublicationNextTypes DEF CallsInv
<1>2. ASSUME NEW d \in Calls PROVE CallInv(d)'
  <2> USE DEF CallsInv, CallInv, Hidden, PublicationTypeOK, request, bounds, StepTo, Respond
  <2>1. CASE NewGold
    BY <2>1 DEF NewGold
  <2>2. CASE PublicationCrash
    BY <2>2, PublicationBounds DEF PublicationCrash, Abandon, Completing, InFlight, Unrecorded, BeforeExchange
  <2>3. ASSUME NEW c \in Calls, CallThrows(c) PROVE CallInv(d)'
    BY <2>3, PublicationBounds DEF CallThrows, Abandon, Completing, InFlight, Unrecorded, BeforeExchange
  <2>4. ASSUME NEW c \in Calls, LateCompletion(c) PROVE CallInv(d)'
    BY <2>4 DEF LateCompletion
  <2>5. ASSUME NEW c \in Calls, NEW k \in Keys, Receive(c, k) PROVE CallInv(d)'
    BY <2>5 DEF Receive, Unrecorded
  <2>6. CASE UNCHANGED publicationVars
    BY <2>6 DEF publicationVars
  <2> QED
    BY <2>1, <2>2, <2>3, <2>4, <2>5, <2>6, WorkKeepsCallInv DEF PublicationNext, Internal
<1> QED
  BY <1>1, <1>2 DEF CallsInv

\* An exchange that is READY, and a call that has been received, stay so: what
\* backed a duplicate goes on backing it.
LEMMA ReadyExchangeStays ==
  ASSUME CallsInv, [PublicationNext]_publicationVars, NEW d \in Calls, exchange[d] = "READY"
  PROVE  exchange'[d] = "READY" /\ key'[d] = key[d] /\ snapshot'[d] = snapshot[d]
<1> USE DEF CallsInv, CallInv, PublicationTypeOK, request, bounds, Unrecorded
<1>1. ASSUME NEW c \in Calls, Work(c) PROVE exchange'[d] = "READY" /\ UNCHANGED <<key, snapshot>>
  BY <1>1 DEF Work, CheckEntitlement, FindExternal, FindInternal, CreateRun, Advance, CreateExchange,
     CompleteExchange, ChecksumMismatch, MarkReady, Notify, Reject, MarkFailed
<1>2. ASSUME NEW c \in Calls, CallThrows(c) PROVE exchange'[d] = "READY" /\ UNCHANGED <<key, snapshot>>
  BY <1>2 DEF CallThrows, Abandon, Completing
<1>3. CASE PublicationCrash
  BY <1>3 DEF PublicationCrash, Abandon, Completing
<1>4. ASSUME NEW c \in Calls, NEW k \in Keys, Receive(c, k)
      PROVE  c # d /\ exchange'[d] = "READY" /\ key'[d] = key[d] /\ snapshot'[d] = snapshot[d]
  BY <1>4 DEF Receive, Respond, StepTo
<1> QED
  BY <1>1, <1>2, <1>3, <1>4 DEF PublicationNext, Internal, NewGold, LateCompletion, publicationVars

LEMMA NextKeepsDuplicateInv == RunInv /\ [PublicationNext]_publicationVars => DuplicateInv'
<1> SUFFICES ASSUME RunInv, [PublicationNext]_publicationVars, NEW c \in Calls, answer'[c] = "SKIPPED_DUPLICATE"
             PROVE  Backed(c)'
  BY DEF DuplicateInv
<1>1. CASE answer[c] = "SKIPPED_DUPLICATE"
  <2>1. PICK d \in Calls \ {c} :
          exchange[d] = "READY" /\ (key[d] = key[c] \/ snapshot[d] = snapshot[c])
    BY <1>1 DEF RunInv, DuplicateInv, Backed
  <2>4. CallsInv /\ d \in Calls /\ exchange[d] = "READY"
    BY <2>1 DEF RunInv
  <2>2. exchange'[d] = "READY" /\ key'[d] = key[d] /\ snapshot'[d] = snapshot[d]
    BY <2>4, ReadyExchangeStays
  <2>3. key'[c] = key[c] /\ snapshot'[c] = snapshot[c]
    BY <1>1 DEF RunInv, CallsInv, CallInv, PublicationTypeOK, PublicationNext, Internal, publicationVars, request, NewGold, PublicationCrash, Work, CallThrows,
       LateCompletion, Receive, Respond, StepTo, CheckEntitlement, FindExternal, FindInternal, CreateRun, Advance,
       CreateExchange, CompleteExchange, ChecksumMismatch, MarkReady, Notify, Reject, MarkFailed
  <2> QED
    BY <2>1, <2>2, <2>3 DEF Backed
<1>2. CASE answer[c] # "SKIPPED_DUPLICATE"
  <2>1. /\ \/ FindExternal(c) /\ \E d \in Ready : key[d] = key[c]
           \/ FindInternal(c) /\ \E d \in Ready : snapshot[d] = snapshot[c]
        /\ step[c] \in {"external", "internal"}
    BY <1>2 DEF RunInv, CallsInv, PublicationTypeOK, PublicationNext, Internal, publicationVars, request, NewGold, PublicationCrash, Work, CallThrows,
       LateCompletion, Receive, Respond, StepTo, CheckEntitlement, FindExternal, FindInternal, CreateRun, Advance,
       CreateExchange, CompleteExchange, ChecksumMismatch, MarkReady, Notify, Reject, MarkFailed
  <2>2. UNCHANGED <<key, snapshot, exchange>>
    BY <2>1 DEF FindExternal, FindInternal
  <2>3. PICK d \in Ready : key[d] = key[c] \/ snapshot[d] = snapshot[c]
    BY <2>1
  <2>4. d \in Calls \ {c} /\ exchange[d] = "READY"
    BY <2>1 DEF Ready, RunInv, CallsInv, CallInv, Unrecorded
  <2> QED
    BY <2>2, <2>3, <2>4 DEF Backed
<1> QED
  BY <1>1, <1>2

LEMMA AlwaysRunInv == PublicationSpec => []RunInv
<1>1. RunInv /\ [PublicationNext]_publicationVars => RunInv'
  BY NextKeepsCallsInv, NextKeepsDuplicateInv DEF RunInv
<1> QED
  BY InitRunInv, <1>1, PTL DEF PublicationSpec

\* A READY run has a READY exchange, a duplicate is backed by another call that
\* delivered, rejected data reached no exchange, and without infrastructure
\* errors a failed call left nothing the customer can see.
THEOREM RunsStayBacked == PublicationSpec => []RunsAreBacked
<1>1. RunInv => RunsAreBacked
  BY DEF RunInv, CallsInv, CallInv, DuplicateInv, Backed, Hidden, RunsAreBacked, ReadyHasExchange,
     DuplicateIsBacked, RejectedLeavesNothing, FailureDeliversNothing
<1> QED
  BY AlwaysRunInv, <1>1, PTL

\* As long as no call met an infrastructure error, a READY run stays READY.
THEOREM ReadyRunsStay == PublicationSpec => ReadyStays
<1>1. RunInv /\ [PublicationNext]_publicationVars =>
        [pubFaults' = 0 => \A c \in Calls : run[c] = "READY" => run'[c] = "READY"]_publicationVars
  <2> SUFFICES ASSUME RunInv, [PublicationNext]_publicationVars, pubFaults' = 0, NEW c \in Calls, run[c] = "READY"
               PROVE  run'[c] = "READY"
    BY DEF publicationVars
  <2>1. step[c] # "failing" \/ pubFaults # 0
    BY DEF RunInv, CallsInv, CallInv, Hidden
  <2>2. step[c] \notin Unrecorded
    BY DEF RunInv, CallsInv, CallInv
  <2>3. PublicationTypeOK
    BY DEF RunInv, CallsInv
  <2> USE DEF PublicationTypeOK, StepTo, Respond
  <2>4. ASSUME NEW d \in Calls, Work(d) PROVE run'[c] = "READY"
    <3>1. CASE Advance(d)
      BY <2>3, <3>1, StatusTypes DEF Advance
    <3>2. CASE MarkFailed(d)
      BY <2>1, <2>3, <3>2 DEF MarkFailed, bounds
    <3> QED
      BY <2>2, <2>3, <2>4, <3>1, <3>2 DEF Work, Unrecorded, CheckEntitlement, FindExternal, FindInternal,
         CreateRun, CreateExchange, CompleteExchange, ChecksumMismatch, MarkReady, Notify, Reject
  <2>5. ASSUME NEW d \in Calls, CallThrows(d) PROVE FALSE
    BY <2>3, <2>5, PublicationBounds DEF CallThrows
  <2>6. CASE UNCHANGED run
    BY <2>6
  <2> QED
    BY <2>4, <2>5, <2>6 DEF PublicationNext, Internal, publicationVars, NewGold, PublicationCrash, LateCompletion, Receive
<1> QED
  BY AlwaysRunInv, <1>1, PTL DEF PublicationSpec, ReadyStays

-----------------------------------------------------------------------------
(* Both services together *)

LinkTypeOK ==
  /\ call \in [Workers -> Calls \cup {None}]
  /\ timeouts \in 0..MaxTimeouts
  /\ entitled \in BOOLEAN
  /\ authorized \in [Calls -> BOOLEAN]

\* An activity between taking up a row and going on to the next knows the row.
Busy == OpenPoints \cup {"triggered", "audit"}
KnowsRow == \A w \in Workers : pc[w] \in Busy => exec[w] \in Executions

\* An activity waits exactly while it has a call, made under its execution key.
Waiting(w) == pc[w] = "awaiting"
WaitsForItsCall ==
  \A w \in Workers :
    /\ Waiting(w) <=> call[w] # None
    /\ Waiting(w) => key[call[w]] = exec[w]

\* An artifact of the execution, or of the Gold snapshot it resolved.
Delivered(e) ==
  \E c, d \in Calls : /\ key[c] = e
                      /\ exchange[d] = "READY"
                      /\ key[d] = e \/ snapshot[d] = snapshot[c]

SuccessInv ==
  /\ \A w \in Workers : pc[w] = "succeed" => Delivered(exec[w])
  /\ \A e \in Executions : status[e] = "SUCCEEDED" => Delivered(e)

\* A call has a key once it was received, and READY is said of a READY exchange.
KeyInv(c) ==
  /\ step[c] = "unused" <=> key[c] = NoKey
  /\ step[c] = "notify" \/ answer[c] = "READY" => exchange[c] = "READY"

\* Past its entitlement check a call was authorized, and one before its check
\* is if the check would now pass.
AuthInv(c) ==
  /\ step[c] \in {"external", "internal", "create", "run", "notify", "failing"} => authorized[c]
  /\ run[c] # "absent" => authorized[c]
  /\ step[c] = "entitlement" /\ entitled => authorized[c]

LinkInv ==
  /\ LinkTypeOK
  /\ KnowsRow
  /\ WaitsForItsCall
  /\ SuccessInv
  /\ \A c \in Calls : KeyInv(c) /\ AuthInv(c)

DeliveryInv == TypeInv /\ RunInv /\ LinkInv

-----------------------------------------------------------------------------
(* The two services take their own steps.                                  *)

LEMMA BusyPoints ==
  /\ OpenPoints \subseteq Busy /\ Busy \subseteq Points
  /\ {"publish", "awaiting", "succeed", "fail", "triggered", "audit"} \subseteq Busy
  /\ "idle" \notin Busy /\ "next" \notin Busy
BY DEF Busy, OpenPoints, EvaluatingPoints, DispatchingPoints, Points

LEMMA Projection ==
  ASSUME DeliveryInv, [DeliveryNext]_deliveryVars
  PROVE  [Next]_vars /\ [PublicationNext]_publicationVars
<1>1. CASE SchedulerStep
  BY <1>1 DEF SchedulerStep, Next
<1>2. CASE SchedulerCrash
  BY <1>2 DEF SchedulerCrash, Next
<1>3. CASE Post
  <2>1. PICK w \in Workers, c \in Calls : TriggerPublication(w) /\ Receive(c, exec[w])
    BY <1>3 DEF Post
  <2>2. exec[w] \in Keys
    BY <2>1, BusyPoints, KeysAreExecutions DEF TriggerPublication, Answers, Goto, DeliveryInv, LinkInv, KnowsRow
  <2> QED
    BY <2>1, <2>2 DEF Next, PublicationNext
<1>4. CASE GetAnswer
  <2>1. PICK w \in Workers : /\ call[w] # None
                             /\ answer[call[w]] # "none"
                             /\ PublicationAnswers(w, answer[call[w]])
    BY <1>4 DEF GetAnswer
  <2>2. answer[call[w]] \in Outcomes
    BY <2>1 DEF DeliveryInv, LinkInv, LinkTypeOK, RunInv, CallsInv, PublicationTypeOK, ClientAnswers, Outcomes
  <2> QED
    BY <1>4, <2>1, <2>2 DEF GetAnswer, Next
<1>5. CASE LoseAnswer
  <2>1. "UNAVAILABLE" \in Outcomes
    BY DEF Outcomes
  <2> QED
    BY <1>5, <2>1 DEF LoseAnswer, Next
<1>6. CASE PublicationStep
  BY <1>6 DEF PublicationStep, PublicationNext
<1>7. CASE SetEntitlement
  BY <1>7 DEF SetEntitlement
<1> QED
  BY <1>1, <1>2, <1>3, <1>4, <1>5, <1>6, <1>7 DEF DeliveryNext, deliveryVars

\* What the scheduler's steps that do not involve a call leave alone: the other
\* activities, whoever waits, and SUCCEEDED, which only "succeed" writes.
LocalShape(w) ==
  /\ \A v \in Workers \ {w} : pc'[v] = pc[v] /\ exec'[v] = exec[v]
  /\ pc[w] # "awaiting" /\ pc'[w] \notin {"awaiting", "succeed"}
  /\ pc'[w] \in Busy => exec'[w] \in Executions
  /\ \A e \in Executions : status'[e] = "SUCCEEDED" =>
       status[e] = "SUCCEEDED" \/ (pc[w] = "succeed" /\ exec[w] = e)

LEMMA GotoShape ==
  ASSUME TypeInv, KnowsRow, NEW w \in Workers,
         NEW from \in Busy \ {"awaiting"}, NEW to \in Points \ {"awaiting", "succeed"},
         Goto(w, from, to), UNCHANGED exec,
         \A e \in Executions : status'[e] = "SUCCEEDED" =>
           status[e] = "SUCCEEDED" \/ (from = "succeed" /\ exec[w] = e)
  PROVE  LocalShape(w)
BY DEF TypeInv, TypeOK, KnowsRow, Goto, LocalShape

LEMMA ForgetShape ==
  ASSUME TypeInv, NEW w \in Workers, Forget(w), pc[w] # "awaiting", UNCHANGED status
  PROVE  LocalShape(w)
BY BusyPoints DEF TypeInv, TypeOK, Forget, LocalShape

LEMMA ClaimShape ==
  ASSUME TypeInv, NEW w \in Workers, NEW rows \in SUBSET Executions, Claim(w, rows),
         pc[w] # "awaiting", \A v \in Workers \ {w} : exec'[v] = exec[v]
  PROVE  LocalShape(w)
BY BusyPoints DEF TypeInv, TypeOK, Claim, LocalShape

LEMMA RecordShape ==
  ASSUME TypeInv, KnowsRow, NEW w \in Workers, Record(w)
  PROVE  LocalShape(w)
<1> DEFINE Final == {"eligible", "dispatch", "skip", "fail", "succeed", "deadletter"}
<1>0. /\ Final \subseteq Busy \ {"awaiting"}
      /\ {"dispatch", "publish", "audit", "deadletter"} \subseteq Points \ {"awaiting", "succeed"}
  BY DEF Busy, Points, OpenPoints, EvaluatingPoints, DispatchingPoints
<1>1. ASSUME NEW from \in Final, NEW s, NEW to \in {"dispatch", "publish", "audit", "deadletter"},
             Write(w, from, s, to), s # "SUCCEEDED" \/ from = "succeed"
      PROVE  LocalShape(w)
  <2>1. exec[w] \in Executions
    BY <1>0, <1>1 DEF Write, Goto, KnowsRow
  <2>2. \A e \in Executions : status'[e] = "SUCCEEDED" =>
           status[e] = "SUCCEEDED" \/ (from = "succeed" /\ exec[w] = e)
    BY <1>1, <2>1 DEF Write, SetStatus, TypeInv, TypeOK
  <2> QED
    BY <1>0, <1>1, <2>2, GotoShape DEF Write
<1>2. CASE MarkDeadLettered(w)
  <2>1. \A e \in Executions : status'[e] = "SUCCEEDED" => status[e] = "SUCCEEDED"
    BY <1>2 DEF MarkDeadLettered, SetStatus, TypeInv, TypeOK
  <2> QED
    BY <1>0, <1>2, <2>1, GotoShape DEF MarkDeadLettered
<1>3. CASE MarkEligible(w)
  BY <1>1, <1>3 DEF MarkEligible
<1>4. CASE MarkDispatching(w)
  BY <1>1, <1>4 DEF MarkDispatching
<1>5. CASE MarkSucceeded(w)
  BY <1>1, <1>5 DEF MarkSucceeded
<1>6. CASE MarkSkipped(w)
  BY <1>1, <1>6 DEF MarkSkipped
<1>7. CASE MarkRetryWait(w)
  BY <1>1, <1>7 DEF MarkRetryWait
<1>8. CASE MarkTerminalFailed(w)
  BY <1>1, <1>8 DEF MarkTerminalFailed
<1> QED
  BY <1>2, <1>3, <1>4, <1>5, <1>6, <1>7, <1>8 DEF Record

LEMMA RevalidateShape ==
  ASSUME TypeInv, KnowsRow, NEW w \in Workers, Revalidate(w)
  PROVE  LocalShape(w)
<1>0. /\ {"subscription", "entitlement", "version", "capability"} \subseteq Busy \ {"awaiting"}
      /\ {"entitlement", "version", "capability", "eligible", "skip", "fail"}
           \subseteq Points \ {"awaiting", "succeed"}
  BY DEF Busy, Points, OpenPoints, EvaluatingPoints, DispatchingPoints
<1>1. PICK from \in {"subscription", "entitlement", "version", "capability"},
           to \in {"entitlement", "version", "capability", "eligible", "skip", "fail"} :
        Goto(w, from, to) /\ UNCHANGED exec /\ UNCHANGED status
  BY DEF Revalidate, RevalidateSubscription, RevalidateEntitlement, ResolveVersion, ValidateCapability,
         DependencyFails, Fails, Answers, rowVars
<1> QED
  BY <1>0, <1>1, GotoShape

LEMMA WorkerShape ==
  ASSUME TypeInv, KnowsRow, NEW w \in Workers,
         \/ RunnerClaims(w)
         \/ \E e \in ManualExecutions : ManualTrigger(w, e)
         \/ LocalStep(w)
         \/ Throws(w)
  PROVE  LocalShape(w)
<1>1. CASE RunnerClaims(w)
  BY <1>1, ClaimShape DEF RunnerClaims, Claims, Claimable
<1>2. ASSUME NEW e \in ManualExecutions, ManualTrigger(w, e) PROVE LocalShape(w)
  BY <1>2, ManualAssumption DEF ManualTrigger, Goto, SetStatus, TypeInv, TypeOK, LocalShape
<1>3. CASE ManualClaim(w)
  <2>1. exec[w] \in Executions /\ \A v \in Workers \ {w} : exec'[v] = exec[v]
    BY <1>3 DEF ManualClaim, Claimable, TypeInv, TypeOK
  <2>2. {exec[w]} \in SUBSET Executions /\ Claim(w, {exec[w]}) /\ pc[w] # "awaiting"
    BY <1>3, <2>1 DEF ManualClaim
  <2> QED
    BY <2>1, <2>2, ClaimShape
<1>4. CASE ManualClaimLost(w)
  BY <1>4, ForgetShape DEF ManualClaimLost, rowVars
<1>5. CASE ProcessNext(w)
  <2>1. PICK e \in batch[w] : exec' = [exec EXCEPT ![w] = e]
    BY <1>5 DEF ProcessNext
  <2> QED
    BY <1>5, <2>1 DEF ProcessNext, Goto, rowVars, TypeInv, TypeOK, LocalShape
<1>6. CASE Finish(w)
  <2>1. CASE batch[w] = {}
    BY <1>6, <2>1, ForgetShape DEF Finish, rowVars
  <2>2. CASE batch[w] # {}
    BY <1>6, <2>2, BusyPoints DEF Finish, rowVars, TypeInv, TypeOK, LocalShape
  <2> QED
    BY <2>1, <2>2
<1>7. CASE Throws(w)
  <2>1. CASE pc[w] \in {"triggered", "next"} \/ caught[w]
    BY <1>7, <2>1, ForgetShape DEF Throws, rowVars
  <2>2. CASE ~(pc[w] \in {"triggered", "next"} \/ caught[w])
    <3>1. pc[w] \in Busy \ {"awaiting"}
      BY <1>7, <2>2 DEF Throws, Busy, Points, TypeInv, TypeOK
    <3> QED
      BY <1>7, <2>2, <3>1 DEF Throws, rowVars, TypeInv, TypeOK, KnowsRow, LocalShape
  <2> QED
    BY <2>1, <2>2
<1> QED
  BY <1>1, <1>2, <1>3, <1>4, <1>5, <1>6, <1>7, RecordShape, RevalidateShape DEF LocalStep

-----------------------------------------------------------------------------
(* What a call was received with, and what was delivered, stays.           *)

LEMMA ReceivedStays ==
  ASSUME CallsInv, [PublicationNext]_publicationVars, NEW c \in Calls, step[c] # "unused"
  PROVE  step'[c] # "unused" /\ key'[c] = key[c] /\ snapshot'[c] = snapshot[c]
<1> USE DEF CallsInv, PublicationTypeOK, request, bounds, StepTo, Respond
<1>1. ASSUME NEW d \in Calls, Work(d) PROVE step'[c] # "unused" /\ UNCHANGED <<key, snapshot>>
  BY <1>1 DEF Work, CheckEntitlement, FindExternal, FindInternal, CreateRun, Advance, CreateExchange,
     CompleteExchange, ChecksumMismatch, MarkReady, Notify, Reject, MarkFailed
<1>2. ASSUME NEW d \in Calls, CallThrows(d) PROVE step'[c] # "unused" /\ UNCHANGED <<key, snapshot>>
  BY <1>2 DEF CallThrows
<1>3. CASE PublicationCrash
  BY <1>3 DEF PublicationCrash
<1>4. ASSUME NEW d \in Calls, NEW k \in Keys, Receive(d, k)
      PROVE  step'[c] # "unused" /\ key'[c] = key[c] /\ snapshot'[c] = snapshot[c]
  BY <1>4 DEF Receive
<1> QED
  BY <1>1, <1>2, <1>3, <1>4 DEF PublicationNext, Internal, NewGold, LateCompletion, publicationVars

LEMMA DeliveredStays ==
  ASSUME DeliveryInv, [PublicationNext]_publicationVars, NEW e \in Executions, Delivered(e)
  PROVE  Delivered(e)'
<1>1. PICK c \in Calls, d \in Calls :
        key[c] = e /\ exchange[d] = "READY" /\ (key[d] = e \/ snapshot[d] = snapshot[c])
  BY DEF Delivered
<1>2. step[c] # "unused"
  BY <1>1, NoKeyAssumption, KeysAreExecutions DEF DeliveryInv, LinkInv, KeyInv
<1>3. key'[c] = key[c] /\ snapshot'[c] = snapshot[c]
  BY <1>2, ReceivedStays DEF DeliveryInv, RunInv
<1>4. exchange'[d] = "READY" /\ key'[d] = key[d] /\ snapshot'[d] = snapshot[d]
  BY <1>1, ReadyExchangeStays DEF DeliveryInv, RunInv
<1> QED
  BY <1>1, <1>3, <1>4 DEF Delivered

LEMMA KeyInvStays ==
  ASSUME CallsInv, \A c \in Calls : KeyInv(c), [PublicationNext]_publicationVars, NEW c \in Calls
  PROVE  KeyInv(c)'
<1> USE DEF KeyInv, CallsInv, CallInv, PublicationTypeOK, request, bounds, StepTo, Respond
<1>1. ASSUME NEW d \in Calls, Work(d) PROVE KeyInv(c)'
  <2>1. UNCHANGED key /\ (step'[c] = "unused" <=> step[c] = "unused")
    BY <1>1 DEF Work, CheckEntitlement, FindExternal, FindInternal, CreateRun, Advance, CreateExchange,
       CompleteExchange, ChecksumMismatch, MarkReady, Notify, Reject, MarkFailed
  <2>2. exchange[c] = "READY" => exchange'[c] = "READY"
    BY <1>1 DEF Work, CheckEntitlement, FindExternal, FindInternal, CreateRun, Advance, CreateExchange,
       CompleteExchange, ChecksumMismatch, MarkReady, Notify, Reject, MarkFailed, Unrecorded
  <2>3. step'[c] = "notify" \/ answer'[c] = "READY" => exchange'[c] = "READY"
    BY <1>1, <2>2 DEF Work, CheckEntitlement, FindExternal, FindInternal, CreateRun, Advance, CreateExchange,
       CompleteExchange, ChecksumMismatch, MarkReady, Notify, Reject, MarkFailed
  <2> QED
    BY <2>1, <2>3
<1>2. ASSUME NEW d \in Calls, CallThrows(d) PROVE KeyInv(c)'
  BY <1>2 DEF CallThrows, Abandon, Completing, InFlight
<1>3. CASE PublicationCrash
  BY <1>3 DEF PublicationCrash, Abandon, Completing, InFlight
<1>4. ASSUME NEW d \in Calls, NEW k \in Keys, Receive(d, k) PROVE KeyInv(c)'
  BY <1>4, NoKeyAssumption DEF Receive
<1>5. ASSUME NEW d \in Calls, LateCompletion(d) PROVE KeyInv(c)'
  BY <1>5 DEF LateCompletion
<1> QED
  BY <1>1, <1>2, <1>3, <1>4, <1>5 DEF PublicationNext, Internal, NewGold, publicationVars

-----------------------------------------------------------------------------
(* The link between an activity and its call.                              *)

\* A step that involves no call keeps who waits for what.
LEMMA LocalKeepsLink ==
  ASSUME DeliveryInv, NEW w \in Workers, LocalShape(w), UNCHANGED <<publicationVars, linkVars, accessVars>>
  PROVE  LinkInv'
<1> USE DEF DeliveryInv, LinkInv
<1>1. LinkTypeOK' /\ KnowsRow'
  BY DEF LocalShape, KnowsRow, LinkTypeOK, linkVars, accessVars
<1>2. WaitsForItsCall'
  BY DEF LocalShape, WaitsForItsCall, Waiting, linkVars, publicationVars, request
<1>3. SuccessInv'
  BY DEF LocalShape, SuccessInv, Delivered, publicationVars, request
<1>4. \A c \in Calls : KeyInv(c)' /\ AuthInv(c)'
  BY DEF KeyInv, AuthInv, publicationVars, request, accessVars
<1> QED
  BY <1>1, <1>2, <1>3, <1>4

LEMMA SchedulerKeepsLink == ASSUME DeliveryInv, SchedulerStep PROVE LinkInv'
<1>1. UNCHANGED <<publicationVars, linkVars, accessVars>>
  BY DEF SchedulerStep
<1>2. ASSUME NEW w \in Workers, LocalShape(w) PROVE LinkInv'
  BY <1>1, <1>2, LocalKeepsLink
<1>3. ASSUME UNCHANGED <<pc, exec>>, \A e \in Executions : status'[e] = "SUCCEEDED" => status[e] = "SUCCEEDED"
      PROVE  LinkInv'
  <2> USE DEF DeliveryInv, LinkInv
  <2>1. LinkTypeOK' /\ KnowsRow' /\ WaitsForItsCall'
    BY <1>1, <1>3 DEF LinkTypeOK, KnowsRow, WaitsForItsCall, Waiting, linkVars, accessVars, publicationVars, request
  <2>2. SuccessInv'
    BY <1>1, <1>3 DEF SuccessInv, Delivered, publicationVars, request
  <2>3. \A c \in Calls : KeyInv(c)' /\ AuthInv(c)'
    BY <1>1 DEF KeyInv, AuthInv, publicationVars, request, accessVars
  <2> QED
    BY <2>1, <2>2, <2>3
<1>4. ASSUME NEW e \in Executions, ScheduleOccurrence(e) PROVE LinkInv'
  BY <1>3, <1>4 DEF ScheduleOccurrence, SetStatus, workVars, DeliveryInv, TypeInv, TypeOK
<1>5. ASSUME NEW o \in Operators, Operate(o) PROVE LinkInv'
  BY <1>3, <1>5 DEF Operate, RedriveReads, RedriveResets, ResolveReads, ResolveMarks, SetStatus, workVars,
     rowVars, DeliveryInv, TypeInv, TypeOK
<1>6. KnowsRow /\ TypeInv
  BY DEF DeliveryInv, LinkInv
<1>7. ASSUME NEW w \in Requests, NEW e \in ManualExecutions, ManualTrigger(w, e) PROVE LinkInv'
  BY <1>2, <1>6, <1>7, WorkerShape DEF Workers
<1>8. ASSUME NEW w \in Runners, RunnerClaims(w) PROVE LinkInv'
  BY <1>2, <1>6, <1>8, WorkerShape DEF Workers
<1>9. ASSUME NEW w \in Workers, LocalStep(w) \/ Throws(w) PROVE LinkInv'
  BY <1>2, <1>6, <1>9, WorkerShape
<1> QED
  BY <1>4, <1>5, <1>7, <1>8, <1>9 DEF SchedulerStep

LEMMA CrashKeepsLink == ASSUME DeliveryInv, SchedulerCrash PROVE LinkInv'
<1> USE DEF DeliveryInv, LinkInv
<1>1. PICK w \in Workers : Crash(w) /\ call' = [call EXCEPT ![w] = None]
  BY DEF SchedulerCrash
<1>2. UNCHANGED <<publicationVars, timeouts, accessVars, status>>
  BY <1>1 DEF SchedulerCrash, Crash, rowVars
<1>3. /\ \A v \in Workers \ {w} : pc'[v] = pc[v] /\ exec'[v] = exec[v] /\ call'[v] = call[v]
      /\ pc'[w] = "idle" /\ call'[w] = None
  BY <1>1 DEF Crash, Forget, TypeInv, TypeOK, LinkTypeOK
<1>4. LinkTypeOK' /\ KnowsRow'
  BY <1>1, <1>2, <1>3, BusyPoints DEF LinkTypeOK, KnowsRow, accessVars
<1>5. WaitsForItsCall'
  BY <1>2, <1>3 DEF WaitsForItsCall, Waiting, publicationVars, request
<1>6. SuccessInv'
  BY <1>2, <1>3 DEF SuccessInv, Delivered, publicationVars, request
<1>7. \A c \in Calls : KeyInv(c)' /\ AuthInv(c)'
  BY <1>2 DEF KeyInv, AuthInv, publicationVars, request, accessVars
<1> QED
  BY <1>4, <1>5, <1>6, <1>7

LEMMA PostKeepsLink == ASSUME DeliveryInv, Post PROVE LinkInv'
<1> USE DEF DeliveryInv, LinkInv
<1>1. PICK w \in Workers, c \in Calls :
        /\ TriggerPublication(w) /\ Receive(c, exec[w])
        /\ call' = [call EXCEPT ![w] = c]
        /\ authorized' = [authorized EXCEPT ![c] = entitled]
  BY DEF Post
<1>2. UNCHANGED <<timeouts, entitled, status, exec>>
  BY <1>1 DEF Post, TriggerPublication, Answers, rowVars
<1>3. /\ \A v \in Workers \ {w} : pc'[v] = pc[v] /\ call'[v] = call[v]
      /\ pc[w] = "publish" /\ pc'[w] = "awaiting" /\ call'[w] = c
  BY <1>1 DEF TriggerPublication, Answers, Goto, TypeInv, TypeOK, LinkTypeOK
<1>4. exec[w] \in Executions /\ exec[w] \in Keys /\ c # None
  BY <1>3, BusyPoints, KeysAreExecutions, NoneIsNoCall DEF KnowsRow
<1>5. PublicationNext
  BY <1>1, <1>4 DEF PublicationNext
<1>6. /\ step[c] = "unused" /\ key'[c] = exec[w] /\ \A d \in Calls \ {c} : key'[d] = key[d]
      /\ \A d \in Calls \ {c} : step'[d] = step[d]
      /\ step'[c] \in {"entitlement", "answered"} /\ UNCHANGED run
  BY <1>1 DEF Receive, Respond, StepTo, RunInv, CallsInv, PublicationTypeOK
<1>7. LinkTypeOK' /\ KnowsRow'
  BY <1>1, <1>2, <1>3, <1>4, BusyPoints DEF LinkTypeOK, KnowsRow
<1>8. WaitsForItsCall'
  <2>1. ASSUME NEW v \in Workers \ {w}, Waiting(v) PROVE key'[call[v]] = exec[v]
    <3>1. call[v] \in Calls /\ key[call[v]] = exec[v] /\ exec[v] \in Executions
      BY <2>1, BusyPoints DEF WaitsForItsCall, Waiting, LinkTypeOK, KnowsRow
    <3>2. call[v] # c
      BY <1>6, <3>1, NoKeyAssumption, KeysAreExecutions DEF KeyInv
    <3> QED
      BY <1>6, <3>1, <3>2
  <2> QED
    BY <1>2, <1>3, <1>4, <1>6, <2>1 DEF WaitsForItsCall, Waiting
<1>9. SuccessInv'
  <2>1. \A e \in Executions : Delivered(e) => Delivered(e)'
    BY <1>5, DeliveredStays
  <2> QED
    BY <1>2, <1>3, <2>1, BusyPoints DEF SuccessInv, KnowsRow
<1>10. ASSUME NEW d \in Calls PROVE KeyInv(d)'
  BY <1>5, KeyInvStays DEF RunInv
<1>11. ASSUME NEW d \in Calls PROVE AuthInv(d)'
  <2>1. run[c] = "absent"
    BY <1>6 DEF RunInv, CallsInv, CallInv, Unrecorded
  <2>2. authorized'[d] = IF d = c THEN entitled ELSE authorized[d]
    BY <1>1 DEF LinkTypeOK
  <2> QED
    BY <1>2, <1>6, <2>1, <2>2 DEF AuthInv
<1> QED
  BY <1>7, <1>8, <1>9, <1>10, <1>11

\* An answer ends the wait, in success or failure.
LEMMA AnswerShape ==
  ASSUME TypeInv, NEW w \in Workers, NEW outcome \in Outcomes, PublicationAnswers(w, outcome)
  PROVE  /\ pc[w] = "awaiting" /\ UNCHANGED <<rowVars, letterVars, exec, batch, operatorVars>>
         /\ \A v \in Workers \ {w} : pc'[v] = pc[v]
         /\ pc'[w] = IF outcome \in {"READY", "SKIPPED_DUPLICATE"} THEN "succeed" ELSE "fail"
<1>1. /\ pc[w] = "awaiting" /\ UNCHANGED <<rowVars, letterVars, exec, batch, operatorVars>>
      /\ pc' = [pc EXCEPT ![w] = IF outcome \in {"READY", "SKIPPED_DUPLICATE"} THEN "succeed" ELSE "fail"]
  BY DEF PublicationAnswers, Answers, Fails, Goto, Outcomes
<1> QED
  BY <1>1 DEF TypeInv, TypeOK

\* Activity w stops waiting: it was answered, or gave up.
LEMMA AnsweredKeepsLink ==
  ASSUME DeliveryInv, NEW w \in Workers, NEW outcome \in Outcomes, PublicationAnswers(w, outcome),
         call' = [call EXCEPT ![w] = None], timeouts' \in 0..MaxTimeouts,
         UNCHANGED <<publicationVars, accessVars>>,
         outcome \in {"READY", "SKIPPED_DUPLICATE"} => Delivered(exec[w])
  PROVE  LinkInv'
<1> USE DEF DeliveryInv, LinkInv
<1>1. /\ pc[w] = "awaiting" /\ UNCHANGED <<exec, status>>
      /\ \A v \in Workers \ {w} : pc'[v] = pc[v]
      /\ pc'[w] = IF outcome \in {"READY", "SKIPPED_DUPLICATE"} THEN "succeed" ELSE "fail"
  BY AnswerShape DEF rowVars
<1>2. call'[w] = None /\ \A v \in Workers \ {w} : call'[v] = call[v]
  BY DEF LinkTypeOK
<1>3. LinkTypeOK' /\ KnowsRow'
  BY <1>1, BusyPoints DEF LinkTypeOK, KnowsRow, accessVars
<1>4. WaitsForItsCall'
  BY <1>1, <1>2 DEF WaitsForItsCall, Waiting, publicationVars, request
<1>5. SuccessInv'
  BY <1>1 DEF SuccessInv, Delivered, publicationVars, request
<1>6. \A c \in Calls : KeyInv(c)' /\ AuthInv(c)'
  BY DEF KeyInv, AuthInv, publicationVars, request, accessVars
<1> QED
  BY <1>3, <1>4, <1>5, <1>6

\* An answered call that says READY or SKIPPED_DUPLICATE is a delivery.
LEMMA SuccessAnswers ==
  ASSUME DeliveryInv, NEW w \in Workers, call[w] # None,
         answer[call[w]] \in {"READY", "SKIPPED_DUPLICATE"}
  PROVE  Delivered(exec[w])
<1>1. call[w] \in Calls /\ key[call[w]] = exec[w]
  BY DEF DeliveryInv, LinkInv, LinkTypeOK, WaitsForItsCall
<1>2. CASE answer[call[w]] = "READY"
  BY <1>1, <1>2 DEF DeliveryInv, LinkInv, KeyInv, Delivered
<1>3. CASE answer[call[w]] = "SKIPPED_DUPLICATE"
  BY <1>1, <1>3 DEF DeliveryInv, RunInv, DuplicateInv, Backed, Delivered
<1> QED
  BY <1>2, <1>3

LEMMA GetAnswerKeepsLink == ASSUME DeliveryInv, GetAnswer PROVE LinkInv'
<1>1. PICK w \in Workers : /\ call[w] # None /\ answer[call[w]] # "none"
                           /\ PublicationAnswers(w, answer[call[w]])
                           /\ call' = [call EXCEPT ![w] = None]
  BY DEF GetAnswer
<1>2. answer[call[w]] \in Outcomes /\ UNCHANGED <<publicationVars, timeouts, accessVars>>
  BY <1>1 DEF GetAnswer, DeliveryInv, LinkInv, LinkTypeOK, RunInv, CallsInv, PublicationTypeOK, ClientAnswers, Outcomes
<1>3. timeouts' \in 0..MaxTimeouts
  BY <1>2 DEF DeliveryInv, LinkInv, LinkTypeOK
<1> QED
  BY <1>1, <1>2, <1>3, SuccessAnswers, AnsweredKeepsLink

LEMMA LoseAnswerKeepsLink == ASSUME DeliveryInv, LoseAnswer PROVE LinkInv'
<1>1. PICK w \in Workers : /\ PublicationAnswers(w, "UNAVAILABLE")
                           /\ call' = [call EXCEPT ![w] = None]
  BY DEF LoseAnswer
<1>2. "UNAVAILABLE" \in Outcomes /\ UNCHANGED <<publicationVars, accessVars>>
  BY DEF LoseAnswer, Outcomes
<1>3. timeouts' \in 0..MaxTimeouts
  BY TimeoutAssumption DEF LoseAnswer, DeliveryInv, LinkInv, LinkTypeOK
<1> QED
  BY <1>1, <1>2, <1>3, AnsweredKeepsLink

\* What a call has passed its entitlement check for.
PastCheck == {"external", "internal", "create", "run", "notify", "failing"}

\* A call comes past the check through the check alone.
EntersThroughCheck(c) ==
  /\ step'[c] = "entitlement" => step[c] = "entitlement"
  /\ step'[c] \in PastCheck => step[c] \in PastCheck \/ (step[c] = "entitlement" /\ step'[c] = "external")
  /\ run'[c] # "absent" => run[c] # "absent" \/ step[c] \in PastCheck

LEMMA InternalEntersThroughCheck ==
  ASSUME PublicationTypeOK, Internal, NEW c \in Calls
  PROVE  EntersThroughCheck(c)
<1>0. step \in [Calls -> Steps] /\ run \in [Calls -> RunStatuses]
  BY DEF PublicationTypeOK
<1> USE <1>0 DEF EntersThroughCheck, PastCheck, request, bounds, StepTo, Respond
<1>1. ASSUME NEW d \in Calls, NEW ok \in BOOLEAN, CheckEntitlement(d, ok) PROVE EntersThroughCheck(c)
  BY <1>1 DEF CheckEntitlement
<1>2. ASSUME NEW d \in Calls, FindExternal(d) \/ FindInternal(d) \/ CreateRun(d) PROVE EntersThroughCheck(c)
  BY <1>2 DEF FindExternal, FindInternal, CreateRun
<1>3. ASSUME NEW d \in Calls, Advance(d) PROVE EntersThroughCheck(c)
  BY <1>3 DEF Advance
<1>4. ASSUME NEW d \in Calls, CreateExchange(d) \/ CompleteExchange(d) \/ ChecksumMismatch(d)
      PROVE  EntersThroughCheck(c)
  BY <1>4 DEF CreateExchange, CompleteExchange, ChecksumMismatch
<1>5. ASSUME NEW d \in Calls, MarkReady(d) \/ Notify(d) \/ Reject(d) \/ MarkFailed(d)
      PROVE  EntersThroughCheck(c)
  BY <1>5 DEF MarkReady, Notify, Reject, MarkFailed
<1>6. ASSUME NEW d \in Calls, CallThrows(d) PROVE EntersThroughCheck(c)
  BY <1>6 DEF CallThrows, InFlight
<1>7. CASE PublicationCrash
  BY <1>7 DEF PublicationCrash, InFlight
<1>8. CASE NewGold \/ \E d \in Calls : LateCompletion(d)
  BY <1>8 DEF NewGold, LateCompletion
<1> QED
  BY <1>1, <1>2, <1>3, <1>4, <1>5, <1>6, <1>7, <1>8 DEF Internal, Work

LEMMA PublicationKeepsAuth ==
  ASSUME DeliveryInv, PublicationStep, NEW c \in Calls
  PROVE  AuthInv(c)'
<1>1. UNCHANGED <<entitled, authorized>>
  BY DEF PublicationStep, accessVars
<1>2. step[c] = "entitlement" /\ step'[c] = "external" => entitled
  BY DEF PublicationStep
<1>3. EntersThroughCheck(c)
  BY InternalEntersThroughCheck DEF PublicationStep, DeliveryInv, RunInv, CallsInv
<1>4. AuthInv(c)
  BY DEF DeliveryInv, LinkInv
<1> QED
  BY <1>1, <1>2, <1>3, <1>4 DEF AuthInv, EntersThroughCheck, PastCheck

LEMMA PublicationKeepsLink == ASSUME DeliveryInv, PublicationStep PROVE LinkInv'
<1> USE DEF DeliveryInv, LinkInv
<1>1. UNCHANGED <<vars, linkVars, accessVars>> /\ PublicationNext
  BY DEF PublicationStep, PublicationNext
<1>2. UNCHANGED <<pc, exec, status>>
  BY <1>1 DEF vars, workVars, rowVars
<1>3. LinkTypeOK' /\ KnowsRow'
  BY <1>1, <1>2 DEF LinkTypeOK, KnowsRow, linkVars, accessVars
<1>4. WaitsForItsCall'
  <2>1. ASSUME NEW w \in Workers, Waiting(w) PROVE key'[call[w]] = exec[w]
    <3>1. call[w] \in Calls /\ key[call[w]] = exec[w] /\ exec[w] \in Executions
      BY <2>1, BusyPoints DEF WaitsForItsCall, Waiting, LinkTypeOK, KnowsRow
    <3>2. step[call[w]] # "unused"
      BY <3>1, NoKeyAssumption, KeysAreExecutions DEF KeyInv
    <3> QED
      BY <1>1, <3>1, <3>2, ReceivedStays DEF RunInv
  <2> QED
    BY <1>1, <1>2, <2>1 DEF WaitsForItsCall, Waiting, linkVars
<1>5. SuccessInv'
  <2>1. \A e \in Executions : Delivered(e) => Delivered(e)'
    BY <1>1, DeliveredStays
  <2> QED
    BY <1>2, <2>1, BusyPoints DEF SuccessInv, KnowsRow
<1>6. ASSUME NEW c \in Calls PROVE KeyInv(c)'
  BY <1>1, KeyInvStays DEF RunInv
<1> QED
  BY <1>3, <1>4, <1>5, <1>6, PublicationKeepsAuth

LEMMA EntitlementKeepsLink == ASSUME DeliveryInv, SetEntitlement PROVE LinkInv'
<1> USE DEF DeliveryInv, LinkInv
<1>1. UNCHANGED <<vars, publicationVars, linkVars>>
  BY DEF SetEntitlement
<1>2. LinkTypeOK'
  BY <1>1 DEF SetEntitlement, LinkTypeOK, linkVars
<1>3. KnowsRow' /\ WaitsForItsCall' /\ SuccessInv'
  BY <1>1 DEF KnowsRow, WaitsForItsCall, Waiting, SuccessInv, Delivered, vars, workVars, rowVars, linkVars,
     publicationVars, request
<1>4. ASSUME NEW c \in Calls PROVE KeyInv(c)' /\ AuthInv(c)'
  BY <1>1 DEF SetEntitlement, KeyInv, AuthInv, InFlight, publicationVars, request, LinkTypeOK
<1> QED
  BY <1>2, <1>3, <1>4

LEMMA NextDelivery == DeliveryInv /\ [DeliveryNext]_deliveryVars => DeliveryInv'
<1> SUFFICES ASSUME DeliveryInv, [DeliveryNext]_deliveryVars PROVE DeliveryInv'
  OBVIOUS
<1>1. [Next]_vars /\ [PublicationNext]_publicationVars
  BY Projection
<1>2. TypeInv' /\ RunInv'
  BY <1>1, NextTypes, NextKeepsCallsInv, NextKeepsDuplicateInv DEF DeliveryInv, RunInv
<1>3. CASE UNCHANGED deliveryVars
  <2> USE DEF DeliveryInv, LinkInv
  <2>1. UNCHANGED <<pc, exec, status>> /\ UNCHANGED <<publicationVars, linkVars, accessVars>>
    BY <1>3 DEF deliveryVars, vars, workVars, rowVars
  <2>2. LinkTypeOK' /\ KnowsRow' /\ WaitsForItsCall'
    BY <2>1 DEF LinkTypeOK, KnowsRow, WaitsForItsCall, Waiting, linkVars, accessVars, publicationVars, request
  <2>3. SuccessInv' /\ \A c \in Calls : KeyInv(c)' /\ AuthInv(c)'
    BY <2>1 DEF SuccessInv, Delivered, KeyInv, AuthInv, publicationVars, request, accessVars
  <2>4. LinkInv'
    BY <2>2, <2>3
  <2> QED
    BY <1>2, <2>4
<1> QED
  BY <1>2, <1>3, SchedulerKeepsLink, CrashKeepsLink, PostKeepsLink, GetAnswerKeepsLink, LoseAnswerKeepsLink,
     PublicationKeepsLink, EntitlementKeepsLink DEF DeliveryNext, DeliveryInv

LEMMA InitDelivery == DeliveryInit => DeliveryInv
<1> SUFFICES ASSUME DeliveryInit PROVE LinkInv
  BY InitTypes, InitRunInv DEF DeliveryInit, DeliveryInv
<1> USE DEF DeliveryInit, Init, PublicationInit
<1>1. LinkTypeOK /\ KnowsRow /\ WaitsForItsCall
  BY BusyPoints, TimeoutAssumption DEF LinkTypeOK, KnowsRow, WaitsForItsCall, Waiting
<1>2. SuccessInv /\ \A c \in Calls : KeyInv(c) /\ AuthInv(c)
  BY DEF SuccessInv, KeyInv, AuthInv
<1> QED
  BY <1>1, <1>2 DEF LinkInv

LEMMA AlwaysDelivery == DeliverySpec => []DeliveryInv
BY InitDelivery, NextDelivery, PTL DEF DeliverySpec

\* An execution that is recorded as SUCCEEDED has an artifact behind it and no run was
\* created for a tenant that was not entitled at any time since the POST, whatever is
\* lost, fails, crashes or overlaps.
THEOREM DeliveriesStaySound == DeliverySpec => []DeliveriesAreSound
<1>1. DeliveryInv => DeliveriesAreSound
  <2> SUFFICES ASSUME DeliveryInv PROVE DeliveriesAreSound
    OBVIOUS
  <2>1. DeliveryTypeOK
    BY DEF DeliveryInv, TypeInv, RunInv, CallsInv, LinkInv, LinkTypeOK, DeliveryTypeOK
  <2>2. SucceededHasArtifact
    BY DEF DeliveryInv, LinkInv, SuccessInv, Delivered, SucceededHasArtifact
  <2>3. RevokedGetsNothing
    BY DEF DeliveryInv, LinkInv, AuthInv, RevokedGetsNothing
  <2> QED
    BY <2>1, <2>2, <2>3 DEF DeliveriesAreSound
<1> QED
  BY AlwaysDelivery, <1>1, PTL

-----------------------------------------------------------------------------
(* Artifacts beyond the first.                                             *)

\* A call that has, or may still produce, an artifact.
Potential(c) ==
  \/ exchange[c] \in {"READY", "COMPLETING"}
  \/ InFlight(c) /\ (step[c] # "failing" \/ c \in Completing)
Potentials(e) == {c \in Calls : key[c] = e /\ Potential(c)}

\* A call whose answer will close its execution, if it is heard.
Sound(c) == (InFlight(c) /\ step[c] # "failing") \/ answer[c] = "READY"
Awaited(e) == {c \in Calls : Sound(c) /\ \E w \in Workers : Waiting(w) /\ call[w] = c /\ exec[w] = e}

\* Nothing will be posted for e any more: it succeeded, or the activity that
\* had claimed it died after the row said DISPATCHING.
Closed(e) ==
  \/ status[e] = "SUCCEEDED"
  \/ \E w \in Workers : pc[w] = "succeed" /\ exec[w] = e
  \/ status[e] = "DISPATCHING" /\ \A w \in Workers : ~Owns(w, e)

\* Answers that were lost and failures inside data-publication-service.
Mishaps == timeouts + pubFaults + pubCrashes

Account(e) ==
  /\ Cardinality(Potentials(e)) <= 1 + Mishaps
  /\ ~Closed(e) => Cardinality(Potentials(e) \ Awaited(e)) <= Mishaps

AccountInv == \A e \in Executions : Account(e)

LEMMA NatSum == \A a, b \in Nat : a + b \in Nat
OBVIOUS

LEMMA NatStep == \A a, b \in Nat : /\ a <= b => 1 + a <= 1 + b
                                   /\ b = a + 1 => a <= b
                                   /\ 1 + a \in Nat /\ 1 + a = a + 1
OBVIOUS

LEMMA Fewer ==
  ASSUME NEW S, IsFiniteSet(S), NEW T \in SUBSET S, NEW m \in Nat, NEW n \in Nat, m <= n, Cardinality(S) <= m
  PROVE  Cardinality(T) <= n
<1>1. IsFiniteSet(T) /\ Cardinality(T) <= Cardinality(S)
  BY FS_Subset
<1>2. Cardinality(T) \in Nat /\ Cardinality(S) \in Nat
  BY <1>1, FS_CardinalityType
<1> QED
  BY <1>1, <1>2

LEMMA OneMore ==
  ASSUME NEW S, IsFiniteSet(S), NEW x, NEW T \in SUBSET (S \cup {x}), NEW m \in Nat, Cardinality(S) <= m
  PROVE  Cardinality(T) <= m + 1
<1>1. IsFiniteSet(S \cup {x}) /\ Cardinality(S) \in Nat
  BY FS_AddElement, FS_CardinalityType
<1>2. Cardinality(S \cup {x}) <= m + 1 /\ m + 1 \in Nat
  BY <1>1, FS_AddElement
<1> QED
  BY <1>1, <1>2, Fewer

LEMMA OneMoreThan ==
  ASSUME NEW S, IsFiniteSet(S), NEW x, NEW T \in SUBSET (S \cup {x}), NEW m \in Nat, Cardinality(S) <= m,
         NEW n, n = m
  PROVE  Cardinality(T) <= 1 + n
BY OneMore, NatStep

LEMMA MishapsType == ASSUME DeliveryInv PROVE Mishaps \in Nat
BY TimeoutAssumption, PublicationBounds DEF DeliveryInv, LinkInv, LinkTypeOK, RunInv, CallsInv, PublicationTypeOK, Mishaps

LEMMA NextMishapsType == ASSUME DeliveryInv' PROVE Mishaps' \in Nat
<1>1. timeouts' \in 0..MaxTimeouts
  BY DEF DeliveryInv, LinkInv, LinkTypeOK
<1>2. pubFaults' \in 0..MaxPubFaults /\ pubCrashes' \in 0..MaxPubCrashes
  BY DEF DeliveryInv, RunInv, CallsInv, PublicationTypeOK
<1>3. timeouts' \in Nat /\ pubFaults' \in Nat /\ pubCrashes' \in Nat
  BY <1>1, <1>2, TimeoutAssumption, PublicationBounds
<1> QED
  BY <1>3, NatSum DEF Mishaps

LEMMA PotentialsAreFinite == ASSUME NEW e PROVE IsFiniteSet(Potentials(e)) /\ IsFiniteSet(Potentials(e) \ Awaited(e))
<1>1. Potentials(e) \in SUBSET Calls /\ Potentials(e) \ Awaited(e) \in SUBSET Calls
  BY DEF Potentials
<1> QED
  BY <1>1, CallsAreFinite, FS_Subset

\* Nothing more may be delivered than before.
LEMMA AccountKept ==
  ASSUME NEW e, DeliveryInv, DeliveryInv', Account(e), Mishaps <= Mishaps',
         Potentials(e)' \subseteq Potentials(e),
         ~Closed(e)' => /\ ~Closed(e)
                        /\ Potentials(e)' \ Awaited(e)' \subseteq Potentials(e) \ Awaited(e)
  PROVE  Account(e)'
<1>0. Mishaps \in Nat /\ Mishaps' \in Nat
  BY MishapsType, NextMishapsType
<1>1. Cardinality(Potentials(e)') <= 1 + Mishaps'
  <2>1. 1 + Mishaps \in Nat /\ 1 + Mishaps' \in Nat /\ 1 + Mishaps <= 1 + Mishaps'
    BY <1>0, NatStep
  <2> QED
    BY <2>1, PotentialsAreFinite, Fewer DEF Account
<1>2. ASSUME ~Closed(e)' PROVE Cardinality(Potentials(e)' \ Awaited(e)') <= Mishaps'
  <2>1. Cardinality(Potentials(e) \ Awaited(e)) <= Mishaps
    BY <1>2 DEF Account
  <2> QED
    BY <1>0, <1>2, <2>1, PotentialsAreFinite, Fewer
<1> QED
  BY <1>1, <1>2 DEF Account

\* A mishap, and one more that nobody waits for.
LEMMA AccountMishap ==
  ASSUME NEW e, DeliveryInv, DeliveryInv', Account(e), Mishaps' = Mishaps + 1,
         Potentials(e)' \subseteq Potentials(e), NEW x,
         ~Closed(e)' => /\ ~Closed(e)
                        /\ Potentials(e)' \ Awaited(e)' \subseteq (Potentials(e) \ Awaited(e)) \cup {x}
  PROVE  Account(e)'
<1>0. Mishaps \in Nat /\ Mishaps' \in Nat
  BY MishapsType, NextMishapsType
<1>1. Cardinality(Potentials(e)') <= 1 + Mishaps'
  <2>1. 1 + Mishaps \in Nat /\ 1 + Mishaps' \in Nat /\ 1 + Mishaps <= 1 + Mishaps'
    BY <1>0, NatStep
  <2> QED
    BY <2>1, PotentialsAreFinite, Fewer DEF Account
<1>2. ASSUME ~Closed(e)' PROVE Cardinality(Potentials(e)' \ Awaited(e)') <= Mishaps'
  <2>1. Cardinality(Potentials(e) \ Awaited(e)) <= Mishaps
    BY <1>2 DEF Account
  <2> QED
    BY <1>0, <1>2, <2>1, PotentialsAreFinite, OneMore
<1> QED
  BY <1>1, <1>2 DEF Account

\* An internal step of data-publication-service gives no call a new chance.
LEMMA PotentialShrinks ==
  ASSUME RunInv, Internal, NEW c \in Calls, Potential(c)'
  PROVE  Potential(c) /\ key'[c] = key[c]
<1>0. step \in [Calls -> Steps] /\ run \in [Calls -> RunStatuses]
        /\ exchange \in [Calls -> {"none", "PREPARING", "COMPLETING", "READY", "FAILED"}]
  BY DEF RunInv, CallsInv, PublicationTypeOK
<1> DEFINE Goal == Potential(c) /\ key'[c] = key[c]
<1>1. ASSUME NEW d \in Calls, InFlight(d), step[d] # "failing", UNCHANGED key,
             c # d => step'[c] = step[c] /\ run'[c] = run[c] /\ exchange'[c] = exchange[c]
      PROVE  Goal
  BY <1>1 DEF Potential, InFlight, Completing
<1>2. ASSUME NEW d \in Calls, step'[d] = "answered", UNCHANGED <<key, exchange>>,
             c # d => step'[c] = step[c] /\ run'[c] = run[c]
      PROVE  Goal
  BY <1>2 DEF Potential, InFlight, Completing
<1>3. ASSUME NEW d \in Calls, NEW ok \in BOOLEAN, CheckEntitlement(d, ok) PROVE Goal
  BY <1>0, <1>1, <1>3 DEF CheckEntitlement, Respond, StepTo, InFlight
<1>4. ASSUME NEW d \in Calls, FindExternal(d) \/ FindInternal(d) \/ CreateRun(d) PROVE Goal
  BY <1>0, <1>1, <1>4 DEF FindExternal, FindInternal, CreateRun, Respond, StepTo, InFlight
<1>5. ASSUME NEW d \in Calls, Advance(d) \/ CreateExchange(d) \/ CompleteExchange(d) PROVE Goal
  BY <1>0, <1>1, <1>5 DEF Advance, CreateExchange, CompleteExchange, InFlight, request
<1>6. ASSUME NEW d \in Calls, ChecksumMismatch(d) \/ MarkReady(d) \/ Notify(d) \/ Reject(d) PROVE Goal
  BY <1>0, <1>1, <1>6 DEF ChecksumMismatch, MarkReady, Notify, Reject, Respond, StepTo, InFlight
<1>7. ASSUME NEW d \in Calls, MarkFailed(d) PROVE Goal
  BY <1>0, <1>2, <1>7 DEF MarkFailed, Respond, StepTo
<1>8. ASSUME NEW d \in Calls, CallThrows(d) PROVE Goal
  <2>1. CASE step[d] \in {"run", "notify"} /\ step'[d] = "failing"
    BY <1>0, <1>1, <1>8, <2>1 DEF CallThrows, Abandon, Respond, StepTo, InFlight
  <2>2. CASE step'[d] = "answered"
    BY <1>0, <1>2, <1>8, <2>2 DEF CallThrows, Respond, StepTo
  <2> QED
    BY <1>0, <1>8, <2>1, <2>2 DEF CallThrows, Respond, StepTo
<1>9. CASE PublicationCrash
  BY <1>0, <1>9 DEF PublicationCrash, Abandon, Completing, Potential, InFlight
<1>10. ASSUME NEW d \in Calls, LateCompletion(d) PROVE Goal
  BY <1>0, <1>10 DEF LateCompletion, Potential, InFlight, Completing, request
<1>11. CASE NewGold
  BY <1>11 DEF NewGold, Potential, InFlight, Completing, request
<1> QED
  BY <1>3, <1>4, <1>5, <1>6, <1>7, <1>8, <1>9, <1>10, <1>11 DEF Internal, Work

\* Unless it fails, a call that can still deliver will say so.
LEMMA SoundStays ==
  ASSUME RunInv, NEW d \in Calls, Work(d) \/ NewGold \/ LateCompletion(d),
         NEW c \in Calls, Sound(c), Potential(c)'
  PROVE  Sound(c)'
<1>0. /\ step \in [Calls -> Steps] /\ run \in [Calls -> RunStatuses] /\ answer \in [Calls -> ClientAnswers]
      /\ exchange \in [Calls -> {"none", "PREPARING", "COMPLETING", "READY", "FAILED"}]
      /\ step[d] \in Unrecorded => exchange[d] = "none"
      /\ run[d] \in BeforeExchange => exchange[d] = "none"
      /\ step[d] # "answered" => answer[d] = "none"
  BY DEF RunInv, CallsInv, CallInv, PublicationTypeOK
<1> USE <1>0 DEF Sound, InFlight, Respond, StepTo
<1>1. ASSUME NEW ok \in BOOLEAN, CheckEntitlement(d, ok) PROVE Sound(c)'
  BY <1>1 DEF CheckEntitlement, Potential, Unrecorded
<1>2. CASE FindExternal(d) \/ FindInternal(d)
  BY <1>2 DEF FindExternal, FindInternal, Potential, Unrecorded
<1>3. CASE CreateRun(d) \/ MarkReady(d) \/ Notify(d)
  BY <1>3 DEF CreateRun, MarkReady, Notify
<1>4. CASE Advance(d) \/ CreateExchange(d) \/ CompleteExchange(d) \/ NewGold \/ LateCompletion(d)
  BY <1>4 DEF Advance, CreateExchange, CompleteExchange, NewGold, LateCompletion, request
<1>5. CASE ChecksumMismatch(d)
  BY <1>5 DEF ChecksumMismatch, Potential, Completing
<1>6. CASE Reject(d)
  BY <1>6 DEF Reject, Rejecting, BeforeExchange, Potential, Completing
<1>7. CASE MarkFailed(d)
  BY <1>7 DEF MarkFailed
<1> QED
  BY <1>1, <1>2, <1>3, <1>4, <1>5, <1>6, <1>7 DEF Work

LEMMA AwaitedByOne ==
  ASSUME SafetyInv, NEW e \in Executions
  PROVE  \E x : Awaited(e) \subseteq {x}
<1>1. \A v, w \in Workers : Waiting(v) /\ exec[v] = e /\ Waiting(w) /\ exec[w] = e => v = w
  BY DEF SafetyInv, RowInv, ExclusiveProcessing, Owns, Waiting, OpenPoints, DispatchingPoints
<1>2. CASE \E w \in Workers : Waiting(w) /\ exec[w] = e
  <2>1. PICK w \in Workers : Waiting(w) /\ exec[w] = e
    BY <1>2
  <2>2. Awaited(e) \subseteq {call[w]}
    BY <1>1, <2>1 DEF Awaited
  <2> QED
    BY <2>2
<1>3. CASE ~\E w \in Workers : Waiting(w) /\ exec[w] = e
  BY <1>3 DEF Awaited
<1> QED
  BY <1>2, <1>3

LEMMA PublicationAccount ==
  ASSUME DeliveryInv, DeliveryInv', SafetyInv, AccountInv, PublicationStep, NEW e \in Executions
  PROVE  Account(e)'
<1>1. Internal /\ UNCHANGED <<vars, linkVars>> /\ RunInv
  BY DEF PublicationStep, DeliveryInv
<1>2. UNCHANGED <<pc, exec, batch, status, call, timeouts>>
  BY <1>1 DEF vars, workVars, rowVars, linkVars
<1>3. Closed(e)' <=> Closed(e)
  BY <1>2 DEF Closed, Owns
<1>4. Potentials(e)' \subseteq Potentials(e)
  BY <1>1, PotentialShrinks DEF Potentials
<1>5. ASSUME NEW c \in Awaited(e), Sound(c)' PROVE c \in Awaited(e)'
  BY <1>2, <1>5 DEF Awaited, Waiting
<1>6. Account(e) /\ Mishaps \in Nat
  BY MishapsType DEF AccountInv
<1>7. CASE NewGold \/ \E d \in Calls : Work(d) \/ LateCompletion(d)
  <2>1. UNCHANGED <<pubFaults, pubCrashes>>
    BY <1>7 DEF Work, NewGold, LateCompletion, CheckEntitlement, FindExternal, FindInternal, CreateRun, Advance,
       CreateExchange, CompleteExchange, ChecksumMismatch, MarkReady, Notify, Reject, MarkFailed, bounds
  <2>2. Mishaps <= Mishaps'
    BY <1>2, <1>6, <2>1 DEF Mishaps
  <2>3. Potentials(e)' \ Awaited(e)' \subseteq Potentials(e) \ Awaited(e)
    <3> SUFFICES ASSUME NEW c \in Potentials(e)', c \in Awaited(e) PROVE c \in Awaited(e)'
      BY <1>4
    <3>1. c \in Calls /\ Potential(c)' /\ Sound(c)
      BY DEF Potentials, Awaited
    <3>2. \E d \in Calls : Work(d) \/ NewGold \/ LateCompletion(d)
      BY <1>7, <3>1
    <3> QED
      BY <1>1, <1>5, <3>1, <3>2, SoundStays
  <2> QED
    BY <1>3, <1>4, <1>6, <2>2, <2>3, AccountKept
<1>8. ASSUME NEW d \in Calls, CallThrows(d) PROVE Account(e)'
  <2>1. Mishaps' = Mishaps + 1
    BY <1>2, <1>8 DEF CallThrows, Mishaps, DeliveryInv, LinkInv, LinkTypeOK, RunInv, CallsInv, PublicationTypeOK
  <2>2. Potentials(e)' \ Awaited(e)' \subseteq (Potentials(e) \ Awaited(e)) \cup {d}
    <3> SUFFICES ASSUME NEW c \in Awaited(e), c # d PROVE c \in Awaited(e)'
      BY <1>4
    <3>1. Sound(c)'
      BY <1>8 DEF CallThrows, Respond, StepTo, Sound, InFlight, Awaited, DeliveryInv, RunInv, CallsInv, PublicationTypeOK
    <3> QED
      BY <1>5, <3>1
  <2> QED
    BY <1>3, <1>4, <1>6, <2>1, <2>2, AccountMishap
<1>9. CASE PublicationCrash
  <2>1. Mishaps' = Mishaps + 1
    BY <1>2, <1>9 DEF PublicationCrash, Mishaps, DeliveryInv, LinkInv, LinkTypeOK, RunInv, CallsInv, PublicationTypeOK
  <2>2. PICK x : Awaited(e) \subseteq {x}
    BY AwaitedByOne
  <2>3. Potentials(e)' \ Awaited(e)' \subseteq (Potentials(e) \ Awaited(e)) \cup {x}
    BY <1>4, <2>2
  <2> QED
    BY <1>3, <1>4, <1>6, <2>1, <2>3, AccountMishap
<1> QED
  BY <1>1, <1>7, <1>8, <1>9 DEF Internal

-----------------------------------------------------------------------------
(* What a step of the scheduler does to rows and their owners.             *)

\* A step of activity w: it comes to own only rows that were to be claimed, and
\* writes only rows it owns, claims or inserts.
OwnStep(w) ==
  /\ \A v \in Workers \ {w} : pc'[v] = pc[v] /\ exec'[v] = exec[v] /\ batch'[v] = batch[v]
  /\ \A e \in Executions : Owns(w, e)' => Owns(w, e) \/ status[e] \in {"PENDING", "RETRY_WAIT"}
  /\ \A e \in Executions :
       status'[e] # status[e] => Owns(w, e) \/ status[e] \in {"absent", "PENDING", "RETRY_WAIT"}
  /\ pc[w] = "succeed" =>
       \/ status'[exec[w]] = "SUCCEEDED"
       \/ UNCHANGED status /\ \A e \in Executions : ~Owns(w, e)'
  /\ pc[w] = "awaiting" => UNCHANGED status

\* A step of nobody in particular: the due scan or an operator.
RowStep ==
  /\ UNCHANGED <<pc, exec, batch>>
  /\ \A e \in Executions : status'[e] # status[e] => status[e] \in {"absent", "DEAD_LETTERED"}

LEMMA ForgetOwnStep ==
  ASSUME TypeInv, NEW w \in Workers, Forget(w), UNCHANGED status
  PROVE  OwnStep(w)
BY BusyPoints DEF TypeInv, TypeOK, Forget, OwnStep, Owns

LEMMA GotoOwnStep ==
  ASSUME TypeInv, NEW w \in Workers, NEW from \in OpenPoints, NEW to, Goto(w, from, to), UNCHANGED <<exec, batch>>,
         \A e \in Executions : status'[e] # status[e] => e = exec[w],
         from = "succeed" => status'[exec[w]] = "SUCCEEDED",
         from = "awaiting" => UNCHANGED status
  PROVE  OwnStep(w)
BY DEF TypeInv, TypeOK, Goto, OwnStep, Owns

LEMMA ClaimOwnStep ==
  ASSUME SafetyInv, NEW w \in Workers, NEW rows \in SUBSET Claimable, Claim(w, rows),
         pc[w] \in {"idle", "triggered"}, \A v \in Workers \ {w} : exec'[v] = exec[v]
  PROVE  OwnStep(w)
<1>1. /\ \A v \in Workers \ {w} : pc'[v] = pc[v] /\ batch'[v] = batch[v]
      /\ pc'[w] = "next" /\ batch'[w] = rows
      /\ \A e \in Executions : status'[e] # status[e] => e \in rows
  BY DEF Claim, Claimable, SafetyInv, TypeInv, TypeOK
<1>2. \A e \in rows : status[e] \in {"PENDING", "RETRY_WAIT"}
  BY DEF Claimable
<1> QED
  BY <1>1, <1>2 DEF OwnStep, Owns, OpenPoints, EvaluatingPoints, DispatchingPoints

LEMMA LocalOwnStep ==
  ASSUME SafetyInv, NEW w \in Workers, LocalStep(w)
  PROVE  OwnStep(w)
<1> USE DEF SafetyInv
<1>1. CASE ManualClaim(w)
  <2>1. {exec[w]} \in SUBSET Claimable /\ Claim(w, {exec[w]}) /\ pc[w] = "triggered"
    BY <1>1 DEF ManualClaim
  <2>2. \A v \in Workers \ {w} : exec'[v] = exec[v]
    BY <1>1 DEF ManualClaim, TypeInv, TypeOK
  <2> QED
    BY <2>1, <2>2, ClaimOwnStep
<1>2. CASE ManualClaimLost(w)
  BY <1>2, ForgetOwnStep DEF ManualClaimLost, rowVars
<1>3. CASE ProcessNext(w)
  <2>1. PICK e \in batch[w] : /\ exec' = [exec EXCEPT ![w] = e]
                              /\ batch' = [batch EXCEPT ![w] = @ \ {e}]
    BY <1>3 DEF ProcessNext
  <2>2. UNCHANGED status /\ pc[w] = "next" /\ pc' = [pc EXCEPT ![w] = "subscription"]
    BY <1>3 DEF ProcessNext, Goto, rowVars
  <2> QED
    BY <2>1, <2>2 DEF OwnStep, Owns, TypeInv, TypeOK
<1>4. CASE Finish(w)
  <2>1. CASE batch[w] = {}
    BY <1>4, <2>1, ForgetOwnStep DEF Finish, rowVars
  <2>2. CASE batch[w] # {}
    BY <1>4, <2>2, BusyPoints DEF Finish, rowVars, TypeInv, TypeOK, OwnStep, Owns
  <2> QED
    BY <2>1, <2>2
<1>5. CASE Revalidate(w)
  <2>0. {"subscription", "entitlement", "version", "capability"} \subseteq OpenPoints \ {"succeed"}
    BY DEF OpenPoints, EvaluatingPoints
  <2>1. PICK from \in {"subscription", "entitlement", "version", "capability"},
             to \in {"entitlement", "version", "capability", "eligible", "skip", "fail"} :
          Goto(w, from, to) /\ UNCHANGED <<exec, batch, status>>
    BY <1>5 DEF Revalidate, RevalidateSubscription, RevalidateEntitlement, ResolveVersion, ValidateCapability,
           DependencyFails, Fails, Answers, rowVars
  <2> QED
    BY <2>0, <2>1, GotoOwnStep
<1>6. CASE Record(w)
  <2>0. {"eligible", "dispatch", "skip", "fail", "succeed", "deadletter"} \subseteq OpenPoints
    BY DEF OpenPoints, EvaluatingPoints, DispatchingPoints
  <2>1. PICK from \in {"eligible", "dispatch", "skip", "fail", "succeed", "deadletter"}, to \in Points, s \in Statuses :
          /\ Goto(w, from, to) /\ UNCHANGED <<exec, batch>> /\ SetStatus(exec[w], s)
          /\ from = "succeed" => s = "SUCCEEDED"
    <3>1. {"dispatch", "publish", "audit", "deadletter"} \subseteq Points
      BY DEF Points, OpenPoints, DispatchingPoints
    <3>2. {"ELIGIBLE", "DISPATCHING", "SUCCEEDED", "SKIPPED", "RETRY_WAIT", "TERMINAL_FAILED", "DEAD_LETTERED"}
             \subseteq Statuses
      BY DEF Statuses, InProgress
    <3>3. CASE MarkDeadLettered(w)
      BY <3>1, <3>2, <3>3 DEF MarkDeadLettered
    <3>4. CASE MarkEligible(w) \/ MarkDispatching(w) \/ MarkSucceeded(w)
      BY <3>1, <3>2, <3>4 DEF MarkEligible, MarkDispatching, MarkSucceeded, Write
    <3>5. CASE MarkSkipped(w) \/ MarkRetryWait(w) \/ MarkTerminalFailed(w)
      BY <3>1, <3>2, <3>5 DEF MarkSkipped, MarkRetryWait, MarkTerminalFailed, Write
    <3> QED
      BY <1>6, <3>3, <3>4, <3>5 DEF Record
  <2>2. exec[w] \in Executions
    BY <2>0, <2>1 DEF Goto, RowInv, MemoryInv
  <2>3. \A e \in Executions : status'[e] # status[e] => e = exec[w]
    BY <2>1, <2>2 DEF SetStatus, TypeInv, TypeOK
  <2>4. from = "succeed" => status'[exec[w]] = "SUCCEEDED"
    BY <2>1, <2>2 DEF SetStatus, TypeInv, TypeOK
  <2> QED
    BY <2>0, <2>1, <2>3, <2>4, GotoOwnStep
<1> QED
  BY <1>1, <1>2, <1>3, <1>4, <1>5, <1>6 DEF LocalStep

\* Every step is one of these, or ends an activity's wait.
LEMMA SchedulerOwnStep ==
  ASSUME Undisturbed, SafetyInv, Next
  PROVE  RowStep \/ \E w \in Workers : OwnStep(w)
<1> USE DEF SafetyInv
<1>1. ASSUME NEW e \in Executions, ScheduleOccurrence(e) PROVE RowStep
  BY <1>1 DEF ScheduleOccurrence, SetStatus, RowStep, workVars, TypeInv, TypeOK
<1>2. ASSUME NEW o \in Operators, Operate(o) PROVE RowStep
  <2>1. CASE RedriveResets(o)
    <3>1. target[o][1] \in Executions /\ status[target[o][1]] = "DEAD_LETTERED"
      BY <2>1 DEF RedriveResets, OperatorGoto, RowInv, RedriveInv, TypeInv, TargetOK
    <3> QED
      BY <2>1, <3>1 DEF RedriveResets, SetStatus, RowStep, workVars, TypeInv, TypeOK
  <2> QED
    BY <1>2, <2>1 DEF Operate, RedriveReads, ResolveReads, ResolveMarks, RowStep, workVars, rowVars
<1>3. ASSUME NEW w \in Runners, RunnerClaims(w) PROVE OwnStep(w)
  <2>1. PICK rows \in SUBSET Claimable : Claim(w, rows)
    BY <1>3 DEF RunnerClaims, Claims
  <2> QED
    BY <1>3, <2>1, ClaimOwnStep DEF RunnerClaims, Workers
<1>4. ASSUME NEW w \in Requests, NEW e \in ManualExecutions, ManualTrigger(w, e) PROVE OwnStep(w)
  <2>1. e \in Executions /\ w \in Workers
    BY ManualAssumption DEF Workers
  <2>2. batch[w] = {}
    BY <1>4, <2>1 DEF ManualTrigger, Goto, RowInv, MemoryInv
  <2>3. "triggered" \notin OpenPoints
    BY DEF OpenPoints, EvaluatingPoints, DispatchingPoints
  <2> QED
    BY <1>4, <2>1, <2>2, <2>3 DEF ManualTrigger, Goto, SetStatus, OwnStep, Owns, TypeInv, TypeOK
<1>5. ASSUME NEW w \in Workers, Throws(w) PROVE FALSE
  BY <1>5 DEF Throws, Undisturbed, TypeInv, TypeOK
<1>6. ASSUME NEW w \in Workers, Crash(w) PROVE OwnStep(w)
  BY <1>6, ForgetOwnStep DEF Crash, rowVars
<1>7. ASSUME NEW w \in Workers, TriggerPublication(w) PROVE OwnStep(w)
  <2>1. "publish" \in OpenPoints
    BY DEF OpenPoints, DispatchingPoints
  <2> QED
    BY <1>7, <2>1, GotoOwnStep DEF TriggerPublication, Answers, rowVars
<1>8. ASSUME NEW w \in Workers, NEW outcome \in Outcomes, PublicationAnswers(w, outcome) PROVE OwnStep(w)
  <2>1. "awaiting" \in OpenPoints
    BY DEF OpenPoints, DispatchingPoints
  <2>2. \E to : Goto(w, "awaiting", to) /\ UNCHANGED <<exec, batch, status>>
    BY <1>8 DEF PublicationAnswers, Answers, Fails, Outcomes, rowVars
  <2> QED
    BY <2>1, <2>2, GotoOwnStep
<1> QED
  BY <1>1, <1>2, <1>3, <1>4, <1>5, <1>6, <1>7, <1>8, LocalOwnStep DEF Next, Workers

LEMMA ClosedStays ==
  ASSUME Undisturbed, SafetyInv, [Next]_vars, NEW e \in Executions, Closed(e)
  PROVE  Closed(e)'
<1>1. CASE UNCHANGED vars
  BY <1>1 DEF Closed, Owns, vars, workVars, rowVars
<1>2. CASE Next /\ status[e] = "SUCCEEDED"
  BY <1>2, SettledStep DEF LeavesSettledByRedriveOnly, Settled, Closed
<1>3. CASE Next /\ status[e] = "DISPATCHING" /\ \A w \in Workers : ~Owns(w, e)
  <2>1. ASSUME RowStep PROVE Closed(e)'
    BY <1>3, <2>1 DEF RowStep, Closed, Owns
  <2>2. ASSUME NEW w \in Workers, OwnStep(w) PROVE Closed(e)'
    <3>1. status'[e] = "DISPATCHING" /\ ~Owns(w, e)'
      BY <1>3, <2>2 DEF OwnStep
    <3>2. \A v \in Workers \ {w} : ~Owns(v, e)'
      BY <1>3, <2>2 DEF OwnStep, Owns
    <3> QED
      BY <3>1, <3>2 DEF Closed
  <2> QED
    BY <1>3, <2>1, <2>2, SchedulerOwnStep
<1>4. ASSUME Next, NEW w \in Workers, pc[w] = "succeed", exec[w] = e PROVE Closed(e)'
  <2>1. /\ Owns(w, e) /\ status[e] = "DISPATCHING"
        /\ \A v \in Workers \ {w} : ~Owns(v, e)
    BY <1>4 DEF SafetyInv, RowInv, OwnedRowInv, StatusAt, ExclusiveProcessing, Owns, OpenPoints, DispatchingPoints,
       EvaluatingPoints
  <2>2. ASSUME RowStep PROVE Closed(e)'
    BY <1>4, <2>2 DEF RowStep, Closed
  <2>3. ASSUME NEW v \in Workers \ {w}, OwnStep(v) PROVE Closed(e)'
    BY <1>4, <2>3 DEF OwnStep, Closed
  <2>4. ASSUME OwnStep(w) PROVE Closed(e)'
    <3>1. CASE status'[e] = "SUCCEEDED"
      BY <3>1 DEF Closed
    <3>2. CASE UNCHANGED status /\ \A d \in Executions : ~Owns(w, d)'
      <4>1. \A v \in Workers : ~Owns(v, e)'
        BY <2>1, <2>4, <3>2 DEF OwnStep, Owns
      <4> QED
        BY <2>1, <3>2, <4>1 DEF Closed
    <3> QED
      BY <1>4, <2>4, <3>1, <3>2 DEF OwnStep
  <2> QED
    BY <1>4, <2>2, <2>3, <2>4, SchedulerOwnStep
<1> QED
  BY <1>1, <1>2, <1>3, <1>4 DEF Closed

\* Calls and waits stay as they are.
LEMMA AccountUnmoved ==
  ASSUME Undisturbed, DeliveryInv, DeliveryInv', SafetyInv, NEW e \in Executions, Account(e), [Next]_vars,
         UNCHANGED publicationVars, timeouts' = timeouts, Closed(e)' \/ Awaited(e)' = Awaited(e)
  PROVE  Account(e)'
<1>1. Closed(e) => Closed(e)'
  BY ClosedStays
<1>2. Potentials(e)' = Potentials(e)
  BY DEF Potentials, Potential, InFlight, Completing, publicationVars, request
<1>3. Mishaps <= Mishaps'
  BY MishapsType DEF Mishaps, publicationVars, bounds
<1> QED
  BY <1>1, <1>2, <1>3, AccountKept

LEMMA SchedulerAccount ==
  ASSUME Undisturbed, DeliveryInv, DeliveryInv', SafetyInv, AccountInv, [Next]_vars, NEW e \in Executions,
         SchedulerStep \/ SetEntitlement
  PROVE  Account(e)'
<1>1. UNCHANGED <<publicationVars, call, timeouts>>
  BY DEF SchedulerStep, SetEntitlement, linkVars
<1>2. \A w \in Workers : Waiting(w)' <=> Waiting(w)
  BY <1>1 DEF DeliveryInv, LinkInv, WaitsForItsCall
<1>3. \A w \in Workers : Waiting(w) => exec'[w] = exec[w]
  BY <1>1 DEF DeliveryInv, LinkInv, WaitsForItsCall, Waiting, publicationVars, request
<1>4. Awaited(e)' = Awaited(e)
  BY <1>1, <1>2, <1>3 DEF Awaited, Sound, InFlight, publicationVars, request
<1> QED
  BY <1>1, <1>4, AccountUnmoved DEF AccountInv

LEMMA CrashAccount ==
  ASSUME Undisturbed, DeliveryInv, DeliveryInv', SafetyInv, AccountInv, [Next]_vars, NEW e \in Executions,
         SchedulerCrash
  PROVE  Account(e)'
<1>1. PICK w \in Workers : Crash(w) /\ call' = [call EXCEPT ![w] = None]
  BY DEF SchedulerCrash
<1>2. UNCHANGED <<publicationVars, timeouts, status>>
  BY <1>1 DEF SchedulerCrash, Crash, rowVars
<1>3. /\ \A v \in Workers \ {w} : pc'[v] = pc[v] /\ exec'[v] = exec[v] /\ batch'[v] = batch[v] /\ call'[v] = call[v]
      /\ pc'[w] = "idle" /\ batch'[w] = {}
  BY <1>1 DEF Crash, Forget, DeliveryInv, TypeInv, TypeOK, LinkInv, LinkTypeOK
<1>4. CASE Waiting(w) /\ exec[w] = e
  <2>1. status[e] = "DISPATCHING" /\ \A v \in Workers \ {w} : ~Owns(v, e)
    BY <1>4 DEF SafetyInv, RowInv, OwnedRowInv, StatusAt, ExclusiveProcessing, Owns, Waiting, OpenPoints,
       DispatchingPoints, EvaluatingPoints
  <2>2. \A v \in Workers : ~Owns(v, e)'
    BY <1>3, <2>1 DEF Owns, OpenPoints, DispatchingPoints, EvaluatingPoints
  <2>3. Closed(e)'
    BY <1>2, <2>1, <2>2 DEF Closed
  <2> QED
    BY <1>2, <2>3, AccountUnmoved DEF AccountInv
<1>5. CASE ~(Waiting(w) /\ exec[w] = e)
  <2>1. \A v \in Workers, c \in Calls :
          (Waiting(v)' /\ call'[v] = c /\ exec'[v] = e) <=> (Waiting(v) /\ call[v] = c /\ exec[v] = e)
    BY <1>3, <1>5 DEF Waiting
  <2>2. Awaited(e)' = Awaited(e)
    BY <1>2, <2>1 DEF Awaited, Sound, InFlight, publicationVars, request
  <2> QED
    BY <1>2, <2>2, AccountUnmoved DEF AccountInv
<1> QED
  BY <1>4, <1>5

LEMMA PostAccount ==
  ASSUME Undisturbed, DeliveryInv, DeliveryInv', SafetyInv, AccountInv, [Next]_vars, NEW e \in Executions,
         Post
  PROVE  Account(e)'
<1>1. PICK w \in Workers, c \in Calls :
        TriggerPublication(w) /\ Receive(c, exec[w]) /\ call' = [call EXCEPT ![w] = c]
  BY DEF Post
<1>2. UNCHANGED <<timeouts, status, exec, run, exchange, pubFaults, pubCrashes>>
  BY <1>1 DEF Post, TriggerPublication, Answers, rowVars, Receive, bounds
<1>3. /\ \A v \in Workers \ {w} : pc'[v] = pc[v] /\ call'[v] = call[v]
      /\ pc[w] = "publish" /\ pc'[w] = "awaiting" /\ call'[w] = c
  BY <1>1 DEF TriggerPublication, Answers, Goto, DeliveryInv, TypeInv, TypeOK, LinkInv, LinkTypeOK
<1>4. exec[w] \in Executions
  BY <1>3, BusyPoints DEF DeliveryInv, LinkInv, KnowsRow
<1>5. /\ step[c] = "unused" /\ key'[c] = exec[w] /\ \A d \in Calls \ {c} : key'[d] = key[d]
      /\ \A d \in Calls \ {c} : step'[d] = step[d] /\ answer'[d] = answer[d]
      /\ step'[c] \in {"entitlement", "answered"}
  BY <1>1 DEF Receive, Respond, StepTo, DeliveryInv, RunInv, CallsInv, PublicationTypeOK
<1>6. key[c] = NoKey /\ exchange[c] = "none" /\ e # NoKey
  BY <1>5, NoKeyAssumption, KeysAreExecutions DEF DeliveryInv, LinkInv, KeyInv, RunInv, CallsInv, CallInv, Unrecorded
<1>7. Account(e) /\ Mishaps \in Nat /\ Mishaps' = Mishaps /\ Mishaps <= Mishaps' /\ Mishaps' \in Nat
  BY <1>2, MishapsType DEF AccountInv, Mishaps
<1>8. \A d \in Calls \ {c} : (Potential(d)' <=> Potential(d)) /\ (Sound(d)' <=> Sound(d))
  BY <1>2, <1>5 DEF Potential, Sound, InFlight, Completing
<1>9. CASE e # exec[w]
  <2>1. Potentials(e)' = Potentials(e)
    BY <1>5, <1>6, <1>8, <1>9 DEF Potentials
  <2>2. Awaited(e)' = Awaited(e)
    <3>1. ASSUME NEW d \in Awaited(e) PROVE d # c
      BY <1>4, <1>6, <3>1 DEF Awaited, DeliveryInv, LinkInv, WaitsForItsCall
    <3>2. \A v \in Workers, d \in Calls : exec[v] = e =>
            ((Waiting(v)' /\ call'[v] = d) <=> (Waiting(v) /\ call[v] = d))
      BY <1>3, <1>9 DEF Waiting
    <3>3. c \notin Awaited(e)'
      <4>1. ASSUME NEW v \in Workers, Waiting(v), call[v] = c, exec[v] = e PROVE FALSE
        BY <1>6, <4>1 DEF DeliveryInv, LinkInv, WaitsForItsCall
      <4> QED
        BY <1>2, <3>2, <4>1 DEF Awaited
    <3> QED
      BY <1>2, <1>8, <3>1, <3>2, <3>3 DEF Awaited
  <2>3. Closed(e) => Closed(e)'
    BY ClosedStays
  <2> QED
    BY <1>7, <2>1, <2>2, <2>3, AccountKept
<1>10. CASE e = exec[w]
  <2>1. status[e] = "DISPATCHING" /\ Owns(w, e) /\ \A v \in Workers \ {w} : ~Owns(v, e)
    BY <1>3, <1>4, <1>10 DEF SafetyInv, RowInv, OwnedRowInv, StatusAt, ExclusiveProcessing, Owns, OpenPoints,
       DispatchingPoints, EvaluatingPoints
  <2>2. \A v \in Workers : exec[v] = e => pc[v] \notin {"succeed", "awaiting"}
    BY <1>3, <2>1 DEF Owns, OpenPoints, DispatchingPoints
  <2>3. ~Closed(e) /\ Awaited(e) = {}
    BY <2>1, <2>2 DEF Closed, Awaited, Waiting
  <2>4. Cardinality(Potentials(e)) <= Mishaps
    <3>1. Potentials(e) \ Awaited(e) = Potentials(e)
      BY <2>3
    <3> QED
      BY <1>7, <2>3, <3>1 DEF Account
  <2>5. Potentials(e)' \subseteq Potentials(e) \cup {c}
    BY <1>5, <1>8 DEF Potentials
  <2>6. Cardinality(Potentials(e)') <= 1 + Mishaps'
    BY <1>7, <2>4, <2>5, PotentialsAreFinite, OneMoreThan
  <2>7. Potentials(e)' \ Awaited(e)' \subseteq Potentials(e)
    <3>1. ASSUME c \in Potentials(e)' PROVE c \in Awaited(e)'
      <4>1. Potential(c)' /\ exchange'[c] = "none"
        BY <1>2, <1>6, <3>1 DEF Potentials
      <4>2. Sound(c)'
        BY <1>5, <4>1 DEF Potential, Sound, InFlight
      <4> QED
        BY <1>2, <1>3, <1>10, <4>2 DEF Awaited, Waiting
    <3> QED
      BY <2>5, <3>1
  <2>8. Cardinality(Potentials(e)' \ Awaited(e)') <= Mishaps'
    BY <1>7, <2>4, <2>7, PotentialsAreFinite, Fewer
  <2> QED
    BY <2>6, <2>8 DEF Account
<1> QED
  BY <1>9, <1>10

LEMMA GetAnswerAccount ==
  ASSUME Undisturbed, DeliveryInv, DeliveryInv', SafetyInv, AccountInv, [Next]_vars, NEW e \in Executions,
         GetAnswer
  PROVE  Account(e)'
<1>1. PICK w \in Workers : /\ call[w] # None /\ answer[call[w]] # "none"
                           /\ PublicationAnswers(w, answer[call[w]])
                           /\ call' = [call EXCEPT ![w] = None]
  BY DEF GetAnswer
<1>2. UNCHANGED <<publicationVars, timeouts>> /\ answer[call[w]] \in Outcomes /\ TypeInv
  BY <1>1 DEF GetAnswer, DeliveryInv, LinkInv, LinkTypeOK, RunInv, CallsInv, PublicationTypeOK, ClientAnswers, Outcomes
<1>3. /\ pc[w] = "awaiting" /\ UNCHANGED exec
      /\ \A v \in Workers \ {w} : pc'[v] = pc[v]
      /\ pc'[w] = IF answer[call[w]] \in {"READY", "SKIPPED_DUPLICATE"} THEN "succeed" ELSE "fail"
  BY <1>1, <1>2, AnswerShape
<1>4. call'[w] = None /\ \A v \in Workers \ {w} : call'[v] = call[v]
  BY <1>1 DEF DeliveryInv, LinkInv, LinkTypeOK
<1>5. CASE exec[w] = e /\ answer[call[w]] \in {"READY", "SKIPPED_DUPLICATE"}
  <2>1. Closed(e)'
    BY <1>3, <1>5 DEF Closed
  <2> QED
    BY <1>2, <2>1, AccountUnmoved DEF AccountInv
<1>6. CASE ~(exec[w] = e /\ answer[call[w]] \in {"READY", "SKIPPED_DUPLICATE"})
  <2>1. exec[w] = e => ~Sound(call[w])
    BY <1>1, <1>6 DEF Sound, InFlight, DeliveryInv, RunInv, CallsInv, CallInv, LinkInv, LinkTypeOK
  <2>2. \A v \in Workers, c \in Calls : Sound(c) =>
          ((Waiting(v)' /\ call'[v] = c /\ exec'[v] = e) <=> (Waiting(v) /\ call[v] = c /\ exec[v] = e))
    BY <1>3, <1>4, <2>1 DEF Waiting
  <2>3. Awaited(e)' = Awaited(e)
    BY <1>2, <2>2 DEF Awaited, Sound, InFlight, publicationVars, request
  <2> QED
    BY <1>2, <2>3, AccountUnmoved DEF AccountInv
<1> QED
  BY <1>5, <1>6

LEMMA LoseAnswerAccount ==
  ASSUME Undisturbed, DeliveryInv, DeliveryInv', SafetyInv, AccountInv, [Next]_vars, NEW e \in Executions,
         LoseAnswer
  PROVE  Account(e)'
<1>1. PICK w \in Workers : /\ PublicationAnswers(w, "UNAVAILABLE")
                           /\ call' = [call EXCEPT ![w] = None]
  BY DEF LoseAnswer
<1>2. UNCHANGED publicationVars /\ "UNAVAILABLE" \in Outcomes /\ TypeInv
  BY DEF LoseAnswer, Outcomes, DeliveryInv
<1>3. /\ UNCHANGED exec
      /\ \A v \in Workers \ {w} : pc'[v] = pc[v] /\ call'[v] = call[v]
  BY <1>1, <1>2, AnswerShape DEF DeliveryInv, LinkInv, LinkTypeOK
<1>4. Mishaps' = Mishaps + 1
  BY <1>2 DEF LoseAnswer, Mishaps, publicationVars, bounds, DeliveryInv, LinkInv, LinkTypeOK, RunInv, CallsInv,
     PublicationTypeOK
<1>5. Potentials(e)' = Potentials(e)
  BY <1>2 DEF Potentials, Potential, InFlight, Completing, publicationVars, request
<1>6. Potentials(e)' \ Awaited(e)' \subseteq (Potentials(e) \ Awaited(e)) \cup {call[w]}
  <2>1. ASSUME NEW c \in Awaited(e), c # call[w] PROVE c \in Awaited(e)'
    <3>1. PICK v \in Workers : Waiting(v) /\ call[v] = c /\ exec[v] = e
      BY DEF Awaited
    <3>2. Waiting(v)' /\ call'[v] = c /\ exec'[v] = e
      BY <1>3, <2>1, <3>1 DEF Waiting
    <3>3. Sound(c)' /\ c \in Calls
      BY <1>2 DEF Awaited, Sound, InFlight, publicationVars, request
    <3> QED
      BY <3>2, <3>3 DEF Awaited
  <2> QED
    BY <1>5, <2>1
<1>7. Closed(e) => Closed(e)'
  BY ClosedStays
<1> QED
  BY <1>4, <1>5, <1>6, <1>7, AccountMishap DEF AccountInv

AccountedInv == DeliveryInv /\ SafetyInv /\ AccountInv

LEMMA NextAccounted ==
  ASSUME Undisturbed PROVE AccountedInv /\ [DeliveryNext]_deliveryVars => AccountedInv'
<1> SUFFICES ASSUME AccountedInv, [DeliveryNext]_deliveryVars PROVE AccountedInv'
  OBVIOUS
<1>1. DeliveryInv /\ SafetyInv /\ AccountInv
  BY DEF AccountedInv
<1>2. DeliveryInv'
  BY <1>1, NextDelivery
<1>3. [Next]_vars /\ SafetyInv'
  BY <1>1, Projection, NextSafe
<1>4. ASSUME NEW e \in Executions PROVE Account(e)'
  <2>1. CASE UNCHANGED deliveryVars
    <3>1. UNCHANGED publicationVars /\ timeouts' = timeouts /\ UNCHANGED <<pc, exec, call>>
      BY <2>1 DEF deliveryVars, vars, workVars, linkVars
    <3>2. Awaited(e)' = Awaited(e)
      BY <3>1 DEF Awaited, Waiting, Sound, InFlight, publicationVars, request
    <3> QED
      BY <1>1, <1>2, <1>3, <3>1, <3>2, AccountUnmoved DEF AccountInv
  <2> QED
    BY <1>1, <1>2, <1>3, <2>1, SchedulerAccount, CrashAccount, PostAccount, GetAnswerAccount, LoseAnswerAccount,
       PublicationAccount DEF DeliveryNext
<1> QED
  BY <1>2, <1>3, <1>4 DEF AccountedInv, AccountInv

LEMMA InitAccounted == DeliveryInit => AccountedInv
<1> SUFFICES ASSUME DeliveryInit PROVE AccountedInv
  OBVIOUS
<1>1. DeliveryInv /\ SafetyInv
  BY InitDelivery, InitSafe DEF DeliveryInit
<1>2. ASSUME NEW e \in Executions PROVE Account(e)
  <2>1. Potentials(e) = {} /\ Potentials(e) \ Awaited(e) = {}
    BY DEF DeliveryInit, PublicationInit, Potentials, Potential, InFlight
  <2>2. Mishaps = 0
    BY DEF DeliveryInit, PublicationInit, Mishaps
  <2> QED
    BY <2>1, <2>2, FS_EmptySet DEF Account
<1> QED
  BY <1>1, <1>2 DEF AccountedInv, AccountInv

LEMMA AlwaysAccounted == ASSUME Undisturbed PROVE DeliverySpec => []AccountedInv
<1>1. AccountedInv /\ [DeliveryNext]_deliveryVars => AccountedInv'
  BY NextAccounted
<1> QED
  BY <1>1, InitAccounted, PTL DEF DeliverySpec

\* Unless the scheduler's database fails, an execution gets no more artifacts than one and one more for
\* each lost answer and for each error or crash of data-publication-service.
THEOREM ExtraArtifactsHaveCauses ==
  ASSUME Undisturbed PROVE DeliverySpec => []ExtraArtifactsAreAccountedFor
<1>1. AccountedInv => ExtraArtifactsAreAccountedFor
  <2> SUFFICES ASSUME AccountedInv, NEW e \in Executions
               PROVE  Cardinality(Artifacts(e)) <= 1 + timeouts + pubFaults + pubCrashes
    BY DEF ExtraArtifactsAreAccountedFor
  <2>1. Artifacts(e) \in SUBSET Potentials(e)
    BY DEF Artifacts, Potentials, Potential
  <2>2. Mishaps \in Nat /\ Cardinality(Potentials(e)) <= 1 + Mishaps /\ 1 + Mishaps \in Nat
    BY MishapsType, NatStep DEF AccountedInv, AccountInv, Account
  <2>3. Cardinality(Artifacts(e)) <= 1 + Mishaps
    <3>1. 1 + Mishaps <= 1 + Mishaps
      BY <2>2
    <3> QED
      BY <2>1, <2>2, <3>1, PotentialsAreFinite, Fewer
  <2>4. 1 + Mishaps = 1 + timeouts + pubFaults + pubCrashes
    <3>1. timeouts \in Nat /\ pubFaults \in Nat /\ pubCrashes \in Nat
      BY TimeoutAssumption, PublicationBounds DEF AccountedInv, DeliveryInv, LinkInv, LinkTypeOK, RunInv, CallsInv,
         PublicationTypeOK
    <3> QED
      BY <3>1 DEF Mishaps
  <2> QED
    BY <2>3, <2>4
<1> QED
  BY AlwaysAccounted, <1>1, PTL

-----------------------------------------------------------------------------
(* The refinement.  The scheduler and data-publication-service implement   *)
(* DeliveryPromise: every step of theirs is a step of the promise or       *)
(* leaves its two variables alone.  It takes a scheduler whose database    *)
(* does not fail (Undisturbed) and that no answer is lost and no call      *)
(* fails inside data-publication-service (NoMishap): a call whose answer   *)
(* was lost may still deliver after the execution was tried again or given *)
(* up.  Scheduler processes may die at any point.                          *)

NoMishap == MaxTimeouts = 0 /\ MaxPubFaults = 0 /\ MaxPubCrashes = 0

\* The only call in flight for an execution is the one its owner waits for.
OneCall(c) ==
  InFlight(c) => /\ status[key[c]] = "DISPATCHING"
                 /\ \A w \in Workers : Owns(w, key[c]) => Waiting(w) /\ call[w] = c

OneCallInv == \A c \in Calls : OneCall(c)

NobodyAbandons == \A c \in Calls : exchange[c] # "COMPLETING"

PromiseInv == AccountedInv /\ OneCallInv /\ NobodyAbandons

-----------------------------------------------------------------------------
(* The invariant.                                                          *)

LEMMA OwnerPoints ==
  /\ {"publish", "awaiting", "succeed", "fail", "skip", "deadletter"} \subseteq OpenPoints
  /\ "idle" \notin OpenPoints
BY DEF OpenPoints, EvaluatingPoints, DispatchingPoints

LEMMA NothingIsLost ==
  ASSUME NoMishap, DeliveryInv
  PROVE  /\ Mishaps = 0 /\ ~LoseAnswer /\ ~PublicationCrash
         /\ \A c \in Calls : ~CallThrows(c)
<1>1. timeouts = 0 /\ pubFaults = 0 /\ pubCrashes = 0
  BY DEF NoMishap, DeliveryInv, LinkInv, LinkTypeOK, RunInv, CallsInv, PublicationTypeOK
<1> QED
  BY <1>1 DEF NoMishap, Mishaps, LoseAnswer, PublicationCrash, CallThrows

LEMMA FlyingHasExecution ==
  ASSUME DeliveryInv, NEW c \in Calls, InFlight(c)
  PROVE  key[c] \in Executions
BY KeysAreExecutions DEF DeliveryInv, LinkInv, KeyInv, InFlight, RunInv, CallsInv, PublicationTypeOK

LEMMA OneCallNow ==
  ASSUME DeliveryInv, OneCallInv, NEW c \in Calls, InFlight(c), NEW e, key[c] = e
  PROVE  /\ e \in Executions /\ status[e] = "DISPATCHING"
         /\ \A w \in Workers : Owns(w, e) => Waiting(w) /\ call[w] = c
BY FlyingHasExecution DEF OneCallInv, OneCall

LEMMA OneCallNext ==
  ASSUME NEW c \in Calls, NEW e, key'[c] = e, status'[e] = "DISPATCHING",
         \A w \in Workers : Owns(w, e)' => Waiting(w)' /\ call'[w] = c
  PROVE  OneCall(c)'
BY DEF OneCall, Owns, Waiting

LEMMA SchedulerKeepsOneCall ==
  ASSUME Undisturbed, AccountedInv, OneCallInv, DeliveryInv', Next, UNCHANGED <<step, key, call>>
  PROVE  OneCallInv'
<1>1. \A w \in Workers : Waiting(w)' <=> Waiting(w)
  BY DEF AccountedInv, DeliveryInv, LinkInv, WaitsForItsCall
<1> SUFFICES ASSUME NEW c \in Calls, InFlight(c)' PROVE OneCall(c)'
  BY DEF OneCallInv, OneCall
<1>0. InFlight(c)
  BY DEF InFlight
<1>e. PICK e : e = key[c]
  OBVIOUS
<1>2. /\ e \in Executions /\ status[e] = "DISPATCHING"
      /\ \A w \in Workers : Owns(w, e) => Waiting(w) /\ call[w] = c
  BY <1>0, <1>e, OneCallNow DEF AccountedInv
<1>3. key'[c] = e
  BY <1>e
<1>4. ASSUME RowStep
      PROVE  status'[e] = "DISPATCHING" /\ \A v \in Workers : Owns(v, e)' => Owns(v, e)
  BY <1>2, <1>4 DEF RowStep, Owns
<1>5. ASSUME NEW w \in Workers, OwnStep(w)
      PROVE  status'[e] = "DISPATCHING" /\ \A v \in Workers : Owns(v, e)' => Owns(v, e)
  <2>1. status'[e] = "DISPATCHING"
    BY <1>2, <1>5 DEF OwnStep, Waiting
  <2>2. ASSUME NEW v \in Workers, Owns(v, e)' PROVE Owns(v, e)
    BY <1>2, <1>5, <2>2 DEF OwnStep, Owns
  <2> QED
    BY <2>1, <2>2
<1>6. status'[e] = "DISPATCHING" /\ \A v \in Workers : Owns(v, e)' => Owns(v, e)
  BY <1>4, <1>5, SchedulerOwnStep DEF AccountedInv
<1>7. \A w \in Workers : Owns(w, e)' => Waiting(w)' /\ call'[w] = c
  BY <1>1, <1>2, <1>6
<1> QED
  BY <1>3, <1>6, <1>7, OneCallNext

LEMMA CrashKeepsOneCall ==
  ASSUME AccountedInv, OneCallInv, SchedulerCrash
  PROVE  OneCallInv'
<1>1. PICK w \in Workers : Crash(w) /\ call' = [call EXCEPT ![w] = None]
  BY DEF SchedulerCrash
<1>2. UNCHANGED <<step, key, status>>
  BY <1>1 DEF SchedulerCrash, Crash, rowVars, publicationVars, request
<1>3. /\ \A v \in Workers \ {w} : pc'[v] = pc[v] /\ exec'[v] = exec[v] /\ batch'[v] = batch[v] /\ call'[v] = call[v]
      /\ pc'[w] = "idle" /\ batch'[w] = {}
  BY <1>1 DEF Crash, Forget, AccountedInv, DeliveryInv, TypeInv, TypeOK, LinkInv, LinkTypeOK
<1> QED
  BY <1>2, <1>3, OwnerPoints DEF OneCallInv, OneCall, InFlight, Owns, Waiting

LEMMA PostKeepsOneCall ==
  ASSUME AccountedInv, OneCallInv, Post
  PROVE  OneCallInv'
<1>0. DeliveryInv /\ SafetyInv
  BY DEF AccountedInv
<1>1. PICK w \in Workers, c \in Calls :
        TriggerPublication(w) /\ Receive(c, exec[w]) /\ call' = [call EXCEPT ![w] = c]
  BY DEF Post
<1>2. UNCHANGED <<status, exec, batch>>
  BY <1>1 DEF TriggerPublication, Answers, rowVars
<1>3. /\ \A v \in Workers \ {w} : pc'[v] = pc[v] /\ call'[v] = call[v]
      /\ pc[w] = "publish" /\ pc'[w] = "awaiting" /\ call'[w] = c
  BY <1>0, <1>1
     DEF TriggerPublication, Answers, Goto, DeliveryInv, TypeInv, TypeOK, LinkInv, LinkTypeOK
<1>4. /\ key'[c] = exec[w]
      /\ \A d \in Calls \ {c} : key'[d] = key[d] /\ step'[d] = step[d]
  BY <1>0, <1>1 DEF Receive, Respond, StepTo, DeliveryInv, RunInv, CallsInv, PublicationTypeOK
<1>5. exec[w] \in Executions /\ Owns(w, exec[w]) /\ status[exec[w]] = "DISPATCHING"
  BY <1>0, <1>3, BusyPoints, OwnerPoints
     DEF DeliveryInv, LinkInv, KnowsRow, Owns, SafetyInv, RowInv, OwnedRowInv,
     StatusAt, EvaluatingPoints, DispatchingPoints
<1>6. ASSUME NEW e PROVE \A v \in Workers : Owns(v, e)' <=> Owns(v, e)
  BY <1>2, <1>3, OwnerPoints DEF Owns
<1>7. ASSUME NEW d \in Calls, InFlight(d)', d # c PROVE OneCall(d)'
  <2>0. PICK e : e = key[d]
    OBVIOUS
  <2>1. InFlight(d) /\ key'[d] = e
    BY <1>4, <1>7, <2>0 DEF InFlight
  <2>2. /\ e \in Executions /\ status[e] = "DISPATCHING"
        /\ \A v \in Workers : Owns(v, e) => Waiting(v) /\ call[v] = d
    BY <1>0, <2>0, <2>1, OneCallNow
  <2>3. \A v \in Workers : Owns(v, e)' => Waiting(v)' /\ call'[v] = d
    BY <1>3, <1>6, <2>2 DEF Waiting
  <2> QED
    BY <1>2, <2>1, <2>2, <2>3, OneCallNext
<1>8. OneCall(c)'
  <2>0. PICK e : e = exec[w]
    OBVIOUS
  <2>1. e \in Executions /\ Owns(w, e) /\ status[e] = "DISPATCHING"
    BY <1>5, <2>0
  <2>2. \A v \in Workers : Owns(v, e) => v = w
    BY <1>0, <2>1 DEF SafetyInv, RowInv, ExclusiveProcessing
  <2>3. key'[c] = e
    BY <1>4, <2>0
  <2>4. \A v \in Workers : Owns(v, e)' => Waiting(v)' /\ call'[v] = c
    BY <1>3, <1>6, <2>2 DEF Waiting
  <2> QED
    BY <1>2, <2>1, <2>3, <2>4, OneCallNext
<1> QED
  BY <1>7, <1>8 DEF OneCallInv, OneCall

LEMMA GetAnswerKeepsOneCall ==
  ASSUME AccountedInv, OneCallInv, GetAnswer
  PROVE  OneCallInv'
<1>0. DeliveryInv
  BY DEF AccountedInv
<1>1. PICK w \in Workers : /\ call[w] # None /\ answer[call[w]] # "none"
                           /\ PublicationAnswers(w, answer[call[w]])
                           /\ call' = [call EXCEPT ![w] = None]
  BY DEF GetAnswer
<1>2. answer[call[w]] \in Outcomes /\ TypeInv /\ call[w] \in Calls /\ ~InFlight(call[w])
  BY <1>0, <1>1 DEF DeliveryInv, LinkInv, LinkTypeOK, RunInv, CallsInv, CallInv,
     PublicationTypeOK, ClientAnswers,
     Outcomes, InFlight
<1>3. UNCHANGED <<step, key>>
  BY DEF GetAnswer, publicationVars, request
<1>4. /\ pc[w] = "awaiting" /\ UNCHANGED <<exec, batch, status>> /\ pc'[w] \in {"succeed", "fail"}
      /\ \A v \in Workers \ {w} : pc'[v] = pc[v] /\ call'[v] = call[v]
  BY <1>0, <1>1, <1>2, AnswerShape DEF rowVars, DeliveryInv, LinkInv, LinkTypeOK
<1>5. ASSUME NEW e PROVE \A v \in Workers : Owns(v, e)' <=> Owns(v, e)
  BY <1>4, OwnerPoints DEF Owns
<1>6. ASSUME NEW d \in Calls, InFlight(d) PROVE OneCall(d)'
  <2>0. PICK e : e = key[d]
    OBVIOUS
  <2>1. key'[d] = e
    BY <1>3, <2>0
  <2>2. /\ e \in Executions /\ status[e] = "DISPATCHING"
        /\ \A v \in Workers : Owns(v, e) => Waiting(v) /\ call[v] = d
    BY <1>0, <1>6, <2>0, OneCallNow
  <2>3. ~Owns(w, e)
    BY <1>2, <1>6, <2>2
  <2>4. \A v \in Workers : Owns(v, e)' => Waiting(v)' /\ call'[v] = d
    BY <1>4, <1>5, <2>2, <2>3 DEF Waiting
  <2> QED
    BY <1>4, <2>1, <2>2, <2>4, OneCallNext
<1> QED
  BY <1>3, <1>6 DEF OneCallInv, OneCall, InFlight

LEMMA FlyingStays ==
  ASSUME PublicationTypeOK, Internal, NEW c \in Calls, InFlight(c)'
  PROVE  InFlight(c) /\ key'[c] = key[c]
<1>0. step \in [Calls -> Steps]
  BY DEF PublicationTypeOK
<1> USE <1>0 DEF InFlight, request, bounds, StepTo, Respond
<1> DEFINE Goal == InFlight(c) /\ key'[c] = key[c]
<1>1. ASSUME NEW d \in Calls, NEW ok \in BOOLEAN, CheckEntitlement(d, ok) PROVE Goal
  BY <1>1 DEF CheckEntitlement
<1>2. ASSUME NEW d \in Calls, FindExternal(d) \/ FindInternal(d) \/ CreateRun(d) \/ Advance(d) PROVE Goal
  BY <1>2 DEF FindExternal, FindInternal, CreateRun, Advance
<1>3. ASSUME NEW d \in Calls, CreateExchange(d) \/ CompleteExchange(d) \/ ChecksumMismatch(d) PROVE Goal
  BY <1>3 DEF CreateExchange, CompleteExchange, ChecksumMismatch
<1>4. ASSUME NEW d \in Calls, MarkReady(d) \/ Notify(d) \/ Reject(d) \/ MarkFailed(d) PROVE Goal
  BY <1>4 DEF MarkReady, Notify, Reject, MarkFailed
<1>5. ASSUME NEW d \in Calls, CallThrows(d) PROVE Goal
  BY <1>5 DEF CallThrows
<1>6. CASE PublicationCrash
  BY <1>6 DEF PublicationCrash
<1>7. CASE NewGold \/ \E d \in Calls : LateCompletion(d)
  BY <1>7 DEF NewGold, LateCompletion
<1> QED
  BY <1>1, <1>2, <1>3, <1>4, <1>5, <1>6, <1>7 DEF Internal, Work

LEMMA PublicationKeepsOneCall ==
  ASSUME AccountedInv, OneCallInv, PublicationStep
  PROVE  OneCallInv'
<1>1. UNCHANGED <<status, pc, exec, batch, call>>
  BY DEF PublicationStep, vars, rowVars, workVars, linkVars
<1>2. \A c \in Calls : InFlight(c)' => InFlight(c) /\ key'[c] = key[c]
  BY FlyingStays DEF PublicationStep, AccountedInv, DeliveryInv, RunInv, CallsInv
<1> QED
  BY <1>1, <1>2 DEF OneCallInv, OneCall, Owns, Waiting

LEMMA NextPromise ==
  ASSUME Undisturbed, NoMishap PROVE PromiseInv /\ [DeliveryNext]_deliveryVars => PromiseInv'
<1> SUFFICES ASSUME PromiseInv, [DeliveryNext]_deliveryVars PROVE PromiseInv'
  OBVIOUS
<1>1. AccountedInv /\ OneCallInv /\ NobodyAbandons
  BY DEF PromiseInv
<1>2. AccountedInv'
  BY <1>1, NextAccounted
<1>3. ~LoseAnswer /\ ~PublicationCrash /\ \A c \in Calls : ~CallThrows(c)
  BY <1>1, NothingIsLost DEF AccountedInv
<1>4. OneCallInv'
  <2>1. CASE SchedulerStep
    <3>1. Next /\ UNCHANGED <<step, key, call>>
      BY <2>1 DEF SchedulerStep, Next, publicationVars, request, linkVars
    <3> QED
      BY <1>1, <1>2, <3>1, SchedulerKeepsOneCall DEF AccountedInv
  <2>2. CASE SetEntitlement \/ UNCHANGED deliveryVars
    BY <1>1, <2>2
       DEF SetEntitlement, deliveryVars, vars, rowVars, workVars, linkVars, publicationVars,
       request,
       OneCallInv, OneCall, InFlight, Owns, Waiting
  <2> QED
    BY <1>1, <1>3, <2>1, <2>2, CrashKeepsOneCall, PostKeepsOneCall, GetAnswerKeepsOneCall,
       PublicationKeepsOneCall
       DEF DeliveryNext
<1>5. NobodyAbandons'
  <2>1. CASE PublicationStep
    <3>1. ASSUME NEW c \in Calls, Work(c) \/ LateCompletion(c) PROVE NobodyAbandons'
      BY <1>1, <3>1
         DEF Work, CheckEntitlement, FindExternal, FindInternal, CreateRun, Advance, CreateExchange,
         CompleteExchange, ChecksumMismatch, MarkReady, Notify, Reject, MarkFailed, LateCompletion, NobodyAbandons,
         AccountedInv, DeliveryInv, RunInv, CallsInv, PublicationTypeOK
    <3>2. CASE NewGold
      BY <1>1, <3>2 DEF NewGold, NobodyAbandons
    <3> QED
      BY <1>3, <2>1, <3>1, <3>2 DEF PublicationStep, Internal
  <2>2. CASE Post
    BY <1>1, <2>2 DEF Post, Receive, NobodyAbandons
  <2> QED
    BY <1>1, <1>3, <2>1, <2>2
       DEF DeliveryNext, SchedulerStep, SchedulerCrash, GetAnswer, SetEntitlement,
       deliveryVars, publicationVars, NobodyAbandons
<1> QED
  BY <1>2, <1>4, <1>5 DEF PromiseInv

LEMMA InitPromise == DeliveryInit => PromiseInv
BY InitAccounted
   DEF DeliveryInit, PublicationInit, PromiseInv, OneCallInv, OneCall, InFlight, NobodyAbandons

-----------------------------------------------------------------------------
(* What is delivered when.                                                 *)

\* Until its row says DISPATCHING nothing was or will be delivered for an execution.
LEMMA NothingDelivered ==
  ASSUME AccountedInv, Mishaps = 0, NEW e \in Executions, status[e] \notin {"DISPATCHING", "SUCCEEDED"}
  PROVE  Potentials(e) = {} /\ Artifacts(e) = {}
<1>1. \A w \in Workers : exec[w] = e => pc[w] \notin {"awaiting", "succeed"}
  BY OwnerPoints
     DEF AccountedInv, SafetyInv, RowInv, OwnedRowInv, StatusAt, EvaluatingPoints, DispatchingPoints
<1>2. ~Closed(e) /\ Awaited(e) = {}
  BY <1>1 DEF Closed, Awaited, Waiting
<1>3. IsFiniteSet(Potentials(e)) /\ Cardinality(Potentials(e)) <= 0
  <2>1. Potentials(e) \ Awaited(e) = Potentials(e)
    BY <1>2
  <2> QED
    BY <1>2, <2>1, PotentialsAreFinite DEF AccountedInv, AccountInv, Account
<1>4. Cardinality(Potentials(e)) \in Nat
  BY <1>3, FS_CardinalityType
<1>5. Cardinality(Potentials(e)) = 0
  BY <1>3, <1>4
<1> QED
  BY <1>3, <1>5, FS_EmptySet DEF Artifacts, Potentials, Potential

LEMMA OnlyElement ==
  ASSUME NEW S, IsFiniteSet(S), Cardinality(S) <= 1, NEW x \in S
  PROVE  S = {x}
<1>1. IsFiniteSet(S \ {x}) /\ Cardinality(S \ {x}) = Cardinality(S) - 1
  BY FS_RemoveElement
<1>2. Cardinality(S \ {x}) \in Nat /\ Cardinality(S) \in Nat
  BY <1>1, FS_CardinalityType
<1>3. Cardinality(S \ {x}) = 0
  BY <1>1, <1>2
<1>4. S \ {x} = {}
  BY <1>1, <1>3, FS_EmptySet
<1> QED
  BY <1>4

\* There is never room for a second one.
LEMMA AtMostOne ==
  ASSUME AccountedInv, Mishaps = 0, NEW e \in Executions, NEW c \in Potentials(e)
  PROVE  Potentials(e) = {c}
<1>1. 1 + Mishaps = 1
  OBVIOUS
<1>2. IsFiniteSet(Potentials(e)) /\ Cardinality(Potentials(e)) <= 1
  BY <1>1, PotentialsAreFinite DEF AccountedInv, AccountInv, Account
<1> QED
  BY <1>2, OnlyElement

\* A delivery anywhere is an artifact of some execution, and its only one.
LEMMA DeliveredSomewhere ==
  ASSUME AccountedInv, Mishaps = 0, NEW c \in Calls, exchange[c] = "READY"
  PROVE  key[c] \in Executions /\ Cardinality(Artifacts(key[c])) = 1
<1>1. step[c] # "unused" /\ PublicationTypeOK
  BY DEF AccountedInv, DeliveryInv, RunInv, CallsInv, CallInv, Unrecorded
<1>2. key[c] \in Executions
  BY <1>1, KeysAreExecutions DEF AccountedInv, DeliveryInv, LinkInv, KeyInv, PublicationTypeOK
<1>3. c \in Artifacts(key[c]) /\ Artifacts(key[c]) \subseteq Potentials(key[c])
  BY DEF Artifacts, Potentials, Potential
<1>4. Potentials(key[c]) = {c}
  BY <1>2, <1>3, AtMostOne
<1>5. Artifacts(key[c]) = {c}
  BY <1>3, <1>4
<1> QED
  BY <1>2, <1>5, FS_Singleton

-----------------------------------------------------------------------------
(* Every step is a step of the promise or leaves what it speaks of alone.  *)

LEMMA OutcomeOf ==
  /\ Outcome("absent") = "absent" /\ Outcome("SKIPPED") = "skipped"
  /\ Outcome("SUCCEEDED") = "succeeded" /\ Outcome("DEAD_LETTERED") = "dead"
  /\ \A s \in {"PENDING", "RETRY_WAIT", "TERMINAL_FAILED"} \cup InProgress : Outcome(s) = "open"
BY DEF Outcome, InProgress

SameArtifacts == \A e \in Executions : Artifacts(e)' = Artifacts(e)
SameOutcomes == \A e \in Executions : Outcome(status'[e]) = Outcome(status[e])
Moved(e, from, to) ==
  /\ Outcome(status[e]) = from
  /\ Outcome(status'[e]) = to
  /\ \A d \in Executions \ {e} : status'[d] = status[d]
Kept == [Promise!Next]_Promise!vars

LEMMA Stutters ==
  ASSUME SameArtifacts, SameOutcomes PROVE UNCHANGED Promise!vars
BY DEF SameArtifacts, SameOutcomes, Promise!vars

LEMMA Moves ==
  ASSUME SameArtifacts, NEW e \in Executions, NEW from, NEW to, Moved(e, from, to)
  PROVE  Promise!Move(e, from, to)
BY DEF SameArtifacts, Moved, Promise!Move

\* Writing the row of e moves the promise from the outcome it has to the one it gets.
LEMMA SetMoves ==
  ASSUME SameArtifacts, TypeInv, NEW e \in Executions, NEW s, SetStatus(e, s),
         NEW from, from = Outcome(status[e]), NEW to, to = Outcome(s)
  PROVE  /\ from # to => Promise!Move(e, from, to)
         /\ from = to => Kept
<1>1. Moved(e, from, to)
  BY DEF TypeInv, TypeOK, SetStatus, Moved
<1>2. ASSUME from = to PROVE SameOutcomes
  BY <1>1, <1>2 DEF SameOutcomes, Moved
<1> QED
  BY <1>1, <1>2, Moves, Stutters DEF Kept

LEMMA RecordKept ==
  ASSUME PromiseInv, Mishaps = 0, SameArtifacts, NEW w \in Workers, Record(w)
  PROVE  Kept
<1>0. AccountedInv /\ TypeInv /\ SafetyInv /\ DeliveryInv
  BY DEF PromiseInv, AccountedInv, SafetyInv
<1> PICK e : e = exec[w]
  OBVIOUS
<1>1. /\ pc[w] \in OpenPoints => e \in Executions /\ status[e] \in StatusAt(pc[w])
      /\ pc[w] \in OpenPoints /\ pc[w] # "fail" => Outcome(status[e]) = "open"
      /\ pc[w] = "fail" => Outcome(status[e]) = "open"
  <2>1. pc[w] \in OpenPoints => e \in Executions /\ status[e] \in StatusAt(pc[w])
    BY <1>0, BusyPoints DEF DeliveryInv, LinkInv, KnowsRow, SafetyInv, RowInv, OwnedRowInv
  <2>2. StatusAt(pc[w]) \subseteq InProgress \cup {"TERMINAL_FAILED"} /\ "fail" \in OpenPoints
    BY DEF StatusAt, InProgress, OpenPoints
  <2> QED
    BY <2>1, <2>2, OutcomeOf
<1>2. /\ {"eligible", "dispatch", "succeed", "skip", "fail", "deadletter"} \subseteq OpenPoints
      /\ {"ELIGIBLE", "DISPATCHING", "RETRY_WAIT", "TERMINAL_FAILED"}
           \subseteq {"PENDING", "RETRY_WAIT", "TERMINAL_FAILED"} \cup InProgress
  BY DEF OpenPoints, EvaluatingPoints, DispatchingPoints, InProgress
<1>3. CASE MarkEligible(w) \/ MarkDispatching(w) \/ MarkRetryWait(w) \/ MarkTerminalFailed(w)
  <2>1. PICK s \in {"ELIGIBLE", "DISPATCHING", "RETRY_WAIT", "TERMINAL_FAILED"} : SetStatus(e, s)
    BY <1>3 DEF MarkEligible, MarkDispatching, MarkRetryWait, MarkTerminalFailed, Write
  <2>2. e \in Executions /\ Outcome(status[e]) = "open" /\ Outcome(s) = "open"
    BY <1>1, <1>2, <1>3, OutcomeOf
       DEF MarkEligible, MarkDispatching, MarkRetryWait, MarkTerminalFailed, Write, Goto
  <2> QED
    BY <1>0, <2>1, <2>2, SetMoves
<1>4. CASE MarkSucceeded(w)
  <2>1. pc[w] = "succeed" /\ SetStatus(e, "SUCCEEDED")
    BY <1>4 DEF MarkSucceeded, Write, Goto
  <2>2. e \in Executions /\ Promise!Move(e, "open", "succeeded")
    BY <1>0, <1>1, <1>2, <2>1, OutcomeOf, SetMoves
  <2>3. PICK c \in Calls : exchange[c] = "READY"
    BY <1>0, <2>1 DEF DeliveryInv, LinkInv, SuccessInv, Delivered
  <2>4. key[c] \in Executions /\ Cardinality(Artifacts(key[c])) = 1
    BY <1>0, <2>3, DeliveredSomewhere
  <2>5. Promise!Succeed(e)
    BY <2>2, <2>4 DEF Promise!Succeed
  <2> QED
    BY <2>2, <2>5 DEF Kept, Promise!Next
<1>5. CASE MarkSkipped(w) \/ MarkDeadLettered(w)
  <2>1. /\ pc[w] \in {"skip", "deadletter"}
        /\ SetStatus(e, "SKIPPED") \/ SetStatus(e, "DEAD_LETTERED")
    BY <1>5 DEF MarkSkipped, MarkDeadLettered, Write, Goto
  <2>2. e \in Executions /\ status[e] \in {"EVALUATING", "TERMINAL_FAILED"}
    BY <1>1, <1>2, <2>1 DEF StatusAt, EvaluatingPoints, DispatchingPoints
  <2>3. PICK closed \in {"skipped", "dead"} : Promise!Move(e, "open", closed)
    BY <1>0, <1>1, <1>2, <2>1, <2>2, OutcomeOf, SetMoves
  <2>4. Cardinality(Artifacts(e)) = 0
    BY <1>0, <2>2, NothingDelivered, FS_EmptySet
  <2>5. Promise!Close(e)
    BY <2>2, <2>3, <2>4 DEF Promise!Close
  <2> QED
    BY <2>2, <2>5 DEF Kept, Promise!Next
<1> QED
  BY <1>3, <1>4, <1>5 DEF Record

\* Rows of other activities' claims are open before and after.
LEMMA ClaimKept ==
  ASSUME TypeInv, SameArtifacts, NEW w, NEW rows \in SUBSET Claimable, Claim(w, rows)
  PROVE  Kept
<1>1. ASSUME NEW e \in Executions PROVE Outcome(status'[e]) = Outcome(status[e])
  <2>1. CASE e \in rows
    BY <2>1, OutcomeOf DEF Claimable, Claim, InProgress
  <2>2. CASE e \notin rows
    BY <2>2 DEF Claim
  <2> QED
    BY <2>1, <2>2
<1> QED
  BY <1>1, Stutters DEF SameOutcomes, Kept

LEMMA RowsKept ==
  ASSUME SameArtifacts, UNCHANGED status PROVE Kept
BY Stutters DEF SameOutcomes, Kept

LEMMA InsertKept ==
  ASSUME SameArtifacts, TypeInv, NEW e \in Executions, status[e] = "absent", SetStatus(e, "PENDING")
  PROVE  Kept
<1>1. Promise!Accept(e)
  BY OutcomeOf, SetMoves DEF Promise!Accept
<1> QED
  BY <1>1 DEF Kept, Promise!Next

LEMMA SchedulerKept ==
  ASSUME Undisturbed, PromiseInv, Mishaps = 0, SchedulerStep
  PROVE  Kept
<1>0. SameArtifacts /\ TypeInv /\ SafetyInv
  BY DEF SchedulerStep, publicationVars, request, SameArtifacts, Artifacts, PromiseInv,
     AccountedInv, SafetyInv
<1>1. ASSUME NEW e \in Executions, ScheduleOccurrence(e) PROVE Kept
  BY <1>0, <1>1, InsertKept DEF ScheduleOccurrence
<1>2. ASSUME NEW w \in Runners, RunnerClaims(w) PROVE Kept
  BY <1>0, <1>2, ClaimKept DEF RunnerClaims, Claims
<1>3. ASSUME NEW w \in Requests, NEW e \in ManualExecutions, ManualTrigger(w, e) PROVE Kept
  <2>1. e \in Executions
    BY ManualAssumption
  <2>2. CASE status[e] = "absent"
    BY <1>0, <1>3, <2>1, <2>2, InsertKept DEF ManualTrigger
  <2>3. CASE status[e] # "absent"
    BY <1>0, <1>3, <2>1, <2>3, RowsKept DEF ManualTrigger, SetStatus, TypeInv, TypeOK
  <2> QED
    BY <2>2, <2>3
<1>4. ASSUME NEW w \in Workers, LocalStep(w) \/ Throws(w) PROVE Kept
  <2>1. CASE ManualClaim(w)
    BY <1>0, <2>1, ClaimKept DEF ManualClaim
  <2>2. CASE Record(w)
    BY <1>0, <2>2, RecordKept
  <2>3. CASE ManualClaimLost(w) \/ ProcessNext(w) \/ Finish(w) \/ Throws(w)
    BY <1>0, <2>3, RowsKept DEF ManualClaimLost, ProcessNext, Finish, Throws, rowVars
  <2>4. CASE Revalidate(w)
    <3>1. UNCHANGED status
      BY <2>4 DEF Revalidate, RevalidateSubscription, RevalidateEntitlement, ResolveVersion,
         ValidateCapability,
         DependencyFails, Answers, Fails, rowVars
    <3> QED
      BY <1>0, <3>1, RowsKept
  <2> QED
    BY <1>4, <2>1, <2>2, <2>3, <2>4 DEF LocalStep
<1>5. ASSUME NEW o \in Operators, Operate(o) PROVE Kept
  <2>1. CASE RedriveResets(o)
    <3>1. PICK e \in Executions : status[e] = "DEAD_LETTERED" /\ SetStatus(e, "PENDING")
      BY <1>0, <2>1
         DEF RedriveResets, OperatorGoto, SafetyInv, RowInv, RedriveInv, TypeInv, TargetOK
    <3>2. Promise!Reopen(e)
      BY <1>0, <3>1, OutcomeOf, SetMoves DEF Promise!Reopen
    <3> QED
      BY <3>2 DEF Kept, Promise!Next
  <2>2. CASE ~RedriveResets(o)
    BY <1>0, <1>5, <2>2, RowsKept DEF Operate, RedriveReads, ResolveReads, ResolveMarks, rowVars
  <2> QED
    BY <2>1, <2>2
<1> QED
  BY <1>1, <1>2, <1>3, <1>4, <1>5 DEF SchedulerStep, Workers

LEMMA PublicationKept ==
  ASSUME PromiseInv, NoMishap, PublicationStep
  PROVE  Kept
<1>0. /\ AccountedInv /\ NobodyAbandons /\ DeliveryInv /\ Mishaps = 0
      /\ ~PublicationCrash /\ \A c \in Calls : ~CallThrows(c)
  BY NothingIsLost DEF PromiseInv, AccountedInv
<1>1. exchange \in [Calls -> {"none", "PREPARING", "COMPLETING", "READY", "FAILED"}]
  BY <1>0 DEF DeliveryInv, RunInv, CallsInv, PublicationTypeOK
<1>2. UNCHANGED status
  BY DEF PublicationStep, vars, rowVars
<1>3. ASSUME UNCHANGED key, \A c \in Calls : exchange'[c] = "READY" <=> exchange[c] = "READY"
      PROVE  Kept
  <2>1. SameArtifacts
    BY <1>3 DEF SameArtifacts, Artifacts
  <2> QED
    BY <1>2, <2>1, RowsKept
<1>4. ASSUME NEW c \in Calls, CompleteExchange(c) PROVE Kept
  <2>1. /\ step[c] = "run" /\ exchange[c] = "PREPARING" /\ UNCHANGED key
        /\ exchange' = [exchange EXCEPT ![c] = "READY"]
    BY <1>4 DEF CompleteExchange, request
  <2>2. InFlight(c) /\ OneCall(c)
    BY <2>1 DEF InFlight, PromiseInv, OneCallInv
  <2> PICK e : e = key[c]
    OBVIOUS
  <2>3. e \in Executions /\ Outcome(status[e]) = "open"
    BY <1>0, <2>2, FlyingHasExecution, OutcomeOf DEF OneCall, InProgress
  <2>4. Potentials(e) = {c}
    BY <1>0, <2>1, <2>2, <2>3, AtMostOne DEF Potentials, Potential
  <2>5. Artifacts(e) = {} /\ Artifacts(e)' = {c}
    BY <1>1, <2>1, <2>4 DEF Artifacts, Potentials, Potential
  <2>6. \A d \in Executions \ {e} : Artifacts(d)' = Artifacts(d)
    BY <1>1, <2>1 DEF Artifacts
  <2>7. Cardinality({}) = 0 /\ Cardinality({c}) = 1
    BY FS_EmptySet, FS_Singleton
  <2>8. Promise!Deliver(e)
    BY <1>2, <2>3, <2>5, <2>6, <2>7 DEF Promise!Deliver
  <2> QED
    BY <2>3, <2>8 DEF Kept, Promise!Next
<1>5. ASSUME NEW c \in Calls, Work(c), ~CompleteExchange(c) PROVE Kept
  <2>1. UNCHANGED key /\ \A d \in Calls : exchange'[d] = "READY" <=> exchange[d] = "READY"
    BY <1>1, <1>5
       DEF Work, CheckEntitlement, FindExternal, FindInternal, CreateRun, Advance, CreateExchange,
       ChecksumMismatch, MarkReady, Notify, Reject, MarkFailed, request
  <2> QED
    BY <1>3, <2>1
<1>6. CASE NewGold
  BY <1>3, <1>6 DEF NewGold, request
<1>7. ASSUME NEW c \in Calls, LateCompletion(c) PROVE FALSE
  BY <1>0, <1>7 DEF LateCompletion, NobodyAbandons
<1> QED
  BY <1>0, <1>4, <1>5, <1>6, <1>7 DEF PublicationStep, Internal

LEMMA PostKept ==
  ASSUME PromiseInv, Post PROVE Kept
<1>1. PICK w \in Workers, c \in Calls : TriggerPublication(w) /\ Receive(c, exec[w])
  BY DEF Post
<1>2. UNCHANGED status /\ UNCHANGED exchange
  BY <1>1 DEF TriggerPublication, Answers, Receive, rowVars
<1>3. /\ \A d \in Calls \ {c} : key'[d] = key[d]
      /\ exchange[c] # "READY"
  BY <1>1 DEF Receive, Respond, StepTo, PromiseInv, AccountedInv, DeliveryInv, RunInv, CallsInv,
     CallInv,
     PublicationTypeOK, Unrecorded
<1>4. SameArtifacts
  BY <1>2, <1>3 DEF SameArtifacts, Artifacts
<1> QED
  BY <1>2, <1>4, RowsKept

LEMMA OtherKept ==
  ASSUME PromiseInv, SchedulerCrash \/ GetAnswer \/ SetEntitlement \/ UNCHANGED deliveryVars
  PROVE  Kept
<1>1. UNCHANGED <<key, exchange>>
  BY DEF SchedulerCrash, GetAnswer, SetEntitlement, deliveryVars, publicationVars, request
<1>2. UNCHANGED status
  <2>1. CASE GetAnswer
    <3>1. PICK w \in Workers : /\ call[w] # None
                               /\ answer[call[w]] # "none"
                               /\ PublicationAnswers(w, answer[call[w]])
      BY <2>1 DEF GetAnswer
    <3>2. answer[call[w]] \in Outcomes
      BY <3>1 DEF PromiseInv, AccountedInv, DeliveryInv, LinkInv, LinkTypeOK, RunInv, CallsInv,
         PublicationTypeOK,
         ClientAnswers, Outcomes
    <3> QED
      BY <3>1, <3>2 DEF PublicationAnswers, Answers, Fails, Outcomes, rowVars
  <2> QED
    BY <2>1 DEF SchedulerCrash, Crash, SetEntitlement, deliveryVars, vars, rowVars
<1>3. SameArtifacts
  BY <1>1 DEF SameArtifacts, Artifacts
<1> QED
  BY <1>2, <1>3, RowsKept

LEMMA InitialPromise == DeliveryInit => Promise!Init
<1> SUFFICES ASSUME DeliveryInit PROVE Promise!Init
  OBVIOUS
<1>1. \A e \in Executions : Outcome(status[e]) = "absent" /\ Artifacts(e) = {}
  BY OutcomeOf DEF DeliveryInit, Init, PublicationInit, Artifacts
<1> QED
  BY <1>1, FS_EmptySet DEF Promise!Init

\* As long as no answer is lost and nothing fails inside data-publication-service (scheduler processes
\* may die at any time), an execution is accepted once, delivers at most one artifact, succeeds only
\* with a delivery behind it, is closed otherwise only without one, and is reopened only by a redrive.
THEOREM PromiseIsKept ==
  ASSUME Undisturbed, NoMishap PROVE DeliverySpec => KeepsPromise
<1>1. PromiseInv /\ [DeliveryNext]_deliveryVars => PromiseInv'
  BY NextPromise
<1>2. PromiseInv /\ [DeliveryNext]_deliveryVars => [Promise!Next]_Promise!vars
  <2> SUFFICES ASSUME PromiseInv, [DeliveryNext]_deliveryVars PROVE Kept
    BY DEF Kept
  <2>1. Mishaps = 0 /\ ~LoseAnswer
    BY NothingIsLost DEF PromiseInv, AccountedInv
  <2> QED
    BY <2>1, SchedulerKept, PublicationKept, PostKept, OtherKept DEF DeliveryNext
<1> QED
  BY <1>1, <1>2, InitPromise, InitialPromise, PTL DEF DeliverySpec, KeepsPromise, Promise!Spec
=============================================================================
