--------------------------- MODULE DueScheduleScan ---------------------------
(***************************************************************************)
(* scheduling-service: how a subscription's schedule becomes rows of the   *)
(* execution table.  A reconcile tick copies subscriptions from            *)
(* subscription-service into the scheduler's projection; a scan tick       *)
(* claims the projections whose next_run_at is due, advances them in one   *)
(* transaction and then inserts one execution per claimed projection.      *)
(*                                                                         *)
(* Both kinds of tick are started by setInterval without waiting for the   *)
(* previous one, so several of each may be under way.  Time is counted in  *)
(* scheduling instants; a schedule is a period, whose occurrences are its  *)
(* multiples, and 0 stands for ON_DEMAND and the unsupported frequencies.  *)
(* What happens to the inserted rows is ScheduledExecution.                *)
(***************************************************************************)
EXTENDS Naturals, FiniteSets, FiniteSetsExt

CONSTANTS
  Subscriptions,
  Periods,          \* schedules a subscription may have, 0 among them
  Invalid,          \* <<period, time>>: at that time the strategy throws (a
                    \* cron expression is validated against the clock)
  Scanners,         \* scan ticks (DueScheduleScanner.scanOnce activities)
  Reconcilers,      \* reconcile ticks (reconcileAll activities)
  Null,             \* next_run_at IS NULL
  MissedRunPolicy,  \* env.SCHEDULER_MISSED_RUN_POLICY
  Grace,            \* env.SCHEDULER_MISSED_RUN_GRACE_MINUTES
  MaxTime,          \* bound: instants that pass
  MaxLag,           \* bound: instants between an activity's read and its write
  MaxEdits,         \* bound: edits of subscriptions
  MaxCrashes        \* bound: ticks that die half-way

ASSUME PeriodAssumption == Periods \subseteq Nat /\ 0 \in Periods
ASSUME PolicyAssumption ==
  MissedRunPolicy \in {"RUN_LATEST", "SKIP", "RUN_ALL"} /\ Grace \in Nat
ASSUME NullAssumption == Null \notin Nat
ASSUME ScanBounds ==
  MaxTime \in Nat /\ MaxLag \in Nat /\ MaxEdits \in Nat /\ MaxCrashes \in Nat

VARIABLES
  now,       \* the clock
  sub,       \* subscriptions, as subscription-service has them
  proj,      \* scheduler_subscription_projection
  rows,      \* execution keys inserted: <<subscription, occurrence, reason>>
  skipped,   \* <<subscription, occurrence>> audited as MISSED_RUN_SKIPPED
  spc,       \* where a scan tick stands
  snow,      \* the instant it took as now
  toCreate,  \* executions it has yet to insert
  toSkip,    \* missed runs it has yet to audit
  rpc,       \* where a reconcile tick stands
  page,      \* the subscriptions it was given
  todo,      \* those it has yet to reconcile
  subject,   \* the one it is reconciling
  existing,  \* the projection it read for that one
  readAt,    \* when it did
  frozen,    \* <<subscription, time>>: the clock passed an inactive projection
  edits, crashes

sourceVars == <<now, sub, edits, frozen>>
tableVars == <<proj, rows, skipped>>
scanVars == <<spc, snow, toCreate, toSkip>>
reconcileVars == <<rpc, page, todo, subject, existing, readAt>>
vars == <<sourceVars, tableVars, scanVars, reconcileVars, crashes>>

Time == 0 .. MaxTime
Reasons == {"SCHEDULED", "MISSED_RUN_RECOVERY"}
Keys == Subscriptions \X Time \X Reasons

Source == [active : BOOLEAN, period : Periods, rev : 0 .. MaxEdits]

Projection ==
  [exists : BOOLEAN, active : BOOLEAN, period : Periods,
   rev : 0 .. MaxEdits, next : Nat \cup {Null}]

NoProjection ==
  [exists |-> FALSE, active |-> FALSE, period |-> 0, rev |-> 0, next |-> Null]

TypeOK ==
  /\ now \in Time
  /\ sub \in [Subscriptions -> Source]
  /\ proj \in [Subscriptions -> Projection]
  /\ rows \subseteq Keys
  /\ skipped \subseteq Subscriptions \X Time
  /\ spc \in [Scanners -> {"idle", "claiming", "recording"}]
  /\ snow \in [Scanners -> Time]
  /\ toCreate \in [Scanners -> SUBSET Keys]
  /\ toSkip \in [Scanners -> SUBSET (Subscriptions \X Time)]
  /\ rpc \in [Reconcilers -> {"idle", "reading", "writing"}]
  /\ page \in [Reconcilers -> [Subscriptions -> Source]]
  /\ todo \in [Reconcilers -> SUBSET Subscriptions]
  /\ subject \in [Reconcilers -> Subscriptions \cup {Null}]
  /\ existing \in [Reconcilers -> Projection]
  /\ readAt \in [Reconcilers -> Time]
  /\ frozen \subseteq Subscriptions \X Time
  /\ edits \in 0 .. MaxEdits
  /\ crashes \in 0 .. MaxCrashes

\* What an idle reconcile tick holds.
NoPage == [s \in Subscriptions |-> [active |-> FALSE, period |-> 0, rev |-> 0]]

Init ==
  /\ now = 0
  /\ \E p \in Periods :
       sub = [s \in Subscriptions |-> [active |-> TRUE, period |-> p, rev |-> 0]]
  /\ proj = [s \in Subscriptions |-> NoProjection]
  /\ rows = {}
  /\ skipped = {}
  /\ spc = [w \in Scanners |-> "idle"]
  /\ snow = [w \in Scanners |-> 0]
  /\ toCreate = [w \in Scanners |-> {}]
  /\ toSkip = [w \in Scanners |-> {}]
  /\ rpc = [r \in Reconcilers |-> "idle"]
  /\ page = [r \in Reconcilers |-> NoPage]
  /\ todo = [r \in Reconcilers |-> {}]
  /\ subject = [r \in Reconcilers |-> Null]
  /\ existing = [r \in Reconcilers |-> NoProjection]
  /\ readAt = [r \in Reconcilers |-> 0]
  /\ frozen = {}
  /\ edits = 0
  /\ crashes = 0

-----------------------------------------------------------------------------
(* Schedules.                                                              *)

\* calculateNextRun: the first occurrence strictly after t.
NextRun(p, t) == (t \div p + 1) * p

\* findLatestDueOccurrence walks from a due next_run_at, which counts even
\* if the schedule no longer has it, to the last occurrence up to t.
LatestDue(p, from, t) ==
  Max({from} \cup {o \in from .. t : o % p = 0})

\* resolveMissedRun; RUN_ALL is treated as RUN_LATEST.
MayRun(latest, t) == MissedRunPolicy # "SKIP" /\ t - latest <= Grace

Reason(latest, next) ==
  IF latest = next THEN "SCHEDULED" ELSE "MISSED_RUN_RECOVERY"

-----------------------------------------------------------------------------
(* The environment: the clock and the edits of subscriptions.              *)

Late(start) == now - start >= MaxLag

Tick ==
  /\ now < MaxTime
  /\ \A w \in Scanners : spc[w] = "claiming" => ~Late(snow[w])
  /\ \A r \in Reconcilers : rpc[r] = "writing" => ~Late(readAt[r])
  /\ now' = now + 1
  /\ frozen' = frozen \cup
       {<<s, now + 1>> : s \in {x \in Subscriptions : proj[x].exists /\ ~proj[x].active}}
  /\ UNCHANGED <<sub, edits, tableVars, scanVars, reconcileVars, crashes>>

Edit(s, to) ==
  /\ edits < MaxEdits
  /\ edits' = edits + 1
  /\ sub' = [sub EXCEPT ![s] = to]
  /\ UNCHANGED <<now, frozen, tableVars, scanVars, reconcileVars, crashes>>

\* updateSubscriptionStatus and updateSubscriptionVersionPolicy count the
\* subscription's version up.
EditSubscription(s) ==
  \E a \in BOOLEAN :
    Edit(s, [sub[s] EXCEPT !.active = a, !.rev = @ + 1])

\* updateDeliveryPreference counts the preference's own version, which the
\* scheduler never sees.
EditDelivery(s) ==
  \E p \in Periods \ {sub[s].period} : Edit(s, [sub[s] EXCEPT !.period = p])

-----------------------------------------------------------------------------
(* The reconcile tick.                                                     *)

\* Mutant: only ACTIVE subscriptions are listed.
ListActive(r) ==
  /\ rpc[r] = "idle"
  /\ rpc' = [rpc EXCEPT ![r] = "reading"]
  /\ page' = [page EXCEPT ![r] = sub]
  /\ todo' = [todo EXCEPT ![r] = {s \in Subscriptions : sub[s].active}]
  /\ UNCHANGED <<subject, existing, readAt, sourceVars, tableVars, scanVars,
                 crashes>>

\* listSchedulableSubscriptions: every subscription, whatever its status.
List(r) ==
  /\ rpc[r] = "idle"
  /\ rpc' = [rpc EXCEPT ![r] = "reading"]
  /\ page' = [page EXCEPT ![r] = sub]
  /\ todo' = [todo EXCEPT ![r] = Subscriptions]
  /\ UNCHANGED <<subject, existing, readAt, sourceVars, tableVars, scanVars,
                 crashes>>

\* reconcileOne reads the projection of the next subscription of its page,
Read(r) ==
  /\ rpc[r] = "reading"
  /\ rpc' = [rpc EXCEPT ![r] = "writing"]
  /\ \E s \in todo[r] :
       /\ subject' = [subject EXCEPT ![r] = s]
       /\ todo' = [todo EXCEPT ![r] = @ \ {s}]
       /\ existing' = [existing EXCEPT ![r] = proj[s]]
  /\ readAt' = [readAt EXCEPT ![r] = now]
  /\ UNCHANGED <<page, sourceVars, tableVars, scanVars, crashes>>

\* Mutant: an inactive subscription keeps its next_run_at.
ReconciledNextUnfrozen(source, old, t) ==
  IF source.period = 0 THEN Null
  ELSE IF (source.active /\ old.rev # source.rev) \/ old.next = Null
  THEN IF <<source.period, t>> \in Invalid THEN Null ELSE NextRun(source.period, t)
  ELSE old.next

\* The next_run_at it decides on, asking the clock at t.
ReconciledNext(source, old, t) ==
  IF source.period = 0 \/ ~source.active THEN Null
  ELSE IF ~old.active \/ old.rev # source.rev \/ old.next = Null
  THEN IF <<source.period, t>> \in Invalid THEN Null ELSE NextRun(source.period, t)
  ELSE old.next

ForgetPage(r) ==
  /\ rpc' = [rpc EXCEPT ![r] = IF todo[r] = {} THEN "idle" ELSE "reading"]
  /\ page' = [page EXCEPT ![r] = IF todo[r] = {} THEN NoPage ELSE @]
  /\ subject' = [subject EXCEPT ![r] = Null]
  /\ existing' = [existing EXCEPT ![r] = NoProjection]
  /\ readAt' = [readAt EXCEPT ![r] = 0]
  /\ UNCHANGED todo

\* ... and upserts it as a whole.
Write(r) ==
  LET s == subject[r]
      source == page[r][s] IN
  /\ rpc[r] = "writing"
  /\ \E t \in readAt[r] .. now :
       proj' = [proj EXCEPT ![s] =
         [exists |-> TRUE, active |-> source.active, period |-> source.period,
          rev |-> source.rev, next |-> ReconciledNext(source, existing[r], t)]]
  /\ ForgetPage(r)
  /\ UNCHANGED <<rows, skipped, sourceVars, scanVars, crashes>>

-----------------------------------------------------------------------------
(* The scan tick.                                                          *)

StartScan(w) ==
  /\ spc[w] = "idle"
  /\ spc' = [spc EXCEPT ![w] = "claiming"]
  /\ snow' = [snow EXCEPT ![w] = now]
  /\ UNCHANGED <<toCreate, toSkip, sourceVars, tableVars, reconcileVars, crashes>>

\* claimDueProjections does not look at the subscription's status.
Due(t) == {s \in Subscriptions : /\ proj[s].period # 0
                                 /\ proj[s].next # Null
                                 /\ proj[s].next <= t}

\* Rows another statement has locked are skipped.  CLAIM_BATCH_SIZE (100) is
\* taken to be more than there are Subscriptions.
Contended(w) ==
  \/ \E v \in Scanners \ {w} : spc[v] = "claiming"
  \/ \E r \in Reconcilers : rpc[r] = "writing"

\* The tick still has these keys to insert and these runs to audit, or ends.
Remains(w, create, skip) ==
  LET done == create = {} /\ skip = {} IN
  /\ toCreate' = [toCreate EXCEPT ![w] = create]
  /\ toSkip' = [toSkip EXCEPT ![w] = skip]
  /\ spc' = [spc EXCEPT ![w] = IF done THEN "idle" ELSE "recording"]
  /\ snow' = [snow EXCEPT ![w] = IF done THEN 0 ELSE @]

\* The transaction of scanOnce: claim, advance, resolve the missed runs.
ClaimDue(w, claimed) ==
  LET t == snow[w]
      Latest(s) == LatestDue(proj[s].period, proj[s].next, t)
      usable == {s \in claimed : <<proj[s].period, t>> \notin Invalid}
      run == {s \in usable : MayRun(Latest(s), t)} IN
  /\ spc[w] = "claiming"
  /\ claimed = Due(t) \/ (claimed \subseteq Due(t) /\ Contended(w))
  /\ proj' = [s \in Subscriptions |->
       IF s \notin claimed THEN proj[s]
       ELSE [proj[s] EXCEPT !.next =
              IF s \in usable THEN NextRun(proj[s].period, t) ELSE Null]]
  /\ Remains(w, {<<s, Latest(s), Reason(Latest(s), proj[s].next)>> : s \in run},
                {<<s, Latest(s)>> : s \in usable \ run})
  /\ UNCHANGED <<rows, skipped, sourceVars, reconcileVars, crashes>>

\* insertExecutionIfAbsent: one key after the other, in autocommit.
Insert(w) ==
  /\ \E k \in toCreate[w] :
       /\ rows' = rows \cup {k}
       /\ Remains(w, toCreate[w] \ {k}, toSkip[w])
  /\ UNCHANGED <<proj, skipped, sourceVars, reconcileVars, crashes>>

\* Mutant: skipped runs are dropped without a record.
AuditSkippedNot(w) ==
  /\ toCreate[w] = {}
  /\ toSkip[w] # {}
  /\ Remains(w, {}, {})
  /\ UNCHANGED <<tableVars, sourceVars, reconcileVars, crashes>>

\* PUBLICATION_SKIPPED, after all the inserts.
AuditSkipped(w) ==
  /\ toCreate[w] = {}
  /\ \E x \in toSkip[w] :
       /\ skipped' = skipped \cup {x}
       /\ Remains(w, {}, toSkip[w] \ {x})
  /\ UNCHANGED <<proj, rows, sourceVars, reconcileVars, crashes>>

-----------------------------------------------------------------------------
\* A database error ends the tick in the coordinator's catch block, or the
\* process dies: what the tick held in memory is gone.
ScanDies(w) ==
  /\ crashes < MaxCrashes
  /\ crashes' = crashes + 1
  /\ spc[w] # "idle"
  /\ spc' = [spc EXCEPT ![w] = "idle"]
  /\ snow' = [snow EXCEPT ![w] = 0]
  /\ toCreate' = [toCreate EXCEPT ![w] = {}]
  /\ toSkip' = [toSkip EXCEPT ![w] = {}]
  /\ UNCHANGED <<sourceVars, tableVars, reconcileVars>>

ReconcileDies(r) ==
  /\ crashes < MaxCrashes
  /\ crashes' = crashes + 1
  /\ rpc[r] # "idle"
  /\ rpc' = [rpc EXCEPT ![r] = "idle"]
  /\ page' = [page EXCEPT ![r] = NoPage]
  /\ todo' = [todo EXCEPT ![r] = {}]
  /\ subject' = [subject EXCEPT ![r] = Null]
  /\ existing' = [existing EXCEPT ![r] = NoProjection]
  /\ readAt' = [readAt EXCEPT ![r] = 0]
  /\ UNCHANGED <<sourceVars, tableVars, scanVars>>

ReconcileStep(r) == List(r) \/ Read(r) \/ Write(r)

Claim(w) == \E claimed \in SUBSET Subscriptions : ClaimDue(w, claimed)

Settle(w) == Insert(w) \/ AuditSkipped(w)

Next ==
  \/ Tick
  \/ \E s \in Subscriptions : EditSubscription(s) \/ EditDelivery(s)
  \/ \E r \in Reconcilers : ReconcileStep(r) \/ ReconcileDies(r)
  \/ \E w \in Scanners : StartScan(w) \/ Claim(w) \/ Settle(w) \/ ScanDies(w)

Spec == Init /\ [][Next]_vars

\* setInterval keeps both ticks coming; a row lock is held for the time of
\* one statement, so a scan does not find a due row locked every time.
Fairness ==
  /\ \A r \in Reconcilers : WF_vars(ReconcileStep(r))
  /\ \A w \in Scanners : /\ WF_vars(StartScan(w) \/ Settle(w))
                         /\ SF_vars(ClaimDue(w, Due(snow[w])))

FairSpec == Spec /\ Fairness

-----------------------------------------------------------------------------
(* Properties.                                                             *)

\* Restarts, overlapping ticks and duplicate scans converge on one logical
\* execution per occurrence: the reason is part of the execution key, so an
\* occurrence must not be found once on time and once as a missed run.
OneRowPerOccurrence ==
  \A k, l \in rows : k[1] = l[1] /\ k[2] = l[2] => k = l

\* A subscription that is resumed never replays what came due while the
\* scheduler knew it to be paused.
NoReplayOfPaused == \A k \in rows : <<k[1], k[2]>> \notin frozen

\* Once nobody edits subscriptions any more, the projection has their
\* status, schedule and revision for good: no stale page wins for ever.
ProjectionConverges ==
  <>[](\A s \in Subscriptions :
         /\ proj[s].exists
         /\ proj[s].active = sub[s].active
         /\ proj[s].period = sub[s].period
         /\ proj[s].rev = sub[s].rev)

\* An occurrence that came due is inserted, or a later one in its place, or
\* the skip is on record.  Only an edit, a dead tick or a strategy that
\* throws (next_run_at is NULL then) can make it disappear.
DueIsRun ==
  \A s \in Subscriptions, o \in Time \ {0} :
    (proj[s].next = o /\ o <= now) ~>
      \/ \E k \in rows : k[1] = s /\ k[2] >= o
      \/ \E x \in skipped : x[1] = s /\ x[2] >= o
      \/ edits + crashes > 0
      \/ proj[s].next = Null

\* When the schedule changes, next_run_at is computed afresh: it is always
\* an occurrence of the schedule the projection has.
NextRunIsOnSchedule ==
  \A s \in Subscriptions :
    proj[s].next # Null => proj[s].period # 0 /\ proj[s].next % proj[s].period = 0

\* due-schedule-scanner.service.ts: an occurrence gets one row, whatever ticks, restarts and reasons overlap, and what came due
\* while the schedule was known to be paused gets none.
RowsFollowSchedules == TypeOK /\ OneRowPerOccurrence /\ NoReplayOfPaused
=============================================================================
