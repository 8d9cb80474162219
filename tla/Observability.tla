---------------------------- MODULE Observability ----------------------------
(***************************************************************************)
(* data-platform-observability-service: pollers and the reconciliation     *)
(* loop read what the other services say of their runs and feed it through *)
(* one ingestion path: find the execution an event belongs to, record the  *)
(* event and the stage, derive the execution's status, evaluate alerts and *)
(* group them into incidents.  All loops share one process and one         *)
(* database; only the recording of an event is a transaction.              *)
(***************************************************************************)
EXTENDS Naturals, Sequences, FiniteSets, SequencesExt

CONSTANTS
    Entities,      \* the runs of other services that are observed
    PartOf,        \* per entity those it is a step of
    StageOf,       \* per entity its stage in STAGE_ORDER, by number
    IdentifiersOf, \* per entity the identifiers its events carry, in order of priority
    Identifiers,
    Scheduled,     \* entities of scheduling-service: only their failures name a stage
    Workers, Reconciler,
    Rules,         \* alert types in order of evaluation
    RuleOf,        \* per stage the alert type its failure raises, or None
    Critical,      \* alert types of severity CRITICAL
    Delivery,      \* DELIVERY_TERMINAL_STAGES
    None,
    MaxDisturbances, \* bound on repeated listings, operator calls, failed transactions and restarts
    MaxSplits  \* time windows only pass while there are fewer executions, or incidents

ASSUME PriorityLists == /\ IdentifiersOf \in [Entities -> Seq(Identifiers)]
                        /\ Reconciler \in Workers /\ Scheduled \subseteq Entities

VARIABLES
    source,      \* what each entity's service says of it
    executions,  \* operational_executions with their stage runs and alerts
    index,       \* operational_execution_identifiers
    events,      \* operational_events: entity, status, execution
    incidents,   \* with incident_alerts
    maintenance, \* a maintenance window is active
    worker, operator,
    disturbances,
    overtaken,   \* auxiliary: entities an event of which was placed by an outdated look-up
    interrupted, \* auxiliary: executions whose evaluation a restart cut short
    missed       \* auxiliary: incidents a resolution did not know of

aux  == <<overtaken, interrupted, missed>>
env  == <<source, maintenance, disturbances>>
vars == <<env, executions, index, events, incidents, worker, operator, aux>>

Statuses == {"RUNNING", "SUCCEEDED", "FAILED"}
Stages   == DOMAIN RuleOf
NoRow    == [status |-> None, started |-> FALSE, completed |-> FALSE]
NoAlert  == [state |-> None, incident |-> 0]
NewExecution == [status |-> "PENDING", started |-> FALSE, completed |-> FALSE,
                 rows |-> [s \in Stages |-> NoRow], alerts |-> [t \in Range(Rules) |-> NoAlert]]
Idle == [pc |-> "idle", event |-> None, target |-> 0,
         fire |-> <<>>, incident |-> 0, recover |-> FALSE, resolve |-> {}, quiet |-> FALSE]

Init ==
    /\ source = [e \in Entities |-> None]
    /\ executions = <<>> /\ index = [i \in Identifiers |-> 0] /\ events = {} /\ incidents = <<>>
    /\ maintenance = FALSE /\ worker = [w \in Workers |-> Idle] /\ operator = 0
    /\ disturbances = 0 /\ overtaken = {} /\ interrupted = {} /\ missed = {}

Set(w, fields) == worker' = [worker EXCEPT ![w] = fields]
Disturb == disturbances < MaxDisturbances /\ disturbances' = disturbances + 1
\* The alert a worker is busy with.
Key(w) == <<worker[w].target, Head(worker[w].fire)>>

-----------------------------------------------------------------------------
\* The observed services.
Advance(e) ==
    /\ \/ /\ source[e] = None /\ \A d \in PartOf[e] : source[d] = "RUNNING"
          /\ source' = [source EXCEPT ![e] = "RUNNING"]
       \/ /\ source[e] = "RUNNING"
          /\ \E s \in Statuses \ {"RUNNING"} :
               /\ s = "SUCCEEDED" => \A d \in Entities : e \in PartOf[d] => source[d] = "SUCCEEDED"
               /\ source' = [source EXCEPT ![e] = s]
    /\ UNCHANGED <<maintenance, disturbances, executions, index, events, incidents, worker, operator, aux>>

-----------------------------------------------------------------------------
\* insertEventIfAbsent: the event id is made of the entity and its status.
Recorded(e, status) == \E v \in events : v.entity = e /\ v.status = status

\* The rounds of the loops, cut into one per listed record: what a worker read
\* of a record may be out of date by the time it ingests it.  Listing once more
\* what is recorded already is bounded.
Started == {e \in Entities : source[e] # None}
Listing(w) == IF w = Reconciler THEN Started \ Scheduled ELSE Started
List(w, e) ==
    /\ worker[w].pc = "idle" /\ e \in Listing(w)
    /\ IF Recorded(e, source[e]) THEN Disturb ELSE UNCHANGED disturbances
    /\ Set(w, [Idle EXCEPT !.pc = "next", !.event = <<e, source[e]>>])
    /\ UNCHANGED <<source, maintenance, executions, index, events, incidents, operator, aux>>

Done(w) == Set(w, Idle)

\* orderIdentifiersByPriority and findMatchedExecutionIds: the executions the
\* event's identifiers are indexed under, the most specific identifier first.
Matches(e) == SelectSeq([n \in DOMAIN IdentifiersOf[e] |-> index[IdentifiersOf[e][n]]], LAMBDA x : x # 0)

\* findMostRecentOpenExecution: one that has started, has not completed and is
\* inside the correlation window.
OpenExecutions == {x \in DOMAIN executions : executions[x].started /\ ~executions[x].completed}

\* Nothing to find, or it is found to be too old.
WindowPassed(candidates, sofar) == candidates = {} \/ Len(sofar) < MaxSplits

\* decideCorrelation: 0 stands for a new execution.
Decisions(e) ==
    IF Matches(e) # <<>> THEN {Head(Matches(e))}
    ELSE OpenExecutions \cup (IF WindowPassed(OpenExecutions, executions) THEN {0} ELSE {})

Correlate(w) ==
    /\ worker[w].pc = "next"
    /\ \E x \in Decisions(worker[w].event[1]) : Set(w, [worker[w] EXCEPT !.pc = "record", !.target = x])
    /\ UNCHANGED <<env, executions, index, events, incidents, operator, aux>>

\* upsertIdentifier: the first execution an identifier is seen with keeps it.
UpsertIdentifiers(e, x) == [i \in Identifiers |-> IF i \in Range(IdentifiersOf[e]) /\ index[i] = 0 THEN x ELSE index[i]]

\* upsertStageRun on (execution, stage, attempt 1).
Ended(status) == status \in {"SUCCEEDED", "FAILED", "CANCELLED"}
UpsertStageRun(row, status) ==
    [status |-> status, started |-> row.started \/ ~Ended(status), completed |-> row.completed \/ Ended(status)]

With(rows, status) == {s \in Stages : rows[s].status = status}
Earliest(stages) == CHOOSE s \in stages : \A r \in stages : s <= r
Latest(stages)  == CHOOSE s \in stages : \A r \in stages : s >= r

\* deriveExecutionState: failures, cancellations and retries come first, then
\* the last stage speaks for the execution.
DeriveExecutionState(rows) ==
    LET last == Latest(Stages \ With(rows, None)) IN
    CASE \A s \in Stages : rows[s].status = None -> [status |-> "PENDING", completed |-> FALSE]
      [] With(rows, "FAILED") # {} ->
           [status |-> "FAILED", completed |-> rows[Earliest(With(rows, "FAILED"))].completed]
      [] rows[last].status = "SUCCEEDED" /\ last \in Delivery ->
           [status |-> "SUCCEEDED", completed |-> rows[last].completed]
      [] OTHER -> [status |-> "RUNNING", completed |-> FALSE]

MutantRollup(execution, rows) ==
    LET derived == DeriveExecutionState(execution.rows) IN
    [execution EXCEPT !.rows = rows, !.status = derived.status, !.completed = derived.completed,
                      !.started = \E s \in Stages : rows[s].started]

\* updateExecutionRollup with what the stage runs say.
Rollup(execution, rows) ==
    LET derived == DeriveExecutionState(rows) IN
    [execution EXCEPT !.rows = rows, !.status = derived.status, !.completed = derived.completed,
                      !.started = \E s \in Stages : rows[s].started]

\* normalize*: the stage an event reports, None for a scheduled run under way.
StageReported(e, status) == IF e \in Scheduled /\ status # "FAILED" THEN None ELSE StageOf[e]

\* The rest of the ingestion transaction.  From its first write it holds the
\* row of its execution, so these transactions run one after the other.
Record(w) ==
    LET me == worker[w]  e == me.event[1]  status == me.event[2]
        x == IF me.target = 0 THEN Len(executions) + 1 ELSE me.target
        known == IF me.target = 0 THEN Append(executions, NewExecution) ELSE executions
        s == StageReported(e, status) IN
    /\ me.pc = "record"
    /\ index' = UpsertIdentifiers(e, x)
    /\ overtaken' = IF me.target \in Decisions(e) \/ Matches(e) = <<>> THEN overtaken ELSE overtaken \cup {e}
    /\ \/ /\ Recorded(e, status)
          /\ executions' = known /\ Done(w)
          /\ UNCHANGED events
       \/ /\ ~Recorded(e, status)
          /\ events' = events \cup {[entity |-> e, status |-> status, execution |-> x]}
          /\ executions' = IF s = None THEN known
                           ELSE [known EXCEPT ![x] = Rollup(@, [@.rows EXCEPT ![s] = UpsertStageRun(@, status)])]
          /\ Set(w, [me EXCEPT !.pc = "evaluate", !.target = x])
    /\ UNCHANGED <<env, incidents, operator, interrupted, missed>>

\* The connection fails: the transaction is rolled back and the round is over.
IngestionFails(w) ==
    /\ worker[w].pc = "record" /\ Disturb
    /\ Set(w, Idle)
    /\ UNCHANGED <<source, maintenance, executions, index, events, incidents, operator, aux>>

-----------------------------------------------------------------------------
\* The alert rules: failed stages, and stages that run longer than expected.
Fires(rows, t, late) ==
    \/ \E s \in With(rows, "FAILED") : RuleOf[s] = t
    \/ t = "PIPELINE_STUCK" /\ late /\ \E s \in With(rows, "RUNNING") : rows[s].started

\* evaluateAlertsForExecution reads the execution, its stage runs, the SLA
\* verdict and the maintenance windows.
Evaluate(w) ==
    LET me == worker[w]  execution == executions[me.target] IN
    /\ me.pc = "evaluate"
    /\ \E late, breached \in BOOLEAN :
         LET fire    == SelectSeq(Rules, LAMBDA t : Fires(execution.rows, t, late))
             recover == execution.status = "SUCCEEDED" /\ ~breached IN
         IF fire = <<>> /\ ~recover THEN Done(w)
         ELSE /\ Set(w, [me EXCEPT !.pc = "fire", !.quiet = maintenance, !.fire = fire, !.recover = recover])
             
    /\ UNCHANGED <<env, executions, index, events, incidents, operator, aux>>

AlertAt(key) == executions[key[1]].alerts[key[2]]
Alerts == {k \in (DOMAIN executions) \X Range(Rules) : AlertAt(k).state # None}
SetAlert(key, state) == executions' = [executions EXCEPT ![key[1]].alerts[key[2]].state = state]

\* upsertAlert: a resolved alert reopens, a suppressed one too once nothing
\* suppresses it, any other keeps its state.
Fired(state, suppressed) ==
    CASE state \in {None, "RESOLVED"} -> IF suppressed THEN "SUPPRESSED" ELSE "OPEN"
      [] state = "SUPPRESSED" /\ ~suppressed -> "OPEN"
      [] OTHER -> state

NextRule(me) == [me EXCEPT !.pc = "fire", !.fire = Tail(@), !.incident = 0]
Fire(w) ==
    LET me == worker[w] IN
    /\ me.pc = "fire" /\ me.fire # <<>>
    /\ SetAlert(Key(w), Fired(AlertAt(Key(w)).state, me.quiet))
    /\ Set(w, IF me.quiet \/ AlertAt(Key(w)).incident # 0 THEN NextRule(me) ELSE [me EXCEPT !.pc = "correlate"])
    /\ UNCHANGED <<env, index, events, incidents, operator, aux>>

\* listRecentAlertsForScope and findIncidentToJoin: any alert may have left
\* the window.
IncidentsToJoin == {AlertAt(k).incident : k \in Alerts} \ {0}
NewIncident == [state |-> "OPEN", alerts |-> {}]

\* correlateIntoIncident: join an incident, or start one for a critical alert.
JoinIncident(w) ==
    LET me == worker[w] IN
    /\ me.pc = "correlate"
    /\ \/ /\ \E i \in IncidentsToJoin : Set(w, [me EXCEPT !.pc = "link", !.incident = i])
          /\ UNCHANGED incidents
       \/ /\ WindowPassed(IncidentsToJoin, incidents) /\ Head(me.fire) \in Critical
          /\ incidents' = Append(incidents, NewIncident)
          /\ Set(w, [me EXCEPT !.pc = "link", !.incident = Len(incidents) + 1])
       \/ /\ WindowPassed(IncidentsToJoin, incidents) /\ Head(me.fire) \notin Critical
          /\ Set(w, NextRule(me)) /\ UNCHANGED incidents
    /\ UNCHANGED <<env, executions, index, events, operator, aux>>

\* linkAlert, then linkAlertToIncident: two tables, two statements.
LinkAlert(w) ==
    LET me == worker[w] IN
    /\ me.pc = "link"
    /\ incidents' = [incidents EXCEPT ![me.incident].alerts = @ \cup {Key(w)}]
    /\ missed' = IF AlertAt(Key(w)).state = "RESOLVED" THEN missed \cup {me.incident} ELSE missed
    /\ Set(w, [me EXCEPT !.pc = "mark"])
    /\ UNCHANGED <<env, executions, index, events, operator, overtaken, interrupted>>

LinkAlertToIncident(w) ==
    LET me == worker[w] IN
    /\ me.pc = "mark"
    /\ executions' = [executions EXCEPT ![Key(w)[1]].alerts[Key(w)[2]].incident = me.incident]
    /\ Set(w, NextRule(me))
    /\ UNCHANGED <<env, index, events, incidents, operator, aux>>

MutantRecovered(x) == LET open == {k \in Alerts : AlertAt(k).state \in {"OPEN", "ACKNOWLEDGED"}} IN
                {<<k, AlertAt(k).incident>> : k \in open}

\* autoResolveOnRecovery: the open alerts of all other executions, as listed.
Recovered(x) == LET open == {k \in Alerts : k[1] # x /\ AlertAt(k).state \in {"OPEN", "ACKNOWLEDGED"}} IN
                {<<k, AlertAt(k).incident>> : k \in open}

Recover(w) ==
    LET me == worker[w]  found == IF me.recover THEN Recovered(me.target) ELSE {} IN
    /\ me.pc = "fire" /\ me.fire = <<>>
    /\ IF found = {} THEN Done(w) ELSE Set(w, [me EXCEPT !.pc = "resolve", !.resolve = found])
    /\ UNCHANGED <<env, executions, index, events, incidents, operator, aux>>

\* resolveAlert by somebody who knows of one incident of the alert, or of none.
LinkedTo(key) == {i \in DOMAIN incidents : key \in incidents[i].alerts}
ResolveAlert(key, known) == SetAlert(key, "RESOLVED") /\ missed' = missed \cup (LinkedTo(key) \ {known})

AutoResolve(w) ==
    LET me == worker[w] IN
    /\ me.pc = "resolve"
    /\ \E r \in me.resolve :
         /\ ResolveAlert(r[1], r[2])
         /\ Set(w, [me EXCEPT !.resolve = @ \ {r}, !.incident = r[2], !.pc = IF r[2] # 0 THEN "close" ELSE "resolve"])
    /\ UNCHANGED <<env, index, events, incidents, operator, overtaken, interrupted>>

EndEvaluation(w) ==
    /\ worker[w].pc = "resolve" /\ worker[w].resolve = {}
    /\ Done(w)
    /\ UNCHANGED <<env, executions, index, events, incidents, operator, aux>>

AllResolved(i) == \A key \in incidents[i].alerts : AlertAt(key).state = "RESOLVED"

\* resolveIncidentIfAllAlertsResolved, one statement.
Closed(i) == IF AllResolved(i) THEN [incidents EXCEPT ![i].state = "RESOLVED"] ELSE incidents

CloseIncident(w) ==
    /\ worker[w].pc = "close"
    /\ incidents' = Closed(worker[w].incident)
    /\ Set(w, [worker[w] EXCEPT !.pc = "resolve", !.incident = 0])
    /\ UNCHANGED <<env, executions, index, events, operator, aux>>

-----------------------------------------------------------------------------
\* The endpoints for operators, and maintenance windows.
OperatorCall == operator = 0 /\ Disturb
Acknowledge(key) ==
    /\ OperatorCall /\ SetAlert(key, "ACKNOWLEDGED")
    /\ UNCHANGED <<source, maintenance, index, events, incidents, worker, operator, aux>>
Suppress(key) ==
    /\ OperatorCall /\ SetAlert(key, "SUPPRESSED")
    /\ UNCHANGED <<source, maintenance, index, events, incidents, worker, operator, aux>>
ResolveByHand(key) ==
    /\ OperatorCall /\ ResolveAlert(key, AlertAt(key).incident) /\ operator' = AlertAt(key).incident
    /\ UNCHANGED <<source, maintenance, index, events, incidents, worker, overtaken, interrupted>>
CloseByHand ==
    /\ operator # 0 /\ incidents' = Closed(operator) /\ operator' = 0
    /\ UNCHANGED <<env, executions, index, events, worker, aux>>
ToggleMaintenance ==
    /\ Disturb /\ maintenance' = ~maintenance
    /\ UNCHANGED <<source, executions, index, events, incidents, worker, operator, aux>>

\* The process restarts: rounds and requests are gone.
Evaluating == {w \in Workers : worker[w].pc \in {"evaluate", "fire", "correlate", "link", "mark", "resolve", "close"}}
Restart ==
    /\ Disturb
    /\ worker' = [w \in Workers |-> Idle] /\ operator' = 0
    /\ interrupted' = interrupted \cup {worker[w].target : w \in Evaluating}
    /\ missed' = missed \cup (({operator} \cup {worker[w].incident : w \in Evaluating}) \ {0})
    /\ UNCHANGED <<source, maintenance, executions, index, events, incidents, overtaken>>

-----------------------------------------------------------------------------
Work(w) == \/ Correlate(w) \/ Record(w) \/ Evaluate(w) \/ Fire(w) \/ JoinIncident(w) \/ LinkAlert(w)
           \/ LinkAlertToIncident(w) \/ Recover(w) \/ AutoResolve(w) \/ CloseIncident(w) \/ EndEvaluation(w)
Operator == CloseByHand \/ ToggleMaintenance \/ \E key \in Alerts : Acknowledge(key) \/ Suppress(key) \/ ResolveByHand(key)
Next == \/ \E e \in Entities : Advance(e)
        \/ \E w \in Workers : (\E e \in Entities : List(w, e)) \/ Work(w) \/ IngestionFails(w)
        \/ Operator \/ Restart

Spec == Init /\ [][Next]_vars

-----------------------------------------------------------------------------
TypeOK ==
    /\ source \in [Entities -> Statuses \cup {None}]
    /\ \A x \in DOMAIN executions :
         /\ executions[x].status \in Statuses \cup {"PENDING"}
         /\ \A s \in Stages : (executions[x].rows[s]).status \in Statuses \cup {None}
         /\ \A t \in Range(Rules) : executions[x].alerts[t].incident \in 0..Len(incidents)
    /\ index \in [Identifiers -> 0..Len(executions)]
    /\ \A i \in DOMAIN incidents : incidents[i].alerts \subseteq Alerts
    /\ \A w \in Workers : worker[w].target \in 0..Len(executions) /\ worker[w].incident \in 0..Len(incidents)

\* Whatever the order in which loops record events, the status of an execution
\* is the one its stage runs as they stand give it (ingestParsedEvent).
RollupFollowsTheStages == \A x \in DOMAIN executions : executions[x] = Rollup(executions[x], executions[x].rows)

\* All events of an entity are recorded under the execution its own identifier
\* leads to, unless one was placed by a look-up that another transaction had
\* overtaken (resolveOrCreateExecution reads before it locks anything).
EventsOfAnEntityStayTogether ==
    \A v \in events : v.entity \notin overtaken => v.execution = index[Head(IdentifiersOf[v.entity])]

\* A failed stage has raised its alert, or somebody is about to raise it, or
\* a restart fell between recording the event and evaluating it: nothing
\* evaluates it again, for its events are duplicates from then on.
FailureIsAlerted ==
    \A x \in DOMAIN executions : \A s \in With(executions[x].rows, "FAILED") :
        \/ RuleOf[s] = None \/ executions[x].alerts[RuleOf[s]].state # None \/ x \in interrupted
        \/ \E w \in Workers : worker[w].target = x /\ (worker[w].pc = "evaluate" \/ RuleOf[s] \in Range(worker[w].fire))

\* An incident is not left open when its last alert is resolved, except by a
\* resolution that did not know the alert was linked to it, or a restart.
IncidentsClose ==
    \A i \in DOMAIN incidents :
        incidents[i].state = "OPEN" /\ incidents[i].alerts # {} /\ AllResolved(i) =>
            \/ i \in missed \/ operator = i
            \/ \E w \in Workers : worker[w].pc = "close" /\ worker[w].incident = i

\* Only a success closes the alerts of other executions: an alert that a loop
\* resolves belongs to an execution other than one that delivered.
OnlyRecoveryResolves ==
    [][\A k \in Alerts : AlertAt(k).state # "RESOLVED" /\ AlertAt(k)'.state = "RESOLVED" /\ worker' # worker =>
          \E v \in events : v.execution # k[1] /\ v.status = "SUCCEEDED" /\ StageOf[v.entity] \in Delivery]_vars

\* One row per execution: two scheduled runs are not put in one by an exact match.
ScheduledRunsAreApart ==
    \A d, e \in Scheduled : d # e /\ index[Head(IdentifiersOf[d])] # 0 => index[Head(IdentifiersOf[d])] # index[Head(IdentifiersOf[e])]

\* Executions, their events, alerts and incidents agree: the status follows the stages, the events of one entity
\* are under one execution, a failure has its alert and an incident ends with its last one, but for look-ups that
\* were overtaken and work a restart cut off.
OperationsAreConsistent ==
    TypeOK /\ RollupFollowsTheStages /\ EventsOfAnEntityStayTogether /\ FailureIsAlerted /\ IncidentsClose
=============================================================================
