----------------------------- MODULE ServiceConsole -----------------------------
(***************************************************************************)
(* The pages of the portal that stand over other services: the admin       *)
(* console (lakehouse, pipelines, job queue, catalog) and the customer's   *)
(* subscriptions.  A page is put together from several calls; every row    *)
(* offers the operations its status allowed when it was read; a click      *)
(* blocks on the operation of the service and comes back with a flash      *)
(* message.  The services are reduced to the statuses they let an          *)
(* operation start from and to what it can answer.                         *)
(***************************************************************************)
EXTENDS Naturals, FiniteSets

CONSTANTS
    Users, Items, KindOf,   \* one browser tab per user; the kind of every item
    Shops,                  \* the sets of items that exist together
    Filters, Empty, MaxCalls \* the filters tried


VARIABLES
    there,   \* the items that exist
    on,      \* the pages whose services are configured
    status,  \* per item: what the owning service says of it
    worker,  \* items at which a service's own worker or poller is
    call,    \* per call: user, operation, item, where it is, its result, what it answered
    tab      \* per user: page, filter, rows still to be read, rows as read, flash, call waited for

consoleVars == <<there, on, status, worker, call, tab>>

PageOf == [ingestion |-> "lakehouse", run |-> "pipelines", job |-> "queue", version |-> "catalog", migration |-> "catalog",
           subscription |-> "subscriptions", execution |-> "observability",
           publication |-> "pipelines"]
Pages == {PageOf[k] : k \in DOMAIN PageOf}

\* What an instance gives the constants.
ConsoleBounds ==
    /\ MaxCalls \in Nat /\ Shops \subseteq SUBSET Items /\ KindOf \in [Items -> DOMAIN PageOf]
    /\ Empty \notin Pages \cup {"done"}

On(page)  == {i \in there : PageOf[KindOf[i]] = page}
Calls     == 1..MaxCalls
Made      == {n \in Calls : call[n].pc # "unmade"}
Doing(i)  == {n \in Calls : call[n].item = i /\ call[n].pc = "running"}

-----------------------------------------------------------------------------
(* What the services do with an operation *)

Initially == [ingestion |-> {"NONE", "COMPLETED"}, run |-> {"COMPLETED"}, job |-> {"PENDING"},
              version |-> {"DRAFT", "ACTIVE"}, migration |-> {"NONE", "PLANNED"}, subscription |-> {"NONE", "ACTIVE"},
              execution |-> {"RUNNING"}, publication |-> {"EXPORTING"}]

\* requeueAndClaimJob takes whatever is not RUNNING.
JobFrom == [run |-> {"PENDING", "FAILED", "SUCCEEDED"}]

LakehouseFrom == [ingest |-> {"NONE", "RUNNING", "FAILED", "COMPLETED"}, silver |-> {"COMPLETED"},
                  gold   |-> {"COMPLETED"}, publish |-> {"COMPLETED"}]

\* transition-rules of the catalog; activation ends at the status asked for.
VersionFrom ==
    LET Any == {"DRAFT", "BETA", "ACTIVE", "DEPRECATED", "RETIRED"}
    IN  [activate |-> {"DRAFT", "BETA"}, beta |-> {"DRAFT"}, deprecate |-> {"ACTIVE"}, rollback |-> {"DEPRECATED"},
         retire   |-> {"BETA", "DEPRECATED"}, approve |-> Any, optin |-> Any]
VersionTo == [activate |-> "ACTIVE", beta |-> "BETA", deprecate |-> "DEPRECATED", rollback |-> "ACTIVE", retire |-> "RETIRED"]

MigrationFrom == [create |-> {"NONE"}, execute |-> {"PLANNED", "IN_PROGRESS", "BLOCKED", "COMPLETED"}]

\* ManualTriggerService looks for the subscription only; an execution that is not due to it ends SKIPPED (ScheduledExecution).
ScheduleFrom == [publishNow |-> {"PENDING", "ACTIVE", "PAUSED", "SUSPENDED", "CANCELLED"}]

\* transition-rules of subscription-service; one live subscription per product.
SubscriptionFrom == [subscribe |-> {"NONE", "CANCELLED"}, pause |-> {"ACTIVE"}, resume |-> {"PENDING", "PAUSED", "SUSPENDED"},
                     cancel    |-> {"PENDING", "ACTIVE", "PAUSED", "SUSPENDED"}]
SubscriptionTo   == [subscribe |-> "ACTIVE", pause |-> "PAUSED", resume |-> "ACTIVE", cancel |-> "CANCELLED"]

From(op) ==
    CASE op \in DOMAIN JobFrom          -> JobFrom[op]
      [] op \in DOMAIN LakehouseFrom    -> LakehouseFrom[op]
      [] op \in DOMAIN VersionFrom      -> VersionFrom[op]
      [] op \in DOMAIN MigrationFrom    -> MigrationFrom[op]
      [] op \in DOMAIN ScheduleFrom     -> ScheduleFrom[op]
      [] op \in DOMAIN SubscriptionFrom -> SubscriptionFrom[op]
To(op, s) ==
    CASE op \in DOMAIN VersionTo      -> VersionTo[op]
      [] op \in DOMAIN SubscriptionTo -> SubscriptionTo[op]
      [] op = "create"                -> "PLANNED"
      [] OTHER                        -> s

\* The operations that work while the portal's request waits, and how they end.
Ends == [ingest  |-> {"COMPLETED", "FAILED"}, silver |-> {"COMPLETED", "FAILED", "SKIPPED_DUPLICATE"},
         gold    |-> {"COMPLETED", "FAILED", "SKIPPED_DUPLICATE"}, publish |-> {"READY", "FAILED", "SKIPPED_DUPLICATE"},
         run     |-> {"SUCCEEDED", "FAILED"}, execute |-> {"COMPLETED", "BLOCKED"},
         publishNow |-> {"SUCCEEDED", "FAILED", "SKIPPED"}]
Long    == DOMAIN Ends
Tracked == {"ingest", "run", "execute"}   \* those whose item shows the work
During  == [ingest |-> "RUNNING", run |-> "RUNNING", execute |-> "IN_PROGRESS"]

CallOf(u, op, i, pc, result, answer) ==
    [user |-> u, op |-> op, item |-> i, pc |-> pc, result |-> result, answer |-> answer]
Set(n, pc, result, answer) ==
    [call EXCEPT ![n] = CallOf(call[n].user, call[n].op, call[n].item, pc, result, answer)]
Refusals == {"404 or 409", "other 4xx"}
Refuse(n) == (\E code \in Refusals : call' = Set(n, "answered", "refused", code)) /\ UNCHANGED status

\* The service refuses on the status it finds, or for a reason of its own (an approval, a subscriber, an entitlement).
Judge(n) ==
    LET i == call[n].item  op == call[n].op
    IN  /\ call[n].pc = "sent"
        /\ \/ Refuse(n)
           \/ /\ status[i] \in From(op) /\ op \notin Long
              /\ status' = [status EXCEPT ![i] = To(op, @)]
              /\ call' = Set(n, "answered", "done", "done")
           \/ /\ status[i] \in From(op) /\ op \in Long \ Tracked
              /\ call' = Set(n, "running", Empty, Empty) /\ UNCHANGED status
           \* A finished ingestion or migration is answered as it is; an ingestion under way answers for itself (Lakehouse).
           \/ /\ op \in {"ingest", "execute"} /\ status[i] \in {"COMPLETED", "RUNNING"}
              /\ call' = Set(n, "answered", "SKIPPED_DUPLICATE", "SKIPPED_DUPLICATE") /\ UNCHANGED status
           \/ /\ op \in Tracked /\ status[i] \in From(op) \ (IF op = "run" THEN {} ELSE {"COMPLETED", "RUNNING"})
              /\ status' = [status EXCEPT ![i] = During[op]]
              /\ call' = Set(n, "running", Empty, Empty)
    /\ UNCHANGED <<there, on, worker, tab>>

\* The work ends; the queue's answer is the row read again.
WorkEnds(n) ==
    LET i == call[n].item  op == call[n].op
    IN  /\ call[n].pc = "running"
        /\ \E s \in Ends[op] :
              /\ status' = IF op \in Tracked THEN [status EXCEPT ![i] = s] ELSE status
              /\ call' = IF op = "run" THEN Set(n, "ran", s, Empty) ELSE Set(n, "answered", s, s)
        /\ UNCHANGED <<there, on, worker, tab>>

ReadBack(n) ==
    /\ call[n].pc = "ran"
    /\ call' = Set(n, "answered", call[n].result, status[call[n].item])
    /\ UNCHANGED <<there, on, status, worker, tab>>

\* The queue's worker and the lakehouse's poller, the events that suspend a subscription.
OwnStep(i) ==
    /\ \/ /\ i \notin worker /\ status[i] \in {"PENDING", "NONE"} /\ KindOf[i] \in {"job", "ingestion"}
          /\ status' = [status EXCEPT ![i] = "RUNNING"] /\ worker' = worker \cup {i}
       \/ /\ i \in worker
          /\ \E s \in Ends[IF KindOf[i] = "job" THEN "run" ELSE "ingest"] : status' = [status EXCEPT ![i] = s]
          /\ worker' = worker \ {i}
       \/ /\ status[i] \in Initially[KindOf[i]] /\ KindOf[i] \in {"execution", "publication"}
          /\ \E s \in Ends[IF KindOf[i] = "execution" THEN "run" ELSE "publish"] : status' = [status EXCEPT ![i] = s]
          /\ UNCHANGED worker
       \/ /\ KindOf[i] = "subscription" /\ status[i] \in {"ACTIVE", "PAUSED"}
          /\ status' = [status EXCEPT ![i] = "SUSPENDED"] /\ UNCHANGED worker
    /\ UNCHANGED <<there, on, call, tab>>

-----------------------------------------------------------------------------
(* The pages *)

NoFlash == [says |-> Empty, red |-> FALSE, of |-> 0]
NoRows  == [i \in Items |-> Empty]
TabOf(page, filter, due, rows, flash, n) ==
    [page |-> page, filter |-> filter, due |-> due, rows |-> rows, flash |-> flash, waiting |-> n]
\* A page without rows, and one whose rows are still to be read.
Bare(page, flash)            == TabOf(page, "ALL", {}, NoRows, flash, 0)
Loading(page, filter, flash) == TabOf(page, filter, On(page), NoRows, flash, 0)

ConsoleInit ==
    /\ there \in Shops
    /\ on \in {Pages} \cup {Pages \ {PageOf[KindOf[i]]} : i \in there}
    /\ \E s \in [there -> UNION {Initially[KindOf[i]] : i \in there}] :
          /\ \A i \in there : s[i] \in Initially[KindOf[i]]
          /\ status = [i \in Items |-> IF i \in there THEN s[i] ELSE Empty]
    /\ worker = {}
    /\ call = [n \in Calls |-> CallOf(Empty, Empty, Empty, "unmade", Empty, Empty)]
    /\ tab = [u \in Users |-> Bare(Empty, NoFlash)]

\* A page whose services are not configured says so and has no rows.
OpenPage(u, page) ==
    /\ \E i \in there : PageOf[KindOf[i]] = page
    /\ tab' = [tab EXCEPT ![u] = IF page \in on THEN Loading(page, "ALL", NoFlash) ELSE Bare("unavailable", NoFlash)]
    /\ UNCHANGED <<there, on, status, worker, call>>

\* What a row shows when the call for it fails, for a subscription either call; any other failure is the error page.
Fallback == [ingestion |-> {"NONE"}, subscription |-> {"NONE", "NOT_ENTITLED"}]

ShowRow(t, i, s) == TabOf(t.page, t.filter, t.due \ {i}, [t.rows EXCEPT ![i] = s], t.flash, t.waiting)

ReadRow(u, i) ==
    /\ i \in tab[u].due
    /\ tab' = [tab EXCEPT ![u] = ShowRow(@, i, status[i])]
    /\ UNCHANGED <<there, on, status, worker, call>>

RowFails(u, i) ==
    /\ i \in tab[u].due
    /\ IF KindOf[i] \in DOMAIN Fallback
       THEN \E s \in Fallback[KindOf[i]] : tab' = [tab EXCEPT ![u] = ShowRow(@, i, s)]
       ELSE tab' = [tab EXCEPT ![u] = Bare("error", NoFlash)]
    /\ UNCHANGED <<there, on, status, worker, call>>

JobActions(s) == IF s \in {"PENDING", "FAILED", "SUCCEEDED"} THEN {"run"} ELSE {}
RowActions(s) == {"ingest"} \cup (IF s = "COMPLETED" THEN {"silver"} ELSE {})
RunActions(s) == {"gold", "publish"}   \* forms that take any id
ObservabilityActions(s) == {}

VersionActions(s) ==
    CASE s = "DRAFT"      -> {"activate", "beta", "approve"}
      [] s = "BETA"       -> {"activate", "retire", "optin"}
      [] s = "ACTIVE"     -> {"deprecate"}
      [] s = "DEPRECATED" -> {"retire", "rollback"}
      [] OTHER            -> {}

MigrationActions(s) == IF s = "NONE" THEN {"create"} ELSE IF s \in {"PLANNED", "IN_PROGRESS", "BLOCKED"} THEN {"execute"} ELSE {}

SubscribeForm == {"subscribe"}

\* The schedule panel stands on every card whose schedule could be read.
PanelActions(s) == {"publishNow"}

\* A cancelled subscription is left out of the page, so its product can be subscribed to again.
CardActions(s) ==
    IF s = "NOT_ENTITLED" THEN {}
    ELSE IF s \in {"NONE", "CANCELLED"} THEN SubscribeForm
    ELSE {"cancel"} \cup PanelActions(s) \cup (IF s = "ACTIVE" THEN {"pause"} ELSE {}) \cup (IF s \in {"PAUSED", "SUSPENDED"} THEN {"resume"} ELSE {})

Offered(i, s) ==
    CASE KindOf[i] = "job"          -> JobActions(s)
      [] KindOf[i] = "ingestion"    -> RowActions(s)
      [] KindOf[i] = "run"          -> RunActions(s)
      [] KindOf[i] = "version"      -> VersionActions(s)
      [] KindOf[i] = "migration"    -> MigrationActions(s)
      [] KindOf[i] = "subscription" -> CardActions(s)
      [] KindOf[i] = "execution"    -> ObservabilityActions(s)
      [] KindOf[i] = "publication"  -> {}

Rendered(u) == tab[u].page \in Pages /\ tab[u].due = {} /\ tab[u].waiting = 0

\* The filters of the tables, the two of the pipelines page in one; a row that is filtered out has no buttons.
IngestionFilter   == {"ALL", "NONE", "RUNNING", "COMPLETED", "FAILED"}
RunFilter         == {"ALL", "COMPLETED", "FAILED"}
PublicationFilter == {"ALL", "READY", "FAILED", "SKIPPED_DUPLICATE", "EXPORTING"}
QueueFilter       == {"ALL", "PENDING", "RUNNING", "SUCCEEDED", "FAILED"}

FilterOf(page) ==
    CASE page = "lakehouse" -> IngestionFilter
      [] page = "pipelines" -> RunFilter \cup PublicationFilter
      [] page = "queue"     -> QueueFilter
      [] OTHER              -> {"ALL"}

Filter(u) ==
    /\ Rendered(u)
    /\ \E f \in FilterOf(tab[u].page) \cap Filters : tab' = [tab EXCEPT ![u].filter = f]
    /\ UNCHANGED <<there, on, status, worker, call>>

Click(u, i) ==
    LET n == Cardinality(Made) + 1
    IN  /\ Rendered(u) /\ i \in On(tab[u].page) /\ n \in Calls
        /\ tab[u].filter \in {"ALL", tab[u].rows[i]}
        /\ \E op \in Offered(i, tab[u].rows[i]) :
              call' = [call EXCEPT ![n] = CallOf(u, op, i, "sent", Empty, Empty)]
        /\ tab' = [tab EXCEPT ![u] = TabOf(@.page, @.filter, {}, @.rows, NoFlash, n)]
        /\ UNCHANGED <<there, on, status, worker>>

-----------------------------------------------------------------------------
(* The answer becomes a flash message *)

\* The operations of each client, and which refusals its caller takes for an answer; the others crash the page.
LakehouseCalls    == {"ingest", "silver", "gold"}
PublicationCalls  == {"publish"}
JobCalls          == {"run"}
CatalogCalls      == {"activate", "beta", "deprecate", "retire", "rollback", "approve", "optin", "create", "execute"}
SubscriptionCalls == {"subscribe", "pause", "resume", "cancel"}
ScheduleCalls     == {"publishNow"}

LakehouseAnswers    == {"404 or 409"}
PublicationAnswers  == {"404 or 409"}
JobAnswers          == {"404 or 409"}
CatalogAnswers      == Refusals
SubscriptionAnswers == Refusals
ScheduleAnswers     == Refusals

AnswersOf(op) ==
    CASE op \in LakehouseCalls    -> LakehouseAnswers
      [] op \in PublicationCalls  -> PublicationAnswers
      [] op \in JobCalls          -> JobAnswers
      [] op \in CatalogCalls      -> CatalogAnswers
      [] op \in SubscriptionCalls -> SubscriptionAnswers
      [] op \in ScheduleCalls     -> ScheduleAnswers

MutantStatusFlash(n) == [says |-> status[call[n].item], red |-> FALSE, of |-> n]

\* The ran* parameters of the lakehouse's actions: a status, in red when an error code came with it.
LakehouseFlash(n) ==
    LET a == call[n].answer  op == call[n].op
    IN  [says |-> IF a \in Refusals /\ op = "ingest" THEN "FAILED" ELSE a,
         red  |-> a \in Refusals \/ (a = "FAILED" /\ op \in {"ingest", "publish"}), of |-> n]

\* flashRedirect: the success message, or the message of the refusal.
CatalogFlash(n) ==
    LET ok == call[n].answer \notin Refusals IN [says |-> IF ok THEN "done" ELSE "refused", red |-> ~ok, of |-> n]

\* createSubscription, runTransition, publishNow: whatever is caught is an error, the rest is "Done."
SubscriptionFlash(n) == CatalogFlash(n)

FlashOf(n) ==
    LET op == call[n].op
    IN  IF op \in CatalogCalls THEN CatalogFlash(n)
        ELSE IF op \in SubscriptionCalls \cup ScheduleCalls THEN SubscriptionFlash(n)
        ELSE LakehouseFlash(n)

\* The ingestion table's second button and the pipelines page share an action: it ends on the pipelines page.
Landing(u) == IF call[tab[u].waiting].op = "silver" THEN "pipelines" ELSE tab[u].page

\* The table of the same page keeps its filter.
Redirect(u) ==
    LET n == tab[u].waiting
    IN  /\ n # 0 /\ call[n].pc = "answered"
        /\ tab' = [tab EXCEPT ![u] =
              IF call[n].answer \in Refusals \ AnswersOf(call[n].op) THEN Bare("crashed", [says |-> Empty, red |-> FALSE, of |-> n])
              ELSE Loading(Landing(u), IF Landing(u) = tab[u].page THEN tab[u].filter ELSE "ALL", FlashOf(n))]
        /\ UNCHANGED <<there, on, status, worker, call>>

\* A 5xx or a broken connection: caught by the subscription actions, an error page elsewhere; the operation goes on.
Broken(u) ==
    LET n == tab[u].waiting
    IN  /\ n # 0
        /\ tab' = IF call[n].op \in SubscriptionCalls \cup ScheduleCalls
                  THEN [tab EXCEPT ![u] = Loading("subscriptions", "ALL", [says |-> "refused", red |-> TRUE, of |-> 0])]
                  ELSE [tab EXCEPT ![u] = Bare("error", NoFlash)]
        /\ UNCHANGED <<there, on, status, worker, call>>

TabNext(u) ==
    \/ \E page \in Pages : OpenPage(u, page)
    \/ \E i \in there : ReadRow(u, i) \/ RowFails(u, i) \/ Click(u, i)
    \/ Filter(u) \/ Redirect(u) \/ Broken(u)
ServiceNext == (\E n \in Calls : Judge(n) \/ WorkEnds(n) \/ ReadBack(n)) \/ (\E i \in there : OwnStep(i))

ConsoleNext == ServiceNext \/ \E u \in Users : TabNext(u)
ConsoleSpec == ConsoleInit /\ [][ConsoleNext]_consoleVars

-----------------------------------------------------------------------------
(* Properties *)

\* A tab waits for a call of its own, and shows rows of its page only.
ConsoleTypeOK ==
    /\ \A u \in Users :
          /\ tab[u].waiting # 0 => call[tab[u].waiting].user = u /\ tab[u].page \in Pages
          /\ \A i \in Items : tab[u].rows[i] # Empty => i \in On(tab[u].page)
          /\ tab[u].page \in Pages => tab[u].page \in on \cup {"pipelines"}
    /\ worker \subseteq {i \in Items : status[i] = "RUNNING"}

\* runPipelineJobNow, claimNextPendingJob: whoever clicks and whatever the worker does, one of them runs a job.
OneRunner ==
    \A i \in there : KindOf[i] = "job" =>
       Cardinality(Doing(i)) + Cardinality(worker \cap {i}) = (IF status[i] = "RUNNING" THEN 1 ELSE 0)

\* The pages and the services' transition rules agree: what a row read by a call of its own offers,
\* the service lets start from that status.
OfferedCanStart ==
    \A u \in Users, i \in there :
       Rendered(u) /\ i \in On(tab[u].page) /\ tab[u].rows[i] = status[i] /\ KindOf[i] # "run" =>
          \A op \in Offered(i, status[i]) : status[i] \in From(op)

\* flashRedirect, runTransition: "done" is said to the user whose operation was carried out.
SuccessIsEarned ==
    \A u \in Users : tab[u].flash.says = "done" => call[tab[u].flash.of].user = u /\ call[tab[u].flash.of].result # "refused"

\* trigger*Action: the status shown is how the user's own operation ended; a job may have been taken up again meanwhile.
FlashIsOwnOutcome ==
    \A u \in Users : LET n == tab[u].flash.of IN
       n # 0 /\ call[n].op \in Long \ {"execute", "publishNow"} /\ tab[u].page # "crashed" =>
          \/ call[n].result = "refused" /\ tab[u].flash.red /\ tab[u].flash.says \in Refusals \cup {"FAILED"}
          \/ tab[u].flash.says = call[n].result
          \/ call[n].op = "run" /\ \E m \in Made \ {n} : call[m].item = call[n].item

\* ranErrorCode, toActionResult: what was refused is shown in red, red is nothing that was carried out without a
\* failure, and no refusal of the catalog or of a subscription crashes the page.
RedIsFailure ==
    \A u \in Users : LET n == tab[u].flash.of IN
       n # 0 => /\ call[n].result = "refused" => tab[u].flash.red \/ tab[u].page = "crashed"
                /\ tab[u].flash.red => call[n].result \in {"refused", "FAILED"}
                /\ tab[u].page = "crashed" => KindOf[call[n].item] \notin {"version", "migration", "subscription"}

\* AdminExchangeIngestionRow: "null = this exchange has never been ingested", at the moment the row is read.
NeverIngestedIsTrue ==
    [][\A u \in Users, i \in Items :
          tab[u].rows[i] = Empty /\ tab'[u].rows[i] = "NONE" /\ KindOf[i] = "ingestion" => status[i] = "NONE"]_consoleVars

\* A page never tells its user what the services did not do: a job has one runner, an offered operation may start,
\* "done" and red are said of the user's own operation and are true of how it ended.
ConsoleTellsTheTruth ==
    ConsoleTypeOK /\ OneRunner /\ OfferedCanStart /\ SuccessIsEarned /\ FlashIsOwnOutcome /\ RedIsFailure
=============================================================================
