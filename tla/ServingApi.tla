----------------------------- MODULE ServingApi -----------------------------
(***************************************************************************)
(* serving-projection-service and data-product-api-service: Gold rows are  *)
(* copied to the serving table by FULL refreshes, which replace it, and    *)
(* INCREMENTAL ones, which upsert what is stamped after a checkpoint; the  *)
(* customer API pages through that table with signed cursors and answers   *)
(* conditional requests.  Gold runs stamp their rows before they commit    *)
(* them, refreshes overlap, and the table changes between two pages.       *)
(***************************************************************************)
EXTENDS Naturals, FiniteSets

CONSTANTS
    Events,       \* event ids, numbered in their sort order
    Dates,        \* event dates, numbered
    Writers,      \* concurrent Silver -> Gold runs
    Refreshers,   \* concurrent projection runs
    Clients,      \* API customers of one tenant
    PageSize,
    Nil,
    LastVersion,  \* product versions 1..LastVersion, served in this order
    MaxStamp,     \* bound on the Gold runs
    MaxRefreshes  \* bound on the projection runs

ASSUME ServingBounds ==
    /\ Events \subseteq Nat /\ IsFiniteSet(Events) /\ Dates \subseteq Nat /\ IsFiniteSet(Writers) /\ PageSize \in Nat \ {0}
    /\ LastVersion \in Nat \ {0} /\ MaxStamp \in Nat /\ MaxRefreshes \in Nat
    /\ Nil \notin 0..MaxStamp /\ \A d \in Dates, e \in Events : Nil # [date |-> d, event |-> e]

VARIABLES
    gold,       \* per event: date, _updated_at; absent with stamp 0
    snapshot,   \* the current Gold snapshot
    clock,      \* the last _updated_at given out
    newest,     \* the newest _updated_at ever committed
    writer,     \* per Gold run: its stamp and the rows it is about to commit
    live,       \* event_performance_events: per event date, stamp, serving_snapshot_id
    checkpoint, \* the checkpoint of the projection run that succeeded last, or Nil
    refresh,    \* per projection run: type, what it started from and what it has read
    refreshes,
    version,    \* the product version the subscription resolves to
    entitled,   \* evaluateEntitlement answers ALLOW
    client,     \* per customer: request, cursor, what was received
    kept,       \* per customer: the page it keeps, the answer of its conditional request
    late,       \* auxiliary: events committed to Gold with a stamp older than one already there
    served      \* auxiliary: per event, the newest stamp it was served with

projection == <<gold, snapshot, clock, newest, writer, checkpoint, refresh, refreshes, late>>
servingVars == <<projection, live, version, entitled, client, kept, served>>

Row     == [date : Dates \cup {0}, stamp : 0..MaxStamp, snapshot : 0..MaxStamp]
Absent  == [date |-> 0, stamp |-> 0, snapshot |-> 0]
Present == {e \in Events : live[e].stamp > 0}
Largest(set) == CHOOSE x \in set : \A y \in set : y <= x

NoRequest == [pc |-> "idle", version |-> Nil]
NoScan    == [cursor |-> Nil, bound |-> Nil, got |-> {}, repeated |-> {}, stable |-> {}, versions |-> {}]
ServingInit ==
    /\ gold = [e \in Events |-> Absent] /\ snapshot = 0 /\ clock = 0 /\ newest = 0
    /\ writer = [w \in Writers |-> [stamp |-> 0, rows |-> {}, date |-> 0]]
    /\ live = [e \in Events |-> Absent] /\ checkpoint = Nil
    /\ refresh = [r \in Refreshers |-> [type |-> Nil, pc |-> "idle", since |-> 0, read |-> {}, rows |-> gold,
                                     snapshot |-> 0, behind |-> {}, overtaken |-> FALSE]]
    /\ refreshes = 0 /\ version = 1 /\ entitled = TRUE
    /\ client = [c \in Clients |-> [request |-> NoRequest, scan |-> NoScan, done |-> FALSE]]
    /\ kept = [c \in Clients |-> [saved |-> Nil, answer |-> Nil, honest |-> TRUE]]
    /\ late = {} /\ served = [e \in Events |-> 0]

--------------------------------------------------------------------------
(* Silver -> Gold runs, as far as the projection sees them *)

\* A run takes its time before it writes.
Stamp(w) ==
    /\ writer[w].stamp = 0 /\ clock < MaxStamp
    /\ clock' = clock + 1
    /\ \E rows \in (SUBSET Events) \ {{}}, date \in Dates :
        writer' = [writer EXCEPT ![w] = [stamp |-> clock', rows |-> rows, date |-> date]]
    /\ UNCHANGED <<gold, snapshot, newest, checkpoint, refresh, refreshes, late, live, version, entitled, client, kept, served>>

Commit(w) ==
    /\ writer[w].stamp > 0
    /\ gold' = [e \in Events |-> IF e \in writer[w].rows
                  THEN [date |-> writer[w].date, stamp |-> writer[w].stamp, snapshot |-> 0] ELSE gold[e]]
    /\ snapshot' = snapshot + 1
    /\ late' = IF writer[w].stamp < newest THEN late \cup writer[w].rows ELSE late \ writer[w].rows
    /\ newest' = Largest({newest, writer[w].stamp})
    /\ writer' = [writer EXCEPT ![w] = [stamp |-> 0, rows |-> {}, date |-> 0]]
    /\ UNCHANGED <<clock, checkpoint, refresh, refreshes, live, version, entitled, client, kept, served>>

--------------------------------------------------------------------------
(* Projection runs *)

\* An INCREMENTAL run needs the checkpoint of an earlier success.
StartRun(r, type) ==
    /\ refresh[r].pc = "idle" /\ refreshes < MaxRefreshes
    /\ type = "INCREMENTAL" => checkpoint # Nil
    /\ refreshes' = refreshes + 1
    /\ refresh' = [refresh EXCEPT ![r].type = type, ![r].pc = "read",
                                  ![r].since = IF type = "FULL" THEN 0 ELSE checkpoint]
    /\ UNCHANGED <<gold, snapshot, clock, newest, writer, checkpoint, late, live, version, entitled, client, kept, served>>

\* read_full, read_incremental: rows stamped after the checkpoint, at one snapshot.
ReadGold(r) ==
    /\ refresh[r].pc = "read"
    /\ snapshot > 0
    /\ refresh' = [refresh EXCEPT ![r].pc = "write", ![r].rows = gold, ![r].snapshot = snapshot,
                                  ![r].read = {e \in Events : gold[e].stamp > refresh[r].since}, ![r].behind = late]
    /\ UNCHANGED <<gold, snapshot, clock, newest, writer, checkpoint, refreshes, late, live, version, entitled, client, kept, served>>

\* _to_serving_row
ServingRow(r, e) == [refresh[r].rows[e] EXCEPT !.snapshot = refresh[r].snapshot]

\* Mutant: the checkpoint is the time of the run instead of that of its newest row.
MutantMaxUpdatedAt(r) == clock

\* _max_updated_at
MaxUpdatedAt(r) == Largest({refresh[r].rows[e].stamp : e \in refresh[r].read} \cup {refresh[r].since})

\* A scan in progress: the events whose place in the order has not changed since it began.
Moved(e, new) == new[e].date # live[e].date \/ (new[e].stamp = 0) # (live[e].stamp = 0)
Watch(new) == client' = [c \in Clients |-> [client[c] EXCEPT !.scan.stable = {e \in @ : ~Moved(e, new)}]]

\* Mutant: a refresh that finds nothing new still replaces the table.
MutantReplaced(r) == [e \in Events |-> IF e \in refresh[r].read THEN ServingRow(r, e) ELSE Absent]

\* swap_staging_into_live replaces the table, upsert_live adds to it.
Replaced(r) == [e \in Events |-> IF e \in refresh[r].read THEN ServingRow(r, e)
                                 ELSE IF refresh[r].type = "FULL" THEN Absent ELSE live[e]]

Idle(r) == [refresh EXCEPT ![r].type = Nil, ![r].pc = "idle", ![r].since = 0, ![r].read = {},
                           ![r].rows = [e \in Events |-> Absent], ![r].snapshot = 0,
                           ![r].behind = {}, ![r].overtaken = FALSE]

\* Table, run row and checkpoint in one transaction.
Publish(r) ==
    /\ refresh[r].pc = "write"
    /\ live' = Replaced(r)
    /\ checkpoint' = MaxUpdatedAt(r)
    /\ served' = [e \in Events |-> Largest({served[e], live'[e].stamp})]
    /\ refresh' = [q \in Refreshers |-> IF q # r /\ refresh[q].pc = "write"
                                        THEN [refresh[q] EXCEPT !.overtaken = TRUE] ELSE Idle(r)[q]]
    /\ Watch(live')
    /\ UNCHANGED <<gold, snapshot, clock, newest, writer, refreshes, late, version, entitled, kept>>

\* The transaction rolls back; fail_run.
FailRun(r) ==
    /\ refresh[r].pc # "idle"
    /\ refresh' = Idle(r)
    /\ UNCHANGED <<gold, snapshot, clock, newest, writer, checkpoint, refreshes, late, live, version, entitled, client, kept, served>>

--------------------------------------------------------------------------
(* The customer API *)

unchangedProjection == UNCHANGED <<projection, live, served>>

\* The catalog and subscription-service move on.
Upgrade == version < LastVersion /\ version' = version + 1 /\ unchangedProjection /\ UNCHANGED <<entitled, client, kept>>
Revoke  == entitled /\ entitled' = FALSE /\ unchangedProjection /\ UNCHANGED <<version, client, kept>>

\* requireEntitledAndSubscribed
Ask(c) ==
    /\ client[c].request.pc = "idle" /\ ~client[c].done
    /\ entitled
    /\ client' = [client EXCEPT ![c].request.pc = "resolve"]
    /\ unchangedProjection /\ UNCHANGED <<version, entitled, kept>>

\* The subscription's resolved version and its contract.
ResolveVersion(c) ==
    /\ client[c].request.pc = "resolve"
    /\ client' = [client EXCEPT ![c].request = [pc |-> "query", version |-> version]]
    /\ unchangedProjection /\ UNCHANGED <<version, entitled, kept>>

\* Mutant: ties of the first sort column are not broken.
MutantAfter(e, cursor) == cursor = Nil \/ live[e].date > cursor.date

\* Keyset condition of the serving store: (event_date, event_id) after the cursor.
After(e, cursor) ==
    cursor = Nil \/ live[e].date > cursor.date \/ (live[e].date = cursor.date /\ e > cursor.event)

Before(d, e) == live[d].date < live[e].date \/ (live[d].date = live[e].date /\ d < e)
Matching(cursor) == {e \in Present : After(e, cursor)}
\* ORDER BY event_date, event_id LIMIT page_size
Page(cursor) == {e \in Matching(cursor) : Cardinality({d \in Matching(cursor) : Before(d, e)}) < PageSize}
Last(page)  == CHOOSE e \in page : \A d \in page \ {e} : Before(d, e)
First(page) == CHOOSE e \in page : \A d \in page \ {e} : Before(e, d)

\* parseAndValidateQuery: the cursor belongs to this version of the product.
CursorMatches(c) ==
    client[c].scan.cursor # Nil => client[c].scan.bound = client[c].request.version

\* The first page of a scan fixes which events it must deliver.
Fresh(c) == IF client[c].scan.cursor = Nil THEN [NoScan EXCEPT !.stable = Present] ELSE client[c].scan

QueryPage(c) ==
    /\ client[c].request.pc = "query" /\ CursorMatches(c)
    /\ LET scan == Fresh(c)  page == Page(scan.cursor) IN
       client' = [client EXCEPT
           ![c].request = NoRequest,
           ![c].done = (Cardinality(Matching(scan.cursor)) <= PageSize),
           ![c].scan = [cursor |-> IF page = {} THEN scan.cursor ELSE [date |-> live[Last(page)].date, event |-> Last(page)],
                        bound |-> client[c].request.version, got |-> scan.got \cup page,
                        repeated |-> scan.repeated \cup (scan.got \cap page),
                        stable |-> scan.stable, versions |-> scan.versions \cup {client[c].request.version}]]
    /\ unchangedProjection /\ UNCHANGED <<version, entitled, kept>>

\* INVALID_CURSOR, or a dependency that fails: the customer starts over.
RejectQuery(c) ==
    /\ client[c].request.pc # "idle"
    /\ client[c].request.pc = "query" => ~CursorMatches(c)
    /\ client' = [client EXCEPT ![c].request = NoRequest, ![c].scan = NoScan]
    /\ unchangedProjection /\ UNCHANGED <<version, entitled, kept>>

\* The first page with its ETag, which names the snapshot of the page's first row.
FirstPage == [rows |-> [e \in Page(Nil) |-> live[e].stamp], version |-> version,
              snapshot |-> IF Page(Nil) = {} THEN 0 ELSE live[First(Page(Nil))].snapshot]
SameEtag(a, b) == a.snapshot = b.snapshot /\ a.version = b.version

\* A GET that the customer keeps, and a conditional GET of the same page.
SavePage(c) ==
    /\ entitled /\ kept[c].saved = Nil /\ client[c].done
    /\ kept' = [kept EXCEPT ![c].saved = FirstPage]
    /\ unchangedProjection /\ UNCHANGED <<version, entitled, client>>
Revalidate(c) ==
    /\ entitled /\ kept[c].saved # Nil /\ kept[c].answer = Nil
    /\ kept' = [kept EXCEPT ![c].answer = IF SameEtag(kept[c].saved, FirstPage) THEN 304 ELSE 200,
                                ![c].honest = (kept[c].saved.rows = FirstPage.rows)]
    /\ unchangedProjection /\ UNCHANGED <<version, entitled, client>>

ServingNext ==
    \/ \E w \in Writers : Stamp(w) \/ Commit(w)
    \/ \E r \in Refreshers : ReadGold(r) \/ Publish(r) \/ FailRun(r) \/ \E type \in {"FULL", "INCREMENTAL"} : StartRun(r, type)
    \/ Upgrade \/ Revoke
    \/ \E c \in Clients : Ask(c) \/ ResolveVersion(c) \/ QueryPage(c) \/ RejectQuery(c) \/ SavePage(c) \/ Revalidate(c)

ServingSpec == ServingInit /\ [][ServingNext]_servingVars

--------------------------------------------------------------------------
(* Properties *)

\* Types; the served rows are Gold rows of some snapshot.
ServingTypeOK ==
    /\ gold \in [Events -> Row] /\ live \in [Events -> Row] /\ checkpoint \in 0..MaxStamp \cup {Nil}
    /\ snapshot <= MaxStamp /\ version \in 1..LastVersion
    /\ \A r \in Refreshers : refresh[r].read \subseteq Events /\ (refresh[r].pc = "idle" => refresh[r].read = {})
    /\ late \subseteq Events

\* A row of Gold the API does not show yet is one the next incremental refresh will read, unless
\* it was committed behind a newer stamp or a slower refresh wrote an older row over it: only these
\* need a full refresh.
LagIsRecoverable ==
    \A e \in Events : checkpoint # Nil /\ live[e].stamp # gold[e].stamp =>
        gold[e].stamp > checkpoint \/ e \in late \/ live[e].stamp < served[e]

\* Whatever refreshes do between two pages, a finished scan delivered every event that kept its
\* place in the order, once.
PagingIsComplete ==
    \A c \in Clients : client[c].done =>
        client[c].scan.stable \subseteq client[c].scan.got \ client[c].scan.repeated

\* The pages of one scan show one version of the product, whenever it was upgraded.
OneVersionPerScan == \A c \in Clients : Cardinality(client[c].scan.versions) <= 1

\* A refresh never takes a served row back or off the API, unless another one published after it
\* had read or Gold itself had gone back when it read.
MovesForward ==
    \A r \in Refreshers : refresh[r].pc = "write" /\ refresh'[r].pc = "idle" /\ ~refresh[r].overtaken =>
        \A e \in Events : live'[e].stamp >= live[e].stamp \/ e \in refresh[r].behind
RefreshesMoveForward == [][MovesForward]_servingVars

\* "any change to any of those changes the ETag": a 304 means the page is the one the customer has.
NotModifiedIsTrue == \A c \in Clients : kept[c].answer = 304 => kept[c].honest

\* What customers read is explained by what the refreshes did: a row that lags is one the next refresh reads, a
\* finished scan missed no event that kept its place, and its pages show one version.
ReadsAreConsistent == ServingTypeOK /\ LagIsRecoverable /\ PagingIsComplete /\ OneVersionPerScan
=============================================================================
