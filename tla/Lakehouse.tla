------------------------------ MODULE Lakehouse ------------------------------
(***************************************************************************)
(* data-lakehouse with the pipeline jobs of data-exchange-service that     *)
(* drive it: ingestion of an uploaded batch into Bronze, Bronze -> Silver, *)
(* Silver -> Gold, publication.  Every operation is an HTTP request with a *)
(* run row: check for an earlier successful run, create the row, write a   *)
(* table, complete the row.  Between these steps other requests take       *)
(* theirs, the worker that asked may stop, and the run may fail or be left *)
(* unfinished.                                                             *)
(***************************************************************************)
EXTENDS Naturals, FiniteSets

CONSTANTS
    Batches,  \* uploaded exchanges, numbered in the order their jobs are queued
    Keys,     \* business keys of the Silver entity
    KeysOf,   \* the keys each batch has a record for
    Callers,  \* numbered slots of concurrent callers: workers and direct requests
    None,
    MaxExtra  \* bound on admin re-runs and direct requests

ASSUME BatchesHaveKeys == /\ Batches \subseteq Nat /\ IsFiniteSet(Batches)
                          /\ KeysOf \in [Batches -> SUBSET Keys] /\ MaxExtra \in Nat
                          /\ Callers \subseteq Nat
\* The columns and program counters a None stands in hold nothing else of that name.
ASSUME NoneIsNothing ==
    /\ None \notin Nat
    /\ None \notin {"INGEST", "SILVER", "GOLD", "PUBLISH", "PENDING", "RUNNING", "SUCCEEDED", "FAILED", "COMPLETED",
                   "loop", "admin"}

VARIABLES
    runs,     \* ingestion_runs and pipeline_runs: kind, source, status, in order of creation
    bronze,   \* the ingestion runs whose batch was appended to Bronze
    silver,   \* per key the batch its row shows and the run that wrote it
    gold,
    job,      \* exchange.pipeline_jobs: one per batch
    call,     \* per caller: operation, program counter, job and what it has read
    extra,
    interrupted, \* auxiliary: batches whose ingestion ended early after its append
    raced,       \* auxiliary: batches ingested by two callers at once
    orphaned,    \* auxiliary: batches whose job's worker stopped
    overtaken,   \* auxiliary: keys whose Gold row was written from rows Silver had lost
    disturbed    \* auxiliary: somebody other than the poll loop ran something

tables == <<runs, bronze, silver, gold>>
aux    == <<interrupted, raced, orphaned, overtaken, disturbed>>
vars   == <<tables, job, call, extra, aux>>

MaxRuns == 3 * (Cardinality(Batches) + MaxExtra)
RunIds  == 1..MaxRuns
Used    == {r \in RunIds : runs[r].kind # None}
NewRun  == 1 + Cardinality(Used)
Newest(set) == CHOOSE r \in set : \A q \in set : q <= r
Ended(status) == status \in {"COMPLETED", "FAILED"}

\* find_successful_run: a COMPLETED run of the same source.
Successful(kind, src) == {r \in Used : runs[r] = [kind |-> kind, of |-> src, status |-> "COMPLETED"]}
\* The batch a run works on.
BatchOf(r) == CASE runs[r].kind = "INGEST" -> runs[r].of
                [] runs[r].kind = "SILVER" -> runs[runs[r].of].of
                [] runs[r].kind = "GOLD" -> runs[runs[runs[r].of].of].of

Idle == [op |-> None, pc |-> "idle", job |-> None, by |-> None, src |-> None, run |-> None, rows |-> {}, force |-> FALSE]

Init ==
    /\ runs = [r \in RunIds |-> [kind |-> None, of |-> None, status |-> None]]
    /\ bronze = {}
    /\ silver = [k \in Keys |-> [batch |-> 0, run |-> None]]
    /\ gold = [k \in Keys |-> [batch |-> 0, run |-> None]]
    /\ job = [b \in Batches |-> None]
    /\ call = [c \in Callers |-> Idle]
    /\ extra = 0
    /\ interrupted = {} /\ raced = {} /\ orphaned = {} /\ overtaken = {} /\ disturbed = FALSE

\* Callers are interchangeable: the first slot that is free is taken.
Free(c)          == call[c] = Idle /\ \A d \in Callers : d < c => call[d] # Idle
At(c, op, point) == call[c].op = op /\ call[c].pc = point
Goto(c, point)   == call' = [call EXCEPT ![c].pc = point]
Ends(c)          == call' = [call EXCEPT ![c] = Idle]
SetJob(b, status) == job' = IF b = None THEN job ELSE [job EXCEPT ![b] = status]
Owned(b) == \E c \in Callers : call[c].job = b

--------------------------------------------------------------------------
(* Pipeline jobs: queue and worker *)

\* enqueuePipelineJob
Enqueue(b) ==
    /\ job[b] = None /\ \A a \in Batches : a < b => job[a] # None
    /\ SetJob(b, "PENDING")
    /\ UNCHANGED <<tables, call, extra, aux>>

\* Mutant: the youngest job first.
MutantNextPending == Newest({b \in Batches : job[b] = "PENDING"})

\* claimNextPendingJob: the oldest PENDING job.
NextPending == CHOOSE b \in Batches : job[b] = "PENDING" /\ \A a \in Batches : job[a] = "PENDING" => b <= a

Runs(c, b, who) == call' = [call EXCEPT ![c] = [Idle EXCEPT !.op = "INGEST", !.pc = "check", !.job = b, !.by = who, !.src = b]]

\* The poll loop claims one job at a time (inFlight).
Claim(c) ==
    /\ Free(c)
    /\ \E b \in Batches : job[b] = "PENDING"
    /\ \A d \in Callers : call[d].by # "loop"
    /\ SetJob(NextPending, "RUNNING")
    /\ Runs(c, NextPending, "loop")
    /\ disturbed' = (disturbed \/ \E d \in Callers : call[d] # Idle)
    /\ UNCHANGED <<tables, extra, interrupted, raced, orphaned, overtaken>>

\* requeueAndClaimJob takes every job that is not RUNNING.
Claimable(b) == job[b] \in {"PENDING", "FAILED", "SUCCEEDED"}

\* runPipelineJobNow: an administrator runs or re-runs a job.
RunNow(c, b) ==
    /\ Free(c) /\ Claimable(b) /\ extra < MaxExtra
    /\ extra' = extra + 1 /\ disturbed' = TRUE
    /\ SetJob(b, "RUNNING")
    /\ Runs(c, b, "admin")
    /\ UNCHANGED <<tables, interrupted, raced, orphaned, overtaken>>

\* A request that comes straight to the lakehouse, for any source an administrator names.
Trigger(c, op, src, force) ==
    /\ Free(c) /\ extra < MaxExtra
    /\ extra' = extra + 1 /\ disturbed' = TRUE
    /\ call' = [call EXCEPT ![c] = [Idle EXCEPT !.op = op, !.pc = "check", !.src = src, !.force = force]]
    /\ UNCHANGED <<tables, job, interrupted, raced, orphaned, overtaken>>

NextOp == [INGEST |-> "SILVER", SILVER |-> "GOLD", GOLD |-> "PUBLISH"]

\* A request answered with a successful run: runClaimedJob asks for the next stage.
Answer(c, r) ==
    IF call[c].job = None THEN Ends(c)
    ELSE call' = [call EXCEPT ![c].op = NextOp[call[c].op], ![c].pc = "check", ![c].src = r,
                              ![c].run = None, ![c].rows = {}]

\* A request answered with a failure, or an exception: the job is FAILED.
Failed(c) == Ends(c) /\ SetJob(call[c].job, "FAILED")

\* PUBLISH: data-publication-service answers READY, or does not.
Publish(c) ==
    /\ At(c, "PUBLISH", "check")
    /\ \/ Ends(c) /\ SetJob(call[c].job, "SUCCEEDED")
       \/ Failed(c)
    /\ UNCHANGED <<tables, extra, aux>>

\* data-exchange-service stops: its jobs stay RUNNING, the lakehouse finishes what it was asked.
WorkerStops ==
    /\ \E c \in Callers : call[c].job # None
    /\ call' = [c \in Callers |-> IF call[c].job = None THEN call[c]
                                  ELSE IF call[c].op = "PUBLISH" THEN Idle
                                  ELSE [call[c] EXCEPT !.job = None, !.by = None]]
    /\ orphaned' = orphaned \cup {b \in Batches : Owned(b)}
    /\ disturbed' = TRUE
    /\ UNCHANGED <<tables, job, extra, interrupted, raced, overtaken>>

--------------------------------------------------------------------------
(* Lakehouse requests *)

Create(c, kind) ==
    /\ runs' = [runs EXCEPT ![NewRun] = [kind |-> kind, of |-> call[c].src, status |-> "RUNNING"]]
    /\ call' = [call EXCEPT ![c].pc = IF kind = "GOLD" THEN "read" ELSE "write", ![c].run = NewRun]
    /\ UNCHANGED <<bronze, silver, gold, job, extra, aux>>

\* idempotency.py: the successful ingestions of an exchange.
Ingested(b) == Successful("INGEST", b)

CheckIngestion(c) ==
    /\ At(c, "INGEST", "check")
    /\ IF Ingested(call[c].src) # {} THEN Answer(c, Newest(Ingested(call[c].src))) ELSE Goto(c, "create")
    /\ raced' = IF \E d \in Callers \ {c} : call[d].op = "INGEST" /\ call[d].src = call[c].src
                THEN raced \cup {call[c].src} ELSE raced
    /\ UNCHANGED <<tables, job, extra, interrupted, orphaned, overtaken, disturbed>>

CreateIngestion(c) == At(c, "INGEST", "create") /\ Create(c, "INGEST")

\* write_bronze appends whatever the table already holds.
WriteBronze(c) ==
    /\ At(c, "INGEST", "write")
    /\ bronze' = bronze \cup {call[c].run}
    /\ Goto(c, "complete")
    /\ UNCHANGED <<runs, silver, gold, job, extra, aux>>

\* resolve_bronze_ready, resolve_silver_ready
Ready(kind, r) == runs[r].kind = kind /\ runs[r].status = "COMPLETED"

\* Mutant: any COMPLETED run of the pipeline makes this one a duplicate.
MutantDuplicates(c) == {r \in Used : runs[r].kind = call[c].op /\ runs[r].status = "COMPLETED"}

\* check_pipeline_idempotency; reprocess bypasses it.
Duplicates(c) == IF call[c].force THEN {} ELSE Successful(call[c].op, call[c].src)

SourceKind == [SILVER |-> "INGEST", GOLD |-> "SILVER"]

CheckPipeline(c) ==
    /\ call[c].op \in {"SILVER", "GOLD"} /\ call[c].pc = "check"
    /\ IF ~Ready(SourceKind[call[c].op], call[c].src) THEN Failed(c)
       ELSE UNCHANGED job /\ IF Duplicates(c) # {} THEN Answer(c, Newest(Duplicates(c))) ELSE Goto(c, "create")
    /\ UNCHANGED <<tables, extra, aux>>

CreatePipelineRun(c) ==
    /\ call[c].op \in {"SILVER", "GOLD"} /\ call[c].pc = "create"
    /\ Create(c, call[c].op)

\* The rows of one ingestion never change, so they are read where they are used;
\* the upsert makes the rows of the batch's keys this run's.
WriteSilver(c) ==
    /\ At(c, "SILVER", "write")
    /\ LET b == BatchOf(call[c].src) IN
       silver' = [k \in Keys |-> IF call[c].src \in bronze /\ k \in KeysOf[b] THEN [batch |-> b, run |-> call[c].run]
                                 ELSE silver[k]]
    /\ Goto(c, "complete")
    /\ UNCHANGED <<runs, bronze, gold, job, extra, aux>>

\* read_silver_pipeline_run_scoped: the rows that still bear the run.
ReadSilver(c) ==
    /\ At(c, "GOLD", "read")
    /\ call' = [call EXCEPT ![c].pc = "write", ![c].rows = {k \in Keys : silver[k].run = call[c].src}]
    /\ UNCHANGED <<tables, job, extra, aux>>

WriteGold(c) ==
    /\ At(c, "GOLD", "write")
    /\ gold' = [k \in Keys |-> IF k \in call[c].rows THEN [batch |-> BatchOf(call[c].src), run |-> call[c].run] ELSE gold[k]]
    /\ overtaken' = (overtaken \ call[c].rows) \cup {k \in call[c].rows : silver[k].run # call[c].src}
    /\ Goto(c, "complete")
    /\ UNCHANGED <<runs, bronze, silver, job, extra, interrupted, raced, orphaned, disturbed>>

Early(c) == IF At(c, "INGEST", "complete") THEN interrupted \cup {call[c].src} ELSE interrupted

\* mark_completed
Complete(c) ==
    /\ call[c].pc = "complete"
    /\ runs' = [runs EXCEPT ![call[c].run].status = "COMPLETED"]
    /\ Answer(c, call[c].run)
    /\ UNCHANGED <<bronze, silver, gold, job, extra, aux>>

\* A LakehouseError anywhere between: mark_failed.
Fail(c) ==
    /\ call[c].run # None
    /\ runs' = [runs EXCEPT ![call[c].run].status = "FAILED"]
    /\ Failed(c)
    /\ interrupted' = Early(c)
    /\ UNCHANGED <<bronze, silver, gold, extra, raced, orphaned, overtaken, disturbed>>

\* Mutant: an exception in the chain ends the job without a mark.
MutantBreak(c) == Ends(c) /\ UNCHANGED job

Break(c) == Failed(c)

\* Any other exception, or the lakehouse stops: the run stays as it is, the caller gets an error.
Breaks(c) ==
    /\ call[c].op \notin {None, "PUBLISH"}
    /\ Break(c)
    /\ interrupted' = Early(c)
    /\ UNCHANGED <<tables, extra, raced, orphaned, overtaken, disturbed>>

Ingestion(c) == CheckIngestion(c) \/ CreateIngestion(c) \/ WriteBronze(c)
BronzeToSilver(c) == call[c].op = "SILVER" /\ (CheckPipeline(c) \/ CreatePipelineRun(c) \/ WriteSilver(c))
SilverToGold(c) == call[c].op = "GOLD" /\ (CheckPipeline(c) \/ CreatePipelineRun(c) \/ ReadSilver(c) \/ WriteGold(c))
Step(c) == Ingestion(c) \/ BronzeToSilver(c) \/ SilverToGold(c) \/ Complete(c) \/ Publish(c)

Next ==
    \/ \E b \in Batches : Enqueue(b)
    \/ \E c \in Callers :
        \/ Claim(c) \/ Step(c) \/ Fail(c) \/ Breaks(c)
        \/ \E b \in Batches : RunNow(c, b) \/ (job[b] # None /\ Trigger(c, "INGEST", b, FALSE))
        \/ \E r \in Used, force \in BOOLEAN, op \in {"SILVER", "GOLD"} :
            runs[r].kind = SourceKind[op] /\ Trigger(c, op, r, force)
    \/ WorkerStops

Spec == Init /\ [][Next]_vars
\* Requests of both services run to their end and the poll loop keeps polling.
FairSpec == Spec /\ WF_vars(\E c \in Callers : Claim(c)) /\ \A c \in Callers : WF_vars(Step(c))

--------------------------------------------------------------------------
(* Reconciliation: what the two reports would list *)

Stuck == {r \in Used : ~Ended(runs[r].status)}
Followed(kind, r) == \E q \in Used : runs[q].kind = kind /\ runs[q].of = r

FindBronzeWithoutSilver == {r \in Used : Ready("INGEST", r) /\ ~Followed("SILVER", r)}

\* Mutant: one Gold run anywhere is enough.
MutantFindSilverWithoutGold == {r \in Used : Ready("SILVER", r) /\ ~\E q \in Used : runs[q].kind = "GOLD"}

FindSilverWithoutGold == {r \in Used : Ready("SILVER", r) /\ ~Followed("GOLD", r)}

Clean == Stuck = {} /\ FindBronzeWithoutSilver = {} /\ FindSilverWithoutGold = {}

--------------------------------------------------------------------------
(* Properties *)

\* Types of the tables, the queue and the callers; a run belongs to the operation that made it.
TypeOK ==
    /\ runs \in [RunIds -> [kind : {None, "INGEST", "SILVER", "GOLD"}, of : {None} \cup Batches \cup RunIds,
                            status : {None, "RUNNING", "COMPLETED", "FAILED"}]]
    /\ bronze \subseteq RunIds
    /\ \A table \in {silver, gold} : table \in [Keys -> [batch : Batches \cup {0}, run : RunIds \cup {None}]]
    /\ job \in [Batches -> {None, "PENDING", "RUNNING", "SUCCEEDED", "FAILED"}]
    /\ \A c \in Callers : /\ call[c].job \in Batches \cup {None} /\ call[c].rows \subseteq Keys
                         /\ call[c].run # None => runs[call[c].run].kind = call[c].op

\* A batch stands in Bronze twice only if an ingestion of it ended early after its append or two
\* callers ingested it at once: the check for a successful run misses nothing else.
BronzeHoldsABatchOnce ==
    \A q, r \in bronze : q # r /\ runs[q].of = runs[r].of => runs[q].of \in interrupted \cup raced

\* Silver shows only ingestions that completed and Gold only Silver runs that did, although a
\* run's rows are in the table before the run is complete and any run id can be asked for.
OnlyCompletedRunsAreFollowed ==
    /\ \A k \in Keys : silver[k].run # None => runs[runs[silver[k].run].of].status = "COMPLETED"
    /\ \A k \in Keys : gold[k].run # None => runs[runs[gold[k].run].of].status = "COMPLETED"

\* Two workers never run the same job, whoever claimed it.
OneWorkerPerJob ==
    \A c, d \in Callers : c # d /\ call[c].job # None => call[c].job # call[d].job

\* A job that succeeded left a completed chain of runs from its batch to Gold, re-runs and
\* duplicates included.
SucceededJobHasItsChain ==
    \A b \in Batches : job[b] = "SUCCEEDED" =>
        \E g \in Used : runs[g].kind = "GOLD" /\ runs[g].status = "COMPLETED" /\ BatchOf(g) = b

\* When nothing runs, reconciliation reports nothing and no run failed, Gold shows what Silver
\* shows and misses no key of an ingested batch, but for keys whose Gold row came from a Silver run that had lost them when it was written.
CleanMeansCaughtUp ==
    (\A c \in Callers : call[c] = Idle) /\ Clean /\ (\A r \in Used : runs[r].status = "COMPLETED") =>
        /\ \A k \in Keys : gold[k].batch = silver[k].batch \/ k \in overtaken
        /\ \A q \in Used : runs[q].kind = "INGEST" => \A k \in KeysOf[runs[q].of] : gold[k].run # None

\* While only the poll loop runs jobs, a key never goes back to an older batch.
SilverFollowsTheQueue ==
    [][disturbed' \/ \A k \in Keys : silver'[k].batch >= silver[k].batch]_vars

\* Once no new request comes, no job is left queued or running, unless the worker stopped while
\* it ran it: nothing takes up a RUNNING job again.
JobsSettle ==
    <>[](\A b \in Batches : job[b] \in {"PENDING", "RUNNING"} => b \in orphaned)

\* pipeline-job.service.ts, pipeline_runner.py: a job has one worker at a time and succeeds with a completed chain of runs
\* behind it, the layers show completed runs only, and Bronze holds a batch twice only if its ingestion ended early
\* or raced another.
RunsFollowRuns ==
    /\ TypeOK /\ BronzeHoldsABatchOnce /\ OnlyCompletedRunsAreFollowed /\ OneWorkerPerJob
    /\ SucceededJobHasItsChain
=============================================================================
