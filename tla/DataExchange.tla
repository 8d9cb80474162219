---------------------------- MODULE DataExchange ----------------------------
(***************************************************************************)
(* data-exchange-service: the life of one exchange row, its file rows and  *)
(* its objects in storage, under concurrent requests.  The row is INBOUND  *)
(* (a customer upload) or OUTBOUND (a published artifact); the request     *)
(* handlers read a copy of the row, work on it across several awaits and   *)
(* write the status back without comparing it, so every write of a handler *)
(* is an action of its own.  A body is only what the handlers tell apart:  *)
(* it passes validation, fails it, or passes it but is too large.          *)
(***************************************************************************)
EXTENDS Naturals, FiniteSets

CONSTANTS
    Requests,    \* request handlers; each serves one request
    Absent,      \* no row, no object, no checksum
    MaxPuts,     \* bound on the PUTs made with a signed upload URL
    MaxRestarts  \* bound on the crashes of the service

VARIABLES
    row,       \* exchange.exchanges: direction, status, legal_hold, checksum of its DATA file
    files,     \* exchange.exchange_files: the roles that have a row
    store,     \* object storage: the body a DATA, MANIFEST or VALIDATION object is about
    req,       \* per handler: entry point, program counter, the status it decided on, the size
               \*   and body it read, the objects left to delete, the state of its deletion request
    notified,  \* an EXCHANGE_READY_FOR_INGESTION event was written
    over,      \* expires_at, or the time to live of a pending upload, has passed
    overlapped,\* auxiliary: two completions of the upload were under way at once
    puts, restarts

dataVars     == <<row, files, store>>
envVars      == <<over, overlapped, puts, restarts>>
exchangeVars == <<dataVars, req, notified, envVars>>

Roles    == {"DATA", "MANIFEST", "VALIDATION"}
Bodies   == {"valid", "invalid", "oversized"}
\* Mutant: a completion is taken up again after the verdict.
MutantPending == {"PENDING_UPLOAD", "UPLOADING", "VALIDATED"}
Pending       == {"PENDING_UPLOAD", "UPLOADING"}

Statuses == [INBOUND  |-> {"PENDING_UPLOAD", "UPLOADING", "RECEIVED", "VALIDATED",
                           "VALIDATION_FAILED", "FAILED", "EXPIRED"},
             OUTBOUND |-> {"PREPARING", "READY", "FAILED", "EXPIRED", "DELETED"}]
TERMINAL_STATUSES == {"VALIDATION_FAILED", "FAILED", "EXPIRED", "DELETED"}
Row == [direction : DOMAIN Statuses,
        status : {Absent} \cup UNION {Statuses[d] : d \in DOMAIN Statuses},
        hold : BOOLEAN, checksum : Bodies \cup {Absent}]

DeletionStatuses == {"IN_PROGRESS", "COMPLETED", "FAILED", "BLOCKED"}
\* What an instance gives the constants.
ExchangeConstants ==
    /\ MaxPuts \in Nat /\ MaxRestarts \in Nat
    /\ Absent \notin Bodies \cup Statuses["INBOUND"] \cup Statuses["OUTBOUND"] \cup DeletionStatuses

UploadRoutes    == {"initiateUpload", "completeUpload"}
OutboundRoutes  == {"createOutbound", "completeOutbound", "failOutbound"}
SimulatorRoutes == {"simulate"}
DownloadRoutes  == {"requestDownloadUrl"}
RetentionRoutes == {"requestDeletion", "setLegalHold"}
EntryPoints == [INBOUND  |-> UploadRoutes \cup {"reconcileOrphanExchanges"},
                OUTBOUND |-> OutboundRoutes \cup SimulatorRoutes \cup DownloadRoutes
                             \cup RetentionRoutes]
CompletionPoints == {"head", "get", "discard", "refuse", "checksum", "receive", "manifest",
                     "listManifest", "report", "listReport", "judge", "ready"}

\* validateFileContent: a structural check, it does not look at the size.
Verdict(body) == IF body = "invalid" THEN "VALIDATION_FAILED" ELSE "VALIDATED"
\* evaluateRetentionEligibility: decided on the copy of the row the handler holds.
Eligible(copy) == copy.direction = "OUTBOUND" /\ copy.status = "EXPIRED" /\ ~copy.hold

At(r, point)      == req[r].pc = point
Proceed(r, point) == req' = [req EXCEPT ![r].pc = point]
Answer(r)         == Proceed(r, "done")
Inbound           == row.direction = "INBOUND"
\* updateExchangeStatus: no condition on the status the row has by then.
SetStatus(s)  == row' = [row EXCEPT !.status = s]
Exists        == row.status # Absent
\* createExchangeFile: insert, or update the row of the same object key.
AddFile(role) == files' = files \cup {role}
PutStored(role, body) == store' = [store EXCEPT ![role] = body]

\* completeOutboundPublication: the bytes are not those whose checksum was declared.
Mismatch      == ~Inbound /\ store["DATA"] # row.checksum

Idle == [kind |-> Absent, pc |-> "idle", saw |-> Absent, size |-> Absent, body |-> Absent,
         todo |-> {}, deletion |-> Absent]

ExchangeInit ==
    /\ row \in [direction : {"INBOUND", "OUTBOUND"}, status : {Absent}, hold : {FALSE},
                checksum : {Absent}]
    /\ files = {} /\ store = [o \in Roles |-> Absent]
    /\ req = [r \in Requests |-> Idle]
    /\ notified = FALSE /\ over = FALSE /\ overlapped = FALSE
    /\ puts = 0 /\ restarts = 0

(***************************************************************************)
(* The customer, the publisher and the clock.                              *)
(***************************************************************************)
\* A request arrives.  The publisher of an OUTBOUND artifact creates, uploads and completes it
\* within its lifetime; each creation makes an exchange of its own, so one is enough.
Creating   == {"createOutbound", "simulate"}
Publishing == {"createOutbound", "completeOutbound", "failOutbound", "simulate"}
Start(r, k) ==
    /\ At(r, "idle") /\ k \in EntryPoints[row.direction]
    /\ k \in Publishing => ~over
    /\ k \in Creating => \A s \in Requests : req[s].kind \notin Creating
    /\ req' = [req EXCEPT ![r].kind = k, ![r].pc = k]
    /\ UNCHANGED <<dataVars, notified, envVars>>

\* A PUT with a signed URL.  A customer may repeat it at any time, an idempotent initiateUpload
\* signs a new URL whatever the status; the publisher uploads before it asks for completion.
PutObject(body) ==
    /\ puts < MaxPuts /\ puts' = puts + 1
    /\ "DATA" \in files
    /\ \/ Inbound
       \/ /\ body # "oversized" /\ row.status = "PREPARING" /\ ~over
          /\ \A r \in Requests : req[r].kind \notin {"completeOutbound", "simulate"}
    /\ PutStored("DATA", body)
    /\ UNCHANGED <<row, files, req, notified, over, overlapped, restarts>>

Elapse ==
    /\ ~over /\ Exists /\ over' = TRUE
    /\ Inbound \/ \A r \in Requests : req[r].kind \in Publishing => At(r, "done")
    /\ UNCHANGED <<dataVars, req, notified, overlapped, puts, restarts>>

\* The process dies: requests under way are lost, what they wrote stays.
ServerCrash ==
    /\ restarts < MaxRestarts /\ restarts' = restarts + 1
    /\ req' = [r \in Requests |-> IF At(r, "idle") THEN req[r] ELSE [req[r] EXCEPT !.pc = "done"]]
    /\ UNCHANGED <<dataVars, notified, over, overlapped, puts>>

(***************************************************************************)
(* Inbound uploads.                                                        *)
(***************************************************************************)
\* initiateUpload: look the Idempotency-Key up, then insert row, DATA file row and events in one
\* transaction.  The unique index on the key refuses the second of two concurrent inserts.
InitiateUpload(r) ==
    /\ At(r, "initiateUpload")
    /\ IF Exists THEN Answer(r) ELSE Proceed(r, "insert")
    /\ UNCHANGED <<dataVars, notified, envVars>>

InsertUpload(r) ==
    /\ At(r, "insert") /\ Answer(r)
    /\ IF Exists THEN UNCHANGED <<row, files>>
       ELSE SetStatus("PENDING_UPLOAD") /\ files' = {"DATA"}
    /\ UNCHANGED <<store, notified, envVars>>

\* completeUpload: once the exchange has left PENDING_UPLOAD it only reports the status.
CompleteUpload(r) ==
    /\ At(r, "completeUpload")
    /\ IF row.status \in Pending
       THEN /\ Proceed(r, "head")
            /\ overlapped' = (overlapped \/ \E s \in Requests : req[s].pc \in CompletionPoints)
       ELSE Answer(r) /\ UNCHANGED overlapped
    /\ UNCHANGED <<dataVars, notified, over, puts, restarts>>

\* Both completions look the object up, then read it: two calls to storage.
HeadObject(r) ==
    /\ At(r, "head")
    /\ req' = [req EXCEPT ![r].pc = IF store["DATA"] = Absent THEN "done" ELSE "get",
                          ![r].size = store["DATA"]]
    /\ UNCHANGED <<dataVars, notified, envVars>>

GetObject(r) ==
    /\ At(r, "get")
    /\ req' = [req EXCEPT
                 ![r].body = store["DATA"],
                 ![r].pc = IF store["DATA"] = Absent THEN "done"
                           ELSE IF Inbound /\ req[r].size = "oversized" THEN "discard"
                           ELSE IF Mismatch THEN "refuse" ELSE "checksum"]
    /\ UNCHANGED <<dataVars, notified, envVars>>

DiscardOversized(r) ==
    /\ At(r, "discard") /\ Proceed(r, "refuse")
    /\ PutStored("DATA", Absent)
    /\ UNCHANGED <<row, files, notified, envVars>>

\* The body is too large, or is not the one whose checksum was declared.
Refuse(r) ==
    /\ At(r, "refuse") /\ Answer(r)
    /\ SetStatus("FAILED")
    /\ UNCHANGED <<files, store, notified, envVars>>

\* createExchangeFile over the existing DATA row: the checksum of the body that was read.
RecordChecksum(r) ==
    /\ At(r, "checksum") /\ Proceed(r, IF Inbound THEN "receive" ELSE "ready")
    /\ row' = [row EXCEPT !.checksum = req[r].body]
    /\ UNCHANGED <<files, store, notified, envVars>>

MarkReceived(r) ==
    /\ At(r, "receive") /\ Proceed(r, "manifest")
    /\ SetStatus("RECEIVED")
    /\ UNCHANGED <<files, store, notified, envVars>>

PutManifest(r) ==
    /\ At(r, "manifest") /\ Proceed(r, "listManifest")
    /\ PutStored("MANIFEST", req[r].body)
    /\ UNCHANGED <<row, files, notified, envVars>>

\* After the manifest's file row: an upload is validated, a completed publication is answered,
\* the simulated publication becomes READY only now.
ListManifest(r) ==
    /\ At(r, "listManifest")
    /\ Proceed(r, IF Inbound THEN "report"
               ELSE IF req[r].kind = "simulate" THEN "ready" ELSE "done")
    /\ AddFile("MANIFEST")
    /\ UNCHANGED <<row, store, notified, envVars>>

\* validateFileContent on the body read before, persistValidationResult and the sidecar object.
PutReport(r) ==
    /\ At(r, "report") /\ Proceed(r, "listReport")
    /\ PutStored("VALIDATION", req[r].body)
    /\ UNCHANGED <<row, files, notified, envVars>>

ListReport(r) ==
    /\ At(r, "listReport") /\ Proceed(r, "judge")
    /\ AddFile("VALIDATION")
    /\ UNCHANGED <<row, store, notified, envVars>>

Judge(r) ==
    /\ At(r, "judge")
    /\ Proceed(r, IF Verdict(req[r].body) = "VALIDATED" THEN "notify" ELSE "done")
    /\ SetStatus(Verdict(req[r].body))
    /\ UNCHANGED <<files, store, notified, envVars>>

NotifyValidated(r) ==
    /\ At(r, "notify") /\ Answer(r) /\ notified' = TRUE
    /\ UNCHANGED <<dataVars, envVars>>

\* Mutant: selected by age alone.
MutantSelectOrphan(r) ==
    /\ At(r, "reconcileOrphanExchanges")
    /\ req' = [req EXCEPT ![r].saw = row.status, ![r].pc = IF over THEN "expire" ELSE "done"]
    /\ UNCHANGED <<dataVars, notified, envVars>>

\* reconcileOrphanExchanges: select the pending uploads that are too old, then expire each one.
SelectOrphan(r) ==
    /\ At(r, "reconcileOrphanExchanges")
    /\ req' = [req EXCEPT ![r].saw = row.status,
                          ![r].pc = IF over /\ row.status \in Pending THEN "expire" ELSE "done"]
    /\ UNCHANGED <<dataVars, notified, envVars>>

MarkExpired(r) ==
    /\ At(r, "expire") /\ Answer(r)
    /\ SetStatus("EXPIRED")
    /\ UNCHANGED <<files, store, notified, envVars>>

(***************************************************************************)
(* Outbound exchanges.                                                     *)
(***************************************************************************)
\* createOutboundPublication and the first transaction of the simulator.  Only the former writes
\* the DATA row, with the declared checksum, at once.
CreateOutbound(r) ==
    /\ req[r].pc \in Creating
    /\ IF At(r, "createOutbound")
       THEN /\ Answer(r) /\ files' = {"DATA"}
            /\ row' = [row EXCEPT !.status = "PREPARING", !.checksum = "valid"]
       ELSE Proceed(r, "generate") /\ SetStatus("PREPARING") /\ UNCHANGED files
    /\ UNCHANGED <<store, notified, envVars>>

\* publishOutboundExchange: content generated here, PUT, its DATA row, then manifest and READY.
Simulate(r) ==
    /\ At(r, "generate")
    /\ req' = [req EXCEPT ![r].pc = "listData", ![r].body = "valid"]
    /\ PutStored("DATA", "valid")
    /\ UNCHANGED <<row, files, notified, envVars>>

ListData(r) ==
    /\ At(r, "listData") /\ Proceed(r, "manifest")
    /\ AddFile("DATA")
    /\ row' = [row EXCEPT !.checksum = req[r].body]
    /\ UNCHANGED <<store, notified, envVars>>

CompleteOutbound(r) ==
    /\ At(r, "completeOutbound")
    /\ IF row.status = "PREPARING" /\ "DATA" \in files THEN Proceed(r, "head") ELSE Answer(r)
    /\ UNCHANGED <<dataVars, notified, envVars>>

\* Mutant: the answer does not wait for the manifest.
MutantMarkReady(r) ==
    /\ At(r, "ready") /\ Answer(r)
    /\ SetStatus("READY")
    /\ UNCHANGED <<files, store, notified, envVars>>

MarkExchangeReady(r) ==
    /\ At(r, "ready")
    /\ IF req[r].kind = "simulate" THEN Answer(r) ELSE Proceed(r, "manifest")
    /\ SetStatus("READY")
    /\ UNCHANGED <<files, store, notified, envVars>>

FailOutbound(r) ==
    /\ At(r, "failOutbound")
    /\ IF Exists /\ row.status # "FAILED" THEN Proceed(r, "refuse") ELSE Answer(r)
    /\ UNCHANGED <<dataVars, notified, envVars>>

\* requestDownloadUrl: an exchange past expires_at is marked, whatever status was read; any other
\* answer, a signed URL for a READY exchange included, changes no row.
RequestDownloadUrl(r) ==
    /\ At(r, "requestDownloadUrl")
    /\ IF Exists /\ over /\ row.status # "EXPIRED" THEN Proceed(r, "expire") ELSE Answer(r)
    /\ UNCHANGED <<dataVars, notified, envVars>>

SetLegalHold(r) ==
    /\ At(r, "setLegalHold") /\ Answer(r)
    /\ IF Exists THEN \E b \in BOOLEAN : row' = [row EXCEPT !.hold = b] ELSE UNCHANGED row
    /\ UNCHANGED <<files, store, notified, envVars>>

\* requestDeletion: eligibility of the copy, then the request row becomes IN_PROGRESS or BLOCKED.
RequestDeletion(r) ==
    /\ At(r, "requestDeletion")
    /\ req' = [req EXCEPT
                 ![r].pc = IF Eligible(row) THEN "list" ELSE "done",
                 ![r].deletion = IF ~Exists THEN Absent
                                 ELSE IF Eligible(row) THEN "IN_PROGRESS" ELSE "BLOCKED"]
    /\ UNCHANGED <<dataVars, notified, envVars>>

ListObjects(r) ==
    /\ At(r, "list")
    /\ req' = [req EXCEPT ![r].pc = "remove", ![r].todo = files]
    /\ UNCHANGED <<dataVars, notified, envVars>>

\* Storage may refuse any of the deletions: the request is FAILED, what is gone stays gone.
RemoveObject(r) ==
    /\ At(r, "remove") /\ req[r].todo # {}
    /\ \E o \in req[r].todo :
         \/ /\ PutStored(o, Absent)
            /\ req' = [req EXCEPT ![r].todo = @ \ {o}]
         \/ /\ req' = [req EXCEPT ![r].pc = "done", ![r].deletion = "FAILED"]
            /\ UNCHANGED store
    /\ UNCHANGED <<row, files, notified, envVars>>

MarkDeleted(r) ==
    /\ At(r, "remove") /\ req[r].todo = {}
    /\ req' = [req EXCEPT ![r].pc = "done", ![r].deletion = "COMPLETED"]
    /\ SetStatus("DELETED")
    /\ UNCHANGED <<files, store, notified, envVars>>

-----------------------------------------------------------------------------
InboundStep(r) ==
    \/ InitiateUpload(r) \/ InsertUpload(r) \/ CompleteUpload(r)
    \/ DiscardOversized(r) \/ MarkReceived(r) \/ PutReport(r) \/ ListReport(r)
    \/ Judge(r) \/ NotifyValidated(r) \/ SelectOrphan(r)

OutboundStep(r) ==
    \/ CreateOutbound(r) \/ Simulate(r) \/ ListData(r) \/ CompleteOutbound(r)
    \/ MarkExchangeReady(r) \/ FailOutbound(r) \/ RequestDownloadUrl(r) \/ SetLegalHold(r)
    \/ RequestDeletion(r) \/ ListObjects(r) \/ RemoveObject(r) \/ MarkDeleted(r)

Step(r) ==
    \/ InboundStep(r) \/ OutboundStep(r)
    \/ HeadObject(r) \/ GetObject(r) \/ Refuse(r) \/ RecordChecksum(r)
    \/ PutManifest(r) \/ ListManifest(r) \/ MarkExpired(r)

ExchangeNext ==
    \/ \E r \in Requests : Step(r)
    \/ \E r \in Requests : \E k \in EntryPoints[row.direction] : Start(r, k)
    \/ \E body \in Bodies : PutObject(body)
    \/ Elapse
    \/ ServerCrash

ExchangeSpec == ExchangeInit /\ [][ExchangeNext]_exchangeVars

\* A handler that has been entered runs on: Node resumes it when its await answers.
FairExchangeSpec == ExchangeSpec /\ \A r \in Requests : WF_exchangeVars(Step(r))

-----------------------------------------------------------------------------
ExchangeTypeOK ==
    /\ row \in Row
    /\ Exists => row.status \in Statuses[row.direction]
    /\ files \subseteq Roles /\ store \in [Roles -> Bodies \cup {Absent}]
    /\ \A r \in Requests : /\ req[r].kind \in EntryPoints[row.direction] \cup {Absent}
                           /\ req[r].saw \in Statuses[row.direction] \cup {Absent}
                           /\ req[r].body \in Bodies \cup {Absent}
                           /\ req[r].todo \subseteq files
    /\ notified \in BOOLEAN /\ over \in BOOLEAN /\ overlapped \in BOOLEAN
    /\ puts \in 0..MaxPuts /\ restarts \in 0..MaxRestarts

DeletionUnderWay == \E r \in Requests : req[r].deletion \in {"IN_PROGRESS", "COMPLETED", "FAILED"}

\* A READY artifact nobody began to delete is the one that was declared: its object is there and
\* has the declared checksum, however completions, failures and downloads interleave.
ReadyIsVerified ==
    (row.status = "READY" /\ ~DeletionUnderWay) => store["DATA"] = "valid" /\ row.checksum = "valid"

\* Unless two completions of the upload overlapped, the recorded checksum, the manifest, the
\* validation report and the verdict of the row are all about one and the same body.
VerdictIsOneBody ==
    (row.status \in {"VALIDATED", "VALIDATION_FAILED"} /\ ~overlapped) =>
        /\ {"MANIFEST", "VALIDATION"} \subseteq files
        /\ store["MANIFEST"] = row.checksum /\ store["VALIDATION"] = row.checksum
        /\ row.status = Verdict(row.checksum)
        /\ notified => row.status = "VALIDATED"

\* A deletion that reported COMPLETED left no object that has a file row, and an object vanishes
\* from an OUTBOUND exchange only behind a deletion request.
DeletedLeavesNothing ==
    /\ (\E r \in Requests : req[r].deletion = "COMPLETED") => \A o \in files : store[o] = Absent
    /\ (~Inbound /\ row.status = "READY" /\ ~DeletionUnderWay) => store["DATA"] # Absent

\* A verdict is only overwritten by a handler that looked at the row while the upload was still
\* pending: a completion, or the orphan reconciliation, that overlapped the one that judged.
VerdictLostOnlyToStaleReader ==
    [][(row.status \in {"VALIDATED", "VALIDATION_FAILED"} /\ row'.status # row.status) =>
          \/ overlapped
          \/ \E r \in Requests : At(r, "expire") /\ req[r].saw \in Pending]_exchangeVars

\* Claimed of the status table: FAILED, CANCELLED and EXPIRED are entered from non-terminal
\* statuses, DELETED from EXPIRED; a terminal status is left for nothing else.
TerminalStays ==
    [][row.status \in TERMINAL_STATUSES =>
          \/ row'.status = row.status
          \/ row.status = "EXPIRED" /\ row'.status = "DELETED"]_exchangeVars

\* Claimed of the legal hold: while it is set, no object of the exchange is deleted.
HoldOverridesDeletion ==
    [][(row.hold /\ ~Inbound) =>
          \A o \in Roles : store[o] # Absent => store'[o] # Absent]_exchangeVars

\* A received upload is judged, or fails, or expires: it stays RECEIVED only behind a crash.
ReceivedIsJudged == (row.status = "RECEIVED") ~> (row.status # "RECEIVED" \/ restarts > 0)

\* READY is committed before the manifest is written: the manifest and its row follow unless the
\* service crashes or the artifact is deleted meanwhile.
ReadyGetsManifest ==
    (row.status = "READY") ~> ("MANIFEST" \in files \/ restarts > 0)

\* What an exchange shows of itself is true of its objects: a READY artifact is the verified one, a verdict, its
\* manifest and its report are about one body, and a COMPLETED deletion left nothing.
StoredIsJudged == ExchangeTypeOK /\ ReadyIsVerified /\ VerdictIsOneBody /\ DeletedLeavesNothing

\* What a handler has committed halfway it finishes: a RECEIVED upload is judged, a READY artifact gets its
\* manifest, unless the service crashed.
HandlersFinish == ReceivedIsJudged /\ ReadyGetsManifest
=============================================================================
