---------------------------- MODULE PortalTransfers ----------------------------
(***************************************************************************)
(* The customer portal's uploads, downloads and notifications.  A browser  *)
(* form posts a file; the portal's request works on it statement by        *)
(* statement, with its own database or with data-exchange-service, and     *)
(* goes on when the browser has stopped waiting.  An upload is named by    *)
(* its attempt: whatever a request writes carries that number.  The        *)
(* remote service is reduced to what its client's calls return.            *)
(***************************************************************************)
EXTENDS Naturals, FiniteSets

CONSTANTS
    Users, TenantOf,   \* one browser tab per user
    Unset, MaxAttempts

\* What an instance gives the constants.
TransferBounds ==
    /\ MaxAttempts \in Nat
    /\ Unset \notin {"COMPLETED", "PENDING_UPLOAD", "VALIDATED", "queued", "READY", "EXPIRED"}

VARIABLES
    backend,    \* "mongo", or data-exchange-service that publishes a "fixture" or runs a "pipeline"
    form,       \* per user: selected file, what is shown, the attempts made with this selection
    req,        \* per attempt: its user, where its request is, whether the browser still waits
    stored,     \* attempts whose bytes are in GridFS or in object storage
    exchanges,  \* <<attempt, direction>> of the exchanges written COMPLETED by the portal
    downloads,  \* attempts with a row in downloads
    remote,     \* per attempt: status of the inbound exchange at data-exchange-service
    output,     \* per attempt: what became of its processed output there
    notes, read,\* attempts with a notification, those marked read
    tokens,     \* download links: tenant, attempt; expired ones are gone
    page,       \* per user: the downloads listed, the notifications listed
    readers,    \* members who may no longer upload
    served,     \* auxiliary: who received the bytes of which attempt
    clicked,    \* auxiliary: who marked which notification read
    unpublished,\* auxiliary: attempts whose output could not be asked for
    told        \* auxiliary: attempts whose form said to try again

formVars   == <<form, req, told>>
uploadVars == <<stored, exchanges, downloads, notes>>
remoteVars == <<remote, output, unpublished>>
pageVars   == <<tokens, page, served>>
noteVars   == <<read, clicked>>
transferVars == <<backend, formVars, uploadVars, remoteVars, pageVars, noteVars, readers>>

Attempts == 1..MaxAttempts
Started  == {a \in Attempts : req[a].pc # "idle"}
Owner(a) == TenantOf[req[a].user]

\* TenantScopedCollection: what a query of tenant t sees of the rows of attempts S.
MutantScoped(t, S) == S

Scoped(t, S) == {a \in S : Owner(a) = t}

\* createServices: which implementation serves uploads and downloads.
TransfersInit ==
    /\ backend \in {"mongo", "fixture", "pipeline"}
    /\ form = [u \in Users |-> [file |-> Unset, result |-> Unset, waiting |-> 0, tried |-> {}]]
    /\ req = [a \in Attempts |-> [user |-> Unset, file |-> Unset, pc |-> "idle", open |-> FALSE]]
    /\ stored = {} /\ exchanges = {} /\ downloads = {} /\ notes = {} /\ read = {} /\ tokens = {}
    /\ remote = [a \in Attempts |-> Unset] /\ output = [a \in Attempts |-> Unset]
    /\ page = [u \in Users |-> [files |-> {}, notes |-> {}]]
    /\ readers = {} /\ served = {} /\ clicked = {} /\ unpublished = {} /\ told = {}

-----------------------------------------------------------------------------
(* The form *)

Waiting(u) == form[u].waiting # 0

\* handleFileChange, handleReset: a file of an accepted type and size; only validation tells the contents apart.
Choose(u) ==
    \E f \in {"valid", "invalid"} :
       /\ ~Waiting(u) /\ Cardinality(Started) < MaxAttempts
       /\ form' = [form EXCEPT ![u] = [file |-> f, result |-> Unset, waiting |-> 0, tried |-> {}]]
       /\ UNCHANGED <<backend, req, told, uploadVars, remoteVars, pageVars, noteVars, readers>>

\* The button is disabled while a request is under way and after a success.
CanSubmit(u) == form[u].file # Unset /\ ~Waiting(u) /\ form[u].result # "COMPLETED"

Submit(u) ==
    LET a == Cardinality(Started) + 1
    IN  /\ a \in Attempts /\ CanSubmit(u)
        /\ form' = [form EXCEPT ![u].waiting = a, ![u].tried = @ \cup {a}]
        /\ req' = [req EXCEPT ![a] = [user |-> u, file |-> form[u].file, pc |-> "route", open |-> TRUE]]
        /\ UNCHANGED <<backend, told, uploadVars, remoteVars, pageVars, noteVars, readers>>

Shown(tab, result) == [tab EXCEPT !.result = result, !.waiting = 0]

\* What the form of an attempt still waited for shows: the result, or an error that asks to try again.
Show(a, result) ==
    IF req[a].open
    THEN /\ form' = [form EXCEPT ![req[a].user] = Shown(@, result)]
         /\ told' = IF result = "error" THEN told \cup {a} ELSE told
    ELSE UNCHANGED <<form, told>>

MoveTo(a, pc)    == req' = [req EXCEPT ![a].pc = pc]
Leave(a)         == req' = [req EXCEPT ![a].pc = "done", ![a].open = FALSE]
Answer(a, result) == Leave(a) /\ Show(a, result)

\* POST /api/uploads: the session decides, whatever the page had rendered.
Route(a) ==
    /\ req[a].pc = "route"
    /\ IF req[a].user \in readers THEN Answer(a, "error")
       ELSE MoveTo(a, IF backend = "mongo" THEN "store" ELSE "initiate") /\ UNCHANGED <<form, told>>
    /\ UNCHANGED <<backend, uploadVars, remoteVars, pageVars, noteVars, readers>>

\* A statement throws, or the portal dies: the browser gets an error response or none.
Fail(a) ==
    /\ req[a].pc \notin {"idle", "done"}
    /\ Answer(a, "error")
    /\ UNCHANGED <<backend, uploadVars, remoteVars, pageVars, noteVars, readers>>

\* The connection breaks: the form gives up, the request goes on.
Break(a) ==
    /\ req[a].open
    /\ req' = [req EXCEPT ![a].open = FALSE]
    /\ Show(a, "error")
    /\ UNCHANGED <<backend, uploadVars, remoteVars, pageVars, noteVars, readers>>

-----------------------------------------------------------------------------
(* MongoUploadService: one statement after the other, nothing undone *)

MutantAfter == [store |-> "exchange", exchange |-> "outbound", outbound |-> "download", download |-> "notify"]

After == [store |-> "exchange", exchange |-> "download", download |-> "outbound", outbound |-> "notify"]

Statement(a, pc) ==
    /\ req[a].pc = pc
    /\ MoveTo(a, After[pc])
    /\ UNCHANGED <<backend, form, told, notes, remoteVars, pageVars, noteVars, readers>>

StoreFile(a)      == Statement(a, "store") /\ stored' = stored \cup {a} /\ UNCHANGED <<exchanges, downloads>>
CreateInbound(a) == Statement(a, "exchange") /\ exchanges' = exchanges \cup {<<a, "INBOUND">>} /\ UNCHANGED <<stored, downloads>>
CreateDownload(a) == Statement(a, "download") /\ downloads' = downloads \cup {a} /\ UNCHANGED <<stored, exchanges>>
CreateOutbound(a) == Statement(a, "outbound") /\ exchanges' = exchanges \cup {<<a, "OUTBOUND">>} /\ UNCHANGED <<stored, downloads>>

CreateNotification(a) ==
    /\ req[a].pc = "notify"
    /\ notes' = notes \cup {a}
    /\ Answer(a, "COMPLETED")
    /\ UNCHANGED <<backend, stored, exchanges, downloads, remoteVars, pageVars, noteVars, readers>>

MongoUpload(a) == StoreFile(a) \/ CreateInbound(a) \/ CreateDownload(a) \/ CreateOutbound(a) \/ CreateNotification(a)

-----------------------------------------------------------------------------
(* ExchangeApiUploadService: calls of data-exchange-service and of its storage *)

InitiateUpload(a) ==
    /\ req[a].pc = "initiate"
    /\ remote' = [remote EXCEPT ![a] = "PENDING_UPLOAD"]
    /\ MoveTo(a, "put")
    /\ UNCHANGED <<backend, form, told, uploadVars, output, unpublished, pageVars, noteVars, readers>>

PutToSignedUrl(a) ==
    /\ req[a].pc = "put"
    /\ stored' = stored \cup {a}
    /\ MoveTo(a, "complete")
    /\ UNCHANGED <<backend, form, told, exchanges, downloads, notes, remoteVars, pageVars, noteVars, readers>>

\* completeUpload validates; an upload that was given up meanwhile is refused.
CompleteUpload(a) ==
    /\ req[a].pc = "complete"
    /\ IF remote[a] = "PENDING_UPLOAD"
       THEN /\ remote' = [remote EXCEPT ![a] = IF req[a].file = "valid" THEN "VALIDATED" ELSE "VALIDATION_FAILED"]
            /\ MoveTo(a, "get") /\ UNCHANGED <<form, told>>
       ELSE Answer(a, "error") /\ UNCHANGED remote
    /\ UNCHANGED <<backend, uploadVars, output, unpublished, pageVars, noteVars, readers>>

MapUploadStatus(status) ==
    CASE status = "VALIDATED"      -> "COMPLETED"
      [] status = "PENDING_UPLOAD" -> "UPLOADING"
      [] OTHER                     -> "FAILED"

\* getExchange, and getExchangeValidation for the message of a failure.
GetExchange(a) ==
    /\ req[a].pc = "get"
    /\ IF MapUploadStatus(remote[a]) = "COMPLETED" THEN MoveTo(a, "publish") /\ UNCHANGED <<form, told>>
       ELSE Answer(a, MapUploadStatus(remote[a]))
    /\ UNCHANGED <<backend, uploadVars, remoteVars, pageVars, noteVars, readers>>

\* publishFixture answers with a finished exchange, enqueuePipelineJob with a job for the worker.
Published == [fixture |-> "READY", pipeline |-> "queued"]

\* Best effort: a failure is logged and the upload has succeeded.
PublishProcessedOutput(a) ==
    /\ req[a].pc = "publish"
    /\ \/ /\ output' = [output EXCEPT ![a] = Published[backend]]
          /\ UNCHANGED unpublished
       \/ unpublished' = unpublished \cup {a} /\ UNCHANGED output
    /\ Answer(a, "COMPLETED")
    /\ UNCHANGED <<backend, uploadVars, remote, pageVars, noteVars, readers>>

ExchangeUpload(a) ==
    InitiateUpload(a) \/ PutToSignedUrl(a) \/ CompleteUpload(a) \/ GetExchange(a) \/ PublishProcessedOutput(a)

\* data-exchange-service: the reconciliation gives an upload up, the worker finishes a job, an output expires.
RemoteStep(a) ==
    /\ \/ /\ remote[a] = "PENDING_UPLOAD"
          /\ remote' = [remote EXCEPT ![a] = "EXPIRED"] /\ UNCHANGED output
       \/ /\ output[a] = "queued"
          /\ output' = [output EXCEPT ![a] = "READY"] /\ UNCHANGED remote
       \/ /\ output[a] = "READY"
          /\ output' = [output EXCEPT ![a] = "EXPIRED"] /\ UNCHANGED remote
    /\ UNCHANGED <<backend, formVars, uploadVars, unpublished, pageVars, noteVars, readers>>

-----------------------------------------------------------------------------
(* Downloads *)

OutputReady == {a \in Attempts : output[a] = "READY"}

\* listDownloads; the other service's list leaves out every exchange whose details could not be read.
Listed(u) ==
    IF backend = "mongo" THEN {Scoped(TenantOf[u], downloads)} ELSE SUBSET Scoped(TenantOf[u], OutputReady)

OpenDownloads(u) ==
    \E files \in Listed(u) :
       /\ page' = [page EXCEPT ![u].files = files]
       /\ UNCHANGED <<backend, formVars, uploadVars, remoteVars, tokens, served, noteVars, readers>>

Link(u, a) == [tenant |-> TenantOf[u], attempt |-> a]

\* getDownloadUrl with the portal's own files: the row is looked up again, its expiresAt is not looked at.
CreateDownloadToken(u) ==
    \E a \in page[u].files :
       /\ backend = "mongo" /\ a \in Scoped(TenantOf[u], downloads)
       /\ tokens' = tokens \cup {Link(u, a)}
       /\ UNCHANGED <<backend, formVars, uploadVars, remoteVars, page, served, noteVars, readers>>

VerifyDownloadToken(u, link, a) == link \in tokens /\ link.attempt = a /\ link.tenant = TenantOf[u]

\* GET /api/downloads/[fileId]/file: anybody may present a link, with a session of their own.
DownloadFile(u) ==
    \E link \in tokens, a \in Scoped(TenantOf[u], downloads) :
       /\ VerifyDownloadToken(u, link, a) /\ a \in stored
       /\ served' = served \cup {<<u, a>>}
       /\ UNCHANGED <<backend, formVars, uploadVars, remoteVars, tokens, page, noteVars, readers>>

\* requestDownloadUrl: the other service signs a link to its storage when the exchange is READY.
RequestDownloadUrl(u) ==
    \E a \in page[u].files \cap OutputReady :
       /\ backend # "mongo"
       /\ served' = served \cup {<<u, a>>}
       /\ UNCHANGED <<backend, formVars, uploadVars, remoteVars, tokens, page, noteVars, readers>>

ExpireToken ==
    \E link \in tokens :
       /\ tokens' = tokens \ {link}
       /\ UNCHANGED <<backend, formVars, uploadVars, remoteVars, page, served, noteVars, readers>>

-----------------------------------------------------------------------------
(* Notifications, and the loss of a role *)

OpenNotifications(u) ==
    /\ page' = [page EXCEPT ![u].notes = Scoped(TenantOf[u], notes)]
    /\ UNCHANGED <<backend, formVars, uploadVars, remoteVars, tokens, served, noteVars, readers>>

Mark(u, S) ==
    /\ read' = read \cup S /\ clicked' = clicked \cup {<<u, a>> : a \in S}
    /\ UNCHANGED <<backend, formVars, uploadVars, remoteVars, pageVars, readers>>

MarkNotificationRead(u) == \E a \in page[u].notes \ read : Mark(u, {a} \cap Scoped(TenantOf[u], notes))

\* Every unread one, listed on the page or not.
MarkAllNotificationsRead(u) ==
    page[u].notes \ read # {} /\ Mark(u, Scoped(TenantOf[u], notes))

ChangeRole(u) ==
    /\ u \notin readers /\ readers' = readers \cup {u}
    /\ UNCHANGED <<backend, formVars, uploadVars, remoteVars, pageVars, noteVars>>

RequestStep(a) == Route(a) \/ MongoUpload(a) \/ ExchangeUpload(a) \/ Fail(a) \/ Break(a) \/ RemoteStep(a)
TabStep(u) ==
    \/ Choose(u) \/ Submit(u) \/ ChangeRole(u)
    \/ OpenDownloads(u) \/ CreateDownloadToken(u) \/ DownloadFile(u) \/ RequestDownloadUrl(u)
    \/ OpenNotifications(u) \/ MarkNotificationRead(u) \/ MarkAllNotificationsRead(u)

TransfersNext == (\E a \in Attempts : RequestStep(a)) \/ (\E u \in Users : TabStep(u)) \/ ExpireToken

TransfersSpec == TransfersInit /\ [][TransfersNext]_transferVars

-----------------------------------------------------------------------------
(* Properties *)

\* What the portal and the other service keep belongs to attempts that were made, and to one of the two backends.
TransfersTypeOK ==
    /\ \A a \in Attempts : a \notin Started => a \notin stored /\ remote[a] = Unset
    /\ backend = "mongo" => \A a \in Attempts : remote[a] = Unset /\ output[a] = Unset
    /\ backend # "mongo" => exchanges = {} /\ downloads = {} /\ notes = {} /\ tokens = {}
    /\ read \subseteq notes

\* MongoUploadService, ExchangeApiUploadService: a form that says COMPLETED has its file, the rows and the notification;
\* with the other service the upload is valid and its output was asked for, unless that call failed.
ShownIsDone ==
    \A u \in Users : form[u].result = "COMPLETED" =>
       \E a \in form[u].tried :
          /\ a \in stored
          /\ IF backend = "mongo"
             THEN {<<a, "INBOUND">>, <<a, "OUTBOUND">>} \subseteq exchanges /\ a \in downloads \cap notes
             ELSE remote[a] = "VALIDATED" /\ (output[a] # Unset \/ a \in unpublished)

\* storeFile comes first: no exchange, download or notification without its bytes, whichever statement failed.
NothingDangles ==
    /\ \A e \in exchanges : e[1] \in stored /\ (e[2] = "OUTBOUND" => e[1] \in downloads)
    /\ downloads \cup notes \subseteq stored
    /\ \A a \in Attempts : output[a] # Unset => remote[a] = "VALIDATED"

\* tenant-scoped-collection, download-tokens: bytes reach members of the tenant that uploaded them only.
BytesStayInTenant == \A s \in served : Owner(s[2]) = TenantOf[s[1]]

\* upload-form: one selection is processed twice only when the form had asked to try again.
Processed(a) == <<a, "INBOUND">> \in exchanges \/ remote[a] = "VALIDATED"
TwiceOnlyWhenTold ==
    \A u \in Users : \A a, b \in form[u].tried : a < b /\ Processed(a) /\ Processed(b) => a \in told

\* HttpUploadService: a form that waits has a request that will answer it.
WaitingHasRequest ==
    \A u \in Users : Waiting(u) =>
       LET r == req[form[u].waiting] IN r.user = u /\ r.open /\ r.pc \notin {"idle", "done"}

\* markAllNotificationsRead: a notification is read when a member of its tenant marked it.
ReadByItsTenant == \A a \in read : \E u \in Users : <<u, a>> \in clicked /\ TenantOf[u] = Owner(a)
    /\ \A c \in clicked : TenantOf[c[1]] = Owner(c[2])

\* upload-form, the two upload services, download-tokens: what a form says was done is done, no row is without its
\* bytes, bytes stay in their tenant, a file is processed twice only on the form's word, a form that waits will be
\* answered, and a notification is read by its tenant.
TransfersTellTheTruth ==
    /\ TransfersTypeOK /\ ShownIsDone /\ NothingDangles /\ BytesStayInTenant /\ TwiceOnlyWhenTold
    /\ WaitingHasRequest /\ ReadByItsTenant
=============================================================================
