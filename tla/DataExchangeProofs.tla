--------------------------- MODULE DataExchangeProofs ---------------------------
(***************************************************************************)
(* What data-exchange-service guarantees for any number of concurrent      *)
(* requests, PUTs and crashes: what an exchange shows of itself is true of *)
(* its objects, and a verdict is lost only to a handler that looked at the *)
(* row too early.  An exchange is INBOUND or OUTBOUND for ever, and the    *)
(* inductive invariant says for each direction what a handler knows at     *)
(* each of its program counters.                                           *)
(***************************************************************************)
EXTENDS DataExchange, TLAPS

Verdicts == {"VALIDATED", "VALIDATION_FAILED"}

\* Where a handler can be, and what a row and the handlers hold, by direction.
Ends        == {"idle", "done"}
InKinds     == {"initiateUpload", "completeUpload", "reconcileOrphanExchanges"}
InPcs       == Ends \cup InKinds \cup {"insert", "notify", "expire"} \cup (CompletionPoints \ {"ready"})
InStatuses  == {"PENDING_UPLOAD", "UPLOADING", "RECEIVED", "VALIDATED",
                "VALIDATION_FAILED", "FAILED", "EXPIRED"}
OutKinds    == {"createOutbound", "completeOutbound", "failOutbound", "simulate",
                "requestDownloadUrl", "requestDeletion", "setLegalHold"}
OutPcs      == Ends \cup OutKinds \cup
               {"head", "get", "refuse", "checksum", "manifest", "listManifest", "ready",
                "generate", "listData", "expire", "list", "remove"}
OutStatuses == {"PREPARING", "READY", "FAILED", "EXPIRED", "DELETED"}
Deletions   == DeletionStatuses \cup {Absent}

Rows(direction, statuses) ==
  [direction : {direction}, status : statuses \cup {Absent}, hold : BOOLEAN,
   checksum : Bodies \cup {Absent}]
Handlers(statuses, kinds, pcs) ==
  [kind : kinds \cup {Absent}, pc : pcs, saw : statuses \cup {Absent}, size : Bodies \cup {Absent},
   body : Bodies \cup {Absent}, todo : SUBSET Roles, deletion : Deletions]
Types(direction, statuses, kinds, pcs) ==
  /\ row \in Rows(direction, statuses)
  /\ files \in SUBSET Roles /\ store \in [Roles -> Bodies \cup {Absent}]
  /\ req \in [Requests -> Handlers(statuses, kinds, pcs)]
  /\ notified \in BOOLEAN /\ over \in BOOLEAN /\ overlapped \in BOOLEAN
  /\ puts \in 0..MaxPuts /\ restarts \in 0..MaxRestarts

InTypes  == Types("INBOUND", InStatuses, InKinds, InPcs)
OutTypes == Types("OUTBOUND", OutStatuses, OutKinds, OutPcs)

(* An INBOUND exchange.                                                    *)

\* A completion holds a body, and an exchange that exists, until it has judged.
InHandler(r) ==
  /\ req[r].deletion = Absent /\ req[r].todo = {}
  /\ req[r].pc \in CompletionPoints => Exists
  /\ req[r].pc \in CompletionPoints \ {"head", "get", "discard", "refuse"} => req[r].body \in Bodies
  /\ req[r].pc = "expire" => req[r].saw \in Pending

\* As long as completions did not overlap, what one has written is what it read.
OneBody(r) ==
  /\ \A s \in Requests : req[r].pc \in CompletionPoints /\ req[s].pc \in CompletionPoints => r = s
  /\ req[r].pc \in {"receive", "manifest", "listManifest", "report", "listReport", "judge"} =>
       row.checksum = req[r].body
  /\ req[r].pc \in {"manifest", "listManifest", "report", "listReport", "judge"} =>
       row.status \notin Pending
  /\ req[r].pc \in {"listManifest", "report", "listReport", "judge"} =>
       store["MANIFEST"] = req[r].body
  /\ req[r].pc \in {"report", "listReport", "judge"} => "MANIFEST" \in files
  /\ req[r].pc \in {"listReport", "judge"} => store["VALIDATION"] = req[r].body
  /\ req[r].pc = "judge" => "VALIDATION" \in files

Announced == notified \/ \E r \in Requests : req[r].pc = "notify"
\* ... and after the verdict no completion is under way, nor can one begin.
JudgedOnce ==
  /\ row.status \in Verdicts \/ Announced =>
       Exists /\ row.status \notin Pending /\ \A r \in Requests : req[r].pc \notin CompletionPoints
  /\ Announced => row.status # "VALIDATION_FAILED"
  /\ row.status \in Verdicts =>
       /\ {"MANIFEST", "VALIDATION"} \subseteq files
       /\ store["MANIFEST"] = row.checksum /\ store["VALIDATION"] = row.checksum
       /\ row.status = Verdict(row.checksum)

InInv ==
  /\ \A r \in Requests : InHandler(r)
  /\ ~overlapped => JudgedOnce /\ \A r \in Requests : OneBody(r)

(* An OUTBOUND exchange.                                                   *)

Deleting(r) == req[r].deletion \in {"IN_PROGRESS", "COMPLETED", "FAILED"}
\* The publisher's handlers work on the artifact that was declared, within its lifetime;
\* a deletion begins after it and empties the files it listed.
OutHandler(r) ==
  /\ req[r].pc \in {"head", "get", "checksum"} => req[r].kind = "completeOutbound"
  /\ req[r].pc \in {"manifest", "listManifest", "ready"} =>
       req[r].kind \in {"completeOutbound", "simulate"}
  /\ req[r].pc \in {"generate", "listData"} => req[r].kind = "simulate"
  /\ req[r].pc = "refuse" => req[r].kind \in {"completeOutbound", "failOutbound"}
  /\ req[r].pc \in Publishing => req[r].kind = req[r].pc
  /\ req[r].kind \in Publishing /\ over => req[r].pc = "done"
  /\ req[r].pc \in {"checksum", "ready", "listData"} => store["DATA"] = "valid"
  /\ req[r].kind = "simulate" /\ req[r].pc \in {"manifest", "listManifest"} =>
       store["DATA"] = "valid"
  /\ req[r].pc \in {"checksum", "ready", "listData", "manifest", "listManifest"} =>
       req[r].body = "valid"
  /\ req[r].pc \in {"ready", "manifest", "listManifest"} => row.checksum = "valid"
  /\ req[r].pc = "expire" => over
  /\ req[r].pc \in {"idle", "requestDeletion"} => req[r].deletion = Absent
  /\ req[r].pc \in {"list", "remove"} => req[r].deletion = "IN_PROGRESS"
  /\ Deleting(r) \/ req[r].todo # {} => over
  /\ req[r].todo \subseteq files
  /\ req[r].pc = "remove" => \A o \in files \ req[r].todo : store[o] = Absent
  /\ req[r].deletion = "COMPLETED" => \A o \in files : store[o] = Absent

OutInv ==
  /\ \A r \in Requests : OutHandler(r)
  /\ row.checksum \in {Absent, "valid"}
  /\ row.status = "EXPIRED" => over
  /\ row.status = "READY" => row.checksum = "valid" /\ (store["DATA"] = "valid" \/ DeletionUnderWay)

ExchangeInv == IF Inbound THEN InTypes /\ InInv ELSE OutTypes /\ OutInv

-----------------------------------------------------------------------------
(* Types.                                                                  *)

LEMMA Tables ==
  /\ DOMAIN Statuses = {"INBOUND", "OUTBOUND"}
  /\ Statuses["INBOUND"] = InStatuses /\ Statuses["OUTBOUND"] = OutStatuses
  /\ EntryPoints["INBOUND"] = InKinds /\ EntryPoints["OUTBOUND"] = OutKinds
BY DEF Statuses, EntryPoints, UploadRoutes, OutboundRoutes, SimulatorRoutes, DownloadRoutes,
   RetentionRoutes, InStatuses, OutStatuses, InKinds, OutKinds

LEMMA NoneIsNoStatus ==
  ASSUME ExchangeConstants
  PROVE  Absent \notin InStatuses /\ Absent \notin OutStatuses /\ Absent \notin Bodies
         /\ Absent \notin DeletionStatuses
BY Tables DEF ExchangeConstants

\* A handler that goes on keeps its type, whatever it has read.
LEMMA Goes ==
  ASSUME NEW S, NEW K, NEW P, NEW f \in [Requests -> Handlers(S, K, P)], NEW r \in Requests,
         NEW p \in P
  PROVE  [f EXCEPT ![r].pc = p] \in [Requests -> Handlers(S, K, P)]
BY DEF Handlers
LEMMA Enters ==
  ASSUME NEW S, NEW K, NEW P, NEW f \in [Requests -> Handlers(S, K, P)], NEW r \in Requests,
         NEW k \in K, NEW p \in P
  PROVE  [f EXCEPT ![r].kind = k, ![r].pc = p] \in [Requests -> Handlers(S, K, P)]
BY DEF Handlers
LEMMA ReadsSize ==
  ASSUME NEW S, NEW K, NEW P, NEW f \in [Requests -> Handlers(S, K, P)], NEW r \in Requests,
         NEW p \in P, NEW b \in Bodies \cup {Absent}
  PROVE  [f EXCEPT ![r].pc = p, ![r].size = b] \in [Requests -> Handlers(S, K, P)]
BY DEF Handlers
LEMMA ReadsBody ==
  ASSUME NEW S, NEW K, NEW P, NEW f \in [Requests -> Handlers(S, K, P)], NEW r \in Requests,
         NEW p \in P, NEW b \in Bodies \cup {Absent}
  PROVE  [f EXCEPT ![r].body = b, ![r].pc = p] \in [Requests -> Handlers(S, K, P)]
BY DEF Handlers
LEMMA MakesBody ==
  ASSUME NEW S, NEW K, NEW P, NEW f \in [Requests -> Handlers(S, K, P)], NEW r \in Requests,
         NEW p \in P, NEW b \in Bodies \cup {Absent}
  PROVE  [f EXCEPT ![r].pc = p, ![r].body = b] \in [Requests -> Handlers(S, K, P)]
BY DEF Handlers
LEMMA Selects ==
  ASSUME NEW S, NEW K, NEW P, NEW f \in [Requests -> Handlers(S, K, P)], NEW r \in Requests,
         NEW p \in P, NEW s \in S \cup {Absent}
  PROVE  [f EXCEPT ![r].saw = s, ![r].pc = p] \in [Requests -> Handlers(S, K, P)]
BY DEF Handlers
LEMMA Lists ==
  ASSUME NEW S, NEW K, NEW P, NEW f \in [Requests -> Handlers(S, K, P)], NEW r \in Requests,
         NEW p \in P, NEW o \in SUBSET Roles
  PROVE  [f EXCEPT ![r].pc = p, ![r].todo = o] \in [Requests -> Handlers(S, K, P)]
BY DEF Handlers
LEMMA Removes ==
  ASSUME NEW S, NEW K, NEW P, NEW f \in [Requests -> Handlers(S, K, P)], NEW r \in Requests,
         NEW o \in SUBSET Roles
  PROVE  [f EXCEPT ![r].todo = o] \in [Requests -> Handlers(S, K, P)]
BY DEF Handlers
LEMMA Decides ==
  ASSUME NEW S, NEW K, NEW P, NEW f \in [Requests -> Handlers(S, K, P)], NEW r \in Requests,
         NEW p \in P, NEW d \in Deletions
  PROVE  [f EXCEPT ![r].pc = p, ![r].deletion = d] \in [Requests -> Handlers(S, K, P)]
BY DEF Handlers

\* Each action of a handler keeps what an INBOUND exchange and its handlers hold; the other
\* direction's actions find no handler at their program counters.
LEMMA InStepTypes ==
  ASSUME ExchangeConstants, InTypes, NEW r \in Requests, Step(r) PROVE InTypes'
<1>1. {"done", "insert", "head", "get", "discard", "refuse", "checksum", "receive", "manifest",
      "listManifest", "report", "listReport", "judge", "notify", "expire"} \subseteq InPcs
  BY DEF InPcs, Ends, CompletionPoints, InKinds
<1>2. /\ req \in [Requests -> Handlers(InStatuses, InKinds, InPcs)] /\ store["DATA"] \in Bodies \cup {Absent}
      /\ row \in Rows("INBOUND", InStatuses) /\ Inbound
      /\ row.status \in InStatuses \cup {Absent} /\ files \in SUBSET Roles
      /\ store \in [Roles -> Bodies \cup {Absent}] /\ "DATA" \in Roles
      /\ req[r].body \in Bodies \cup {Absent} /\ req[r].todo \in SUBSET Roles
      /\ notified \in BOOLEAN /\ over \in BOOLEAN /\ overlapped \in BOOLEAN
  BY DEF InTypes, Types, Rows, Handlers, Roles, Inbound
<1>3. CASE InitiateUpload(r)
  <2>1. req' \in [Requests -> Handlers(InStatuses, InKinds, InPcs)]
    BY <1>1, <1>2, <1>3, Goes DEF InitiateUpload, Answer, Proceed
  <2> QED
    BY <1>2, <1>3, <2>1 DEF InitiateUpload, dataVars, envVars, InTypes, Types
<1>4. CASE InsertUpload(r)
  <2>1. req' \in [Requests -> Handlers(InStatuses, InKinds, InPcs)]
    BY <1>1, <1>2, <1>4, Goes DEF InsertUpload, Answer, Proceed
  <2>2. row' \in Rows("INBOUND", InStatuses)
    BY <1>2, <1>4 DEF InsertUpload, SetStatus, Rows, InStatuses
  <2>3. files' \in SUBSET Roles
    BY <1>2, <1>4 DEF InsertUpload, AddFile, Roles
  <2> QED
    BY <1>2, <1>4, <2>1, <2>2, <2>3 DEF InsertUpload, dataVars, envVars, InTypes, Types
<1>5. CASE CompleteUpload(r)
  <2>1. req' \in [Requests -> Handlers(InStatuses, InKinds, InPcs)]
    BY <1>1, <1>2, <1>5, Goes DEF CompleteUpload, Answer, Proceed
  <2>2. overlapped' \in BOOLEAN
    BY <1>2, <1>5 DEF CompleteUpload
  <2> QED
    BY <1>2, <1>5, <2>1, <2>2 DEF CompleteUpload, dataVars, envVars, InTypes, Types
<1>6. CASE HeadObject(r)
  <2>1. req' \in [Requests -> Handlers(InStatuses, InKinds, InPcs)]
    BY <1>1, <1>2, <1>6, ReadsSize DEF HeadObject
  <2> QED
    BY <1>2, <1>6, <2>1 DEF HeadObject, dataVars, envVars, InTypes, Types
<1>7. CASE GetObject(r)
  <2>1. req' \in [Requests -> Handlers(InStatuses, InKinds, InPcs)]
    BY <1>1, <1>2, <1>7, ReadsBody DEF GetObject
  <2> QED
    BY <1>2, <1>7, <2>1 DEF GetObject, dataVars, envVars, InTypes, Types
<1>8. CASE DiscardOversized(r)
  <2>1. req' \in [Requests -> Handlers(InStatuses, InKinds, InPcs)]
    BY <1>1, <1>2, <1>8, Goes DEF DiscardOversized, Answer, Proceed
  <2>2. store' \in [Roles -> Bodies \cup {Absent}]
    BY <1>2, <1>8 DEF DiscardOversized, PutStored
  <2> QED
    BY <1>2, <1>8, <2>1, <2>2 DEF DiscardOversized, dataVars, envVars, InTypes, Types
<1>9. CASE Refuse(r)
  <2>1. req' \in [Requests -> Handlers(InStatuses, InKinds, InPcs)]
    BY <1>1, <1>2, <1>9, Goes DEF Refuse, Answer, Proceed
  <2>2. row' \in Rows("INBOUND", InStatuses)
    BY <1>2, <1>9 DEF Refuse, SetStatus, Rows, InStatuses
  <2> QED
    BY <1>2, <1>9, <2>1, <2>2 DEF Refuse, dataVars, envVars, InTypes, Types
<1>10. CASE RecordChecksum(r)
  <2>1. req' \in [Requests -> Handlers(InStatuses, InKinds, InPcs)]
    BY <1>1, <1>2, <1>10, Goes DEF RecordChecksum, Answer, Proceed
  <2>2. row' \in Rows("INBOUND", InStatuses)
    BY <1>2, <1>10 DEF RecordChecksum, SetStatus, Rows, InStatuses
  <2> QED
    BY <1>2, <1>10, <2>1, <2>2 DEF RecordChecksum, dataVars, envVars, InTypes, Types
<1>11. CASE MarkReceived(r)
  <2>1. req' \in [Requests -> Handlers(InStatuses, InKinds, InPcs)]
    BY <1>1, <1>2, <1>11, Goes DEF MarkReceived, Answer, Proceed
  <2>2. row' \in Rows("INBOUND", InStatuses)
    BY <1>2, <1>11 DEF MarkReceived, SetStatus, Rows, InStatuses
  <2> QED
    BY <1>2, <1>11, <2>1, <2>2 DEF MarkReceived, dataVars, envVars, InTypes, Types
<1>12. CASE PutManifest(r)
  <2>1. req' \in [Requests -> Handlers(InStatuses, InKinds, InPcs)]
    BY <1>1, <1>2, <1>12, Goes DEF PutManifest, Answer, Proceed
  <2>2. store' \in [Roles -> Bodies \cup {Absent}]
    BY <1>2, <1>12 DEF PutManifest, PutStored
  <2> QED
    BY <1>2, <1>12, <2>1, <2>2 DEF PutManifest, dataVars, envVars, InTypes, Types
<1>13. CASE ListManifest(r)
  <2>1. req' \in [Requests -> Handlers(InStatuses, InKinds, InPcs)]
    BY <1>1, <1>2, <1>13, Goes DEF ListManifest, Answer, Proceed
  <2>2. files' \in SUBSET Roles
    BY <1>2, <1>13 DEF ListManifest, AddFile, Roles
  <2> QED
    BY <1>2, <1>13, <2>1, <2>2 DEF ListManifest, dataVars, envVars, InTypes, Types
<1>14. CASE PutReport(r)
  <2>1. req' \in [Requests -> Handlers(InStatuses, InKinds, InPcs)]
    BY <1>1, <1>2, <1>14, Goes DEF PutReport, Answer, Proceed
  <2>2. store' \in [Roles -> Bodies \cup {Absent}]
    BY <1>2, <1>14 DEF PutReport, PutStored
  <2> QED
    BY <1>2, <1>14, <2>1, <2>2 DEF PutReport, dataVars, envVars, InTypes, Types
<1>15. CASE ListReport(r)
  <2>1. req' \in [Requests -> Handlers(InStatuses, InKinds, InPcs)]
    BY <1>1, <1>2, <1>15, Goes DEF ListReport, Answer, Proceed
  <2>2. files' \in SUBSET Roles
    BY <1>2, <1>15 DEF ListReport, AddFile, Roles
  <2> QED
    BY <1>2, <1>15, <2>1, <2>2 DEF ListReport, dataVars, envVars, InTypes, Types
<1>16. CASE Judge(r)
  <2>1. req' \in [Requests -> Handlers(InStatuses, InKinds, InPcs)]
    BY <1>1, <1>2, <1>16, Goes DEF Judge, Answer, Proceed
  <2>2. row' \in Rows("INBOUND", InStatuses)
    BY <1>2, <1>16 DEF Judge, SetStatus, Rows, InStatuses, Verdict
  <2> QED
    BY <1>2, <1>16, <2>1, <2>2 DEF Judge, dataVars, envVars, InTypes, Types
<1>17. CASE NotifyValidated(r)
  <2>1. req' \in [Requests -> Handlers(InStatuses, InKinds, InPcs)]
    BY <1>1, <1>2, <1>17, Goes DEF NotifyValidated, Answer, Proceed
  <2>2. notified' \in BOOLEAN
    BY <1>2, <1>17 DEF NotifyValidated
  <2> QED
    BY <1>2, <1>17, <2>1, <2>2 DEF NotifyValidated, dataVars, envVars, InTypes, Types
<1>18. CASE SelectOrphan(r)
  <2>1. req' \in [Requests -> Handlers(InStatuses, InKinds, InPcs)]
    BY <1>1, <1>2, <1>18, Selects DEF SelectOrphan
  <2> QED
    BY <1>2, <1>18, <2>1 DEF SelectOrphan, dataVars, envVars, InTypes, Types
<1>19. CASE MarkExpired(r)
  <2>1. req' \in [Requests -> Handlers(InStatuses, InKinds, InPcs)]
    BY <1>1, <1>2, <1>19, Goes DEF MarkExpired, Answer, Proceed
  <2>2. row' \in Rows("INBOUND", InStatuses)
    BY <1>2, <1>19 DEF MarkExpired, SetStatus, Rows, InStatuses
  <2> QED
    BY <1>2, <1>19, <2>1, <2>2 DEF MarkExpired, dataVars, envVars, InTypes, Types
<1>20. CASE OutboundStep(r)
  BY <1>20 DEF InTypes, Types, Handlers, InPcs, Ends, CompletionPoints, InKinds, At, OutboundStep,
     CreateOutbound, Simulate, ListData, CompleteOutbound, MarkExchangeReady, FailOutbound,
     RequestDownloadUrl, SetLegalHold, RequestDeletion, ListObjects, RemoveObject, MarkDeleted,
     Creating
<1> QED
  BY <1>3, <1>4, <1>5, <1>6, <1>7, <1>8, <1>9, <1>10, <1>11, <1>12, <1>13, <1>14, <1>15, <1>16,
     <1>17, <1>18, <1>19, <1>20 DEF Step, InboundStep

\* The same for an OUTBOUND exchange.
LEMMA OutStepTypes ==
  ASSUME ExchangeConstants, OutTypes, NEW r \in Requests, Step(r) PROVE OutTypes'
<1>1. {"done", "generate", "listData", "head", "get", "refuse", "checksum", "ready", "manifest",
      "listManifest", "expire", "list", "remove"} \subseteq OutPcs
  BY DEF OutPcs, Ends, CompletionPoints, OutKinds
<1>2. /\ req \in [Requests -> Handlers(OutStatuses, OutKinds, OutPcs)] /\ store["DATA"] \in Bodies \cup {Absent}
      /\ row \in Rows("OUTBOUND", OutStatuses) /\ ~Inbound
      /\ row.status \in OutStatuses \cup {Absent} /\ files \in SUBSET Roles
      /\ store \in [Roles -> Bodies \cup {Absent}] /\ "DATA" \in Roles
      /\ req[r].body \in Bodies \cup {Absent} /\ req[r].todo \in SUBSET Roles
      /\ notified \in BOOLEAN /\ over \in BOOLEAN /\ overlapped \in BOOLEAN
  BY DEF OutTypes, Types, Rows, Handlers, Roles, Inbound
<1>3. CASE CreateOutbound(r)
  <2>1. req' \in [Requests -> Handlers(OutStatuses, OutKinds, OutPcs)]
    BY <1>1, <1>2, <1>3, Goes DEF CreateOutbound, Answer, Proceed, Creating
  <2>2. row' \in Rows("OUTBOUND", OutStatuses)
    BY <1>2, <1>3 DEF CreateOutbound, SetStatus, Rows, OutStatuses, Bodies
  <2>3. files' \in SUBSET Roles
    BY <1>2, <1>3 DEF CreateOutbound, AddFile, Roles
  <2> QED
    BY <1>2, <1>3, <2>1, <2>2, <2>3 DEF CreateOutbound, dataVars, envVars, OutTypes, Types
<1>4. CASE Simulate(r)
  <2>1. req' \in [Requests -> Handlers(OutStatuses, OutKinds, OutPcs)]
    BY <1>1, <1>2, <1>4, MakesBody DEF Simulate, Bodies
  <2>2. store' \in [Roles -> Bodies \cup {Absent}]
    BY <1>2, <1>4 DEF Simulate, PutStored, Bodies
  <2> QED
    BY <1>2, <1>4, <2>1, <2>2 DEF Simulate, dataVars, envVars, OutTypes, Types
<1>5. CASE ListData(r)
  <2>1. req' \in [Requests -> Handlers(OutStatuses, OutKinds, OutPcs)]
    BY <1>1, <1>2, <1>5, Goes DEF ListData, Answer, Proceed
  <2>2. row' \in Rows("OUTBOUND", OutStatuses)
    BY <1>2, <1>5 DEF ListData, SetStatus, Rows, OutStatuses
  <2>3. files' \in SUBSET Roles
    BY <1>2, <1>5 DEF ListData, AddFile, Roles
  <2> QED
    BY <1>2, <1>5, <2>1, <2>2, <2>3 DEF ListData, dataVars, envVars, OutTypes, Types
<1>6. CASE CompleteOutbound(r)
  <2>1. req' \in [Requests -> Handlers(OutStatuses, OutKinds, OutPcs)]
    BY <1>1, <1>2, <1>6, Goes DEF CompleteOutbound, Answer, Proceed
  <2> QED
    BY <1>2, <1>6, <2>1 DEF CompleteOutbound, dataVars, envVars, OutTypes, Types
<1>7. CASE MarkExchangeReady(r)
  <2>1. req' \in [Requests -> Handlers(OutStatuses, OutKinds, OutPcs)]
    BY <1>1, <1>2, <1>7, Goes DEF MarkExchangeReady, Answer, Proceed
  <2>2. row' \in Rows("OUTBOUND", OutStatuses)
    BY <1>2, <1>7 DEF MarkExchangeReady, SetStatus, Rows, OutStatuses
  <2> QED
    BY <1>2, <1>7, <2>1, <2>2 DEF MarkExchangeReady, dataVars, envVars, OutTypes, Types
<1>8. CASE FailOutbound(r)
  <2>1. req' \in [Requests -> Handlers(OutStatuses, OutKinds, OutPcs)]
    BY <1>1, <1>2, <1>8, Goes DEF FailOutbound, Answer, Proceed
  <2> QED
    BY <1>2, <1>8, <2>1 DEF FailOutbound, dataVars, envVars, OutTypes, Types
<1>9. CASE RequestDownloadUrl(r)
  <2>1. req' \in [Requests -> Handlers(OutStatuses, OutKinds, OutPcs)]
    BY <1>1, <1>2, <1>9, Goes DEF RequestDownloadUrl, Answer, Proceed
  <2> QED
    BY <1>2, <1>9, <2>1 DEF RequestDownloadUrl, dataVars, envVars, OutTypes, Types
<1>10. CASE SetLegalHold(r)
  <2>1. req' \in [Requests -> Handlers(OutStatuses, OutKinds, OutPcs)]
    BY <1>1, <1>2, <1>10, Goes DEF SetLegalHold, Answer, Proceed
  <2>2. row' \in Rows("OUTBOUND", OutStatuses)
    BY <1>2, <1>10 DEF SetLegalHold, SetStatus, Rows, OutStatuses
  <2> QED
    BY <1>2, <1>10, <2>1, <2>2 DEF SetLegalHold, dataVars, envVars, OutTypes, Types
<1>11. CASE RequestDeletion(r)
  <2> DEFINE p == IF Eligible(row) THEN "list" ELSE "done"
             d == IF ~Exists THEN Absent ELSE IF Eligible(row) THEN "IN_PROGRESS" ELSE "BLOCKED"
  <2>0. p \in OutPcs /\ d \in Deletions /\ req' = [req EXCEPT ![r].pc = p, ![r].deletion = d]
    BY <1>1, <1>11 DEF RequestDeletion, Deletions, DeletionStatuses
  <2> HIDE DEF p, d
  <2>1. req' \in [Requests -> Handlers(OutStatuses, OutKinds, OutPcs)]
    BY <1>2, <2>0, Decides
  <2> QED
    BY <1>2, <1>11, <2>1 DEF RequestDeletion, dataVars, envVars, OutTypes, Types
<1>12. CASE ListObjects(r)
  <2>1. req' \in [Requests -> Handlers(OutStatuses, OutKinds, OutPcs)]
    BY <1>1, <1>2, <1>12, Lists DEF ListObjects
  <2> QED
    BY <1>2, <1>12, <2>1 DEF ListObjects, dataVars, envVars, OutTypes, Types
<1>13. CASE RemoveObject(r)
  <2>1. req' \in [Requests -> Handlers(OutStatuses, OutKinds, OutPcs)]
    <3>1. PICK o \in req[r].todo : \/ req' = [req EXCEPT ![r].todo = @ \ {o}]
                                \/ req' = [req EXCEPT ![r].pc = "done", ![r].deletion = "FAILED"]
      BY <1>13 DEF RemoveObject
    <3>2. req[r].todo \ {o} \in SUBSET Roles /\ "FAILED" \in Deletions
      BY <1>2 DEF Deletions, DeletionStatuses
    <3>3. CASE req' = [req EXCEPT ![r].todo = @ \ {o}]
      <4>1. req' = [req EXCEPT ![r].todo = req[r].todo \ {o}]
        BY <3>3, <1>2 
      <4> QED
        BY <1>2, <3>2, <4>1, Removes
    <3>4. CASE req' = [req EXCEPT ![r].pc = "done", ![r].deletion = "FAILED"]
      BY <1>1, <1>2, <3>2, <3>4, Decides
    <3> QED
      BY <3>1, <3>3, <3>4
  <2>2. store' \in [Roles -> Bodies \cup {Absent}]
    BY <1>2, <1>13 DEF RemoveObject, PutStored
  <2> QED
    BY <1>2, <1>13, <2>1, <2>2 DEF RemoveObject, dataVars, envVars, OutTypes, Types
<1>14. CASE MarkDeleted(r)
  <2>1. req' \in [Requests -> Handlers(OutStatuses, OutKinds, OutPcs)]
    BY <1>1, <1>2, <1>14, Decides DEF MarkDeleted, Deletions, DeletionStatuses
  <2>2. row' \in Rows("OUTBOUND", OutStatuses)
    BY <1>2, <1>14 DEF MarkDeleted, SetStatus, Rows, OutStatuses
  <2> QED
    BY <1>2, <1>14, <2>1, <2>2 DEF MarkDeleted, dataVars, envVars, OutTypes, Types
<1>15. CASE HeadObject(r)
  <2>1. req' \in [Requests -> Handlers(OutStatuses, OutKinds, OutPcs)]
    BY <1>1, <1>2, <1>15, ReadsSize DEF HeadObject
  <2> QED
    BY <1>2, <1>15, <2>1 DEF HeadObject, dataVars, envVars, OutTypes, Types
<1>16. CASE GetObject(r)
  <2>1. req' \in [Requests -> Handlers(OutStatuses, OutKinds, OutPcs)]
    BY <1>1, <1>2, <1>16, ReadsBody DEF GetObject
  <2> QED
    BY <1>2, <1>16, <2>1 DEF GetObject, dataVars, envVars, OutTypes, Types
<1>17. CASE Refuse(r)
  <2>1. req' \in [Requests -> Handlers(OutStatuses, OutKinds, OutPcs)]
    BY <1>1, <1>2, <1>17, Goes DEF Refuse, Answer, Proceed
  <2>2. row' \in Rows("OUTBOUND", OutStatuses)
    BY <1>2, <1>17 DEF Refuse, SetStatus, Rows, OutStatuses
  <2> QED
    BY <1>2, <1>17, <2>1, <2>2 DEF Refuse, dataVars, envVars, OutTypes, Types
<1>18. CASE RecordChecksum(r)
  <2>1. req' \in [Requests -> Handlers(OutStatuses, OutKinds, OutPcs)]
    BY <1>1, <1>2, <1>18, Goes DEF RecordChecksum, Answer, Proceed
  <2>2. row' \in Rows("OUTBOUND", OutStatuses)
    BY <1>2, <1>18 DEF RecordChecksum, SetStatus, Rows, OutStatuses
  <2> QED
    BY <1>2, <1>18, <2>1, <2>2 DEF RecordChecksum, dataVars, envVars, OutTypes, Types
<1>19. CASE PutManifest(r)
  <2>1. req' \in [Requests -> Handlers(OutStatuses, OutKinds, OutPcs)]
    BY <1>1, <1>2, <1>19, Goes DEF PutManifest, Answer, Proceed
  <2>2. store' \in [Roles -> Bodies \cup {Absent}]
    BY <1>2, <1>19 DEF PutManifest, PutStored
  <2> QED
    BY <1>2, <1>19, <2>1, <2>2 DEF PutManifest, dataVars, envVars, OutTypes, Types
<1>20. CASE ListManifest(r)
  <2>1. req' \in [Requests -> Handlers(OutStatuses, OutKinds, OutPcs)]
    BY <1>1, <1>2, <1>20, Goes DEF ListManifest, Answer, Proceed
  <2>2. files' \in SUBSET Roles
    BY <1>2, <1>20 DEF ListManifest, AddFile, Roles
  <2> QED
    BY <1>2, <1>20, <2>1, <2>2 DEF ListManifest, dataVars, envVars, OutTypes, Types
<1>21. CASE MarkExpired(r)
  <2>1. req' \in [Requests -> Handlers(OutStatuses, OutKinds, OutPcs)]
    BY <1>1, <1>2, <1>21, Goes DEF MarkExpired, Answer, Proceed
  <2>2. row' \in Rows("OUTBOUND", OutStatuses)
    BY <1>2, <1>21 DEF MarkExpired, SetStatus, Rows, OutStatuses
  <2> QED
    BY <1>2, <1>21, <2>1, <2>2 DEF MarkExpired, dataVars, envVars, OutTypes, Types
<1>22. CASE InboundStep(r)
  BY <1>22 DEF OutTypes, Types, Handlers, OutPcs, Ends, CompletionPoints, OutKinds, At, InboundStep,
     InitiateUpload, InsertUpload, CompleteUpload, DiscardOversized, MarkReceived, PutReport,
     ListReport, Judge, NotifyValidated, SelectOrphan
<1> QED
  BY <1>3, <1>4, <1>5, <1>6, <1>7, <1>8, <1>9, <1>10, <1>11, <1>12, <1>13, <1>14, <1>15, <1>16,
     <1>17, <1>18, <1>19, <1>20, <1>21, <1>22 DEF Step, OutboundStep

LEMMA InNextTypes ==
  ASSUME ExchangeConstants, InTypes, [ExchangeNext]_exchangeVars PROVE InTypes'
<1>1. /\ req \in [Requests -> Handlers(InStatuses, InKinds, InPcs)] /\ "idle" \in InPcs /\ "done" \in InPcs
      /\ row.direction = "INBOUND" /\ store \in [Roles -> Bodies \cup {Absent}] /\ "DATA" \in Roles
  BY DEF InTypes, Types, Rows, Handlers, Roles, InPcs, Ends
<1>2. CASE \E r \in Requests : Step(r)
  BY <1>2, InStepTypes
<1>3. ASSUME NEW r \in Requests, NEW k \in EntryPoints[row.direction], Start(r, k) PROVE InTypes'
  <2>1. k \in InKinds /\ InKinds \subseteq InPcs
    BY <1>1, Tables DEF InPcs
  <2>2. req' \in [Requests -> Handlers(InStatuses, InKinds, InPcs)]
    BY <1>1, <1>3, <2>1, Enters DEF Start
  <2> QED
    BY <1>3, <2>2 DEF Start, dataVars, envVars, InTypes, Types
<1>4. ASSUME NEW body \in Bodies, PutObject(body) PROVE InTypes'
  <2>1. store' \in [Roles -> Bodies \cup {Absent}]
    BY <1>1, <1>4 DEF PutObject, PutStored
  <2>2. puts' \in 0..MaxPuts
    BY <1>4 DEF PutObject, InTypes, Types, ExchangeConstants
  <2> QED
    BY <1>4, <2>1, <2>2 DEF PutObject, InTypes, Types
<1>5. CASE Elapse
  <2>1. over' \in BOOLEAN
    BY <1>5 DEF Elapse
  <2> QED
    BY <1>5, <2>1 DEF Elapse, dataVars, InTypes, Types
<1>6. CASE ServerCrash
  <2>1. \A r \in Requests : [req[r] EXCEPT !.pc = "done"] \in Handlers(InStatuses, InKinds, InPcs)
    BY <1>1 DEF Handlers
  <2>2. req' \in [Requests -> Handlers(InStatuses, InKinds, InPcs)]
    BY <1>1, <1>6, <2>1 DEF ServerCrash
  <2>3. restarts' \in 0..MaxRestarts
    BY <1>6 DEF ServerCrash, InTypes, Types, ExchangeConstants
  <2> QED
    BY <1>6, <2>2, <2>3 DEF ServerCrash, dataVars, InTypes, Types
<1>7. CASE UNCHANGED exchangeVars
  BY <1>7 DEF exchangeVars, dataVars, envVars, InTypes, Types
<1> QED
  BY <1>2, <1>3, <1>4, <1>5, <1>6, <1>7 DEF ExchangeNext

LEMMA OutNextTypes ==
  ASSUME ExchangeConstants, OutTypes, [ExchangeNext]_exchangeVars PROVE OutTypes'
<1>1. /\ req \in [Requests -> Handlers(OutStatuses, OutKinds, OutPcs)] /\ "idle" \in OutPcs /\ "done" \in OutPcs
      /\ row.direction = "OUTBOUND" /\ store \in [Roles -> Bodies \cup {Absent}] /\ "DATA" \in Roles
  BY DEF OutTypes, Types, Rows, Handlers, Roles, OutPcs, Ends
<1>2. CASE \E r \in Requests : Step(r)
  BY <1>2, OutStepTypes
<1>3. ASSUME NEW r \in Requests, NEW k \in EntryPoints[row.direction], Start(r, k) PROVE OutTypes'
  <2>1. k \in OutKinds /\ OutKinds \subseteq OutPcs
    BY <1>1, Tables DEF OutPcs
  <2>2. req' \in [Requests -> Handlers(OutStatuses, OutKinds, OutPcs)]
    BY <1>1, <1>3, <2>1, Enters DEF Start
  <2> QED
    BY <1>3, <2>2 DEF Start, dataVars, envVars, OutTypes, Types
<1>4. ASSUME NEW body \in Bodies, PutObject(body) PROVE OutTypes'
  <2>1. store' \in [Roles -> Bodies \cup {Absent}]
    BY <1>1, <1>4 DEF PutObject, PutStored
  <2>2. puts' \in 0..MaxPuts
    BY <1>4 DEF PutObject, OutTypes, Types, ExchangeConstants
  <2> QED
    BY <1>4, <2>1, <2>2 DEF PutObject, OutTypes, Types
<1>5. CASE Elapse
  <2>1. over' \in BOOLEAN
    BY <1>5 DEF Elapse
  <2> QED
    BY <1>5, <2>1 DEF Elapse, dataVars, OutTypes, Types
<1>6. CASE ServerCrash
  <2>1. \A r \in Requests : [req[r] EXCEPT !.pc = "done"] \in Handlers(OutStatuses, OutKinds, OutPcs)
    BY <1>1 DEF Handlers
  <2>2. req' \in [Requests -> Handlers(OutStatuses, OutKinds, OutPcs)]
    BY <1>1, <1>6, <2>1 DEF ServerCrash
  <2>3. restarts' \in 0..MaxRestarts
    BY <1>6 DEF ServerCrash, OutTypes, Types, ExchangeConstants
  <2> QED
    BY <1>6, <2>2, <2>3 DEF ServerCrash, dataVars, OutTypes, Types
<1>7. CASE UNCHANGED exchangeVars
  BY <1>7 DEF exchangeVars, dataVars, envVars, OutTypes, Types
<1> QED
  BY <1>2, <1>3, <1>4, <1>5, <1>6, <1>7 DEF ExchangeNext

-----------------------------------------------------------------------------
(* An INBOUND exchange.                                                    *)

\* Handlers keep what they know of themselves and of the row's existence.
LEMMA InHandlers ==
  ASSUME ExchangeConstants, InTypes, InTypes', InInv, NEW r \in Requests, Step(r)
  PROVE  \A s \in Requests : InHandler(s)'
<1> SUFFICES ASSUME NEW s \in Requests PROVE InHandler(s)'
  OBVIOUS
<1>0. Absent \notin InStatuses
  BY Tables DEF ExchangeConstants
<1>1. /\ req \in [Requests -> Handlers(InStatuses, InKinds, InPcs)] /\ Inbound /\ row \in Rows("INBOUND", InStatuses)
      /\ store["DATA"] \in Bodies \cup {Absent}
      /\ InHandler(r) /\ InHandler(s) 
  BY DEF InTypes, Types, InInv, Rows, Inbound, Roles
<1>2. CASE InitiateUpload(r)
  BY <1>0, <1>1, <1>2
     DEF InitiateUpload, InHandler, CompletionPoints, Handlers, Rows, At, Proceed, Answer,
     SetStatus, Exists, Pending, dataVars
<1>3. CASE InsertUpload(r)
  BY <1>0, <1>1, <1>3
     DEF InsertUpload, InHandler, CompletionPoints, Handlers, Rows, At, Proceed, Answer,
     SetStatus, Exists, Pending, dataVars, InStatuses, Verdict
<1>4. CASE CompleteUpload(r)
  BY <1>0, <1>1, <1>4
     DEF CompleteUpload, InHandler, CompletionPoints, Handlers, Rows, At, Proceed, Answer,
     SetStatus, Exists, Pending, dataVars, InStatuses, Verdict
<1>5. CASE HeadObject(r)
  BY <1>0, <1>1, <1>5
     DEF HeadObject, InHandler, CompletionPoints, Handlers, Rows, At, Proceed, Answer,
     SetStatus, Exists, Pending, dataVars
<1>6. CASE GetObject(r)
  BY <1>0, <1>1, <1>6
     DEF GetObject, InHandler, CompletionPoints, Handlers, Rows, At, Proceed, Answer,
     SetStatus, Exists, Pending, dataVars
<1>7. CASE DiscardOversized(r)
  BY <1>0, <1>1, <1>7
     DEF DiscardOversized, InHandler, CompletionPoints, Handlers, Rows, At, Proceed,
     Answer, SetStatus, Exists, Pending, dataVars
<1>8. CASE Refuse(r)
  BY <1>0, <1>1, <1>8 DEF Refuse, InHandler, CompletionPoints, Handlers, Rows, At, Proceed, Answer,
     SetStatus, Exists, Pending, dataVars, InStatuses, Verdict
<1>9. CASE RecordChecksum(r)
  BY <1>0, <1>1, <1>9
     DEF RecordChecksum, InHandler, CompletionPoints, Handlers, Rows, At, Proceed, Answer,
     SetStatus, Exists, Pending, dataVars, InStatuses, Verdict
<1>10. CASE MarkReceived(r)
  BY <1>0, <1>1, <1>10
     DEF MarkReceived, InHandler, CompletionPoints, Handlers, Rows, At, Proceed, Answer,
     SetStatus, Exists, Pending, dataVars, InStatuses, Verdict
<1>11. CASE PutManifest(r)
  BY <1>0, <1>1, <1>11
     DEF PutManifest, InHandler, CompletionPoints, Handlers, Rows, At, Proceed, Answer,
     SetStatus, Exists, Pending, dataVars
<1>12. CASE ListManifest(r)
  BY <1>0, <1>1, <1>12
     DEF ListManifest, InHandler, CompletionPoints, Handlers, Rows, At, Proceed, Answer,
     SetStatus, Exists, Pending, dataVars
<1>13. CASE PutReport(r)
  BY <1>0, <1>1, <1>13
     DEF PutReport, InHandler, CompletionPoints, Handlers, Rows, At, Proceed, Answer,
     SetStatus, Exists, Pending, dataVars
<1>14. CASE ListReport(r)
  BY <1>0, <1>1, <1>14
     DEF ListReport, InHandler, CompletionPoints, Handlers, Rows, At, Proceed, Answer,
     SetStatus, Exists, Pending, dataVars
<1>15. CASE Judge(r)
  BY <1>0, <1>1, <1>15 DEF Judge, InHandler, CompletionPoints, Handlers, Rows, At, Proceed, Answer,
     SetStatus, Exists, Pending, dataVars, InStatuses, Verdict
<1>16. CASE NotifyValidated(r)
  BY <1>0, <1>1, <1>16
     DEF NotifyValidated, InHandler, CompletionPoints, Handlers, Rows, At, Proceed, Answer,
     SetStatus, Exists, Pending, dataVars
<1>17. CASE SelectOrphan(r)
  BY <1>0, <1>1, <1>17
     DEF SelectOrphan, InHandler, CompletionPoints, Handlers, Rows, At, Proceed, Answer,
     SetStatus, Exists, Pending, dataVars
<1>18. CASE MarkExpired(r)
  BY <1>0, <1>1, <1>18
     DEF MarkExpired, InHandler, CompletionPoints, Handlers, Rows, At, Proceed, Answer,
     SetStatus, Exists, Pending, dataVars, InStatuses, Verdict
<1>19. CASE OutboundStep(r)
  BY <1>19 DEF InTypes, Types, Handlers, InPcs, Ends, CompletionPoints, InKinds, At, OutboundStep,
     CreateOutbound, Simulate, ListData, CompleteOutbound, MarkExchangeReady, FailOutbound,
     RequestDownloadUrl, SetLegalHold, RequestDeletion, ListObjects, RemoveObject, MarkDeleted,
     Creating
<1> QED
  BY <1>2, <1>3, <1>4, <1>5, <1>6, <1>7, <1>8, <1>9, <1>10, <1>11, <1>12, <1>13, <1>14, <1>15,
     <1>16, <1>17, <1>18, <1>19 DEF Step, InboundStep

\* As long as completions do not overlap, all that is recorded is about the body one of them read.
LEMMA InVerdict ==
  ASSUME ExchangeConstants, InTypes, InTypes', InInv, NEW r \in Requests, Step(r), ~overlapped'
  PROVE  JudgedOnce' /\ \A s \in Requests : OneBody(s)'
<1>0. Absent \notin InStatuses
  BY Tables DEF ExchangeConstants
<1>1. /\ req \in [Requests -> Handlers(InStatuses, InKinds, InPcs)] /\ Inbound /\ row \in Rows("INBOUND", InStatuses)
      /\ store \in [Roles -> Bodies \cup {Absent}] /\ Roles = {"DATA", "MANIFEST", "VALIDATION"}
      /\ \A s \in Requests : InHandler(s)
  BY DEF InTypes, Types, InInv, Rows, Inbound, Roles
<1>2. ~overlapped /\ JudgedOnce /\ \A s \in Requests : OneBody(s)
  <2>1. ~overlapped
    BY DEF Step, InboundStep, OutboundStep, InitiateUpload, InsertUpload, CompleteUpload,
       HeadObject, GetObject, DiscardOversized, Refuse, RecordChecksum, MarkReceived, PutManifest,
       ListManifest, PutReport, ListReport, Judge, NotifyValidated, SelectOrphan, MarkExpired,
       CreateOutbound, Simulate, ListData, CompleteOutbound, MarkExchangeReady, FailOutbound,
       RequestDownloadUrl, SetLegalHold, RequestDeletion, ListObjects, RemoveObject, MarkDeleted,
       envVars, InTypes, Types
  <2> QED
    BY <2>1 DEF InInv
<1>3. ASSUME req[r].pc \in CompletionPoints
      PROVE  /\ \A s \in Requests \ {r} : req[s].pc \notin CompletionPoints
             /\ row.status \notin Verdicts /\ ~notified /\ \A s \in Requests : req[s].pc # "notify"
  BY <1>2, <1>3 DEF OneBody, JudgedOnce, Announced
<1>4. CASE InitiateUpload(r)
  <2>1. \A s \in Requests : OneBody(s)'
    BY <1>0, <1>1, <1>2, <1>4
       DEF InitiateUpload, InHandler, OneBody, CompletionPoints, Handlers, Rows,
       At, Proceed, Answer, SetStatus, AddFile, PutStored, Exists, Pending, dataVars, envVars
  <2>2. JudgedOnce'
    BY <1>0, <1>1, <1>2, <1>4 DEF InitiateUpload, JudgedOnce, Announced, Verdicts, InHandler,
       OneBody, CompletionPoints, Handlers, Rows, At, Proceed, Answer, SetStatus, AddFile, PutStored,
       Exists, Pending, dataVars, envVars
  <2> QED
    BY <2>1, <2>2
<1>5. CASE InsertUpload(r)
  <2>1. \A s \in Requests : OneBody(s)'
    BY <1>0, <1>1, <1>2, <1>5
       DEF InsertUpload, InHandler, OneBody, CompletionPoints, Handlers, Rows,
       At, Proceed, Answer, SetStatus, AddFile, PutStored, Exists, Pending, dataVars, envVars,
       InStatuses, Verdict
  <2>2. JudgedOnce'
    BY <1>0, <1>1, <1>2, <1>5 DEF InsertUpload, JudgedOnce, Announced, Verdicts, InHandler,
       OneBody, CompletionPoints, Handlers, Rows, At, Proceed, Answer, SetStatus, AddFile, PutStored,
       Exists, Pending, dataVars, envVars, InStatuses, Verdict
  <2> QED
    BY <2>1, <2>2
<1>6. CASE CompleteUpload(r)
  <2>1. row.status \in Pending => \A s \in Requests : req[s].pc \notin CompletionPoints
    BY <1>6 DEF CompleteUpload
  <2>2. \A s \in Requests : OneBody(s)'
    <3>1. CASE row.status \in Pending
      BY <1>0, <1>1, <1>2, <1>6, <2>1, <3>1
         DEF CompleteUpload, InHandler, OneBody, CompletionPoints,
         Handlers, Rows, At, Proceed, Answer, SetStatus, AddFile, PutStored, Exists, Pending,
         dataVars, envVars
    <3>2. CASE row.status \notin Pending
      BY <1>0, <1>1, <1>2, <1>6, <3>2 DEF CompleteUpload, InHandler, OneBody, CompletionPoints,
         Handlers, Rows, At, Proceed, Answer, SetStatus, AddFile, PutStored, Exists, Pending,
         dataVars, envVars
    <3> QED
      BY <3>1, <3>2
  <2>3. JudgedOnce'
    BY <1>0, <1>1, <1>2, <1>6 DEF CompleteUpload, JudgedOnce, Announced, Verdicts, InHandler,
       OneBody, CompletionPoints, Handlers, Rows, At, Proceed, Answer, SetStatus, AddFile, PutStored,
       Exists, Pending, dataVars, envVars, InStatuses
  <2> QED
    BY <2>2, <2>3
<1>7. CASE HeadObject(r)
  <2>1. \A s \in Requests : OneBody(s)'
    BY <1>0, <1>1, <1>2, <1>3, <1>7 DEF HeadObject, InHandler, OneBody, CompletionPoints, Handlers,
       Rows, At, Proceed, Answer, SetStatus, AddFile, PutStored, Exists, Pending, dataVars, envVars
  <2>2. JudgedOnce'
    BY <1>0, <1>1, <1>2, <1>3, <1>7 DEF HeadObject, JudgedOnce, Announced, Verdicts, InHandler,
       OneBody, CompletionPoints, Handlers, Rows, At, Proceed, Answer, SetStatus, AddFile, PutStored,
       Exists, Pending, dataVars, envVars
  <2> QED
    BY <2>1, <2>2
<1>8. CASE GetObject(r)
  <2>1. \A s \in Requests : OneBody(s)'
    BY <1>0, <1>1, <1>2, <1>3, <1>8
       DEF GetObject, InHandler, OneBody, CompletionPoints, Handlers, Rows,
       At, Proceed, Answer, SetStatus, AddFile, PutStored, Exists, Pending, dataVars, envVars
  <2>2. JudgedOnce'
    BY <1>0, <1>1, <1>2, <1>3, <1>8 DEF GetObject, JudgedOnce, Announced, Verdicts, InHandler,
       OneBody, CompletionPoints, Handlers, Rows, At, Proceed, Answer, SetStatus, AddFile, PutStored,
       Exists, Pending, dataVars, envVars
  <2> QED
    BY <2>1, <2>2
<1>9. CASE DiscardOversized(r)
  <2>1. \A s \in Requests : OneBody(s)'
    BY <1>0, <1>1, <1>2, <1>3, <1>9 DEF DiscardOversized, InHandler, OneBody, CompletionPoints,
       Handlers, Rows, At, Proceed, Answer, SetStatus, AddFile, PutStored, Exists, Pending, dataVars,
       envVars
  <2>2. JudgedOnce'
    BY <1>0, <1>1, <1>2, <1>3, <1>9 DEF DiscardOversized, JudgedOnce, Announced, Verdicts,
       InHandler, OneBody, CompletionPoints, Handlers, Rows, At, Proceed, Answer, SetStatus, AddFile,
       PutStored, Exists, Pending, dataVars, envVars
  <2> QED
    BY <2>1, <2>2
<1>10. CASE Refuse(r)
  <2>1. \A s \in Requests : OneBody(s)'
    BY <1>0, <1>1, <1>2, <1>3, <1>10
       DEF Refuse, InHandler, OneBody, CompletionPoints, Handlers, Rows,
       At, Proceed, Answer, SetStatus, AddFile, PutStored, Exists, Pending, dataVars, envVars,
       InStatuses, Verdict
  <2>2. JudgedOnce'
    BY <1>0, <1>1, <1>2, <1>3, <1>10 DEF Refuse, JudgedOnce, Announced, Verdicts, InHandler,
       OneBody, CompletionPoints, Handlers, Rows, At, Proceed, Answer, SetStatus, AddFile, PutStored,
       Exists, Pending, dataVars, envVars, InStatuses, Verdict
  <2> QED
    BY <2>1, <2>2
<1>11. CASE RecordChecksum(r)
  <2>1. \A s \in Requests : OneBody(s)'
    BY <1>0, <1>1, <1>2, <1>3, <1>11
       DEF RecordChecksum, InHandler, OneBody, CompletionPoints, Handlers,
       Rows, At, Proceed, Answer, SetStatus, AddFile, PutStored, Exists, Pending, dataVars, envVars,
       InStatuses, Verdict
  <2>2. JudgedOnce'
    BY <1>0, <1>1, <1>2, <1>3, <1>11 DEF RecordChecksum, JudgedOnce, Announced, Verdicts,
       InHandler, OneBody, CompletionPoints, Handlers, Rows, At, Proceed, Answer, SetStatus, AddFile,
       PutStored, Exists, Pending, dataVars, envVars, InStatuses, Verdict
  <2> QED
    BY <2>1, <2>2
<1>12. CASE MarkReceived(r)
  <2>1. \A s \in Requests : OneBody(s)'
    BY <1>0, <1>1, <1>2, <1>3, <1>12
       DEF MarkReceived, InHandler, OneBody, CompletionPoints, Handlers, Rows,
       At, Proceed, Answer, SetStatus, AddFile, PutStored, Exists, Pending, dataVars, envVars,
       InStatuses, Verdict
  <2>2. JudgedOnce'
    BY <1>0, <1>1, <1>2, <1>3, <1>12 DEF MarkReceived, JudgedOnce, Announced, Verdicts, InHandler,
       OneBody, CompletionPoints, Handlers, Rows, At, Proceed, Answer, SetStatus, AddFile, PutStored,
       Exists, Pending, dataVars, envVars, InStatuses, Verdict
  <2> QED
    BY <2>1, <2>2
<1>13. CASE PutManifest(r)
  <2>1. \A s \in Requests : OneBody(s)'
    BY <1>0, <1>1, <1>2, <1>3, <1>13
       DEF PutManifest, InHandler, OneBody, CompletionPoints, Handlers,
       Rows, At, Proceed, Answer, SetStatus, AddFile, PutStored, Exists, Pending, dataVars, envVars
  <2>2. JudgedOnce'
    BY <1>0, <1>1, <1>2, <1>3, <1>13 DEF PutManifest, JudgedOnce, Announced, Verdicts, InHandler,
       OneBody, CompletionPoints, Handlers, Rows, At, Proceed, Answer, SetStatus, AddFile, PutStored,
       Exists, Pending, dataVars, envVars
  <2> QED
    BY <2>1, <2>2
<1>14. CASE ListManifest(r)
  <2>1. \A s \in Requests : OneBody(s)'
    BY <1>0, <1>1, <1>2, <1>3, <1>14
       DEF ListManifest, InHandler, OneBody, CompletionPoints, Handlers,
       Rows, At, Proceed, Answer, SetStatus, AddFile, PutStored, Exists, Pending, dataVars, envVars
  <2>2. JudgedOnce'
    BY <1>0, <1>1, <1>2, <1>3, <1>14 DEF ListManifest, JudgedOnce, Announced, Verdicts, InHandler,
       OneBody, CompletionPoints, Handlers, Rows, At, Proceed, Answer, SetStatus, AddFile, PutStored,
       Exists, Pending, dataVars, envVars
  <2> QED
    BY <2>1, <2>2
<1>15. CASE PutReport(r)
  <2>1. \A s \in Requests : OneBody(s)'
    BY <1>0, <1>1, <1>2, <1>3, <1>15 DEF PutReport, InHandler, OneBody, CompletionPoints, Handlers,
       Rows, At, Proceed, Answer, SetStatus, AddFile, PutStored, Exists, Pending, dataVars, envVars
  <2>2. JudgedOnce'
    BY <1>0, <1>1, <1>2, <1>3, <1>15 DEF PutReport, JudgedOnce, Announced, Verdicts, InHandler,
       OneBody, CompletionPoints, Handlers, Rows, At, Proceed, Answer, SetStatus, AddFile, PutStored,
       Exists, Pending, dataVars, envVars
  <2> QED
    BY <2>1, <2>2
<1>16. CASE ListReport(r)
  <2>1. \A s \in Requests : OneBody(s)'
    BY <1>0, <1>1, <1>2, <1>3, <1>16 DEF ListReport, InHandler, OneBody, CompletionPoints, Handlers,
       Rows, At, Proceed, Answer, SetStatus, AddFile, PutStored, Exists, Pending, dataVars, envVars
  <2>2. JudgedOnce'
    BY <1>0, <1>1, <1>2, <1>3, <1>16 DEF ListReport, JudgedOnce, Announced, Verdicts, InHandler,
       OneBody, CompletionPoints, Handlers, Rows, At, Proceed, Answer, SetStatus, AddFile, PutStored,
       Exists, Pending, dataVars, envVars
  <2> QED
    BY <2>1, <2>2
<1>17. CASE Judge(r)
  <2>1. \A s \in Requests : OneBody(s)'
    BY <1>0, <1>1, <1>2, <1>3, <1>17
       DEF Judge, InHandler, OneBody, CompletionPoints, Handlers, Rows,
       At, Proceed, Answer, SetStatus, AddFile, PutStored, Exists, Pending, dataVars, envVars,
       InStatuses, Verdict
  <2>2. JudgedOnce'
    BY <1>0, <1>1, <1>2, <1>3, <1>17 DEF Judge, JudgedOnce, Announced, Verdicts, InHandler,
       OneBody, CompletionPoints, Handlers, Rows, At, Proceed, Answer, SetStatus, AddFile, PutStored,
       Exists, Pending, dataVars, envVars, InStatuses, Verdict
  <2> QED
    BY <2>1, <2>2
<1>18. CASE NotifyValidated(r)
  <2>1. \A s \in Requests : OneBody(s)'
    BY <1>0, <1>1, <1>2, <1>18
       DEF NotifyValidated, InHandler, OneBody, CompletionPoints, Handlers, Rows, At,
       Proceed, Answer, SetStatus, AddFile, PutStored, Exists, Pending, dataVars, envVars
  <2>2. JudgedOnce'
    BY <1>0, <1>1, <1>2, <1>18
       DEF NotifyValidated, JudgedOnce, Announced, Verdicts, InHandler, OneBody,
       CompletionPoints, Handlers, Rows, At, Proceed, Answer, SetStatus, AddFile, PutStored, Exists,
       Pending, dataVars, envVars
  <2> QED
    BY <2>1, <2>2
<1>19. CASE SelectOrphan(r)
  <2>1. \A s \in Requests : OneBody(s)'
    BY <1>0, <1>1, <1>2, <1>19
       DEF SelectOrphan, InHandler, OneBody, CompletionPoints, Handlers, Rows,
       At, Proceed, Answer, SetStatus, AddFile, PutStored, Exists, Pending, dataVars, envVars
  <2>2. JudgedOnce'
    BY <1>0, <1>1, <1>2, <1>19 DEF SelectOrphan, JudgedOnce, Announced, Verdicts, InHandler,
       OneBody, CompletionPoints, Handlers, Rows, At, Proceed, Answer, SetStatus, AddFile, PutStored,
       Exists, Pending, dataVars, envVars
  <2> QED
    BY <2>1, <2>2
<1>20. CASE MarkExpired(r)
  <2>1. \A s \in Requests : OneBody(s)'
    BY <1>0, <1>1, <1>2, <1>20
       DEF MarkExpired, InHandler, OneBody, CompletionPoints, Handlers, Rows,
       At, Proceed, Answer, SetStatus, AddFile, PutStored, Exists, Pending, dataVars, envVars,
       InStatuses, Verdict
  <2>2. JudgedOnce'
    BY <1>0, <1>1, <1>2, <1>20 DEF MarkExpired, JudgedOnce, Announced, Verdicts, InHandler,
       OneBody, CompletionPoints, Handlers, Rows, At, Proceed, Answer, SetStatus, AddFile, PutStored,
       Exists, Pending, dataVars, envVars, InStatuses, Verdict
  <2> QED
    BY <2>1, <2>2
<1>21. CASE OutboundStep(r)
  BY <1>1, <1>21
     DEF Handlers, InPcs, Ends, CompletionPoints, InKinds, At, OutboundStep, CreateOutbound,
     Simulate, ListData, CompleteOutbound, MarkExchangeReady, FailOutbound, RequestDownloadUrl,
     SetLegalHold, RequestDeletion, ListObjects, RemoveObject, MarkDeleted, Creating
<1> QED
  BY <1>4, <1>5, <1>6, <1>7, <1>8, <1>9, <1>10, <1>11, <1>12, <1>13, <1>14, <1>15, <1>16, <1>17,
     <1>18, <1>19, <1>20, <1>21 DEF Step, InboundStep

LEMMA InNext ==
  ASSUME ExchangeConstants, InTypes, InTypes', InInv, [ExchangeNext]_exchangeVars PROVE InInv'
<1> USE DEF InInv, InHandler
<1>0. Absent \notin InStatuses
  BY Tables DEF ExchangeConstants
<1>1. /\ req \in [Requests -> Handlers(InStatuses, InKinds, InPcs)] /\ Inbound /\ row.direction = "INBOUND"
      /\ store \in [Roles -> Bodies \cup {Absent}] /\ Roles = {"DATA", "MANIFEST", "VALIDATION"}
  BY DEF InTypes, Types, Inbound, Rows, Roles
<1>2. CASE \E r \in Requests : Step(r)
  BY <1>2, InHandlers, InVerdict DEF InInv
<1>3. ASSUME NEW r \in Requests, NEW k \in EntryPoints[row.direction], Start(r, k) PROVE InInv'
  <2>1. k \in InKinds
    BY <1>1, Tables
  <2>2. k \notin CompletionPoints /\ k # "notify" /\ k # "expire"
    BY <2>1 DEF InKinds, CompletionPoints
  <2>3. \A s \in Requests : /\ req'[s].deletion = req[s].deletion /\ req'[s].todo = req[s].todo
                            /\ req'[s].body = req[s].body /\ req'[s].saw = req[s].saw
                            /\ req'[s].pc = IF s = r THEN k ELSE req[s].pc
    BY <1>1, <1>3 DEF Start, Handlers
  <2>4. /\ UNCHANGED <<row, files, store, notified, overlapped>> /\ req[r].pc = "idle"
    BY <1>3 DEF Start, dataVars, envVars, At
  <2>5. \A s \in Requests : InHandler(s)'
    BY <2>2, <2>3, <2>4 DEF Exists
  <2>6. \A s \in Requests : OneBody(s) /\ (\A q \in Requests : OneBody(q)) => OneBody(s)'
    BY <2>2, <2>3, <2>4 DEF OneBody, CompletionPoints
  <2>7. JudgedOnce => JudgedOnce'
    BY <2>2, <2>3, <2>4 DEF JudgedOnce, Announced, Exists
  <2> QED
    BY <2>4, <2>5, <2>6, <2>7
<1>4. ASSUME NEW body \in Bodies, PutObject(body) PROVE InInv'
  <2>1. /\ UNCHANGED <<row, files, req, notified, overlapped>>
        /\ store'["MANIFEST"] = store["MANIFEST"] /\ store'["VALIDATION"] = store["VALIDATION"]
    BY <1>1, <1>4 DEF PutObject, PutStored
  <2> QED
    BY <2>1 DEF JudgedOnce, Announced, OneBody, Exists
<1>5. CASE Elapse
  BY <1>5 DEF Elapse, dataVars, JudgedOnce, Announced, OneBody, Exists
<1>6. CASE ServerCrash
  <2>1. \A s \in Requests : /\ req'[s].deletion = req[s].deletion /\ req'[s].todo = req[s].todo
                            /\ req'[s].pc = IF req[s].pc = "idle" THEN "idle" ELSE "done"
    BY <1>1, <1>6 DEF ServerCrash, Handlers, At
  <2>2. UNCHANGED <<row, files, store, notified, overlapped>>
    BY <1>6 DEF ServerCrash, dataVars
  <2>3. \A s \in Requests : InHandler(s)' /\ OneBody(s)'
    BY <2>1 DEF OneBody, CompletionPoints
  <2>4. JudgedOnce => JudgedOnce'
    BY <2>1, <2>2 DEF JudgedOnce, Announced, Exists, CompletionPoints
  <2> QED
    BY <2>2, <2>3, <2>4
<1>7. CASE UNCHANGED exchangeVars
  BY <1>7 DEF exchangeVars, dataVars, envVars, JudgedOnce, Announced, OneBody, Exists
<1> QED
  BY <1>2, <1>3, <1>4, <1>5, <1>6, <1>7 DEF ExchangeNext

-----------------------------------------------------------------------------
(* An OUTBOUND exchange.                                                   *)

LEMMA OutHandlers ==
  ASSUME ExchangeConstants, OutTypes, OutTypes', OutInv, NEW r \in Requests, Step(r)
  PROVE  OutInv'
<1>0. Absent \notin OutStatuses /\ Absent \notin Bodies
  BY Tables DEF ExchangeConstants
<1>1. /\ req \in [Requests -> Handlers(OutStatuses, OutKinds, OutPcs)] /\ ~Inbound /\ row \in Rows("OUTBOUND", OutStatuses)
      /\ store \in [Roles -> Bodies \cup {Absent}] /\ Roles = {"DATA", "MANIFEST", "VALIDATION"}
      /\ files \in SUBSET Roles
      /\ \A s \in Requests : OutHandler(s)
      /\ row.checksum \in {Absent, "valid"}
      /\ row.status = "EXPIRED" => over
      /\ row.status = "READY" => row.checksum = "valid" /\ (store["DATA"] = "valid" \/ DeletionUnderWay)
  BY DEF OutTypes, Types, OutInv, Rows, Inbound, Roles
<1>2. CASE CreateOutbound(r)
  <2>0. ~over /\ \A s \in Requests : req[s].todo = {} /\ ~Deleting(s) /\ req[s].pc # "remove"
    BY <1>1, <1>2 DEF CreateOutbound, Creating, OutHandler, Publishing, Deleting, At
  <2>1. \A s \in Requests : OutHandler(s)'
    <3> SUFFICES ASSUME NEW s \in Requests PROVE OutHandler(s)'
      OBVIOUS
    <3>1. row'.checksum = row.checksum \/ row'.checksum = "valid"
      BY <1>1, <1>2 DEF CreateOutbound, SetStatus, Rows
    <3>2. UNCHANGED <<store, over>> /\ req[r].pc \in Creating
      BY <1>2 DEF CreateOutbound, envVars
    <3>3. CASE s # r
      <4>1. req'[s] = req[s]
        BY <1>1, <1>2, <3>3 DEF CreateOutbound, Answer, Proceed
      <4> QED
        BY <1>1, <2>0, <3>1, <3>2, <4>1 DEF OutHandler, Deleting
    <3>4. CASE s = r
      <4>1. /\ req'[r].pc \in {"done", "generate"} /\ req'[r].kind = req[r].kind
            /\ req'[r].pc = "generate" => req[r].pc = "simulate"
            /\ req'[r].todo = req[r].todo /\ req'[r].deletion = req[r].deletion
        BY <1>1, <1>2 DEF CreateOutbound, Creating, Answer, Proceed, At, Handlers
      <4> QED
        BY <1>1, <2>0, <3>1, <3>2, <3>4, <4>1 DEF OutHandler, Deleting, Publishing, Creating
    <3> QED
      BY <3>3, <3>4
  <2>2. /\ row'.status = "PREPARING" /\ over' = over /\ store' = store
        /\ row'.checksum \in {row.checksum, "valid"}
    BY <1>1, <1>2 DEF CreateOutbound, SetStatus, Rows, envVars
  <2>3. /\ row'.checksum \in {Absent, "valid"}
        /\ row'.status = "EXPIRED" => over'
    <3>1. row.checksum \in {Absent, "valid"}
      BY <1>1
    <3> QED
      BY <2>2, <3>1
  <2>4. row'.status = "READY" =>
          row'.checksum = "valid" /\ (store'["DATA"] = "valid" \/ DeletionUnderWay')
    BY <2>2
  <2> QED
    BY <2>1, <2>3, <2>4 DEF OutInv
<1>3. CASE Simulate(r)
  <2>1. \A s \in Requests : OutHandler(s)'
    BY <1>0, <1>1, <1>3 DEF Simulate, OutHandler, Publishing, Deleting, Handlers, Rows, At, Proceed,
       Answer, SetStatus, AddFile, PutStored, Exists, dataVars, envVars
  <2>2. /\ row'.checksum \in {Absent, "valid"}
        /\ row'.status = "EXPIRED" => over'
    BY <1>0, <1>1, <1>3 DEF Simulate, OutHandler, Publishing, Deleting, Handlers, Rows, At, Proceed,
       Answer, SetStatus, AddFile, PutStored, Exists, dataVars, envVars
  <2>3. DeletionUnderWay => DeletionUnderWay'
    BY <1>1, <1>3 DEF Simulate, OutHandler, Publishing, Deleting, Handlers, Rows, At, Proceed,
       Answer, SetStatus, AddFile, PutStored, Exists, dataVars, envVars, DeletionUnderWay
  <2>4. row'.status = "READY" =>
          row'.checksum = "valid" /\ (store'["DATA"] = "valid" \/ DeletionUnderWay')
    BY <1>0, <1>1, <1>3, <2>3 DEF Simulate, OutHandler, Publishing, Deleting, Handlers, Rows, At,
       Proceed, Answer, SetStatus, AddFile, PutStored, Exists, dataVars, envVars
  <2> QED
    BY <2>1, <2>2, <2>4 DEF OutInv
<1>4. CASE ListData(r)
  <2>1. \A s \in Requests : OutHandler(s)'
    BY <1>0, <1>1, <1>4 DEF ListData, OutHandler, Publishing, Deleting, Handlers, Rows, At, Proceed,
       Answer, SetStatus, AddFile, PutStored, Exists, dataVars, envVars, OutStatuses
  <2>2. /\ row'.checksum \in {Absent, "valid"}
        /\ row'.status = "EXPIRED" => over'
    BY <1>0, <1>1, <1>4 DEF ListData, OutHandler, Publishing, Deleting, Handlers, Rows, At, Proceed,
       Answer, SetStatus, AddFile, PutStored, Exists, dataVars, envVars, OutStatuses
  <2>3. DeletionUnderWay => DeletionUnderWay'
    BY <1>1, <1>4 DEF ListData, OutHandler, Publishing, Deleting, Handlers, Rows, At, Proceed,
       Answer, SetStatus, AddFile, PutStored, Exists, dataVars, envVars, OutStatuses,
       DeletionUnderWay
  <2>4. row'.status = "READY" =>
          row'.checksum = "valid" /\ (store'["DATA"] = "valid" \/ DeletionUnderWay')
    BY <1>0, <1>1, <1>4, <2>3 DEF ListData, OutHandler, Publishing, Deleting, Handlers, Rows, At,
       Proceed, Answer, SetStatus, AddFile, PutStored, Exists, dataVars, envVars, OutStatuses
  <2> QED
    BY <2>1, <2>2, <2>4 DEF OutInv
<1>5. CASE CompleteOutbound(r)
  <2>1. \A s \in Requests : OutHandler(s)'
    BY <1>0, <1>1, <1>5 DEF CompleteOutbound, OutHandler, Publishing, Deleting, Handlers, Rows,
       At, Proceed, Answer, SetStatus, AddFile, PutStored, Exists, dataVars, envVars
  <2>2. /\ row'.checksum \in {Absent, "valid"}
        /\ row'.status = "EXPIRED" => over'
    BY <1>0, <1>1, <1>5 DEF CompleteOutbound, OutHandler, Publishing, Deleting, Handlers, Rows,
       At, Proceed, Answer, SetStatus, AddFile, PutStored, Exists, dataVars, envVars
  <2>3. DeletionUnderWay => DeletionUnderWay'
    BY <1>1, <1>5 DEF CompleteOutbound, OutHandler, Publishing, Deleting, Handlers, Rows, At,
       Proceed, Answer, SetStatus, AddFile, PutStored, Exists, dataVars, envVars, DeletionUnderWay
  <2>4. row'.status = "READY" =>
          row'.checksum = "valid" /\ (store'["DATA"] = "valid" \/ DeletionUnderWay')
    BY <1>0, <1>1, <1>5, <2>3 DEF CompleteOutbound, OutHandler, Publishing, Deleting, Handlers,
       Rows, At, Proceed, Answer, SetStatus, AddFile, PutStored, Exists, dataVars, envVars
  <2> QED
    BY <2>1, <2>2, <2>4 DEF OutInv
<1>6. CASE MarkExchangeReady(r)
  <2>1. \A s \in Requests : OutHandler(s)'
    BY <1>0, <1>1, <1>6
       DEF MarkExchangeReady, OutHandler, Publishing, Deleting, Handlers, Rows, At, Proceed,
       Answer, SetStatus, AddFile, PutStored, Exists, dataVars, envVars, OutStatuses
  <2>2. /\ row'.checksum \in {Absent, "valid"}
        /\ row'.status = "EXPIRED" => over'
    BY <1>0, <1>1, <1>6
       DEF MarkExchangeReady, OutHandler, Publishing, Deleting, Handlers, Rows, At, Proceed,
       Answer, SetStatus, AddFile, PutStored, Exists, dataVars, envVars, OutStatuses
  <2>3. DeletionUnderWay => DeletionUnderWay'
    BY <1>1, <1>6
       DEF MarkExchangeReady, OutHandler, Publishing, Deleting, Handlers, Rows, At, Proceed,
       Answer, SetStatus, AddFile, PutStored, Exists, dataVars, envVars, OutStatuses,
       DeletionUnderWay
  <2>4. row'.status = "READY" =>
          row'.checksum = "valid" /\ (store'["DATA"] = "valid" \/ DeletionUnderWay')
    BY <1>0, <1>1, <1>6, <2>3
       DEF MarkExchangeReady, OutHandler, Publishing, Deleting, Handlers, Rows, At,
       Proceed, Answer, SetStatus, AddFile, PutStored, Exists, dataVars, envVars, OutStatuses
  <2> QED
    BY <2>1, <2>2, <2>4 DEF OutInv
<1>7. CASE FailOutbound(r)
  <2>1. \A s \in Requests : OutHandler(s)'
    BY <1>0, <1>1, <1>7 DEF FailOutbound, OutHandler, Publishing, Deleting, Handlers, Rows, At,
       Proceed, Answer, SetStatus, AddFile, PutStored, Exists, dataVars, envVars
  <2>2. /\ row'.checksum \in {Absent, "valid"}
        /\ row'.status = "EXPIRED" => over'
    BY <1>0, <1>1, <1>7 DEF FailOutbound, OutHandler, Publishing, Deleting, Handlers, Rows, At,
       Proceed, Answer, SetStatus, AddFile, PutStored, Exists, dataVars, envVars
  <2>3. DeletionUnderWay => DeletionUnderWay'
    BY <1>1, <1>7 DEF FailOutbound, OutHandler, Publishing, Deleting, Handlers, Rows, At, Proceed,
       Answer, SetStatus, AddFile, PutStored, Exists, dataVars, envVars, DeletionUnderWay
  <2>4. row'.status = "READY" =>
          row'.checksum = "valid" /\ (store'["DATA"] = "valid" \/ DeletionUnderWay')
    BY <1>0, <1>1, <1>7, <2>3 DEF FailOutbound, OutHandler, Publishing, Deleting, Handlers, Rows,
       At, Proceed, Answer, SetStatus, AddFile, PutStored, Exists, dataVars, envVars
  <2> QED
    BY <2>1, <2>2, <2>4 DEF OutInv
<1>8. CASE RequestDownloadUrl(r)
  <2>1. \A s \in Requests : OutHandler(s)'
    BY <1>0, <1>1, <1>8 DEF RequestDownloadUrl, OutHandler, Publishing, Deleting, Handlers, Rows,
       At, Proceed, Answer, SetStatus, AddFile, PutStored, Exists, dataVars, envVars
  <2>2. /\ row'.checksum \in {Absent, "valid"}
        /\ row'.status = "EXPIRED" => over'
    BY <1>0, <1>1, <1>8 DEF RequestDownloadUrl, OutHandler, Publishing, Deleting, Handlers, Rows,
       At, Proceed, Answer, SetStatus, AddFile, PutStored, Exists, dataVars, envVars
  <2>3. DeletionUnderWay => DeletionUnderWay'
    BY <1>1, <1>8 DEF RequestDownloadUrl, OutHandler, Publishing, Deleting, Handlers, Rows, At,
       Proceed, Answer, SetStatus, AddFile, PutStored, Exists, dataVars, envVars, DeletionUnderWay
  <2>4. row'.status = "READY" =>
          row'.checksum = "valid" /\ (store'["DATA"] = "valid" \/ DeletionUnderWay')
    BY <1>0, <1>1, <1>8, <2>3 DEF RequestDownloadUrl, OutHandler, Publishing, Deleting, Handlers,
       Rows, At, Proceed, Answer, SetStatus, AddFile, PutStored, Exists, dataVars, envVars
  <2> QED
    BY <2>1, <2>2, <2>4 DEF OutInv
<1>9. CASE SetLegalHold(r)
  <2>1. \A s \in Requests : OutHandler(s)'
    BY <1>0, <1>1, <1>9 DEF SetLegalHold, OutHandler, Publishing, Deleting, Handlers, Rows, At,
       Proceed, Answer, SetStatus, AddFile, PutStored, Exists, dataVars, envVars, OutStatuses
  <2>2. /\ row'.checksum \in {Absent, "valid"}
        /\ row'.status = "EXPIRED" => over'
    BY <1>0, <1>1, <1>9 DEF SetLegalHold, OutHandler, Publishing, Deleting, Handlers, Rows, At,
       Proceed, Answer, SetStatus, AddFile, PutStored, Exists, dataVars, envVars, OutStatuses
  <2>3. DeletionUnderWay => DeletionUnderWay'
    BY <1>1, <1>9 DEF SetLegalHold, OutHandler, Publishing, Deleting, Handlers, Rows, At, Proceed,
       Answer, SetStatus, AddFile, PutStored, Exists, dataVars, envVars, OutStatuses,
       DeletionUnderWay
  <2>4. row'.status = "READY" =>
          row'.checksum = "valid" /\ (store'["DATA"] = "valid" \/ DeletionUnderWay')
    BY <1>0, <1>1, <1>9, <2>3 DEF SetLegalHold, OutHandler, Publishing, Deleting, Handlers, Rows,
       At, Proceed, Answer, SetStatus, AddFile, PutStored, Exists, dataVars, envVars, OutStatuses
  <2> QED
    BY <2>1, <2>2, <2>4 DEF OutInv
<1>10. CASE RequestDeletion(r)
  <2>1. \A s \in Requests : OutHandler(s)'
    BY <1>0, <1>1, <1>10 DEF RequestDeletion, Eligible, OutHandler, Publishing, Deleting,
       Handlers, Rows, At, Proceed, Answer, SetStatus, AddFile, PutStored, Exists, dataVars, envVars,
       OutStatuses
  <2>2. /\ row'.checksum \in {Absent, "valid"}
        /\ row'.status = "EXPIRED" => over'
    BY <1>0, <1>1, <1>10 DEF RequestDeletion, Eligible, OutHandler, Publishing, Deleting,
       Handlers, Rows, At, Proceed, Answer, SetStatus, AddFile, PutStored, Exists, dataVars, envVars,
       OutStatuses
  <2>3. DeletionUnderWay => DeletionUnderWay'
    BY <1>1, <1>10 DEF RequestDeletion, Eligible, OutHandler, Publishing, Deleting, Handlers,
       Rows, At, Proceed, Answer, SetStatus, AddFile, PutStored, Exists, dataVars, envVars,
       OutStatuses, DeletionUnderWay
  <2>4. row'.status = "READY" =>
          row'.checksum = "valid" /\ (store'["DATA"] = "valid" \/ DeletionUnderWay')
    BY <1>0, <1>1, <1>10, <2>3 DEF RequestDeletion, Eligible, OutHandler, Publishing, Deleting,
       Handlers, Rows, At, Proceed, Answer, SetStatus, AddFile, PutStored, Exists, dataVars, envVars,
       OutStatuses
  <2> QED
    BY <2>1, <2>2, <2>4 DEF OutInv
<1>11. CASE ListObjects(r)
  <2>1. \A s \in Requests : OutHandler(s)'
    BY <1>0, <1>1, <1>11 DEF ListObjects, OutHandler, Publishing, Deleting, Handlers, Rows, At,
       Proceed, Answer, SetStatus, AddFile, PutStored, Exists, dataVars, envVars
  <2>2. /\ row'.checksum \in {Absent, "valid"}
        /\ row'.status = "EXPIRED" => over'
    BY <1>0, <1>1, <1>11 DEF ListObjects, OutHandler, Publishing, Deleting, Handlers, Rows, At,
       Proceed, Answer, SetStatus, AddFile, PutStored, Exists, dataVars, envVars
  <2>3. DeletionUnderWay => DeletionUnderWay'
    BY <1>1, <1>11 DEF ListObjects, OutHandler, Publishing, Deleting, Handlers, Rows, At, Proceed,
       Answer, SetStatus, AddFile, PutStored, Exists, dataVars, envVars, DeletionUnderWay
  <2>4. row'.status = "READY" =>
          row'.checksum = "valid" /\ (store'["DATA"] = "valid" \/ DeletionUnderWay')
    BY <1>0, <1>1, <1>11, <2>3 DEF ListObjects, OutHandler, Publishing, Deleting, Handlers, Rows,
       At, Proceed, Answer, SetStatus, AddFile, PutStored, Exists, dataVars, envVars
  <2> QED
    BY <2>1, <2>2, <2>4 DEF OutInv
<1>12. CASE RemoveObject(r)
  <2>0. DeletionUnderWay
    BY <1>1, <1>12 DEF RemoveObject, DeletionUnderWay, OutHandler, At
  <2>1. \A s \in Requests : OutHandler(s)'
    BY <1>0, <1>1, <1>12 DEF RemoveObject, OutHandler, Publishing, Deleting, Handlers, Rows, At,
       Proceed, Answer, SetStatus, AddFile, PutStored, Exists, dataVars, envVars
  <2>2. /\ row'.checksum \in {Absent, "valid"}
        /\ row'.status = "EXPIRED" => over'
    BY <1>0, <1>1, <1>12 DEF RemoveObject, OutHandler, Publishing, Deleting, Handlers, Rows, At,
       Proceed, Answer, SetStatus, AddFile, PutStored, Exists, dataVars, envVars
  <2>3. DeletionUnderWay => DeletionUnderWay'
    BY <1>1, <1>12 DEF RemoveObject, OutHandler, Publishing, Deleting, Handlers, Rows, At, Proceed,
       Answer, SetStatus, AddFile, PutStored, Exists, dataVars, envVars, DeletionUnderWay
  <2>4. row'.status = "READY" =>
          row'.checksum = "valid" /\ (store'["DATA"] = "valid" \/ DeletionUnderWay')
    BY <1>0, <1>1, <1>12, <2>3, <2>0 DEF RemoveObject, OutHandler, Publishing, Deleting, Handlers,
       Rows, At, Proceed, Answer, SetStatus, AddFile, PutStored, Exists, dataVars, envVars
  <2> QED
    BY <2>1, <2>2, <2>4 DEF OutInv
<1>13. CASE MarkDeleted(r)
  <2>1. \A s \in Requests : OutHandler(s)'
    BY <1>0, <1>1, <1>13 DEF MarkDeleted, OutHandler, Publishing, Deleting, Handlers, Rows, At,
       Proceed, Answer, SetStatus, AddFile, PutStored, Exists, dataVars, envVars, OutStatuses
  <2>2. /\ row'.checksum \in {Absent, "valid"}
        /\ row'.status = "EXPIRED" => over'
    BY <1>0, <1>1, <1>13 DEF MarkDeleted, OutHandler, Publishing, Deleting, Handlers, Rows, At,
       Proceed, Answer, SetStatus, AddFile, PutStored, Exists, dataVars, envVars, OutStatuses
  <2>3. DeletionUnderWay => DeletionUnderWay'
    BY <1>1, <1>13 DEF MarkDeleted, OutHandler, Publishing, Deleting, Handlers, Rows, At, Proceed,
       Answer, SetStatus, AddFile, PutStored, Exists, dataVars, envVars, OutStatuses,
       DeletionUnderWay
  <2>4. row'.status = "READY" =>
          row'.checksum = "valid" /\ (store'["DATA"] = "valid" \/ DeletionUnderWay')
    BY <1>0, <1>1, <1>13, <2>3 DEF MarkDeleted, OutHandler, Publishing, Deleting, Handlers, Rows,
       At, Proceed, Answer, SetStatus, AddFile, PutStored, Exists, dataVars, envVars, OutStatuses
  <2> QED
    BY <2>1, <2>2, <2>4 DEF OutInv
<1>14. CASE HeadObject(r)
  <2>1. \A s \in Requests : OutHandler(s)'
    BY <1>0, <1>1, <1>14 DEF HeadObject, OutHandler, Publishing, Deleting, Handlers, Rows, At,
       Proceed, Answer, SetStatus, AddFile, PutStored, Exists, dataVars, envVars
  <2>2. /\ row'.checksum \in {Absent, "valid"}
        /\ row'.status = "EXPIRED" => over'
    BY <1>0, <1>1, <1>14 DEF HeadObject, OutHandler, Publishing, Deleting, Handlers, Rows, At,
       Proceed, Answer, SetStatus, AddFile, PutStored, Exists, dataVars, envVars
  <2>3. DeletionUnderWay => DeletionUnderWay'
    BY <1>1, <1>14 DEF HeadObject, OutHandler, Publishing, Deleting, Handlers, Rows, At, Proceed,
       Answer, SetStatus, AddFile, PutStored, Exists, dataVars, envVars, DeletionUnderWay
  <2>4. row'.status = "READY" =>
          row'.checksum = "valid" /\ (store'["DATA"] = "valid" \/ DeletionUnderWay')
    BY <1>0, <1>1, <1>14, <2>3 DEF HeadObject, OutHandler, Publishing, Deleting, Handlers, Rows,
       At, Proceed, Answer, SetStatus, AddFile, PutStored, Exists, dataVars, envVars
  <2> QED
    BY <2>1, <2>2, <2>4 DEF OutInv
<1>15. CASE GetObject(r)
  <2>1. \A s \in Requests : OutHandler(s)'
    BY <1>0, <1>1, <1>15 DEF GetObject, Mismatch, OutHandler, Publishing, Deleting, Handlers,
       Rows, At, Proceed, Answer, SetStatus, AddFile, PutStored, Exists, dataVars, envVars, OutStatuses
  <2>2. /\ row'.checksum \in {Absent, "valid"}
        /\ row'.status = "EXPIRED" => over'
    BY <1>0, <1>1, <1>15 DEF GetObject, Mismatch, OutHandler, Publishing, Deleting, Handlers,
       Rows, At, Proceed, Answer, SetStatus, AddFile, PutStored, Exists, dataVars, envVars, OutStatuses
  <2>3. DeletionUnderWay => DeletionUnderWay'
    BY <1>1, <1>15 DEF GetObject, Mismatch, OutHandler, Publishing, Deleting, Handlers, Rows, At,
       Proceed, Answer, SetStatus, AddFile, PutStored, Exists, dataVars, envVars, OutStatuses,
       DeletionUnderWay
  <2>4. row'.status = "READY" =>
          row'.checksum = "valid" /\ (store'["DATA"] = "valid" \/ DeletionUnderWay')
    BY <1>0, <1>1, <1>15, <2>3 DEF GetObject, Mismatch, OutHandler, Publishing, Deleting,
       Handlers, Rows, At, Proceed, Answer, SetStatus, AddFile, PutStored, Exists, dataVars, envVars,
       OutStatuses
  <2> QED
    BY <2>1, <2>2, <2>4 DEF OutInv
<1>16. CASE Refuse(r)
  <2>1. \A s \in Requests : OutHandler(s)'
    BY <1>0, <1>1, <1>16 DEF Refuse, OutHandler, Publishing, Deleting, Handlers, Rows, At, Proceed,
       Answer, SetStatus, AddFile, PutStored, Exists, dataVars, envVars, OutStatuses
  <2>2. /\ row'.checksum \in {Absent, "valid"}
        /\ row'.status = "EXPIRED" => over'
    BY <1>0, <1>1, <1>16 DEF Refuse, OutHandler, Publishing, Deleting, Handlers, Rows, At, Proceed,
       Answer, SetStatus, AddFile, PutStored, Exists, dataVars, envVars, OutStatuses
  <2>3. DeletionUnderWay => DeletionUnderWay'
    BY <1>1, <1>16
       DEF Refuse, OutHandler, Publishing, Deleting, Handlers, Rows, At, Proceed, Answer,
       SetStatus, AddFile, PutStored, Exists, dataVars, envVars, OutStatuses, DeletionUnderWay
  <2>4. row'.status = "READY" =>
          row'.checksum = "valid" /\ (store'["DATA"] = "valid" \/ DeletionUnderWay')
    BY <1>0, <1>1, <1>16, <2>3 DEF Refuse, OutHandler, Publishing, Deleting, Handlers, Rows, At,
       Proceed, Answer, SetStatus, AddFile, PutStored, Exists, dataVars, envVars, OutStatuses
  <2> QED
    BY <2>1, <2>2, <2>4 DEF OutInv
<1>17. CASE RecordChecksum(r)
  <2>1. \A s \in Requests : OutHandler(s)'
    BY <1>0, <1>1, <1>17 DEF RecordChecksum, OutHandler, Publishing, Deleting, Handlers, Rows, At,
       Proceed, Answer, SetStatus, AddFile, PutStored, Exists, dataVars, envVars, OutStatuses
  <2>2. /\ row'.checksum \in {Absent, "valid"}
        /\ row'.status = "EXPIRED" => over'
    BY <1>0, <1>1, <1>17 DEF RecordChecksum, OutHandler, Publishing, Deleting, Handlers, Rows, At,
       Proceed, Answer, SetStatus, AddFile, PutStored, Exists, dataVars, envVars, OutStatuses
  <2>3. DeletionUnderWay => DeletionUnderWay'
    BY <1>1, <1>17
       DEF RecordChecksum, OutHandler, Publishing, Deleting, Handlers, Rows, At, Proceed,
       Answer, SetStatus, AddFile, PutStored, Exists, dataVars, envVars, OutStatuses,
       DeletionUnderWay
  <2>4. row'.status = "READY" =>
          row'.checksum = "valid" /\ (store'["DATA"] = "valid" \/ DeletionUnderWay')
    BY <1>0, <1>1, <1>17, <2>3 DEF RecordChecksum, OutHandler, Publishing, Deleting, Handlers,
       Rows, At, Proceed, Answer, SetStatus, AddFile, PutStored, Exists, dataVars, envVars, OutStatuses
  <2> QED
    BY <2>1, <2>2, <2>4 DEF OutInv
<1>18. CASE PutManifest(r)
  <2>1. \A s \in Requests : OutHandler(s)'
    BY <1>0, <1>1, <1>18 DEF PutManifest, OutHandler, Publishing, Deleting, Handlers, Rows, At,
       Proceed, Answer, SetStatus, AddFile, PutStored, Exists, dataVars, envVars
  <2>2. /\ row'.checksum \in {Absent, "valid"}
        /\ row'.status = "EXPIRED" => over'
    BY <1>0, <1>1, <1>18 DEF PutManifest, OutHandler, Publishing, Deleting, Handlers, Rows, At,
       Proceed, Answer, SetStatus, AddFile, PutStored, Exists, dataVars, envVars
  <2>3. DeletionUnderWay => DeletionUnderWay'
    BY <1>1, <1>18 DEF PutManifest, OutHandler, Publishing, Deleting, Handlers, Rows, At, Proceed,
       Answer, SetStatus, AddFile, PutStored, Exists, dataVars, envVars, DeletionUnderWay
  <2>4. row'.status = "READY" =>
          row'.checksum = "valid" /\ (store'["DATA"] = "valid" \/ DeletionUnderWay')
    BY <1>0, <1>1, <1>18, <2>3 DEF PutManifest, OutHandler, Publishing, Deleting, Handlers, Rows,
       At, Proceed, Answer, SetStatus, AddFile, PutStored, Exists, dataVars, envVars
  <2> QED
    BY <2>1, <2>2, <2>4 DEF OutInv
<1>19. CASE ListManifest(r)
  <2>1. \A s \in Requests : OutHandler(s)'
    BY <1>0, <1>1, <1>19 DEF ListManifest, OutHandler, Publishing, Deleting, Handlers, Rows, At,
       Proceed, Answer, SetStatus, AddFile, PutStored, Exists, dataVars, envVars
  <2>2. /\ row'.checksum \in {Absent, "valid"}
        /\ row'.status = "EXPIRED" => over'
    BY <1>0, <1>1, <1>19 DEF ListManifest, OutHandler, Publishing, Deleting, Handlers, Rows, At,
       Proceed, Answer, SetStatus, AddFile, PutStored, Exists, dataVars, envVars
  <2>3. DeletionUnderWay => DeletionUnderWay'
    BY <1>1, <1>19 DEF ListManifest, OutHandler, Publishing, Deleting, Handlers, Rows, At, Proceed,
       Answer, SetStatus, AddFile, PutStored, Exists, dataVars, envVars, DeletionUnderWay
  <2>4. row'.status = "READY" =>
          row'.checksum = "valid" /\ (store'["DATA"] = "valid" \/ DeletionUnderWay')
    BY <1>0, <1>1, <1>19, <2>3 DEF ListManifest, OutHandler, Publishing, Deleting, Handlers, Rows,
       At, Proceed, Answer, SetStatus, AddFile, PutStored, Exists, dataVars, envVars
  <2> QED
    BY <2>1, <2>2, <2>4 DEF OutInv
<1>20. CASE MarkExpired(r)
  <2>1. \A s \in Requests : OutHandler(s)'
    BY <1>0, <1>1, <1>20 DEF MarkExpired, OutHandler, Publishing, Deleting, Handlers, Rows, At,
       Proceed, Answer, SetStatus, AddFile, PutStored, Exists, dataVars, envVars, OutStatuses
  <2>2. /\ row'.checksum \in {Absent, "valid"}
        /\ row'.status = "EXPIRED" => over'
    BY <1>0, <1>1, <1>20 DEF MarkExpired, OutHandler, Publishing, Deleting, Handlers, Rows, At,
       Proceed, Answer, SetStatus, AddFile, PutStored, Exists, dataVars, envVars, OutStatuses
  <2>3. DeletionUnderWay => DeletionUnderWay'
    BY <1>1, <1>20 DEF MarkExpired, OutHandler, Publishing, Deleting, Handlers, Rows, At, Proceed,
       Answer, SetStatus, AddFile, PutStored, Exists, dataVars, envVars, OutStatuses,
       DeletionUnderWay
  <2>4. row'.status = "READY" =>
          row'.checksum = "valid" /\ (store'["DATA"] = "valid" \/ DeletionUnderWay')
    BY <1>0, <1>1, <1>20, <2>3 DEF MarkExpired, OutHandler, Publishing, Deleting, Handlers, Rows,
       At, Proceed, Answer, SetStatus, AddFile, PutStored, Exists, dataVars, envVars, OutStatuses
  <2> QED
    BY <2>1, <2>2, <2>4 DEF OutInv
<1>21. CASE InboundStep(r)
  BY <1>1, <1>21 DEF Handlers, OutPcs, Ends, OutKinds, At, InboundStep, InitiateUpload,
     InsertUpload, CompleteUpload, DiscardOversized, MarkReceived, PutReport, ListReport, Judge,
     NotifyValidated, SelectOrphan
<1> QED
  BY <1>2, <1>3, <1>4, <1>5, <1>6, <1>7, <1>8, <1>9, <1>10, <1>11, <1>12, <1>13, <1>14, <1>15,
     <1>16, <1>17, <1>18, <1>19, <1>20, <1>21 DEF Step, OutboundStep

LEMMA OutNext ==
  ASSUME ExchangeConstants, OutTypes, OutTypes', OutInv, [ExchangeNext]_exchangeVars PROVE OutInv'
<1>1. /\ req \in [Requests -> Handlers(OutStatuses, OutKinds, OutPcs)] /\ ~Inbound /\ row.direction = "OUTBOUND"
      /\ store \in [Roles -> Bodies \cup {Absent}] /\ Roles = {"DATA", "MANIFEST", "VALIDATION"}
      /\ files \in SUBSET Roles
  BY DEF OutTypes, Types, Inbound, Rows, Roles
<1>2. CASE \E r \in Requests : Step(r)
  BY <1>2, OutHandlers
<1>3. ASSUME NEW r \in Requests, NEW k \in EntryPoints[row.direction], Start(r, k) PROVE OutInv'
  <2>1. k \in OutKinds
    BY <1>1, Tables
  <2>2. \A s \in Requests : /\ req'[s].deletion = req[s].deletion /\ req'[s].todo = req[s].todo
                            /\ req'[s].body = req[s].body
                            /\ req'[s].kind = IF s = r THEN k ELSE req[s].kind
                            /\ req'[s].pc = IF s = r THEN k ELSE req[s].pc
    BY <1>1, <1>3 DEF Start, Handlers
  <2>3. /\ UNCHANGED <<row, files, store, over>> /\ req[r].pc = "idle" /\ (k \in Publishing => ~over)
    BY <1>3 DEF Start, dataVars, envVars, At
  <2>4. k = "requestDeletion" => req[r].deletion = Absent
    BY <2>3 DEF OutInv, OutHandler
  <2>5. ASSUME NEW s \in Requests PROVE OutHandler(s)'
    <3>1. CASE s = r
      <4>1. OutHandler(r)
        BY DEF OutInv
      <4>2. /\ Deleting(r)' <=> Deleting(r)
            /\ k \notin {"head", "get", "refuse", "checksum", "manifest", "listManifest", "ready", "generate",
                         "listData", "expire", "list", "remove"}
        BY <2>1, <2>2 DEF Deleting, OutKinds
      <4> QED
        BY <2>2, <2>3, <2>4, <3>1, <4>1, <4>2 DEF OutHandler
    <3>2. CASE s # r
      BY <2>2, <2>3, <3>2 DEF OutInv, OutHandler, Deleting
    <3> QED
      BY <3>1, <3>2
  <2>6. DeletionUnderWay' <=> DeletionUnderWay
    BY <2>2 DEF DeletionUnderWay
  <2> QED
    BY <2>3, <2>5, <2>6 DEF OutInv
<1>4. ASSUME NEW body \in Bodies, PutObject(body) PROVE OutInv'
  <2>1. /\ UNCHANGED <<row, files, req, over>> /\ row.status = "PREPARING" /\ ~over
        /\ \A s \in Requests : req[s].kind \notin {"completeOutbound", "simulate"}
        /\ store' = [store EXCEPT !["DATA"] = body]
    BY <1>1, <1>4 DEF PutObject, PutStored
  <2>2. \A s \in Requests : OutHandler(s)'
    BY <1>1, <2>1 DEF OutInv, OutHandler, Deleting
  <2> QED
    BY <2>1, <2>2 DEF OutInv
<1>5. CASE Elapse
  <2>1. /\ UNCHANGED <<row, files, store, req>> /\ over'
        /\ \A r \in Requests : req[r].kind \in Publishing => req[r].pc = "done"
    BY <1>1, <1>5 DEF Elapse, dataVars, At
  <2> QED
    BY <2>1 DEF OutInv, OutHandler, Deleting, DeletionUnderWay
<1>6. CASE ServerCrash
  <2>1. \A s \in Requests : /\ req'[s].deletion = req[s].deletion /\ req'[s].todo = req[s].todo
                            /\ req'[s].kind = req[s].kind
                            /\ req'[s].pc = IF req[s].pc = "idle" THEN "idle" ELSE "done"
    BY <1>1, <1>6 DEF ServerCrash, Handlers, At
  <2>2. UNCHANGED <<row, files, store, over>>
    BY <1>6 DEF ServerCrash, dataVars
  <2>3. ASSUME NEW s \in Requests PROVE OutHandler(s)'
    BY <2>1, <2>2 DEF OutInv, OutHandler, Deleting, Publishing
  <2>4. DeletionUnderWay' <=> DeletionUnderWay
    BY <2>1 DEF DeletionUnderWay
  <2> QED
    BY <2>2, <2>3, <2>4 DEF OutInv
<1>7. CASE UNCHANGED exchangeVars
  BY <1>7 DEF exchangeVars, dataVars, envVars, OutInv, OutHandler, Deleting, DeletionUnderWay
<1> QED
  BY <1>2, <1>3, <1>4, <1>5, <1>6, <1>7 DEF ExchangeNext

-----------------------------------------------------------------------------
(* The theorems.                                                           *)

LEMMA InitInv ==
  ASSUME ExchangeConstants, ExchangeInit PROVE ExchangeInv
<1>1. /\ req = [r \in Requests |-> Idle] /\ "idle" \in InPcs /\ "idle" \in OutPcs
      /\ req \in [Requests -> Handlers(InStatuses, InKinds, InPcs)]
      /\ req \in [Requests -> Handlers(OutStatuses, OutKinds, OutPcs)]
  BY DEF ExchangeInit, Idle, Handlers, InPcs, OutPcs, Ends, Deletions
<1>2. /\ row.status = Absent /\ row.checksum = Absent /\ files = {} /\ store = [o \in Roles |-> Absent]
      /\ notified = FALSE /\ over = FALSE /\ overlapped = FALSE /\ puts = 0 /\ restarts = 0
  BY DEF ExchangeInit
<1>3. 0 \in 0..MaxPuts /\ 0 \in 0..MaxRestarts
  BY DEF ExchangeConstants
<1>4. Absent \notin InStatuses /\ Absent \notin OutStatuses /\ Absent \notin DeletionStatuses
  BY NoneIsNoStatus
<1>5. CASE Inbound
  <2>1. row \in Rows("INBOUND", InStatuses)
    BY <1>5 DEF ExchangeInit, Inbound, Rows
  <2>2. InTypes
    BY <1>1, <1>2, <1>3, <2>1 DEF InTypes, Types
  <2>3. InInv
    BY <1>1, <1>2, <1>4
       DEF InInv, InHandler, OneBody, JudgedOnce, Announced, Verdicts, CompletionPoints, Idle, InStatuses
  <2> QED
    BY <1>5, <2>2, <2>3 DEF ExchangeInv
<1>6. CASE ~Inbound
  <2>1. row \in Rows("OUTBOUND", OutStatuses)
    BY <1>6 DEF ExchangeInit, Inbound, Rows
  <2>2. OutTypes
    BY <1>1, <1>2, <1>3, <2>1 DEF OutTypes, Types
  <2>3. OutInv
    BY <1>1, <1>2, <1>4
       DEF OutInv, OutHandler, Deleting, Publishing, Idle, OutStatuses, DeletionStatuses
  <2> QED
    BY <1>6, <2>2, <2>3 DEF ExchangeInv
<1> QED
  BY <1>5, <1>6

LEMMA NextInv ==
  ASSUME ExchangeConstants, ExchangeInv, [ExchangeNext]_exchangeVars PROVE ExchangeInv'
<1>1. CASE Inbound
  <2>1. InTypes /\ InInv
    BY <1>1 DEF ExchangeInv
  <2>2. InTypes' /\ InInv'
    BY <2>1, InNextTypes, InNext
  <2>3. Inbound'
    BY <2>2 DEF InTypes, Types, Rows, Inbound
  <2> QED
    BY <2>2, <2>3 DEF ExchangeInv
<1>2. CASE ~Inbound
  <2>1. OutTypes /\ OutInv
    BY <1>2 DEF ExchangeInv
  <2>2. OutTypes' /\ OutInv'
    BY <2>1, OutNextTypes, OutNext
  <2>3. ~Inbound'
    BY <2>2 DEF OutTypes, Types, Rows, Inbound
  <2> QED
    BY <2>2, <2>3 DEF ExchangeInv
<1> QED
  BY <1>1, <1>2

LEMMA Invariance == ExchangeConstants => (ExchangeSpec => []ExchangeInv)
<1> SUFFICES ASSUME ExchangeConstants PROVE ExchangeSpec => []ExchangeInv
  OBVIOUS
<1>1. ExchangeInit => ExchangeInv
  BY InitInv
<1>2. ExchangeInv /\ [ExchangeNext]_exchangeVars => ExchangeInv'
  BY NextInv
<1> QED
  BY <1>1, <1>2, PTL DEF ExchangeSpec

LEMMA ExchangeTypes ==
  ASSUME ExchangeConstants, ExchangeInv PROVE ExchangeTypeOK
<1>1. CASE Inbound
  <2>1. /\ row.direction = "INBOUND" /\ req \in [Requests -> Handlers(InStatuses, InKinds, InPcs)]
        /\ row \in Rows("INBOUND", InStatuses) /\ \A r \in Requests : req[r].todo = {}
    BY <1>1 DEF ExchangeInv, InTypes, Types, InInv, InHandler, Inbound
  <2>2. row \in Row /\ (Exists => row.status \in Statuses[row.direction])
    BY <2>1, Tables DEF Rows, Row, Exists
  <2>3. \A r \in Requests : /\ req[r].kind \in EntryPoints[row.direction] \cup {Absent}
                            /\ req[r].saw \in Statuses[row.direction] \cup {Absent}
                            /\ req[r].body \in Bodies \cup {Absent} /\ req[r].todo \subseteq files
    BY <2>1, Tables DEF Handlers
  <2> QED
    BY <1>1, <2>2, <2>3 DEF ExchangeTypeOK, ExchangeInv, InTypes, Types
<1>2. CASE ~Inbound
  <2>1. /\ row.direction = "OUTBOUND" /\ req \in [Requests -> Handlers(OutStatuses, OutKinds, OutPcs)]
        /\ row \in Rows("OUTBOUND", OutStatuses) /\ \A r \in Requests : req[r].todo \subseteq files
    BY <1>2 DEF ExchangeInv, OutTypes, Types, Rows, OutInv, OutHandler, Inbound
  <2>2. row \in Row /\ (Exists => row.status \in Statuses[row.direction])
    BY <2>1, Tables DEF Rows, Row, Exists
  <2>3. \A r \in Requests : /\ req[r].kind \in EntryPoints[row.direction] \cup {Absent}
                            /\ req[r].saw \in Statuses[row.direction] \cup {Absent}
                            /\ req[r].body \in Bodies \cup {Absent} /\ req[r].todo \subseteq files
    BY <2>1, Tables DEF Handlers
  <2> QED
    BY <1>2, <2>2, <2>3 DEF ExchangeTypeOK, ExchangeInv, OutTypes, Types
<1> QED
  BY <1>1, <1>2

\* What an exchange shows of itself is true of its objects, however many completions, repeated
\* PUTs, downloads, deletions and crashes there are: a READY artifact is there and has the declared
\* checksum, a verdict, its report and its manifest are about one body unless completions
\* overlapped, and a finished deletion left nothing that was listed.
THEOREM StoredStaysJudged ==
  ASSUME ExchangeConstants PROVE ExchangeSpec => []StoredIsJudged
<1>1. ASSUME ExchangeInv PROVE StoredIsJudged
  <2>1. ExchangeTypeOK
    BY <1>1, ExchangeTypes
  <2>2. CASE Inbound
    <3>1. InTypes /\ InInv
      BY <1>1, <2>2 DEF ExchangeInv
    <3>2. ReadyIsVerified /\ DeletedLeavesNothing
      <4>1. row.status \in InStatuses \cup {Absent} /\ \A r \in Requests : req[r].deletion = Absent
        BY <3>1 DEF InTypes, Types, Rows, InInv, InHandler
      <4> QED
        BY <2>2, <4>1, NoneIsNoStatus
           DEF ReadyIsVerified, DeletedLeavesNothing, InStatuses, OutStatuses, DeletionStatuses
    <3>3. VerdictIsOneBody
      BY <3>1 DEF VerdictIsOneBody, InInv, JudgedOnce, Announced, Verdicts
    <3> QED
      BY <2>1, <3>2, <3>3 DEF StoredIsJudged
  <2>3. CASE ~Inbound
    <3>1. OutTypes /\ OutInv
      BY <1>1, <2>3 DEF ExchangeInv
    <3>2. ReadyIsVerified /\ DeletedLeavesNothing
      BY <3>1, NoneIsNoStatus DEF ReadyIsVerified, DeletedLeavesNothing, OutInv, OutHandler, Bodies
    <3>3. VerdictIsOneBody
      BY <3>1, NoneIsNoStatus DEF VerdictIsOneBody, OutTypes, Types, Rows, OutStatuses, InStatuses
    <3> QED
      BY <2>1, <3>2, <3>3 DEF StoredIsJudged
  <2> QED
    BY <2>2, <2>3
<1> QED
  BY <1>1, Invariance, PTL

\* A verdict is overwritten only by a handler that looked at the row while the upload was still
\* pending: never by a repeated completion, and never in a behaviour without overlapping ones.
THEOREM VerdictsAreLostToStaleReaders ==
  ASSUME ExchangeConstants PROVE ExchangeSpec => VerdictLostOnlyToStaleReader
<1> DEFINE Lost == row.status \in {"VALIDATED", "VALIDATION_FAILED"} /\ row'.status # row.status
           Stale == overlapped \/ \E r \in Requests : At(r, "expire") /\ req[r].saw \in Pending
<1>1. ASSUME ExchangeInv, ExchangeNext, Lost, ~overlapped PROVE Stale
  <2>1. Inbound
    BY <1>1, NoneIsNoStatus DEF ExchangeInv, OutTypes, Types, Rows, OutStatuses, InStatuses
  <2>2. /\ InTypes /\ InInv /\ InTypes'
        /\ \A r \in Requests : req[r].pc \notin CompletionPoints /\ row.status # Absent
    BY <1>1, <2>1, InNextTypes DEF ExchangeInv, InInv, JudgedOnce, Verdicts, Exists
  <2>3. PICK r \in Requests : Step(r)
    BY <1>1 DEF ExchangeNext, Start, PutObject, Elapse, ServerCrash, dataVars
  <2>4. CASE MarkExpired(r)
    BY <2>2, <2>4 DEF MarkExpired, At, InInv, InHandler
  <2>5. CASE InsertUpload(r)
    BY <1>1, <2>2, <2>5 DEF InsertUpload, Exists
  <2>6. CASE OutboundStep(r)
    BY <2>2, <2>6 DEF InTypes, Types, Handlers, InPcs, Ends, CompletionPoints, InKinds, At,
       OutboundStep, CreateOutbound, Simulate, ListData, CompleteOutbound, MarkExchangeReady,
       FailOutbound, RequestDownloadUrl, SetLegalHold, RequestDeletion, ListObjects, RemoveObject,
       MarkDeleted, Creating
  <2> QED
    BY <1>1, <2>2, <2>3, <2>4, <2>5, <2>6 DEF Step, InboundStep, CompletionPoints, At, dataVars,
       InitiateUpload, CompleteUpload, HeadObject, GetObject, DiscardOversized, Refuse,
       RecordChecksum, MarkReceived, PutManifest, ListManifest, PutReport, ListReport, Judge, NotifyValidated,
       SelectOrphan
<1>2. ExchangeInv /\ [ExchangeNext]_exchangeVars => [Lost => Stale]_exchangeVars
  BY <1>1
<1> QED
  BY <1>2, Invariance, PTL DEF ExchangeSpec, VerdictLostOnlyToStaleReader

=============================================================================
