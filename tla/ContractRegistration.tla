-------------------------- MODULE ContractRegistration --------------------------
(***************************************************************************)
(* data-product-catalog-service: registering a contract as a version of a  *)
(* product.  The latest version is read and compared with the contract     *)
(* before the transaction that writes the new version: two registrations   *)
(* of one product interleave.  The comparison itself (fields, keys,        *)
(* quality, SLA, delivery) and the version arithmetic are operators.       *)
(* Quality and SLA are single ranks: a higher one is tighter.              *)
(***************************************************************************)
EXTENDS Naturals, FiniteSets

CONSTANTS
    Contracts,   \* documents that may be submitted
    Semvers,     \* version texts: major, minor, patch, and whether the patch is left out
    Callers, None, MaxRegistrations

\* What an instance gives the constants.
RegistrationBounds == MaxRegistrations \in Nat

VARIABLES
    rows,        \* catalog.data_product_versions with what belongs to each
    reg,         \* per caller: the registration under way
    started,
    overlapped   \* auxiliary: versions whose comparison was outdated when they were written

registrationVars == <<rows, reg, started, overlapped>>

-----------------------------------------------------------------------------
(* Versions *)

AtMost(x, y)    == \/ x.major < y.major
                   \/ x.major = y.major /\ x.minor < y.minor
                   \/ x.major = y.major /\ x.minor = y.minor /\ x.patch <= y.patch
CompareSame(x, y) == AtMost(x, y) /\ AtMost(y, x)

IsAnyBump(from, to)           == ~AtMost(to, from)

IsMajorBump(from, to)         == to.major > from.major /\ to.minor = 0 /\ to.patch = 0

IsMinorOrHigherBump(from, to) == to.major > from.major \/ (to.major = from.major /\ to.minor > from.minor)

\* bumpKind: the strict parser refuses a text without its patch.
BumpKind(from, to) ==
    CASE from.short \/ to.short \/ ~AtMost(from, to) -> "INVALID"
      [] CompareSame(from, to)                       -> "SAME"
      [] to.major > from.major                       -> "MAJOR"
      [] to.minor > from.minor                       -> "MINOR"
      [] OTHER                                       -> "PATCH"

IsValidBump(level, kind) ==
    /\ kind \notin {"SAME", "INVALID"}
    /\ level = "BREAKING" => kind = "MAJOR"
    /\ level = "NON_BREAKING" => kind # "PATCH"

-----------------------------------------------------------------------------
(* Rows.  A contract's fields and its enabled delivery methods are functions. *)

StoredFields(d) ==
    [f \in DOMAIN d.fields |->
       [type |-> d.fields[f].type, nullable |-> ~d.fields[f].required, visible |-> d.fields[f].visible,
        grain |-> d.fields[f].grain, mask |-> d.fields[f].mask, restricted |-> d.fields[f].restricted]]

StoredMethods(d)  == d.delivery
StoredQuality(d)  == d.quality
StoredSla(d)      == d.sla

\* createVersion and the inserts that follow it, one transaction.
Row(d, v, level, previous) ==
    [semver |-> v, fields |-> StoredFields(d), delivery |-> StoredMethods(d), quality |-> StoredQuality(d),
     sla |-> StoredSla(d), level |-> level, predecessor |-> IF previous = None THEN None ELSE previous.semver]

FindVersion(v) == {r \in rows : r.semver = v}

FindLatest == IF rows = {} THEN None ELSE CHOOSE r \in rows : \A q \in rows : AtMost(q.semver, r.semver)

Visible(r) == {f \in DOMAIN r.fields : r.fields[f].visible}

\* getApiContract: the fields a customer of the API receives.
PublishedFields(r) == {f \in Visible(r) : r.fields[f].mask # "DENY"}

\* validateContractStructure: what a restricted field must declare.  The shape is zod's.
Valid(d) ==
    \A f \in DOMAIN d.fields : d.fields[f].restricted =>
       d.retention /\ d.fields[f].mask # None /\ (d.fields[f].visible => d.fields[f].mask # "ALLOW")

-----------------------------------------------------------------------------
(* Compatibility of a document d with the row p of the latest version *)

Removed(p, d) == DOMAIN p.fields \ DOMAIN d.fields
Kept(p, d)    == DOMAIN p.fields \cap DOMAIN d.fields
Added(p, d)   == DOMAIN d.fields \ DOMAIN p.fields
Grain(x)      == {f \in DOMAIN x.fields : x.fields[f].grain}
Methods(x)    == DOMAIN x.delivery

MutantRemovalBreaks(p, d) == \E f \in Removed(p, d) : p.fields[f].grain

RemovalBreaks(p, d)   == \E f \in Removed(p, d) : p.fields[f].visible

ChangeBreaks(p, d)    == \E f \in Kept(p, d) : \/ d.fields[f].type # p.fields[f].type
                                               \/ d.fields[f].required /\ p.fields[f].nullable
                                               \/ d.fields[f].visible # p.fields[f].visible
AdditionBreaks(p, d)  == \E f \in Added(p, d) : d.fields[f].visible /\ d.fields[f].required
AdditionExtends(p, d) == \E f \in Added(p, d) : ~(d.fields[f].visible /\ d.fields[f].required)
GrainBreaks(p, d)     == Grain(p) # Grain(d)

SchemaBreaks(p, d) == RemovalBreaks(p, d) \/ ChangeBreaks(p, d) \/ AdditionBreaks(p, d) \/ GrainBreaks(p, d)

QualityChanges(p, d) == p.quality # d.quality
SlaChanges(p, d)     == p.sla # d.sla

\* Filters and sorts are compared for the API; the formats of a file are not.
SharedApi(p, d)       == Methods(p) \cap Methods(d) \cap {"API"}
DeliveryBreaks(p, d)  == ~(Methods(p) \subseteq Methods(d)) \/ \E m \in SharedApi(p, d) : ~(p.delivery[m] \subseteq d.delivery[m])
DeliveryExtends(p, d) == ~(Methods(d) \subseteq Methods(p)) \/ \E m \in SharedApi(p, d) : ~(d.delivery[m] \subseteq p.delivery[m])

Rollup(breaking, extending) == IF breaking THEN "BREAKING" ELSE IF extending THEN "NON_BREAKING" ELSE "METADATA_ONLY"

AssessCompatibility(p, d) ==
    IF p = None THEN "NON_BREAKING"
    ELSE Rollup(SchemaBreaks(p, d) \/ DeliveryBreaks(p, d),
                AdditionExtends(p, d) \/ DeliveryExtends(p, d) \/ QualityChanges(p, d) \/ SlaChanges(p, d))

-----------------------------------------------------------------------------
RegistrationInit ==
    /\ rows = {} /\ started = 0 /\ overlapped = {}
    /\ reg = [a \in Callers |-> [pc |-> "idle"]]

Answer(a) == reg' = [reg EXCEPT ![a] = [pc |-> "idle"]]

\* registerContract, up to the comparison: an invalid document is refused, the same one again is a duplicate,
\* another one under the same version a conflict.
Submit(a) ==
    \E d \in Contracts, v \in Semvers :
       /\ reg[a].pc = "idle" /\ started < MaxRegistrations
       /\ Valid(d) /\ FindVersion(v) = {}
       /\ reg' = [reg EXCEPT ![a] = [pc |-> "latest", doc |-> d, semver |-> v]]
       /\ started' = started + 1
       /\ UNCHANGED <<rows, overlapped>>

\* Which bump the computed compatibility asks for.
Accepts(previous, v, level) ==
    previous # None =>
       /\ IsAnyBump(previous.semver, v)
       /\ level = "BREAKING" => IsMajorBump(previous.semver, v)
       /\ level = "NON_BREAKING" => IsMinorOrHigherBump(previous.semver, v)

Judge(a) ==
    LET previous == FindLatest
        level    == AssessCompatibility(previous, reg[a].doc)
    IN  /\ reg[a].pc = "latest"
        /\ IF Accepts(previous, reg[a].semver, level)
           THEN reg' = [reg EXCEPT ![a] = [pc |-> "write", doc |-> reg[a].doc, semver |-> reg[a].semver,
                                           level |-> level, previous |-> previous]]
           ELSE Answer(a)
        /\ UNCHANGED <<rows, started, overlapped>>

\* product_versions_unique and the primary key of data_products: the loser's transaction is rolled back.
Unique(r) == FindVersion(r.semver) = {} /\ (r.previous = None => rows = {})

Write(a) ==
    LET r == reg[a]
    IN  /\ r.pc = "write"
        /\ IF Unique(r)
           THEN /\ rows' = rows \cup {Row(r.doc, r.semver, r.level, r.previous)}
                /\ overlapped' = IF r.previous = FindLatest THEN overlapped ELSE overlapped \cup {r.semver}
           ELSE UNCHANGED <<rows, overlapped>>
        /\ Answer(a)
        /\ UNCHANGED started

Crash(a) ==
    /\ reg[a].pc # "idle"
    /\ Answer(a)
    /\ UNCHANGED <<rows, started, overlapped>>

RegistrationNext == \E a \in Callers : Submit(a) \/ Judge(a) \/ Write(a) \/ Crash(a)

-----------------------------------------------------------------------------
(* Properties *)

\* Rows show no restricted field unmasked, and each was compared with a row that exists.
RegistrationTypeOK ==
    /\ \A r \in rows : /\ r.semver \in Semvers /\ r.level \in {"BREAKING", "NON_BREAKING", "METADATA_ONLY"}
                       /\ \A f \in Visible(r) : r.fields[f].restricted => r.fields[f].mask \notin {None, "ALLOW"}
                       /\ r.predecessor # None => FindVersion(r.predecessor) # {}
    /\ Cardinality(rows) <= MaxRegistrations /\ overlapped \subseteq Semvers

\* findVersion, product_versions_unique: a version text is registered once, and 1.0 besides 1.0.0 only when the two
\* registrations overlapped.
OneRowPerVersion ==
    \A r, q \in rows : r # q /\ CompareSame(r.semver, q.semver) =>
       r.semver # q.semver /\ {r.semver, q.semver} \cap overlapped # {}

\* registerContract: versions form one line, each compared with the one right below it, except where two
\* registrations overlapped: both were then compared with the same row.
HistoryIsLinear ==
    \A r \in rows : r.semver \notin overlapped =>
       \A q \in rows : AtMost(q.semver, r.semver) /\ q # r =>
          r.predecessor # None /\ (AtMost(q.semver, r.predecessor) \/ q.semver \in overlapped)

\* What a consumer of one version relies on, another one provides.
Provides(n, p, shown(_)) ==
    /\ shown(p) \subseteq shown(n)
    /\ \A f \in shown(p) : n.fields[f].type = p.fields[f].type
    /\ Methods(p) \subseteq Methods(n)
    /\ \A m \in Methods(p) \cap {"API"} : p.delivery[m] \subseteq n.delivery[m]

\* assessCompatibility with the bump rules: within a major version every later version still has the visible fields,
\* delivery methods, filters and sorts of every earlier one.  An overlapping registration was never compared.
SameMajorKeepsContract ==
    \A p, n \in rows :
       p.semver.major = n.semver.major /\ AtMost(p.semver, n.semver) /\ {p.semver, n.semver} \cap overlapped = {} =>
          Provides(n, p, Visible)

\* isValidBump and registerContract: whatever was registered, the dry run against the same row calls a valid bump.
RegisteredIsValidBump ==
    \A r \in rows : r.predecessor # None /\ ~r.semver.short /\ ~r.predecessor.short =>
       IsValidBump(r.level, BumpKind(r.predecessor, r.semver))

\* The same for what the customers receive: fields may be masked with DENY, and files lose a format.
SameMajorServes ==
    \A p, n \in rows :
       p.semver.major = n.semver.major /\ AtMost(p.semver, n.semver) /\ {p.semver, n.semver} \cap overlapped = {} =>
          /\ PublishedFields(p) \subseteq PublishedFields(n)
          /\ \A m \in Methods(p) : p.delivery[m] \subseteq n.delivery[m]

\* registerContract: the registered versions form one line, a version text stands in it once, each row was compared
\* with the one right below it, its bump is one the dry run calls valid, and within a major version nothing a
\* consumer can see is taken away; registrations that overlapped are the only exception.
HistoryKeepsContracts ==
    RegistrationTypeOK /\ HistoryIsLinear /\ OneRowPerVersion /\ SameMajorKeepsContract /\ RegisteredIsValidBump
=============================================================================
