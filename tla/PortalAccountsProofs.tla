------------------------- MODULE PortalAccountsProofs -------------------------
(***************************************************************************)
(* What the portal guarantees of accounts, links and sessions for any      *)
(* number of addresses, links and requests that run at the same time, and  *)
(* wherever one of them dies.  Rows are read, and written a step later, so *)
(* the invariant says what a request between two of its steps still knows. *)
(* Then the same for uploads, downloads and notifications.                 *)
(***************************************************************************)
EXTENDS PortalAccounts, PortalTransfers, FiniteSetTheorems, SequenceTheorems, TLAPS

RowType  == [email : Emails, by : Ops, pw : BOOLEAN, verified : BOOLEAN, status : Status]
LinkType == [email : Emails \cup {Nothing}, purpose : {"verify-email", "reset-password", Nothing},
             at : {"absent", "stored", "mailed", "used", "expired"}]
Points   == Creating \cup {"idle", "find", "session", "compare", "token", "mail", "consume", "verify", "password",
                           "member", "activate", "write"}
CallType == [op : Ops \cup {"none"}, email : Emails \cup {Nothing}, pc : Points, row : Nat,
             seen : RowType \cup {Nothing}, link : Links \cup {Nothing}]

RowsOK ==
    /\ rows \in Seq(RowType) /\ link \in [Links -> LinkType] /\ account \in [Askers -> CallType]
    /\ \A l \in Links : link[l].at # "absent" => link[l].email \in Emails
    /\ session \subseteq DOMAIN rows /\ approved \subseteq DOMAIN rows
    /\ worked \in [Links -> Nat] /\ open \in BOOLEAN

\* Where a request can be, and what it holds by then.
Shape(a) ==
    /\ a.pc # "idle" => a.op \in Ops /\ a.email \in Emails
    /\ a.pc = "find" => a.op \in Ops \ {"verify", "reset", "validate", "status"}
    /\ a.pc \in {"settings", "session"} => a.op = "google"
    /\ a.pc \in {"organization", "tenant"} => a.op = "createAdmin"
    /\ a.pc = "insert" => a.op \in {"signup", "google", "createAdmin"}
    /\ a.pc = "upsert" => a.op = "script"
    /\ a.pc = "compare" => a.op = "login" /\ a.row # 0 /\ a.seen \in RowType
    /\ a.pc = "token" => a.op \in {"signup", "resend", "forgot", "validate"}
    /\ a.pc = "verify" => a.op \in {"google", "verify", "validate"}
    /\ a.pc = "password" => a.op = "reset"
    /\ a.pc = "consume" => a.op \in {"verify", "reset"} /\ a.link \in Links
    /\ a.pc = "mail" => a.link \in Links
    /\ a.pc \in {"member", "activate"} => a.op = "validate" /\ a.row # 0
    /\ a.pc = "write" => a.op = "status" /\ a.row # 0 /\ a.seen \in RowType

\* What it holds is about rows and links that exist.
Refers(a) ==
    /\ a.row \in 0 .. Len(rows)
    /\ a.pc \in {"member", "activate", "write"} => rows[a.row].email = a.email
    /\ a.pc = "consume" => link[a.link].email = a.email /\ link[a.link].at # "absent"

CallsOK == \A c \in Askers : Shape(account[c]) /\ Refers(account[c])

\* Who is about to insert an account knows the address to be free, unless another request inserted it meanwhile.
CreatingInv ==
    \A c \in Askers : account[c].pc \in Creating \ {"upsert"} =>
        \A i \in DOMAIN rows : rows[i].email = account[c].email => rows[i].email \in crossed

\* A link had its effect when it was consumed, and never before.
LinkInv == \A l \in Links : worked[l] = IF link[l].at = "used" THEN 1 ELSE 0

\* An account an administrator created is active only after a superuser approved of it.
ActiveInv == \A i \in DOMAIN rows : rows[i].by = "createAdmin" /\ rows[i].status = "active" => i \in approved

\* The row whose password is compared was read, active or not, as ActiveInv says of it.
CompareInv ==
    \A c \in Askers : LET a == account[c] IN
        a.pc = "compare" /\ rows[a.row].by = "createAdmin" =>
            a.seen.by = "createAdmin" /\ (a.seen.status = "active" => a.row \in approved)

\* The row that a Google sign-in will find is one it may enter, unless its address has two.
GoogleInv ==
    \A c \in Askers : LET a == account[c]
                         i == FindByEmail(a.email) IN
        a.op = "google" /\ a.pc \in {"verify", "session"} =>
            i # 0 /\ (rows[i].by = "createAdmin" => i \in approved \/ a.email \in crossed)

\* An active account without a password has a way to get one.
Serves(k, e) == k.email = e /\ k.purpose = "reset-password" /\ k.at \in {"stored", "mailed"}
HasLink(e)   == \E l \in Links : Serves(link[l], e)
Helps(a, e) == a.email = e /\ ((a.op = "validate" /\ a.pc \in {"verify", "token"}) \/ a.pc = "password")
PasswordInv ==
    \A i \in DOMAIN rows : rows[i].by = "createAdmin" /\ rows[i].status = "active" /\ ~rows[i].pw =>
        rows[i].email \in cutOff \cup crossed \/ HasLink(rows[i].email) \/ \E c \in Askers : Helps(account[c], rows[i].email)

AccountInv ==
    /\ RowsOK /\ CallsOK /\ OneAccountPerAddress /\ CreatingInv /\ LinkInv /\ ActiveInv /\ CompareInv /\ GoogleInv
    /\ PendingWaitsForSuperuser /\ PasswordInv

-----------------------------------------------------------------------------
(* Sequences of rows, and the first row of an address *)

\* A nonempty set of natural numbers has a least one.
LEMMA Smallest ==
    ASSUME NEW S, S \subseteq Nat, S # {}
    PROVE  \E i \in S : \A j \in S : i <= j
<1> DEFINE R == StrictSubsetOrdering(Nat)
           T == {1 .. i : i \in S}
<1>1. T \subseteq FiniteSubsetsOf(Nat)
  <2> SUFFICES ASSUME NEW i \in S PROVE 1 .. i \in FiniteSubsetsOf(Nat)
    OBVIOUS
  <2> QED
    BY FS_Interval DEF FiniteSubsetsOf
<1>2. PICK t \in T : \A u \in T : <<u, t>> \notin R
  <2>1. T # {}
    OBVIOUS
  <2> HIDE DEF T, R
  <2> QED
    BY <1>1, <2>1, FS_StrictSubsetOrderingWellFounded, WFMin DEF R
<1>3. PICK i \in S : t = 1 .. i
  OBVIOUS
<1>4. ASSUME NEW j \in S PROVE i <= j
  <2> SUFFICES ASSUME j < i PROVE FALSE
    OBVIOUS
  <2>1. 1 .. j \subseteq 1 .. i /\ i \in (1 .. i) \ (1 .. j)
    OBVIOUS
  <2>2. <<1 .. j, t>> \in R
    BY <1>3, <2>1 DEF StrictSubsetOrdering
  <2> QED
    BY <1>2, <2>2
<1> QED
  BY <1>4

\* What is known of the rows as a sequence.
LEMMA RowsAre ==
    ASSUME RowsOK
    PROVE  /\ Len(rows) \in Nat /\ DOMAIN rows = 1 .. Len(rows) /\ 0 \notin DOMAIN rows
           /\ \A i \in DOMAIN rows : i \in Nat /\ rows[i] \in RowType
<1>1. rows \in Seq(RowType)
  BY DEF RowsOK
<1> QED
  BY <1>1, LenProperties, ElementOfSeq

\* The first row of an address in any sequence of rows, so that it can be said of the rows before and after a step.
First(rs, e) ==
    LET hits == {i \in DOMAIN rs : rs[i].email = e}
    IN  IF hits = {} THEN 0 ELSE CHOOSE i \in hits : \A j \in hits : i <= j
IsFirst(rs, e, i) ==
    \/ i = 0 /\ \A j \in DOMAIN rs : rs[j].email # e
    \/ i \in DOMAIN rs /\ i # 0 /\ rs[i].email = e /\ \A j \in DOMAIN rs : rs[j].email = e => i <= j

LEMMA FirstFacts ==
    ASSUME NEW rs \in Seq(RowType), NEW e
    PROVE  IsFirst(rs, e, First(rs, e))
<1> DEFINE hits == {i \in DOMAIN rs : rs[i].email = e}
<1>0. DOMAIN rs = 1 .. Len(rs) /\ Len(rs) \in Nat
  BY LenProperties
<1>1. hits \subseteq Nat /\ 0 \notin hits
  BY <1>0
<1>2. CASE hits = {}
  BY <1>2 DEF First, IsFirst
<1>3. CASE hits # {}
  <2>1. \E i \in hits : \A j \in hits : i <= j
    BY <1>1, <1>3, Smallest
  <2>2. First(rs, e) = CHOOSE i \in hits : \A j \in hits : i <= j
    BY <1>3 DEF First
  <2>3. First(rs, e) \in hits /\ \A j \in hits : First(rs, e) <= j
    BY <2>1, <2>2
  <2> QED
    BY <1>1, <2>3 DEF IsFirst
<1> QED
  BY <1>2, <1>3

LEMMA FindFacts ==
    ASSUME RowsOK, NEW e
    PROVE  IsFirst(rows, e, FindByEmail(e))
<1>1. FindByEmail(e) = First(rows, e) /\ rows \in Seq(RowType)
  BY DEF FindByEmail, First, RowsOK
<1> QED
  BY <1>1, FirstFacts

\* A row is appended, or one is rewritten.
RowsAppend(r) ==
    /\ rows' \in Seq(RowType) /\ Len(rows') = Len(rows) + 1 /\ DOMAIN rows' = 1 .. Len(rows) + 1
    /\ \A i \in DOMAIN rows : rows'[i] = rows[i]
    /\ rows'[Len(rows) + 1] = r
RowsRewrite(k, r) ==
    /\ k \in DOMAIN rows
    /\ rows' \in Seq(RowType) /\ Len(rows') = Len(rows) /\ DOMAIN rows' = DOMAIN rows
    /\ \A i \in DOMAIN rows : rows'[i] = IF i = k THEN r ELSE rows[i]

LEMMA Appends ==
    ASSUME RowsOK, NEW r \in RowType, rows' = Append(rows, r)
    PROVE  RowsAppend(r)
<1>1. rows \in Seq(RowType)
  BY DEF RowsOK
<1>2. /\ Append(rows, r) \in Seq(RowType) /\ Len(Append(rows, r)) = Len(rows) + 1
      /\ \A i \in 1 .. Len(rows) : Append(rows, r)[i] = rows[i]
      /\ Append(rows, r)[Len(rows) + 1] = r
  BY <1>1, AppendProperties
<1>3. DOMAIN rows' = 1 .. Len(rows')
  BY <1>2, LenProperties
<1> QED
  BY <1>2, <1>3, RowsAre DEF RowsAppend

LEMMA Rewrites ==
    ASSUME RowsOK, NEW k \in DOMAIN rows, NEW r \in RowType, rows' = [rows EXCEPT ![k] = r]
    PROVE  RowsRewrite(k, r)
<1>1. rows \in Seq(RowType)
  BY DEF RowsOK
<1>2. k \in 1 .. Len(rows)
  BY RowsAre
<1>3. rows' \in Seq(RowType) /\ Len(rows') = Len(rows)
  BY <1>1, <1>2, ExceptSeq
<1>4. DOMAIN rows' = DOMAIN rows
  OBVIOUS
<1>5. \A i \in DOMAIN rows : rows'[i] = IF i = k THEN r ELSE rows[i]
  OBVIOUS
<1> QED
  BY <1>3, <1>4, <1>5 DEF RowsRewrite

-----------------------------------------------------------------------------
(* What the steps write *)

Does(c) ==
    \/ Start(c) \/ Find(c) \/ ReadSettings(c) \/ CreateOrganization(c) \/ CreatePortalUser(c) \/ UpsertSuperuser(c)
    \/ CreateAuthToken(c) \/ SendEmail(c) \/ ConsumeAuthToken(c) \/ VerifyPortalUserEmail(c)
    \/ UpdatePortalUserPassword(c) \/ Compare(c) \/ GoogleSession(c) \/ ReadMember(c) \/ Activate(c)
    \/ SetUserStatus(c) \/ Dies(c)

\* The steps that leave every row alone, and what the others make of them.
LEMMA InsertRow ==
    ASSUME AccountInv, NEW c \in Askers, account[c].pc \in {"insert", "upsert"}, Appended(c)
    PROVE  RowsAppend(NewRow(account[c].op, account[c].email))
<1>1. NewRow(account[c].op, account[c].email) \in RowType
  BY DEF AccountInv, CallsOK, Shape, NewRow, RowType, Status, Ops
<1> QED
  BY <1>1, Appends DEF Appended, AccountInv

LEMMA UpsertRow ==
    ASSUME AccountInv, NEW c \in Askers, UpsertSuperuser(c)
    PROVE  LET i == FindByEmail(account[c].email) IN
           \/ i = 0 /\ Appended(c) /\ RowsAppend(NewRow("script", account[c].email)) /\ UNCHANGED approved
           \/ /\ i \in DOMAIN rows /\ rows[i].email = account[c].email
              /\ RowsRewrite(i, NewRow("script", account[c].email)) /\ approved' = approved \cup {i} /\ UNCHANGED crossed
<1> DEFINE i == FindByEmail(account[c].email)
<1>0. account[c].op = "script" /\ account[c].email \in Emails /\ account[c].pc = "upsert"
  BY DEF AccountInv, CallsOK, Shape, UpsertSuperuser
<1>1. NewRow("script", account[c].email) \in RowType
  BY <1>0 DEF NewRow, RowType, Status, Ops
<1>2. CASE i = 0
  BY <1>0, <1>2, InsertRow DEF UpsertSuperuser
<1>3. CASE i # 0
  <2>1. i \in DOMAIN rows /\ rows[i].email = account[c].email
    BY <1>3, FindFacts DEF AccountInv, IsFirst
  <2>2. rows' = [rows EXCEPT ![i] = NewRow("script", account[c].email)] /\ approved' = approved \cup {i} /\ UNCHANGED crossed
    BY <1>3 DEF UpsertSuperuser
  <2> QED
    BY <1>1, <2>1, <2>2, Rewrites DEF AccountInv
<1> QED
  BY <1>2, <1>3

\* verifyPortalUserEmail, updatePortalUserPassword: the first row of the address, if there is one.
LEMMA VerifyRow ==
    ASSUME AccountInv, NEW c \in Askers, VerifyPortalUserEmail(c)
    PROVE  LET i == FindByEmail(account[c].email) IN
           \/ i = 0 /\ UNCHANGED rows
           \/ i \in DOMAIN rows /\ rows[i].email = account[c].email /\ RowsRewrite(i, [rows[i] EXCEPT !.verified = TRUE])
<1> DEFINE i == FindByEmail(account[c].email)
<1>1. CASE i = 0
  BY <1>1 DEF VerifyPortalUserEmail
<1>2. CASE i # 0
  <2>1. i \in DOMAIN rows /\ rows[i].email = account[c].email /\ rows[i] \in RowType
    BY <1>2, FindFacts, RowsAre DEF AccountInv, IsFirst
  <2>2. rows' = [rows EXCEPT ![i] = [rows[i] EXCEPT !.verified = TRUE]] /\ [rows[i] EXCEPT !.verified = TRUE] \in RowType
    BY <1>2, <2>1 DEF VerifyPortalUserEmail, RowType
  <2> QED
    BY <2>1, <2>2, Rewrites DEF AccountInv
<1> QED
  BY <1>1, <1>2

LEMMA PasswordRow ==
    ASSUME AccountInv, NEW c \in Askers, UpdatePortalUserPassword(c)
    PROVE  LET i == FindByEmail(account[c].email) IN
           \/ i = 0 /\ UNCHANGED rows
           \/ i \in DOMAIN rows /\ rows[i].email = account[c].email /\ RowsRewrite(i, [rows[i] EXCEPT !.pw = TRUE])
<1> DEFINE i == FindByEmail(account[c].email)
<1>1. CASE i = 0
  BY <1>1 DEF UpdatePortalUserPassword
<1>2. CASE i # 0
  <2>1. i \in DOMAIN rows /\ rows[i].email = account[c].email /\ rows[i] \in RowType
    BY <1>2, FindFacts, RowsAre DEF AccountInv, IsFirst
  <2>2. rows' = [rows EXCEPT ![i] = [rows[i] EXCEPT !.pw = TRUE]] /\ [rows[i] EXCEPT !.pw = TRUE] \in RowType
    BY <1>2, <2>1 DEF UpdatePortalUserPassword, RowType
  <2> QED
    BY <2>1, <2>2, Rewrites DEF AccountInv
<1> QED
  BY <1>1, <1>2

\* setPortalUserStatus: the row that was named when the request began.
LEMMA ActivateRow ==
    ASSUME AccountInv, NEW c \in Askers, Activate(c)
    PROVE  /\ account[c].row \in DOMAIN rows /\ rows[account[c].row].email = account[c].email
           /\ account[c].op = "validate"
           /\ RowsRewrite(account[c].row, [rows[account[c].row] EXCEPT !.status = "active"])
<1> DEFINE i == account[c].row
<1>1. i \in DOMAIN rows /\ rows[i].email = account[c].email /\ rows[i] \in RowType /\ account[c].op = "validate"
  BY RowsAre DEF AccountInv, CallsOK, Shape, Refers, Activate
<1>2. rows' = [rows EXCEPT ![i] = [rows[i] EXCEPT !.status = "active"]] /\ [rows[i] EXCEPT !.status = "active"] \in RowType
  BY <1>1 DEF Activate, RowType, Status
<1> QED
  BY <1>1, <1>2, Rewrites DEF AccountInv

LEMMA StatusRow ==
    ASSUME AccountInv, NEW c \in Askers, SetUserStatus(c)
    PROVE  /\ account[c].row \in DOMAIN rows
           /\ \E s \in {"active", "suspended"} :
                /\ RowsRewrite(account[c].row, [rows[account[c].row] EXCEPT !.status = s])
                /\ s = "active" => /\ approved' = approved \cup {account[c].row}
                                   /\ ~rows[account[c].row].pw => rows[account[c].row].email \in cutOff'
<1> DEFINE i == account[c].row
           s == IF account[c].seen.status = "suspended" THEN "active" ELSE "suspended"
<1>1. i \in DOMAIN rows /\ rows[i] \in RowType
  BY RowsAre DEF AccountInv, CallsOK, Shape, Refers, SetUserStatus
<1>2. rows' = [rows EXCEPT ![i] = [rows[i] EXCEPT !.status = s]] /\ [rows[i] EXCEPT !.status = s] \in RowType
  BY <1>1 DEF SetUserStatus, RowType, Status
<1>3. RowsRewrite(i, [rows[i] EXCEPT !.status = s])
  BY <1>1, <1>2, Rewrites DEF AccountInv
<1>4. s = "active" => approved' = approved \cup {i} /\ (~rows[i].pw => rows[i].email \in cutOff')
  BY DEF SetUserStatus
<1>5. s \in {"active", "suspended"}
  OBVIOUS
<1> QED
  BY <1>1, <1>3, <1>4, <1>5

\* Every step leaves the rows alone, appends the account its request asked for, or rewrites one row, which keeps its
\* address, its creator unless the superuser script claims it, and its password, and which becomes active only as
\* a superuser approves of it.
Appending(c) ==
    /\ account[c].pc \in {"insert", "upsert"} /\ Appended(c) /\ UNCHANGED approved
    /\ RowsAppend(NewRow(account[c].op, account[c].email))
    /\ \A i \in DOMAIN rows : rows[i].email = account[c].email => rows[i].email \in crossed
LetIn(k) == k \in approved' /\ (rows[k].pw \/ rows[k].email \in cutOff' \/ \E c \in Askers : Helps(account'[c], rows[k].email))
Rewriting(k, r) ==
    /\ RowsRewrite(k, r) /\ UNCHANGED crossed
    /\ r.email = rows[k].email /\ (rows[k].pw => r.pw)
    /\ r.by = "script" \/ (r.by = rows[k].by /\ (r.status = "active" => rows[k].status = "active" \/ LetIn(k)))
RowsStep(c) ==
    \/ UNCHANGED <<rows, crossed>>
    \/ Appending(c)
    \/ \E k \in DOMAIN rows : \E r \in RowType : Rewriting(k, r)

\* Going on to another point, or being done, changes nothing else of the request.
LEMMA Goes ==
    ASSUME account \in [Askers -> CallType], NEW c \in Askers, NEW pc \in Points, Goto(c, pc)
    PROVE  /\ account' \in [Askers -> CallType] /\ account'[c] = [account[c] EXCEPT !.pc = pc]
           /\ account'[c].op = account[c].op /\ account'[c].email = account[c].email /\ account'[c].pc = pc
           /\ account'[c].row = account[c].row /\ account'[c].seen = account[c].seen /\ account'[c].link = account[c].link
           /\ \A d \in Askers \ {c} : account'[d] = account[d]
<1> QED
  BY DEF Goto, CallType

LEMMA Ends ==
    ASSUME account \in [Askers -> CallType], NEW c \in Askers, Finish(c)
    PROVE  /\ account' \in [Askers -> CallType] /\ account'[c] = Quiet
           /\ account'[c].op = "none" /\ account'[c].pc = "idle" /\ account'[c].row = 0
           /\ \A d \in Askers \ {c} : account'[d] = account[d]
<1>1. Quiet \in CallType
  BY DEF Quiet, CallType, Points
<1> QED
  BY <1>1 DEF Finish, Quiet

LEMMA Continues ==
    ASSUME account \in [Askers -> CallType], NEW c \in Askers, NEW pc \in Points, Continue(c, pc)
    PROVE  /\ account' \in [Askers -> CallType] /\ \A d \in Askers \ {c} : account'[d] = account[d]
           /\ account'[c].pc = pc /\ account'[c].row \in {0, account[c].row}
           /\ pc = "idle" \/ /\ account'[c].op = account[c].op /\ account'[c].email = account[c].email
                             /\ account'[c].row = account[c].row /\ account'[c].seen = account[c].seen
                             /\ account'[c].link = account[c].link
<1>1. CASE pc = "idle"
  BY <1>1, Ends DEF Continue
<1>2. CASE pc # "idle"
  BY <1>2, Goes DEF Continue
<1> QED
  BY <1>1, <1>2

LEMMA RowsStepFor ==
    ASSUME AccountInv, NEW c \in Askers, Does(c)
    PROVE  RowsStep(c)
<1>0. RowsOK /\ CallsOK /\ account[c] \in CallType
  BY DEF AccountInv, RowsOK
<1>1. ASSUME CreatePortalUser(c) PROVE RowsStep(c)
  <2>1. account[c].pc = "insert" /\ Appended(c) /\ UNCHANGED approved
    BY <1>1 DEF CreatePortalUser
  <2>2. \A i \in DOMAIN rows : rows[i].email = account[c].email => rows[i].email \in crossed
    BY <2>1 DEF AccountInv, CreatingInv, Creating
  <2> QED
    BY <2>1, <2>2, InsertRow DEF RowsStep, Appending
<1>2. ASSUME UpsertSuperuser(c) PROVE RowsStep(c)
  <2> DEFINE i == FindByEmail(account[c].email)
             r == NewRow("script", account[c].email)
  <2>0. account[c].pc = "upsert" /\ account[c].op = "script" /\ account[c].email \in Emails
    BY <1>0, <1>2 DEF UpsertSuperuser, CallsOK, Shape
  <2>1. CASE i = 0 /\ Appended(c) /\ RowsAppend(r) /\ UNCHANGED approved
    <3>1. \A j \in DOMAIN rows : rows[j].email # account[c].email
      BY <1>0, <2>1, FindFacts, RowsAre DEF IsFirst
    <3> QED
      BY <2>0, <2>1, <3>1 DEF RowsStep, Appending
  <2>2. CASE i \in DOMAIN rows /\ rows[i].email = account[c].email /\ RowsRewrite(i, r) /\ UNCHANGED crossed
    <3>1. r \in RowType /\ r.email = account[c].email /\ r.pw /\ r.by = "script"
      BY <2>0 DEF NewRow, RowType, Ops, Status
    <3>2. Rewriting(i, r)
      BY <2>2, <3>1 DEF Rewriting
    <3> QED
      BY <2>2, <3>1, <3>2 DEF RowsStep
  <2> QED
    BY <1>2, <2>1, <2>2, UpsertRow
<1>3. ASSUME VerifyPortalUserEmail(c) PROVE RowsStep(c)
  <2> DEFINE i == FindByEmail(account[c].email)
             r == [rows[i] EXCEPT !.verified = TRUE]
  <2>0. UNCHANGED crossed
    BY <1>3 DEF VerifyPortalUserEmail
  <2>1. CASE i \in DOMAIN rows /\ RowsRewrite(i, r)
    <3>1. rows[i] \in RowType
      BY <1>0, <2>1, RowsAre
    <3>2. r \in RowType /\ r.email = rows[i].email /\ r.pw = rows[i].pw /\ r.by = rows[i].by /\ r.status = rows[i].status
      BY <3>1 DEF RowType
    <3>3. Rewriting(i, r)
      BY <2>0, <2>1, <3>2 DEF Rewriting
    <3> QED
      BY <2>1, <3>2, <3>3 DEF RowsStep
  <2> QED
    BY <1>3, <2>0, <2>1, VerifyRow DEF RowsStep
<1>4. ASSUME UpdatePortalUserPassword(c) PROVE RowsStep(c)
  <2> DEFINE i == FindByEmail(account[c].email)
             r == [rows[i] EXCEPT !.pw = TRUE]
  <2>0. UNCHANGED crossed
    BY <1>4 DEF UpdatePortalUserPassword
  <2>1. CASE i \in DOMAIN rows /\ RowsRewrite(i, r)
    <3>1. rows[i] \in RowType
      BY <1>0, <2>1, RowsAre
    <3>2. r \in RowType /\ r.email = rows[i].email /\ r.pw /\ r.by = rows[i].by /\ r.status = rows[i].status
      BY <3>1 DEF RowType
    <3>3. Rewriting(i, r)
      BY <2>0, <2>1, <3>2 DEF Rewriting
    <3> QED
      BY <2>1, <3>2, <3>3 DEF RowsStep
  <2> QED
    BY <1>4, <2>0, <2>1, PasswordRow DEF RowsStep
<1>5. ASSUME Activate(c) PROVE RowsStep(c)
  <2> DEFINE i == account[c].row
             r == [rows[i] EXCEPT !.status = "active"]
  <2>0. UNCHANGED crossed /\ approved' = approved \cup {i} /\ Goto(c, "verify")
    BY <1>5 DEF Activate
  <2>1. i \in DOMAIN rows /\ RowsRewrite(i, r) /\ rows[i].email = account[c].email /\ account[c].op = "validate"
    BY <1>5, ActivateRow
  <2>2. Helps(account'[c], rows[i].email)
    BY <1>0, <2>0, <2>1, Goes DEF Helps, Points, RowsOK
  <2>3. LetIn(i)
    BY <2>0, <2>2 DEF LetIn
  <2>4. rows[i] \in RowType
    BY <1>0, <2>1, RowsAre
  <2>5. r \in RowType /\ r.email = rows[i].email /\ r.pw = rows[i].pw /\ r.by = rows[i].by
    BY <2>4 DEF RowType, Status
  <2>6. Rewriting(i, r)
    BY <2>0, <2>1, <2>3, <2>5 DEF Rewriting
  <2> QED
    BY <2>1, <2>5, <2>6 DEF RowsStep
<1>6. ASSUME SetUserStatus(c) PROVE RowsStep(c)
  <2> DEFINE i == account[c].row
  <2>0. UNCHANGED crossed
    BY <1>6 DEF SetUserStatus
  <2>1. i \in DOMAIN rows
    BY <1>6, StatusRow
  <2>2. PICK s \in {"active", "suspended"} :
           /\ RowsRewrite(i, [rows[i] EXCEPT !.status = s])
           /\ s = "active" => approved' = approved \cup {i} /\ (~rows[i].pw => rows[i].email \in cutOff')
    BY <1>6, StatusRow
  <2> DEFINE r == [rows[i] EXCEPT !.status = s]
  <2>3. s = "active" => LetIn(i)
    BY <2>2 DEF LetIn
  <2>4. rows[i] \in RowType
    BY <1>0, <2>1, RowsAre
  <2>5. r \in RowType /\ r.email = rows[i].email /\ r.pw = rows[i].pw /\ r.by = rows[i].by /\ r.status = s
    BY <2>4 DEF RowType, Status
  <2>6. Rewriting(i, r)
    BY <2>0, <2>2, <2>3, <2>5 DEF Rewriting
  <2> QED
    BY <2>1, <2>5, <2>6 DEF RowsStep
<1>7. CASE \/ Start(c) \/ Find(c) \/ ReadSettings(c) \/ CreateOrganization(c) \/ CreateAuthToken(c) \/ SendEmail(c)
           \/ ConsumeAuthToken(c) \/ Compare(c) \/ GoogleSession(c) \/ ReadMember(c) \/ Dies(c)
  BY <1>7 DEF Start, Find, ReadSettings, CreateOrganization, CreateAuthToken, SendEmail, ConsumeAuthToken, Compare,
              GoogleSession, ReadMember, Dies, RowsStep
<1> QED
  BY <1>1, <1>2, <1>3, <1>4, <1>5, <1>6, <1>7 DEF Does
-----------------------------------------------------------------------------
(* What no step takes back *)

\* Rows keep their place and their address, a creator changes only to the script, and what was noted stays noted.
Kept ==
    /\ rows' \in Seq(RowType) /\ Len(rows) \in Nat /\ Len(rows') \in Nat /\ Len(rows) <= Len(rows')
    /\ DOMAIN rows = 1 .. Len(rows) /\ DOMAIN rows' = 1 .. Len(rows') /\ DOMAIN rows \subseteq DOMAIN rows'
    /\ \A i \in DOMAIN rows : rows[i] \in RowType
    /\ \A i \in DOMAIN rows' : rows'[i] \in RowType
    /\ \A i \in DOMAIN rows : /\ rows'[i].email = rows[i].email /\ (rows'[i].by = rows[i].by \/ rows'[i].by = "script")
                              /\ (rows[i].pw => rows'[i].pw)
    /\ crossed \subseteq crossed' /\ approved \subseteq approved' /\ cutOff \subseteq cutOff'
    /\ \A l \in Links : link[l].at # "absent" =>
          link'[l].at # "absent" /\ link'[l].email = link[l].email /\ link'[l].purpose = link[l].purpose

LEMMA MarksGrow ==
    ASSUME AccountInv, NEW c \in Askers, Does(c)
    PROVE  crossed \subseteq crossed' /\ approved \subseteq approved' /\ cutOff \subseteq cutOff'
<1>1. CASE CreatePortalUser(c)
  BY <1>1 DEF CreatePortalUser, Appended
<1>2. CASE UpsertSuperuser(c)
  BY <1>2 DEF UpsertSuperuser, Appended
<1>3. CASE SendEmail(c)
  BY <1>3 DEF SendEmail
<1>4. CASE Activate(c) \/ SetUserStatus(c) \/ Dies(c)
  BY <1>4 DEF Activate, SetUserStatus, Dies
<1>5. CASE \/ Start(c) \/ Find(c) \/ ReadSettings(c) \/ CreateOrganization(c) \/ CreateAuthToken(c)
           \/ ConsumeAuthToken(c) \/ VerifyPortalUserEmail(c) \/ UpdatePortalUserPassword(c)
           \/ Compare(c) \/ GoogleSession(c) \/ ReadMember(c)
  BY <1>5 DEF Start, Find, ReadSettings, CreateOrganization, CreateAuthToken, ConsumeAuthToken, VerifyPortalUserEmail,
              UpdatePortalUserPassword, Compare, GoogleSession, ReadMember
<1> QED
  BY <1>1, <1>2, <1>3, <1>4, <1>5 DEF Does

\* A link that was stored keeps its address and its purpose; it works when it is used up, and never again.
LinkStep ==
    /\ link' \in [Links -> LinkType] /\ worked' \in [Links -> Nat]
    /\ \A l \in Links : link'[l].at # "absent" => link'[l].email \in Emails
    /\ \A l \in Links : link[l].at # "absent" =>
          link'[l].at # "absent" /\ link'[l].email = link[l].email /\ link'[l].purpose = link[l].purpose
    /\ \A l \in Links : worked'[l] = IF link'[l].at = "used" THEN 1 ELSE 0

LEMMA LinksDo ==
    ASSUME AccountInv, NEW c \in Askers, Does(c)
    PROVE  LinkStep
<1>0. /\ link \in [Links -> LinkType] /\ worked \in [Links -> Nat]
      /\ \A l \in Links : link[l].at # "absent" => link[l].email \in Emails
      /\ \A l \in Links : worked[l] = IF link[l].at = "used" THEN 1 ELSE 0
  BY DEF AccountInv, RowsOK, LinkInv
<1>1. CASE CreateAuthToken(c)
  <2>1. PICK l \in Links :
           /\ link[l].at = "absent"
           /\ link' = [link EXCEPT ![l] = [email |-> account[c].email, purpose |-> Purpose(account[c].op), at |-> "stored"]]
    BY <1>1 DEF CreateAuthToken
  <2>2. account[c].email \in Emails /\ worked' = worked
    BY <1>1 DEF CreateAuthToken, AccountInv, CallsOK, Shape
  <2>3. [email |-> account[c].email, purpose |-> Purpose(account[c].op), at |-> "stored"] \in LinkType
    BY <2>2 DEF Purpose, LinkType
  <2> QED
    BY <1>0, <2>1, <2>2, <2>3 DEF LinkStep
<1>2. CASE SendEmail(c)
  <2>1. CASE UNCHANGED link
    BY <1>0, <1>2, <2>1 DEF SendEmail, LinkStep
  <2>2. CASE link' = [link EXCEPT ![account[c].link].at = IF @ = "stored" THEN "mailed" ELSE @]
    <3> DEFINE l == account[c].link
    <3>1. l \in Links /\ account[c].pc = "mail" /\ worked' = worked
      BY <1>2 DEF SendEmail, AccountInv, CallsOK, Shape
    <3>2. link' = [link EXCEPT ![l] = [link[l] EXCEPT !.at = IF link[l].at = "stored" THEN "mailed" ELSE link[l].at]]
      BY <1>0, <2>2
    <3>3. link[l] \in LinkType
      BY <1>0, <3>1
    <3>4. [link[l] EXCEPT !.at = IF link[l].at = "stored" THEN "mailed" ELSE link[l].at] \in LinkType
      BY <3>3 DEF LinkType
    <3> HIDE DEF l
    <3>5. link' \in [Links -> LinkType]
      BY <1>0, <3>1, <3>2, <3>4
    <3>6. /\ link'[l].email = link[l].email /\ link'[l].purpose = link[l].purpose
          /\ link'[l].at = IF link[l].at = "stored" THEN "mailed" ELSE link[l].at
          /\ \A k \in Links \ {l} : link'[k] = link[k]
      BY <1>0, <3>1, <3>2, <3>3 DEF LinkType
    <3> QED
      BY <1>0, <3>1, <3>5, <3>6 DEF LinkStep
  <2> QED
    BY <1>2, <2>1, <2>2 DEF SendEmail
<1>3. CASE ConsumeAuthToken(c)
  <2> DEFINE l == account[c].link
             p == IF account[c].op = "verify" THEN "verify-email" ELSE "reset-password"
             good == link[l].purpose = p /\ link[l].at = "mailed"
  <2>1. l \in Links
    BY <1>3 DEF ConsumeAuthToken, AccountInv, CallsOK, Shape
  <2>2. /\ link' = [link EXCEPT ![l] = IF good THEN [link[l] EXCEPT !.at = "used"] ELSE link[l]]
        /\ worked' = [worked EXCEPT ![l] = IF good THEN worked[l] + 1 ELSE worked[l]]
    BY <1>0, <1>3 DEF ConsumeAuthToken, Consumed
  <2>3. link[l] \in LinkType /\ good => link[l].at = "mailed"
    BY <1>0, <2>1
  <2> HIDE DEF l, good
  <2>4. CASE ~good
    <3>1. link' = link /\ worked' = worked
      BY <1>0, <2>2, <2>4
    <3> QED
      BY <1>0, <3>1 DEF LinkStep
  <2>5. CASE good
    <3>1. [link[l] EXCEPT !.at = "used"] \in LinkType
      BY <1>0, <2>1 DEF LinkType
    <3>2. link' \in [Links -> LinkType] /\ worked' \in [Links -> Nat]
      BY <1>0, <2>1, <2>2, <2>5, <3>1
    <3>3. /\ link'[l].email = link[l].email /\ link'[l].purpose = link[l].purpose /\ link'[l].at = "used"
          /\ worked'[l] = 1 /\ link[l].at = "mailed"
      BY <1>0, <2>1, <2>2, <2>3, <2>5 DEF LinkType
    <3>4. \A k \in Links \ {l} : link'[k] = link[k] /\ worked'[k] = worked[k]
      BY <1>0, <2>1, <2>2
    <3> QED
      BY <1>0, <2>1, <3>2, <3>3, <3>4 DEF LinkStep
  <2> QED
    BY <2>4, <2>5
<1>4. CASE UNCHANGED <<link, worked>>
  BY <1>0, <1>4 DEF LinkStep
<1>5. CASE \/ Start(c) \/ Find(c) \/ ReadSettings(c) \/ CreateOrganization(c) \/ CreatePortalUser(c) \/ UpsertSuperuser(c)
           \/ VerifyPortalUserEmail(c) \/ UpdatePortalUserPassword(c) \/ Compare(c) \/ GoogleSession(c)
           \/ ReadMember(c) \/ Activate(c) \/ SetUserStatus(c) \/ Dies(c)
  BY <1>4, <1>5 DEF Start, Find, ReadSettings, CreateOrganization, CreatePortalUser, UpsertSuperuser,
                    VerifyPortalUserEmail, UpdatePortalUserPassword, Compare, GoogleSession, ReadMember, Activate,
                    SetUserStatus, Dies
<1> QED
  BY <1>1, <1>2, <1>3, <1>5 DEF Does

LEMMA Keeps ==
    ASSUME AccountInv, NEW c \in Askers, Does(c)
    PROVE  Kept
<1>0. RowsOK /\ rows \in Seq(RowType)
  BY DEF AccountInv, RowsOK
<1>1. /\ Len(rows) \in Nat /\ DOMAIN rows = 1 .. Len(rows) /\ \A i \in DOMAIN rows : rows[i] \in RowType
  BY <1>0, RowsAre
<1>2. crossed \subseteq crossed' /\ approved \subseteq approved' /\ cutOff \subseteq cutOff'
  BY MarksGrow
<1>3. \A l \in Links : link[l].at # "absent" =>
          link'[l].at # "absent" /\ link'[l].email = link[l].email /\ link'[l].purpose = link[l].purpose
  BY LinksDo DEF LinkStep
<1>4. /\ rows' \in Seq(RowType) /\ Len(rows) <= Len(rows')
      /\ \A i \in DOMAIN rows : /\ rows'[i].email = rows[i].email /\ (rows'[i].by = rows[i].by \/ rows'[i].by = "script")
                                /\ (rows[i].pw => rows'[i].pw)
  <2>1. CASE UNCHANGED <<rows, crossed>>
    BY <1>0, <1>1, <2>1
  <2>2. CASE Appending(c)
    BY <1>1, <2>2 DEF Appending, RowsAppend
  <2>3. ASSUME NEW k \in DOMAIN rows, NEW r \in RowType, Rewriting(k, r)
        PROVE /\ rows' \in Seq(RowType) /\ Len(rows) <= Len(rows')
              /\ \A i \in DOMAIN rows : /\ rows'[i].email = rows[i].email /\ (rows[i].pw => rows'[i].pw)
                                        /\ rows'[i].by = rows[i].by \/ rows'[i].by = "script"
    BY <1>1, <2>3 DEF Rewriting, RowsRewrite
  <2> QED
    BY <2>1, <2>2, <2>3, RowsStepFor DEF RowsStep
<1>5. /\ Len(rows') \in Nat /\ DOMAIN rows' = 1 .. Len(rows') /\ \A i \in DOMAIN rows' : rows'[i] \in RowType
  BY <1>4, LenProperties, ElementOfSeq
<1>6. DOMAIN rows \subseteq DOMAIN rows'
  BY <1>1, <1>4, <1>5
<1> QED
  BY <1>1, <1>2, <1>3, <1>4, <1>5, <1>6 DEF Kept
-----------------------------------------------------------------------------
(* What a request holds after its step *)

\* The first read of a request takes the row of its address, and what comes next depends on it.
FindGoes(c) ==
    LET i == FindByEmail(account[c].email)
        a == account'[c]
    IN  /\ a.op = account[c].op /\ a.email = account[c].email /\ a.row = i /\ a.link = account[c].link
        /\ a.seen = IF i = 0 THEN Nothing ELSE rows[i]
        /\ \/ a.op = "signup" /\ a.pc = "insert" /\ i = 0
           \/ a.op = "createAdmin" /\ a.pc = "organization" /\ i = 0
           \/ a.op = "google" /\ a.pc = "settings" /\ i = 0
           \/ a.op = "google" /\ a.pc = "session" /\ i # 0 /\ rows[i].status = "active"
           \/ a.op = "login" /\ a.pc = "compare" /\ i # 0
           \/ a.op \in {"resend", "forgot"} /\ a.pc = "token" /\ i # 0
           \/ a.op = "script" /\ a.pc = "upsert"

LEMMA Finds ==
    ASSUME AccountInv, NEW c \in Askers, Find(c)
    PROVE  /\ account' \in [Askers -> CallType] /\ \A d \in Askers \ {c} : account'[d] = account[d]
           /\ account'[c] = Quiet \/ FindGoes(c)
<1> DEFINE i == FindByEmail(account[c].email)
           pc == AfterFind(account[c].op, i)
<1>0. /\ RowsOK /\ account \in [Askers -> CallType] /\ account[c] \in CallType
      /\ account[c].op \in {"signup", "google", "login", "resend", "forgot", "createAdmin", "script"}
      /\ account[c].email \in Emails
  BY DEF AccountInv, RowsOK, CallsOK, Shape, Find, Ops
<1>1. i = 0 \/ (i \in DOMAIN rows /\ i # 0)
  BY <1>0, FindFacts DEF IsFirst
<1>2. i \in Nat /\ (i # 0 => rows[i] \in RowType)
  BY <1>0, <1>1, RowsAre
<1>3. CASE Finish(c) \/ pc = "idle"
  <2>1. Finish(c)
    BY <1>3 DEF Find, Finish
  <2> QED
    BY <1>0, <2>1, Ends
<1>4. CASE pc # "idle" /\ ~Finish(c)
  <2> DEFINE b == [account[c] EXCEPT !.pc = pc, !.row = i, !.seen = IF i = 0 THEN Nothing ELSE rows[i]]
  <2>1. account' = [account EXCEPT ![c] = b]
    BY <1>0, <1>4 DEF Find
  <2>2. pc \in Points
    BY <1>0, <1>4 DEF AfterFind, Points, Creating
  <2>3. b \in CallType
    BY <1>0, <1>2, <2>2 DEF CallType
  <2>4. account' \in [Askers -> CallType] /\ account'[c] = b /\ \A d \in Askers \ {c} : account'[d] = account[d]
    BY <1>0, <2>1, <2>3
  <2>5. /\ b.op = account[c].op /\ b.email = account[c].email /\ b.row = i /\ b.link = account[c].link /\ b.pc = pc
        /\ b.seen = IF i = 0 THEN Nothing ELSE rows[i]
    BY <1>0 DEF CallType
  <2>6. \/ account[c].op = "signup" /\ pc = "insert" /\ i = 0
        \/ account[c].op = "createAdmin" /\ pc = "organization" /\ i = 0
        \/ account[c].op = "google" /\ pc = "settings" /\ i = 0
        \/ account[c].op = "google" /\ pc = "session" /\ i # 0 /\ rows[i].status = "active"
        \/ account[c].op = "login" /\ pc = "compare" /\ i # 0
        \/ account[c].op \in {"resend", "forgot"} /\ pc = "token" /\ i # 0
        \/ account[c].op = "script" /\ pc = "upsert"
    BY <1>0, <1>4 DEF AfterFind, Free, MayEnter
  <2> HIDE DEF b, pc, i
  <2> QED
    BY <2>4, <2>5, <2>6 DEF FindGoes, i
<1> QED
  BY <1>3, <1>4

\* A request begins with its first read, with the link it presents, or with the row that is named in it.
Starts(c) ==
    LET a == account'[c]
    IN  \/ a.pc = "find" /\ a.row = 0 /\ a.op \in Ops \ {"verify", "reset", "validate", "status"} /\ a.email \in Emails
        \/ /\ a.pc = "consume" /\ a.row = 0 /\ a.op \in {"verify", "reset"} /\ a.email \in Emails /\ a.link \in Links
           /\ link[a.link].email = a.email /\ link[a.link].at # "absent"
        \/ /\ \/ a.pc = "member" /\ a.op = "validate"
              \/ a.pc = "write" /\ a.op = "status" /\ a.seen \in RowType
           /\ a.row \in DOMAIN rows /\ rows[a.row].email = a.email /\ a.email \in Emails

LEMMA Asks ==
    ASSUME AccountInv, NEW c \in Askers, NEW op \in Ops, NEW e \in Emails, NEW pc \in Points,
           NEW i \in Nat, i = 0 \/ i \in DOMAIN rows, NEW l \in Links \cup {Nothing}, Ask(c, op, e, pc, i, l)
    PROVE  /\ account' \in [Askers -> CallType] /\ \A d \in Askers \ {c} : account'[d] = account[d]
           /\ account'[c].op = op /\ account'[c].email = e /\ account'[c].pc = pc /\ account'[c].row = i
           /\ account'[c].link = l /\ (i # 0 => account'[c].seen = rows[i] /\ rows[i] \in RowType)
<1>0. account \in [Askers -> CallType] /\ RowsOK
  BY DEF AccountInv, RowsOK
<1>1. i # 0 => rows[i] \in RowType
  BY <1>0, RowsAre
<1> DEFINE a == [op |-> op, email |-> e, pc |-> pc, row |-> i, seen |-> IF i = 0 THEN Nothing ELSE rows[i], link |-> l]
<1>2. a \in CallType
  BY <1>1 DEF CallType
<1>3. account' = [account EXCEPT ![c] = a]
  BY DEF Ask
<1> QED
  BY <1>0, <1>1, <1>2, <1>3

LEMMA StartsSo ==
    ASSUME AccountInv, NEW c \in Askers, Start(c)
    PROVE  /\ account' \in [Askers -> CallType] /\ \A d \in Askers \ {c} : account'[d] = account[d]
           /\ Starts(c)
<1>0. RowsOK /\ \A i \in DOMAIN rows : i \in Nat /\ i # 0 /\ rows[i] \in RowType
  BY RowsAre DEF AccountInv
<1>1. CASE \E e \in Emails, op \in Ops \ {"verify", "reset", "validate", "status"} : Ask(c, op, e, "find", 0, Nothing)
  <2>1. PICK e \in Emails, op \in Ops \ {"verify", "reset", "validate", "status"} : Ask(c, op, e, "find", 0, Nothing)
    BY <1>1
  <2>2. "find" \in Points
    BY DEF Points
  <2> QED
    BY <2>1, <2>2, Asks DEF Starts
<1>2. CASE \E l \in Links : /\ link[l].at \in {"mailed", "used", "expired"}
                            /\ Ask(c, IF link[l].purpose = "verify-email" THEN "verify" ELSE "reset", link[l].email, "consume", 0, l)
  <2>1. PICK l \in Links : /\ link[l].at \in {"mailed", "used", "expired"}
                           /\ Ask(c, IF link[l].purpose = "verify-email" THEN "verify" ELSE "reset", link[l].email, "consume", 0, l)
    BY <1>2
  <2>2. "consume" \in Points /\ link[l].email \in Emails /\ link[l].at # "absent"
    BY <1>0, <2>1 DEF Points, RowsOK
  <2> DEFINE op == IF link[l].purpose = "verify-email" THEN "verify" ELSE "reset"
  <2>3. op \in {"verify", "reset"} /\ op \in Ops
    BY DEF Ops
  <2> HIDE DEF op
  <2>4. Ask(c, op, link[l].email, "consume", 0, l)
    BY <2>1 DEF op
  <2> QED
    BY <2>2, <2>3, <2>4, Asks DEF Starts
<1>3. CASE \E i \in DOMAIN rows : \/ Ask(c, "validate", rows[i].email, "member", i, Nothing)
                                  \/ Ask(c, "status", rows[i].email, "write", i, Nothing)
  <2>1. PICK i \in DOMAIN rows : \/ Ask(c, "validate", rows[i].email, "member", i, Nothing)
                                 \/ Ask(c, "status", rows[i].email, "write", i, Nothing)
    BY <1>3
  <2>2. {"member", "write"} \subseteq Points /\ {"validate", "status"} \subseteq Ops /\ rows[i].email \in Emails
    BY <1>0 DEF Points, Ops, RowType
  <2>3. i \in Nat /\ i # 0
    BY <1>0
  <2> QED
    BY <2>1, <2>2, <2>3, Asks DEF Starts
<1> QED
  BY <1>1, <1>2, <1>3 DEF Start

\* The points a request reaches by one step of its own, with what it has been asked and what it holds; everything
\* but its first read and its start leaves those alone.
Moves(c, from, to) ==
    /\ account[c].pc = from /\ account'[c].pc = to
    /\ account'[c].op = account[c].op /\ account'[c].email = account[c].email /\ account'[c].row = account[c].row
    /\ account'[c].seen = account[c].seen
CallGoes(c) ==
    \/ account'[c].pc = "idle" /\ account'[c].row \in {0, account[c].row}
    \/ Starts(c) \/ (FindGoes(c) /\ account[c].pc = "find" /\ UNCHANGED rows)
    \/ Moves(c, "settings", "insert") /\ UNCHANGED rows
    \/ (Moves(c, "organization", "tenant") \/ Moves(c, "tenant", "insert")) /\ UNCHANGED rows
    \/ Moves(c, "insert", "token") /\ account[c].op = "signup"
    \/ Moves(c, "insert", "verify") /\ account[c].op = "google" /\ Appending(c)
    \/ /\ account[c].pc = "token" /\ account'[c].pc = "mail" /\ account'[c].link \in Links
       /\ account'[c].op = account[c].op /\ account'[c].email = account[c].email /\ account'[c].row = account[c].row
    \/ Moves(c, "consume", "verify") /\ account[c].op = "verify"
    \/ Moves(c, "consume", "password") /\ account[c].op = "reset"
    \/ Moves(c, "verify", "session") /\ account[c].op = "google"
    \/ Moves(c, "verify", "token") /\ account[c].op = "validate"
    \/ Moves(c, "member", "activate")
    \/ Moves(c, "activate", "verify")

LEMMA CallMoves ==
    ASSUME AccountInv, NEW c \in Askers, Does(c)
    PROVE  /\ account' \in [Askers -> CallType] /\ \A d \in Askers \ {c} : account'[d] = account[d]
           /\ CallGoes(c)
<1>0. account \in [Askers -> CallType] /\ Shape(account[c]) /\ CallsOK
  BY DEF AccountInv, RowsOK, CallsOK
<1>1. CASE Start(c)
  BY <1>1, StartsSo DEF CallGoes
<1>2. CASE Find(c)
  <2>1. UNCHANGED rows /\ account[c].pc = "find"
    BY <1>2 DEF Find
  <2>2. Quiet.pc = "idle" /\ Quiet.row = 0
    BY DEF Quiet
  <2> QED
    BY <1>2, <2>1, <2>2, Finds DEF CallGoes
<1>3. CASE ReadSettings(c)
  <2>1. Continue(c, IF open THEN "insert" ELSE "idle") /\ {"insert", "idle"} \subseteq Points
    BY <1>3 DEF ReadSettings, Points, Creating
  <2> QED
    BY <1>0, <1>3, <2>1, Continues DEF ReadSettings, CallGoes, Moves
<1>4. CASE CreateOrganization(c)
  <2>1. {"tenant", "insert"} \subseteq Points
    BY DEF Points, Creating
  <2>2. CASE account[c].pc = "organization"
    BY <1>0, <1>4, <2>1, <2>2, Goes DEF CreateOrganization, CallGoes, Moves
  <2>3. CASE account[c].pc = "tenant"
    BY <1>0, <1>4, <2>1, <2>3, Goes DEF CreateOrganization, CallGoes, Moves
  <2> QED
    BY <1>4, <2>2, <2>3 DEF CreateOrganization
<1>5. CASE CreatePortalUser(c)
  <2>1. {"token", "verify", "idle"} \subseteq Points /\ account[c].pc = "insert"
    BY <1>5 DEF Points, Creating, CreatePortalUser
  <2>2. Appending(c)
    <3>1. \A i \in DOMAIN rows : rows[i].email = account[c].email => rows[i].email \in crossed
      BY <2>1 DEF AccountInv, CreatingInv, Creating
    <3> QED
      BY <1>5, <2>1, <3>1, InsertRow DEF CreatePortalUser, Appending
  <2>3. CASE account[c].op = "signup"
    BY <1>0, <1>5, <2>1, <2>3, Continues DEF CreatePortalUser, CallGoes, Moves
  <2>4. CASE account[c].op = "google"
    BY <1>0, <1>5, <2>1, <2>2, <2>4, Continues DEF CreatePortalUser, CallGoes, Moves
  <2>5. CASE account[c].op \notin {"signup", "google"}
    BY <1>0, <1>5, <2>1, <2>5, Continues DEF CreatePortalUser, CallGoes
  <2> QED
    BY <2>3, <2>4, <2>5
<1>6. CASE UpsertSuperuser(c) \/ SendEmail(c) \/ UpdatePortalUserPassword(c) \/ Compare(c) \/ GoogleSession(c)
           \/ SetUserStatus(c) \/ Dies(c)
  <2>1. Finish(c)
    BY <1>6 DEF UpsertSuperuser, SendEmail, UpdatePortalUserPassword, Compare, GoogleSession, SetUserStatus, Dies
  <2> QED
    BY <1>0, <2>1, Ends DEF CallGoes
<1>7. CASE CreateAuthToken(c)
  <2>1. PICK l \in Links : account' = [account EXCEPT ![c].pc = "mail", ![c].link = l]
    BY <1>7 DEF CreateAuthToken
  <2>2. "mail" \in Points /\ account[c].pc = "token" /\ account[c] \in CallType
    BY <1>0, <1>7 DEF Points, CreateAuthToken
  <2> DEFINE b == [[account[c] EXCEPT !.pc = "mail"] EXCEPT !.link = l]
  <2>3. account' = [account EXCEPT ![c] = b]
    BY <1>0, <2>1
  <2>4. /\ b \in CallType /\ b.pc = "mail" /\ b.link = l /\ b.op = account[c].op /\ b.email = account[c].email
        /\ b.row = account[c].row
    BY <2>2 DEF CallType
  <2> HIDE DEF b
  <2> QED
    BY <1>0, <2>2, <2>3, <2>4 DEF CallGoes
<1>8. CASE ConsumeAuthToken(c)
  <2>1. {"idle", "verify", "password"} \subseteq Points /\ account[c].pc = "consume" /\ account[c].op \in {"verify", "reset"}
    BY <1>0, <1>8 DEF Points, ConsumeAuthToken, Shape
  <2>2. PICK pc \in {"idle", "verify", "password"} :
           /\ Continue(c, pc)
           /\ pc = "verify" => account[c].op = "verify"
           /\ pc = "password" => account[c].op # "verify"
    BY <1>8 DEF ConsumeAuthToken
  <2> QED
    BY <1>0, <2>1, <2>2, Continues DEF CallGoes, Moves
<1>9. CASE VerifyPortalUserEmail(c)
  <2>1. {"idle", "session", "token"} \subseteq Points /\ account[c].pc = "verify"
    BY <1>9 DEF Points, VerifyPortalUserEmail
  <2>2. PICK pc \in {"idle", "session", "token"} :
           /\ Continue(c, pc)
           /\ pc = "session" => account[c].op = "google"
           /\ pc = "token" => account[c].op = "validate"
    BY <1>9 DEF VerifyPortalUserEmail
  <2> QED
    BY <1>0, <2>1, <2>2, Continues DEF CallGoes, Moves
<1>10. CASE ReadMember(c)
  <2>1. {"idle", "activate"} \subseteq Points /\ account[c].pc = "member"
    BY <1>10 DEF Points, ReadMember
  <2>2. PICK pc \in {"idle", "activate"} : Continue(c, pc)
    BY <1>10 DEF ReadMember
  <2> QED
    BY <1>0, <2>1, <2>2, Continues DEF CallGoes, Moves
<1>11. CASE Activate(c)
  <2>1. "verify" \in Points
    BY DEF Points
  <2> QED
    BY <1>0, <1>11, <2>1, Goes DEF Activate, CallGoes, Moves
<1> QED
  BY <1>1, <1>2, <1>3, <1>4, <1>5, <1>6, <1>7, <1>8, <1>9, <1>10, <1>11 DEF Does

\* The requests keep their shape, and refer to rows and links that exist.
LEMMA CallsStayOK ==
    ASSUME AccountInv, NEW c \in Askers, Does(c)
    PROVE  CallsOK'
<1>0. CallsOK /\ Kept /\ account \in [Askers -> CallType] /\ RowsOK
  BY Keeps DEF AccountInv, RowsOK
<1>1. /\ account' \in [Askers -> CallType] /\ \A d \in Askers \ {c} : account'[d] = account[d]
      /\ CallGoes(c)
  BY CallMoves
<1>2. ASSUME NEW d \in Askers \ {c} PROVE Shape(account'[d]) /\ Refers(account[d])'
  <2>1. account'[d] = account[d] /\ Shape(account[d]) /\ Refers(account[d])
    BY <1>0, <1>1 DEF CallsOK
  <2>2. account[d].row \in 0 .. Len(rows')
    BY <1>0, <2>1 DEF Refers, Kept
  <2>3. account[d].pc \in {"member", "activate", "write"} => rows'[account[d].row].email = account[d].email
    BY <1>0, <2>1 DEF Refers, Kept, Shape
  <2>4. account[d].pc = "consume" =>
           link'[account[d].link].email = account[d].email /\ link'[account[d].link].at # "absent"
    BY <1>0, <2>1 DEF Refers, Kept, Shape
  <2> QED
    BY <2>1, <2>2, <2>3, <2>4 DEF Refers
<1>3. Shape(account'[c])
  <2>1. account[c] \in CallType /\ account'[c] \in CallType /\ Shape(account[c])
    BY <1>0, <1>1 DEF CallsOK
  <2>2. CASE Starts(c)
    <3>1. {"verify", "reset", "validate", "status"} \subseteq Ops
      BY DEF Ops
    <3>2. \A i \in DOMAIN rows : i # 0
      BY <1>0, RowsAre
    <3> QED
      BY <2>2, <3>1, <3>2 DEF Starts, Shape
  <2>3. CASE FindGoes(c) /\ account[c].pc = "find"
    <3>1. account[c].email \in Emails /\ account[c].op \in Ops
      BY <2>1, <2>3 DEF Shape
    <3>2. FindByEmail(account[c].email) # 0 => rows[FindByEmail(account[c].email)] \in RowType
      BY <1>0, FindFacts, RowsAre DEF IsFirst
    <3> QED
      BY <2>3, <3>1, <3>2 DEF FindGoes, Shape
  <2>4. CASE account'[c].pc = "idle"
    BY <2>4 DEF Shape
  <2>5. CASE \/ Moves(c, "settings", "insert") \/ Moves(c, "organization", "tenant") \/ Moves(c, "tenant", "insert")
             \/ (Moves(c, "insert", "token") /\ account[c].op = "signup")
             \/ (Moves(c, "insert", "verify") /\ account[c].op = "google")
    BY <2>1, <2>5 DEF Moves, Shape
  <2>6. CASE \/ (Moves(c, "consume", "verify") /\ account[c].op = "verify")
             \/ (Moves(c, "consume", "password") /\ account[c].op = "reset")
             \/ (Moves(c, "verify", "session") /\ account[c].op = "google")
             \/ (Moves(c, "verify", "token") /\ account[c].op = "validate")
             \/ Moves(c, "member", "activate") \/ Moves(c, "activate", "verify")
    BY <2>1, <2>6 DEF Moves, Shape
  <2>7. CASE /\ account[c].pc = "token" /\ account'[c].pc = "mail" /\ account'[c].link \in Links
             /\ account'[c].op = account[c].op /\ account'[c].email = account[c].email
    BY <2>1, <2>7 DEF Shape
  <2> QED
    BY <1>1, <2>2, <2>3, <2>4, <2>5, <2>6, <2>7 DEF CallGoes
<1>4. Refers(account[c])'
  <2>1. Shape(account[c]) /\ Refers(account[c])
    BY <1>0 DEF CallsOK
  <2>2. account'[c].row \in {0, account[c].row} \/ account'[c].row \in DOMAIN rows
    <3>1. FindByEmail(account[c].email) = 0 \/ FindByEmail(account[c].email) \in DOMAIN rows
      BY <1>0, FindFacts DEF IsFirst
    <3> QED
      BY <1>1, <3>1 DEF CallGoes, Starts, FindGoes, Moves
  <2>3. account'[c].row \in 0 .. Len(rows')
    BY <1>0, <2>1, <2>2 DEF Refers, Kept
  <2>4. account'[c].pc \in {"member", "activate", "write"} => rows'[account'[c].row].email = account'[c].email
    <3>1. CASE Starts(c)
      BY <1>0, <3>1 DEF Starts, Kept
    <3>2. CASE Moves(c, "member", "activate")
      BY <1>0, <2>1, <3>2 DEF Moves, Kept, Refers, Shape
    <3>3. CASE ~Starts(c) /\ ~Moves(c, "member", "activate")
      BY <1>1, <3>3 DEF CallGoes, FindGoes, Moves
    <3> QED
      BY <3>1, <3>2, <3>3
  <2>5. account'[c].pc = "consume" =>
           link'[account'[c].link].email = account'[c].email /\ link'[account'[c].link].at # "absent"
    <3>1. CASE Starts(c)
      BY <1>0, <3>1 DEF Starts, Kept
    <3>2. CASE ~Starts(c)
      BY <1>1, <3>2 DEF CallGoes, FindGoes, Moves
    <3> QED
      BY <3>1, <3>2
  <2> QED
    BY <2>3, <2>4, <2>5 DEF Refers
<1> QED
  BY <1>2, <1>3, <1>4 DEF CallsOK

\* Rows, links, requests and sessions keep their types.
LEMMA RowsStayOK ==
    ASSUME AccountInv, NEW c \in Askers, Does(c)
    PROVE  RowsOK'
<1>0. RowsOK /\ CallsOK /\ Kept /\ LinkStep /\ account' \in [Askers -> CallType]
  BY Keeps, LinksDo, CallMoves DEF AccountInv
<1>1. session' \subseteq DOMAIN rows'
  <2>1. CASE Compare(c)
    <3>1. account[c].row \in DOMAIN rows
      BY <1>0, <2>1 DEF Compare, CallsOK, Shape, Refers, Kept
    <3> QED
      BY <1>0, <2>1, <3>1 DEF Compare, RowsOK
  <2>2. CASE GoogleSession(c)
    <3>1. FindByEmail(account[c].email) \in DOMAIN rows \cup {0}
      BY <1>0, FindFacts DEF IsFirst
    <3> QED
      BY <1>0, <2>2, <3>1 DEF GoogleSession, RowsOK
  <2>3. CASE UNCHANGED session
    BY <1>0, <2>3 DEF RowsOK, Kept
  <2>4. CASE \/ Start(c) \/ Find(c) \/ ReadSettings(c) \/ CreateOrganization(c) \/ CreatePortalUser(c) \/ UpsertSuperuser(c)
             \/ CreateAuthToken(c) \/ SendEmail(c) \/ ConsumeAuthToken(c) \/ VerifyPortalUserEmail(c)
             \/ UpdatePortalUserPassword(c) \/ ReadMember(c) \/ Activate(c) \/ SetUserStatus(c) \/ Dies(c)
    BY <2>3, <2>4 DEF Start, Find, ReadSettings, CreateOrganization, CreatePortalUser, UpsertSuperuser,
                      CreateAuthToken, SendEmail, ConsumeAuthToken, VerifyPortalUserEmail, UpdatePortalUserPassword,
                      ReadMember, Activate, SetUserStatus, Dies
  <2> QED
    BY <2>1, <2>2, <2>4 DEF Does
<1>2. approved' \subseteq DOMAIN rows'
  <2>1. CASE Activate(c)
    BY <1>0, <2>1, ActivateRow DEF Activate, RowsOK, Kept
  <2>2. CASE SetUserStatus(c)
    BY <1>0, <2>2, StatusRow DEF SetUserStatus, RowsOK, Kept
  <2>3. CASE UpsertSuperuser(c)
    BY <1>0, <2>3, UpsertRow DEF RowsOK, Kept
  <2>4. CASE UNCHANGED approved
    BY <1>0, <2>4 DEF RowsOK, Kept
  <2>5. CASE \/ Start(c) \/ Find(c) \/ ReadSettings(c) \/ CreateOrganization(c) \/ CreatePortalUser(c)
             \/ CreateAuthToken(c) \/ SendEmail(c) \/ ConsumeAuthToken(c) \/ VerifyPortalUserEmail(c)
             \/ UpdatePortalUserPassword(c) \/ Compare(c) \/ GoogleSession(c) \/ ReadMember(c) \/ Dies(c)
    BY <2>4, <2>5 DEF Start, Find, ReadSettings, CreateOrganization, CreatePortalUser,
                      CreateAuthToken, SendEmail, ConsumeAuthToken, VerifyPortalUserEmail, UpdatePortalUserPassword,
                      Compare, GoogleSession, ReadMember, Dies
  <2> QED
    BY <2>1, <2>2, <2>3, <2>5 DEF Does
<1>3. open' \in BOOLEAN
  BY <1>0 DEF Does, Start, Find, ReadSettings, CreateOrganization, CreatePortalUser, UpsertSuperuser,
              CreateAuthToken, SendEmail, ConsumeAuthToken, VerifyPortalUserEmail, UpdatePortalUserPassword,
              Compare, GoogleSession, ReadMember, Activate, SetUserStatus, Dies, RowsOK
<1> QED
  BY <1>0, <1>1, <1>2, <1>3 DEF RowsOK, Kept, LinkStep
-----------------------------------------------------------------------------
(* Each part of the invariant is kept *)

\* Every account is there before the step, or is the one that is being created: of an address that had none, or has
\* been marked, and of a kind that the request asked for.
LEMMA RowsFrom ==
    ASSUME AccountInv, NEW c \in Askers, Does(c), NEW i \in DOMAIN rows'
    PROVE  \/ i \in DOMAIN rows
           \/ /\ Appending(c) /\ i = Len(rows) + 1 /\ DOMAIN rows' = 1 .. Len(rows) + 1 /\ DOMAIN rows = 1 .. Len(rows)
              /\ rows'[i].email = account[c].email /\ rows'[i].by = account[c].op
              /\ account[c].op = "createAdmin" => rows'[i].status = "pending_validation"
<1>1. DOMAIN rows = 1 .. Len(rows)
  BY Keeps DEF Kept
<1>2. CASE UNCHANGED <<rows, crossed>>
  BY <1>2
<1>3. CASE Appending(c)
  <2>1. DOMAIN rows' = 1 .. Len(rows) + 1 /\ rows'[Len(rows) + 1] = NewRow(account[c].op, account[c].email)
    BY <1>3 DEF Appending, RowsAppend
  <2>2. i \in DOMAIN rows \/ i = Len(rows) + 1
    BY <1>1, <2>1, Keeps DEF Kept
  <2> QED
    BY <1>1, <1>3, <2>1, <2>2 DEF NewRow
<1>4. CASE \E k \in DOMAIN rows : \E r \in RowType : Rewriting(k, r)
  BY <1>4 DEF Rewriting, RowsRewrite
<1> QED
  BY <1>2, <1>3, <1>4, RowsStepFor DEF RowsStep

LEMMA OneAccountStays ==
    ASSUME AccountInv, NEW c \in Askers, Does(c)
    PROVE  OneAccountPerAddress'
<1>0. Kept /\ OneAccountPerAddress
  BY Keeps DEF AccountInv
<1>1. ASSUME NEW i \in DOMAIN rows, NEW j \in DOMAIN rows' \ DOMAIN rows, rows'[i].email = rows'[j].email
      PROVE  rows'[i].email \in crossed'
  <2>1. Appending(c) /\ rows'[j].email = account[c].email
    BY RowsFrom
  <2>2. rows[i].email = account[c].email
    BY <1>0, <1>1, <2>1 DEF Kept
  <2> QED
    BY <1>0, <2>1, <2>2 DEF Appending, Kept
<1>2. ASSUME NEW i \in DOMAIN rows', NEW j \in DOMAIN rows', rows'[i].email = rows'[j].email, i # j
      PROVE  rows'[i].email \in crossed'
  <2>1. CASE i \in DOMAIN rows /\ j \in DOMAIN rows
    BY <1>0, <1>2, <2>1 DEF OneAccountPerAddress, Kept
  <2>2. CASE i \notin DOMAIN rows /\ j \notin DOMAIN rows
    BY <1>2, <2>2, RowsFrom
  <2> QED
    BY <1>1, <1>2, <2>1, <2>2
<1> QED
  BY <1>2 DEF OneAccountPerAddress

LEMMA CreatingStays ==
    ASSUME AccountInv, NEW c \in Askers, Does(c)
    PROVE  CreatingInv'
<1>0. Kept /\ CreatingInv /\ RowsOK
  BY Keeps DEF AccountInv
<1>1. (\A d \in Askers \ {c} : account'[d] = account[d]) /\ CallGoes(c)
  BY CallMoves
<1>2. ASSUME NEW d \in Askers \ {c}, account'[d].pc \in Creating \ {"upsert"},
             NEW i \in DOMAIN rows', rows'[i].email = account'[d].email
      PROVE  rows'[i].email \in crossed'
  <2>1. account'[d] = account[d]
    BY <1>1
  <2>2. CASE i \in DOMAIN rows
    BY <1>0, <1>2, <2>1, <2>2 DEF CreatingInv, Kept
  <2>3. CASE i \notin DOMAIN rows
    <3>1. Appended(c) /\ rows'[i].email = account[c].email
      BY <2>3, RowsFrom DEF Appending
    <3>2. account[d].email \in Overlaps(c)
      BY <1>2, <2>1, <3>1 DEF Overlaps
    <3> QED
      BY <1>2, <2>1, <3>1, <3>2 DEF Appended
  <2> QED
    BY <2>2, <2>3
<1>3. ASSUME account'[c].pc \in Creating \ {"upsert"}, NEW i \in DOMAIN rows', rows'[i].email = account'[c].email
      PROVE  rows'[i].email \in crossed'
  <2>1. UNCHANGED rows /\ account'[c].email = account[c].email
        /\ (account[c].pc \in Creating \ {"upsert"} \/ FindByEmail(account[c].email) = 0)
    BY <1>1, <1>3 DEF CallGoes, Starts, FindGoes, Moves, Creating
  <2>2. CASE account[c].pc \in Creating \ {"upsert"}
    BY <1>0, <1>3, <2>1, <2>2 DEF CreatingInv, Kept
  <2>3. CASE FindByEmail(account[c].email) = 0
    <3>1. \A j \in DOMAIN rows : rows[j].email # account[c].email
      BY <1>0, <2>3, FindFacts, RowsAre DEF IsFirst
    <3> QED
      BY <1>3, <2>1, <3>1
  <2> QED
    BY <2>1, <2>2, <2>3
<1> QED
  BY <1>2, <1>3 DEF CreatingInv

LEMMA ActiveStays ==
    ASSUME AccountInv, NEW c \in Askers, Does(c)
    PROVE  ActiveInv'
<1>0. Kept /\ ActiveInv
  BY Keeps DEF AccountInv
<1> SUFFICES ASSUME NEW i \in DOMAIN rows', rows'[i].by = "createAdmin", rows'[i].status = "active"
             PROVE  i \in approved'
  BY DEF ActiveInv
<1>1. i \in DOMAIN rows
  BY RowsFrom
<1>2. CASE UNCHANGED <<rows, crossed>>
  BY <1>0, <1>1, <1>2 DEF ActiveInv, Kept
<1>3. CASE Appending(c)
  BY <1>0, <1>1, <1>3 DEF Appending, RowsAppend, ActiveInv, Kept
<1>4. ASSUME NEW k \in DOMAIN rows, NEW r \in RowType, Rewriting(k, r) PROVE i \in approved'
  BY <1>0, <1>1, <1>4 DEF Rewriting, RowsRewrite, LetIn, ActiveInv, Kept
<1> QED
  BY <1>2, <1>3, <1>4, RowsStepFor DEF RowsStep

LEMMA CompareStays ==
    ASSUME AccountInv, NEW c \in Askers, Does(c)
    PROVE  CompareInv'
<1>0. Kept /\ CompareInv /\ CallsOK /\ RowsOK /\ ActiveInv
  BY Keeps DEF AccountInv
<1>1. (\A d \in Askers \ {c} : account'[d] = account[d]) /\ CallGoes(c)
  BY CallMoves
<1>2. ASSUME NEW d \in Askers \ {c}, account'[d].pc = "compare", rows'[account'[d].row].by = "createAdmin"
      PROVE  account'[d].seen.by = "createAdmin"
             /\ (account'[d].seen.status = "active" => account'[d].row \in approved')
  <2>1. account'[d] = account[d] /\ account[d].row \in DOMAIN rows
    BY <1>0, <1>1, <1>2 DEF CallsOK, Shape, Refers, Kept
  <2> QED
    BY <1>0, <1>2, <2>1 DEF CompareInv, Kept
<1>3. ASSUME account'[c].pc = "compare", rows'[account'[c].row].by = "createAdmin"
      PROVE  account'[c].seen.by = "createAdmin"
             /\ (account'[c].seen.status = "active" => account'[c].row \in approved')
  <2>1. FindGoes(c) /\ UNCHANGED rows
    BY <1>1, <1>3 DEF CallGoes, Starts, Moves
  <2> DEFINE i == FindByEmail(account[c].email)
  <2>2. i # 0 /\ account'[c].row = i /\ account'[c].seen = rows[i]
    BY <1>3, <2>1 DEF FindGoes
  <2>3. i \in DOMAIN rows
    BY <1>0, <2>2, FindFacts DEF IsFirst
  <2> QED
    BY <1>0, <1>3, <2>1, <2>2, <2>3 DEF ActiveInv, Kept
<1> QED
  BY <1>2, <1>3 DEF CompareInv

\* The first row of an address stays the first.
LEMMA FindStays ==
    ASSUME RowsOK, Kept, NEW e, FindByEmail(e) # 0
    PROVE  First(rows', e) = FindByEmail(e)
<1> DEFINE i == FindByEmail(e)
           j == First(rows', e)
<1>1. i \in DOMAIN rows /\ rows[i].email = e /\ \A k \in DOMAIN rows : rows[k].email = e => i <= k
  BY FindFacts DEF IsFirst
<1>2. IsFirst(rows', e, j)
  BY FirstFacts DEF Kept
<1>3. i \in DOMAIN rows' /\ rows'[i].email = e
  BY <1>1 DEF Kept
<1>4. j \in DOMAIN rows' /\ rows'[j].email = e /\ j <= i
  BY <1>2, <1>3 DEF IsFirst
<1>5. i \in 1 .. Len(rows) /\ j \in Nat /\ j # 0
  BY <1>1, <1>4 DEF Kept
<1>6. j \in DOMAIN rows
  BY <1>4, <1>5 DEF Kept
<1>7. i <= j
  BY <1>1, <1>4, <1>6 DEF Kept
<1> QED
  BY <1>4, <1>5, <1>7

LEMMA GoogleStays ==
    ASSUME AccountInv, NEW c \in Askers, Does(c)
    PROVE  GoogleInv'
<1>0. Kept /\ GoogleInv /\ RowsOK /\ ActiveInv
  BY Keeps DEF AccountInv
<1>1. (\A d \in Askers \ {c} : account'[d] = account[d]) /\ CallGoes(c)
  BY CallMoves
<1> DEFINE Ok(i, e) == i # 0 /\ (rows'[i].by = "createAdmin" => i \in approved' \/ e \in crossed')
<1>2. ASSUME NEW d \in Askers, account[d].op = "google", account[d].pc \in {"verify", "session"}
      PROVE  Ok(First(rows', account[d].email), account[d].email)
  <2> DEFINE i == FindByEmail(account[d].email)
  <2>1. i # 0 /\ (rows[i].by = "createAdmin" => i \in approved \/ account[d].email \in crossed)
    BY <1>0, <1>2 DEF GoogleInv
  <2>2. i \in DOMAIN rows /\ First(rows', account[d].email) = i
    BY <1>0, <2>1, FindStays, FindFacts DEF IsFirst
  <2> QED
    BY <1>0, <2>1, <2>2 DEF Kept
<1>3. ASSUME account'[c].op = "google", account'[c].pc \in {"verify", "session"}
      PROVE  Ok(First(rows', account'[c].email), account'[c].email)
  <2> DEFINE e == account[c].email
             i == FindByEmail(e)
             j == First(rows', e)
  <2>1. \/ Moves(c, "verify", "session") /\ account[c].op = "google"
        \/ Moves(c, "insert", "verify") /\ account[c].op = "google" /\ Appending(c)
        \/ FindGoes(c) /\ UNCHANGED rows /\ i # 0 /\ rows[i].status = "active" /\ account'[c].email = e
        \/ Moves(c, "activate", "verify")
    BY <1>1, <1>3 DEF CallGoes, Starts, FindGoes, Moves
  <2>2. CASE Moves(c, "verify", "session") /\ account[c].op = "google"
    BY <1>2, <2>2 DEF Moves
  <2>3. CASE Moves(c, "insert", "verify") /\ account[c].op = "google" /\ Appending(c)
    <3>0. account'[c].email = e
      BY <2>3 DEF Moves
    <3>1. CASE i # 0
      <4>1. i \in DOMAIN rows /\ rows[i].email = e /\ j = i
        BY <1>0, <3>1, FindFacts, FindStays DEF IsFirst
      <4>2. e \in crossed'
        BY <1>0, <2>3, <4>1 DEF Appending, Kept
      <4> QED
        BY <3>0, <3>1, <4>1, <4>2
    <3>2. CASE i = 0
      <4>1. \A k \in DOMAIN rows : rows[k].email # e
        BY <1>0, <3>2, FindFacts, RowsAre DEF IsFirst
      <4>2. IsFirst(rows', e, j)
        BY <1>0, FirstFacts DEF Kept
      <4>3. Len(rows) + 1 \in DOMAIN rows' /\ rows'[Len(rows) + 1].email = e
        BY <1>0, <2>3 DEF Appending, RowsAppend, NewRow, Kept
      <4>4. j \in DOMAIN rows' /\ j # 0 /\ rows'[j].email = e
        BY <4>2, <4>3 DEF IsFirst
      <4>5. j \notin DOMAIN rows
        BY <1>0, <4>1, <4>4 DEF Kept
      <4>6. rows'[j].by = "google"
        BY <2>3, <4>4, <4>5, RowsFrom
      <4> QED
        BY <3>0, <4>4, <4>6
    <3> QED
      BY <3>1, <3>2
  <2>4. CASE FindGoes(c) /\ UNCHANGED rows /\ i # 0 /\ rows[i].status = "active" /\ account'[c].email = e
    <3>1. i \in DOMAIN rows /\ j = i
      BY <1>0, <2>4, FindFacts, FindStays DEF IsFirst
    <3> QED
      BY <1>0, <2>4, <3>1 DEF ActiveInv, Kept
  <2>5. CASE Moves(c, "activate", "verify")
    <3>1. account[c].op = "validate"
      BY <2>5 DEF Moves, AccountInv, CallsOK, Shape
    <3> QED
      BY <1>3, <2>5, <3>1 DEF Moves
  <2> QED
    BY <2>1, <2>2, <2>3, <2>4, <2>5
<1>4. ASSUME NEW d \in Askers, account'[d].op = "google", account'[d].pc \in {"verify", "session"}
      PROVE  Ok(FindByEmail(account[d].email)', account'[d].email)
  <2>0. FindByEmail(account[d].email)' = First(rows', account'[d].email)
    BY DEF FindByEmail, First
  <2>1. CASE d = c
    BY <1>3, <1>4, <2>0, <2>1
  <2>2. CASE d # c
    BY <1>1, <1>2, <1>4, <2>0, <2>2
  <2> QED
    BY <2>1, <2>2
<1> QED
  BY <1>4 DEF GoogleInv

LEMMA PendingStays ==
    ASSUME AccountInv, NEW c \in Askers, Does(c)
    PROVE  PendingWaitsForSuperuser'
<1>0. Kept /\ PendingWaitsForSuperuser /\ RowsOK /\ CallsOK /\ CompareInv /\ GoogleInv
  BY Keeps DEF AccountInv
<1>1. ASSUME NEW i \in session, rows'[i].by = "createAdmin"
      PROVE  i \in approved' \/ rows'[i].email \in crossed'
  <2>1. i \in DOMAIN rows
    BY <1>0 DEF RowsOK
  <2> QED
    BY <1>0, <1>1, <2>1 DEF Kept, PendingWaitsForSuperuser
<1>2. CASE Compare(c)
  <2> DEFINE k == account[c].row
  <2>1. UNCHANGED <<rows, approved, crossed>> /\ session' \subseteq session \cup {k}
        /\ (k \in session' => k \in session \/ account[c].seen.status = "active")
    BY <1>2 DEF Compare, Authorized
  <2>2. rows[k].by = "createAdmin" /\ account[c].seen.status = "active" => k \in approved
    BY <1>0, <1>2 DEF Compare, CompareInv
  <2> QED
    BY <1>1, <2>1, <2>2 DEF PendingWaitsForSuperuser
<1>3. CASE GoogleSession(c)
  <2> DEFINE e == account[c].email
             k == FindByEmail(e)
  <2>1. UNCHANGED <<rows, approved, crossed>> /\ session' = session \cup ({k} \ {0}) /\ account[c].pc = "session"
    BY <1>3 DEF GoogleSession
  <2>2. account[c].op = "google"
    BY <1>0, <2>1 DEF CallsOK, Shape
  <2>3. k # 0 /\ (rows[k].by = "createAdmin" => k \in approved \/ e \in crossed)
    BY <1>0, <2>1, <2>2 DEF GoogleInv
  <2>4. rows[k].email = e
    BY <1>0, <2>3, FindFacts DEF IsFirst
  <2> QED
    BY <1>1, <2>1, <2>3, <2>4 DEF PendingWaitsForSuperuser
<1>4. CASE UNCHANGED session
  BY <1>1, <1>4 DEF PendingWaitsForSuperuser
<1>5. CASE \/ Start(c) \/ Find(c) \/ ReadSettings(c) \/ CreateOrganization(c) \/ CreatePortalUser(c) \/ UpsertSuperuser(c)
           \/ CreateAuthToken(c) \/ SendEmail(c) \/ ConsumeAuthToken(c) \/ VerifyPortalUserEmail(c)
           \/ UpdatePortalUserPassword(c) \/ ReadMember(c) \/ Activate(c) \/ SetUserStatus(c) \/ Dies(c)
  BY <1>4, <1>5 DEF Start, Find, ReadSettings, CreateOrganization, CreatePortalUser, UpsertSuperuser,
                    CreateAuthToken, SendEmail, ConsumeAuthToken, VerifyPortalUserEmail, UpdatePortalUserPassword,
                    ReadMember, Activate, SetUserStatus, Dies
<1> QED
  BY <1>2, <1>3, <1>5 DEF Does

\* A link to set a password is used up by the request that then sets it, and runs out only as its address is marked.
LEMMA LinkStaysOrServes ==
    ASSUME AccountInv, NEW c \in Askers, Does(c), NEW e, HasLink(e)
    PROVE  (\E n \in Links : Serves(link'[n], e)) \/ Helps(account'[c], e)
<1>0. link \in [Links -> LinkType] /\ CallsOK /\ account \in [Askers -> CallType]
  BY DEF AccountInv, RowsOK
<1>1. PICK l \in Links : link[l].email = e /\ link[l].purpose = "reset-password" /\ link[l].at \in {"stored", "mailed"}
  BY DEF HasLink, Serves
<1>2. CASE link'[l] = link[l]
  BY <1>1, <1>2 DEF HasLink, Serves
<1>3. CASE CreateAuthToken(c)
  <2>1. link'[l] = link[l]
    BY <1>0, <1>1, <1>3 DEF CreateAuthToken
  <2> QED
    BY <1>2, <2>1
<1>4. CASE SendEmail(c)
  <2>1. \/ link'[l] = link[l]
        \/ link'[l] = [link[l] EXCEPT !.at = IF link[l].at = "stored" THEN "mailed" ELSE link[l].at]
    BY <1>0, <1>4 DEF SendEmail
  <2>2. \/ link'[l] = link[l]
        \/ link'[l].email = e /\ link'[l].purpose = "reset-password" /\ link'[l].at \in {"stored", "mailed"}
    BY <1>0, <1>1, <2>1 DEF LinkType
  <2> QED
    BY <1>1, <2>2 DEF HasLink, Serves
<1>5. CASE ConsumeAuthToken(c)
  <2>0. account[c].pc = "consume" /\ account[c].link \in Links /\ account[c].op \in {"verify", "reset"}
        /\ link[account[c].link].email = account[c].email
    BY <1>0, <1>5 DEF ConsumeAuthToken, CallsOK, Shape, Refers
  <2>1. CASE account[c].link # l
    <3>1. link'[l] = link[l]
      BY <1>0, <1>1, <1>5, <2>0, <2>1 DEF ConsumeAuthToken
    <3> QED
      BY <1>2, <3>1
  <2>2. CASE account[c].link = l
    <3> DEFINE p == IF account[c].op = "verify" THEN "verify-email" ELSE "reset-password"
               good == link[l].purpose = p /\ link[l].at = "mailed"
    <3>1. CASE ~good
      <4>1. link'[l] = link[l]
        BY <1>0, <1>1, <1>5, <2>2, <3>1 DEF ConsumeAuthToken
      <4> QED
        BY <1>2, <4>1
    <3>2. CASE good
      <4>1. account[c].op = "reset"
        BY <1>1, <2>0, <3>2
      <4>2. Continue(c, "password") /\ "password" \in Points
        BY <1>5, <2>2, <3>2, <4>1 DEF ConsumeAuthToken, Points
      <4>3. account'[c].pc = "password" /\ account'[c].email = e
        BY <1>0, <1>1, <2>0, <2>2, <4>2, Continues
      <4> QED
        BY <4>3 DEF Helps
    <3> QED
      BY <3>1, <3>2
  <2> QED
    BY <2>1, <2>2
<1>6. CASE UNCHANGED link
  BY <1>2, <1>6
<1>7. CASE \/ Start(c) \/ Find(c) \/ ReadSettings(c) \/ CreateOrganization(c) \/ CreatePortalUser(c) \/ UpsertSuperuser(c)
           \/ VerifyPortalUserEmail(c) \/ UpdatePortalUserPassword(c) \/ Compare(c) \/ GoogleSession(c)
           \/ ReadMember(c) \/ Activate(c) \/ SetUserStatus(c) \/ Dies(c)
  BY <1>6, <1>7 DEF Start, Find, ReadSettings, CreateOrganization, CreatePortalUser, UpsertSuperuser,
                    VerifyPortalUserEmail, UpdatePortalUserPassword, Compare, GoogleSession, ReadMember, Activate,
                    SetUserStatus, Dies
<1> QED
  BY <1>3, <1>4, <1>5, <1>7 DEF Does

\* A request that is about to give an account its password goes on, stores the link, or writes the password of the
\* first account of the address; if it dies, the address is marked.
LEMMA HelpStaysOrServes ==
    ASSUME AccountInv, NEW c \in Askers, Does(c), NEW i \in DOMAIN rows, Helps(account[c], rows[i].email)
    PROVE  LET e == rows[i].email IN
           \/ (\E n \in Links : Serves(link'[n], e)) \/ Helps(account'[c], e) \/ e \in cutOff' \cup crossed' \/ rows'[i].pw
<1> DEFINE e == rows[i].email
<1>0. /\ account \in [Askers -> CallType] /\ Kept /\ RowsOK /\ link \in [Links -> LinkType] /\ OneAccountPerAddress
      /\ account[c].email = e
      /\ (account[c].op = "validate" /\ account[c].pc \in {"verify", "token"}) \/ account[c].pc = "password"
  BY Keeps DEF AccountInv, RowsOK, Helps
<1>1. CASE Dies(c)
  BY <1>0, <1>1 DEF Dies
<1>2. CASE VerifyPortalUserEmail(c)
  <2>1. account[c].op = "validate" /\ Continue(c, "token") /\ "token" \in Points
    BY <1>0, <1>2 DEF VerifyPortalUserEmail, Points
  <2>2. account'[c].pc = "token" /\ account'[c].op = "validate" /\ account'[c].email = e
    BY <1>0, <2>1, Continues
  <2> QED
    BY <2>2 DEF Helps
<1>3. CASE CreateAuthToken(c)
  <2>1. account[c].op = "validate"
    BY <1>0, <1>3 DEF CreateAuthToken
  <2>2. PICK l \in Links :
           link' = [link EXCEPT ![l] = [email |-> account[c].email, purpose |-> Purpose(account[c].op), at |-> "stored"]]
    BY <1>3 DEF CreateAuthToken
  <2>3. link'[l] = [email |-> e, purpose |-> "reset-password", at |-> "stored"]
    BY <1>0, <2>1, <2>2 DEF Purpose
  <2>4. link'[l].email = e /\ link'[l].purpose = "reset-password" /\ link'[l].at \in {"stored", "mailed"}
    BY <2>3
  <2>5. \E n \in Links : Serves(link'[n], e)
    BY <2>4 DEF Serves
  <2> QED
    BY <2>5
<1>4. CASE UpdatePortalUserPassword(c)
  <2> DEFINE j == FindByEmail(e)
  <2>1. j \in DOMAIN rows /\ rows[j].email = e
    BY <1>0, FindFacts DEF IsFirst
  <2>2. RowsRewrite(j, [rows[j] EXCEPT !.pw = TRUE])
    BY <1>0, <1>4, <2>1, PasswordRow, RowsAre
  <2>3. CASE j = i
    <3>1. rows'[i] = [rows[i] EXCEPT !.pw = TRUE] /\ rows[i] \in RowType
      BY <1>0, <2>2, <2>3 DEF RowsRewrite, Kept
    <3> QED
      BY <3>1 DEF RowType
  <2>4. CASE j # i
    <3>1. e \in crossed
      BY <1>0, <2>1, <2>4 DEF OneAccountPerAddress
    <3> QED
      BY <1>0, <3>1 DEF Kept
  <2> QED
    BY <2>3, <2>4
<1>5. CASE account[c].pc \notin {"verify", "token", "password"}
  BY <1>0, <1>5
<1>6. CASE \/ Start(c) \/ Find(c) \/ ReadSettings(c) \/ CreateOrganization(c) \/ CreatePortalUser(c) \/ UpsertSuperuser(c)
           \/ SendEmail(c) \/ ConsumeAuthToken(c) \/ Compare(c) \/ GoogleSession(c)
           \/ ReadMember(c) \/ Activate(c) \/ SetUserStatus(c)
  BY <1>5, <1>6 DEF Start, Find, ReadSettings, CreateOrganization, CreatePortalUser, UpsertSuperuser,
                    SendEmail, ConsumeAuthToken, Compare, GoogleSession, ReadMember, Activate, SetUserStatus
<1> QED
  BY <1>1, <1>2, <1>3, <1>4, <1>6 DEF Does

LEMMA PasswordStays ==
    ASSUME AccountInv, NEW c \in Askers, Does(c)
    PROVE  PasswordInv'
<1>0. Kept /\ PasswordInv
  BY Keeps DEF AccountInv
<1>1. \A d \in Askers \ {c} : account'[d] = account[d]
  BY CallMoves
<1> SUFFICES ASSUME NEW i \in DOMAIN rows', rows'[i].by = "createAdmin", rows'[i].status = "active", ~rows'[i].pw
             PROVE  \/ rows'[i].email \in cutOff' \cup crossed' \/ (\E n \in Links : Serves(link'[n], rows'[i].email))
                    \/ \E d \in Askers : Helps(account'[d], rows'[i].email)
  BY DEF PasswordInv, HasLink, Serves
<1>2. i \in DOMAIN rows
  BY RowsFrom
<1> DEFINE e == rows[i].email
<1>3. rows'[i].email = e /\ rows[i].by = "createAdmin" /\ ~rows[i].pw
  BY <1>0, <1>2 DEF Kept
<1>4. CASE rows[i].status = "active"
  <2>1. CASE e \in cutOff \cup crossed
    BY <1>0, <1>3, <2>1 DEF Kept
  <2>2. CASE HasLink(e)
    BY <1>3, <2>2, LinkStaysOrServes
  <2>3. ASSUME NEW d \in Askers, Helps(account[d], e)
        PROVE  \/ e \in cutOff' \cup crossed' \/ (\E n \in Links : Serves(link'[n], e))
               \/ \E b \in Askers : Helps(account'[b], e)
    <3>1. CASE d # c
      BY <1>1, <2>3, <3>1
    <3>2. CASE d = c
      BY <1>2, <2>3, <3>2, HelpStaysOrServes
    <3> QED
      BY <3>1, <3>2
  <2>4. \/ e \in cutOff \cup crossed \/ HasLink(e) \/ \E d \in Askers : Helps(account[d], e)
    BY <1>0, <1>2, <1>3, <1>4 DEF PasswordInv
  <2> QED
    BY <1>3, <2>1, <2>2, <2>3, <2>4
<1>5. CASE rows[i].status # "active"
  <2>1. LetIn(i)
    <3>1. ~UNCHANGED rows
      BY <1>5
    <3>2. ~Appending(c)
      BY <1>2, <1>5 DEF Appending, RowsAppend
    <3>3. ASSUME NEW k \in DOMAIN rows, NEW r \in RowType, Rewriting(k, r) PROVE LetIn(i)
      BY <1>2, <1>3, <1>5, <3>3 DEF Rewriting, RowsRewrite
    <3> QED
      BY <3>1, <3>2, <3>3, RowsStepFor DEF RowsStep
  <2> QED
    BY <1>3, <2>1 DEF LetIn
<1> QED
  BY <1>4, <1>5

-----------------------------------------------------------------------------
(* The theorems *)

\* Before the first request there is no account, no link and no request under way.
LEMMA StartIsSafe == AccountsInit => AccountInv
<1> SUFFICES ASSUME AccountsInit PROVE AccountInv
  OBVIOUS
<1>0. /\ rows = <<>> /\ link = [l \in Links |-> NoLink] /\ open \in BOOLEAN /\ account = [c \in Askers |-> Quiet]
      /\ session = {} /\ approved = {} /\ worked = [l \in Links |-> 0]
  BY DEF AccountsInit
<1>1. DOMAIN rows = {} /\ rows \in Seq(RowType) /\ Len(rows) = 0
  BY <1>0
<1>2. NoLink \in LinkType /\ NoLink.at = "absent"
  BY DEF NoLink, LinkType
<1>3. Quiet \in CallType /\ Quiet.pc = "idle" /\ Quiet.row = 0 /\ Quiet.op = "none"
  BY DEF Quiet, CallType, Points
<1>4. RowsOK
  BY <1>0, <1>1, <1>2, <1>3 DEF RowsOK
<1>5. \A c \in Askers : account[c] = Quiet
  BY <1>0
<1>6. CallsOK
  BY <1>1, <1>3, <1>5 DEF CallsOK, Shape, Refers
<1>7. OneAccountPerAddress /\ CreatingInv /\ ActiveInv /\ PendingWaitsForSuperuser /\ PasswordInv
  BY <1>0, <1>1 DEF OneAccountPerAddress, CreatingInv, ActiveInv, PendingWaitsForSuperuser, PasswordInv
<1>8. LinkInv
  BY <1>0, <1>2 DEF LinkInv
<1>9. CompareInv /\ GoogleInv
  BY <1>3, <1>5 DEF CompareInv, GoogleInv
<1> QED
  BY <1>4, <1>6, <1>7, <1>8, <1>9 DEF AccountInv

\* A link that runs out marks its address; the settings concern no account.
LEMMA RunningOutIsSafe ==
    ASSUME AccountInv, NEW l \in Links, Expire(l)
    PROVE  AccountInv'
<1>0. /\ RowsOK /\ CallsOK /\ link \in [Links -> LinkType] /\ worked \in [Links -> Nat] /\ LinkInv /\ PasswordInv
      /\ link[l].at \in {"stored", "mailed"} /\ cutOff' = cutOff \cup {link[l].email}
      /\ UNCHANGED <<rows, open, account, starts, lost, session, approved, crossed, worked>>
  BY DEF AccountInv, RowsOK, Expire
<1>1. link' = [link EXCEPT ![l] = [link[l] EXCEPT !.at = "expired"]] /\ link[l] \in LinkType
  BY <1>0 DEF Expire
<1>2. [link[l] EXCEPT !.at = "expired"] \in LinkType
  BY <1>1 DEF LinkType
<1>3. /\ link' \in [Links -> LinkType] /\ \A k \in Links \ {l} : link'[k] = link[k]
      /\ link'[l].email = link[l].email /\ link'[l].purpose = link[l].purpose /\ link'[l].at = "expired"
  BY <1>0, <1>1, <1>2 DEF LinkType
<1>4. RowsOK'
  BY <1>0, <1>3 DEF RowsOK
<1>5. CallsOK'
  <2> SUFFICES ASSUME NEW c \in Askers PROVE Shape(account[c]) /\ Refers(account[c])'
    BY <1>0 DEF CallsOK
  <2>1. Shape(account[c]) /\ Refers(account[c])
    BY <1>0 DEF CallsOK
  <2>2. account[c].pc = "consume" => link'[account[c].link].email = account[c].email /\ link'[account[c].link].at # "absent"
    BY <1>0, <1>3, <2>1 DEF Shape, Refers
  <2> QED
    BY <1>0, <2>1, <2>2 DEF Refers
<1>6. LinkInv'
  BY <1>0, <1>3 DEF LinkInv
<1>7. PasswordInv'
  <2> SUFFICES ASSUME NEW i \in DOMAIN rows, rows[i].by = "createAdmin", rows[i].status = "active", ~rows[i].pw
               PROVE  \/ rows[i].email \in cutOff' \cup crossed \/ (\E n \in Links : Serves(link'[n], rows[i].email))
                      \/ \E c \in Askers : Helps(account[c], rows[i].email)
    BY <1>0 DEF PasswordInv, HasLink, Serves
  <2>1. CASE HasLink(rows[i].email)
    <3>1. PICK k \in Links : /\ link[k].email = rows[i].email /\ link[k].purpose = "reset-password"
                             /\ link[k].at \in {"stored", "mailed"}
      BY <2>1 DEF HasLink, Serves
    <3>2. CASE k = l
      BY <1>0, <3>1, <3>2
    <3>3. CASE k # l
      BY <1>3, <3>1, <3>3 DEF HasLink, Serves
    <3> QED
      BY <3>2, <3>3
  <2> QED
    BY <1>0, <2>1 DEF PasswordInv
<1>8. OneAccountPerAddress' /\ CreatingInv' /\ ActiveInv' /\ CompareInv' /\ GoogleInv' /\ PendingWaitsForSuperuser'
  BY <1>0 DEF AccountInv, OneAccountPerAddress, CreatingInv, ActiveInv, CompareInv, GoogleInv, FindByEmail,
              PendingWaitsForSuperuser
<1> QED
  BY <1>4, <1>5, <1>6, <1>7, <1>8 DEF AccountInv

LEMMA NothingChanges ==
    ASSUME AccountInv, UNCHANGED <<rows, link, account, session, approved, crossed, worked, cutOff>>, open' \in BOOLEAN
    PROVE  AccountInv'
<1>1. RowsOK' /\ CallsOK'
  BY DEF AccountInv, RowsOK, CallsOK, Refers
<1>2. OneAccountPerAddress' /\ CreatingInv' /\ LinkInv' /\ ActiveInv' /\ CompareInv' /\ PendingWaitsForSuperuser'
  BY DEF AccountInv, OneAccountPerAddress, CreatingInv, LinkInv, ActiveInv, CompareInv, PendingWaitsForSuperuser
<1>3. GoogleInv' /\ PasswordInv'
  BY DEF AccountInv, GoogleInv, FindByEmail, PasswordInv, HasLink, Serves
<1> QED
  BY <1>1, <1>2, <1>3 DEF AccountInv

\* What a request between two of its steps knows of the rows stays true while the others go on.
THEOREM AccountsCorrect == AccountsSpec => []AccountInv
<1>1. AccountInv /\ [AccountsNext]_accountVars => AccountInv'
  <2> SUFFICES ASSUME AccountInv, [AccountsNext]_accountVars PROVE AccountInv'
    OBVIOUS
  <2>1. ASSUME NEW c \in Askers, Does(c) PROVE AccountInv'
    <3>1. RowsOK' /\ CallsOK'
      BY <2>1, RowsStayOK, CallsStayOK
    <3>2. OneAccountPerAddress' /\ CreatingInv' /\ ActiveInv' /\ CompareInv'
      BY <2>1, OneAccountStays, CreatingStays, ActiveStays, CompareStays
    <3>3. LinkInv'
      BY <2>1, LinksDo DEF LinkStep, LinkInv
    <3>4. GoogleInv' /\ PendingWaitsForSuperuser' /\ PasswordInv'
      BY <2>1, GoogleStays, PendingStays, PasswordStays
    <3> QED
      BY <3>1, <3>2, <3>3, <3>4 DEF AccountInv
  <2>2. ASSUME NEW l \in Links, Expire(l) PROVE AccountInv'
    BY <2>2, RunningOutIsSafe
  <2>3. CASE UpdatePlatformSettings
    BY <2>3, NothingChanges DEF UpdatePlatformSettings
  <2>4. CASE UNCHANGED accountVars
    <3>1. open' \in BOOLEAN
      BY <2>4 DEF accountVars, AccountInv, RowsOK
    <3> QED
      BY <2>4, <3>1, NothingChanges DEF accountVars
  <2> QED
    BY <2>1, <2>2, <2>3, <2>4 DEF AccountsNext, Does
<1> QED
  BY <1>1, StartIsSafe, PTL DEF AccountsSpec

\* What the invariant says of a state is more than the runs ask of it.
LEMMA InvIsSafe ==
    ASSUME AccountInv
    PROVE  AccountsAreSafe
<1>0. RowsOK /\ CallsOK /\ LinkInv /\ PasswordInv /\ OneAccountPerAddress /\ PendingWaitsForSuperuser
  BY DEF AccountInv
<1>1. AccountsTypeOK
  <2>1. \A i \in DOMAIN rows : rows[i] \in RowType
    BY <1>0, RowsAre
  <2>2. \A c \in Askers : account[c] \in CallType /\ account[c].row \in 0 .. Len(rows)
    BY <1>0 DEF RowsOK, CallsOK, Refers
  <2>3. \A l \in Links : link[l] \in LinkType
    BY <1>0 DEF RowsOK
  <2>4. session \cup approved \subseteq DOMAIN rows /\ open \in BOOLEAN
    BY <1>0 DEF RowsOK
  <2> QED
    BY <2>1, <2>2, <2>3, <2>4 DEF AccountsTypeOK, RowType, CallType, LinkType
<1>2. LinkWorksOnce
  BY <1>0 DEF LinkInv, LinkWorksOnce
<1>3. AccountCanGetPassword
  <2>1. \A c \in Askers, e \in Emails : Helps(account[c], e) =>
           account[c].email = e /\ account[c].op \in {"validate", "reset"} /\ account[c].pc # "idle"
    BY <1>0 DEF Helps, CallsOK, Shape
  <2>2. \A i \in DOMAIN rows : rows[i].email \in Emails
    BY <1>0, RowsAre DEF RowType
  <2> QED
    BY <1>0, <2>1, <2>2 DEF PasswordInv, HasLink, Serves, AccountCanGetPassword
<1> QED
  BY <1>0, <1>1, <1>2, <1>3 DEF AccountsAreSafe

\* An address has one account unless two requests for it overlapped, a link works once, nobody enters an account that
\* waits for a superuser, and an account that was let in can get its password unless a link to it was lost.
THEOREM AccountsStaySafe == AccountsSpec => []AccountsAreSafe
<1>1. AccountInv => AccountsAreSafe
  BY InvIsSafe
<1> QED
  BY <1>1, AccountsCorrect, PTL
-----------------------------------------------------------------------------
(* Uploads, downloads and notifications: an upload is named by its attempt, whose request goes on when the form has
   given it up. *)

Bodies        == {"valid", "invalid"}
Outcomes      == {"COMPLETED", "UPLOADING", "FAILED", "error"}
MongoSteps    == {"store", "exchange", "download", "outbound", "notify"}
ExchangeSteps == {"initiate", "put", "complete", "get", "publish"}
AttemptType   == [user : Users \cup {Unset}, file : Bodies \cup {Unset}, open : BOOLEAN,
                  pc : {"idle", "route", "done"} \cup MongoSteps \cup ExchangeSteps]
FormType      == [file : Bodies \cup {Unset}, result : Outcomes \cup {Unset}, waiting : 0..MaxAttempts, tried : SUBSET Attempts]

TransferShape ==
    /\ backend \in {"mongo", "fixture", "pipeline"}
    /\ form \in [Users -> FormType] /\ req \in [Attempts -> AttemptType]
    /\ stored \subseteq Attempts /\ downloads \subseteq Attempts /\ notes \subseteq Attempts /\ told \subseteq Attempts
    /\ unpublished \subseteq Attempts /\ exchanges \subseteq Attempts \X {"INBOUND", "OUTBOUND"}
    /\ remote \in [Attempts -> {"PENDING_UPLOAD", "VALIDATED", "VALIDATION_FAILED", "EXPIRED", Unset}]
    /\ output \in [Attempts -> {"queued", "READY", "EXPIRED", Unset}]
    /\ page \in [Users -> [files : SUBSET Attempts, notes : SUBSET Attempts]]
    /\ read \subseteq Attempts /\ served \subseteq Users \X Attempts /\ clicked \subseteq Users \X Attempts

\* What a request that has come to its point has left behind.
MongoHas(a) ==
    /\ req[a].pc \notin ExchangeSteps
    /\ req[a].pc \in MongoSteps \ {"store"} => a \in stored
    /\ req[a].pc \in {"download", "outbound", "notify"} => <<a, "INBOUND">> \in exchanges
    /\ req[a].pc \in {"outbound", "notify"} => a \in downloads
    /\ req[a].pc = "notify" => <<a, "OUTBOUND">> \in exchanges
    /\ <<a, "INBOUND">> \in exchanges \/ <<a, "OUTBOUND">> \in exchanges \/ a \in downloads \/ a \in notes => a \in stored
    /\ <<a, "OUTBOUND">> \in exchanges => a \in downloads
    /\ remote[a] = Unset /\ output[a] = Unset

ExchangeHas(a) ==
    /\ req[a].pc \notin MongoSteps
    /\ req[a].pc \in {"idle", "route", "initiate"} => remote[a] = Unset
    /\ req[a].pc \in {"complete", "get", "publish"} => a \in stored
    /\ req[a].pc = "get" => remote[a] \in {"VALIDATED", "VALIDATION_FAILED"}
    /\ req[a].pc = "publish" => remote[a] = "VALIDATED"
    /\ output[a] # Unset => remote[a] = "VALIDATED"

AttemptOK(a) ==
    /\ IF backend = "mongo" THEN MongoHas(a) ELSE ExchangeHas(a)
    /\ req[a].pc # "idle" => req[a].user \in Users /\ req[a].file \in Bodies
    /\ req[a].pc = "idle" => a \notin stored
    /\ req[a].open => req[a].pc \notin {"idle", "done"} /\ form[req[a].user].waiting = a

\* A selection is tried again when its form said so, or when nothing came of the last time and nothing will.
Spent(a) == a \in told \/ (req[a].pc = "done" /\ ~Processed(a))
Fulfilled(a) ==
    /\ a \in stored
    /\ IF backend = "mongo"
       THEN <<a, "INBOUND">> \in exchanges /\ <<a, "OUTBOUND">> \in exchanges /\ a \in downloads /\ a \in notes
       ELSE remote[a] = "VALIDATED" /\ (output[a] # Unset \/ a \in unpublished)
FormOK(u) ==
    /\ \A a \in form[u].tried :
          /\ req[a].pc # "idle" /\ req[a].user = u
          /\ a = form[u].waiting \/ form[u].result = "COMPLETED" \/ Spent(a)
          /\ \A b \in form[u].tried : a < b => Spent(a)
    /\ Waiting(u) => form[u].waiting \in form[u].tried /\ req[form[u].waiting].open /\ form[u].result # "COMPLETED"
    /\ form[u].result = "COMPLETED" => \E a \in form[u].tried : Fulfilled(a)

\* What a tab lists, or was given, belongs to its tenant.
IsOf(a, t) == req[a].pc # "idle" /\ Owner(a) = t
TenantInv ==
    /\ \A u \in Users : \A a \in page[u].files : IsOf(a, TenantOf[u])
    /\ \A s \in served : IsOf(s[2], TenantOf[s[1]])
    /\ \A c \in clicked : IsOf(c[2], TenantOf[c[1]])
    /\ read \subseteq notes /\ \A a \in read : \E u \in Users : <<u, a>> \in clicked

TransferInv ==
    /\ TransferShape
    /\ \E k \in 0..MaxAttempts : Started = 1..k
    /\ backend # "mongo" => exchanges = {} /\ downloads = {} /\ notes = {} /\ tokens = {}
    /\ \A a \in Attempts : AttemptOK(a)
    /\ \A u \in Users : FormOK(u)
    /\ TenantInv

-----------------------------------------------------------------------------
LEMMA TransfersStart == ASSUME TransferBounds PROVE TransfersInit => TransferInv
<1> SUFFICES ASSUME TransfersInit PROVE TransferInv
  OBVIOUS
<1>1. TransferShape
  BY DEF TransfersInit, TransferShape, AttemptType, FormType, TransferBounds
<1>2. Started = 1..0 /\ 0 \in 0..MaxAttempts
  BY DEF TransfersInit, Started, TransferBounds
<1>3. ASSUME NEW a \in Attempts PROVE AttemptOK(a)
  BY DEF TransfersInit, AttemptOK, MongoHas, ExchangeHas, MongoSteps, ExchangeSteps
<1>4. ASSUME NEW u \in Users PROVE FormOK(u)
  BY DEF TransfersInit, FormOK, Waiting, TransferBounds
<1>5. TenantInv
  BY DEF TransfersInit, TenantInv
<1> QED
  BY <1>1, <1>2, <1>3, <1>4, <1>5 DEF TransferInv, TransfersInit

\* A step of one attempt leaves the others and the tabs' pages alone, and what was done stays done.
Touches(a) ==
    /\ backend' = backend /\ page' = page /\ served' = served /\ clicked' = clicked /\ read' = read
    /\ req[a].pc # "idle" /\ req'[a].pc # "idle" /\ req'[a].user = req[a].user /\ req'[a].file = req[a].file
    /\ stored \subseteq stored' /\ notes \subseteq notes' /\ told \subseteq told'
    /\ backend # "mongo" => exchanges' = exchanges /\ downloads' = downloads /\ notes' = notes /\ tokens' = tokens
    /\ \A b \in Attempts \ {a} :
          /\ req'[b] = req[b] /\ remote'[b] = remote[b] /\ output'[b] = output[b]
          /\ b \in stored' <=> b \in stored
          /\ b \in downloads' <=> b \in downloads
          /\ b \in notes' <=> b \in notes
          /\ b \in told' <=> b \in told
          /\ b \in unpublished' <=> b \in unpublished
          /\ <<b, "INBOUND">> \in exchanges' <=> <<b, "INBOUND">> \in exchanges
          /\ <<b, "OUTBOUND">> \in exchanges' <=> <<b, "OUTBOUND">> \in exchanges

\* What the form of the attempt learns: nothing, or the result.
Told(a) ==
    \/ form' = form /\ (req'[a].open <=> req[a].open)
    \/ form' = form /\ ~req[a].open /\ ~req'[a].open
    \/ /\ req[a].open /\ ~req'[a].open
       /\ \E result \in Outcomes :
             /\ form' = [form EXCEPT ![req[a].user] = Shown(@, result)]
             /\ result = "COMPLETED" => Fulfilled(a)'
             /\ result # "COMPLETED" => Spent(a)'

LEMMA FormsTold ==
    ASSUME form \in [Users -> FormType], NEW a \in Attempts, Told(a), req[a].open => req[a].user \in Users, NEW u \in Users
    PROVE  /\ form'[u].tried = form[u].tried
           /\ \/ form'[u] = form[u] /\ ((req'[a].open <=> req[a].open) \/ u # req[a].user \/ (~req[a].open /\ ~req'[a].open))
              \/ /\ req[a].open /\ u = req[a].user /\ ~req'[a].open
                 /\ \E result \in Outcomes : /\ form'[u].result = result /\ form'[u].waiting = 0
                                             /\ result = "COMPLETED" => Fulfilled(a)'
                                             /\ result # "COMPLETED" => Spent(a)'
<1>1. CASE \/ form' = form /\ (req'[a].open <=> req[a].open)
           \/ form' = form /\ ~req[a].open /\ ~req'[a].open
  BY <1>1
<1>2. CASE ~(\/ form' = form /\ (req'[a].open <=> req[a].open)
             \/ form' = form /\ ~req[a].open /\ ~req'[a].open)
  <2>1. PICK result \in Outcomes :
             /\ req[a].open /\ ~req'[a].open
             /\ form' = [form EXCEPT ![req[a].user] = Shown(form[req[a].user], result)]
             /\ result = "COMPLETED" => Fulfilled(a)'
             /\ result # "COMPLETED" => Spent(a)'
    BY <1>2 DEF Told
  <2>2. req[a].user \in Users
    BY <2>1
  <2> DEFINE q == form[req[a].user]
             n == Shown(q, result)
  <2>3. q \in FormType
    BY <2>2
  <2>4. n.tried = q.tried /\ n.result = result /\ n.waiting = 0
    <3> HIDE DEF q
    <3> QED
      BY <2>3 DEF FormType, Shown
  <2>5. form'[u] = IF u = req[a].user THEN n ELSE form[u]
    <3> HIDE DEF n
    <3>1. form' = [form EXCEPT ![req[a].user] = n]
      BY <2>1 DEF n
    <3> QED
      BY <3>1
  <2> HIDE DEF n
  <2> QED
    BY <2>1, <2>4, <2>5
<1> QED
  BY <1>1, <1>2

LEMMA AttemptMoves ==
    ASSUME TransferBounds, TransferInv, NEW a \in Attempts, TransferShape', Touches(a), Told(a), AttemptOK(a)',
           Spent(a) => Spent(a)', Fulfilled(a) => Fulfilled(a)'
    PROVE  TransferInv'
<1> USE DEF Attempts
<1>0. /\ form \in [Users -> FormType] /\ (req[a].open => req[a].user \in Users /\ form[req[a].user].waiting = a)
      /\ req[a].open => req[a].pc # "idle"
  BY DEF TransferInv, TransferShape, AttemptOK
<1>1. \E k \in 0..MaxAttempts : (Started = 1..k)'
  <2>1. Started' = Started
    BY DEF Touches, Started
  <2> QED
    BY <2>1 DEF TransferInv
<1>2. backend' # "mongo" => exchanges' = {} /\ downloads' = {} /\ notes' = {} /\ tokens' = {}
  BY DEF TransferInv, Touches
<1>3. ASSUME NEW u \in Users, NEW b \in Attempts, b # a
      PROVE  /\ form'[u].tried = form[u].tried
             /\ Fulfilled(b)' <=> Fulfilled(b)
             /\ Spent(b)' <=> Spent(b)
  <2>1. form'[u].tried = form[u].tried
    BY <1>0, FormsTold
  <2>2. Fulfilled(b)' <=> Fulfilled(b)
    BY <1>3 DEF Touches, Fulfilled
  <2>3. Spent(b)' <=> Spent(b)
    BY <1>3 DEF Touches, Spent, Processed
  <2> QED
    BY <2>1, <2>2, <2>3
<1>4. ASSUME NEW b \in Attempts PROVE AttemptOK(b)'
  <2>1. CASE b = a
    BY <2>1
  <2>2. CASE b # a
    <3>1. AttemptOK(b) /\ AttemptOK(a)
      BY DEF TransferInv
    <3>2. ASSUME req[b].open PROVE form'[req[b].user].waiting = b
      <4>1. form[req[b].user].waiting = b /\ req[b].user \in Users
        BY <3>1, <3>2 DEF AttemptOK
      <4>2. req[a].open => form[req[a].user].waiting = a /\ req[a].user \in Users
        BY <3>1 DEF AttemptOK
      <4> QED
        BY <1>0, <2>2, <4>1, <4>2, FormsTold
    <3>3. (IF backend = "mongo" THEN MongoHas(b) ELSE ExchangeHas(b))'
      BY <2>2, <3>1 DEF AttemptOK, MongoHas, ExchangeHas, Touches
    <3> QED
      BY <2>2, <3>1, <3>2, <3>3 DEF AttemptOK, Touches
  <2> QED
    BY <2>1, <2>2
<1>5. ASSUME NEW u \in Users PROVE FormOK(u)'
  <2>1. FormOK(u) /\ form'[u].tried = form[u].tried /\ form[u].tried \subseteq Attempts
    BY <1>0, FormsTold DEF TransferInv, FormType
  <2>2. \A b \in form[u].tried : (Spent(b) => Spent(b)') /\ (Fulfilled(b) => Fulfilled(b)')
    BY <1>3, <2>1
  <2>3. \A b \in form[u].tried : req'[b].pc # "idle" /\ req'[b].user = u
    BY <2>1 DEF FormOK, Touches
  <2>4. CASE form'[u] = form[u] /\ (Waiting(u) => req'[form[u].waiting].open)
    BY <2>1, <2>2, <2>3, <2>4 DEF FormOK, Waiting
  <2>5. CASE /\ req[a].open /\ u = req[a].user
             /\ \E result \in Outcomes : /\ form'[u].result = result /\ form'[u].waiting = 0
                                         /\ result = "COMPLETED" => Fulfilled(a)'
                                         /\ result # "COMPLETED" => Spent(a)'
    <3>1. form[u].waiting = a /\ a # 0
      BY <2>5 DEF TransferInv, AttemptOK
    <3>2. a \in form[u].tried
      BY <2>1, <3>1 DEF FormOK, Waiting
    <3>3. form'[u].result # "COMPLETED" => \A b \in form[u].tried : Spent(b)'
      <4> SUFFICES ASSUME form'[u].result # "COMPLETED", NEW b \in form[u].tried PROVE Spent(b)'
        OBVIOUS
      <4>1. CASE b = a
        BY <2>5, <4>1
      <4>2. CASE b # a /\ Spent(b)
        BY <2>2, <4>2
      <4>3. CASE b # a /\ form[u].result = "COMPLETED" /\ ~Spent(b)
        BY <2>1, <3>1, <4>3 DEF FormOK, Waiting
      <4> QED
        BY <2>1, <3>1, <4>1, <4>2, <4>3 DEF FormOK, Waiting
    <3> QED
      BY <2>1, <2>2, <2>3, <2>5, <3>2, <3>3 DEF FormOK, Waiting
  <2>6. form'[u] = form[u] => (Waiting(u) => req'[form[u].waiting].open) \/ (u = req[a].user /\ req[a].open /\ ~req'[a].open)
    <3> SUFFICES ASSUME form'[u] = form[u], Waiting(u) PROVE req'[form[u].waiting].open \/ (u = req[a].user /\ req[a].open /\ ~req'[a].open)
      OBVIOUS
    <3>1. form[u].waiting \in Attempts /\ req[form[u].waiting].open /\ req[form[u].waiting].user = u
      BY <2>1 DEF FormOK
    <3> QED
      BY <3>1 DEF Touches
  <2>7. \/ form'[u] = form[u] /\ ((req'[a].open <=> req[a].open) \/ u # req[a].user \/ (~req[a].open /\ ~req'[a].open))
        \/ /\ req[a].open /\ u = req[a].user /\ ~req'[a].open
           /\ \E result \in Outcomes : /\ form'[u].result = result /\ form'[u].waiting = 0
                                       /\ result = "COMPLETED" => Fulfilled(a)'
                                       /\ result # "COMPLETED" => Spent(a)'
    BY <1>0, FormsTold
  <2> QED
    BY <2>4, <2>5, <2>6, <2>7
<1>6. TenantInv'
  <2>1. \A b \in Attempts : \A t : IsOf(b, t) => IsOf(b, t)'
    BY DEF Touches, IsOf, Owner
  <2> QED
    BY <2>1 DEF Touches, TenantInv, TransferInv, TransferShape
<1> QED
  BY <1>1, <1>2, <1>4, <1>5, <1>6 DEF TransferInv

AttemptPoints == {"idle", "route", "done"} \cup MongoSteps \cup ExchangeSteps

\* An attempt goes to its next point, or ends there.
LEMMA AttemptGoes ==
    ASSUME req \in [Attempts -> AttemptType], NEW a \in Attempts, NEW pc \in AttemptPoints,
           MoveTo(a, pc) \/ (pc = "done" /\ Leave(a))
    PROVE  /\ req' \in [Attempts -> AttemptType]
           /\ req'[a].pc = pc /\ req'[a].user = req[a].user /\ req'[a].file = req[a].file
           /\ req'[a].open => req[a].open
           /\ MoveTo(a, pc) => (req'[a].open <=> req[a].open)
           /\ Leave(a) => ~req'[a].open
           /\ \A b \in Attempts \ {a} : req'[b] = req[b]
<1> DEFINE q == req[a]
           n == [user |-> q.user, file |-> q.file, pc |-> pc, open |-> IF MoveTo(a, pc) THEN q.open ELSE FALSE]
<1>1. q = [user |-> q.user, file |-> q.file, pc |-> q.pc, open |-> q.open] /\ q.open \in BOOLEAN
      /\ q.user \in Users \cup {Unset} /\ q.file \in Bodies \cup {Unset}
  BY DEF AttemptType
<1>2. req' = [req EXCEPT ![a] = n]
  <2>1. CASE MoveTo(a, pc)
    BY <1>1, <2>1 DEF MoveTo
  <2>2. CASE ~MoveTo(a, pc)
    BY <1>1, <2>2 DEF Leave
  <2> QED
    BY <2>1, <2>2
<1>3. n \in AttemptType /\ n.pc = pc /\ n.user = q.user /\ n.file = q.file
  BY <1>1 DEF AttemptType, AttemptPoints
<1>4. req' \in [Attempts -> AttemptType] /\ req'[a] = n /\ \A b \in Attempts \ {a} : req'[b] = req[b]
  <2> HIDE DEF n, q
  <2> QED
    BY <1>2, <1>3
<1>5. Leave(a) => ~req'[a].open
  BY DEF Leave
<1> QED
  BY <1>1, <1>3, <1>4, <1>5

\* A form shows the result of the attempt it waits for.
LEMMA FormShows ==
    ASSUME TransferBounds, form \in [Users -> FormType], told \subseteq Attempts, NEW a \in Attempts, NEW result \in Outcomes,
           req[a].open => req[a].user \in Users, Show(a, result)
    PROVE  /\ form' \in [Users -> FormType] /\ told' \subseteq Attempts /\ told \subseteq told'
           /\ \A b \in Attempts \ {a} : b \in told' <=> b \in told
           /\ req[a].open => /\ form' = [form EXCEPT ![req[a].user] = Shown(@, result)]
                             /\ result = "error" => a \in told'
           /\ ~req[a].open => form' = form /\ told' = told
<1>1. CASE req[a].open
  <2> DEFINE q == form[req[a].user]
             n == Shown(q, result)
  <2>1. form' = [form EXCEPT ![req[a].user] = n] /\ told' = IF result = "error" THEN told \cup {a} ELSE told
    BY <1>1 DEF Show
  <2>2. n \in FormType
    <3>1. q \in FormType
      BY <1>1
    <3> HIDE DEF q
    <3>2. q = [file |-> q.file, result |-> q.result, waiting |-> q.waiting, tried |-> q.tried]
      BY <3>1 DEF FormType
    <3> DEFINE w == [q EXCEPT !.result = result]
    <3>4. w = [file |-> q.file, result |-> result, waiting |-> q.waiting, tried |-> q.tried]
      BY <3>2
    <3>5. n = [w EXCEPT !.waiting = 0]
      BY DEF Shown
    <3>3. n = [file |-> q.file, result |-> result, waiting |-> 0, tried |-> q.tried]
      <4> HIDE DEF w, n
      <4> QED
        BY <3>4, <3>5
    <3> QED
      BY <3>1, <3>3 DEF FormType, TransferBounds
  <2>3. form' \in [Users -> FormType]
    <3> HIDE DEF n
    <3> QED
      BY <2>1, <2>2
  <2> QED
    BY <1>1, <2>1, <2>3
<1>2. CASE ~req[a].open
  BY <1>2 DEF Show
<1> QED
  BY <1>1, <1>2

LEMMA AttemptAnswers ==
    ASSUME TransferBounds, TransferShape, NEW a \in Attempts, NEW result \in Outcomes, AttemptOK(a), Answer(a, result),
           result = "COMPLETED" => Fulfilled(a)', result \notin {"COMPLETED", "error"} => Spent(a)'
    PROVE  /\ Told(a) /\ form' \in [Users -> FormType] /\ told' \subseteq Attempts /\ told \subseteq told'
           /\ \A b \in Attempts \ {a} : b \in told' <=> b \in told
<1>1. Show(a, result) /\ Leave(a) /\ form \in [Users -> FormType] /\ told \subseteq Attempts
      /\ (req[a].open => req[a].user \in Users) /\ req \in [Attempts -> AttemptType]
  BY DEF Answer, AttemptOK, TransferShape
<1>2. ~req'[a].open
  BY <1>1, AttemptGoes DEF AttemptPoints
<1>3. result = "error" /\ req[a].open => Spent(a)'
  BY <1>1, FormShows DEF Spent
<1> QED
  BY <1>1, <1>2, <1>3, FormShows DEF Told

-----------------------------------------------------------------------------
(* Requests, one statement after the other.                                *)

LEMMA AttemptKnown ==
    ASSUME TransferInv, NEW a \in Attempts
    PROVE  /\ TransferShape /\ AttemptOK(a) /\ req[a] \in AttemptType
           /\ req \in [Attempts -> AttemptType] /\ form \in [Users -> FormType] /\ told \subseteq Attempts
           /\ req[a].pc = "idle" \/ (req[a].user \in Users /\ req[a].file \in Bodies)
           /\ req[a].open => req[a].user \in Users /\ form[req[a].user].waiting = a
           /\ backend # "mongo" => exchanges = {} /\ downloads = {} /\ notes = {} /\ tokens = {}
BY DEF TransferInv, TransferShape, AttemptOK

LEMMA StoreMoves ==
    ASSUME TransferBounds, TransferInv, NEW a \in Attempts, StoreFile(a) PROVE TransferInv'
<1>1. TransferShape /\ AttemptOK(a) /\ req \in [Attempts -> AttemptType] /\ req[a].pc = "store"
  BY AttemptKnown DEF StoreFile, Statement
<1>0. backend = "mongo" /\ req[a].user \in Users /\ req[a].file \in Bodies
  BY <1>1 DEF AttemptOK, ExchangeHas, MongoSteps
<1>2. /\ req' \in [Attempts -> AttemptType]
      /\ req'[a].pc = "exchange" /\ req'[a].user = req[a].user /\ req'[a].file = req[a].file
      /\ req'[a].open <=> req[a].open
      /\ \A b \in Attempts \ {a} : req'[b] = req[b]
  <2>1. MoveTo(a, "exchange") /\ "exchange" \in AttemptPoints
    BY DEF StoreFile, Statement, After, AttemptPoints, MongoSteps
  <2> QED
    BY <1>1, <2>1, AttemptGoes
<1>3. TransferShape'
  BY <1>1, <1>2 DEF StoreFile, Statement, TransferShape, remoteVars, pageVars, noteVars
<1>4. Touches(a)
  BY <1>0, <1>1, <1>2 DEF StoreFile, Statement, Touches, remoteVars, pageVars, noteVars
<1>5. AttemptOK(a)'
  BY <1>0, <1>1, <1>2 DEF StoreFile, Statement, AttemptOK, MongoHas, MongoSteps, ExchangeSteps, remoteVars
<1>6. Told(a)
  BY <1>2 DEF StoreFile, Statement, Told
<1>7. (Spent(a) => Spent(a)') /\ (Fulfilled(a) => Fulfilled(a)')
  BY <1>0, <1>1, <1>4 DEF StoreFile, Statement, Spent, Fulfilled
<1> QED
  BY <1>3, <1>4, <1>5, <1>6, <1>7, AttemptMoves

LEMMA ExchangeMoves ==
    ASSUME TransferBounds, TransferInv, NEW a \in Attempts, CreateInbound(a) PROVE TransferInv'
<1>1. TransferShape /\ AttemptOK(a) /\ req \in [Attempts -> AttemptType] /\ req[a].pc = "exchange"
  BY AttemptKnown DEF CreateInbound, Statement
<1>0. backend = "mongo" /\ req[a].user \in Users /\ req[a].file \in Bodies
  BY <1>1 DEF AttemptOK, ExchangeHas, MongoSteps
<1>2. /\ req' \in [Attempts -> AttemptType]
      /\ req'[a].pc = "download" /\ req'[a].user = req[a].user /\ req'[a].file = req[a].file
      /\ req'[a].open <=> req[a].open
      /\ \A b \in Attempts \ {a} : req'[b] = req[b]
  <2>1. MoveTo(a, "download") /\ "download" \in AttemptPoints
    BY DEF CreateInbound, Statement, After, AttemptPoints, MongoSteps
  <2> QED
    BY <1>1, <2>1, AttemptGoes
<1>3. TransferShape'
  BY <1>1, <1>2 DEF CreateInbound, Statement, TransferShape, remoteVars, pageVars, noteVars
<1>4. Touches(a)
  BY <1>0, <1>1, <1>2 DEF CreateInbound, Statement, Touches, remoteVars, pageVars, noteVars
<1>5. AttemptOK(a)'
  BY <1>0, <1>1, <1>2 DEF CreateInbound, Statement, AttemptOK, MongoHas, MongoSteps, ExchangeSteps, remoteVars
<1>6. Told(a)
  BY <1>2 DEF CreateInbound, Statement, Told
<1>7. (Spent(a) => Spent(a)') /\ (Fulfilled(a) => Fulfilled(a)')
  BY <1>0, <1>1, <1>4 DEF CreateInbound, Statement, Spent, Fulfilled
<1> QED
  BY <1>3, <1>4, <1>5, <1>6, <1>7, AttemptMoves

LEMMA DownloadMoves ==
    ASSUME TransferBounds, TransferInv, NEW a \in Attempts, CreateDownload(a) PROVE TransferInv'
<1>1. TransferShape /\ AttemptOK(a) /\ req \in [Attempts -> AttemptType] /\ req[a].pc = "download"
  BY AttemptKnown DEF CreateDownload, Statement
<1>0. backend = "mongo" /\ req[a].user \in Users /\ req[a].file \in Bodies
  BY <1>1 DEF AttemptOK, ExchangeHas, MongoSteps
<1>2. /\ req' \in [Attempts -> AttemptType]
      /\ req'[a].pc = "outbound" /\ req'[a].user = req[a].user /\ req'[a].file = req[a].file
      /\ req'[a].open <=> req[a].open
      /\ \A b \in Attempts \ {a} : req'[b] = req[b]
  <2>1. MoveTo(a, "outbound") /\ "outbound" \in AttemptPoints
    BY DEF CreateDownload, Statement, After, AttemptPoints, MongoSteps
  <2> QED
    BY <1>1, <2>1, AttemptGoes
<1>3. TransferShape'
  BY <1>1, <1>2 DEF CreateDownload, Statement, TransferShape, remoteVars, pageVars, noteVars
<1>4. Touches(a)
  BY <1>0, <1>1, <1>2 DEF CreateDownload, Statement, Touches, remoteVars, pageVars, noteVars
<1>5. AttemptOK(a)'
  BY <1>0, <1>1, <1>2 DEF CreateDownload, Statement, AttemptOK, MongoHas, MongoSteps, ExchangeSteps, remoteVars
<1>6. Told(a)
  BY <1>2 DEF CreateDownload, Statement, Told
<1>7. (Spent(a) => Spent(a)') /\ (Fulfilled(a) => Fulfilled(a)')
  BY <1>0, <1>1, <1>4 DEF CreateDownload, Statement, Spent, Fulfilled
<1> QED
  BY <1>3, <1>4, <1>5, <1>6, <1>7, AttemptMoves

LEMMA OutboundMoves ==
    ASSUME TransferBounds, TransferInv, NEW a \in Attempts, CreateOutbound(a) PROVE TransferInv'
<1>1. TransferShape /\ AttemptOK(a) /\ req \in [Attempts -> AttemptType] /\ req[a].pc = "outbound"
  BY AttemptKnown DEF CreateOutbound, Statement
<1>0. backend = "mongo" /\ req[a].user \in Users /\ req[a].file \in Bodies
  BY <1>1 DEF AttemptOK, ExchangeHas, MongoSteps
<1>2. /\ req' \in [Attempts -> AttemptType]
      /\ req'[a].pc = "notify" /\ req'[a].user = req[a].user /\ req'[a].file = req[a].file
      /\ req'[a].open <=> req[a].open
      /\ \A b \in Attempts \ {a} : req'[b] = req[b]
  <2>1. MoveTo(a, "notify") /\ "notify" \in AttemptPoints
    BY DEF CreateOutbound, Statement, After, AttemptPoints, MongoSteps
  <2> QED
    BY <1>1, <2>1, AttemptGoes
<1>3. TransferShape'
  BY <1>1, <1>2 DEF CreateOutbound, Statement, TransferShape, remoteVars, pageVars, noteVars
<1>4. Touches(a)
  BY <1>0, <1>1, <1>2 DEF CreateOutbound, Statement, Touches, remoteVars, pageVars, noteVars
<1>5. AttemptOK(a)'
  BY <1>0, <1>1, <1>2 DEF CreateOutbound, Statement, AttemptOK, MongoHas, MongoSteps, ExchangeSteps, remoteVars
<1>6. Told(a)
  BY <1>2 DEF CreateOutbound, Statement, Told
<1>7. (Spent(a) => Spent(a)') /\ (Fulfilled(a) => Fulfilled(a)')
  BY <1>0, <1>1, <1>4 DEF CreateOutbound, Statement, Spent, Fulfilled
<1> QED
  BY <1>3, <1>4, <1>5, <1>6, <1>7, AttemptMoves

LEMMA NotificationMoves ==
    ASSUME TransferBounds, TransferInv, NEW a \in Attempts, CreateNotification(a) PROVE TransferInv'
<1>1. TransferShape /\ AttemptOK(a) /\ req \in [Attempts -> AttemptType] /\ req[a].pc = "notify"
  BY AttemptKnown DEF CreateNotification
<1>0. backend = "mongo" /\ req[a].user \in Users /\ req[a].file \in Bodies
  BY <1>1 DEF AttemptOK, MongoHas, ExchangeHas, MongoSteps, ExchangeSteps
<1>2. /\ req' \in [Attempts -> AttemptType]
      /\ req'[a].pc = "done" /\ req'[a].user = req[a].user /\ req'[a].file = req[a].file
      /\ ~req'[a].open
      /\ \A b \in Attempts \ {a} : req'[b] = req[b]
  <2>1. Leave(a) /\ "done" \in AttemptPoints
    BY DEF CreateNotification, Answer, AttemptPoints
  <2> QED
    BY <1>1, <2>1, AttemptGoes
<1>8. Answer(a, "COMPLETED") /\ "COMPLETED" \in Outcomes
  BY DEF CreateNotification, Outcomes
<1>7. (Spent(a) => Spent(a)') /\ (Fulfilled(a) => Fulfilled(a)') /\ Fulfilled(a)'
  <2>1. told \subseteq told'
    BY <1>1, <1>8, FormShows DEF Answer, AttemptOK, TransferShape
  <2> QED
    BY <1>0, <1>1, <1>2, <2>1 DEF CreateNotification, Spent, Processed, Fulfilled, AttemptOK, MongoHas, ExchangeHas, MongoSteps, ExchangeSteps,
       uploadVars, remoteVars
<1>6. Told(a) /\ form' \in [Users -> FormType] /\ told' \subseteq Attempts /\ told \subseteq told'
      /\ \A b \in Attempts \ {a} : b \in told' <=> b \in told
  BY <1>0, <1>1, <1>7, <1>8, AttemptAnswers
<1>3. TransferShape'
  BY <1>0, <1>1, <1>2, <1>6 DEF CreateNotification, TransferShape, uploadVars, remoteVars, pageVars, noteVars, Published
<1>4. Touches(a)
  BY <1>0, <1>1, <1>2, <1>6 DEF CreateNotification, Touches, uploadVars, remoteVars, pageVars, noteVars, TransferShape
<1>5. AttemptOK(a)'
  BY <1>0, <1>1, <1>2 DEF CreateNotification, AttemptOK, MongoHas, ExchangeHas, MongoSteps, ExchangeSteps, uploadVars, remoteVars
<1> QED
  BY <1>3, <1>4, <1>5, <1>6, <1>7, AttemptMoves

LEMMA FailMoves ==
    ASSUME TransferBounds, TransferInv, NEW a \in Attempts, Fail(a) PROVE TransferInv'
<1>1. TransferShape /\ AttemptOK(a) /\ req \in [Attempts -> AttemptType] /\ req[a].pc \notin {"idle", "done"}
  BY AttemptKnown DEF Fail
<1>0. req[a].user \in Users /\ req[a].file \in Bodies
  BY <1>1 DEF AttemptOK, MongoHas, ExchangeHas, MongoSteps, ExchangeSteps
<1>2. /\ req' \in [Attempts -> AttemptType]
      /\ req'[a].pc = "done" /\ req'[a].user = req[a].user /\ req'[a].file = req[a].file
      /\ ~req'[a].open
      /\ \A b \in Attempts \ {a} : req'[b] = req[b]
  <2>1. Leave(a) /\ "done" \in AttemptPoints
    BY DEF Fail, Answer, AttemptPoints
  <2> QED
    BY <1>1, <2>1, AttemptGoes
<1>8. Answer(a, "error") /\ "error" \in Outcomes
  BY DEF Fail, Outcomes
<1>7. (Spent(a) => Spent(a)') /\ (Fulfilled(a) => Fulfilled(a)')
  <2>1. told \subseteq told'
    BY <1>1, <1>8, FormShows DEF Answer, AttemptOK, TransferShape
  <2> QED
    BY <1>0, <1>1, <1>2, <2>1 DEF Fail, Spent, Processed, Fulfilled, AttemptOK, MongoHas, ExchangeHas, MongoSteps, ExchangeSteps,
       uploadVars, remoteVars
<1>6. Told(a) /\ form' \in [Users -> FormType] /\ told' \subseteq Attempts /\ told \subseteq told'
      /\ \A b \in Attempts \ {a} : b \in told' <=> b \in told
  BY <1>0, <1>1, <1>7, <1>8, AttemptAnswers
<1>3. TransferShape'
  BY <1>0, <1>1, <1>2, <1>6 DEF Fail, TransferShape, uploadVars, remoteVars, pageVars, noteVars, Published
<1>4. Touches(a)
  BY <1>0, <1>1, <1>2, <1>6 DEF Fail, Touches, uploadVars, remoteVars, pageVars, noteVars, TransferShape
<1>5. AttemptOK(a)'
  BY <1>0, <1>1, <1>2 DEF Fail, AttemptOK, MongoHas, ExchangeHas, MongoSteps, ExchangeSteps, uploadVars, remoteVars
<1> QED
  BY <1>3, <1>4, <1>5, <1>6, <1>7, AttemptMoves

LEMMA PublishMoves ==
    ASSUME TransferBounds, TransferInv, NEW a \in Attempts, PublishProcessedOutput(a) PROVE TransferInv'
<1>1. TransferShape /\ AttemptOK(a) /\ req \in [Attempts -> AttemptType] /\ req[a].pc = "publish"
  BY AttemptKnown DEF PublishProcessedOutput
<1>0. backend # "mongo" /\ req[a].user \in Users /\ req[a].file \in Bodies
  BY <1>1 DEF AttemptOK, MongoHas, ExchangeHas, MongoSteps, ExchangeSteps
<1>2. /\ req' \in [Attempts -> AttemptType]
      /\ req'[a].pc = "done" /\ req'[a].user = req[a].user /\ req'[a].file = req[a].file
      /\ ~req'[a].open
      /\ \A b \in Attempts \ {a} : req'[b] = req[b]
  <2>1. Leave(a) /\ "done" \in AttemptPoints
    BY DEF PublishProcessedOutput, Answer, AttemptPoints
  <2> QED
    BY <1>1, <2>1, AttemptGoes
<1>8. Answer(a, "COMPLETED") /\ "COMPLETED" \in Outcomes
  BY DEF PublishProcessedOutput, Outcomes
<1>7. (Spent(a) => Spent(a)') /\ (Fulfilled(a) => Fulfilled(a)') /\ Fulfilled(a)'
  <2>1. told \subseteq told'
    BY <1>1, <1>8, FormShows DEF Answer, AttemptOK, TransferShape
  <2> QED
    BY <1>0, <1>1, <1>2, <2>1 DEF PublishProcessedOutput, Spent, Processed, Fulfilled, AttemptOK, MongoHas, ExchangeHas, MongoSteps, ExchangeSteps,
       uploadVars, remoteVars, Published, TransferBounds, TransferShape
<1>6. Told(a) /\ form' \in [Users -> FormType] /\ told' \subseteq Attempts /\ told \subseteq told'
      /\ \A b \in Attempts \ {a} : b \in told' <=> b \in told
  BY <1>0, <1>1, <1>7, <1>8, AttemptAnswers
<1>3. TransferShape'
  BY <1>0, <1>1, <1>2, <1>6 DEF PublishProcessedOutput, TransferShape, uploadVars, remoteVars, pageVars, noteVars, Published
<1>4. Touches(a)
  BY <1>0, <1>1, <1>2, <1>6 DEF PublishProcessedOutput, Touches, uploadVars, remoteVars, pageVars, noteVars, TransferShape
<1>5. AttemptOK(a)'
  BY <1>0, <1>1, <1>2 DEF PublishProcessedOutput, AttemptOK, MongoHas, ExchangeHas, MongoSteps, ExchangeSteps, uploadVars, remoteVars
<1> QED
  BY <1>3, <1>4, <1>5, <1>6, <1>7, AttemptMoves

LEMMA GetFails ==
    ASSUME TransferBounds, TransferInv, NEW a \in Attempts, GetExchange(a), MapUploadStatus(remote[a]) # "COMPLETED" PROVE TransferInv'
<1>1. TransferShape /\ AttemptOK(a) /\ req \in [Attempts -> AttemptType] /\ req[a].pc = "get"
  BY AttemptKnown DEF GetExchange
<1>0. backend # "mongo" /\ remote[a] = "VALIDATION_FAILED" /\ req[a].user \in Users /\ req[a].file \in Bodies
  BY <1>1 DEF AttemptOK, MongoHas, ExchangeHas, MongoSteps, ExchangeSteps, MapUploadStatus
<1>2. /\ req' \in [Attempts -> AttemptType]
      /\ req'[a].pc = "done" /\ req'[a].user = req[a].user /\ req'[a].file = req[a].file
      /\ ~req'[a].open
      /\ \A b \in Attempts \ {a} : req'[b] = req[b]
  <2>1. Leave(a) /\ "done" \in AttemptPoints
    BY DEF GetExchange, Answer, AttemptPoints
  <2> QED
    BY <1>1, <2>1, AttemptGoes
<1>8. Answer(a, MapUploadStatus(remote[a])) /\ MapUploadStatus(remote[a]) \in Outcomes
  BY DEF GetExchange, Outcomes, MapUploadStatus
<1>7. (Spent(a) => Spent(a)') /\ (Fulfilled(a) => Fulfilled(a)') /\ Spent(a)'
  <2>1. told \subseteq told'
    BY <1>1, <1>8, FormShows DEF Answer, AttemptOK, TransferShape
  <2> QED
    BY <1>0, <1>1, <1>2, <2>1, AttemptKnown DEF GetExchange, Spent, Processed, Fulfilled, AttemptOK, MongoHas, ExchangeHas, MongoSteps, ExchangeSteps,
       uploadVars, remoteVars, MapUploadStatus
<1>6. Told(a) /\ form' \in [Users -> FormType] /\ told' \subseteq Attempts /\ told \subseteq told'
      /\ \A b \in Attempts \ {a} : b \in told' <=> b \in told
  BY <1>0, <1>1, <1>7, <1>8, AttemptAnswers
<1>3. TransferShape'
  BY <1>0, <1>1, <1>2, <1>6 DEF GetExchange, TransferShape, uploadVars, remoteVars, pageVars, noteVars, Published
<1>4. Touches(a)
  BY <1>0, <1>1, <1>2, <1>6 DEF GetExchange, Touches, uploadVars, remoteVars, pageVars, noteVars, TransferShape
<1>5. AttemptOK(a)'
  BY <1>0, <1>1, <1>2 DEF GetExchange, AttemptOK, MongoHas, ExchangeHas, MongoSteps, ExchangeSteps, uploadVars, remoteVars
<1> QED
  BY <1>3, <1>4, <1>5, <1>6, <1>7, AttemptMoves

LEMMA CompleteFails ==
    ASSUME TransferBounds, TransferInv, NEW a \in Attempts, CompleteUpload(a), remote[a] # "PENDING_UPLOAD" PROVE TransferInv'
<1>1. TransferShape /\ AttemptOK(a) /\ req \in [Attempts -> AttemptType] /\ req[a].pc = "complete"
  BY AttemptKnown DEF CompleteUpload
<1>0. backend # "mongo" /\ req[a].user \in Users /\ req[a].file \in Bodies
  BY <1>1 DEF AttemptOK, MongoHas, ExchangeHas, MongoSteps, ExchangeSteps
<1>2. /\ req' \in [Attempts -> AttemptType]
      /\ req'[a].pc = "done" /\ req'[a].user = req[a].user /\ req'[a].file = req[a].file
      /\ ~req'[a].open
      /\ \A b \in Attempts \ {a} : req'[b] = req[b]
  <2>1. Leave(a) /\ "done" \in AttemptPoints
    BY DEF CompleteUpload, Answer, AttemptPoints
  <2> QED
    BY <1>1, <2>1, AttemptGoes
<1>8. Answer(a, "error") /\ "error" \in Outcomes
  BY DEF CompleteUpload, Outcomes
<1>7. (Spent(a) => Spent(a)') /\ (Fulfilled(a) => Fulfilled(a)')
  <2>1. told \subseteq told'
    BY <1>1, <1>8, FormShows DEF Answer, AttemptOK, TransferShape
  <2> QED
    BY <1>0, <1>1, <1>2, <2>1 DEF CompleteUpload, Spent, Processed, Fulfilled, AttemptOK, MongoHas, ExchangeHas, MongoSteps, ExchangeSteps,
       uploadVars, remoteVars
<1>6. Told(a) /\ form' \in [Users -> FormType] /\ told' \subseteq Attempts /\ told \subseteq told'
      /\ \A b \in Attempts \ {a} : b \in told' <=> b \in told
  BY <1>0, <1>1, <1>7, <1>8, AttemptAnswers
<1>3. TransferShape'
  BY <1>0, <1>1, <1>2, <1>6 DEF CompleteUpload, TransferShape, uploadVars, remoteVars, pageVars, noteVars, Published
<1>4. Touches(a)
  BY <1>0, <1>1, <1>2, <1>6 DEF CompleteUpload, Touches, uploadVars, remoteVars, pageVars, noteVars, TransferShape
<1>5. AttemptOK(a)'
  BY <1>0, <1>1, <1>2 DEF CompleteUpload, AttemptOK, MongoHas, ExchangeHas, MongoSteps, ExchangeSteps, uploadVars, remoteVars
<1> QED
  BY <1>3, <1>4, <1>5, <1>6, <1>7, AttemptMoves

LEMMA RouteFails ==
    ASSUME TransferBounds, TransferInv, NEW a \in Attempts, Route(a), req[a].user \in readers PROVE TransferInv'
<1>1. TransferShape /\ AttemptOK(a) /\ req \in [Attempts -> AttemptType] /\ req[a].pc = "route"
  BY AttemptKnown DEF Route
<1>0. req[a].user \in Users /\ req[a].file \in Bodies
  BY <1>1 DEF AttemptOK, MongoHas, ExchangeHas, MongoSteps, ExchangeSteps
<1>2. /\ req' \in [Attempts -> AttemptType]
      /\ req'[a].pc = "done" /\ req'[a].user = req[a].user /\ req'[a].file = req[a].file
      /\ ~req'[a].open
      /\ \A b \in Attempts \ {a} : req'[b] = req[b]
  <2>1. Leave(a) /\ "done" \in AttemptPoints
    BY DEF Route, Answer, AttemptPoints
  <2> QED
    BY <1>1, <2>1, AttemptGoes
<1>8. Answer(a, "error") /\ "error" \in Outcomes
  BY DEF Route, Outcomes
<1>7. (Spent(a) => Spent(a)') /\ (Fulfilled(a) => Fulfilled(a)')
  <2>1. told \subseteq told'
    BY <1>1, <1>8, FormShows DEF Answer, AttemptOK, TransferShape
  <2> QED
    BY <1>0, <1>1, <1>2, <2>1 DEF Route, Spent, Processed, Fulfilled, AttemptOK, MongoHas, ExchangeHas, MongoSteps, ExchangeSteps,
       uploadVars, remoteVars
<1>6. Told(a) /\ form' \in [Users -> FormType] /\ told' \subseteq Attempts /\ told \subseteq told'
      /\ \A b \in Attempts \ {a} : b \in told' <=> b \in told
  BY <1>0, <1>1, <1>7, <1>8, AttemptAnswers
<1>3. TransferShape'
  BY <1>0, <1>1, <1>2, <1>6 DEF Route, TransferShape, uploadVars, remoteVars, pageVars, noteVars, Published
<1>4. Touches(a)
  BY <1>0, <1>1, <1>2, <1>6 DEF Route, Touches, uploadVars, remoteVars, pageVars, noteVars, TransferShape
<1>5. AttemptOK(a)'
  BY <1>0, <1>1, <1>2 DEF Route, AttemptOK, MongoHas, ExchangeHas, MongoSteps, ExchangeSteps, uploadVars, remoteVars
<1> QED
  BY <1>3, <1>4, <1>5, <1>6, <1>7, AttemptMoves

LEMMA InitiateMoves ==
    ASSUME TransferBounds, TransferInv, NEW a \in Attempts, InitiateUpload(a) PROVE TransferInv'
<1>1. TransferShape /\ AttemptOK(a) /\ req \in [Attempts -> AttemptType] /\ req[a].pc = "initiate"
  BY AttemptKnown DEF InitiateUpload
<1>0. backend # "mongo" /\ req[a].user \in Users /\ req[a].file \in Bodies
  BY <1>1 DEF AttemptOK, MongoHas, ExchangeHas, MongoSteps, ExchangeSteps
<1>2. /\ req' \in [Attempts -> AttemptType]
      /\ req'[a].pc = "put" /\ req'[a].user = req[a].user /\ req'[a].file = req[a].file
      /\ req'[a].open <=> req[a].open
      /\ \A b \in Attempts \ {a} : req'[b] = req[b]
  <2>1. MoveTo(a, "put") /\ "put" \in AttemptPoints
    BY <1>1 DEF InitiateUpload, AttemptPoints, MongoSteps, ExchangeSteps
  <2> QED
    BY <1>1, <2>1, AttemptGoes
<1>3. TransferShape'
  BY <1>1, <1>2 DEF InitiateUpload, TransferShape, uploadVars, remoteVars, pageVars, noteVars
<1>4. Touches(a)
  BY <1>0, <1>1, <1>2 DEF InitiateUpload, Touches, uploadVars, remoteVars, pageVars, noteVars, TransferShape
<1>5. AttemptOK(a)'
  BY <1>0, <1>1, <1>2 DEF InitiateUpload, AttemptOK, MongoHas, ExchangeHas, MongoSteps, ExchangeSteps, uploadVars, remoteVars, TransferShape, TransferBounds
<1>6. Told(a)
  BY <1>2 DEF InitiateUpload, Told
<1>7. (Spent(a) => Spent(a)') /\ (Fulfilled(a) => Fulfilled(a)')
  BY <1>0, <1>1, <1>4 DEF InitiateUpload, Spent, Fulfilled, Touches, AttemptOK, MongoHas, ExchangeHas, TransferShape, TransferBounds, uploadVars, remoteVars
<1> QED
  BY <1>3, <1>4, <1>5, <1>6, <1>7, AttemptMoves

LEMMA PutMoves ==
    ASSUME TransferBounds, TransferInv, NEW a \in Attempts, PutToSignedUrl(a) PROVE TransferInv'
<1>1. TransferShape /\ AttemptOK(a) /\ req \in [Attempts -> AttemptType] /\ req[a].pc = "put"
  BY AttemptKnown DEF PutToSignedUrl
<1>0. backend # "mongo" /\ req[a].user \in Users /\ req[a].file \in Bodies
  BY <1>1 DEF AttemptOK, MongoHas, ExchangeHas, MongoSteps, ExchangeSteps
<1>2. /\ req' \in [Attempts -> AttemptType]
      /\ req'[a].pc = "complete" /\ req'[a].user = req[a].user /\ req'[a].file = req[a].file
      /\ req'[a].open <=> req[a].open
      /\ \A b \in Attempts \ {a} : req'[b] = req[b]
  <2>1. MoveTo(a, "complete") /\ "complete" \in AttemptPoints
    BY <1>1 DEF PutToSignedUrl, AttemptPoints, MongoSteps, ExchangeSteps
  <2> QED
    BY <1>1, <2>1, AttemptGoes
<1>3. TransferShape'
  BY <1>1, <1>2 DEF PutToSignedUrl, TransferShape, uploadVars, remoteVars, pageVars, noteVars
<1>4. Touches(a)
  BY <1>0, <1>1, <1>2 DEF PutToSignedUrl, Touches, uploadVars, remoteVars, pageVars, noteVars, TransferShape
<1>5. AttemptOK(a)'
  BY <1>0, <1>1, <1>2 DEF PutToSignedUrl, AttemptOK, MongoHas, ExchangeHas, MongoSteps, ExchangeSteps, uploadVars, remoteVars, TransferShape, TransferBounds
<1>6. Told(a)
  BY <1>2 DEF PutToSignedUrl, Told
<1>7. (Spent(a) => Spent(a)') /\ (Fulfilled(a) => Fulfilled(a)')
  BY <1>0, <1>1, <1>4 DEF PutToSignedUrl, Spent, Fulfilled, Touches, AttemptOK, MongoHas, ExchangeHas, TransferShape, TransferBounds, uploadVars, remoteVars
<1> QED
  BY <1>3, <1>4, <1>5, <1>6, <1>7, AttemptMoves

LEMMA CompleteMoves ==
    ASSUME TransferBounds, TransferInv, NEW a \in Attempts, CompleteUpload(a), remote[a] = "PENDING_UPLOAD" PROVE TransferInv'
<1>1. TransferShape /\ AttemptOK(a) /\ req \in [Attempts -> AttemptType] /\ req[a].pc = "complete"
  BY AttemptKnown DEF CompleteUpload
<1>0. backend # "mongo" /\ req[a].user \in Users /\ req[a].file \in Bodies
  BY <1>1 DEF AttemptOK, MongoHas, ExchangeHas, MongoSteps, ExchangeSteps
<1>2. /\ req' \in [Attempts -> AttemptType]
      /\ req'[a].pc = "get" /\ req'[a].user = req[a].user /\ req'[a].file = req[a].file
      /\ req'[a].open <=> req[a].open
      /\ \A b \in Attempts \ {a} : req'[b] = req[b]
  <2>1. MoveTo(a, "get") /\ "get" \in AttemptPoints
    BY <1>1 DEF CompleteUpload, AttemptPoints, MongoSteps, ExchangeSteps
  <2> QED
    BY <1>1, <2>1, AttemptGoes
<1>3. TransferShape'
  BY <1>1, <1>2 DEF CompleteUpload, TransferShape, uploadVars, remoteVars, pageVars, noteVars
<1>4. Touches(a)
  BY <1>0, <1>1, <1>2 DEF CompleteUpload, Touches, uploadVars, remoteVars, pageVars, noteVars, TransferShape
<1>5. AttemptOK(a)'
  BY <1>0, <1>1, <1>2 DEF CompleteUpload, AttemptOK, MongoHas, ExchangeHas, MongoSteps, ExchangeSteps, uploadVars, remoteVars, TransferShape, TransferBounds
<1>6. Told(a)
  BY <1>2 DEF CompleteUpload, Told
<1>7. (Spent(a) => Spent(a)') /\ (Fulfilled(a) => Fulfilled(a)')
  BY <1>0, <1>1, <1>4 DEF CompleteUpload, Spent, Fulfilled, Touches, AttemptOK, MongoHas, ExchangeHas, TransferShape, TransferBounds, uploadVars, remoteVars
<1> QED
  BY <1>3, <1>4, <1>5, <1>6, <1>7, AttemptMoves

LEMMA GetMoves ==
    ASSUME TransferBounds, TransferInv, NEW a \in Attempts, GetExchange(a), MapUploadStatus(remote[a]) = "COMPLETED" PROVE TransferInv'
<1>1. TransferShape /\ AttemptOK(a) /\ req \in [Attempts -> AttemptType] /\ req[a].pc = "get"
  BY AttemptKnown DEF GetExchange
<1>0. backend # "mongo" /\ req[a].user \in Users /\ req[a].file \in Bodies
  BY <1>1 DEF AttemptOK, MongoHas, ExchangeHas, MongoSteps, ExchangeSteps, MapUploadStatus
<1>2. /\ req' \in [Attempts -> AttemptType]
      /\ req'[a].pc = "publish" /\ req'[a].user = req[a].user /\ req'[a].file = req[a].file
      /\ req'[a].open <=> req[a].open
      /\ \A b \in Attempts \ {a} : req'[b] = req[b]
  <2>1. MoveTo(a, "publish") /\ "publish" \in AttemptPoints
    BY <1>1 DEF GetExchange, AttemptPoints, MongoSteps, ExchangeSteps, MapUploadStatus
  <2> QED
    BY <1>1, <2>1, AttemptGoes
<1>3. TransferShape'
  BY <1>1, <1>2 DEF GetExchange, TransferShape, uploadVars, remoteVars, pageVars, noteVars
<1>4. Touches(a)
  BY <1>0, <1>1, <1>2 DEF GetExchange, Touches, uploadVars, remoteVars, pageVars, noteVars, TransferShape
<1>5. AttemptOK(a)'
  BY <1>0, <1>1, <1>2 DEF GetExchange, AttemptOK, MongoHas, ExchangeHas, MongoSteps, ExchangeSteps, uploadVars, remoteVars, TransferShape, TransferBounds, MapUploadStatus
<1>6. Told(a)
  BY <1>2 DEF GetExchange, Told
<1>7. (Spent(a) => Spent(a)') /\ (Fulfilled(a) => Fulfilled(a)')
  BY <1>0, <1>1, <1>4 DEF GetExchange, Spent, Fulfilled, Touches, AttemptOK, MongoHas, ExchangeHas, TransferShape, TransferBounds, uploadVars, remoteVars
<1> QED
  BY <1>3, <1>4, <1>5, <1>6, <1>7, AttemptMoves

LEMMA RouteMoves ==
    ASSUME TransferBounds, TransferInv, NEW a \in Attempts, Route(a), req[a].user \notin readers PROVE TransferInv'
<1>1. TransferShape /\ AttemptOK(a) /\ req \in [Attempts -> AttemptType] /\ req[a].pc = "route"
  BY AttemptKnown DEF Route
<1>0. req[a].user \in Users /\ req[a].file \in Bodies
  BY <1>1 DEF AttemptOK, MongoHas, ExchangeHas, MongoSteps, ExchangeSteps
<1>2. /\ req' \in [Attempts -> AttemptType]
      /\ req'[a].pc = (IF backend = "mongo" THEN "store" ELSE "initiate") /\ req'[a].user = req[a].user /\ req'[a].file = req[a].file
      /\ req'[a].open <=> req[a].open
      /\ \A b \in Attempts \ {a} : req'[b] = req[b]
  <2>1. MoveTo(a, (IF backend = "mongo" THEN "store" ELSE "initiate")) /\ (IF backend = "mongo" THEN "store" ELSE "initiate") \in AttemptPoints
    BY <1>1 DEF Route, AttemptPoints, MongoSteps, ExchangeSteps
  <2> QED
    BY <1>1, <2>1, AttemptGoes
<1>3. TransferShape'
  BY <1>1, <1>2 DEF Route, TransferShape, uploadVars, remoteVars, pageVars, noteVars
<1>4. Touches(a)
  BY <1>0, <1>1, <1>2 DEF Route, Touches, uploadVars, remoteVars, pageVars, noteVars, TransferShape
<1>5. AttemptOK(a)'
  BY <1>0, <1>1, <1>2 DEF Route, AttemptOK, MongoHas, ExchangeHas, MongoSteps, ExchangeSteps, uploadVars, remoteVars, TransferShape, TransferBounds
<1>6. Told(a)
  BY <1>2 DEF Route, Told
<1>7. (Spent(a) => Spent(a)') /\ (Fulfilled(a) => Fulfilled(a)')
  BY <1>0, <1>1, <1>4 DEF Route, Spent, Fulfilled, Touches, AttemptOK, MongoHas, ExchangeHas, TransferShape, TransferBounds, uploadVars, remoteVars
<1> QED
  BY <1>3, <1>4, <1>5, <1>6, <1>7, AttemptMoves

LEMMA BreakMoves ==
    ASSUME TransferBounds, TransferInv, NEW a \in Attempts, Break(a) PROVE TransferInv'
<1>1. TransferShape /\ AttemptOK(a) /\ req \in [Attempts -> AttemptType] /\ form \in [Users -> FormType]
      /\ told \subseteq Attempts /\ req[a].open /\ req[a].user \in Users /\ req[a].file \in Bodies /\ req[a].pc # "idle"
  BY AttemptKnown DEF Break, AttemptOK
<1>2. /\ req' \in [Attempts -> AttemptType]
      /\ req'[a].pc = req[a].pc /\ req'[a].user = req[a].user /\ req'[a].file = req[a].file /\ ~req'[a].open
      /\ \A b \in Attempts \ {a} : req'[b] = req[b]
  BY <1>1 DEF Break, AttemptType
<1>3. Show(a, "error") /\ "error" \in Outcomes
  BY DEF Break, Outcomes
<1>4. /\ form' \in [Users -> FormType] /\ told' \subseteq Attempts /\ told \subseteq told' /\ a \in told'
      /\ \A b \in Attempts \ {a} : b \in told' <=> b \in told
      /\ form' = [form EXCEPT ![req[a].user] = Shown(@, "error")]
  BY <1>1, <1>3, FormShows
<1>5. TransferShape'
  BY <1>1, <1>2, <1>4 DEF Break, TransferShape, uploadVars, remoteVars, pageVars, noteVars
<1>6. Touches(a)
  BY <1>1, <1>2, <1>4 DEF Break, Touches, uploadVars, remoteVars, pageVars, noteVars
<1>7. AttemptOK(a)'
  BY <1>1, <1>2 DEF Break, AttemptOK, MongoHas, ExchangeHas, uploadVars, remoteVars
<1>8. Spent(a)' /\ (Fulfilled(a) => Fulfilled(a)')
  BY <1>1, <1>4 DEF Break, Spent, Fulfilled, uploadVars, remoteVars
<1>9. Told(a)
  BY <1>1, <1>2, <1>3, <1>4, <1>8 DEF Told
<1> QED
  BY <1>5, <1>6, <1>7, <1>8, <1>9, AttemptMoves

LEMMA RemoteMoves ==
    ASSUME TransferBounds, TransferInv, NEW a \in Attempts, RemoteStep(a) PROVE TransferInv'
<1>1. TransferShape /\ AttemptOK(a) /\ req \in [Attempts -> AttemptType]
  BY AttemptKnown
<1>2. /\ backend # "mongo" /\ req[a].pc # "idle"
      /\ req[a].pc \in {"get", "publish"} => remote[a] # "PENDING_UPLOAD"
      /\ output[a] # Unset => remote[a] = "VALIDATED"
  BY <1>1 DEF RemoteStep, AttemptOK, MongoHas, ExchangeHas, TransferBounds
<1>3. /\ remote'[a] # remote[a] => remote[a] = "PENDING_UPLOAD" /\ remote'[a] = "EXPIRED" /\ output' = output
      /\ output'[a] # output[a] => remote' = remote /\ output[a] # Unset /\ output'[a] # Unset
      /\ output[a] # Unset => output'[a] # Unset
      /\ output'[a] # Unset => output[a] # Unset
      /\ \A b \in Attempts \ {a} : remote'[b] = remote[b] /\ output'[b] = output[b]
  BY <1>1 DEF RemoteStep, TransferShape, TransferBounds
<1>4. TransferShape'
  BY <1>1 DEF RemoteStep, TransferShape, formVars, uploadVars, pageVars, noteVars
<1>5. Touches(a)
  BY <1>1, <1>2, <1>3 DEF RemoteStep, Touches, formVars, uploadVars, pageVars, noteVars
<1>6. AttemptOK(a)'
  BY <1>1, <1>2, <1>3 DEF RemoteStep, AttemptOK, ExchangeHas, formVars, uploadVars, TransferBounds
<1>7. Told(a)
  BY DEF RemoteStep, Told, formVars
<1>8. (Spent(a) => Spent(a)') /\ (Fulfilled(a) => Fulfilled(a)')
  BY <1>1, <1>2, <1>3 DEF RemoteStep, Spent, Fulfilled, Processed, formVars, uploadVars
<1> QED
  BY <1>4, <1>5, <1>6, <1>7, <1>8, AttemptMoves

LEMMA RequestsKeep ==
    ASSUME TransferBounds, TransferInv, NEW a \in Attempts, RequestStep(a) PROVE TransferInv'
<1>1. CASE Route(a)
  BY <1>1, RouteMoves, RouteFails
<1>2. CASE MongoUpload(a)
  BY <1>2, StoreMoves, ExchangeMoves, DownloadMoves, OutboundMoves, NotificationMoves DEF MongoUpload
<1>3. CASE ExchangeUpload(a)
  BY <1>3, InitiateMoves, PutMoves, CompleteMoves, CompleteFails, GetMoves, GetFails, PublishMoves DEF ExchangeUpload
<1> QED
  BY <1>1, <1>2, <1>3, FailMoves, BreakMoves, RemoteMoves DEF RequestStep

-----------------------------------------------------------------------------
(* What users do.                                                          *)

LEMMA ChooseKeeps ==
    ASSUME TransferBounds, TransferInv, NEW u \in Users, Choose(u) PROVE TransferInv'
<1> USE DEF Attempts
<1>1. PICK f \in Bodies : form' = [form EXCEPT ![u] = [file |-> f, result |-> Unset, waiting |-> 0, tried |-> {}]]
  BY DEF Choose, Bodies
<1> DEFINE n == [file |-> f, result |-> Unset, waiting |-> 0, tried |-> {}]
<1>2. n \in FormType /\ n.tried = {} /\ n.result # "COMPLETED" /\ n.waiting = 0
  BY DEF FormType, TransferBounds
<1>3. form' = [form EXCEPT ![u] = n] /\ form \in [Users -> FormType]
  BY <1>1 DEF TransferInv, TransferShape
<1> HIDE DEF n
<1>4. form' \in [Users -> FormType] /\ form'[u] = n /\ \A v \in Users \ {u} : form'[v] = form[v]
  BY <1>2, <1>3
<1>5. /\ UNCHANGED <<backend, req, told, stored, exchanges, downloads, notes, remote, output, unpublished, tokens, page, served,
                     read, clicked>>
      /\ form[u].waiting = 0
  BY DEF Choose, Waiting, uploadVars, remoteVars, pageVars, noteVars
<1>6. TransferShape'
  BY <1>4, <1>5 DEF TransferInv, TransferShape
<1>7. ASSUME NEW a \in Attempts PROVE AttemptOK(a)'
  <2>1. AttemptOK(a) /\ (req[a].open => req[a].user \in Users /\ req[a].user # u)
    BY <1>5 DEF TransferInv, AttemptOK
  <2> QED
    BY <1>4, <1>5, <2>1 DEF AttemptOK, MongoHas, ExchangeHas
<1>8. ASSUME NEW v \in Users PROVE FormOK(v)'
  <2>1. CASE v = u
    BY <1>2, <1>4, <2>1 DEF FormOK, Waiting
  <2>2. CASE v # u
    <3>1. FormOK(v) /\ form'[v] = form[v]
      BY <1>4, <2>2 DEF TransferInv
    <3> QED
      BY <1>5, <3>1 DEF FormOK, Waiting, Spent, Fulfilled, Processed
  <2> QED
    BY <2>1, <2>2
<1> QED
  BY <1>5, <1>6, <1>7, <1>8 DEF TransferInv, TenantInv, IsOf, Owner, Started

LEMMA SubmitKeeps ==
    ASSUME TransferBounds, TransferInv, NEW u \in Users, Submit(u) PROVE TransferInv'
<1> USE DEF Attempts
<1> DEFINE a == Cardinality(Started) + 1
           r == [user |-> u, file |-> form[u].file, pc |-> "route", open |-> TRUE]
<1>1. PICK k \in 0..MaxAttempts : Started = 1..k
  BY DEF TransferInv
<1>2. a = k + 1 /\ k \in Nat
  <2>1. k \in Nat /\ 1 \in Int /\ k \in Int
    BY DEF TransferBounds
  <2>2. Cardinality(1..k) = IF 1 > k THEN 0 ELSE k - 1 + 1
    BY <2>1, FS_Interval
  <2> QED
    BY <1>1, <2>1, <2>2
<1>3. /\ a \in Attempts /\ form' = [form EXCEPT ![u].waiting = a, ![u].tried = @ \cup {a}]
      /\ req' = [req EXCEPT ![a] = r]
      /\ form[u].file # Unset /\ form[u].waiting = 0 /\ form[u].result # "COMPLETED"
      /\ UNCHANGED <<backend, told, stored, exchanges, downloads, notes, remote, output, unpublished, tokens, page, served,
                     read, clicked>>
  BY DEF Submit, CanSubmit, Waiting, uploadVars, remoteVars, pageVars, noteVars
<1> HIDE DEF a
<1>4. /\ form \in [Users -> FormType] /\ req \in [Attempts -> AttemptType] /\ form[u] \in FormType
      /\ r \in AttemptType /\ r.user = u /\ r.file \in Bodies /\ r.pc = "route" /\ r.open
  BY <1>3 DEF TransferInv, TransferShape, FormType, AttemptType, Bodies
<1> HIDE DEF r
<1>5. /\ req' \in [Attempts -> AttemptType] /\ req'[a] = r /\ \A b \in Attempts \ {a} : req'[b] = req[b]
  BY <1>3, <1>4
<1> DEFINE q == form[u]
           w == [q EXCEPT !.waiting = a]
           n == [w EXCEPT !.tried = q.tried \cup {a}]
<1>6. form' = [form EXCEPT ![u] = n]
  BY <1>3, <1>4
<1>7. n \in FormType /\ n.result = q.result /\ n.waiting = a /\ n.tried = q.tried \cup {a}
  <2>1. q = [file |-> q.file, result |-> q.result, waiting |-> q.waiting, tried |-> q.tried] /\ q \in FormType
    BY <1>4 DEF FormType
  <2> HIDE DEF q
  <2>2. w = [file |-> q.file, result |-> q.result, waiting |-> a, tried |-> q.tried]
    BY <2>1
  <2> HIDE DEF w
  <2>3. n = [file |-> q.file, result |-> q.result, waiting |-> a, tried |-> q.tried \cup {a}]
    BY <2>2
  <2> QED
    BY <1>3, <2>1, <2>3 DEF FormType, TransferBounds
<1> HIDE DEF n
<1>8. form' \in [Users -> FormType] /\ form'[u] = n /\ \A v \in Users \ {u} : form'[v] = form[v]
  BY <1>4, <1>6, <1>7
<1>9. req[a].pc = "idle" /\ \A b \in Attempts : req[b].pc # "idle" => b < a
  <2>1. a \notin Started /\ \A b \in Started : b < a
    BY <1>1, <1>2
  <2> QED
    BY <1>3, <2>1 DEF Started
<1>10. TransferShape'
  BY <1>3, <1>5, <1>8 DEF TransferInv, TransferShape
<1>11. (Started = 1..(k + 1))' /\ k + 1 \in 0..MaxAttempts
  <2>1. Started' = Started \cup {a}
    BY <1>4, <1>5, <1>9, <1>3 DEF Started
  <2>2. MaxAttempts \in Nat
    BY DEF TransferBounds
  <2> QED
    BY <1>1, <1>2, <1>3, <2>1, <2>2
<1>12. ASSUME NEW b \in Attempts PROVE AttemptOK(b)'
  <2>1. AttemptOK(b)
    BY DEF TransferInv
  <2>2. CASE b = a
    BY <1>3, <1>4, <1>5, <1>7, <1>8, <1>9, <2>1, <2>2 DEF AttemptOK, MongoHas, ExchangeHas, MongoSteps, ExchangeSteps
  <2>3. CASE b # a
    <3>1. req[b].open => req[b].user \in Users \ {u}
      BY <1>3, <2>1 DEF AttemptOK
    <3> QED
      BY <1>3, <1>5, <1>8, <2>1, <2>3, <3>1 DEF AttemptOK, MongoHas, ExchangeHas
  <2> QED
    BY <2>2, <2>3
<1>13. ASSUME NEW b \in Attempts \ {a} PROVE (Spent(b)' <=> Spent(b)) /\ (Fulfilled(b)' <=> Fulfilled(b))
  BY <1>3, <1>5 DEF Spent, Fulfilled, Processed
<1>14. ASSUME NEW v \in Users PROVE FormOK(v)'
  <2>1. FormOK(v) /\ \A b \in form[v].tried : b \in Attempts \ {a} /\ req[b].pc # "idle" /\ req'[b] = req[b] /\ b < a
    <3>1. FormOK(v) /\ form[v].tried \subseteq Attempts
      BY <1>4 DEF TransferInv, FormType
    <3>2. \A b \in form[v].tried : req[b].pc # "idle"
      BY <3>1 DEF FormOK
    <3> QED
      BY <1>5, <1>9, <3>1, <3>2
  <2>2. CASE v # u
    <3>1. form'[v] = form[v]
      BY <1>8, <2>2
    <3> QED
      BY <1>13, <2>1, <3>1 DEF FormOK, Waiting
  <2>3. CASE v = u
    <3>1. \A b \in form[u].tried : Spent(b) /\ b # form[u].waiting
      BY <1>3, <2>1, <2>3 DEF FormOK
    <3>2. \A b \in form[u].tried : Spent(b)'
      BY <1>13, <2>1, <2>3, <3>1
    <3>3. \A b \in form'[u].tried : b = a \/ b \in form[u].tried
      BY <1>7, <1>8
    <3>4. \A b \in form'[u].tried : req'[b].pc # "idle" /\ req'[b].user = u
      BY <1>4, <1>5, <2>1, <2>3, <3>3 DEF FormOK
    <3>5. ~(a < a) /\ \A b \in form[u].tried : ~(a < b)
      BY <1>2, <2>1, <2>3
    <3>6. form'[u].waiting = a /\ a \in form'[u].tried /\ form'[u].result # "COMPLETED" /\ req'[a].open
      BY <1>3, <1>4, <1>5, <1>7, <1>8
    <3> QED
      BY <2>3, <3>2, <3>3, <3>4, <3>5, <3>6 DEF FormOK, Waiting
  <2> QED
    BY <2>2, <2>3
<1>15. TenantInv'
  <2>1. \A b \in Attempts : \A t : IsOf(b, t) => IsOf(b, t)'
    BY <1>5, <1>9 DEF IsOf, Owner
  <2> QED
    BY <1>3, <2>1 DEF TenantInv, TransferInv, TransferShape
<1> QED
  BY <1>3, <1>10, <1>11, <1>12, <1>14, <1>15 DEF TransferInv

\* What only lists, downloads or marks concerns the tenants alone.
LEMMA PagesKeep ==
    ASSUME TransferInv, TransferShape', TenantInv',
           UNCHANGED <<backend, form, req, told, stored, exchanges, downloads, notes, remote, output, unpublished>>,
           backend # "mongo" => tokens' = {}
    PROVE  TransferInv'
BY DEF TransferInv, AttemptOK, MongoHas, ExchangeHas, FormOK, Waiting, Spent, Fulfilled, Processed, Started

LEMMA TabsKeep ==
    ASSUME TransferBounds, TransferInv,
           (\E u \in Users : /\ TabStep(u) /\ ~Choose(u) /\ ~Submit(u)) \/ ExpireToken
    PROVE  TransferInv'
<1> DEFINE Same == UNCHANGED <<backend, form, req, told, stored, exchanges, downloads, notes, remote, output, unpublished>>
<1>1. TransferShape /\ TenantInv /\ (backend # "mongo" => tokens = {} /\ downloads = {} /\ notes = {})
  BY DEF TransferInv
<1>2. ASSUME NEW a \in Attempts, a \in downloads \cup notes \cup OutputReady PROVE req[a].pc # "idle"
  <2>1. AttemptOK(a)
    BY DEF TransferInv
  <2>2. backend = "mongo" => a \in stored
    BY <1>2, <2>1 DEF AttemptOK, MongoHas, OutputReady, TransferBounds
  <2>3. backend # "mongo" => remote[a] = "VALIDATED"
    BY <1>1, <1>2, <2>1 DEF AttemptOK, ExchangeHas, OutputReady, TransferBounds
  <2> QED
    BY <2>1, <2>2, <2>3 DEF AttemptOK, ExchangeHas, TransferBounds
<1>3. ASSUME NEW u \in Users, OpenDownloads(u) PROVE TransferInv'
  <2>1. PICK files \in SUBSET Attempts : /\ page' = [page EXCEPT ![u].files = files]
                                         /\ \A a \in files : IsOf(a, TenantOf[u])
    <3>1. PICK files \in Listed(u) : page' = [page EXCEPT ![u].files = files]
      BY <1>3 DEF OpenDownloads
    <3>2. files \subseteq Scoped(TenantOf[u], downloads \cup OutputReady)
      BY <3>1 DEF Listed, Scoped
    <3>3. downloads \cup OutputReady \subseteq Attempts
      BY <1>1 DEF TransferShape, OutputReady
    <3>4. \A a \in files : a \in Attempts /\ a \in downloads \cup OutputReady /\ Owner(a) = TenantOf[u]
      BY <3>2, <3>3 DEF Scoped
    <3> QED
      BY <1>2, <3>1, <3>4 DEF IsOf
  <2>2. Same /\ UNCHANGED <<tokens, served, read, clicked>>
    BY <1>3 DEF OpenDownloads, formVars, uploadVars, remoteVars, noteVars
  <2>3. page' \in [Users -> [files : SUBSET Attempts, notes : SUBSET Attempts]]
        /\ \A v \in Users : page'[v].notes = page[v].notes /\ page'[v].files = IF v = u THEN files ELSE page[v].files
    BY <1>1, <2>1 DEF TransferShape
  <2>4. TransferShape'
    BY <1>1, <2>2, <2>3 DEF TransferShape
  <2>5. TenantInv'
    BY <1>1, <2>1, <2>2, <2>3 DEF TenantInv, IsOf, Owner
  <2> QED
    BY <1>1, <2>2, <2>4, <2>5, PagesKeep
<1>4. ASSUME NEW u \in Users, CreateDownloadToken(u) PROVE TransferInv'
  <2>1. Same /\ UNCHANGED <<page, served, read, clicked>> /\ backend = "mongo"
    BY <1>4 DEF CreateDownloadToken, formVars, uploadVars, remoteVars, noteVars
  <2>2. TransferShape' /\ TenantInv'
    BY <1>1, <2>1 DEF TransferShape, TenantInv, IsOf, Owner
  <2> QED
    BY <2>1, <2>2, PagesKeep
<1>5. ASSUME ExpireToken PROVE TransferInv'
  <2>1. Same /\ UNCHANGED <<page, served, read, clicked>> /\ (tokens = {} => tokens' = {})
    BY <1>5 DEF ExpireToken, formVars, uploadVars, remoteVars, noteVars
  <2>2. TransferShape' /\ TenantInv'
    BY <1>1, <2>1 DEF TransferShape, TenantInv, IsOf, Owner
  <2> QED
    BY <1>1, <2>1, <2>2, PagesKeep
<1>6. ASSUME NEW u \in Users, NEW a \in Attempts, IsOf(a, TenantOf[u]), served' = served \cup {<<u, a>>},
             Same, UNCHANGED <<tokens, page, read, clicked>>
      PROVE  TransferInv'
  <2>1. TransferShape'
    BY <1>1, <1>6 DEF TransferShape
  <2>2. TenantInv'
    BY <1>1, <1>6 DEF TenantInv, IsOf, Owner
  <2> QED
    BY <1>1, <1>6, <2>1, <2>2, PagesKeep
<1>7. ASSUME NEW u \in Users, DownloadFile(u) PROVE TransferInv'
  <2>1. PICK a \in Scoped(TenantOf[u], downloads) : served' = served \cup {<<u, a>>}
    BY <1>7 DEF DownloadFile
  <2>2. a \in Attempts /\ IsOf(a, TenantOf[u])
    BY <1>1, <1>2, <2>1 DEF Scoped, IsOf, TransferShape
  <2>3. Same /\ UNCHANGED <<tokens, page, read, clicked>>
    BY <1>7 DEF DownloadFile, formVars, uploadVars, remoteVars, noteVars
  <2> QED
    BY <1>6, <2>1, <2>2, <2>3
<1>8. ASSUME NEW u \in Users, RequestDownloadUrl(u) PROVE TransferInv'
  <2>1. PICK a \in page[u].files \cap OutputReady : served' = served \cup {<<u, a>>}
    BY <1>8 DEF RequestDownloadUrl
  <2>2. a \in Attempts /\ IsOf(a, TenantOf[u])
    BY <1>1, <2>1 DEF OutputReady, TenantInv
  <2>3. Same /\ UNCHANGED <<tokens, page, read, clicked>>
    BY <1>8 DEF RequestDownloadUrl, formVars, uploadVars, remoteVars, noteVars
  <2> QED
    BY <1>6, <2>1, <2>2, <2>3
<1>9. ASSUME NEW u \in Users, OpenNotifications(u) PROVE TransferInv'
  <2>1. Same /\ UNCHANGED <<tokens, served, read, clicked>> /\ page' = [page EXCEPT ![u].notes = Scoped(TenantOf[u], notes)]
    BY <1>9 DEF OpenNotifications, formVars, uploadVars, remoteVars, noteVars
  <2>2. Scoped(TenantOf[u], notes) \subseteq Attempts
    BY <1>1 DEF Scoped, TransferShape
  <2>3. page' \in [Users -> [files : SUBSET Attempts, notes : SUBSET Attempts]] /\ \A v \in Users : page'[v].files = page[v].files
    BY <1>1, <2>1, <2>2 DEF TransferShape
  <2>4. TransferShape' /\ TenantInv'
    BY <1>1, <2>1, <2>3 DEF TransferShape, TenantInv, IsOf, Owner
  <2> QED
    BY <1>1, <2>1, <2>4, PagesKeep
<1>10. ASSUME NEW u \in Users, NEW S, S \subseteq Scoped(TenantOf[u], notes), Mark(u, S) PROVE TransferInv'
  <2>1. Same /\ UNCHANGED <<tokens, page, served>> /\ read' = read \cup S /\ clicked' = clicked \cup {<<u, a>> : a \in S}
    BY <1>10 DEF Mark, formVars, uploadVars, remoteVars, pageVars
  <2>2. S \subseteq notes /\ S \subseteq Attempts /\ \A a \in S : IsOf(a, TenantOf[u])
    BY <1>1, <1>2, <1>10 DEF Scoped, IsOf, TransferShape
  <2>3. TransferShape'
    BY <1>1, <2>1, <2>2 DEF TransferShape
  <2>4. TenantInv'
    <3>1. \A b : \A t : IsOf(b, t) => IsOf(b, t)'
      BY <2>1 DEF IsOf, Owner
    <3>2. \A c \in clicked' : IsOf(c[2], TenantOf[c[1]])'
      BY <1>1, <2>1, <2>2, <3>1 DEF TenantInv
    <3>3. read' \subseteq notes' /\ \A a \in read' : \E v \in Users : <<v, a>> \in clicked'
      BY <1>1, <2>1, <2>2 DEF TenantInv
    <3> QED
      BY <1>1, <2>1, <3>1, <3>2, <3>3 DEF TenantInv
  <2> QED
    BY <1>1, <2>1, <2>3, <2>4, PagesKeep
<1>11. ASSUME NEW u \in Users, MarkNotificationRead(u) \/ MarkAllNotificationsRead(u) PROVE TransferInv'
  <2>1. CASE MarkNotificationRead(u)
    <3>1. PICK a : Mark(u, {a} \cap Scoped(TenantOf[u], notes))
      BY <2>1 DEF MarkNotificationRead
    <3> QED
      BY <1>10, <3>1
  <2>2. CASE MarkAllNotificationsRead(u)
    BY <1>10, <2>2 DEF MarkAllNotificationsRead
  <2> QED
    BY <1>11, <2>1, <2>2
<1>12. ASSUME NEW u \in Users, ChangeRole(u) PROVE TransferInv'
  <2>1. Same /\ UNCHANGED <<tokens, page, served, read, clicked>>
    BY <1>12 DEF ChangeRole, formVars, uploadVars, remoteVars, pageVars, noteVars
  <2>2. TransferShape' /\ TenantInv'
    BY <1>1, <2>1 DEF TransferShape, TenantInv, IsOf, Owner
  <2> QED
    BY <1>1, <2>1, <2>2, PagesKeep
<1> QED
  BY <1>3, <1>4, <1>5, <1>7, <1>8, <1>9, <1>11, <1>12 DEF TabStep

-----------------------------------------------------------------------------
(* The inductive invariant of uploads, downloads and notifications, for any number of users and attempts and wherever
   a request fails: what a request at its point has left behind, what a form may try again, what a tab may list. *)
THEOREM TransfersCorrect ==
  ASSUME TransferBounds PROVE TransfersSpec => []TransferInv
<1>1. TransferInv /\ [TransfersNext]_transferVars => TransferInv'
  <2> SUFFICES ASSUME TransferInv, [TransfersNext]_transferVars PROVE TransferInv'
    OBVIOUS
  <2>1. ASSUME NEW a \in Attempts, RequestStep(a) PROVE TransferInv'
    BY <2>1, RequestsKeep
  <2>2. ASSUME NEW u \in Users, TabStep(u) PROVE TransferInv'
    BY <2>2, ChooseKeeps, SubmitKeeps, TabsKeep
  <2>3. CASE ExpireToken
    BY <2>3, TabsKeep
  <2>4. CASE UNCHANGED transferVars
    <3>1. UNCHANGED <<backend, form, req, told, stored, exchanges, downloads, notes, remote, output, unpublished>>
          /\ UNCHANGED <<tokens, page, served, read, clicked>>
      BY <2>4 DEF transferVars, formVars, uploadVars, remoteVars, pageVars, noteVars
    <3>2. TransferShape' /\ TenantInv'
      BY <3>1 DEF TransferInv, TransferShape, TenantInv, IsOf, Owner
    <3> QED
      BY <3>1, <3>2, PagesKeep DEF TransferInv
  <2> QED
    BY <2>1, <2>2, <2>3, <2>4 DEF TransfersNext
<1> QED
  BY <1>1, TransfersStart, PTL DEF TransfersSpec

\* TransfersTellTheTruth of upload-form, the two upload services, download-tokens and the notifications.
THEOREM TransfersAlwaysTellTheTruth ==
  ASSUME TransferBounds PROVE TransfersSpec => []TransfersTellTheTruth
<1>1. TransferInv => TransfersTellTheTruth
  <2> SUFFICES ASSUME TransferInv PROVE TransfersTellTheTruth
    OBVIOUS
  <2> USE DEF Attempts
  <2>1. TransferShape /\ TenantInv /\ (backend # "mongo" => exchanges = {} /\ downloads = {} /\ notes = {} /\ tokens = {})
        /\ (\A a \in Attempts : AttemptOK(a)) /\ (\A u \in Users : FormOK(u))
    BY DEF TransferInv
  <2>2. TransfersTypeOK
    BY <2>1 DEF TransfersTypeOK, AttemptOK, MongoHas, ExchangeHas, TenantInv, Started
  <2>3. ShownIsDone
    BY <2>1 DEF ShownIsDone, FormOK, Fulfilled
  <2>4. NothingDangles
    <3>1. ASSUME NEW e \in exchanges PROVE e[1] \in stored /\ (e[2] = "OUTBOUND" => e[1] \in downloads)
      <4>1. PICK a \in Attempts, d \in {"INBOUND", "OUTBOUND"} : e = <<a, d>>
        BY <2>1, <3>1 DEF TransferShape
      <4>2. AttemptOK(a) /\ backend = "mongo"
        BY <2>1, <3>1
      <4> QED
        BY <3>1, <4>1, <4>2 DEF AttemptOK, MongoHas
    <3>2. ASSUME NEW a \in downloads \cup notes PROVE a \in stored
      BY <2>1, <3>2 DEF AttemptOK, MongoHas, TransferShape
    <3>3. ASSUME NEW a \in Attempts, output[a] # Unset PROVE remote[a] = "VALIDATED"
      BY <2>1, <3>3 DEF AttemptOK, MongoHas, ExchangeHas
    <3> QED
      BY <3>1, <3>2, <3>3 DEF NothingDangles
  <2>5. BytesStayInTenant
    BY <2>1 DEF BytesStayInTenant, TenantInv, IsOf
  <2>6. TwiceOnlyWhenTold
    <3> SUFFICES ASSUME NEW u \in Users, NEW a \in form[u].tried, NEW b \in form[u].tried, a < b, Processed(a)
                 PROVE  a \in told
      BY DEF TwiceOnlyWhenTold
    <3> QED
      BY <2>1 DEF FormOK, Spent
  <2>7. WaitingHasRequest
    <3> SUFFICES ASSUME NEW u \in Users, Waiting(u)
                 PROVE  LET r == req[form[u].waiting] IN r.user = u /\ r.open /\ r.pc \notin {"idle", "done"}
      BY DEF WaitingHasRequest
    <3>1. form[u].waiting \in form[u].tried /\ req[form[u].waiting].open /\ req[form[u].waiting].user = u
      BY <2>1 DEF FormOK
    <3>2. form[u].waiting \in Attempts
      BY <2>1, <3>1 DEF TransferShape, FormType
    <3> QED
      BY <2>1, <3>1, <3>2 DEF AttemptOK
  <2>8. ReadByItsTenant
    BY <2>1 DEF ReadByItsTenant, TenantInv, IsOf
  <2> QED
    BY <2>2, <2>3, <2>4, <2>5, <2>6, <2>7, <2>8 DEF TransfersTellTheTruth
<1> QED
  BY <1>1, TransfersCorrect, PTL
=============================================================================
