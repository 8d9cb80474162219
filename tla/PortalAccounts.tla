---------------------------- MODULE PortalAccounts ----------------------------
(***************************************************************************)
(* Customer portal: accounts, sign-in and the links it mails.  Accounts are *)
(* looked up by address and inserted a step later, and no index forbids a  *)
(* second row of one address; links are consumed by deleting them.  Every  *)
(* awaited read or write is a step; a call may die between two of them.    *)
(***************************************************************************)
EXTENDS Naturals, Sequences, FiniteSets

CONSTANTS Emails, Links, Askers, Nothing, MaxRows, MaxStarts, MaxMishaps

ASSUME AccountBounds == MaxRows \in Nat /\ MaxStarts \in Nat

VARIABLES
    rows,      \* users, in the order findOne meets them
    link,      \* authTokens
    open,      \* platformSettings.allowSelfServeSignup
    account,   \* per call: the request under way
    starts, lost,
    session,   \* rows somebody is signed in as
    approved,  \* auxiliary: rows a superuser validated or reactivated
    crossed,   \* auxiliary: addresses two calls created an account for at once
    worked,    \* auxiliary: how often a link had its effect
    cutOff     \* auxiliary: addresses whose link was lost on the way, ran out, or was never to be

accountVars == <<rows, link, open, account, starts, lost, session, approved, crossed, worked, cutOff>>

Status == {"active", "suspended", "pending_validation"}
Ops    == {"signup", "google", "login", "resend", "forgot", "createAdmin", "script",
           "verify", "reset", "validate", "status"}
Quiet  == [op |-> "none", email |-> Nothing, pc |-> "idle", row |-> 0, seen |-> Nothing, link |-> Nothing]
NoLink == [email |-> Nothing, purpose |-> Nothing, at |-> "absent"]

AccountsInit ==
    /\ rows = <<>> /\ link = [l \in Links |-> NoLink] /\ open \in BOOLEAN
    /\ account = [c \in Askers |-> Quiet] /\ starts = 0 /\ lost = 0
    /\ session = {} /\ approved = {} /\ crossed = {} /\ worked = [l \in Links |-> 0] /\ cutOff = {}

-----------------------------------------------------------------------------
\* findPortalUserByEmail: the first row of the address, 0 when there is none.
FindByEmail(e) ==
    LET hits == {i \in DOMAIN rows : rows[i].email = e}
    IN  IF hits = {} THEN 0 ELSE CHOOSE i \in hits : \A j \in hits : i <= j

Goto(c, pc)     == account' = [account EXCEPT ![c].pc = pc]
Finish(c)       == account' = [account EXCEPT ![c] = Quiet]
Continue(c, pc) == IF pc = "idle" THEN Finish(c) ELSE Goto(c, pc)

MayEnter(i) == rows[i].status = "active"

Free(i) == i = 0

\* What each request does with the row its first read found.
AfterFind(op, i) ==
    CASE op = "signup"          -> IF Free(i) THEN "insert" ELSE "idle"
      [] op = "createAdmin"     -> IF Free(i) THEN "organization" ELSE "idle"
      [] op = "google"          -> IF Free(i) THEN "settings" ELSE IF MayEnter(i) THEN "session" ELSE "idle"
      [] op = "login"           -> IF i # 0 /\ rows[i].pw THEN "compare" ELSE "idle"
      [] op = "resend"          -> IF i # 0 /\ ~rows[i].verified THEN "token" ELSE "idle"
      [] op = "forgot"          -> IF i # 0 /\ rows[i].pw THEN "token" ELSE "idle"
      [] op = "script"          -> "upsert"

Find(c) ==
    LET i == FindByEmail(account[c].email)
    IN  /\ account[c].pc = "find"
        /\ \/ LET pc == AfterFind(account[c].op, i)
              IN  account' = [account EXCEPT ![c] = IF pc = "idle" THEN Quiet
                                  ELSE [@ EXCEPT !.pc = pc, !.row = i, !.seen = IF i = 0 THEN Nothing ELSE rows[i]]]
           \/ account[c].op = "script" /\ i # 0 /\ Finish(c)   \* another role, and no --force
        /\ UNCHANGED <<rows, link, open, starts, lost, session, approved, crossed, worked, cutOff>>

\* The Google sign-in of an unknown address reads the settings after the user.
ReadSettings(c) ==
    /\ account[c].pc = "settings"
    /\ Continue(c, IF open THEN "insert" ELSE "idle")
    /\ UNCHANGED <<rows, link, open, starts, lost, session, approved, crossed, worked, cutOff>>

\* createOrganization and createTenant come before the account of their first administrator.
CreateOrganization(c) ==
    /\ account[c].pc \in {"organization", "tenant"}
    /\ Goto(c, IF account[c].pc = "organization" THEN "tenant" ELSE "insert")
    /\ UNCHANGED <<rows, link, open, starts, lost, session, approved, crossed, worked, cutOff>>

NewRow(op, e) ==
    [email |-> e, by |-> op, pw |-> op \in {"signup", "script"}, verified |-> op = "script",
     status |-> IF op = "createAdmin" THEN "pending_validation" ELSE "active"]

Creating == {"settings", "organization", "tenant", "insert", "upsert"}
Overlaps(c) == {account[d].email : d \in {d \in Askers \ {c} : account[d].pc \in Creating /\ account[d].email = account[c].email}}

Appended(c) == /\ Len(rows) < MaxRows
               /\ rows' = Append(rows, NewRow(account[c].op, account[c].email))
               /\ crossed' = crossed \cup Overlaps(c)

CreatePortalUser(c) ==
    /\ account[c].pc = "insert"
    /\ Appended(c)
    /\ Continue(c, CASE account[c].op = "signup" -> "token" [] account[c].op = "google" -> "verify" [] OTHER -> "idle")
    /\ UNCHANGED <<link, open, starts, lost, session, approved, worked, cutOff>>

\* create-superuser: one upsert by address.
UpsertSuperuser(c) ==
    LET i == FindByEmail(account[c].email)
    IN  /\ account[c].pc = "upsert"
        /\ IF i = 0 THEN Appended(c) /\ UNCHANGED approved
           ELSE /\ rows' = [rows EXCEPT ![i] = NewRow("script", account[c].email)]
                /\ approved' = approved \cup {i} /\ UNCHANGED crossed
        /\ Finish(c)
        /\ UNCHANGED <<link, open, starts, lost, session, worked, cutOff>>

Purpose(op) == IF op \in {"forgot", "validate"} THEN "reset-password" ELSE "verify-email"

CreateAuthToken(c) ==
    /\ account[c].pc = "token"
    /\ \E l \in Links :
          /\ link[l].at = "absent"
          /\ link' = [link EXCEPT ![l] = [email |-> account[c].email, purpose |-> Purpose(account[c].op), at |-> "stored"]]
          /\ account' = [account EXCEPT ![c].pc = "mail", ![c].link = l]
    /\ UNCHANGED <<rows, open, starts, lost, session, approved, crossed, worked, cutOff>>

SendEmail(c) ==
    /\ account[c].pc = "mail"
    /\ \/ link' = [link EXCEPT ![account[c].link].at = IF @ = "stored" THEN "mailed" ELSE @] /\ UNCHANGED <<lost, cutOff>>
       \/ lost < MaxMishaps /\ lost' = lost + 1 /\ cutOff' = cutOff \cup {account[c].email} /\ UNCHANGED link
    /\ Finish(c)
    /\ UNCHANGED <<rows, open, starts, session, approved, crossed, worked>>

-----------------------------------------------------------------------------
\* consumeAuthToken: findOneAndDelete by hash and purpose; what has run out is no use.
MutantConsumed(l) == link[l]

Consumed(l) == [link[l] EXCEPT !.at = "used"]

ConsumeAuthToken(c) ==
    LET l == account[c].link
        p == IF account[c].op = "verify" THEN "verify-email" ELSE "reset-password"
        good == link[l].purpose = p /\ link[l].at = "mailed"
    IN  /\ account[c].pc = "consume"
        /\ link' = [link EXCEPT ![l] = IF good THEN Consumed(l) ELSE @]
        /\ Continue(c, IF ~good THEN "idle" ELSE IF account[c].op = "verify" THEN "verify" ELSE "password")
        /\ worked' = [worked EXCEPT ![l] = IF good THEN @ + 1 ELSE @]
        /\ UNCHANGED <<rows, open, starts, lost, session, approved, crossed, cutOff>>

\* verifyPortalUserEmail and updatePortalUserPassword address the row by its e-mail.
VerifyPortalUserEmail(c) ==
    LET i == FindByEmail(account[c].email)
    IN  /\ account[c].pc = "verify"
        /\ rows' = IF i = 0 THEN rows ELSE [rows EXCEPT ![i].verified = TRUE]
        /\ Continue(c, CASE account[c].op = "google" -> "session" [] account[c].op = "validate" -> "token" [] OTHER -> "idle")
        /\ UNCHANGED <<link, open, starts, lost, session, approved, crossed, worked, cutOff>>

UpdatePortalUserPassword(c) ==
    LET i == FindByEmail(account[c].email)
    IN  /\ account[c].pc = "password" /\ Finish(c)
        /\ rows' = IF i = 0 THEN rows ELSE [rows EXCEPT ![i].pw = TRUE]
        /\ UNCHANGED <<link, open, starts, lost, session, approved, crossed, worked, cutOff>>

\* authorize: judged on the row that was read before the password was compared.
Authorized(r) == r.pw /\ r.verified /\ r.status = "active"

Compare(c) ==
    /\ account[c].pc = "compare"
    /\ session' = IF Authorized(account[c].seen) THEN session \cup {account[c].row} ELSE session
    /\ Finish(c)
    /\ UNCHANGED <<rows, link, open, starts, lost, approved, crossed, worked, cutOff>>

\* jwt: after Google the user is looked up once more, by address.
GoogleSession(c) ==
    /\ account[c].pc = "session"
    /\ session' = session \cup ({FindByEmail(account[c].email)} \ {0})
    /\ Finish(c)
    /\ UNCHANGED <<rows, link, open, starts, lost, approved, crossed, worked, cutOff>>

-----------------------------------------------------------------------------
\* validatePendingMember: read, set active, verify, mail a link.
ReadMember(c) ==
    /\ account[c].pc = "member"
    /\ Continue(c, IF rows[account[c].row].status = "pending_validation" THEN "activate" ELSE "idle")
    /\ UNCHANGED <<rows, link, open, starts, lost, session, approved, crossed, worked, cutOff>>

Activate(c) ==
    /\ account[c].pc = "activate"
    /\ rows' = [rows EXCEPT ![account[c].row].status = "active"]
    /\ approved' = approved \cup {account[c].row}
    /\ Goto(c, "verify")
    /\ UNCHANGED <<link, open, starts, lost, session, crossed, worked, cutOff>>

\* The users page offers Reactivate for a suspended row and Suspend for every other one, pending ones included.
SetUserStatus(c) ==
    LET i  == account[c].row
        on == account[c].seen.status = "suspended"
    IN  /\ account[c].pc = "write"
        /\ rows' = [rows EXCEPT ![i].status = IF on THEN "active" ELSE "suspended"]
        /\ approved' = IF on THEN approved \cup {i} ELSE approved
        /\ cutOff' = IF on /\ ~rows[i].pw THEN cutOff \cup {rows[i].email} ELSE cutOff
        /\ Finish(c)
        /\ UNCHANGED <<link, open, starts, lost, session, crossed, worked>>

UpdatePlatformSettings ==
    /\ starts < MaxStarts /\ starts' = starts + 1
    /\ open' = ~open
    /\ UNCHANGED <<rows, link, account, lost, session, approved, crossed, worked, cutOff>>

-----------------------------------------------------------------------------
Ask(c, op, e, pc, i, l) ==
    account' = [account EXCEPT ![c] = [op |-> op, email |-> e, pc |-> pc, row |-> i,
                                       seen |-> IF i = 0 THEN Nothing ELSE rows[i], link |-> l]]

Start(c) ==
    /\ account[c].pc = "idle" /\ starts < MaxStarts /\ starts' = starts + 1
    /\ \/ \E e \in Emails, op \in Ops \ {"verify", "reset", "validate", "status"} :
             (op = "signup" => open) /\ Ask(c, op, e, "find", 0, Nothing)
       \/ \E l \in Links : /\ link[l].at \in {"mailed", "used", "expired"}
                           /\ Ask(c, IF link[l].purpose = "verify-email" THEN "verify" ELSE "reset", link[l].email, "consume", 0, l)
       \/ \E i \in DOMAIN rows : \/ rows[i].status = "pending_validation" /\ Ask(c, "validate", rows[i].email, "member", i, Nothing)
                                 \/ Ask(c, "status", rows[i].email, "write", i, Nothing)
    /\ UNCHANGED <<rows, link, open, lost, session, approved, crossed, worked, cutOff>>

Expire(l) ==
    /\ link[l].at \in {"stored", "mailed"}
    /\ link' = [link EXCEPT ![l].at = "expired"]
    /\ cutOff' = cutOff \cup {link[l].email}
    /\ UNCHANGED <<rows, open, account, starts, lost, session, approved, crossed, worked>>

Dies(c) ==
    /\ account[c].pc # "idle" /\ lost < MaxMishaps /\ lost' = lost + 1
    /\ cutOff' = cutOff \cup {account[c].email} /\ Finish(c)
    /\ UNCHANGED <<rows, link, open, starts, session, approved, crossed, worked>>

AccountsNext ==
    \/ \E c \in Askers :
          \/ Start(c) \/ Find(c) \/ ReadSettings(c) \/ CreateOrganization(c) \/ CreatePortalUser(c) \/ UpsertSuperuser(c)
          \/ CreateAuthToken(c) \/ SendEmail(c) \/ ConsumeAuthToken(c) \/ VerifyPortalUserEmail(c)
          \/ UpdatePortalUserPassword(c) \/ Compare(c) \/ GoogleSession(c) \/ ReadMember(c) \/ Activate(c)
          \/ SetUserStatus(c) \/ Dies(c)
    \/ \E l \in Links : Expire(l)
    \/ UpdatePlatformSettings

AccountsSpec == AccountsInit /\ [][AccountsNext]_accountVars

-----------------------------------------------------------------------------
\* Accounts, links and requests stay within their types, and an account that is signed in exists.
AccountsTypeOK ==
    /\ \A i \in DOMAIN rows : /\ rows[i].email \in Emails /\ rows[i].status \in Status
                              /\ rows[i].pw \in BOOLEAN /\ rows[i].verified \in BOOLEAN
    /\ \A l \in Links : link[l].at \in {"absent", "stored", "mailed", "used", "expired"}
    /\ \A c \in Askers : account[c].op \in Ops \cup {"none"} /\ account[c].row \in 0 .. Len(rows)
    /\ session \cup approved \subseteq DOMAIN rows /\ open \in BOOLEAN

\* findPortalUserByEmail before createPortalUser: an address has a second account, whose owner can never
\* reach it, only when two requests for the address overlapped.
OneAccountPerAddress ==
    \A i, j \in DOMAIN rows : rows[i].email = rows[j].email /\ i # j => rows[i].email \in crossed

\* consumeAuthToken: a link has its effect once, however many requests present it and however they interleave.
LinkWorksOnce == \A l \in Links : worked[l] <= 1

\* PENDING_VALIDATION: nobody is signed in to an account an administrator created before a superuser let it through;
\* passwords, links and Google are no way round it.  A Google sign-in that overlaps the creation is: it inserts a
\* second row, and jwt then finds the pending one without looking at its status.
PendingWaitsForSuperuser == \A i \in session : rows[i].by = "createAdmin" => i \in approved \/ rows[i].email \in crossed

\* validatePendingMember: an active account an administrator created that has no password has a link to set one, or
\* one is under way.  Forgotten-password requests ignore such an account, so a link that was lost or ran out is final.
AccountCanGetPassword ==
    \A i \in DOMAIN rows :
       rows[i].by = "createAdmin" /\ rows[i].status = "active" /\ ~rows[i].pw =>
          \/ rows[i].email \in cutOff \cup crossed
          \/ \E l \in Links : /\ link[l].email = rows[i].email /\ link[l].purpose = "reset-password"
                              /\ link[l].at \in {"stored", "mailed"}
          \/ \E c \in Askers : /\ account[c].email = rows[i].email
                              /\ account[c].op \in {"validate", "reset"} /\ account[c].pc # "idle"

\* Accounts, links and sessions agree: an address has one account, a link works once, nobody enters an account that
\* waits for a superuser, and an account that was let in can get a password; overlapping requests, and links that
\* were lost or ran out, are the only exceptions.
AccountsAreSafe ==
    AccountsTypeOK /\ OneAccountPerAddress /\ LinkWorksOnce /\ PendingWaitsForSuperuser /\ AccountCanGetPassword
=============================================================================
