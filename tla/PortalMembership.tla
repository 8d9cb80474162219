-------------------------- MODULE PortalMembership --------------------------
(***************************************************************************)
(* Customer portal: who belongs to which organization and tenant.  Join    *)
(* requests, invitations, default tenants, tenant moves and role changes   *)
(* are server actions over MongoDB collections without transactions: every *)
(* awaited read or write is a step of its own, two actions interleave, and *)
(* a server that dies leaves an action between two of its writes.          *)
(***************************************************************************)
EXTENDS Naturals, FiniteSets

CONSTANTS
    Users, Tenants, Orgs,
    OrgOf,            \* the organization of each tenant
    InitialUsers,     \* org, tenant and role of every account
    InitialDefaults,  \* the default tenant of each organization
    Requests, Invitations,
    OpenRequests, OpenInvitations,  \* those that are pending when we start watching
    Sessions,         \* server actions that may run at the same time
    None,
    MaxCalls, MaxLosses

ASSUME MembershipBounds == /\ OrgOf \in [Tenants -> Orgs] /\ MaxCalls \in Nat /\ MaxLosses \in Nat
                           /\ \A o \in Orgs : OrgOf[InitialDefaults[o]] = o

VARIABLES
    user,        \* users: organizationId, tenantId, role
    isDefault,   \* tenants.isDefault
    request,     \* organizationMembershipRequests
    invitation,  \* organizationInvitations
    call,        \* per session: the server action under way
    calls, losses,
    moved,       \* auxiliary: users taken from one organization to another
    disturbed,   \* auxiliary: organizations and users two actions wrote at once, or one left half written
    granted      \* auxiliary: invitations whose place was taken up

tables == <<user, isDefault, request, invitation>>
vars == <<tables, call, calls, losses, moved, disturbed, granted>>

Customer == {"CUSTOMER_ADMIN", "CUSTOMER_USER"}
Roles    == Customer \cup {"SUPERUSER", None}
Idle     == [op |-> "idle", by |-> None, on |-> None, give |-> None, org |-> None, got |-> None, pc |-> "idle", late |-> FALSE]
NoRow    == [org |-> None, user |-> None, status |-> "ABSENT"]
NoInvite == [org |-> None, tenant |-> None, user |-> None, role |-> None, status |-> "ABSENT"]

\* The collections when we start watching: members sit in a tenant of their organization, every organization has
\* its default tenant, and nobody has two pending requests or two pending invitations.
ASSUME MembershipStart ==
    /\ None \notin Orgs /\ None \notin Tenants
    /\ InitialUsers \in [Users -> [org : Orgs \cup {None}, tenant : Tenants \cup {None}, role : Roles]]
    /\ \A u \in Users : IF InitialUsers[u].org = None THEN InitialUsers[u].tenant = None
                         ELSE InitialUsers[u].tenant \in Tenants /\ OrgOf[InitialUsers[u].tenant] = InitialUsers[u].org
    /\ InitialDefaults \in [Orgs -> Tenants]
    /\ \A r \in DOMAIN OpenRequests :
        /\ OpenRequests[r] \in [org : Orgs, user : Users, status : {"PENDING"}]
        /\ \A q \in DOMAIN OpenRequests : OpenRequests[q].user = OpenRequests[r].user => q = r
    /\ \A i \in DOMAIN OpenInvitations :
        /\ OpenInvitations[i] \in [org : Orgs, tenant : Tenants, user : Users, role : Customer, status : {"PENDING"}]
        /\ OrgOf[OpenInvitations[i].tenant] = OpenInvitations[i].org
        /\ \A j \in DOMAIN OpenInvitations : OpenInvitations[j].user = OpenInvitations[i].user => j = i

MembershipInit ==
    /\ user = InitialUsers /\ isDefault = [t \in Tenants |-> InitialDefaults[OrgOf[t]] = t]
    /\ request = [r \in Requests |-> IF r \in DOMAIN OpenRequests THEN OpenRequests[r] ELSE NoRow]
    /\ invitation = [i \in Invitations |-> IF i \in DOMAIN OpenInvitations THEN OpenInvitations[i] ELSE NoInvite]
    /\ call = [s \in Sessions |-> Idle] /\ calls = 0 /\ losses = 0
    /\ moved = {} /\ disturbed = {} /\ granted = {}

-----------------------------------------------------------------------------
\* requireOnboardingUser, requireTenantContext with canManageSettings, requireSuperuserContext: every call of
\* auth() rebuilds the session from the user row; an action asks once, when it starts.
MutantOnboardingUser(u) == user[u].role # "SUPERUSER"

OnboardingUser(u) == user[u].org = None

TenantContext(u)  == user[u].role \in Customer /\ user[u].org # None
OrgAdmin(u)       == TenantContext(u) /\ user[u].role = "CUSTOMER_ADMIN"
Superuser(u)      == user[u].role = "SUPERUSER"

Known(set, rows) == {x \in set : rows[x].status # "ABSENT"}
Menu(ops, subjects, gifts) == ops \X subjects \X gifts

\* What the pages and their actions let a user start: the action, its subject and what it gives.
Offered(u) ==
    (IF OnboardingUser(u) THEN Menu({"join"}, Orgs, {None}) \cup Menu({"accept", "decline"}, {u}, {None}) ELSE {})
    \cup (IF OrgAdmin(u) \/ Superuser(u)
          THEN Menu({"approve", "reject"}, Known(Requests, request), {None})
               \cup Menu({"revoke"}, Known(Invitations, invitation), {None}) ELSE {})
    \cup (IF OrgAdmin(u)
          THEN Menu({"invite"}, Users \ {u}, Tenants \X Customer)
               \cup Menu({"setDefault"}, Tenants, {None}) \cup Menu({"reassign"}, Users \ {u}, Tenants) ELSE {})
    \cup (IF TenantContext(u) THEN Menu({"switch"}, {u}, Tenants) ELSE {})
    \cup (IF Superuser(u)
          THEN Menu({"setRole"}, Users \ {u}, Roles \ {None})
               \cup Menu({"setRole"}, {m \in Users : user[m].org # None}, Customer) ELSE {})

To(s, pc)     == call' = [call EXCEPT ![s].pc = pc]
Found(s, x)   == call' = [call EXCEPT ![s].pc = "write", ![s].got = x]
End(s)        == call' = [call EXCEPT ![s] = Idle]
Runs(s, ops, pc) == call[s].op \in ops /\ call[s].pc = pc

\* The organization an action works for: the admin's own, or the one whose page a superuser has open.
WorksFor(u, op, on) == IF Superuser(u) /\ op \in {"approve", "reject"} THEN request[on].org ELSE user[u].org

Begin(s, u) ==
    /\ call[s] = Idle /\ calls < MaxCalls
    /\ \E m \in Offered(u) :
         call' = [call EXCEPT ![s] = [op |-> m[1], by |-> u, on |-> m[2], give |-> m[3], org |-> WorksFor(u, m[1], m[2]),
                                      got |-> None, pc |-> IF m[1] = "setRole" THEN "write" ELSE "read", late |-> FALSE]]
    /\ calls' = calls + 1
    /\ UNCHANGED <<tables, losses, moved, disturbed, granted>>

-----------------------------------------------------------------------------
\* Everyone else in flight who read this subject before it was written works on what is no longer so.
Overtakes(s, u) == {x \in Sessions \ {s} : call[x] # Idle /\ (call[x].by = u \/ call[x].on = u
                        \/ (call[x].on \in Requests /\ request[call[x].on].user = u))}
EndWriting(s, u) ==
    call' = [x \in Sessions |-> IF x = s THEN Idle
                                ELSE IF x \in Overtakes(s, u) THEN [call[x] EXCEPT !.late = TRUE] ELSE call[x]]
WriteAndGoOn(s, u, pc) ==
    call' = [x \in Sessions |-> IF x = s THEN [call[x] EXCEPT !.pc = pc]
                                ELSE IF x \in Overtakes(s, u) THEN [call[x] EXCEPT !.late = TRUE] ELSE call[x]]

Assign(u, o, t, role) ==
    /\ user' = [user EXCEPT ![u] = [org |-> o, tenant |-> t, role |-> role]]
    /\ moved' = IF user[u].org \in {None, o} THEN moved ELSE moved \cup {u}

\* requestToJoinOrganization: the check for a pending request, then the insert.
MayRequest(u) == ~\E r \in Requests : request[r].user = u /\ request[r].status = "PENDING"

FindPendingRequest(s) ==
    /\ Runs(s, {"join"}, "read")
    /\ IF MayRequest(call[s].by) THEN To(s, "write") ELSE End(s)
    /\ UNCHANGED <<tables, calls, losses, moved, disturbed, granted>>

CreateMembershipRequest(s) ==
    /\ Runs(s, {"join"}, "write")
    /\ \E r \in Requests :
        /\ request[r].status = "ABSENT"
        /\ request' = [request EXCEPT ![r] = [org |-> call[s].on, user |-> call[s].by, status |-> "PENDING"]]
    /\ disturbed' = disturbed \cup (IF MayRequest(call[s].by) THEN {} ELSE {call[s].by})
    /\ End(s)
    /\ UNCHANGED <<user, isDefault, invitation, calls, losses, moved, granted>>

\* inviteMember: the invitee has no organization, the tenant is the admin's, no invitation is pending.
Invitable(o, u, t) == user[u].org = None /\ OrgOf[t] = o
MayInvite(u) == ~\E i \in Invitations : invitation[i].user = u /\ invitation[i].status = "PENDING"

FindPendingInvitation(s) ==
    /\ Runs(s, {"invite"}, "read")
    /\ LET c == call[s] IN
       IF Invitable(c.org, c.on, c.give[1]) /\ MayInvite(c.on) THEN To(s, "write") ELSE End(s)
    /\ UNCHANGED <<tables, calls, losses, moved, disturbed, granted>>

CreateInvitation(s) ==
    /\ Runs(s, {"invite"}, "write")
    /\ LET c == call[s] IN
       /\ \E i \in Invitations :
            /\ invitation[i].status = "ABSENT"
            /\ invitation' = [invitation EXCEPT ![i] =
                 [org |-> c.org, tenant |-> c.give[1], user |-> c.on, role |-> c.give[2], status |-> "PENDING"]]
       /\ disturbed' = disturbed \cup (IF MayInvite(c.on) THEN {} ELSE {c.on})
    /\ End(s)
    /\ UNCHANGED <<user, isDefault, request, calls, losses, moved, granted>>

\* The invitation two answers are being written to at once.
AlsoHeld(s, i) == {j \in {i} : \E x \in Sessions \ {s} : call[x].got = j}

\* acceptInvitation and declineInvitation: the pending invitation of the caller's own address.
FindOwnInvitation(s) ==
    /\ Runs(s, {"accept", "decline"}, "read")
    /\ \/ \E i \in Invitations : /\ invitation[i].user = call[s].by /\ invitation[i].status = "PENDING"
                                 /\ Found(s, i) /\ disturbed' = disturbed \cup AlsoHeld(s, i)
       \/ /\ MayInvite(call[s].by) /\ End(s) /\ UNCHANGED disturbed
    /\ UNCHANGED <<tables, calls, losses, moved, granted>>

AcceptAssign(s) ==
    /\ Runs(s, {"accept"}, "write")
    /\ LET i == invitation[call[s].got] IN Assign(call[s].by, i.org, i.tenant, i.role)
    /\ granted' = granted \cup {call[s].got}
    /\ WriteAndGoOn(s, call[s].by, "mark")
    /\ UNCHANGED <<isDefault, request, invitation, calls, losses, disturbed>>

Resolution(op) == CASE op = "accept" -> "ACCEPTED" [] op = "decline" -> "DECLINED" [] op = "revoke" -> "REVOKED"

\* No status condition: the last answer to an invitation is the one that stays.
Resolve(s, i) ==
    /\ invitation' = [invitation EXCEPT ![i].status = Resolution(call[s].op)]
    /\ End(s)
    /\ UNCHANGED <<user, isDefault, request, calls, losses, moved, disturbed, granted>>

AcceptMark(s) == Runs(s, {"accept"}, "mark") /\ Resolve(s, call[s].got)

Decline(s) == Runs(s, {"decline"}, "write") /\ Resolve(s, call[s].got)

MutantRevocable(s, i) == invitation[i].org = call[s].org

Revocable(s, i) == invitation[i].org = call[s].org /\ invitation[i].status = "PENDING"

\* The portal lists the pending invitations again; the console takes the one its page showed.
FindRevocable(s) ==
    /\ Runs(s, {"revoke"}, "read")
    /\ LET i == call[s].on IN
       \/ /\ (Revocable(s, i) \/ Superuser(call[s].by)) /\ Found(s, i)
          /\ disturbed' = disturbed \cup AlsoHeld(s, i)
                \cup {j \in {i} : Superuser(call[s].by) /\ invitation[i].status # "PENDING"}
       \/ /\ ~Revocable(s, i) /\ ~Superuser(call[s].by) /\ End(s) /\ UNCHANGED disturbed
    /\ UNCHANGED <<tables, calls, losses, moved, granted>>

Revoke(s) == Runs(s, {"revoke"}, "write") /\ Resolve(s, call[s].got)

-----------------------------------------------------------------------------
\* approveMembershipRequest: the pending list of one organization, its default tenant, two writes.
Listed(s) == request[call[s].on].org = call[s].org /\ request[call[s].on].status = "PENDING"

FindRequest(s) ==
    /\ Runs(s, {"approve", "reject"}, "read")
    /\ IF Listed(s) \/ (call[s].op = "reject" /\ Superuser(call[s].by))
       THEN To(s, IF call[s].op = "approve" THEN "default" ELSE "mark") ELSE End(s)
    /\ UNCHANGED <<tables, calls, losses, moved, disturbed, granted>>

FindDefaultTenant(s) ==
    /\ Runs(s, {"approve"}, "default")
    /\ \/ \E t \in Tenants : OrgOf[t] = call[s].org /\ isDefault[t] /\ Found(s, t)
       \/ /\ \A t \in Tenants : OrgOf[t] = call[s].org => ~isDefault[t]
          /\ End(s)
    /\ UNCHANGED <<tables, calls, losses, moved, disturbed, granted>>

ApproveAssign(s) ==
    /\ Runs(s, {"approve"}, "write")
    /\ LET u == request[call[s].on].user IN
       /\ Assign(u, call[s].org, call[s].got, "CUSTOMER_USER")
       /\ WriteAndGoOn(s, u, "mark")
    /\ UNCHANGED <<isDefault, request, invitation, calls, losses, disturbed, granted>>

AnswerRequest(s) ==
    /\ Runs(s, {"approve", "reject"}, "mark")
    /\ request' = [request EXCEPT ![call[s].on].status = IF call[s].op = "approve" THEN "APPROVED" ELSE "REJECTED"]
    /\ End(s)
    /\ UNCHANGED <<user, isDefault, invitation, calls, losses, moved, disturbed, granted>>

-----------------------------------------------------------------------------
\* setDefaultTenant: one statement takes the flag from every tenant, the next gives it to one.
FindTenant(s) ==
    /\ Runs(s, {"setDefault"}, "read")
    /\ IF OrgOf[call[s].on] = call[s].org THEN To(s, "write") ELSE End(s)
    /\ UNCHANGED <<tables, calls, losses, moved, disturbed, granted>>

ClearDefault(o) == [t \in Tenants |-> isDefault[t] /\ OrgOf[t] # o]

ClearDefaults(s) ==
    /\ Runs(s, {"setDefault"}, "write")
    /\ isDefault' = ClearDefault(call[s].org)
    /\ disturbed' = disturbed \cup
         {o \in {call[s].org} : \E x \in Sessions \ {s} : Runs(x, {"setDefault"}, "mark") /\ call[x].org = o}
    /\ To(s, "mark")
    /\ UNCHANGED <<user, request, invitation, calls, losses, moved, granted>>

GiveDefault(s) ==
    /\ Runs(s, {"setDefault"}, "mark")
    /\ isDefault' = [isDefault EXCEPT ![call[s].on] = TRUE]
    /\ End(s)
    /\ UNCHANGED <<user, request, invitation, calls, losses, moved, disturbed, granted>>

\* reassignMemberTenant and switchMyTenant: the lists are read first, updateUserTenant asks nothing.
Movable(s) == /\ user[call[s].on].org = call[s].org /\ OrgOf[call[s].give] = call[s].org
              /\ user[call[s].on].tenant # call[s].give

FindMember(s) ==
    /\ Runs(s, {"reassign", "switch"}, "read")
    /\ IF Movable(s) THEN To(s, "write") ELSE End(s)
    /\ UNCHANGED <<tables, calls, losses, moved, disturbed, granted>>

UpdateUserTenant(s) ==
    /\ Runs(s, {"reassign", "switch"}, "write")
    /\ user' = [user EXCEPT ![call[s].on].tenant = call[s].give]
    /\ EndWriting(s, call[s].on)
    /\ UNCHANGED <<isDefault, request, invitation, calls, losses, moved, disturbed, granted>>

\* setPortalUserRole, from /admin/users and from the organization page.
SetPortalUserRole(s) ==
    /\ Runs(s, {"setRole"}, "write")
    /\ user' = [user EXCEPT ![call[s].on].role = call[s].give]
    /\ EndWriting(s, call[s].on)
    /\ UNCHANGED <<isDefault, request, invitation, calls, losses, moved, disturbed, granted>>

\* The process dies, or a statement fails, between two steps.
Lose(s) ==
    /\ call[s].pc # "idle" /\ losses < MaxLosses
    /\ losses' = losses + 1 /\ End(s)
    /\ disturbed' = disturbed \cup (IF call[s].pc # "mark" THEN {}
                                    ELSE IF call[s].op = "setDefault" THEN {call[s].org}
                                    ELSE IF call[s].op = "accept" THEN {call[s].got} ELSE {})
    /\ UNCHANGED <<tables, calls, moved, granted>>

MembershipStep(s) ==
    \/ FindPendingRequest(s) \/ CreateMembershipRequest(s)
    \/ FindPendingInvitation(s) \/ CreateInvitation(s) \/ FindOwnInvitation(s)
    \/ AcceptAssign(s) \/ AcceptMark(s) \/ Decline(s) \/ FindRevocable(s) \/ Revoke(s)
    \/ FindRequest(s) \/ FindDefaultTenant(s) \/ ApproveAssign(s) \/ AnswerRequest(s)
    \/ FindTenant(s) \/ ClearDefaults(s) \/ GiveDefault(s) \/ FindMember(s) \/ UpdateUserTenant(s)
    \/ SetPortalUserRole(s) \/ Lose(s)

MembershipNext ==
    \E s \in Sessions :
        \/ \E u \in Users : Begin(s, u)
        \/ MembershipStep(s)

MembershipSpec == MembershipInit /\ [][MembershipNext]_vars

-----------------------------------------------------------------------------
\* Every row and every action under way holds the values the code gives it.
MembershipTypeOK ==
    /\ user \in [Users -> [org : Orgs \cup {None}, tenant : Tenants \cup {None}, role : Roles]]
    /\ isDefault \in [Tenants -> BOOLEAN]
    /\ \A r \in Requests : request[r].status \in {"ABSENT", "PENDING", "APPROVED", "REJECTED"}
    /\ \A i \in Invitations : invitation[i].status \in {"ABSENT", "PENDING", "ACCEPTED", "DECLINED", "REVOKED"}
    /\ \A s \in Sessions : /\ call[s].pc \in {"idle", "read", "default", "write", "mark"}
                           /\ Runs(s, {"approve"}, "write") => call[s].got \in Tenants
                           /\ call[s].pc = "mark" => call[s].op \in {"accept", "approve", "reject", "setDefault"}

\* A member's tenant is one of the member's organization, whatever moves and answers overlap, as long as
\* the member was never taken to another organization (user-directory.ts: callers verify the tenant).
TenantMatchesOrganization ==
    \A u \in Users \ moved : IF user[u].org = None THEN user[u].tenant = None
                             ELSE user[u].tenant \in Tenants /\ OrgOf[user[u].tenant] = user[u].org

\* An organization has exactly one default tenant outside setDefaultTenant, unless two of them cleared the
\* flag before either gave it, or one died in between.
OneDefaultTenant ==
    \A o \in Orgs \ disturbed :
        (~\E s \in Sessions : Runs(s, {"setDefault"}, "mark") /\ call[s].org = o)
            => Cardinality({t \in Tenants : OrgOf[t] = o /\ isDefault[t]}) = 1

\* A user has one pending join request and one pending invitation at most, unless two checks preceded two inserts.
OnePending ==
    \A u \in Users \ disturbed :
        /\ Cardinality({r \in Requests : request[r].user = u /\ request[r].status = "PENDING"}) <= 1
        /\ Cardinality({i \in Invitations : invitation[i].user = u /\ invitation[i].status = "PENDING"}) <= 1

\* An invitation reads ACCEPTED exactly when its place was taken up, once no acceptance is between its two
\* writes, unless two answers overlapped or an acceptance died between them.
InvitationTellsTheTruth ==
    \A i \in Invitations \ disturbed :
        (~\E s \in Sessions : Runs(s, {"accept"}, "mark") /\ call[s].got = i)
            => (invitation[i].status = "ACCEPTED" <=> i \in granted)

\* A member is taken to another organization only by the approval of a request made earlier, or by an
\* acceptance that had passed the onboarding guard before its user became a member.
MovesOnlyByLateAnswers ==
    [][\A u \in moved' \ moved : \E s \in Sessions :
          \/ Runs(s, {"approve"}, "write") /\ request[call[s].on].user = u
          \/ Runs(s, {"accept"}, "write") /\ call[s].by = u /\ call[s].late]_vars

\* docs/user-org-tenant-model.md: for SUPERUSER it is permanent, a superuser never joins an organization.
SuperuserNeverJoins ==
    [][\A u \in Users : user[u].role = "SUPERUSER" /\ user[u].org = None => user'[u].org = None]_vars

\* user-directory.ts, tenant-directory.ts: a member's tenant is one of its organization, an organization has one
\* default tenant, a user one pending request and one pending invitation, and an invitation reads ACCEPTED exactly
\* when its place was taken up; what overlapped or died half-way is exempt, by name.
MembershipIsConsistent ==
    MembershipTypeOK /\ TenantMatchesOrganization /\ OneDefaultTenant /\ OnePending /\ InvitationTellsTheTruth
=============================================================================
