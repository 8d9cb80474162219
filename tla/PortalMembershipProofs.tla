------------------------ MODULE PortalMembershipProofs ------------------------
(***************************************************************************)
(* What the portal's server actions guarantee of members, tenants, join    *)
(* requests and invitations for any number of users, organizations and     *)
(* actions that run at the same time, and wherever one of them dies.  The  *)
(* collections are written without transactions, so the invariant says     *)
(* what each action between two of its steps still owes.                   *)
(***************************************************************************)
EXTENDS PortalMembership, FiniteSetTheorems, TLAPS

Answers   == {"accept", "decline", "revoke"}
Ops       == Answers \cup {"idle", "join", "invite", "approve", "reject", "setDefault", "reassign", "switch", "setRole"}
Points    == {"idle", "read", "default", "write", "mark"}
UserRow   == [org : Orgs \cup {None}, tenant : Tenants \cup {None}, role : Roles]
RequestRow == [org : Orgs \cup {None}, user : Users \cup {None},
               status : {"ABSENT", "PENDING", "APPROVED", "REJECTED"}]
InviteRow == [org : Orgs \cup {None}, tenant : Tenants \cup {None}, user : Users \cup {None},
              role : Customer \cup {None}, status : {"ABSENT", "PENDING", "ACCEPTED", "DECLINED", "REVOKED"}]
Subjects  == Users \cup Orgs \cup Requests \cup Invitations \cup Tenants \cup {None}
Gifts     == Tenants \cup Roles \cup (Tenants \X Customer)
CallType  == [op : Ops, by : Users \cup {None}, on : Subjects, give : Gifts, org : Orgs \cup {None},
              got : Tenants \cup Invitations \cup {None}, pc : Points, late : BOOLEAN]

RowsOK ==
    /\ user \in [Users -> UserRow] /\ isDefault \in [Tenants -> BOOLEAN]
    /\ request \in [Requests -> RequestRow] /\ invitation \in [Invitations -> InviteRow]
    /\ \A r \in Requests : request[r].status # "ABSENT" => request[r].org \in Orgs /\ request[r].user \in Users
    /\ \A i \in Invitations : invitation[i].status # "ABSENT" =>
          /\ invitation[i].org \in Orgs /\ invitation[i].tenant \in Tenants /\ invitation[i].role \in Customer
          /\ invitation[i].user \in Users /\ OrgOf[invitation[i].tenant] = invitation[i].org

\* Where an action can be, and what it has read and checked by then.
Shape(c) ==
    /\ c.op = "idle" <=> c.pc = "idle"
    /\ c.op = "join" => c.by \in Users /\ c.on \in Orgs /\ c.pc \in {"read", "write"}
    /\ c.op = "invite" => /\ c.on \in Users /\ c.give \in Tenants \X Customer /\ c.org \in Orgs
                          /\ c.pc \in {"read", "write"}
                          /\ c.pc = "write" => OrgOf[c.give[1]] = c.org
    /\ c.op \in {"accept", "decline"} => c.by \in Users /\ c.pc \in {"read", "write", "mark"}
    /\ c.op = "revoke" => c.on \in Invitations /\ c.pc \in {"read", "write"}
    /\ c.op = "decline" => c.pc # "mark"
    /\ c.op \in Answers /\ c.pc \in {"write", "mark"} => c.got \in Invitations
    /\ c.op \in {"approve", "reject"} => c.on \in Requests
    /\ c.op = "reject" => c.pc \in {"read", "mark"}
    /\ c.op = "approve" => /\ c.org \in Orgs /\ c.pc \in {"read", "default", "write", "mark"}
                           /\ c.pc = "write" => c.got \in Tenants /\ OrgOf[c.got] = c.org
    /\ c.op = "setDefault" => /\ c.on \in Tenants /\ c.org \in Orgs /\ c.pc \in {"read", "write", "mark"}
                              /\ c.pc # "read" => OrgOf[c.on] = c.org
    /\ c.op \in {"reassign", "switch"} => /\ c.on \in Users /\ c.give \in Tenants /\ c.org \in Orgs
                                          /\ c.pc \in {"read", "write"}
                                          /\ c.pc = "write" => OrgOf[c.give] = c.org
    /\ c.op = "setRole" => c.on \in Users /\ c.give \in Roles /\ c.pc = "write"

CallsOK == call \in [Sessions -> CallType] /\ \A s \in Sessions : Shape(call[s])

\* What an action has read of the rows still holds, or its subject has been moved or overtaken.
Refers(c) ==
    /\ c.op \in {"approve", "reject"} => request[c.on].status # "ABSENT"
    /\ c.op \in Answers /\ c.pc \in {"write", "mark"} => invitation[c.got].status # "ABSENT"
    /\ c.op = "revoke" => invitation[c.on].status # "ABSENT"
    /\ c.op \in {"reassign", "switch"} /\ c.pc = "write" => c.on \in moved \/ user[c.on].org = c.org
    /\ c.op = "accept" /\ c.pc \in {"read", "write"} /\ ~c.late => user[c.by].org = None
RefersInv == \A s \in Sessions : Refers(call[s])

\* setDefaultTenant between its two statements: it alone owes the organization its default tenant.
Gives(c)    == c.op = "setDefault" /\ c.pc = "mark"
Givers(o)   == {s \in Sessions : Gives(call[s]) /\ call[s].org = o}
Defaults(o) == {t \in Tenants : OrgOf[t] = o /\ isDefault[t]}
DefaultInv ==
    \A o \in Orgs \ disturbed :
        /\ \A s, x \in Givers(o) : s = x
        /\ Givers(o) # {} => Defaults(o) = {}
        /\ Givers(o) = {} => \E t \in Tenants : Defaults(o) = {t}

PendingRequests(u)    == {r \in Requests : request[r].user = u /\ request[r].status = "PENDING"}
PendingInvitations(u) == {i \in Invitations : invitation[i].user = u /\ invitation[i].status = "PENDING"}
PendingInv ==
    \A u \in Users \ disturbed : /\ \A r, q \in PendingRequests(u) : r = q
                                 /\ \A i, j \in PendingInvitations(u) : i = j

\* One action at most is about to answer an invitation, and whether its place is taken up is known.
Grips(c)   == c.op \in Answers /\ c.pc \in {"write", "mark"}
Holders(i) == {s \in Sessions : Grips(call[s]) /\ call[s].got = i}
AnswerInv ==
    \A i \in Invitations \ disturbed :
        /\ \A s, x \in Holders(i) : s = x
        /\ \A s \in Holders(i) : invitation[i].status = "PENDING" /\ (i \in granted <=> call[s].pc = "mark")
        /\ Holders(i) = {} => (invitation[i].status = "ACCEPTED" <=> i \in granted)

MembershipInv == RowsOK /\ CallsOK /\ RefersInv /\ TenantMatchesOrganization /\ DefaultInv /\ PendingInv /\ AnswerInv

-----------------------------------------------------------------------------
(* A step of one action, and what it leaves alone.                         *)

LEMMA IdleCall == Idle \in CallType /\ Shape(Idle) /\ Idle.op = "idle" /\ Idle.pc = "idle"
BY DEF Idle, CallType, Ops, Points, Subjects, Gifts, Roles, Shape, Answers

\* The same action at the same point; at most it has been overtaken.
Alike(c, d) ==
    /\ d.op = c.op /\ d.by = c.by /\ d.on = c.on /\ d.give = c.give /\ d.org = c.org /\ d.got = c.got /\ d.pc = c.pc
    /\ c.late => d.late

\* Session s goes on with c.
Goes(s, c) ==
    /\ call' \in [Sessions -> CallType] /\ call'[s] = c
    /\ \A x \in Sessions \ {s} : Alike(call[x], call'[x])

LEMMA Turns ==
    ASSUME CallsOK, NEW s \in Sessions, NEW c \in CallType, call' = [call EXCEPT ![s] = c]
    PROVE  Goes(s, c)
<1>1. call \in [Sessions -> CallType]
  BY DEF CallsOK
<1>2. call' \in [Sessions -> CallType] /\ call'[s] = c /\ \A x \in Sessions \ {s} : call'[x] = call[x]
  BY <1>1
<1> QED
  BY <1>2 DEF Goes, Alike

LEMMA Writings ==
    ASSUME CallsOK, NEW s \in Sessions, NEW u, NEW c \in CallType,
           call' = [x \in Sessions |-> IF x = s THEN c
                                       ELSE IF x \in Overtakes(s, u) THEN [call[x] EXCEPT !.late = TRUE] ELSE call[x]]
    PROVE  Goes(s, c) /\ \A x \in Sessions \ {s} : call[x] # Idle /\ call[x].by = u => call'[x].late
<1>1. call \in [Sessions -> CallType]
  BY DEF CallsOK
<1>2. ASSUME NEW x \in Sessions \ {s}
      PROVE  /\ call'[x] \in CallType /\ Alike(call[x], call'[x])
             /\ call[x] # Idle /\ call[x].by = u => call'[x].late
  <2>1. CASE x \in Overtakes(s, u)
    <3> PICK d : d = [call[x] EXCEPT !.late = TRUE]
      OBVIOUS
    <3>1. call'[x] = d
      BY <2>1
    <3>2. call[x] \in CallType
      BY <1>1
    <3>3. d \in CallType /\ Alike(call[x], d) /\ d.late
      BY <3>2 DEF CallType, Alike
    <3> QED
      BY <3>1, <3>3
  <2>2. CASE x \notin Overtakes(s, u)
    <3>1. call'[x] = call[x] /\ call[x] \in CallType
      BY <1>1, <2>2
    <3>2. ~(call[x] # Idle /\ call[x].by = u)
      BY <2>2 DEF Overtakes
    <3> QED
      BY <3>1, <3>2 DEF Alike
  <2> QED
    BY <2>1, <2>2
<1>3. call'[s] = c
  OBVIOUS
<1>4. call' = [x \in Sessions |-> call'[x]]
  OBVIOUS
<1>5. call' \in [Sessions -> CallType]
  BY <1>2, <1>3, <1>4
<1> QED
  BY <1>2, <1>3, <1>5 DEF Goes

\* An action that only moves on, or has found x.
LEMMA ToGoes ==
    ASSUME CallsOK, NEW s \in Sessions, NEW p \in Points, To(s, p)
    PROVE  \E c \in CallType : /\ Goes(s, c) /\ c.pc = p /\ c.op = call[s].op /\ c.by = call[s].by /\ c.on = call[s].on
                               /\ c.give = call[s].give /\ c.org = call[s].org /\ c.got = call[s].got
                               /\ c.late = call[s].late
<1> PICK c : c = [call[s] EXCEPT !.pc = p]
  OBVIOUS
<1>1. call[s] \in CallType
  BY DEF CallsOK
<1>2. /\ c \in CallType /\ c.pc = p /\ c.op = call[s].op /\ c.by = call[s].by /\ c.on = call[s].on
      /\ c.give = call[s].give /\ c.org = call[s].org /\ c.got = call[s].got /\ c.late = call[s].late
  BY <1>1 DEF CallType
<1>3. call' = [call EXCEPT ![s] = c]
  BY DEF To
<1> QED
  BY <1>2, <1>3, Turns

LEMMA FoundGoes ==
    ASSUME CallsOK, NEW s \in Sessions, NEW g \in Tenants \cup Invitations, Found(s, g)
    PROVE  \E c \in CallType : /\ Goes(s, c) /\ c.pc = "write" /\ c.op = call[s].op /\ c.by = call[s].by
                               /\ c.on = call[s].on /\ c.give = call[s].give /\ c.org = call[s].org /\ c.got = g
                               /\ c.late = call[s].late
<1> PICK c : c = [call[s] EXCEPT !.pc = "write", !.got = g]
  OBVIOUS
<1>1. call[s] \in CallType
  BY DEF CallsOK
<1>2. /\ c \in CallType /\ c.pc = "write" /\ c.op = call[s].op /\ c.by = call[s].by /\ c.on = call[s].on
      /\ c.give = call[s].give /\ c.org = call[s].org /\ c.got = g /\ c.late = call[s].late
  BY <1>1 DEF CallType, Points
<1>3. call' = [call EXCEPT ![s] = c]
  BY DEF Found
<1> QED
  BY <1>2, <1>3, Turns

LEMMA EndGoes ==
    ASSUME CallsOK, NEW s \in Sessions, End(s)
    PROVE  Goes(s, Idle)
BY IdleCall, Turns DEF End

\* What holds of one action holds of every one that did not take the step.
LEMMA CallsKept ==
    ASSUME CallsOK, NEW s \in Sessions, NEW c, Goes(s, c), Shape(c)
    PROVE  CallsOK'
<1>1. ASSUME NEW x \in Sessions PROVE Shape(call'[x])
  <2>1. CASE x = s
    BY <2>1 DEF Goes
  <2>2. CASE x # s
    <3>1. Shape(call[x]) /\ Alike(call[x], call'[x])
      BY <2>2 DEF CallsOK, Goes
    <3> QED
      BY <3>1 DEF Shape, Alike
  <2> QED
    BY <2>1, <2>2
<1> QED
  BY <1>1 DEF CallsOK, Goes, Shape, CallType, Answers, Customer, Roles, Ops, Points, Subjects, Gifts

LEMMA RefersKept ==
    ASSUME CallsOK, RefersInv, NEW s \in Sessions, NEW c, Goes(s, c), Refers(c)', moved \subseteq moved',
           \A r \in Requests : request[r].status # "ABSENT" => request'[r].status # "ABSENT",
           \A i \in Invitations : invitation[i].status # "ABSENT" => invitation'[i].status # "ABSENT",
           \A u \in Users : user'[u].org = user[u].org
    PROVE  RefersInv'
<1>1. ASSUME NEW x \in Sessions PROVE Refers(call[x])'
  <2>1. CASE x = s
    <3>1. call'[x] = c
      BY <2>1 DEF Goes
    <3> QED
      BY <3>1 DEF Refers
  <2>2. CASE x # s
    <3> PICK d : d = call'[x]
      OBVIOUS
    <3>1. Refers(call[x]) /\ Shape(call[x]) /\ Alike(call[x], d)
      BY <2>2 DEF CallsOK, Goes, RefersInv
    <3>2. d.op \in {"approve", "reject"} => request'[d.on].status # "ABSENT"
      BY <3>1 DEF Refers, Shape, Alike
    <3>3. d.op \in Answers /\ d.pc \in {"write", "mark"} => invitation'[d.got].status # "ABSENT"
      BY <3>1 DEF Refers, Shape, Alike
    <3>4. d.op = "revoke" => invitation'[d.on].status # "ABSENT"
      BY <3>1 DEF Refers, Shape, Alike
    <3>5. d.op \in {"reassign", "switch"} /\ d.pc = "write" => d.on \in moved' \/ user'[d.on].org = d.org
      BY <3>1 DEF Refers, Shape, Alike
    <3>6. d.op = "accept" /\ d.pc \in {"read", "write"} /\ ~d.late => user'[d.by].org = None
      BY <3>1 DEF Refers, Shape, Alike
    <3> QED
      BY <3>2, <3>3, <3>4, <3>5, <3>6 DEF Refers
  <2> QED
    BY <2>1, <2>2
<1> QED
  BY <1>1 DEF RefersInv

LEMMA DefaultsKept ==
    ASSUME DefaultInv, NEW s \in Sessions, NEW c, Goes(s, c), isDefault' = isDefault, disturbed \subseteq disturbed',
           ~Gives(c), ~Gives(call[s])
    PROVE  DefaultInv'
<1>1. \A x \in Sessions : (Gives(call[x]) <=> Gives(call'[x])) /\ (Gives(call[x]) => call'[x].org = call[x].org)
  BY DEF Goes, Gives, Alike
<1>2. ASSUME NEW o PROVE Givers(o)' = Givers(o) /\ Defaults(o)' = Defaults(o)
  BY <1>1 DEF Givers, Defaults, Gives
<1> QED
  BY <1>2 DEF DefaultInv

LEMMA AnswersKept ==
    ASSUME AnswerInv, NEW s \in Sessions, NEW c, Goes(s, c), invitation' = invitation, granted' = granted,
           disturbed \subseteq disturbed', ~Grips(c), ~Grips(call[s])
    PROVE  AnswerInv'
<1>1. \A x \in Sessions : /\ Grips(call[x]) <=> Grips(call'[x])
                          /\ Grips(call[x]) => call'[x].got = call[x].got /\ call'[x].pc = call[x].pc
  BY DEF Goes, Grips, Alike
<1>2. ASSUME NEW i PROVE /\ Holders(i)' = Holders(i)
                         /\ \A x \in Holders(i) : call'[x].pc = call[x].pc
  BY <1>1 DEF Holders, Grips
<1> QED
  BY <1>2 DEF AnswerInv

LEMMA PendingKept ==
    ASSUME PendingInv, request' = request, invitation' = invitation, disturbed \subseteq disturbed'
    PROVE  PendingInv'
BY DEF PendingInv, PendingRequests, PendingInvitations

\* An action that only reads.
LEMMA ReadKeeps ==
    ASSUME MembershipInv, NEW s \in Sessions, NEW c, Goes(s, c), Shape(c), Refers(c),
           UNCHANGED <<tables, moved, granted>>, disturbed \subseteq disturbed',
           ~Gives(c), ~Gives(call[s]), ~Grips(c), ~Grips(call[s])
    PROVE  MembershipInv'
<1> USE DEF tables
<1>1. RowsOK'
  BY DEF MembershipInv, RowsOK, UserRow, RequestRow, InviteRow, Customer, Roles
<1>2. CallsOK'
  BY CallsKept DEF MembershipInv
<1>3. Refers(c)'
  BY DEF Refers
<1>4. RefersInv'
  BY <1>3, RefersKept DEF MembershipInv
<1>5. TenantMatchesOrganization'
  BY DEF MembershipInv, TenantMatchesOrganization
<1>6. DefaultInv' /\ AnswerInv' /\ PendingInv'
  BY DefaultsKept, AnswersKept, PendingKept DEF MembershipInv
<1> QED
  BY <1>1, <1>2, <1>4, <1>5, <1>6 DEF MembershipInv

-----------------------------------------------------------------------------
(* Actions that begin and look.                                            *)

LEMMA OfferedShape ==
    ASSUME RowsOK, NEW u \in Users, NEW m \in Offered(u)
    PROVE  /\ m[1] \in Ops \ {"idle"} /\ m[2] \in Subjects /\ m[3] \in Gifts
           /\ m[1] = "join" => m[2] \in Orgs
           /\ m[1] = "accept" => user[u].org = None
           /\ m[1] = "invite" => m[2] \in Users /\ m[3] \in Tenants \X Customer
           /\ m[1] = "revoke" => m[2] \in Known(Invitations, invitation)
           /\ m[1] \in {"approve", "reject"} => m[2] \in Known(Requests, request) /\ (user[u].org \in Orgs \/ Superuser(u))
           /\ m[1] \in {"setDefault", "invite", "reassign", "switch"} => user[u].org \in Orgs
           /\ m[1] = "setDefault" => m[2] \in Tenants
           /\ m[1] \in {"reassign", "switch"} => m[2] \in Users /\ m[3] \in Tenants
           /\ m[1] = "setRole" => m[2] \in Users /\ m[3] \in Roles
<1>1. TenantContext(u) => user[u].org \in Orgs
  BY DEF TenantContext, RowsOK, UserRow
<1>2. CASE OnboardingUser(u) /\ m \in Menu({"join"}, Orgs, {None}) \cup Menu({"accept", "decline"}, {u}, {None})
  BY <1>2 DEF Menu, Ops, Answers, Subjects, Gifts, Roles, OnboardingUser
<1>3. CASE /\ OrgAdmin(u) \/ Superuser(u)
           /\ m \in Menu({"approve", "reject"}, Known(Requests, request), {None})
                \cup Menu({"revoke"}, Known(Invitations, invitation), {None})
  BY <1>1, <1>3 DEF Menu, Ops, Answers, Subjects, Gifts, Roles, OrgAdmin, Known
<1>4. CASE /\ OrgAdmin(u)
           /\ m \in Menu({"invite"}, Users \ {u}, Tenants \X Customer)
                \cup Menu({"setDefault"}, Tenants, {None}) \cup Menu({"reassign"}, Users \ {u}, Tenants)
  BY <1>1, <1>4 DEF Menu, Ops, Subjects, Gifts, Roles, OrgAdmin
<1>5. CASE TenantContext(u) /\ m \in Menu({"switch"}, {u}, Tenants)
  BY <1>1, <1>5 DEF Menu, Ops, Subjects, Gifts
<1>6. CASE /\ Superuser(u)
           /\ m \in Menu({"setRole"}, Users \ {u}, Roles \ {None})
                \cup Menu({"setRole"}, {x \in Users : user[x].org # None}, Customer)
  BY <1>6 DEF Menu, Ops, Subjects, Gifts, Roles
<1> QED
  BY <1>2, <1>3, <1>4, <1>5, <1>6, Zenon DEF Offered

LEMMA BeginKeeps ==
    ASSUME MembershipInv, NEW s \in Sessions, NEW u \in Users, Begin(s, u)
    PROVE  MembershipInv'
<1>1. PICK m \in Offered(u) :
         call' = [call EXCEPT ![s] = [op |-> m[1], by |-> u, on |-> m[2], give |-> m[3], org |-> WorksFor(u, m[1], m[2]),
                                      got |-> None, pc |-> IF m[1] = "setRole" THEN "write" ELSE "read", late |-> FALSE]]
  BY DEF Begin
<1> PICK o : o = WorksFor(u, m[1], m[2])
  OBVIOUS
<1> PICK p : p = IF m[1] = "setRole" THEN "write" ELSE "read"
  OBVIOUS
<1> PICK c : c = [op |-> m[1], by |-> u, on |-> m[2], give |-> m[3], org |-> o, got |-> None, pc |-> p, late |-> FALSE]
  OBVIOUS
<1>2. UNCHANGED <<tables, moved, granted, disturbed>> /\ call[s] = Idle /\ call' = [call EXCEPT ![s] = c]
  BY <1>1 DEF Begin
<1>3. /\ m[1] \in Ops \ {"idle"} /\ m[2] \in Subjects /\ m[3] \in Gifts
      /\ m[1] = "join" => m[2] \in Orgs
      /\ m[1] = "accept" => user[u].org = None
      /\ m[1] = "invite" => m[2] \in Users /\ m[3] \in Tenants \X Customer
      /\ m[1] = "revoke" => m[2] \in Known(Invitations, invitation)
      /\ m[1] \in {"approve", "reject"} => m[2] \in Known(Requests, request) /\ (user[u].org \in Orgs \/ Superuser(u))
      /\ m[1] \in {"setDefault", "invite", "reassign", "switch"} => user[u].org \in Orgs
      /\ m[1] = "setDefault" => m[2] \in Tenants
      /\ m[1] \in {"reassign", "switch"} => m[2] \in Users /\ m[3] \in Tenants
      /\ m[1] = "setRole" => m[2] \in Users /\ m[3] \in Roles
  BY OfferedShape DEF MembershipInv
<1>4. /\ m[1] \in {"setDefault", "invite", "reassign", "switch"} => o \in Orgs
      /\ m[1] = "approve" => o \in Orgs
      /\ o \in Orgs \cup {None}
  <2>1. user[u].org \in Orgs \cup {None}
    BY DEF MembershipInv, RowsOK, UserRow
  <2>2. CASE Superuser(u) /\ m[1] \in {"approve", "reject"}
    <3>1. m[2] \in Requests /\ request[m[2]].status # "ABSENT" /\ o = request[m[2]].org
      BY <1>3, <2>2 DEF Known, WorksFor
    <3> QED
      BY <2>2, <3>1 DEF MembershipInv, RowsOK
  <2>3. CASE ~(Superuser(u) /\ m[1] \in {"approve", "reject"})
    <3>1. o = user[u].org
      BY <2>3 DEF WorksFor
    <3> QED
      BY <1>3, <2>1, <2>3, <3>1
  <2> QED
    BY <2>2, <2>3
<1>5. p \in {"read", "write"} /\ (p = "write" <=> m[1] = "setRole")
  OBVIOUS
<1>6. c \in CallType
  BY <1>3, <1>4, <1>5 DEF CallType, Points
<1>7. Goes(s, c)
  BY <1>2, <1>6, Turns DEF MembershipInv
<1>8. /\ c.op = m[1] /\ c.by = u /\ c.on = m[2] /\ c.give = m[3] /\ c.org = o /\ c.pc = p
  OBVIOUS
<1>9. Shape(c)
  BY <1>3, <1>4, <1>5, <1>8 DEF Shape, Answers, Known, Ops
<1>10. Refers(c)
  BY <1>3, <1>5, <1>8 DEF Refers, Answers, Known
<1>11. ~Gives(c) /\ ~Grips(c)
  BY <1>5, <1>8 DEF Gives, Grips, Answers
<1>12. ~Gives(call[s]) /\ ~Grips(call[s])
  BY <1>2, IdleCall DEF Gives, Grips
<1> QED
  BY <1>2, <1>7, <1>9, <1>10, <1>11, <1>12, ReadKeeps

\* An action that ends without having owed anything.
LEMMA EndKeeps ==
    ASSUME MembershipInv, NEW s \in Sessions, End(s), UNCHANGED <<tables, moved, granted>>,
           disturbed \subseteq disturbed', ~Gives(call[s]), ~Grips(call[s])
    PROVE  MembershipInv'
<1>1. Goes(s, Idle)
  BY EndGoes DEF MembershipInv
<1>2. Shape(Idle) /\ Refers(Idle) /\ ~Gives(Idle) /\ ~Grips(Idle)
  BY IdleCall DEF Refers, Gives, Grips, Answers
<1> QED
  BY <1>1, <1>2, ReadKeeps

\* An action that has checked what it read and goes on to p.
LEMMA CheckKeeps ==
    ASSUME MembershipInv, NEW s \in Sessions, NEW p \in Points, To(s, p), UNCHANGED <<tables, moved, granted, disturbed>>,
           ~Gives(call[s]), ~Grips(call[s]), call[s].op \notin Answers \cup {"idle"}, p # "idle",
           \/ call[s].op \in {"join"} /\ p = "write"
           \/ /\ call[s].op = "invite" /\ p = "write"
              /\ OrgOf[call[s].give[1]] = call[s].org
           \/ call[s].op = "approve" /\ p \in {"default", "mark"}
           \/ call[s].op = "reject" /\ p = "mark"
           \/ call[s].op = "setDefault" /\ p = "write" /\ OrgOf[call[s].on] = call[s].org
           \/ /\ call[s].op \in {"reassign", "switch"} /\ p = "write"
              /\ OrgOf[call[s].give] = call[s].org /\ user[call[s].on].org = call[s].org
    PROVE  MembershipInv'
<1>1. PICK c \in CallType :
        /\ Goes(s, c) /\ c.pc = p /\ c.op = call[s].op /\ c.by = call[s].by /\ c.on = call[s].on
        /\ c.give = call[s].give /\ c.org = call[s].org /\ c.got = call[s].got /\ c.late = call[s].late
  BY ToGoes DEF MembershipInv
<1>2. Shape(call[s]) /\ Refers(call[s])
  BY DEF MembershipInv, CallsOK, RefersInv
<1>3. Shape(c)
  BY <1>1, <1>2 DEF Shape, Answers
<1>4. Refers(c)
  BY <1>1, <1>2 DEF Refers, Answers
<1>5. ~Gives(c) /\ ~Grips(c)
  BY <1>1 DEF Gives, Grips, Answers
<1> QED
  BY <1>1, <1>3, <1>4, <1>5, ReadKeeps

LEMMA LooksFree ==
    ASSUME NEW s \in Sessions, call[s].pc \in {"read", "default"}
    PROVE  ~Gives(call[s]) /\ ~Grips(call[s])
BY DEF Gives, Grips

LEMMA FindPendingRequestKeeps ==
    ASSUME MembershipInv, NEW s \in Sessions, FindPendingRequest(s)
    PROVE  MembershipInv'
<1>1. call[s].op = "join" /\ call[s].pc = "read" /\ UNCHANGED <<tables, moved, granted, disturbed>>
  BY DEF FindPendingRequest, Runs
<1>2. To(s, "write") \/ End(s)
  BY DEF FindPendingRequest
<1> QED
  BY <1>1, <1>2, LooksFree, CheckKeeps, EndKeeps DEF Answers, Points

LEMMA FindPendingInvitationKeeps ==
    ASSUME MembershipInv, NEW s \in Sessions, FindPendingInvitation(s)
    PROVE  MembershipInv'
<1>1. call[s].op = "invite" /\ call[s].pc = "read" /\ UNCHANGED <<tables, moved, granted, disturbed>>
  BY DEF FindPendingInvitation, Runs
<1>2. \/ To(s, "write") /\ OrgOf[call[s].give[1]] = call[s].org
      \/ End(s)
  BY DEF FindPendingInvitation, Invitable
<1> QED
  BY <1>1, <1>2, LooksFree, CheckKeeps, EndKeeps DEF Answers, Points

LEMMA FindRequestKeeps ==
    ASSUME MembershipInv, NEW s \in Sessions, FindRequest(s)
    PROVE  MembershipInv'
<1>1. call[s].op \in {"approve", "reject"} /\ call[s].pc = "read" /\ UNCHANGED <<tables, moved, granted, disturbed>>
  BY DEF FindRequest, Runs
<1>2. \/ call[s].op = "approve" /\ To(s, "default")
      \/ call[s].op = "reject" /\ To(s, "mark")
      \/ End(s)
  BY <1>1 DEF FindRequest
<1> QED
  BY <1>1, <1>2, LooksFree, CheckKeeps, EndKeeps DEF Answers, Points

LEMMA FindTenantKeeps ==
    ASSUME MembershipInv, NEW s \in Sessions, FindTenant(s)
    PROVE  MembershipInv'
<1>1. call[s].op = "setDefault" /\ call[s].pc = "read" /\ UNCHANGED <<tables, moved, granted, disturbed>>
  BY DEF FindTenant, Runs
<1>2. \/ To(s, "write") /\ OrgOf[call[s].on] = call[s].org
      \/ End(s)
  BY DEF FindTenant
<1> QED
  BY <1>1, <1>2, LooksFree, CheckKeeps, EndKeeps DEF Answers, Points

LEMMA FindMemberKeeps ==
    ASSUME MembershipInv, NEW s \in Sessions, FindMember(s)
    PROVE  MembershipInv'
<1>1. /\ call[s].op \in {"reassign", "switch"} /\ call[s].pc = "read"
      /\ UNCHANGED <<tables, moved, granted, disturbed>>
  BY DEF FindMember, Runs
<1>2. \/ To(s, "write") /\ OrgOf[call[s].give] = call[s].org /\ user[call[s].on].org = call[s].org
      \/ End(s)
  BY DEF FindMember, Movable
<1> QED
  BY <1>1, <1>2, LooksFree, CheckKeeps, EndKeeps DEF Answers, Points

LEMMA FindDefaultTenantKeeps ==
    ASSUME MembershipInv, NEW s \in Sessions, FindDefaultTenant(s)
    PROVE  MembershipInv'
<1>1. call[s].op = "approve" /\ call[s].pc = "default" /\ UNCHANGED <<tables, moved, granted, disturbed>>
  BY DEF FindDefaultTenant, Runs
<1>2. CASE End(s)
  BY <1>1, <1>2, LooksFree, EndKeeps
<1>3. CASE \E t \in Tenants : OrgOf[t] = call[s].org /\ Found(s, t)
  <2> PICK t \in Tenants : OrgOf[t] = call[s].org /\ Found(s, t)
    BY <1>3
  <2>1. PICK c \in CallType :
          /\ Goes(s, c) /\ c.pc = "write" /\ c.op = call[s].op /\ c.by = call[s].by
          /\ c.on = call[s].on /\ c.give = call[s].give /\ c.org = call[s].org /\ c.got = t
          /\ c.late = call[s].late
    BY FoundGoes DEF MembershipInv
  <2>2. Shape(call[s]) /\ Refers(call[s])
    BY DEF MembershipInv, CallsOK, RefersInv
  <2>3. Shape(c) /\ Refers(c)
    BY <1>1, <2>1, <2>2 DEF Shape, Refers, Answers
  <2>4. ~Gives(c) /\ ~Grips(c)
    BY <1>1, <2>1 DEF Gives, Grips, Answers
  <2> QED
    BY <1>1, <2>1, <2>3, <2>4, LooksFree, ReadKeeps
<1> QED
  BY <1>2, <1>3 DEF FindDefaultTenant

-----------------------------------------------------------------------------
(* New requests and invitations.                                           *)

LEMMA CreateRequestKeeps ==
    ASSUME MembershipInv, NEW s \in Sessions, CreateMembershipRequest(s)
    PROVE  MembershipInv'
<1> PICK u : u = call[s].by
  OBVIOUS
<1> PICK o : o = call[s].on
  OBVIOUS
<1>1. PICK r \in Requests :
        /\ request[r].status = "ABSENT"
        /\ request' = [request EXCEPT ![r] = [org |-> o, user |-> u, status |-> "PENDING"]]
  BY DEF CreateMembershipRequest
<1>2. /\ call[s].op = "join" /\ call[s].pc = "write" /\ End(s)
      /\ UNCHANGED <<user, isDefault, invitation, moved, granted>>
      /\ disturbed' = disturbed \cup (IF MayRequest(u) THEN {} ELSE {u})
  BY DEF CreateMembershipRequest, Runs
<1>3. u \in Users /\ o \in Orgs
  BY <1>2 DEF MembershipInv, CallsOK, Shape
<1>4. request \in [Requests -> RequestRow]
  BY DEF MembershipInv, RowsOK
<1>5. /\ request' \in [Requests -> RequestRow]
      /\ request'[r].status = "PENDING" /\ request'[r].user = u /\ request'[r].org = o
      /\ \A q \in Requests \ {r} : request'[q] = request[q]
  <2>1. [org |-> o, user |-> u, status |-> "PENDING"] \in RequestRow
    BY <1>3 DEF RequestRow
  <2> QED
    BY <1>1, <1>4, <2>1
<1>6. RowsOK'
  BY <1>2, <1>3, <1>5 DEF MembershipInv, RowsOK, UserRow, InviteRow, Customer, Roles
<1>7. Goes(s, Idle) /\ ~Gives(Idle) /\ ~Grips(Idle) /\ Refers(Idle)' /\ Shape(Idle)
  BY <1>2, EndGoes, IdleCall DEF MembershipInv, Gives, Grips, Refers, Answers
<1>8. ~Gives(call[s]) /\ ~Grips(call[s])
  BY <1>2 DEF Gives, Grips, Answers
<1>9. CallsOK'
  BY <1>7, CallsKept DEF MembershipInv
<1>10. RefersInv'
  BY <1>2, <1>5, <1>7, RefersKept DEF MembershipInv
<1>11. TenantMatchesOrganization'
  BY <1>2 DEF MembershipInv, TenantMatchesOrganization
<1>12. DefaultInv' /\ AnswerInv'
  BY <1>2, <1>7, <1>8, DefaultsKept, AnswersKept DEF MembershipInv
<1>13. PendingInv'
  <2> SUFFICES ASSUME NEW v \in Users, v \notin disturbed'
               PROVE  /\ \A p, q \in PendingRequests(v)' : p = q
                      /\ \A i, j \in PendingInvitations(v)' : i = j
    BY DEF PendingInv
  <2>1. v \notin disturbed /\ PendingInvitations(v)' = PendingInvitations(v)
    BY <1>2 DEF PendingInvitations
  <2>2. CASE v = u
    <3>1. PendingRequests(v) = {}
      BY <1>2, <2>2 DEF MayRequest, PendingRequests
    <3>2. PendingRequests(v)' = {r}
      BY <1>3, <1>5, <2>2, <3>1 DEF PendingRequests
    <3> QED
      BY <2>1, <3>2 DEF MembershipInv, PendingInv
  <2>3. CASE v # u
    <3>1. PendingRequests(v)' = PendingRequests(v)
      BY <1>1, <1>5, <2>3 DEF PendingRequests
    <3> QED
      BY <2>1, <3>1 DEF MembershipInv, PendingInv
  <2> QED
    BY <2>2, <2>3
<1> QED
  BY <1>6, <1>9, <1>10, <1>11, <1>12, <1>13 DEF MembershipInv

LEMMA CreateInvitationKeeps ==
    ASSUME MembershipInv, NEW s \in Sessions, CreateInvitation(s)
    PROVE  MembershipInv'
<1> PICK u : u = call[s].on
  OBVIOUS
<1> PICK o : o = call[s].org
  OBVIOUS
<1> PICK t : t = call[s].give[1]
  OBVIOUS
<1> PICK role : role = call[s].give[2]
  OBVIOUS
<1>1. PICK i \in Invitations :
        /\ invitation[i].status = "ABSENT"
        /\ invitation' = [invitation EXCEPT ![i] = [org |-> o, tenant |-> t, user |-> u, role |-> role, status |-> "PENDING"]]
  BY DEF CreateInvitation
<1>2. /\ call[s].op = "invite" /\ call[s].pc = "write" /\ End(s)
      /\ UNCHANGED <<user, isDefault, request, moved, granted>>
      /\ disturbed' = disturbed \cup (IF MayInvite(u) THEN {} ELSE {u})
  BY DEF CreateInvitation, Runs
<1>3. u \in Users /\ o \in Orgs /\ t \in Tenants /\ role \in Customer /\ OrgOf[t] = o
  BY <1>2 DEF MembershipInv, CallsOK, Shape
<1>4. invitation \in [Invitations -> InviteRow]
  BY DEF MembershipInv, RowsOK
<1>5. /\ invitation' \in [Invitations -> InviteRow]
      /\ invitation'[i].status = "PENDING" /\ invitation'[i].user = u /\ invitation'[i].org = o
      /\ invitation'[i].tenant = t /\ invitation'[i].role = role
      /\ \A j \in Invitations \ {i} : invitation'[j] = invitation[j]
  <2>1. [org |-> o, tenant |-> t, user |-> u, role |-> role, status |-> "PENDING"] \in InviteRow
    BY <1>3 DEF InviteRow
  <2> QED
    BY <1>1, <1>4, <2>1
<1>6. RowsOK'
  BY <1>2, <1>3, <1>5 DEF MembershipInv, RowsOK, UserRow, RequestRow, Customer, Roles
<1>7. Goes(s, Idle) /\ ~Gives(Idle) /\ ~Grips(Idle) /\ Refers(Idle)' /\ Shape(Idle)
  BY <1>2, EndGoes, IdleCall DEF MembershipInv, Gives, Grips, Refers, Answers
<1>8. ~Gives(call[s]) /\ ~Grips(call[s])
  BY <1>2 DEF Gives, Grips, Answers
<1>9. CallsOK'
  BY <1>7, CallsKept DEF MembershipInv
<1>10. RefersInv'
  BY <1>2, <1>5, <1>7, RefersKept DEF MembershipInv
<1>11. TenantMatchesOrganization'
  BY <1>2 DEF MembershipInv, TenantMatchesOrganization
<1>12. DefaultInv'
  BY <1>2, <1>7, <1>8, DefaultsKept DEF MembershipInv
<1>13. PendingInv'
  <2> SUFFICES ASSUME NEW v \in Users, v \notin disturbed'
               PROVE  /\ \A p, q \in PendingRequests(v)' : p = q
                      /\ \A j, k \in PendingInvitations(v)' : j = k
    BY DEF PendingInv
  <2>1. v \notin disturbed /\ PendingRequests(v)' = PendingRequests(v)
    BY <1>2 DEF PendingRequests
  <2>2. CASE v = u
    <3>1. PendingInvitations(v) = {}
      BY <1>2, <2>2 DEF MayInvite, PendingInvitations
    <3>2. PendingInvitations(v)' = {i}
      BY <1>3, <1>5, <2>2, <3>1 DEF PendingInvitations
    <3> QED
      BY <2>1, <3>2 DEF MembershipInv, PendingInv
  <2>3. CASE v # u
    <3>1. PendingInvitations(v)' = PendingInvitations(v)
      BY <1>1, <1>5, <2>3 DEF PendingInvitations
    <3> QED
      BY <2>1, <3>1 DEF MembershipInv, PendingInv
  <2> QED
    BY <2>2, <2>3
<1>14. AnswerInv'
  <2> SUFFICES ASSUME NEW j \in Invitations, j \notin disturbed'
               PROVE  /\ \A p, q \in Holders(j)' : p = q
                      /\ \A p \in Holders(j)' : invitation'[j].status = "PENDING" /\ (j \in granted' <=> call'[p].pc = "mark")
                      /\ Holders(j)' = {} => (invitation'[j].status = "ACCEPTED" <=> j \in granted')
    BY DEF AnswerInv
  <2>1. /\ \A p, q \in Holders(j) : p = q
        /\ \A p \in Holders(j) : invitation[j].status = "PENDING" /\ (j \in granted <=> call[p].pc = "mark")
        /\ Holders(j) = {} => (invitation[j].status = "ACCEPTED" <=> j \in granted)
    BY <1>2 DEF MembershipInv, AnswerInv
  <2>2. Holders(j)' = Holders(j) /\ \A p \in Holders(j) : call'[p].pc = call[p].pc
    <3>1. \A x \in Sessions : /\ Grips(call[x]) <=> Grips(call'[x])
                              /\ Grips(call[x]) => call'[x].got = call[x].got /\ call'[x].pc = call[x].pc
      BY <1>7, <1>8 DEF Goes, Grips, Alike
    <3> QED
      BY <3>1 DEF Holders, Grips
  <2>3. CASE j = i
    <3>1. Holders(j) = {} /\ j \notin granted
      BY <1>1, <2>1, <2>3
    <3> QED
      BY <1>2, <1>5, <2>2, <2>3, <3>1
  <2>4. CASE j # i
    BY <1>2, <1>5, <2>1, <2>2, <2>4
  <2> QED
    BY <2>3, <2>4
<1> QED
  BY <1>6, <1>9, <1>10, <1>11, <1>12, <1>13, <1>14 DEF MembershipInv

-----------------------------------------------------------------------------
(* Answers to an invitation.                                               *)

\* An action that has found a pending invitation nobody else is answering.
LEMMA HoldKeeps ==
    ASSUME MembershipInv, NEW s \in Sessions, NEW i \in Invitations, Found(s, i), invitation[i].status # "ABSENT",
           UNCHANGED <<tables, moved, granted>>, call[s].op \in Answers, call[s].pc = "read",
           disturbed \cup AlsoHeld(s, i) \subseteq disturbed', invitation[i].status # "PENDING" => i \in disturbed'
    PROVE  MembershipInv'
<1> USE DEF tables
<1>1. PICK c \in CallType : /\ Goes(s, c) /\ c.pc = "write" /\ c.op = call[s].op /\ c.by = call[s].by
                            /\ c.on = call[s].on /\ c.give = call[s].give /\ c.org = call[s].org /\ c.got = i
                            /\ c.late = call[s].late
  BY FoundGoes DEF MembershipInv
<1>2. Shape(call[s]) /\ Refers(call[s])
  BY DEF MembershipInv, CallsOK, RefersInv
<1>3. Shape(c)
  BY <1>1, <1>2 DEF Shape, Answers
<1>4. Refers(c)'
  BY <1>1, <1>2 DEF Refers, Answers
<1>5. RowsOK' /\ CallsOK'
  BY <1>1, <1>3, CallsKept DEF MembershipInv, RowsOK, UserRow, RequestRow, InviteRow, Customer, Roles
<1>6. RefersInv' /\ TenantMatchesOrganization'
  BY <1>1, <1>4, RefersKept DEF MembershipInv, TenantMatchesOrganization
<1>7. DefaultInv' /\ PendingInv'
  <2>1. ~Gives(c) /\ ~Gives(call[s])
    BY <1>1 DEF Gives
  <2> QED
    BY <1>1, <2>1, DefaultsKept, PendingKept DEF MembershipInv
<1>8. AnswerInv'
  <2> SUFFICES ASSUME NEW j \in Invitations, j \notin disturbed'
               PROVE  /\ \A p, q \in Holders(j)' : p = q
                      /\ \A p \in Holders(j)' : invitation[j].status = "PENDING" /\ (j \in granted <=> call'[p].pc = "mark")
                      /\ Holders(j)' = {} => (invitation[j].status = "ACCEPTED" <=> j \in granted)
    BY DEF AnswerInv
  <2>1. /\ \A p, q \in Holders(j) : p = q
        /\ \A p \in Holders(j) : invitation[j].status = "PENDING" /\ (j \in granted <=> call[p].pc = "mark")
        /\ Holders(j) = {} => (invitation[j].status = "ACCEPTED" <=> j \in granted)
    BY DEF MembershipInv, AnswerInv
  <2>2. \A x \in Sessions \ {s} : (x \in Holders(j) <=> x \in Holders(j)') /\ call'[x].pc = call[x].pc
    BY <1>1 DEF Goes, Alike, Holders, Grips
  <2>3. s \notin Holders(j) /\ (s \in Holders(j)' <=> j = i) /\ call'[s] = c /\ Holders(j) \subseteq Sessions /\ Holders(j)' \subseteq Sessions
    BY <1>1 DEF Goes, Holders, Grips
  <2>4. CASE j = i
    <3>1. Holders(j) = {}
      BY <2>3, <2>4 DEF AlsoHeld, Holders
    <3>2. Holders(j)' = {s}
      BY <2>2, <2>3, <2>4, <3>1
    <3>3. invitation[j].status = "PENDING"
      BY <2>4
    <3>4. c.pc # "mark" /\ j \notin granted
      BY <1>1, <2>1, <3>1, <3>3
    <3> QED
      BY <2>3, <3>2, <3>3, <3>4
  <2>5. CASE j # i
    <3>1. Holders(j)' = Holders(j) /\ \A p \in Holders(j) : call'[p].pc = call[p].pc
      <4>1. s \notin Holders(j) /\ s \notin Holders(j)' /\ Holders(j) \subseteq Sessions /\ Holders(j)' \subseteq Sessions
        BY <2>3, <2>5
      <4>2. \A x \in Sessions : x \in Holders(j) <=> x \in Holders(j)'
        BY <2>2, <4>1, Zenon
      <4>3. Holders(j)' = Holders(j)
        BY <4>1, <4>2, Zenon
      <4>4. \A p \in Holders(j) : call'[p].pc = call[p].pc
        BY <2>2, <4>1, Zenon
      <4> QED
        BY <4>3, <4>4, Zenon
    <3> QED
      BY <2>1, <3>1
  <2> QED
    BY <2>4, <2>5
<1> QED
  BY <1>5, <1>6, <1>7, <1>8 DEF MembershipInv

LEMMA FindOwnKeeps ==
    ASSUME MembershipInv, NEW s \in Sessions, FindOwnInvitation(s)
    PROVE  MembershipInv'
<1>1. call[s].op \in Answers /\ call[s].pc = "read" /\ UNCHANGED <<tables, moved, granted>>
  BY DEF FindOwnInvitation, Runs, Answers
<1>2. CASE End(s) /\ UNCHANGED disturbed
  BY <1>1, <1>2, LooksFree, EndKeeps
<1>3. ASSUME NEW i \in Invitations, invitation[i].status = "PENDING", Found(s, i), disturbed' = disturbed \cup AlsoHeld(s, i)
      PROVE  MembershipInv'
  BY <1>1, <1>3, HoldKeeps
<1> QED
  BY <1>2, <1>3 DEF FindOwnInvitation

LEMMA FindRevocableKeeps ==
    ASSUME MembershipInv, NEW s \in Sessions, FindRevocable(s)
    PROVE  MembershipInv'
<1>1. call[s].op = "revoke" /\ call[s].pc = "read" /\ UNCHANGED <<tables, moved, granted>>
  BY DEF FindRevocable, Runs
<1>2. CASE End(s) /\ UNCHANGED disturbed
  BY <1>1, <1>2, LooksFree, EndKeeps
<1> PICK i : i = call[s].on
  OBVIOUS
<1>3. i \in Invitations /\ invitation[i].status # "ABSENT"
  BY <1>1 DEF MembershipInv, CallsOK, RefersInv, Shape, Refers
<1>4. CASE /\ Revocable(s, i) \/ Superuser(call[s].by)
           /\ Found(s, i)
           /\ disturbed' = disturbed \cup AlsoHeld(s, i)
                 \cup {j \in {i} : Superuser(call[s].by) /\ invitation[i].status # "PENDING"}
  <2>1. invitation[i].status # "PENDING" => i \in disturbed'
    BY <1>4 DEF Revocable
  <2> QED
    BY <1>1, <1>3, <1>4, <2>1, HoldKeeps DEF Answers
<1> QED
  BY <1>2, <1>4 DEF FindRevocable

\* The answer is written, whatever the invitation says by then.
LEMMA ResolveKeeps ==
    ASSUME MembershipInv, NEW s \in Sessions, Grips(call[s]), Resolve(s, call[s].got),
           call[s].op = "accept" <=> call[s].pc = "mark"
    PROVE  MembershipInv'
<1> PICK i : i = call[s].got
  OBVIOUS
<1> PICK st : st = Resolution(call[s].op)
  OBVIOUS
<1>1. /\ invitation' = [invitation EXCEPT ![i].status = st] /\ End(s)
      /\ UNCHANGED <<user, isDefault, request, moved, disturbed, granted>>
  BY DEF Resolve
<1>2. i \in Invitations /\ invitation[i].status # "ABSENT"
  BY DEF MembershipInv, CallsOK, RefersInv, Shape, Refers, Grips
<1>3. st \in {"ACCEPTED", "DECLINED", "REVOKED"} /\ (st = "ACCEPTED" <=> call[s].op = "accept")
  BY DEF Resolution, Grips, Answers
<1>4. invitation \in [Invitations -> InviteRow]
  BY DEF MembershipInv, RowsOK
<1>5. /\ invitation' \in [Invitations -> InviteRow]
      /\ invitation'[i].status = st /\ invitation'[i].user = invitation[i].user /\ invitation'[i].org = invitation[i].org
      /\ invitation'[i].tenant = invitation[i].tenant /\ invitation'[i].role = invitation[i].role
      /\ \A j \in Invitations \ {i} : invitation'[j] = invitation[j]
  BY <1>1, <1>2, <1>3, <1>4 DEF InviteRow
<1>6. RowsOK'
  BY <1>1, <1>2, <1>5 DEF MembershipInv, RowsOK, UserRow, RequestRow, Customer, Roles
<1>7. Goes(s, Idle) /\ ~Gives(Idle) /\ ~Grips(Idle) /\ Refers(Idle)' /\ Shape(Idle)
  BY <1>1, EndGoes, IdleCall DEF MembershipInv, Gives, Grips, Refers, Answers
<1>8. ~Gives(call[s])
  BY DEF Gives, Grips, Answers
<1>9. CallsOK'
  BY <1>7, CallsKept DEF MembershipInv
<1>10. RefersInv'
  BY <1>1, <1>3, <1>5, <1>7, RefersKept DEF MembershipInv
<1>11. TenantMatchesOrganization'
  BY <1>1 DEF MembershipInv, TenantMatchesOrganization
<1>12. DefaultInv'
  BY <1>1, <1>7, <1>8, DefaultsKept DEF MembershipInv
<1>13. PendingInv'
  <2>1. \A u \in Users : PendingInvitations(u)' \subseteq PendingInvitations(u) /\ PendingRequests(u)' = PendingRequests(u)
    BY <1>1, <1>3, <1>5 DEF PendingInvitations, PendingRequests
  <2> QED
    BY <1>1, <2>1 DEF MembershipInv, PendingInv
<1>14. AnswerInv'
  <2> SUFFICES ASSUME NEW j \in Invitations, j \notin disturbed
               PROVE  /\ \A p, q \in Holders(j)' : p = q
                      /\ \A p \in Holders(j)' : invitation'[j].status = "PENDING" /\ (j \in granted <=> call'[p].pc = "mark")
                      /\ Holders(j)' = {} => (invitation'[j].status = "ACCEPTED" <=> j \in granted)
    BY <1>1 DEF AnswerInv
  <2>1. /\ \A p, q \in Holders(j) : p = q
        /\ \A p \in Holders(j) : invitation[j].status = "PENDING" /\ (j \in granted <=> call[p].pc = "mark")
        /\ Holders(j) = {} => (invitation[j].status = "ACCEPTED" <=> j \in granted)
    BY DEF MembershipInv, AnswerInv
  <2>2. Holders(j)' = Holders(j) \ {s} /\ \A p \in Holders(j) \ {s} : call'[p].pc = call[p].pc
    BY <1>7 DEF Goes, Alike, Holders, Grips
  <2>3. CASE j = i
    <3>1. s \in Holders(j)
      BY <2>3 DEF Holders
    <3>2. Holders(j)' = {} /\ (j \in granted <=> call[s].pc = "mark")
      BY <2>1, <2>2, <3>1
    <3> QED
      BY <1>3, <1>5, <2>3, <3>2
  <2>4. CASE j # i
    <3>1. s \notin Holders(j)
      BY <2>4 DEF Holders
    <3> QED
      BY <1>5, <2>1, <2>2, <2>4, <3>1
  <2> QED
    BY <2>3, <2>4
<1> QED
  BY <1>6, <1>9, <1>10, <1>11, <1>12, <1>13, <1>14 DEF MembershipInv

LEMMA AnswerKeeps ==
    ASSUME MembershipInv, NEW s \in Sessions, AcceptMark(s) \/ Decline(s) \/ Revoke(s)
    PROVE  MembershipInv'
BY ResolveKeeps DEF AcceptMark, Decline, Revoke, Runs, Grips, Answers

-----------------------------------------------------------------------------
(* Writes to a user.                                                       *)

LEMMA WriteGoes ==
    ASSUME CallsOK, NEW s \in Sessions, NEW u, WriteAndGoOn(s, u, "mark")
    PROVE  \E c \in CallType :
             /\ Goes(s, c) /\ c.pc = "mark" /\ c.op = call[s].op /\ c.by = call[s].by /\ c.on = call[s].on
             /\ c.give = call[s].give /\ c.org = call[s].org /\ c.got = call[s].got
             /\ \A x \in Sessions \ {s} : call[x] # Idle /\ call[x].by = u => call'[x].late
<1> PICK c : c = [call[s] EXCEPT !.pc = "mark"]
  OBVIOUS
<1>1. call[s] \in CallType
  BY DEF CallsOK
<1>2. /\ c \in CallType /\ c.pc = "mark" /\ c.op = call[s].op /\ c.by = call[s].by /\ c.on = call[s].on
      /\ c.give = call[s].give /\ c.org = call[s].org /\ c.got = call[s].got
  BY <1>1 DEF CallType, Points
<1>3. call' = [x \in Sessions |-> IF x = s THEN c
                                  ELSE IF x \in Overtakes(s, u) THEN [call[x] EXCEPT !.late = TRUE] ELSE call[x]]
  BY DEF WriteAndGoOn
<1> QED
  BY <1>2, <1>3, Writings

\* The user's place in an organization is written; who works on the user and is overtaken knows.
LEMMA AssignKeeps ==
    ASSUME MembershipInv, NEW s \in Sessions, NEW u \in Users, NEW o \in Orgs, NEW t \in Tenants, NEW role \in Roles,
           OrgOf[t] = o, Assign(u, o, t, role), NEW c, Goes(s, c), Refers(c)',
           \A x \in Sessions \ {s} : call[x] # Idle /\ call[x].by = u => call'[x].late,
           UNCHANGED <<isDefault, request, invitation>>
    PROVE  RowsOK' /\ RefersInv' /\ TenantMatchesOrganization'
<1>1. user \in [Users -> UserRow] /\ None \notin Orgs
  BY MembershipStart DEF MembershipInv, RowsOK
<1>2. /\ user' \in [Users -> UserRow] /\ user'[u].org = o /\ user'[u].tenant = t
      /\ \A v \in Users \ {u} : user'[v] = user[v]
  <2>1. [org |-> o, tenant |-> t, role |-> role] \in UserRow
    BY DEF UserRow
  <2>2. user' = [user EXCEPT ![u] = [org |-> o, tenant |-> t, role |-> role]]
    BY DEF Assign
  <2> QED
    BY <1>1, <2>1, <2>2
<1>3. moved \subseteq moved' /\ (user[u].org \in {None, o} \/ u \in moved')
  BY DEF Assign
<1>4. RowsOK'
  BY <1>2 DEF MembershipInv, RowsOK, RequestRow, InviteRow, Customer, Roles
<1>5. TenantMatchesOrganization'
  BY <1>1, <1>2, <1>3 DEF MembershipInv, TenantMatchesOrganization
<1>6. ASSUME NEW x \in Sessions PROVE Refers(call[x])'
  <2>1. CASE x = s
    <3>1. call'[x] = c
      BY <2>1 DEF Goes
    <3> QED
      BY <3>1 DEF Refers
  <2>2. CASE x # s
    <3> PICK d : d = call'[x]
      OBVIOUS
    <3>1. Refers(call[x]) /\ Shape(call[x]) /\ Alike(call[x], d)
      BY <2>2 DEF MembershipInv, CallsOK, Goes, RefersInv
    <3>2. d.op \in {"approve", "reject"} => request'[d.on].status # "ABSENT"
      BY <3>1 DEF Refers, Alike
    <3>3. d.op \in Answers /\ d.pc \in {"write", "mark"} => invitation'[d.got].status # "ABSENT"
      BY <3>1 DEF Refers, Alike
    <3>4. d.op = "revoke" => invitation'[d.on].status # "ABSENT"
      BY <3>1 DEF Refers, Alike
    <3>5. ASSUME d.op \in {"reassign", "switch"}, d.pc = "write" PROVE d.on \in moved' \/ user'[d.on].org = d.org
      <4>1. d.on \in Users /\ d.org \in Orgs /\ (d.on \in moved \/ user[d.on].org = d.org)
        BY <3>1, <3>5 DEF Refers, Shape, Alike
      <4> QED
        BY <1>1, <1>2, <1>3, <4>1
    <3>6. ASSUME d.op = "accept", d.pc \in {"read", "write"}, ~d.late PROVE user'[d.by].org = None
      <4>1. call[x] # Idle /\ d.by = call[x].by /\ d.by \in Users /\ user[d.by].org = None
        BY <3>1, <3>6, IdleCall DEF Refers, Shape, Alike
      <4>2. d.by # u
        BY <2>2, <3>6, <4>1
      <4> QED
        BY <1>2, <4>1, <4>2
    <3> QED
      BY <3>2, <3>3, <3>4, <3>5, <3>6 DEF Refers
  <2> QED
    BY <2>1, <2>2
<1>7. RefersInv'
  BY <1>6 DEF RefersInv
<1> QED
  BY <1>4, <1>5, <1>7

LEMMA AcceptAssignKeeps ==
    ASSUME MembershipInv, NEW s \in Sessions, AcceptAssign(s)
    PROVE  MembershipInv'
<1> PICK u : u = call[s].by
  OBVIOUS
<1> PICK i : i = call[s].got
  OBVIOUS
<1>1. /\ call[s].op = "accept" /\ call[s].pc = "write"
      /\ Assign(u, invitation[i].org, invitation[i].tenant, invitation[i].role)
      /\ granted' = granted \cup {i} /\ WriteAndGoOn(s, u, "mark")
      /\ UNCHANGED <<isDefault, request, invitation, disturbed>>
  BY DEF AcceptAssign, Runs
<1>2. u \in Users /\ i \in Invitations /\ invitation[i].status # "ABSENT" /\ Shape(call[s])
  BY <1>1 DEF MembershipInv, CallsOK, RefersInv, Shape, Refers, Answers
<1>3. /\ invitation[i].org \in Orgs /\ invitation[i].tenant \in Tenants /\ invitation[i].role \in Roles
      /\ OrgOf[invitation[i].tenant] = invitation[i].org
  BY <1>2 DEF MembershipInv, RowsOK, Roles
<1>4. PICK c \in CallType :
        /\ Goes(s, c) /\ c.pc = "mark" /\ c.op = call[s].op /\ c.by = call[s].by /\ c.on = call[s].on
        /\ c.give = call[s].give /\ c.org = call[s].org /\ c.got = call[s].got
        /\ \A x \in Sessions \ {s} : call[x] # Idle /\ call[x].by = u => call'[x].late
  BY <1>1, WriteGoes DEF MembershipInv
<1>5. Shape(c) /\ Refers(c)'
  BY <1>1, <1>2, <1>4 DEF Shape, Refers, Answers
<1>6. RowsOK' /\ RefersInv' /\ TenantMatchesOrganization'
  BY <1>1, <1>2, <1>3, <1>4, <1>5, AssignKeeps
<1>7. CallsOK'
  BY <1>4, <1>5, CallsKept DEF MembershipInv
<1>8. DefaultInv' /\ PendingInv'
  <2>1. ~Gives(c) /\ ~Gives(call[s])
    BY <1>1, <1>4 DEF Gives
  <2> QED
    BY <1>1, <1>4, <2>1, DefaultsKept, PendingKept DEF MembershipInv
<1>9. AnswerInv'
  <2> SUFFICES ASSUME NEW j \in Invitations, j \notin disturbed
               PROVE  /\ \A p, q \in Holders(j)' : p = q
                      /\ \A p \in Holders(j)' : invitation[j].status = "PENDING" /\ (j \in granted' <=> call'[p].pc = "mark")
                      /\ Holders(j)' = {} => (invitation[j].status = "ACCEPTED" <=> j \in granted')
    BY <1>1 DEF AnswerInv
  <2>1. /\ \A p, q \in Holders(j) : p = q
        /\ \A p \in Holders(j) : invitation[j].status = "PENDING" /\ (j \in granted <=> call[p].pc = "mark")
        /\ Holders(j) = {} => (invitation[j].status = "ACCEPTED" <=> j \in granted)
    BY DEF MembershipInv, AnswerInv
  <2>2. \A x \in Sessions \ {s} : /\ Grips(call[x]) <=> Grips(call'[x])
                                  /\ call'[x].got = call[x].got /\ call'[x].pc = call[x].pc
    BY <1>4 DEF Goes, Alike, Grips
  <2>3. call'[s] = c /\ Grips(c) /\ Grips(call[s])
    BY <1>1, <1>4 DEF Goes, Grips, Answers
  <2>4. Holders(j)' = Holders(j)
    BY <1>4, <2>2, <2>3 DEF Holders
  <2>5. CASE j = i
    <3>1. s \in Holders(j)
      BY <2>3, <2>5 DEF Holders
    <3>2. Holders(j) = {s} /\ invitation[j].status = "PENDING"
      BY <2>1, <3>1
    <3> QED
      BY <1>1, <1>4, <2>3, <2>4, <2>5, <3>2
  <2>6. CASE j # i
    <3>1. s \notin Holders(j) /\ Holders(j) \subseteq Sessions
      BY <2>6 DEF Holders
    <3>2. \A p \in Holders(j) : call'[p].pc = call[p].pc
      BY <2>2, <3>1
    <3> QED
      BY <1>1, <2>1, <2>4, <2>6, <3>2
  <2> QED
    BY <2>5, <2>6
<1> QED
  BY <1>6, <1>7, <1>8, <1>9 DEF MembershipInv

LEMMA ApproveAssignKeeps ==
    ASSUME MembershipInv, NEW s \in Sessions, ApproveAssign(s)
    PROVE  MembershipInv'
<1> PICK u : u = request[call[s].on].user
  OBVIOUS
<1>1. /\ call[s].op = "approve" /\ call[s].pc = "write"
      /\ Assign(u, call[s].org, call[s].got, "CUSTOMER_USER") /\ WriteAndGoOn(s, u, "mark")
      /\ UNCHANGED <<isDefault, request, invitation, disturbed, granted>>
  BY DEF ApproveAssign, Runs
<1>2. /\ call[s].on \in Requests /\ request[call[s].on].status # "ABSENT" /\ Shape(call[s])
      /\ call[s].org \in Orgs /\ call[s].got \in Tenants /\ OrgOf[call[s].got] = call[s].org
  BY <1>1 DEF MembershipInv, CallsOK, RefersInv, Shape, Refers
<1>3. u \in Users /\ "CUSTOMER_USER" \in Roles
  BY <1>2 DEF MembershipInv, RowsOK, Roles, Customer
<1>4. PICK c \in CallType :
        /\ Goes(s, c) /\ c.pc = "mark" /\ c.op = call[s].op /\ c.by = call[s].by /\ c.on = call[s].on
        /\ c.give = call[s].give /\ c.org = call[s].org /\ c.got = call[s].got
        /\ \A x \in Sessions \ {s} : call[x] # Idle /\ call[x].by = u => call'[x].late
  BY <1>1, WriteGoes DEF MembershipInv
<1>5. Shape(c) /\ Refers(c)'
  BY <1>1, <1>2, <1>4 DEF Shape, Refers, Answers
<1>6. RowsOK' /\ RefersInv' /\ TenantMatchesOrganization'
  BY <1>1, <1>2, <1>3, <1>4, <1>5, AssignKeeps
<1>7. CallsOK'
  BY <1>4, <1>5, CallsKept DEF MembershipInv
<1>8. DefaultInv' /\ PendingInv' /\ AnswerInv'
  <2>1. ~Gives(c) /\ ~Gives(call[s]) /\ ~Grips(c) /\ ~Grips(call[s])
    BY <1>1, <1>4 DEF Gives, Grips, Answers
  <2> QED
    BY <1>1, <1>4, <2>1, DefaultsKept, PendingKept, AnswersKept DEF MembershipInv
<1> QED
  BY <1>6, <1>7, <1>8 DEF MembershipInv

\* A tenant or a role is written, and the organization is not.
LEMMA UserKeeps ==
    ASSUME MembershipInv, NEW s \in Sessions, NEW u \in Users, EndWriting(s, u), call[s].op \notin Answers \cup {"setDefault"},
           user' \in [Users -> UserRow], \A v \in Users \ {u} : user'[v] = user[v], user'[u].org = user[u].org,
           u \notin moved => user'[u].tenant = user[u].tenant
                             \/ (user[u].org \in Orgs /\ user'[u].tenant \in Tenants /\ OrgOf[user'[u].tenant] = user[u].org),
           UNCHANGED <<isDefault, request, invitation, moved, disturbed, granted>>
    PROVE  MembershipInv'
<1>1. Goes(s, Idle)
  <2>1. call' = [x \in Sessions |-> IF x = s THEN Idle
                                    ELSE IF x \in Overtakes(s, u) THEN [call[x] EXCEPT !.late = TRUE] ELSE call[x]]
    BY DEF EndWriting
  <2> QED
    BY <2>1, IdleCall, Writings DEF MembershipInv
<1>2. ~Gives(Idle) /\ ~Grips(Idle) /\ Refers(Idle)' /\ Shape(Idle)
  BY IdleCall DEF Gives, Grips, Refers, Answers
<1>3. ~Gives(call[s]) /\ ~Grips(call[s])
  BY DEF Gives, Grips
<1>4. RowsOK'
  BY DEF MembershipInv, RowsOK, RequestRow, InviteRow, Customer, Roles
<1>5. CallsOK'
  BY <1>1, <1>2, CallsKept DEF MembershipInv
<1>6. RefersInv'
  BY <1>1, <1>2, RefersKept DEF MembershipInv
<1>7. None \notin Orgs
  BY MembershipStart
<1>8. TenantMatchesOrganization'
  BY <1>7 DEF MembershipInv, TenantMatchesOrganization
<1>9. DefaultInv' /\ PendingInv' /\ AnswerInv'
  BY <1>1, <1>2, <1>3, DefaultsKept, PendingKept, AnswersKept DEF MembershipInv
<1> QED
  BY <1>4, <1>5, <1>6, <1>8, <1>9 DEF MembershipInv

LEMMA UpdateUserTenantKeeps ==
    ASSUME MembershipInv, NEW s \in Sessions, UpdateUserTenant(s)
    PROVE  MembershipInv'
<1> PICK u : u = call[s].on
  OBVIOUS
<1> PICK t : t = call[s].give
  OBVIOUS
<1>1. /\ call[s].op \in {"reassign", "switch"} /\ call[s].pc = "write"
      /\ user' = [user EXCEPT ![u].tenant = t] /\ EndWriting(s, u)
      /\ UNCHANGED <<isDefault, request, invitation, moved, disturbed, granted>>
  BY DEF UpdateUserTenant, Runs
<1>2. u \in Users /\ t \in Tenants /\ call[s].org \in Orgs /\ OrgOf[t] = call[s].org
  BY <1>1 DEF MembershipInv, CallsOK, Shape
<1>3. u \in moved \/ user[u].org = call[s].org
  BY <1>1 DEF MembershipInv, RefersInv, Refers
<1>4. user \in [Users -> UserRow]
  BY DEF MembershipInv, RowsOK
<1>5. /\ user' \in [Users -> UserRow] /\ \A v \in Users \ {u} : user'[v] = user[v]
      /\ user'[u].org = user[u].org /\ user'[u].tenant = t
  BY <1>1, <1>2, <1>4 DEF UserRow
<1>6. call[s].op \notin Answers \cup {"setDefault"}
  BY <1>1 DEF Answers
<1> QED
  BY <1>1, <1>2, <1>3, <1>5, <1>6, UserKeeps

LEMMA SetPortalUserRoleKeeps ==
    ASSUME MembershipInv, NEW s \in Sessions, SetPortalUserRole(s)
    PROVE  MembershipInv'
<1> PICK u : u = call[s].on
  OBVIOUS
<1>1. /\ call[s].op = "setRole" /\ user' = [user EXCEPT ![u].role = call[s].give] /\ EndWriting(s, u)
      /\ UNCHANGED <<isDefault, request, invitation, moved, disturbed, granted>>
  BY DEF SetPortalUserRole, Runs
<1>2. u \in Users /\ call[s].give \in Roles
  BY <1>1 DEF MembershipInv, CallsOK, Shape
<1>3. user \in [Users -> UserRow]
  BY DEF MembershipInv, RowsOK
<1>4. /\ user' \in [Users -> UserRow] /\ \A v \in Users \ {u} : user'[v] = user[v]
      /\ user'[u].org = user[u].org /\ user'[u].tenant = user[u].tenant
  BY <1>1, <1>2, <1>3 DEF UserRow
<1>5. call[s].op \notin Answers \cup {"setDefault"}
  BY <1>1 DEF Answers
<1>6. UNCHANGED <<isDefault, request, invitation, moved, disturbed, granted>> /\ EndWriting(s, u) /\ u \in Users
  BY <1>1, <1>2
<1>7. u \notin moved => user'[u].tenant = user[u].tenant
                        \/ (user[u].org \in Orgs /\ user'[u].tenant \in Tenants /\ OrgOf[user'[u].tenant] = user[u].org)
  BY <1>4
<1>8. user' \in [Users -> UserRow] /\ (\A v \in Users \ {u} : user'[v] = user[v]) /\ user'[u].org = user[u].org
  BY <1>4
<1> QED
  BY <1>5, <1>6, <1>7, <1>8, UserKeeps

LEMMA AnswerRequestKeeps ==
    ASSUME MembershipInv, NEW s \in Sessions, AnswerRequest(s)
    PROVE  MembershipInv'
<1> PICK r : r = call[s].on
  OBVIOUS
<1> PICK st : st = IF call[s].op = "approve" THEN "APPROVED" ELSE "REJECTED"
  OBVIOUS
<1>1. /\ call[s].op \in {"approve", "reject"} /\ request' = [request EXCEPT ![r].status = st] /\ End(s)
      /\ UNCHANGED <<user, isDefault, invitation, moved, disturbed, granted>>
  BY DEF AnswerRequest, Runs
<1>2. r \in Requests /\ request[r].status # "ABSENT" /\ st \in {"APPROVED", "REJECTED"}
  BY <1>1 DEF MembershipInv, CallsOK, RefersInv, Shape, Refers
<1>3. request \in [Requests -> RequestRow]
  BY DEF MembershipInv, RowsOK
<1>4. /\ request' \in [Requests -> RequestRow] /\ \A q \in Requests \ {r} : request'[q] = request[q]
      /\ request'[r].status = st /\ request'[r].user = request[r].user /\ request'[r].org = request[r].org
  BY <1>1, <1>2, <1>3 DEF RequestRow
<1>5. RowsOK'
  BY <1>1, <1>2, <1>4 DEF MembershipInv, RowsOK, UserRow, InviteRow, Customer, Roles
<1>6. Goes(s, Idle) /\ ~Gives(Idle) /\ ~Grips(Idle) /\ Refers(Idle)' /\ Shape(Idle)
  BY <1>1, EndGoes, IdleCall DEF MembershipInv, Gives, Grips, Refers, Answers
<1>7. ~Gives(call[s]) /\ ~Grips(call[s])
  BY <1>1 DEF Gives, Grips, Answers
<1>8. CallsOK'
  BY <1>6, CallsKept DEF MembershipInv
<1>9. RefersInv'
  <2>1. /\ \A q \in Requests : request[q].status # "ABSENT" => request'[q].status # "ABSENT"
        /\ \A i \in Invitations : invitation[i].status # "ABSENT" => invitation'[i].status # "ABSENT"
        /\ moved \subseteq moved' /\ \A u \in Users : user'[u].org = user[u].org
    BY <1>1, <1>2, <1>4
  <2> QED
    BY <1>6, <2>1, RefersKept DEF MembershipInv
<1>10. TenantMatchesOrganization'
  BY <1>1 DEF MembershipInv, TenantMatchesOrganization
<1>11. DefaultInv' /\ AnswerInv'
  BY <1>1, <1>6, <1>7, DefaultsKept, AnswersKept DEF MembershipInv
<1>12. PendingInv'
  <2>1. \A u \in Users : PendingRequests(u)' \subseteq PendingRequests(u) /\ PendingInvitations(u)' = PendingInvitations(u)
    BY <1>1, <1>2, <1>4 DEF PendingInvitations, PendingRequests
  <2> QED
    BY <1>1, <2>1 DEF MembershipInv, PendingInv
<1> QED
  BY <1>5, <1>8, <1>9, <1>10, <1>11, <1>12 DEF MembershipInv

-----------------------------------------------------------------------------
(* The default tenant.                                                     *)

LEMMA ClearDefaultsKeeps ==
    ASSUME MembershipInv, NEW s \in Sessions, ClearDefaults(s)
    PROVE  MembershipInv'
<1> PICK o : o = call[s].org
  OBVIOUS
<1>1. /\ call[s].op = "setDefault" /\ call[s].pc = "write" /\ To(s, "mark") /\ isDefault' = ClearDefault(o)
      /\ disturbed' = disturbed \cup {p \in {o} : \E x \in Sessions \ {s} : Gives(call[x]) /\ call[x].org = p}
      /\ UNCHANGED <<user, request, invitation, moved, granted>>
  BY DEF ClearDefaults, Runs, Gives
<1>2. o \in Orgs /\ Shape(call[s]) /\ Refers(call[s])
  BY <1>1 DEF MembershipInv, CallsOK, RefersInv, Shape
<1>3. PICK c \in CallType : /\ Goes(s, c) /\ c.pc = "mark" /\ c.op = call[s].op /\ c.by = call[s].by
                            /\ c.on = call[s].on /\ c.give = call[s].give /\ c.org = o /\ c.got = call[s].got
  BY <1>1, ToGoes DEF MembershipInv, Points
<1>4. Shape(c) /\ Refers(c)'
  BY <1>1, <1>2, <1>3 DEF Shape, Refers, Answers
<1>5. isDefault' \in [Tenants -> BOOLEAN] /\ \A t \in Tenants : isDefault'[t] <=> isDefault[t] /\ OrgOf[t] # o
  BY <1>1 DEF ClearDefault, MembershipInv, RowsOK
<1>6. RowsOK'
  BY <1>1, <1>5 DEF MembershipInv, RowsOK, UserRow, RequestRow, InviteRow, Customer, Roles
<1>7. CallsOK'
  BY <1>3, <1>4, CallsKept DEF MembershipInv
<1>8. RefersInv'
  BY <1>1, <1>3, <1>4, RefersKept DEF MembershipInv
<1>9. TenantMatchesOrganization'
  BY <1>1 DEF MembershipInv, TenantMatchesOrganization
<1>10. PendingInv' /\ AnswerInv'
  <2>1. ~Grips(c) /\ ~Grips(call[s])
    BY <1>1, <1>3 DEF Grips, Answers
  <2> QED
    BY <1>1, <1>3, <2>1, PendingKept, AnswersKept DEF MembershipInv
<1>11. DefaultInv'
  <2> SUFFICES ASSUME NEW p \in Orgs, p \notin disturbed'
               PROVE  /\ \A x, y \in Givers(p)' : x = y
                      /\ Givers(p)' # {} => Defaults(p)' = {}
                      /\ Givers(p)' = {} => \E t \in Tenants : Defaults(p)' = {t}
    BY DEF DefaultInv
  <2>1. /\ \A x, y \in Givers(p) : x = y
        /\ Givers(p) # {} => Defaults(p) = {}
        /\ Givers(p) = {} => \E t \in Tenants : Defaults(p) = {t}
    BY <1>1 DEF MembershipInv, DefaultInv
  <2>2. \A x \in Sessions \ {s} : (Gives(call[x]) <=> Gives(call'[x])) /\ call'[x].org = call[x].org
    BY <1>3 DEF Goes, Alike, Gives
  <2>3. call'[s] = c /\ Gives(c) /\ ~Gives(call[s])
    BY <1>1, <1>3 DEF Goes, Gives
  <2>4. CASE p = o
    <3>1. \A x \in Sessions \ {s} : ~(Gives(call[x]) /\ call[x].org = p)
      BY <1>1, <2>4
    <3>2. Givers(p)' = {s}
      BY <1>3, <2>2, <2>3, <2>4, <3>1 DEF Givers
    <3>3. Defaults(p)' = {}
      BY <1>5, <2>4 DEF Defaults
    <3> QED
      BY <3>2, <3>3
  <2>5. CASE p # o
    <3>1. Givers(p)' = Givers(p)
      BY <1>3, <2>2, <2>3, <2>5 DEF Givers
    <3>2. Defaults(p)' = Defaults(p)
      BY <1>5, <2>5 DEF Defaults
    <3> QED
      BY <2>1, <3>1, <3>2
  <2> QED
    BY <2>4, <2>5
<1> QED
  BY <1>6, <1>7, <1>8, <1>9, <1>10, <1>11 DEF MembershipInv

LEMMA GiveDefaultKeeps ==
    ASSUME MembershipInv, NEW s \in Sessions, GiveDefault(s)
    PROVE  MembershipInv'
<1> PICK o : o = call[s].org
  OBVIOUS
<1> PICK t : t = call[s].on
  OBVIOUS
<1>1. /\ call[s].op = "setDefault" /\ call[s].pc = "mark" /\ End(s) /\ isDefault' = [isDefault EXCEPT ![t] = TRUE]
      /\ UNCHANGED <<user, request, invitation, moved, disturbed, granted>>
  BY DEF GiveDefault, Runs
<1>2. o \in Orgs /\ t \in Tenants /\ OrgOf[t] = o
  BY <1>1 DEF MembershipInv, CallsOK, Shape
<1>3. Goes(s, Idle) /\ ~Gives(Idle) /\ ~Grips(Idle) /\ Refers(Idle)' /\ Shape(Idle)
  BY <1>1, EndGoes, IdleCall DEF MembershipInv, Gives, Grips, Refers, Answers
<1>4. isDefault \in [Tenants -> BOOLEAN]
  BY DEF MembershipInv, RowsOK
<1>5. isDefault' \in [Tenants -> BOOLEAN] /\ isDefault'[t] /\ \A x \in Tenants \ {t} : isDefault'[x] = isDefault[x]
  BY <1>1, <1>2, <1>4
<1>6. RowsOK'
  BY <1>1, <1>5 DEF MembershipInv, RowsOK, UserRow, RequestRow, InviteRow, Customer, Roles
<1>7. CallsOK'
  BY <1>3, CallsKept DEF MembershipInv
<1>8. RefersInv'
  BY <1>1, <1>3, RefersKept DEF MembershipInv
<1>9. TenantMatchesOrganization'
  BY <1>1 DEF MembershipInv, TenantMatchesOrganization
<1>10. PendingInv' /\ AnswerInv'
  <2>1. ~Grips(call[s])
    BY <1>1 DEF Grips, Answers
  <2> QED
    BY <1>1, <1>3, <2>1, PendingKept, AnswersKept DEF MembershipInv
<1>11. DefaultInv'
  <2> SUFFICES ASSUME NEW p \in Orgs, p \notin disturbed
               PROVE  /\ \A x, y \in Givers(p)' : x = y
                      /\ Givers(p)' # {} => Defaults(p)' = {}
                      /\ Givers(p)' = {} => \E d \in Tenants : Defaults(p)' = {d}
    BY <1>1 DEF DefaultInv
  <2>1. /\ \A x, y \in Givers(p) : x = y
        /\ Givers(p) # {} => Defaults(p) = {}
        /\ Givers(p) = {} => \E d \in Tenants : Defaults(p) = {d}
    BY DEF MembershipInv, DefaultInv
  <2>2. \A x \in Sessions \ {s} : (Gives(call[x]) <=> Gives(call'[x])) /\ call'[x].org = call[x].org
    BY <1>3 DEF Goes, Alike, Gives
  <2>3. call'[s] = Idle /\ Gives(call[s])
    BY <1>1, <1>3 DEF Goes, Gives
  <2>4. CASE p = o
    <3>1. s \in Givers(p)
      BY <2>3, <2>4 DEF Givers
    <3>2. Givers(p)' = {} /\ Defaults(p) = {}
      <4>1. \A x \in Sessions : x \in Givers(p) => x = s
        BY <2>1, <3>1
      <4>2. Defaults(p) = {}
        BY <2>1, <3>1
      <4>3. \A x \in Sessions : ~(Gives(call'[x]) /\ call'[x].org = p)
        BY <1>3, <2>2, <2>3, <4>1 DEF Givers
      <4> QED
        BY <4>2, <4>3 DEF Givers, Gives
    <3>3. Defaults(p)' = {t}
      BY <1>2, <1>5, <2>4, <3>2 DEF Defaults
    <3> QED
      BY <1>2, <3>2, <3>3
  <2>5. CASE p # o
    <3>1. Givers(p)' = Givers(p)
      BY <1>3, <2>2, <2>3, <2>5 DEF Givers
    <3>2. Defaults(p)' = Defaults(p)
      BY <1>2, <1>5, <2>5 DEF Defaults
    <3> QED
      BY <2>1, <3>1, <3>2
  <2> QED
    BY <2>4, <2>5
<1> QED
  BY <1>6, <1>7, <1>8, <1>9, <1>10, <1>11 DEF MembershipInv

\* An action dies between two of its steps: what it owed is accounted for.
LEMMA LoseKeeps ==
    ASSUME MembershipInv, NEW s \in Sessions, Lose(s)
    PROVE  MembershipInv'
<1>1. End(s) /\ UNCHANGED <<tables, moved, granted>> /\ disturbed \subseteq disturbed'
  BY DEF Lose
<1>2. Gives(call[s]) => call[s].org \in disturbed'
  BY DEF Lose, Gives
<1>3. Grips(call[s]) /\ call[s].pc = "mark" => call[s].got \in disturbed'
  <2>1. Shape(call[s])
    BY DEF MembershipInv, CallsOK
  <2> QED
    BY <2>1 DEF Lose, Grips, Shape, Answers
<1> USE DEF tables
<1>4. Goes(s, Idle) /\ ~Gives(Idle) /\ ~Grips(Idle) /\ Refers(Idle)' /\ Shape(Idle)
  BY <1>1, EndGoes, IdleCall DEF MembershipInv, Gives, Grips, Refers, Answers
<1>5. RowsOK' /\ CallsOK'
  BY <1>1, <1>4, CallsKept DEF MembershipInv, RowsOK, UserRow, RequestRow, InviteRow, Customer, Roles
<1>6. RefersInv' /\ TenantMatchesOrganization'
  BY <1>1, <1>4, RefersKept DEF MembershipInv, TenantMatchesOrganization
<1>7. PendingInv'
  BY <1>1, PendingKept DEF MembershipInv
<1>8. DefaultInv'
  <2> SUFFICES ASSUME NEW o \in Orgs, o \notin disturbed'
               PROVE  /\ \A x, y \in Givers(o)' : x = y
                      /\ Givers(o)' # {} => Defaults(o)' = {}
                      /\ Givers(o)' = {} => \E t \in Tenants : Defaults(o)' = {t}
    BY DEF DefaultInv
  <2>1. \A x \in Sessions \ {s} : (Gives(call[x]) <=> Gives(call'[x])) /\ call'[x].org = call[x].org
    BY <1>4 DEF Goes, Alike, Gives
  <2>2. ~(Gives(call[s]) /\ call[s].org = o) /\ ~Gives(call'[s])
    BY <1>2, <1>4 DEF Goes
  <2>3. Givers(o)' = Givers(o) /\ Defaults(o)' = Defaults(o)
    BY <1>1, <2>1, <2>2 DEF Givers, Defaults
  <2> QED
    BY <1>1, <2>3 DEF MembershipInv, DefaultInv
<1>9. AnswerInv'
  <2> SUFFICES ASSUME NEW j \in Invitations, j \notin disturbed'
               PROVE  /\ \A p, q \in Holders(j)' : p = q
                      /\ \A p \in Holders(j)' : invitation[j].status = "PENDING" /\ (j \in granted <=> call'[p].pc = "mark")
                      /\ Holders(j)' = {} => (invitation[j].status = "ACCEPTED" <=> j \in granted)
    BY <1>1 DEF AnswerInv
  <2>1. /\ \A p, q \in Holders(j) : p = q
        /\ \A p \in Holders(j) : invitation[j].status = "PENDING" /\ (j \in granted <=> call[p].pc = "mark")
        /\ Holders(j) = {} => (invitation[j].status = "ACCEPTED" <=> j \in granted)
    BY <1>1 DEF MembershipInv, AnswerInv
  <2>2. Holders(j)' = Holders(j) \ {s} /\ \A p \in Holders(j) \ {s} : call'[p].pc = call[p].pc
    BY <1>4 DEF Goes, Alike, Holders, Grips
  <2>3. CASE s \in Holders(j)
    <3>1. invitation[j].status = "PENDING" /\ j \notin granted
      BY <1>3, <2>1, <2>3 DEF Holders
    <3> QED
      BY <2>1, <2>2, <3>1
  <2>4. CASE s \notin Holders(j)
    BY <2>1, <2>2, <2>4
  <2> QED
    BY <2>3, <2>4
<1> QED
  BY <1>5, <1>6, <1>7, <1>8, <1>9 DEF MembershipInv

-----------------------------------------------------------------------------
(* The inductive invariant.                                                *)

LEMMA InitialInv == MembershipInit => MembershipInv
<1> SUFFICES ASSUME MembershipInit PROVE MembershipInv
  OBVIOUS
<1>1. /\ user = InitialUsers /\ isDefault = [t \in Tenants |-> InitialDefaults[OrgOf[t]] = t]
      /\ call = [s \in Sessions |-> Idle] /\ granted = {}
  BY DEF MembershipInit
<1>2. /\ InitialUsers \in [Users -> UserRow] /\ InitialDefaults \in [Orgs -> Tenants]
      /\ \A u \in Users : IF InitialUsers[u].org = None THEN InitialUsers[u].tenant = None
                           ELSE InitialUsers[u].tenant \in Tenants /\ OrgOf[InitialUsers[u].tenant] = InitialUsers[u].org
  BY MembershipStart DEF UserRow
<1>3. OrgOf \in [Tenants -> Orgs] /\ \A o \in Orgs : OrgOf[InitialDefaults[o]] = o
  BY MembershipBounds
<1>4. ASSUME NEW r \in Requests
      PROVE  \/ request[r] = NoRow
             \/ r \in DOMAIN OpenRequests /\ request[r] = OpenRequests[r]
                /\ request[r] \in [org : Orgs, user : Users, status : {"PENDING"}]
  BY MembershipStart DEF MembershipInit
<1>5. ASSUME NEW i \in Invitations
      PROVE  \/ invitation[i] = NoInvite
             \/ i \in DOMAIN OpenInvitations /\ invitation[i] = OpenInvitations[i]
                /\ invitation[i] \in [org : Orgs, tenant : Tenants, user : Users, role : Customer, status : {"PENDING"}]
                /\ OrgOf[invitation[i].tenant] = invitation[i].org
  BY MembershipStart DEF MembershipInit
<1>6. NoRow \in RequestRow /\ NoRow.status = "ABSENT" /\ NoInvite \in InviteRow /\ NoInvite.status = "ABSENT"
  BY DEF NoRow, RequestRow, NoInvite, InviteRow
<1>7. request \in [Requests -> RequestRow] /\ \A r \in Requests : request[r].status # "ABSENT" => request[r].org \in Orgs /\ request[r].user \in Users
  <2>1. \A r \in Requests : request[r] \in RequestRow /\ (request[r].status # "ABSENT" => request[r].org \in Orgs /\ request[r].user \in Users)
    BY <1>4, <1>6 DEF RequestRow
  <2>2. request = [r \in Requests |-> request[r]]
    BY DEF MembershipInit
  <2> QED
    BY <2>1, <2>2
<1>8. /\ invitation \in [Invitations -> InviteRow]
      /\ \A i \in Invitations : invitation[i].status # "ABSENT" =>
           /\ invitation[i].org \in Orgs /\ invitation[i].tenant \in Tenants /\ invitation[i].role \in Customer
           /\ invitation[i].user \in Users /\ OrgOf[invitation[i].tenant] = invitation[i].org
  <2>1. \A i \in Invitations :
          /\ invitation[i] \in InviteRow
          /\ invitation[i].status # "ABSENT" =>
               /\ invitation[i].org \in Orgs /\ invitation[i].tenant \in Tenants /\ invitation[i].role \in Customer
               /\ invitation[i].user \in Users /\ OrgOf[invitation[i].tenant] = invitation[i].org
    BY <1>5, <1>6 DEF InviteRow
  <2>2. invitation = [i \in Invitations |-> invitation[i]]
    BY DEF MembershipInit
  <2> QED
    BY <2>1, <2>2
<1>9. RowsOK
  BY <1>1, <1>2, <1>7, <1>8 DEF RowsOK
<1>10. CallsOK
  BY <1>1, IdleCall DEF CallsOK
<1>11. RefersInv
  BY <1>1, IdleCall DEF RefersInv, Refers, Answers
<1>12. TenantMatchesOrganization
  BY <1>1, <1>2 DEF TenantMatchesOrganization
<1>13. DefaultInv
  <2>1. ASSUME NEW o \in Orgs PROVE Givers(o) = {}
    BY <1>1, IdleCall DEF Givers, Gives
  <2>2. ASSUME NEW o \in Orgs PROVE Defaults(o) = {InitialDefaults[o]} /\ InitialDefaults[o] \in Tenants
    <3>1. InitialDefaults[o] \in Tenants /\ OrgOf[InitialDefaults[o]] = o
      BY <1>2, <1>3
    <3>2. \A t \in Tenants : isDefault[t] <=> InitialDefaults[OrgOf[t]] = t
      BY <1>1
    <3> QED
      BY <3>1, <3>2 DEF Defaults
  <2> QED
    BY <2>1, <2>2 DEF DefaultInv
<1>14. PendingInv
  <2>1. ASSUME NEW u \in Users, NEW r \in PendingRequests(u), NEW q \in PendingRequests(u) PROVE r = q
    <3>1. /\ r \in DOMAIN OpenRequests /\ q \in DOMAIN OpenRequests
          /\ OpenRequests[r].user = u /\ OpenRequests[q].user = u
      BY <1>4, <1>6 DEF PendingRequests
    <3> QED
      BY <3>1, MembershipStart
  <2>2. ASSUME NEW u \in Users, NEW i \in PendingInvitations(u), NEW j \in PendingInvitations(u) PROVE i = j
    <3>1. /\ i \in DOMAIN OpenInvitations /\ j \in DOMAIN OpenInvitations
          /\ OpenInvitations[i].user = u /\ OpenInvitations[j].user = u
      BY <1>5, <1>6 DEF PendingInvitations
    <3> QED
      BY <3>1, MembershipStart
  <2> QED
    BY <2>1, <2>2 DEF PendingInv
<1>15. AnswerInv
  <2>1. ASSUME NEW i \in Invitations PROVE Holders(i) = {} /\ invitation[i].status # "ACCEPTED"
    BY <1>1, <1>5, <1>6, IdleCall DEF Holders, Grips, Answers
  <2> QED
    BY <1>1, <2>1 DEF AnswerInv
<1> QED
  BY <1>9, <1>10, <1>11, <1>12, <1>13, <1>14, <1>15 DEF MembershipInv

LEMMA NextKeeps == MembershipInv /\ [MembershipNext]_vars => MembershipInv'
<1> SUFFICES ASSUME MembershipInv, [MembershipNext]_vars PROVE MembershipInv'
  OBVIOUS
<1>1. CASE UNCHANGED vars
  <2>1. RowsOK' /\ TenantMatchesOrganization'
    BY <1>1 DEF vars, tables, MembershipInv, RowsOK, TenantMatchesOrganization, UserRow, RequestRow, InviteRow, Customer, Roles
  <2>2. CallsOK'
    BY <1>1 DEF vars, MembershipInv, CallsOK, Shape, CallType, Ops, Answers, Points, Subjects, Gifts, Customer, Roles
  <2>3. RefersInv' /\ DefaultInv'
    BY <1>1 DEF vars, tables, MembershipInv, RefersInv, Refers, DefaultInv, Givers, Gives, Defaults
  <2>4. PendingInv' /\ AnswerInv'
    BY <1>1 DEF vars, tables, MembershipInv, PendingInv, PendingRequests, PendingInvitations, AnswerInv, Holders, Grips
  <2> QED
    BY <2>1, <2>2, <2>3, <2>4 DEF MembershipInv
<1>2. CASE MembershipNext
  <2>1. PICK s \in Sessions : (\E u \in Users : Begin(s, u)) \/ MembershipStep(s)
    BY <1>2 DEF MembershipNext
  <2>2. CASE \E u \in Users : Begin(s, u)
    BY <2>2, BeginKeeps
  <2>3. CASE MembershipStep(s)
    <3>1. CASE FindPendingRequest(s) \/ CreateMembershipRequest(s) \/ FindPendingInvitation(s) \/ CreateInvitation(s)
      BY <3>1, FindPendingRequestKeeps, CreateRequestKeeps, FindPendingInvitationKeeps, CreateInvitationKeeps
    <3>2. CASE FindOwnInvitation(s) \/ AcceptAssign(s) \/ AcceptMark(s) \/ Decline(s) \/ FindRevocable(s) \/ Revoke(s)
      BY <3>2, FindOwnKeeps, AcceptAssignKeeps, AnswerKeeps, FindRevocableKeeps
    <3>3. CASE FindRequest(s) \/ FindDefaultTenant(s) \/ ApproveAssign(s) \/ AnswerRequest(s)
      BY <3>3, FindRequestKeeps, FindDefaultTenantKeeps, ApproveAssignKeeps, AnswerRequestKeeps
    <3>4. CASE FindTenant(s) \/ ClearDefaults(s) \/ GiveDefault(s) \/ FindMember(s)
      BY <3>4, FindTenantKeeps, ClearDefaultsKeeps, GiveDefaultKeeps, FindMemberKeeps
    <3>5. CASE UpdateUserTenant(s) \/ SetPortalUserRole(s) \/ Lose(s)
      BY <3>5, UpdateUserTenantKeeps, SetPortalUserRoleKeeps, LoseKeeps
    <3> QED
      BY <2>3, <3>1, <3>2, <3>3, <3>4, <3>5 DEF MembershipStep
  <2> QED
    BY <2>1, <2>2, <2>3
<1> QED
  BY <1>1, <1>2

\* Rows keep their types, an action between two awaited statements still refers to what it read, and each
\* organization's default tenant, each user's pending rows and each invitation's answer are accounted for.
THEOREM MembershipCorrect == MembershipSpec => []MembershipInv
<1> QED
  BY InitialInv, NextKeeps, PTL DEF MembershipSpec

-----------------------------------------------------------------------------
(* What the runs check, for every value of the constants.                  *)

\* A set without two elements has at most one.
LEMMA AtMostOne ==
    ASSUME NEW S, \A x, y \in S : x = y
    PROVE  Cardinality(S) <= 1
<1>1. CASE S = {}
  BY <1>1, FS_EmptySet
<1>2. CASE S # {}
  <2>1. PICK x \in S : TRUE
    BY <1>2
  <2>2. S = {x}
    BY <2>1
  <2>3. Cardinality({x}) = 1
    BY FS_Singleton
  <2> QED
    BY <2>2, <2>3
<1> QED
  BY <1>1, <1>2

\* A member who was never taken to another organization sits in a tenant of the member's organization; an organization
\* has exactly one default tenant while nobody is changing it; a user has one pending request and one pending
\* invitation at most; an invitation reads ACCEPTED exactly when its place was taken up.  Exempt is only what
\* two overlapping actions wrote at once or a dying one left half written.
THEOREM MembershipStaysConsistent == MembershipSpec => []MembershipIsConsistent
<1>1. MembershipInv => MembershipIsConsistent
  <2> SUFFICES ASSUME MembershipInv PROVE MembershipIsConsistent
    OBVIOUS
  <2>1. MembershipTypeOK
    <3>1. /\ user \in [Users -> [org : Orgs \cup {None}, tenant : Tenants \cup {None}, role : Roles]]
          /\ isDefault \in [Tenants -> BOOLEAN]
          /\ \A r \in Requests : request[r].status \in {"ABSENT", "PENDING", "APPROVED", "REJECTED"}
          /\ \A i \in Invitations : invitation[i].status \in {"ABSENT", "PENDING", "ACCEPTED", "DECLINED", "REVOKED"}
      BY DEF MembershipInv, RowsOK, UserRow, RequestRow, InviteRow
    <3>2. ASSUME NEW s \in Sessions
          PROVE  /\ call[s].pc \in {"idle", "read", "default", "write", "mark"}
                 /\ Runs(s, {"approve"}, "write") => call[s].got \in Tenants
                 /\ call[s].pc = "mark" => call[s].op \in {"accept", "approve", "reject", "setDefault"}
      BY DEF MembershipInv, CallsOK, CallType, Points, Ops, Answers, Shape, Runs
    <3> QED
      BY <3>1, <3>2 DEF MembershipTypeOK
  <2>2. OneDefaultTenant
    <3> SUFFICES ASSUME NEW o \in Orgs, o \notin disturbed,
                        ~\E s \in Sessions : Runs(s, {"setDefault"}, "mark") /\ call[s].org = o
                 PROVE  Cardinality(Defaults(o)) = 1
      BY DEF OneDefaultTenant, Defaults
    <3>1. Givers(o) = {}
      BY DEF Givers, Gives, Runs
    <3>2. PICK t \in Tenants : Defaults(o) = {t}
      BY <3>1 DEF MembershipInv, DefaultInv
    <3> QED
      BY <3>2, FS_Singleton
  <2>3. OnePending
    <3> SUFFICES ASSUME NEW u \in Users, u \notin disturbed
                 PROVE  Cardinality(PendingRequests(u)) <= 1 /\ Cardinality(PendingInvitations(u)) <= 1
      BY DEF OnePending, PendingRequests, PendingInvitations
    <3> QED
      BY AtMostOne DEF MembershipInv, PendingInv
  <2>4. InvitationTellsTheTruth
    <3> SUFFICES ASSUME NEW i \in Invitations, i \notin disturbed,
                        ~\E s \in Sessions : Runs(s, {"accept"}, "mark") /\ call[s].got = i
                 PROVE  invitation[i].status = "ACCEPTED" <=> i \in granted
      BY DEF InvitationTellsTheTruth
    <3>1. /\ \A s \in Holders(i) : invitation[i].status = "PENDING" /\ (i \in granted <=> call[s].pc = "mark")
          /\ Holders(i) = {} => (invitation[i].status = "ACCEPTED" <=> i \in granted)
      BY DEF MembershipInv, AnswerInv
    <3>2. ASSUME NEW s \in Holders(i) PROVE call[s].pc # "mark"
      BY DEF Holders, Grips, Runs, MembershipInv, CallsOK, Shape, Answers
    <3> QED
      BY <3>1, <3>2
  <2> QED
    BY <2>1, <2>2, <2>3, <2>4 DEF MembershipIsConsistent, MembershipInv
<1> QED
  BY <1>1, MembershipCorrect, PTL

\* Nobody who belongs to an organization is taken to another one but by the approval of a request of the user's
\* own or by an acceptance that another write had overtaken.
THEOREM MovesStayLate == MembershipSpec => MovesOnlyByLateAnswers
<1> DEFINE Late == \A u \in moved' \ moved : \E s \in Sessions :
                      \/ Runs(s, {"approve"}, "write") /\ request[call[s].on].user = u
                      \/ Runs(s, {"accept"}, "write") /\ call[s].by = u /\ call[s].late
<1>1. MembershipInv /\ [MembershipNext]_vars => [Late]_vars
  <2> SUFFICES ASSUME MembershipInv, MembershipNext, NEW u \in moved', u \notin moved
               PROVE  \E s \in Sessions : \/ Runs(s, {"approve"}, "write") /\ request[call[s].on].user = u
                                          \/ Runs(s, {"accept"}, "write") /\ call[s].by = u /\ call[s].late
    OBVIOUS
  <2>1. PICK s \in Sessions : (\E v \in Users : Begin(s, v)) \/ MembershipStep(s)
    BY DEF MembershipNext
  <2>2. AcceptAssign(s) \/ ApproveAssign(s)
    <3>1. ~UNCHANGED moved
      OBVIOUS
    <3>2. \A v \in Users : ~Begin(s, v)
      BY <3>1 DEF Begin
    <3>3. ~(FindPendingRequest(s) \/ CreateMembershipRequest(s) \/ FindPendingInvitation(s) \/ CreateInvitation(s))
      BY <3>1 DEF FindPendingRequest, CreateMembershipRequest, FindPendingInvitation, CreateInvitation
    <3>4. ~(FindOwnInvitation(s) \/ AcceptMark(s) \/ Decline(s) \/ FindRevocable(s) \/ Revoke(s))
      BY <3>1 DEF FindOwnInvitation, AcceptMark, Decline, FindRevocable, Revoke, Resolve
    <3>5. ~(FindRequest(s) \/ FindDefaultTenant(s) \/ AnswerRequest(s) \/ FindTenant(s) \/ ClearDefaults(s))
      BY <3>1 DEF FindRequest, FindDefaultTenant, AnswerRequest, FindTenant, ClearDefaults
    <3>6. ~(GiveDefault(s) \/ FindMember(s) \/ UpdateUserTenant(s) \/ SetPortalUserRole(s) \/ Lose(s))
      BY <3>1 DEF GiveDefault, FindMember, UpdateUserTenant, SetPortalUserRole, Lose
    <3> QED
      BY <2>1, <3>2, <3>3, <3>4, <3>5, <3>6 DEF MembershipStep
  <2>3. CASE ApproveAssign(s)
    <3>1. Runs(s, {"approve"}, "write") /\ u = request[call[s].on].user
      BY <2>3 DEF ApproveAssign, Assign
    <3> QED
      BY <3>1
  <2>4. CASE AcceptAssign(s)
    <3>1. Runs(s, {"accept"}, "write") /\ u = call[s].by /\ user[u].org # None
      BY <2>4 DEF AcceptAssign, Assign
    <3>2. call[s].late
      <4>1. call[s].op = "accept" /\ call[s].pc = "write" /\ Refers(call[s])
        BY <3>1 DEF Runs, MembershipInv, RefersInv
      <4> QED
        BY <3>1, <4>1 DEF Refers
    <3> QED
      BY <3>1, <3>2
  <2> QED
    BY <2>2, <2>3, <2>4
<1> QED
  BY <1>1, MembershipCorrect, PTL DEF MembershipSpec, MovesOnlyByLateAnswers
===============================================================================
