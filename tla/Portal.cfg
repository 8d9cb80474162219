SPECIFICATION PortalSpec
CONSTANTS
    ada = ada
    bob = bob
    eve = eve
    root = root
    acme = acme
    globex = globex
    a1 = a1
    a2 = a2
    g1 = g1
    q1 = q1
    q2 = q2
    i1 = i1
    i2 = i2
    p1 = p1
    p2 = p2
    d1 = d1
    e1 = e1
    e2 = e2
    s1 = s1
    s2 = s2
    ann = ann
    l1 = l1
    l2 = l2
    None = None
    Users = {ada, bob, eve, root}
    Orgs = {acme, globex}
    Tenants = {a1, a2, g1}
    OrgOf <- MCOrgOf
    InitialUsers <- MCUsers
    InitialDefaults <- MCDefaults
    OpenRequests <- MCRequests
    OpenInvitations <- MCInvitations
    Requests = {q1, q2}
    Invitations = {i1, i2}
    Sessions = {s1, s2}
    MaxCalls = 3
    MaxLosses = 1
    TenantIds = {a1}
    Products = {p1, p2}
    Datasets = {d1}
    Entitlements = {e1, e2}
    Actors = {s1, s2}
    Blank = Blank
    MaxChanges = 2
    MaxFailures = 1
    MaxSyncs = 1
    OrgNodes = {acme}
    TenantNodes = {a1}
    ProductNodes = {p1, p2}
    DatasetNodes = {d1}
    OwnerOf <- MCOwnerOf
    NoNode = NoNode
    MaxFetches = 2
    MaxWrites = 1
    MaxMishaps = 1
    Nothing = Nothing
    Emails = {ann}
    Links = {l1, l2}
    Askers = {s1, s2}
    MaxRows = 2
    MaxStarts = 4
INVARIANTS MembershipIsConsistent CopiesFollow  AccountsAreSafe
PROPERTIES MovesOnlyByLateAnswers
SYMMETRY Interchangeable
CHECK_DEADLOCK FALSE
