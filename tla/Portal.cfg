CONSTANTS
    u = u
    v = v
    o = o
    p = p
    Tokens = {t1, t2, t3}
    Orgs = {o, p}
    SiteMode = FALSE
    Users = {u, v}
    Memberships <- MCMemberships
    Requests = {r1}
SPECIFICATION Spec
SYMMETRY TokenSymmetry
INVARIANTS
    TypeOK
    FormActsForItsAccount
    GateTellsOursApart
    NeverDowngrades
