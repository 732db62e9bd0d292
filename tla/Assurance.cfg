CONSTANTS
    None = None
    Keep = Keep
    Browsers = {b1}
    Requests = {r1, r2}
    Factors = {f1, f2}
    Aal1 = {s1, s2}
    Aal2 = {t1, t2}
    EmptyBodies = FALSE
SPECIFICATION Spec
SYMMETRY Symmetry
INVARIANTS
    TypeOK
    IssueAssured
    ServeAssured
    StepUpJustified
    PendingIsNeverASession
PROPERTY
    RemovalProved
