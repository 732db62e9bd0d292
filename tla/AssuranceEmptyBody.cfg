\* A factor lookup may be answered by an empty 2xx body.
CONSTANTS
    None = None
    Keep = Keep
    Browsers = {b1}
    Requests = {r1, r2}
    Factors = {f1}
    Aal1 = {s1, s2}
    Aal2 = {t1, t2}
    EmptyBodies = TRUE
SPECIFICATION Spec
SYMMETRY Symmetry
INVARIANT IssueAssured
