CONSTANTS
    None = None
    Keep = Keep
    Browsers = {b1}
    Requests = {r1}
    Factors = {f1}
    Aal1 = {s1, s2, s3}
    Aal2 = {t1, t2}
    EmptyBodies = FALSE
SPECIFICATION FairSpec
PROPERTY SignInRecovers
