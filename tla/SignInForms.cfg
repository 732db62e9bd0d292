\* Plain form posts.
CONSTANTS
    NoTab = NoTab
    User = t1
    Tabs = {t1, t2}
    Nonces = {n1, n2, n3, n4}
    Scripted = FALSE
SPECIFICATION FairSpec
INVARIANTS
    TypeOK
    UsableForm
    StepUpRetryable
PROPERTY
    GetsIn
