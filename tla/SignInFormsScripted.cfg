\* The pages as htmx drives them.
CONSTANTS
    NoTab = NoTab
    User = t1
    Tabs = {t1}
    Nonces = {n1, n2, n3}
    Scripted = TRUE
SPECIFICATION Spec
INVARIANT UsableForm
