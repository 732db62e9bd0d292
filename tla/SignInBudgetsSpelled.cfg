CONSTANTS
    Unattributed = Unattributed
    mail = mail
    phone = phone
    p = p
    q = q
    Buckets <- MCBuckets
    Keys <- MCKeys
    Limit <- MCLimit
    Window <- MCWindow
    TicksPerSec = 2
    MaxTracked = 2
    MaxTime = 2
    MaxBoots = 1
    Handlers = {h1, h2, h3}
    Requests <- MCRequests
SPECIFICATION BudgetsSpec
SYMMETRY HandlerSymmetry
INVARIANT VariantsShareABudget
CHECK_DEADLOCK FALSE
