CONSTANTS
    None = None
    Subjects = {alice, bob}
    Users = {u1, u2}
    Requests = {r1, r2}
    Devices = {d1}
    Sessions = {i1, i2}
    Notes = {n1, n2}
    Page = 1
SPECIFICATION Spec
SYMMETRY Symmetry
INVARIANTS
    TypeOK
    OneUserRow
    ErrorsHaveACause
    AnswersHold
    ReadsOwnWrite
PROPERTY
    OwnRowsOnly
CHECK_DEADLOCK FALSE
