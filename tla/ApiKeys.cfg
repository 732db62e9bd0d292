CONSTANTS
    MaxKeys = 2
    Already = 1
    MaxPresses = 2
    MaxLoads = 2
SPECIFICATION FairSpec
INVARIANTS
    TypeOK
    OneEffectEach
    ListFollowsMutation
    SecretsNeverMixed
PROPERTY
    KeyLedgerImplemented
    CreationRecovers
CHECK_DEADLOCK FALSE
