SPECIFICATION FairSpec
CONSTANTS
    NULL = NULL
    Thread = {t1, t2, t3}
    Relockers = {t1}
    Width = 3
INVARIANTS TypeOK MutualExclusion OwnerIsInside
PROPERTIES LockSpec LockHandedOn
CHECK_DEADLOCK FALSE
