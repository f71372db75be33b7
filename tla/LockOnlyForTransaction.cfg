CONSTANTS
    Trans = {t1, t2}
    NoTrans = NoTrans
    IsRoot = FALSE
    Dropping = {}
SPECIFICATION Spec
INVARIANT LockOnlyForTransaction
CHECK_DEADLOCK FALSE
