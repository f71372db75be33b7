CONSTANTS
    Trans = {t1, t2}
    NoTrans = NoTrans
    IsRoot = FALSE
    Dropping = {t1}
SPECIFICATION Spec
INVARIANT BytesInOwnTransaction
CHECK_DEADLOCK FALSE
