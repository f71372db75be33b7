CONSTANTS
    Trans = {t1, t2}
    NoTrans = NoTrans
    IsRoot = FALSE
    Dropping = {}
SPECIFICATION Spec
INVARIANT CurrentVersionReadable
CHECK_DEADLOCK FALSE
