\* Three requests to start a transaction on a non-root object, two of them from
\* clients, whose connections may drop.
CONSTANTS
    Trans = {t1, t2, t3}
    NoTrans = NoTrans
    IsRoot = FALSE
    Dropping = {t1, t2}
SPECIFICATION Spec
INVARIANTS
    OneTransaction
    NoInterference
    FinalizedStays
    OwnBytes
PROPERTY ImplementsVersions
\* All requests may be done.
CHECK_DEADLOCK FALSE
