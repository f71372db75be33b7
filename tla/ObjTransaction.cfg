\* Three concurrent or successive transactions on one object: one in progress,
\* one with late requests, since its connection has dropped, and one that starts.
CONSTANTS
    Trans = {t1, t2, t3}
    NoTrans = NoTrans
    IsRoot = FALSE
    Dropping = {t1}
SPECIFICATION FairSpec
INVARIANTS
    OneTransaction
    NoInterference
    FinalizedStays
    OwnBytes
PROPERTIES
    ImplementsVersions
    EventuallyClosed
\* All requests may be done.
CHECK_DEADLOCK FALSE
