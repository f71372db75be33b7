\* One sender with long segments, whose completion request is repeated.
CONSTANTS
    Msg = {m1}
    Big = {m1}
    Long = {m1}
    Fin = {f1, f2}
SPECIFICATION FairSpec
INVARIANTS
    OnlyCompletedListed
    DeliveredIsKept
PROPERTIES
    EventuallyDelivered
\* A message may be delivered and removed.
CHECK_DEADLOCK FALSE
