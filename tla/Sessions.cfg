CONSTANTS
    Sid = {s1, s2, s3}
    Req = {r1, r2, r3}
    NoSid = NoSid
    Timeout = 2
    Period = 1
SPECIFICATION SessionsSpec
INVARIANTS
    SweptUnlessClosedTwice
    TimerFollowsCount
    FailedAuthEndsSession
CHECK_DEADLOCK FALSE
