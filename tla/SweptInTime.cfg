CONSTANTS
    Sid = {s1, s2}
    Req = {r1, r2, r3}
    NoSid = NoSid
    Timeout = 2
    Period = 1
SPECIFICATION SessionsSpec
INVARIANT SweptInTime
CHECK_DEADLOCK FALSE
