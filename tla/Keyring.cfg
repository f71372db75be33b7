\* Two correspondents, with up to two messages of each, one restart and one update.
CONSTANTS
    User = {ann, bob}
    NoKey = NoKey
    NoPair = NoPair
    NoMsg = NoMsg
    MaxMsgs = 2
    Updating = {bob}
    MaxUpdates = 1
    MaxRestarts = 1
SPECIFICATION Spec
INVARIANTS
    Readable
    Absorbable
    CanReply
PROPERTIES
    StaysEstablished
\* Users may stop writing.
CHECK_DEADLOCK FALSE
