\* Two senders of messages that fit into one request per file.
CONSTANTS
    Msg = {m1, m2}
    Big = {}
    Long = {}
    Fin = {f1}
SPECIFICATION FairSpec
PROPERTIES
    ImplementsMailbox
    EventuallyKnown
\* All messages may be delivered and removed.
CHECK_DEADLOCK FALSE
