CONSTANTS
    Dir = Dir
    File = {f1}
    Change = {c1}
    NoTask = NoTask
    NoCall = NoCall
    MaxFaults = 0
SPECIFICATION Spec
INVARIANT AllChangesAreWritten
CHECK_DEADLOCK FALSE
