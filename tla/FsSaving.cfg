\* A folder and a file, that is saved three times, with one failure.
CONSTANTS
    Dir = Dir
    File = {f1}
    Change = {c1, c2, c3}
    NoTask = NoTask
    NoCall = NoCall
    MaxFaults = 1
SPECIFICATION FairSpec
INVARIANTS
    NothingForgotten
PROPERTIES
    NeverBack
    EventuallySaved
\* Everything may be saved.
CHECK_DEADLOCK FALSE
