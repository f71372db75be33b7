CONSTANTS
    Msg = {m1}
    Big = {m1}
    Long = {m1}
    Fin = {f1}
SPECIFICATION Spec
INVARIANT ListedAreWhole
CHECK_DEADLOCK FALSE
