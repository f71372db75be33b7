\* An account is told to be made, while its files are not there: violated.
SPECIFICATION Spec
CONSTANTS
  Page = {p1, p2}
  MaxAsks = 4
  MaxFaults = 1
  Overlapping = {"3nstorage"}
  None = None
INVARIANT StructureIsConstructed
CHECK_DEADLOCK FALSE
