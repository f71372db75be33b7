SPECIFICATION Spec
CONSTANTS
  Page = {p1, p2}
  MaxAsks = 4
  MaxFaults = 1
  Overlapping = {"3nstorage"}
  None = None
INVARIANTS RootOpens TokenIsAccepted
PROPERTIES FolderStays SignsUp
CHECK_DEADLOCK FALSE
