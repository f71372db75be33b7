SPECIFICATION Spec
CONSTANTS
  Calls = 3
  MaxRunning = 2
  User = {u1, u2}
  Known = {u1}
  None = None
INVARIANTS SignerIsWhole OnlyRightPass IdleNotStuck
PROPERTY AloneSucceeds
CHECK_DEADLOCK FALSE
