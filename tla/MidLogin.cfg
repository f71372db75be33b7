SPECIFICATION Spec
CONSTANTS
  Calls = 2
  Start = 2
  MaxTime = 4
  MaxRestarts = 1
  MaxFaults = 2
  RootLife = 4
  ProvLife = 3
  MaxUserLife = 2
  AssertLife = 2
  Asked = 3
  Margin = 1
  KeyLife = 3
  None = None
INVARIANTS PromptIsAccepted MailKeyVerifies IdleIsLoggedIn
PROPERTY AloneIsServed
CHECK_DEADLOCK FALSE
