\* A page that signs up, two pages of mail, in any order, two changes of a
\* keyring, and one failure.
SPECIFICATION Spec
CONSTANTS
  Pages = 3
  MaxBusy = 2
  MaxChanges = 2
  MaxFaults = 1
  None = None
INVARIANT NoDangling
PROPERTIES KeyringStays PageOpens
CHECK_DEADLOCK FALSE
