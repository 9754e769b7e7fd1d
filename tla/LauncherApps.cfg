CONSTANTS
  App = {1, 2}
  ForkRace = FALSE
  SleepTimeout = 1
  RetryTimeout = 1
  InactivityTimeout = 2
  LockedInactivity = 2
  Minute = 4
  MaxBatch = 2
  MaxOrphans = 0
  DraftsChange = TRUE
  Timed = FALSE
  Passcode = FALSE
  ForkFails = FALSE
  SleepFails = FALSE
SPECIFICATION Spec
INVARIANTS
  TypeOK
  AppsTracked
  HiddenHasApp
  OneForeground
  NoneLeftStopped
