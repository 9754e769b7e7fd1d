CONSTANTS
  App = {1}
  ForkRace = FALSE
  SleepTimeout = 2
  RetryTimeout = 1
  InactivityTimeout = 2
  LockedInactivity = 2
  Minute = 4
  MaxBatch = 2
  MaxOrphans = 1
  DraftsChange = TRUE
  Timed = TRUE
  Passcode = TRUE
  ForkFails = FALSE
  SleepFails = FALSE
SPECIFICATION FairSpec
INVARIANTS
  SleepOnlyInLauncher
  LockedInLauncher
  CountdownFollowsClock
PROPERTY
  IdleSleeps
