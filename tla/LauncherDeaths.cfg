CONSTANTS
  App = {1, 2}
  ForkRace = TRUE
  SleepTimeout = 2
  RetryTimeout = 1
  InactivityTimeout = 2
  LockedInactivity = 2
  Minute = 4
  MaxBatch = 1
  MaxOrphans = 0
  DraftsChange = FALSE
  Timed = FALSE
  Passcode = FALSE
  ForkFails = TRUE
  SleepFails = FALSE
SPECIFICATION FairSpec
PROPERTY
  DeathsNoticed
