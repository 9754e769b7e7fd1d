SPECIFICATION FairSpec
CONSTANTS
  Thread = {t1, t2}
  Viewer = {v1}
  SocketOf <- OwnSocket
  OnePixel = FALSE
  MaxDraws = 1
  MaxCrashes = 0
  Window = 2
  MaxInbox = 1
CHECK_DEADLOCK FALSE
INVARIANTS
  TypeOK
PROPERTIES
  UpdateIsShown
  EveryoneServed
