SPECIFICATION Spec
CONSTANTS
  Thread = {t1, t2}
  Viewer = {v1, v2}
  SocketOf <- OneSocket
  OnePixel = FALSE
  MaxDraws = 1
  MaxCrashes = 1
  Window = 1
  MaxInbox = 1
SYMMETRY Exchanged
VIEW Relevant
CHECK_DEADLOCK FALSE
INVARIANTS
  NeverBlocks
  AnswersMatchCalls
  DrawingKept
