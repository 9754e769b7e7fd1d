SPECIFICATION Spec
CONSTANTS
  Caller = {c1, c2}
  Buffers = 2
  MaxUpdates = 2
  MaxPhases = 2
  BlankDelays = {TRUE, FALSE}
  UnblankFails = TRUE
  Clean = Clean
  Mixed = Mixed
  Empty = Empty
INVARIANTS
  RingConsistent
  FramesNotStranded
PROPERTIES
  ShowsInOrder
  EverythingEnds
