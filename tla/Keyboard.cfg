SPECIFICATION FairSpec
CONSTANTS
  FullKeys = {shift, a, esc}
  HiddenKeys = {esc2}
  Modifier = {shift}
  LongKeys = {esc, esc2}
  Slot = {s1, s2}
  PhysKey = {p, q}
  PhysCode <- OneShift
  NoSlot = none
  NoKey = none
  RepeatDelay = 1
  RepeatTime = 1
  MaxLate = 2
INVARIANTS
  TypeOK
  SlotsMatchFingers
  DrawnIsCurrent
PROPERTIES
  ChordEnds
  RepeatsOnTime
  KeysLetGo
