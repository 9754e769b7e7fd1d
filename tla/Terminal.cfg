SPECIFICATION FairSpec
CONSTANTS
  MaxLines = 2
  LinesOf <- MCLinesOf
  Blank = blank
  Texts = {blank, a}
  BufferSize = 2
  MaxWrites = 2
  MaxTurns = 2
CHECK_DEADLOCK FALSE
INVARIANTS
  PanelFollows
  LandscapeFollows
PROPERTY
  PollWakes
