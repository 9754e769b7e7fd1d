SPECIFICATION Spec
CONSTANTS
  Screens <- MCScreens
  Size <- MCSize
  Lcds = {"dark", "light"}
INVARIANTS
  ShowsState
  RectsCurrent
  AssertionsHold
