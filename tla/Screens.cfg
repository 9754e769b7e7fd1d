SPECIFICATION Spec
CONSTANTS
  Digits = {1, 2}
  Codes <- MCCodes
  Positions <- MCPositions
  Controls <- MCControls
  Spins = {"quality", "notebook", "mode"}
  Top <- MCTop
  Jump = 2
INVARIANTS
  OffAfterFive
  ShownIsCopied
