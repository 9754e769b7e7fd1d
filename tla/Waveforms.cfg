SPECIFICATION Spec
CONSTANTS
  Levels = 2
  Chunks <- MCChunks
  MaxChunks = 2
  Serials <- MCSerials
  Bounds <- MCBounds
  Temps <- MCTemps
  Width = 16
  Height = 4
  Regions <- MCRegions
CHECK_DEADLOCK FALSE
INVARIANTS
  RightTables
  UpdateDrivesAsFile
  RegionIsCovered
