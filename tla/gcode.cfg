SPECIFICATION Spec
CONSTANTS
  MmPerInch = 2
  NCoord = 6
  Lines <- MCLines
  Stored <- MCStored
  Decaying = {0}
  Travel = 2
  SoftLimits = TRUE
  HomePosition <- MCHome
  MaxQueue = 2
  Refresh = 2
  MaxResets = 1
INVARIANTS
  PositionsAgree
  SystemIsStored
  OutputsFollowModes
  OffsetReported
PROPERTIES
  CheckModeStill
  WorkPositionSet
  LineEnds
