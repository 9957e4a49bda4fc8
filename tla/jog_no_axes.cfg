SPECIFICATION Spec
CONSTANTS
  MmPerInch = 2
  NCoord = 6
  Lines <- JogLines
  Stored <- MCStored
  Decaying = {}
  Travel = 2
  SoftLimits = TRUE
  HomePosition <- MCHome
  MaxQueue = 2
  Refresh = 2
  MaxResets = 1
PROPERTIES
  JogNamedAxes
