SPECIFICATION Spec
CONSTANTS
  Base = 16
  Images <- MCImages
  Values = {1, 2}
  DefaultSettings <- MCSettings
  DefaultParams <- MCParams
  DefaultCoord <- MCCoord
  LossInOldUpgrade = FALSE
  MaxLosses = 2
  MaxStores = 2
INVARIANTS
  InUse
  RecordsKept
  SoftNeedsHoming
CHECK_DEADLOCK FALSE
