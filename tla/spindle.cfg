SPECIFICATION Spec
CONSTANTS
  MaxLevel = 3
  Speeds = {1, 3}
  SpinUp = 2
  SpinDown = 3
  MaxResets = 2
INVARIANTS
  SpindleAsAsked
PROPERTIES
  ResetStopsSpindle
