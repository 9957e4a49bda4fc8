SPECIFICATION Spec
CONSTANTS
  BlockMax = 1
  SegMax = 1
  Events = {"reset", "limit"}
  Commands = {"move", "unlock"}
INVARIANTS
  AlarmStill
