SPECIFICATION Spec
CONSTANTS
  BlockMax = 1
  SegMax = 1
  Events = {"probe", "start"}
  Commands = {"unlock", "probe"}
INVARIANTS
  CycleEnds
