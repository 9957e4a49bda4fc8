SPECIFICATION Spec
CONSTANTS
  BlockMax = 1
  SegMax = 1
  Events = {"start", "hold", "doorPin"}
  Commands = {"move", "unlock"}
INVARIANTS
  MotionVisible
