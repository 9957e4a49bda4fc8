SPECIFICATION Spec
CONSTANTS
  BlockMax = 2
  SegMax = 1
  Events = {"reset", "start", "hold", "jogCancel", "spindleStop"}
  Commands = {"move", "moveOut", "jog", "unlock", "spindle"}
INVARIANTS
  MotionVisible
  CycleEnds
  HoldAtRest
  NothingLeftSuspended
PROPERTIES
  ResumedByOperator
