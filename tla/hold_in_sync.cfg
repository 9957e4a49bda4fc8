SPECIFICATION Spec
CONSTANTS
  BlockMax = 1
  SegMax = 1
  Events = {"hold", "start"}
  Commands = {"move", "spindle", "unlock"}
INVARIANTS
  SyncedAtRest
