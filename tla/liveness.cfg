SPECIFICATION FairSpec
CONSTANTS
  BlockMax = 1
  SegMax = 1
  Events = {"reset", "limit", "hold", "door"}
  Commands = {"move", "unlock"}
PROPERTIES
  ResetServed
  HoldCompletes
  DoorParks
