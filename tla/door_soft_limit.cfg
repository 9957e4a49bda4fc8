SPECIFICATION FairSpec
CONSTANTS
  BlockMax = 1
  SegMax = 1
  Events = {"door"}
  Commands = {"move", "moveOut", "unlock"}
PROPERTIES
  DoorParks
