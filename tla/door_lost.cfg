SPECIFICATION Spec
CONSTANTS
  BlockMax = 1
  SegMax = 1
  Events = {"doorPin", "hold", "start"}
  Commands = {"move", "unlock"}
PROPERTIES
  OpenDoorStops
