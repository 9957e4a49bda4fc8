SPECIFICATION Spec
CONSTANTS
  BlockMax = 1
  SegMax = 1
  Events = {"start", "doorPin", "timeout"}
  Commands = {"move", "spindle", "coolant", "unlock"}
INVARIANTS
  ParkedOff
  CoolantRestored
PROPERTIES
  OpenDoorStops
