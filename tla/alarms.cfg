SPECIFICATION Spec
CONSTANTS
  BlockMax = 1
  SegMax = 1
  Events = {"reset", "button", "probe"}
  Commands = {"move", "home", "unlock", "probe", "jog", "check", "sleep", "program", "pause", "dwell"}
INVARIANTS
  TypeOK
  AlarmStill
  LimitsArmed
PROPERTIES
  LockKept
