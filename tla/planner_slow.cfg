SPECIFICATION Spec
CONSTANTS
  BufferSize = 4
  Lines <- MCLines
  ParkLine <- MCParkLine
  RapidRate = 3
  MinRate = 1
  Full = 2
  FeedMin = 1
  FeedMax = 2
  FeedCoarse = 1
  FeedFine = 1
  RapidOverrides = {1, 2}
  Width = 8
INVARIANTS
  SlowsInTime
