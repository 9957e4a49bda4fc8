SPECIFICATION FairSpec
CONSTANTS
  RxSize = 1
  TxSize = 2
  Bytes = {b1}
  NoByte = noByte
  Message = 2
  Trips = "any"
  LateWriter = FALSE
CHECK_DEADLOCK FALSE
PROPERTIES
  TripReturns
