SPECIFICATION Spec
CONSTANTS
  RxSize = 2
  TxSize = 2
  Bytes = {b1, b2}
  NoByte = noByte
  Message = 1
  Trips = "any"
  LateWriter = FALSE
CHECK_DEADLOCK FALSE
PROPERTIES
  TxIsQueue
