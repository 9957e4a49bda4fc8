SPECIFICATION FairSpec
CONSTANTS
  RxSize = 2
  TxSize = 2
  Bytes = {b1, b2}
  NoByte = noByte
  Message = 1
  Trips = "quiet"
  LateWriter = FALSE
INVARIANTS
  TypeOK
  TxArmed
  RoomReported
PROPERTIES
  RxIsQueue
  TxIsQueue
  WriteReturns
