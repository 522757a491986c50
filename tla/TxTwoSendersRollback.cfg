CONSTANTS
  RingSize = 9
  HeaderSize = 4
  LoopMsgs = 2
  IsrMsgs = 1
  Sizes = {0, 3}
  MaxTxSizes = {3, 20}
  Callbacks = {"async"}
  IsrDrains = FALSE
  MaxWire = 14
  Byte <- MCByte
  Zero <- MCZero
SPECIFICATION Spec
INVARIANT FailedSendLeavesNothing
