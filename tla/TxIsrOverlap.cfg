CONSTANTS
  RingSize = 9
  HeaderSize = 4
  LoopMsgs = 2
  IsrMsgs = 0
  Sizes = {0, 3}
  MaxTxSizes = {3, 20}
  Callbacks = {"async"}
  IsrDrains = TRUE
  MaxWire = 14
  Byte <- MCByte
  Zero <- MCZero
SPECIFICATION Spec
PROPERTY NoOverlap
