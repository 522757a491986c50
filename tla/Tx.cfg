CONSTANTS
  RingSize = 9
  HeaderSize = 4
  LoopMsgs = 3
  IsrMsgs = 0
  Sizes = {0, 3, 4, 5}
  MaxTxSizes = {3, 20}
  Callbacks = {"sync", "async"}
  IsrDrains = FALSE
  MaxWire = 14
  Byte <- MCByte
  Zero <- MCZero
SPECIFICATION FairSpec
INVARIANTS TypeOK Conservation FailedSendLeavesNothing
PROPERTIES TxBufStable NoOverlap PendingAccepted SendingEnds StreamRefinement
