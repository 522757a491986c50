CONSTANTS
  RingSize = 6
  HeaderSize = 2
  LoopMsgs = 2
  IsrMsgs = 1
  Sizes = {1}
  MaxTxSizes = {2}
  Callbacks = {"sync", "async"}
  IsrDrains = TRUE
  MaxWire = 5
  Byte <- MCByte
  Zero <- MCZero
SPECIFICATION FairSpec
INVARIANT ReservationHolds
PROPERTIES QueueShifts SendingEnds
