CONSTANTS
  Lists <- Lists123
  BufRanges = 2
  QueueCap = 1
  Blocks = {b1, b2}
  Rebuilds = FALSE
SPECIFICATION Spec
INVARIANT NoFault
