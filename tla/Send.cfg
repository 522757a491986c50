CONSTANTS
  Lists <- Lists123
  BufRanges = 2
  QueueCap = 2
  Blocks = {b1, b2}
  Rebuilds = TRUE
SPECIFICATION FairSpec
INVARIANTS TypeOK NoFault OwnershipFollowsResult
PROPERTIES AnnouncedToZero EventuallyAnnounced
