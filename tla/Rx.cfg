CONSTANTS
  RingSize = 7
  Byte = {0, 2, 172, 190}
  Zero = 0
  Chunks <- Segments
  MaxStream = 10
  HostLines <- FewLines
  DestSizes = {1, 2}
SPECIFICATION FairSpec
INVARIANTS TypeOK PayloadFits DeliveredIsDecoding LinesArrive
PROPERTIES SinkRefinement AllDelivered FullDrains
