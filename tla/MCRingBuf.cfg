CONSTANTS
  RingSize = 4
  Byte = {0, 1}
  Zero = 0
SPECIFICATION Spec
INVARIANT TypeOK
PROPERTY FifoRefinement
