CONSTANTS
  Blocks = {m1, m2}
  Ext = ext
  MaxDepth = 2
  CopiesOwned = TRUE
  UsesGiven = TRUE
SPECIFICATION Spec
INVARIANT NoDoubleRelease
