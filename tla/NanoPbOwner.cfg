CONSTANTS
  Blocks = {m1, m2, m3}
  Ext = ext
  MaxDepth = 3
  CopiesOwned = FALSE
  UsesGiven = FALSE
SYMMETRY Renaming
SPECIFICATION Spec
INVARIANTS TypeOK NoFault OneOwner SentIsQueued
