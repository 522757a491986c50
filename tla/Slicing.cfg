CONSTANTS
  Domains = {"core"}
SPECIFICATION Spec
INVARIANT ByValueCarries
CHECK_DEADLOCK FALSE
