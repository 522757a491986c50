CONSTANTS
  Domains = {"core", "ble", "phy", "dot15d4", "esb", "unifying", "board"}
SPECIFICATION Spec
INVARIANTS
  TypeOK WireFaithful ParsersAgree LimitsAgree
  ClassCarries NothingUnasked  
PROPERTY RefusalIsClean
CHECK_DEADLOCK FALSE
