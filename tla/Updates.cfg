SPECIFICATION LiveSpec

CONSTANTS
  ngClient = ngClient
  config = config
  Files = {ngClient, config}
  Main = ngClient
  Versions = 3
  Size <- Sizes
  MaxFaults = 2

INVARIANTS
  TypeOK
PROPERTIES
  
  Repaired

CHECK_DEADLOCK FALSE
