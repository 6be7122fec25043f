SPECIFICATION Spec
CONSTANTS
  Base = 4
  Inline = 2
  MinLong <- LeastInteger
  PoolMax = 2
  Clients <- ClientsMC
CHECK_DEADLOCK FALSE
INVARIANTS TypeOK  ChainsKept
  
