SPECIFICATION Spec
CONSTANTS
  MaxSp = 24
  MaxOff = 1000
  MaxLocals = 255
  MaxI32 = 100000
  JMPLINK_START = START
  Modulus = 8
  CallArgLimit = 2
  LitAryMax = 2
  ArefMax = 2
  DirectReps = 0
  ValStackMax = 5
  Dialects <- SuperForwards
CHECK_DEADLOCK FALSE
INVARIANT Agree
