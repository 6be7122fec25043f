SPECIFICATION Spec
CONSTANTS
  MaxSp = 24
  MaxOff = 1000
  MaxLocals = 255
  MaxI32 = 100000
  JMPLINK_START = START
  Modulus = 8
  CallArgLimit = 14
  LitAryMax = 64
  ArefMax = 255
  DirectReps = 255
  ValStackMax = 99
  Dialects <- Jumping
CHECK_DEADLOCK FALSE
INVARIANTS Agree StackBalanced NoRefusal LocalsReserved JumpsLand HandlersNest
PROPERTY RedoLandsOnNop
