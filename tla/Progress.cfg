SPECIFICATION FairSpec
CONSTANTS
  MaxSp = 16
  MaxOff = 1000
  MaxLocals = 255
  MaxI32 = 100000
  JMPLINK_START = START
  Modulus = 8
  CallArgLimit = 14
  LitAryMax = 64
  ArefMax = 255
  DirectReps = 255
  ValStackMax = 99
  Dialects <- Retries
CHECK_DEADLOCK FALSE
PROPERTY MachineKeepsUp
