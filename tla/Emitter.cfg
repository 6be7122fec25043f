SPECIFICATION Spec
CONSTANTS
  MaxSp = 3
  MaxOff = 100
  MaxLocals = 255
  MaxI32 = 100000
  JMPLINK_START = START
  NumLocals = 1
  Registers <- Few
  Operands <- Zero
  Literals <- Zero
  Ops <- FewOps
  MaxCode = 3
INVARIANTS TypeOK LastInsnExact BarrierHolds ChainsDescend ChainsDisjoint
  
