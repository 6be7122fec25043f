SPECIFICATION Spec
CONSTANTS
  Locals = {a, b}
  None = None
  Clients <- LateMC
SYMMETRY Symmetric
CHECK_DEADLOCK FALSE
INVARIANT UsesAsRead
